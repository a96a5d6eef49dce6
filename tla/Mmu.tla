-------------------------------- MODULE Mmu ---------------------------------
(* The two TLBs of MMU::translate, include/core/mmu.hpp, over page tables  *)
(* that the guest changes: direct-mapped, filled by the walk, one entry    *)
(* per 4 KiB page even where a superpage maps it.                          *)
EXTENDS Sv39, FiniteSets

CONSTANTS
    TLB_ENTRIES,
    Satps,       \* the root tables the guest puts into satp
    Slots,       \* the table entries the guest changes
    Entries,     \* the values it stores there
    Modes,       \* the privileges and settings it runs with
    MaxUnfenced  \* bound: the pages it leaves unfenced at a time

MmuAssumption ==
    /\ TLB_ENTRIES \in Nat \ {0}
    /\ Satps \subseteq Tables
    /\ Slots \subseteq Tables \X (0 .. Digits - 1)
    /\ Entries \subseteq Pte /\ Modes \subseteq Mode
    /\ MaxUnfenced \in Nat

VARIABLES
    mem,         \* the page tables
    satp,        \* the root table
    itlb, dtlb,
    unfenced     \* history: pages whose valid mapping changed without a fence

vars == <<mem, satp, itlb, dtlb, unfenced>>

Invalid == [valid |-> FALSE, vpn |-> 0, ppn |-> 0, perm |-> {}, dirty |-> FALSE]
TlbEntry == [valid : BOOLEAN, vpn : Vpn, ppn : Nat, perm : SUBSET Perm, dirty : BOOLEAN]
Idx   == 0 .. TLB_ENTRIES - 1
Flushed == [k \in Idx |-> Invalid]

TypeOK ==
    /\ mem \in [Tables -> [0 .. Digits - 1 -> Pte]]
    /\ satp \in Tables
    /\ itlb \in [Idx -> TlbEntry] /\ dtlb \in [Idx -> TlbEntry]
    /\ unfenced \subseteq Vpn

Init ==
    /\ mem \in [Tables -> [0 .. Digits - 1 ->
                   {[v |-> FALSE, perm |-> {}, a |-> FALSE, d |-> FALSE, rsv |-> FALSE, ppn |-> 0]}]]
    /\ satp \in Satps
    /\ itlb = Flushed /\ dtlb = Flushed
    /\ unfenced = {}

-----------------------------------------------------------------------------
Tlb(type) == IF type = "Fetch" THEN itlb ELSE dtlb

\* An entry answers only what it allows; all else goes to the walk, which
\* faults or looks again.
Hits(e, vpn, type, m) ==
    /\ e.valid /\ e.vpn = vpn
    /\ PrivAllows(e.perm, type, m) /\ TypeAllows(e.perm, type, m)
    /\ type = "Store" => e.dirty

Filled(r, vpn) ==
    [valid |-> TRUE, vpn |-> vpn, ppn |-> r.ppn, perm |-> r.perm, dirty |-> r.dirty]

\* An access that misses: the walk sets A and D and fills the TLB.
Access(vpn, type, m) ==
    LET k == vpn % TLB_ENTRIES
        r == Walk(mem, satp, vpn, type, m)
    IN  /\ ~Hits(Tlb(type)[k], vpn, type, m)
        /\ r.kind = "ok"
        /\ mem' = [mem EXCEPT ![r.at[1]][r.at[2]] = r.new]
        /\ IF type = "Fetch" THEN itlb' = [itlb EXCEPT ![k] = Filled(r, vpn)] /\ UNCHANGED dtlb
                             ELSE dtlb' = [dtlb EXCEPT ![k] = Filled(r, vpn)] /\ UNCHANGED itlb
        /\ UNCHANGED <<satp, unfenced>>

-----------------------------------------------------------------------------
(* The leaf that maps a page, permissions aside; {} if there is none.      *)
Any == [priv |-> "S", sum |-> TRUE, mxr |-> TRUE, adue |-> TRUE]
LeafOf(tables, root, vpn) ==
    LET r == Walk(tables, root, vpn, "Load", Any)
    IN  IF r.kind = "ok" THEN {<<r.ppn, tables[r.at[1]][r.at[2]]>>} ELSE {}

\* The guest changes a page table entry in memory; the pages that were mapped
\* through it must be fenced before the change is sure to count.
StorePte(slot, p) ==
    /\ mem' = [mem EXCEPT ![slot[1]][slot[2]] = p]
    /\ unfenced' = unfenced \cup
          {vpn \in Vpn : /\ LeafOf(mem, satp, vpn) # {}
                         /\ LeafOf(mem', satp, vpn) # LeafOf(mem, satp, vpn)}
    /\ Cardinality(unfenced') <= MaxUnfenced
    /\ UNCHANGED <<satp, itlb, dtlb>>

(* Wrong variant: the flush of one page forgets the instruction TLB. *)
FlushPageData(vpn) ==
    /\ dtlb' = [k \in Idx |-> IF dtlb[k].vpn = vpn THEN Invalid ELSE dtlb[k]]
    /\ unfenced' = unfenced \ {vpn}
    /\ UNCHANGED <<mem, satp, itlb>>

\* sfence.vma with an address: tlb_flush_vaddr.
FlushPage(vpn) ==
    /\ dtlb' = [k \in Idx |-> IF dtlb[k].vpn = vpn THEN Invalid ELSE dtlb[k]]
    /\ itlb' = [k \in Idx |-> IF itlb[k].vpn = vpn THEN Invalid ELSE itlb[k]]
    /\ unfenced' = unfenced \ {vpn}
    /\ UNCHANGED <<mem, satp>>

\* sfence.vma without one: tlb_flush_all.
FlushAll ==
    /\ itlb' = Flushed /\ dtlb' = Flushed
    /\ unfenced' = {}
    /\ UNCHANGED <<mem, satp>>

\* A write of satp flushes, but only if the value changes.
WriteSatp(root) ==
    /\ satp' = root
    /\ IF root # satp THEN itlb' = Flushed /\ dtlb' = Flushed /\ unfenced' = {}
                      ELSE UNCHANGED <<itlb, dtlb, unfenced>>
    /\ UNCHANGED mem

Next ==
    \/ \E vpn \in Vpn, type \in Type, m \in Modes : Access(vpn, type, m)
    \/ \E slot \in Slots, p \in Entries : StorePte(slot, p)
    \/ \E vpn \in Vpn : FlushPage(vpn)
    \/ FlushAll
    \/ \E root \in Satps : WriteSatp(root)

Spec == Init /\ [][Next]_vars

-----------------------------------------------------------------------------
(* Properties.                                                             *)

\* Whatever the TLBs hold, an access to a page whose mapping has not changed
\* behind their back is translated as the tables say and faults where they do,
\* also after changes of privilege, SUM, MXR and ADUE, which do not flush.
TranslationIsWalk ==
    \A vpn \in Vpn \ unfenced, type \in Type, m \in Modes :
        LET e == Tlb(type)[vpn % TLB_ENTRIES]
            r == Walk(mem, satp, vpn, type, m)
        IN  Hits(e, vpn, type, m) => r.kind = "ok" /\ r.ppn = e.ppn

\* A store never goes through an entry whose page is not marked dirty in
\* memory: no modified page is missed by software that scans the D bits.
NoSilentStore ==
    \A vpn \in Vpn \ unfenced, m \in Modes :
        Hits(dtlb[vpn % TLB_ENTRIES], vpn, "Store", m) =>
            \E r \in LeafOf(mem, satp, vpn) : r[2].a /\ r[2].d
=============================================================================
