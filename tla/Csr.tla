-------------------------------- MODULE Csr ---------------------------------
(* Access to the control and status registers: who may read and write which *)
(* (check_permissions of the classes in core/hart.hpp), what a write leaves *)
(* in a register (their write_unchecked), and the six instructions of       *)
(* core/execute.cpp. A value is the set of its one bits, of which four are  *)
(* kept: the lowest ones, and in menvcfg and satp bits 2 and 3 stand for    *)
(* the two highest (ADUE and STCE, the mode). mstatus, mip and the          *)
(* delegation registers are Hart's and Mip's, the floating-point ones Fp's. *)
EXTENDS Naturals, FiniteSets

CONSTANTS WriteValues,   \* operands of the instructions
          MaxWrites      \* bound: writes that change a register in one run

VARIABLES priv, tvm,     \* the privilege, mstatus.TVM
          reg,           \* the value of every register with state
          out,           \* the instruction just executed
          writes
vars == <<priv, tvm, reg, out, writes>>

Bits == 0 .. 3
CsrAssumption == WriteValues \subseteq SUBSET Bits /\ MaxWrites \in Nat

U == 0
S == 1
M == 3
Privs == {U, S, M}

-----------------------------------------------------------------------------
\* The registers: plain ones keep what is written, masked ones some bits.
\* One of a kind stands for the others: mscratch for mcause, mtval and the
\* pmpaddr, sscratch for scause and stval, misa for the hardwired ones,
\* mvendorid for the constant ones.
CY == 0
TM == 1
IR == 2
STCE == 3
MachineRegs == {"mscratch", "mcounteren", "mtvec", "mepc", "mie", "menvcfg"}
SupervisorRegs == {"sscratch", "stimecmp", "stvec", "sepc", "scounteren", "senvcfg", "satp"}
Stateful == MachineRegs \cup SupervisorRegs
Hardwired == {"misa"}
Constant == {"mvendorid"}
UserCounters == {"cycle", "time", "instret", "hpmcounter3"}
Csrs == Stateful \cup Hardwired \cup Constant \cup UserCounters \cup {"sie", "unimplemented"}

CounterBit == [cycle |-> CY, time |-> TM, instret |-> IR, hpmcounter3 |-> 3]
Machine == MachineRegs \cup Hardwired \cup Constant \cup {"unimplemented"}
(* Wrong variant: mtvec is built as stvec is. *)
MinPrivTvec(c) ==
    IF c \in Machine \ {"mtvec"} THEN M ELSE IF c \in UserCounters THEN U ELSE S

MinPriv(c) == IF c \in Machine THEN M ELSE IF c \in UserCounters THEN U ELSE S

TvecMask == Bits \ {1}
EpcMask == Bits \ {0}
MieMask == {1, 3}                \* SSIE and MSIE, of six
MenvcfgMask == {0, 2, STCE}      \* FIOM, ADUE and STCE
SenvcfgMask == {0}
ScounterenMask == {CY, TM, IR}
Mask(c) ==
    CASE c \in {"mtvec", "stvec"} -> TvecMask
      [] c \in {"mepc", "sepc"}   -> EpcMask
      [] c = "mie"                -> MieMask
      [] c = "menvcfg"            -> MenvcfgMask
      [] c = "senvcfg"            -> SenvcfgMask
      [] c = "scounteren"         -> ScounterenMask
      [] OTHER                    -> Bits
SieMask == {1}

-----------------------------------------------------------------------------
\* check_permissions at privilege p, with the registers r.
CounterAllowed(c, p, r) ==
    \/ p = M
    \/ /\ CounterBit[c] \in r["mcounteren"]
       /\ p = U => CounterBit[c] \in r["scounteren"]
StimecmpAllowed(p, r) == p = M \/ (p = S /\ TM \in r["mcounteren"] /\ STCE \in r["menvcfg"])
SatpAllowed(p) == ~(p = S /\ tvm) /\ p >= S
Allowed(c, p, r) ==
    CASE c \in UserCounters -> CounterAllowed(c, p, r)
      [] c = "stimecmp"     -> StimecmpAllowed(p, r)
      [] c = "satp"         -> SatpAllowed(p)
      [] c = "unimplemented" -> FALSE
      [] OTHER              -> p >= MinPriv(c)
\* write_checked of ConstCSR always raises.
WriteAllowed(c, p, r) == Allowed(c, p, r) /\ c \notin Constant \cup UserCounters

\* read_unchecked; the counters' values are not kept here.
Read(c, r) ==
    CASE c \in Stateful -> r[c]
      [] c = "sie"      -> r["mie"] \cap SieMask
      [] OTHER          -> {}

\* SATP::write_unchecked: a mode other than Bare and Sv39 is ignored (the TLB
\* it empties is Mmu's).
SatpMode(v) == v \cap {2, 3}
SatpChanges(v) == reg["satp"] # v /\ SatpMode(v) \in {{}, {3}}
Written(c, v, r) ==
    CASE c = "satp"      -> IF SatpChanges(v) THEN [r EXCEPT !["satp"] = v] ELSE r
      [] c = "sie"       -> [r EXCEPT !["mie"] = v \cap SieMask \cap Mask("mie")]
      [] c \in Stateful \ {"satp"} -> [r EXCEPT ![c] = v \cap Mask(c)]
      [] OTHER           -> r

-----------------------------------------------------------------------------
Idle == [op |-> "none", sie |-> FALSE, trap |-> FALSE, rd |-> FALSE, wrote |-> FALSE]
Init ==
    /\ priv = M /\ tvm = FALSE
    /\ reg = [c \in Stateful |-> {}]
    /\ out = Idle
    /\ writes = 0

Leaves(op, c, trap, rd) ==
    /\ out' = [op |-> op, sie |-> c = "sie", trap |-> trap, rd |-> rd, wrote |-> FALSE]
    /\ UNCHANGED <<priv, tvm, reg, writes>>
Writes(op, c, rd, v) ==
    /\ reg' = Written(c, v, reg)
    /\ writes' = IF reg' # reg THEN writes + 1 ELSE writes
    /\ writes' <= MaxWrites
    /\ out' = [op |-> op, sie |-> c = "sie", trap |-> FALSE, rd |-> rd, wrote |-> TRUE]
    /\ UNCHANGED <<priv, tvm>>

\* csrrs, csrrc and their immediate forms: read, write unless the operand is
\* x0 or zero, then rd.
ReadModify(c, v, none) ==
    \/ ~Allowed(c, priv, reg) /\ Leaves("csr", c, TRUE, FALSE)
    \/ Allowed(c, priv, reg) /\ none /\ Leaves("csr", c, FALSE, TRUE)
    \/ Allowed(c, priv, reg) /\ ~none /\ ~WriteAllowed(c, priv, reg) /\ Leaves("csr", c, TRUE, FALSE)
    \/ WriteAllowed(c, priv, reg) /\ ~none /\ Writes("csr", c, TRUE, v)
csrrs(c, v, none) == ReadModify(c, Read(c, reg) \cup v, none)
csrrc(c, v, none) == ReadModify(c, Read(c, reg) \ v, none)
csrrsi(c, v) == ReadModify(c, Read(c, reg) \cup v, v = {})
csrrci(c, v) == ReadModify(c, Read(c, reg) \ v, v = {})

\* csrrw: rd is written last, and nothing is read for x0.
csrrw(c, v, rd) ==
    \/ ~WriteAllowed(c, priv, reg) /\ Leaves("csr", c, TRUE, FALSE)
    \/ WriteAllowed(c, priv, reg) /\ Writes("csr", c, rd, v)

\* csrrwi: rd is written between the read and the write.
csrrwi(c, v, rd) ==
    \/ ~WriteAllowed(c, priv, reg) /\ Leaves("csrrwi", c, TRUE, rd /\ Allowed(c, priv, reg))
    \/ WriteAllowed(c, priv, reg) /\ Writes("csrrwi", c, rd, v)

CsrInsn ==
    /\ out = Idle
    /\ \E c \in Csrs, v \in WriteValues :
        \/ \E none \in BOOLEAN : csrrs(c, v, none) \/ csrrc(c, v, none)
        \/ csrrsi(c, v) \/ csrrci(c, v)
        \/ \E rd \in BOOLEAN : csrrw(c, v, rd) \/ csrrwi(c, v, rd)

\* The rest of the hart: traps and returns change the privilege, mstatus.TVM
\* is written in M.
Environment ==
    /\ out = Idle
    /\ \/ priv' \in Privs /\ UNCHANGED tvm
       \/ priv = M /\ tvm' \in BOOLEAN /\ UNCHANGED priv
    /\ UNCHANGED <<reg, out, writes>>
Retire == out # Idle /\ out' = Idle /\ UNCHANGED <<priv, tvm, reg, writes>>
Next == CsrInsn \/ Environment \/ Retire
Spec == Init /\ [][Next]_vars

-----------------------------------------------------------------------------
\* Every register holds only bits it has, and satp a supported mode.
TypeOK ==
    /\ priv \in Privs /\ writes \in 0 .. MaxWrites
    /\ \A c \in Stateful : reg[c] \subseteq Mask(c)
    /\ SatpMode(reg["satp"]) \in {{}, {3}}

\* Permission grows with privilege: what a mode may read or write, every
\* higher mode may too, whatever mcounteren, scounteren, menvcfg and TVM say.
PrivilegeIsLayered ==
    \A c \in Csrs : \A p, q \in Privs :
        p <= q => /\ Allowed(c, p, reg) => Allowed(c, q, reg)
                  /\ WriteAllowed(c, p, reg) => WriteAllowed(c, q, reg)

\* Software below M changes no register of M's, whichever instruction and
\* register it uses; sie, a view of mie, is the one way in.
MachineIsItsOwn ==
    [][(priv # M /\ out' # Idle) =>
          \A c \in MachineRegs : reg'[c] = reg[c] \/ (c = "mie" /\ out'.sie)]_vars

\* A register written with what it reads keeps everything, so that csrrs and
\* csrrc change only the bits they name; sie loses the machine's enables.
WritingBackIsIdle ==
    \A c \in Csrs \ {"sie"} : Written(c, Read(c, reg), reg) = reg

\* A CSR instruction that raises an exception leaves no trace, csrrwi apart.
TrapsLeaveNoTrace ==
    out.trap => (~out.wrote /\ (out.op # "csrrwi" => ~out.rd))
=============================================================================
