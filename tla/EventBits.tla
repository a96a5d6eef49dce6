------------------------------ MODULE EventBits -----------------------------
(* The capability bits of the input device (set_event_bits, get_page_len   *)
(* and get_page_data of src/device/goldfish_events.cpp): ranges of bits    *)
(* entered into an array of bytes that grows, and read back by the guest a *)
(* byte at a time.  A byte is the set of its bits.                         *)
EXTENDS Naturals, Sequences

CONSTANTS
    Width,    \* 8: bits of a byte
    MaxBit,   \* bound: the highest bit number entered
    EV_MAX    \* the highest event type

BitsAssumption == Width \in Nat \ {0} /\ MaxBit \in Nat /\ EV_MAX \in Nat

VARIABLES
    bits,     \* ev_bits_: for each type its bytes
    wanted    \* history: for each type the bits entered

vars  == <<bits, wanted>>
Byte  == 0 .. Width - 1
Types == 0 .. EV_MAX

Init ==
    /\ bits = [t \in Types |-> <<>>]
    /\ wanted = [t \in Types |-> {}]

\* bits.resize(n, 0), which only grows here.
Resize(s, n) == s \o [k \in 1 .. n - Len(s) |-> {}]

MaskL(l) == {j \in Byte : j >= l % Width}
MaskH(h) == {j \in Byte : j <= h % Width}

\* The bytes s with the bits l .. h set.
Merge(s, l, h) ==
    LET il == l \div Width
        ih == h \div Width
    IN  IF il >= ih
        THEN [s EXCEPT ![ih + 1] = @ \cup (MaskH(h) \cap MaskL(l))]
        ELSE [k \in 1 .. Len(s) |->
                CASE k - 1 = il -> s[k] \cup MaskL(l)
                  [] k - 1 = ih -> s[k] \cup MaskH(h)
                  [] il < k - 1 /\ k - 1 < ih -> Byte
                  [] OTHER -> s[k]]

\* The array holds byte h / 8 afterwards.
Grown(s, h) == IF h \div Width >= Len(s) THEN Resize(s, h \div Width + 1) ELSE s

\* A type above EV_MAX returns at once; a single bit is the range l .. l.
SetEventBits(t, l, h) ==
    /\ bits' = [bits EXCEPT ![t] = Merge(Grown(bits[t], h), l, h)]
    /\ wanted' = [wanted EXCEPT ![t] = @ \cup l .. h]

Next == \E t \in Types, l \in 0 .. MaxBit, h \in 0 .. MaxBit :
            l <= h /\ SetEventBits(t, l, h)

Spec == Init /\ [][Next]_vars

-----------------------------------------------------------------------------
\* get_page_len and get_page_data of the page of type t.
PageLen(t) == Len(bits[t])
PageData(t, offset) == IF offset >= PageLen(t) THEN {} ELSE bits[t][offset + 1]

\* A driver that asks for the length and reads the bytes learns exactly the
\* bits that were entered, whatever ranges came before, overlapping or not,
\* within a byte, across bytes or up to their edges.
PagesShowBits ==
    \A t \in Types :
        wanted[t] = {n \in 0 .. Width * PageLen(t) :
                        n % Width \in PageData(t, n \div Width)}
=============================================================================
