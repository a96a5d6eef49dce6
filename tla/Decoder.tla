------------------------------ MODULE Decoder -------------------------------
(* What the two halves of core/decoder.cpp share: instruction words as sets *)
(* of the positions of their one bits, the helpers of common/bit.hpp on     *)
(* them, patterns, and the immediates as the instruction set manual lays    *)
(* them out.                                                                *)
EXTENDS Integers, Sequences, FiniteSetsExt

\* bits(x, hi, lo).
Bits(x, hi, lo) == SumSet({2^(k - lo) : k \in x \cap (lo .. hi)})

\* sext of a value of len bits.
Sext(v, len) == IF v >= 2^(len - 1) THEN v - 2^(len - 1) - 2^(len - 1) ELSE v

\* A pattern is a set of fields <<hi, lo, value>>; other bits may be anything.
Matches(x, fields) == \A f \in fields : Bits(x, f[1], f[2]) = f[3]

\* The positions that a pattern wants to be one, or zero.
FieldOnes(f) == {k \in f[2] .. f[1] : (f[3] \div 2^(k - f[2])) % 2 = 1}
Ones(fields) == UNION {FieldOnes(f) : f \in fields}
Zeros(fields) == UNION {(f[2] .. f[1]) \ FieldOnes(f) : f \in fields}
Disjoint(p, q) == Ones(p) \cap Zeros(q) # {} \/ Zeros(p) \cap Ones(q) # {}

\* An immediate in the manual's notation: a set of pieces <<hi, lo, from>>, the
\* bits hi .. lo of the immediate being those from .. from - (hi - lo) of x. The
\* highest bit of a signed immediate counts negative.
RefImm(x, pieces, signed) ==
    LET hiBit == CHOOSE h \in {p[1] : p \in pieces} : \A p \in pieces : p[1] <= h
        bit(k) == \E p \in pieces :
                     k \in p[2] .. p[1] /\ p[3] - (p[1] - k) \in x
        set == {k \in 0 .. hiBit - 1 : bit(k)}
        top == IF ~bit(hiBit) THEN 0
               ELSE IF signed THEN 0 - 2^(hiBit - 1) - 2^(hiBit - 1) ELSE 2^hiBit
    IN  SumSet({2^k : k \in set}) + top
=============================================================================
