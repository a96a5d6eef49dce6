------------------------------ MODULE FpFormat ------------------------------
(* Floating-point values: common/float.hpp, common/float.cpp, the register  *)
(* FPR of core/hart.hpp and the sign, minimum, maximum and compare          *)
(* instructions of core/execute.cpp. The code works on the bits of IEEE     *)
(* single and double; a format here is any sign, exponent and fraction      *)
(* width, and a value is the unsigned number of its bits. A single fills    *)
(* the low half of a register, as in the code.                              *)
EXTENDS Integers

CONSTANTS SingleExp, SingleFrac,    \* 8 and 23 in the code
          DoubleExp, DoubleFrac     \* 11 and 52 in the code
Single == [exp |-> SingleExp, frac |-> SingleFrac]
Double == [exp |-> DoubleExp, frac |-> DoubleFrac]
Width(f) == 1 + f.exp + f.frac
FormatAssumption ==
    /\ SingleExp \in Nat \ {0, 1} /\ SingleFrac \in Nat \ {0, 1}
    /\ DoubleExp \in Nat \ {0, 1} /\ DoubleFrac \in Nat \ {0, 1}
    /\ Width(Double) = 2 * Width(Single)

Values(f) == 0 .. 2^Width(f) - 1

-----------------------------------------------------------------------------
\* The fields, and the predicates of float.hpp.
SIGN(f) == 2^(Width(f) - 1)
ExpOf(f, v) == (v \div 2^f.frac) % 2^f.exp
FracOf(f, v) == v % 2^f.frac
Inf(f) == (2^f.exp - 1) * 2^f.frac
DEFAULT_NAN(f) == Inf(f) + 2^(f.frac - 1)

\* What the proofs use of the powers of two: facts of arithmetic.
PowerFacts ==
    /\ 2^Width(Single) \in Nat /\ 2^Width(Double) = 2^Width(Single) * 2^Width(Single)
    /\ \A f \in {Single, Double} :
          /\ SIGN(f) \in Nat \ {0} /\ 2^Width(f) = 2 * SIGN(f)
          /\ DEFAULT_NAN(f) \in Values(f)

isNegative(f, v) == v >= SIGN(f)
neg(f, v) == (v + SIGN(f)) % 2^Width(f)
isNaN(f, v) == ExpOf(f, v) = 2^f.exp - 1 /\ FracOf(f, v) # 0

\* SoftFloat: a NaN whose first fraction bit is clear is signaling.
isSignalingNaN(f, v) == isNaN(f, v) /\ FracOf(f, v) < 2^(f.frac - 1)

\* f32_classify and f64_classify: one bit of ten.
classify(f, v) ==
    LET infOrNaN == ExpOf(f, v) = 2^f.exp - 1
        subnormalOrZero == ExpOf(f, v) = 0
        sign == isNegative(f, v)
        fracZero == FracOf(f, v) = 0
        bit(c, n) == IF c THEN 2^n ELSE 0
    IN bit(sign /\ infOrNaN /\ fracZero, 0)
       + bit(sign /\ ~infOrNaN /\ ~subnormalOrZero, 1)
       + bit(sign /\ subnormalOrZero /\ ~fracZero, 2)
       + bit(sign /\ subnormalOrZero /\ fracZero, 3)
       + bit(~sign /\ infOrNaN /\ fracZero, 7)
       + bit(~sign /\ ~infOrNaN /\ ~subnormalOrZero, 6)
       + bit(~sign /\ subnormalOrZero /\ ~fracZero, 5)
       + bit(~sign /\ subnormalOrZero /\ fracZero, 4)
       + bit(isSignalingNaN(f, v), 8)
       + bit(isNaN(f, v) /\ ~isSignalingNaN(f, v), 9)

-----------------------------------------------------------------------------
\* A single in a register: the high half is all ones.
HighOnes == (2^Width(Single) - 1) * 2^Width(Single)
is_boxed(r) == r \div 2^Width(Single) = 2^Width(Single) - 1
unbox(r) == r % 2^Width(Single)
box(v) == v + HighOnes
read_32(r) == IF is_boxed(r) THEN unbox(r) ELSE DEFAULT_NAN(Single)
ReadAs(f, r) == IF f = Single THEN read_32(r) ELSE r
WriteAs(f, v) == IF f = Single THEN box(v) ELSE v

-----------------------------------------------------------------------------
\* SoftFloat's comparisons: the order of sign and magnitude, in which the two
\* zeros are equal and a NaN is unordered.
Magnitude(f, v) == v % SIGN(f)
Ordered(f, u, v) == ~isNaN(f, u) /\ ~isNaN(f, v)
Number(f, v) == IF isNegative(f, v) THEN 0 - Magnitude(f, v) ELSE Magnitude(f, v)
softfloat_lt(f, u, v) == Ordered(f, u, v) /\ Number(f, u) < Number(f, v)
softfloat_le(f, u, v) == Ordered(f, u, v) /\ Number(f, u) <= Number(f, v)
softfloat_eq(f, u, v) == Ordered(f, u, v) /\ Number(f, u) = Number(f, v)

\* fmin_s, fmin_d, fmax_s and fmax_d.
fmin(f, u, v) ==
    LET smaller == softfloat_lt(f, u, v) \/ (softfloat_eq(f, u, v) /\ isNegative(f, u))
    IN IF isNaN(f, u) /\ isNaN(f, v) THEN DEFAULT_NAN(f)
       ELSE IF smaller \/ isNaN(f, v) THEN u ELSE v
fmax(f, u, v) ==
    LET greater == softfloat_lt(f, v, u) \/ (softfloat_eq(f, v, u) /\ isNegative(f, v))
    IN IF isNaN(f, u) /\ isNaN(f, v) THEN DEFAULT_NAN(f)
       ELSE IF greater \/ isNaN(f, v) THEN u ELSE v

\* fsgnj, fsgnjn and fsgnjx of both formats.
SignBit(f, v) == v - Magnitude(f, v)
fsgnj(f, u, v) == Magnitude(f, u) + SignBit(f, v)
fsgnjn(f, u, v) == Magnitude(f, u) + SignBit(f, neg(f, v))
fsgnjx(f, u, v) == (u + SignBit(f, v)) % 2^Width(f)

=============================================================================
