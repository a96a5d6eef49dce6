------------------------------ MODULE FpValues ------------------------------
(* The operators of FpFormat tried on every value of a small format.        *)
EXTENDS FpFormat

CONSTANTS DoubleSample     \* the second operands tried with a double
SampleAssumption ==
    /\ DoubleSample \subseteq Values(Double)
    /\ DoubleFrac > Width(Single)

\* What the proofs use of the fields: facts of arithmetic.
FieldFacts ==
    /\ \A f \in {Single, Double} :
          /\ 2^f.exp \in Nat \ {0, 1} /\ 2^(f.frac - 1) \in Nat \ {0}
          /\ 2^f.frac = 2 * 2^(f.frac - 1) /\ SIGN(f) = 2^f.exp * 2^f.frac
    /\ 2^(DoubleFrac - Width(Single)) \in Nat \ {0, 1}
    /\ 2^DoubleFrac = 2^Width(Single) * 2^(DoubleFrac - Width(Single))

VARIABLES fmt, a, b
vars == <<fmt, a, b>>

\* Every single with every single, every double with the sample.
Init ==
    /\ a = 0
    /\ \/ fmt = Single /\ b \in Values(Single)
       \/ fmt = Double /\ b \in DoubleSample
Next == a' = (a + 1) % 2^Width(fmt) /\ UNCHANGED <<fmt, b>>
Spec == Init /\ [][Next]_vars

-----------------------------------------------------------------------------
\* fclass answers exactly one class, and a greater number never has a class
\* further to the left (common/float.cpp: -inf is bit 0, +inf is bit 7).
ClassesFollowOrder ==
    /\ \E n \in 0 .. 9 : classify(fmt, a) = 2^n
    /\ softfloat_lt(fmt, a, b) => classify(fmt, a) <= classify(fmt, b)
    /\ (isNegative(fmt, a) /\ ~isNegative(fmt, b) /\ Ordered(fmt, a, b))
          => classify(fmt, a) < classify(fmt, b)

\* A register read as a single gives back what was boxed into it and the
\* default NaN for anything else; what was boxed is a NaN as a double
\* (FPR::read_32 and write_32).
BoxedOrNaN ==
    /\ fmt = Single => /\ read_32(box(a)) = a
                       /\ isNaN(Double, box(a))
    /\ fmt = Double => \/ box(read_32(a)) = a
                       \/ /\ ~ \E v \in Values(Single) : a = box(v)
                          /\ read_32(a) = DEFAULT_NAN(Single)

\* fmin and fmax are the ends of the order in which -0 is below +0; a NaN
\* gives way to a number, and two NaNs give the default NaN
\* (execute.cpp, fmin_s to fmax_d).
SortKey(f, v) == IF isNegative(f, v) THEN 0 - Magnitude(f, v) - 1 ELSE Magnitude(f, v)
MinMaxAreEnds ==
    LET lo == fmin(fmt, a, b)
        hi == fmax(fmt, a, b)
    IN CASE Ordered(fmt, a, b)           -> /\ {lo, hi} = {a, b}
                                            /\ SortKey(fmt, lo) <= SortKey(fmt, hi)
         [] isNaN(fmt, a) /\ isNaN(fmt, b) -> lo = DEFAULT_NAN(fmt) /\ hi = DEFAULT_NAN(fmt)
         [] OTHER                        -> lo = hi /\ ~isNaN(fmt, lo) /\ lo \in {a, b}

\* The sign injections leave everything but the sign alone, and the three
\* agree as the assembler's fmv, fneg and fabs need them to.
SignsOnly ==
    /\ \A r \in {fsgnj(fmt, a, b), fsgnjn(fmt, a, b), fsgnjx(fmt, a, b)} :
          Magnitude(fmt, r) = Magnitude(fmt, a)
    /\ isNegative(fmt, fsgnj(fmt, a, b)) = isNegative(fmt, b)
    /\ fsgnjn(fmt, a, b) = neg(fmt, fsgnj(fmt, a, b))
    /\ isNegative(fmt, fsgnjx(fmt, a, b)) = (isNegative(fmt, a) # isNegative(fmt, b))
=============================================================================
