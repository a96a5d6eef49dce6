-------------------------------- MODULE Alu ---------------------------------
(* The integer, multiply, divide and atomic arithmetic of core/execute.cpp, *)
(* on registers of XLEN bits that hold words of WLEN bits: 64 and 32 in the *)
(* code, smaller here, and tried on every pair of register values. A value  *)
(* is the unsigned number in the register.                                  *)
EXTENDS Integers

CONSTANTS XLEN, WLEN
AluAssumption ==
    /\ WLEN \in Nat /\ XLEN = 2 * WLEN
    /\ \E k \in 1 .. WLEN : 2^k = WLEN

\* What the proofs use of the powers of two: facts of arithmetic.
PowerFacts ==
    /\ 2^0 = 1 /\ 2^1 = 2
    /\ \A m \in 0 .. XLEN : 2^m \in Nat \ {0}
    /\ \A m, n \in 0 .. XLEN : 2^(m + n) = 2^m * 2^n

VARIABLES x1, x2        \* the registers; rs1 and rs2 name them
vars == <<x1, x2>>

Reg == 0 .. 2^XLEN - 1
Init == x1 = 0 /\ x2 = 0

\* Casts between widths, and sext.
Wrap(n, len) == n % 2^len
Signed(v, len) == IF v >= 2^(len - 1) THEN v - 2^len ELSE v
Sext(v) == Wrap(Signed(Wrap(v, WLEN), WLEN), XLEN)
Low(v) == Wrap(v, WLEN)
AllOnes == 2^XLEN - 1
IntMin(len) == 0 - 2^(len - 1)
Abs(n) == IF n < 0 THEN 0 - n ELSE n
B2I(b) == IF b THEN 1 ELSE 0

\* Division and remainder of C++ truncate towards zero.
Quot(a, b) == IF (a < 0) = (b < 0) THEN Abs(a) \div Abs(b) ELSE 0 - (Abs(a) \div Abs(b))
Rest(a, b) == a - (b * Quot(a, b))

\* The operators &, | and ^ on the bits of a register.
BitsOf(v) == {k \in 0 .. XLEN - 1 : (v \div 2^k) % 2 = 1}
FromBits(S) ==
    LET sum[n \in 0 .. XLEN] ==
          IF n = 0 THEN 0 ELSE sum[n - 1] + (IF n - 1 \in S THEN 2^(n - 1) ELSE 0)
    IN  sum[XLEN]
BitAnd(a, b) == FromBits(BitsOf(a) \cap BitsOf(b))
BitOr(a, b)  == FromBits(BitsOf(a) \cup BitsOf(b))
BitXor(a, b) == FromBits((BitsOf(a) \ BitsOf(b)) \cup (BitsOf(b) \ BitsOf(a)))

-----------------------------------------------------------------------------
\* RV64I; amounts are taken from the low bits of the second operand, which the
\* immediate forms take from imm.
LogX == CHOOSE k \in 0 .. XLEN : 2^k = XLEN
ShX(b) == Wrap(b, LogX)
ShW(b) == Wrap(b, LogX - 1)
Sra(a, n) == Wrap(Signed(a, XLEN) \div 2^n, XLEN)
RegOp(op, a, b) ==
    CASE op = "add"  -> Wrap(a + b, XLEN)
      [] op = "sub"  -> Wrap(a - b, XLEN)
      [] op = "and"  -> BitAnd(a, b)
      [] op = "or"   -> BitOr(a, b)
      [] op = "xor"  -> BitXor(a, b)
      [] op = "sll"  -> Wrap(a * 2^ShX(b), XLEN)
      [] op = "srl"  -> a \div 2^ShX(b)
      [] op = "sra"  -> Sra(a, ShX(b))
      [] op = "slt"  -> B2I(Signed(a, XLEN) < Signed(b, XLEN))
      [] op = "sltu" -> B2I(a < b)

Word(op, a, b) ==
    CASE op = "add" -> Sext(a + b)
      [] op = "sub" -> Sext(a - b)
      [] op = "sll" -> Sext(Low(a) * 2^ShW(b))
      [] op = "srl" -> Sext(Low(a) \div 2^ShW(b))
      [] op = "sra" -> Sext(Signed(Low(a), WLEN) \div 2^ShW(b))
      [] op = "mul" -> Sext(a * b)

Blt(a, b) == Signed(a, XLEN) < Signed(b, XLEN)

\* The branches.
Taken(op, a, b) ==
    CASE op = "beq"  -> a = b
      [] op = "bne"  -> a # b
      [] op = "blt"  -> Blt(a, b)
      [] op = "bge"  -> Signed(a, XLEN) >= Signed(b, XLEN)
      [] op = "bltu" -> a < b
      [] op = "bgeu" -> a >= b

\* jalr and c_jalr: the target is taken before the link is written.
Jalr(regs, pc, rd, rs1, imm) ==
    LET t == Wrap(regs[rs1] + imm, XLEN)
    IN  [pc |-> t - (t % 2), regs |-> [regs EXCEPT ![rd] = Wrap(pc + 4, XLEN)]]

\* RV64M: the products are formed in twice the width, mulhsu in an unsigned one.
Mul(a, b) == Wrap(a * b, XLEN)
Mulh(a, b) == Wrap((Signed(a, XLEN) * Signed(b, XLEN)) \div 2^XLEN, XLEN)
Mulhsu(a, b) == Wrap(Wrap(Signed(a, XLEN), 2 * XLEN) * b, 2 * XLEN) \div 2^XLEN
Mulhu(a, b) == (a * b) \div 2^XLEN

(* Wrong variant: the division that overflows is not singled out. *)
DivUnguarded(a, b) ==
    IF Signed(b, XLEN) = 0 THEN AllOnes
    ELSE IF Signed(a, XLEN) = IntMin(XLEN) THEN 0
    ELSE Wrap(Quot(Signed(a, XLEN), Signed(b, XLEN)), XLEN)

Div(a, b) ==
    IF Signed(b, XLEN) = 0 THEN AllOnes
    ELSE IF Signed(a, XLEN) = IntMin(XLEN) /\ Signed(b, XLEN) = -1 THEN a
    ELSE Wrap(Quot(Signed(a, XLEN), Signed(b, XLEN)), XLEN)
Rem(a, b) ==
    IF Signed(b, XLEN) = 0 THEN a
    ELSE IF Signed(a, XLEN) = IntMin(XLEN) /\ Signed(b, XLEN) = -1 THEN 0
    ELSE Wrap(Rest(Signed(a, XLEN), Signed(b, XLEN)), XLEN)
Divu(a, b) == IF b = 0 THEN AllOnes ELSE a \div b
Remu(a, b) == IF b = 0 THEN a ELSE a % b
Divw(a, b) ==
    LET v1 == Signed(Low(a), WLEN)  v2 == Signed(Low(b), WLEN)
    IN  IF v2 = 0 THEN AllOnes
        ELSE IF v1 = IntMin(WLEN) /\ v2 = -1 THEN Sext(v1)
        ELSE Sext(Quot(v1, v2))
Remw(a, b) ==
    LET v1 == Signed(Low(a), WLEN)  v2 == Signed(Low(b), WLEN)
    IN  IF v2 = 0 THEN Sext(v1)
        ELSE IF v1 = IntMin(WLEN) /\ v2 = -1 THEN 0
        ELSE Sext(Rest(v1, v2))
Divuw(a, b) == IF Low(b) = 0 THEN AllOnes ELSE Sext(Low(a) \div Low(b))
Remuw(a, b) == IF Low(b) = 0 THEN Sext(Low(a)) ELSE Sext(Low(a) % Low(b))

\* What an AMO on len bits writes for the old value t and the operand b; rd gets
\* t, sign-extended. Of a register a word AMO uses the low half.
MaxOf(s, t) == IF s < t THEN t ELSE s
MinOf(s, t) == IF t < s THEN t ELSE s
AmoOperand(b, len) == Wrap(b, len)
AmoOp(op, t, b, len) ==
    LET v == AmoOperand(b, len)
    IN  CASE op = "add"  -> Wrap(Signed(t, len) + Signed(v, len), len)
          [] op = "and"  -> BitAnd(t, v)
          [] op = "or"   -> BitOr(t, v)
          [] op = "xor"  -> BitXor(t, v)
          [] op = "max"  -> Wrap(MaxOf(Signed(t, len), Signed(v, len)), len)
          [] op = "maxu" -> MaxOf(t, v)
          [] op = "min"  -> Wrap(MinOf(Signed(t, len), Signed(v, len)), len)
          [] op = "minu" -> MinOf(t, v)
          [] op = "swap" -> v

\* Every pair of values is reached.
Next == x1' \in {x1, x1 + 1} \cap Reg /\ x2' \in {x2, x2 + 1} \cap Reg
Spec == Init /\ [][Next]_vars

-----------------------------------------------------------------------------
(* Properties.                                                             *)

\* Quotient and remainder fit together, in each of the four pairs: the dividend
\* is quotient times divisor plus remainder, the remainder is smaller than the
\* divisor and has the sign of the dividend. By zero the quotient has all bits
\* set and the remainder is the dividend; the quotient that does not fit wraps.
Fits(a, b, q, r, len, signed) ==
    LET S(v) == IF signed THEN Signed(v, len) ELSE v
    IN  IF b = 0 THEN q = 2^len - 1 /\ r = a
        ELSE /\ Wrap((q * b) + r, len) = a
             /\ Abs(S(r)) < Abs(S(b))
             /\ S(r) # 0 => (S(r) < 0) = (S(a) < 0)
             /\ (signed => ~(S(a) = IntMin(len) /\ S(b) = -1)) => S(a) = (S(q) * S(b)) + S(r)
DivisionHolds ==
    /\ Fits(x1, x2, Div(x1, x2), Rem(x1, x2), XLEN, TRUE)
    /\ Fits(x1, x2, Divu(x1, x2), Remu(x1, x2), XLEN, FALSE)
    /\ Fits(Low(x1), Low(x2), Low(Divw(x1, x2)), Low(Remw(x1, x2)), WLEN, TRUE)
    /\ Fits(Low(x1), Low(x2), Low(Divuw(x1, x2)), Low(Remuw(x1, x2)), WLEN, FALSE)

\* The high and the low half of a product together are the product, for the
\* three ways to read the operands.
ProductsAreWhole ==
    LET s1 == Signed(x1, XLEN)  s2 == Signed(x2, XLEN)
    IN  /\ (Signed(Mulh(x1, x2), XLEN) * 2^XLEN) + Mul(x1, x2) = s1 * s2
        /\ (Signed(Mulhsu(x1, x2), XLEN) * 2^XLEN) + Mul(x1, x2) = s1 * x2
        /\ (Mulhu(x1, x2) * 2^XLEN) + Mul(x1, x2) = x1 * x2

WordResults ==
    {Word(op, x1, x2) : op \in {"add", "sub", "sll", "srl", "sra", "mul"}}
    \cup {Divw(x1, x2), Remw(x1, x2), Divuw(x1, x2), Remuw(x1, x2)}

\* Word instructions leave a sign-extended word in the register, and look at
\* nothing but the low halves of theirs: the upper halves do not matter.
WordsAreExtended ==
    /\ \A r \in WordResults : r = Wrap(Signed(Low(r), WLEN), XLEN)
    /\ \A op \in {"add", "sub", "sll", "srl", "sra", "mul"} :
          Word(op, x1, x2) = Word(op, Sext(x1), Low(x2))

\* Comparisons agree with each other and with the sign and the overflow of the
\* difference; every branch has its opposite.
ComparisonsAgree ==
    LET d == RegOp("sub", x1, x2)
        neg(v) == Signed(v, XLEN) < 0
        overflow == neg(x1) # neg(x2) /\ neg(d) # neg(x1)
    IN  /\ Taken("blt", x1, x2) <=> neg(d) # overflow
        /\ Taken("blt", x1, x2) <=> RegOp("slt", x1, x2) = 1
        /\ Taken("bltu", x1, x2) <=> RegOp("sltu", x1, x2) = 1
        /\ Taken("bltu", x1, x2) <=> RegOp("add", d, x2) = x1 /\ d + x2 > AllOnes
        /\ Taken("bge", x1, x2) # Taken("blt", x1, x2)
        /\ Taken("bgeu", x1, x2) # Taken("bltu", x1, x2)
        /\ Taken("beq", x1, x2) <=> d = 0
        /\ Taken("bne", x1, x2) # Taken("beq", x1, x2)

\* Shifts by every amount lose exactly the bits shifted out: back and forth
\* clears them, and the arithmetic one keeps the sign.
ShiftsLoseTheEnd ==
    LET n == 2^ShX(x2)
    IN  /\ RegOp("sll", RegOp("srl", x1, x2), x2) = x1 - (x1 % n)
        /\ RegOp("sll", RegOp("sra", x1, x2), x2) = x1 - (x1 % n)
        /\ (Signed(RegOp("sra", x1, x2), XLEN) < 0) = (Signed(x1, XLEN) < 0)

\* An AMO on a word stores what the instruction would compute from the two words
\* alone: the upper half of the register does not matter, and the signed and the
\* unsigned comparisons pick one of the two words.
AmosUseTheWord ==
    LET ops == {"add", "and", "or", "xor", "max", "maxu", "min", "minu", "swap"}
        t == Low(x1)
        r == [op \in ops |-> AmoOp(op, t, x2, WLEN)]
    IN  /\ \A op \in ops : r[op] = AmoOp(op, t, Sext(x2), WLEN)
        /\ \A op \in {"max", "min", "maxu", "minu"} : r[op] \in {t, Low(x2)}
        /\ Signed(r["max"], WLEN) >= Signed(r["min"], WLEN)
        /\ r["maxu"] >= r["minu"]
        /\ r["add"] = Low(Word("add", t, x2))
        /\ r["and"] + r["or"] = t + Low(x2) /\ r["xor"] = r["or"] - r["and"]

\* A jump through the register that also takes the link goes where the register
\* pointed before.
JumpsReadFirst ==
    LET regs == <<x1, x2>>
    IN  \A rd, rs1 \in 1 .. 2 :
           LET j == Jalr(regs, 0, rd, rs1, 0)
           IN  /\ j.pc = regs[rs1] - (regs[rs1] % 2)
               /\ j.regs[rd] = 4 /\ \A k \in {1, 2} \ {rd} : j.regs[k] = regs[k]
=============================================================================
