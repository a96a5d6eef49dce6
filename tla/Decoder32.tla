----------------------------- MODULE Decoder32 ------------------------------
(* Instructions of 32 bits: the first table of Decoder::decode and          *)
(* decode_operand_32. The table is a set here, since its rows are shown to  *)
(* exclude each other; the last row, "inv", takes what no other does. Words *)
(* are tried with few free bits set, or few not set.                        *)
EXTENDS Decoder, FiniteSets

CONSTANT MaxFlips      \* how many free bits of a pattern differ from the rest

VARIABLES row, flips, rest   \* rest: what the other free bits are
vars == <<row, flips, rest>>

Op(v) == <<6, 0, v>>
F3(v) == <<14, 12, v>>
F7(v) == <<31, 25, v>>
Rs2(v) == <<24, 20, v>>

Pat(name, type, fields) == [name |-> name, type |-> type, fields |-> fields]

\* A family of rows: names by funct3, "" where there is none.
Family(type, op, names, more) ==
    {Pat(names[f + 1], type, {Op(op), F3(f)} \cup more) :
        f \in {g \in 0 .. 7 : names[g + 1] # ""}}

Branches == {<<0, "beq">>, <<1, "bne">>, <<4, "blt">>, <<5, "bge">>, <<6, "bltu">>, <<7, "bgeu">>}
RowsI ==
    Family("I", 3, <<"lb", "lh", "lw", "ld", "lbu", "lhu", "lwu", "">>, {})
    \cup Family("I", 15, <<"fence", "fence_i", "", "", "", "", "", "">>, {})
    \cup Family("I", 19, <<"addi", "", "slti", "sltiu", "xori", "", "ori", "andi">>, {})
    \cup {Pat("slli", "I", {Op(19), F3(1), <<31, 26, 0>>}),
          Pat("srli", "I", {Op(19), F3(5), <<31, 26, 0>>}),
          Pat("srai", "I", {Op(19), F3(5), <<31, 26, 16>>}),
          Pat("addiw", "I", {Op(27), F3(0)}), Pat("slliw", "I", {Op(27), F3(1), F7(0)}),
          Pat("srliw", "I", {Op(27), F3(5), F7(0)}),
          Pat("sraiw", "I", {Op(27), F3(5), F7(32)}),
          Pat("auipc", "U", {Op(23)}), Pat("lui", "U", {Op(55)}),
          Pat("jal", "J", {Op(111)}), Pat("jalr", "I", {Op(103), F3(0)})}
    \cup Family("S", 35, <<"sb", "sh", "sw", "sd", "", "", "", "">>, {})
    \cup {Pat(b[2], "B", {Op(99), F3(b[1])}) : b \in Branches}
    \cup Family("R", 51, <<"add", "sll", "slt", "sltu", "xor", "srl", "or", "and">>, {F7(0)})
    \cup Family("R", 51, <<"sub", "", "", "", "", "sra", "", "">>, {F7(32)})
    \cup Family("R", 59, <<"addw", "sllw", "", "", "", "srlw", "", "">>, {F7(0)})
    \cup Family("R", 59, <<"subw", "", "", "", "", "sraw", "", "">>, {F7(32)})

\* rd and rs1 of the instructions without operands are zero.
Bare(name, f7, rs2) == Pat(name, "N", {Op(115), F3(0), <<19, 15, 0>>, <<11, 7, 0>>, F7(f7), Rs2(rs2)})
RowsSystem ==
    Family("I", 115, <<"", "csrrw", "csrrs", "csrrc", "", "csrrwi", "csrrsi", "csrrci">>, {})
    \cup {Bare("ecall", 0, 0), Bare("ebreak", 0, 1), Bare("mret", 24, 2),
          Bare("sret", 8, 2), Bare("wfi", 8, 5),
          Pat("sfence_vma", "R", {Op(115), F3(0), <<11, 7, 0>>, F7(9)})}

RowsM ==
    Family("R", 51, <<"mul", "mulh", "mulhsu", "mulhu", "div", "divu", "rem", "remu">>, {F7(1)})
    \cup Family("R", 59, <<"mulw", "", "", "", "divw", "divuw", "remw", "remuw">>, {F7(1)})

\* The AMOs by funct5; width 2 is .w and 3 is .d.
Amos == {<<0, "amoadd">>, <<1, "amoswap">>, <<3, "sc">>, <<4, "amoxor">>, <<8, "amoor">>,
         <<12, "amoand">>, <<16, "amomin">>, <<20, "amomax">>, <<24, "amominu">>, <<28, "amomaxu">>}
RowsA ==
    {Pat(a[2], "R", {Op(47), F3(w), <<31, 27, a[1]>>}) : a \in Amos, w \in {2, 3}}
    \cup {Pat("lr", "R", {Op(47), F3(w), <<31, 27, 2>>, Rs2(0)}) : w \in {2, 3}}

\* RV64F and RV64D differ in the format bits 26 and 25, and in moves and
\* conversions between the two. Rounding modes are free.
FpArith == {<<0, "fadd">>, <<1, "fsub">>, <<2, "fmul">>, <<3, "fdiv">>}
FpF3 == {<<4, 0, "fsgnj">>, <<4, 1, "fsgnjn">>, <<4, 2, "fsgnjx">>, <<5, 0, "fmin">>,
         <<5, 1, "fmax">>, <<20, 2, "feq">>, <<20, 1, "flt">>, <<20, 0, "fle">>}
FpFrom == <<"fcvt_w", "fcvt_wu", "fcvt_l", "fcvt_lu">>
FpTo == <<"fcvt_f_w", "fcvt_f_wu", "fcvt_f_l", "fcvt_f_lu">>
FpFused == {<<67, "fmadd">>, <<71, "fmsub">>, <<75, "fnmsub">>, <<79, "fnmadd">>}
Fp(name, f5, fmt, more) == Pat(name, "R", {Op(83), <<31, 27, f5>>, <<26, 25, fmt>>} \cup more)
RowsF(fmt) ==
    {Pat("fload", "I", {Op(7), F3(2 + fmt)}), Pat("fstore", "S", {Op(39), F3(2 + fmt)})}
    \cup {Fp(p[2], p[1], fmt, {}) : p \in FpArith}
    \cup {Fp("fsqrt", 11, fmt, {Rs2(0)})}
    \cup {Fp(p[3], p[1], fmt, {F3(p[2])}) : p \in FpF3}
    \cup {Fp(FpFrom[k + 1], 24, fmt, {Rs2(k)}) : k \in 0 .. 3}
    \cup {Fp(FpTo[k + 1], 26, fmt, {Rs2(k)}) : k \in 0 .. 3}
    \cup {Fp("fmv_x", 28, fmt, {Rs2(0), F3(0)}), Fp("fclass", 28, fmt, {Rs2(0), F3(1)}),
          Fp("fmv_f", 30, fmt, {Rs2(0), F3(0)}), Fp("fcvt_f_f", 8, fmt, {Rs2(1 - fmt)})}
    \cup {Pat(p[2], "R4", {Op(p[1]), <<26, 25, fmt>>}) : p \in FpFused}

Rows == RowsI \cup RowsSystem \cup RowsM \cup RowsA \cup RowsF(0) \cup RowsF(1)

-----------------------------------------------------------------------------
Free(fields) == (0 .. 31) \ (Ones(fields) \cup Zeros(fields))
Init == row \in Rows /\ flips = {} /\ rest \in BOOLEAN
Next ==
    /\ Cardinality(flips) < MaxFlips
    /\ \E k \in Free(row.fields) : flips' = flips \cup {k}
    /\ UNCHANGED <<row, rest>>
Spec == Init /\ [][Next]_vars

insn == Ones(row.fields) \cup (IF rest THEN Free(row.fields) \ flips ELSE flips)

B(hi, lo) == Bits(insn, hi, lo)

ImmB == Sext((B(31, 31) * 2^12) + (B(7, 7) * 2^11) + (B(30, 25) * 2^5) + (B(11, 8) * 2), 13)

\* The immediates of decode_operand_32; R, R4 and N have none.
Imm(type) ==
    CASE type = "I" -> Sext(B(31, 20), 12)
      [] type = "U" -> Sext(B(31, 12), 20) * 2^12
      [] type = "S" -> (Sext(B(31, 25), 7) * 2^5) + B(11, 7)
      [] type = "J" -> Sext((B(31, 31) * 2^20) + (B(19, 12) * 2^12) + (B(20, 20) * 2^11)
                            + (B(30, 21) * 2), 21)
      [] type = "B" -> ImmB

-----------------------------------------------------------------------------
(* Properties.                                                             *)

\* No word matches two rows of the table, so that its order does not matter: a
\* row with a bit too few fixed would take instructions from another.
RowsExclude ==
    flips = {} => /\ \A p \in Rows \ {row} : Disjoint(row.fields, p.fields)
                  /\ Matches(insn, row.fields)

Pieces(type) ==
    CASE type = "I" -> {<<11, 0, 31>>}
      [] type = "U" -> {<<31, 12, 31>>}
      [] type = "S" -> {<<11, 5, 31>>, <<4, 0, 11>>}
      [] type = "B" -> {<<12, 12, 31>>, <<11, 11, 7>>, <<10, 5, 30>>, <<4, 1, 11>>}
      [] type = "J" -> {<<20, 20, 31>>, <<19, 12, 19>>, <<11, 11, 20>>, <<10, 1, 30>>}

\* Immediates have the value the manual gives them by the place of their bits.
ImmediatesAsManual ==
    row.type \in {"I", "U", "S", "B", "J"} => Imm(row.type) = RefImm(insn, Pieces(row.type), TRUE)
=============================================================================
