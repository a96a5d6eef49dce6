----------------------------- MODULE Decoder16 ------------------------------
(* Compressed instructions: the second table of Decoder::decode, taken in   *)
(* order, and decode_operand_16; every half word is decoded.                *)
EXTENDS Decoder

VARIABLE word        \* the bits of the half word

Row(name, type, f3, op, more) ==
    [name |-> name, type |-> type, fields |-> {<<15, 13, f3>>, <<1, 0, op>>} \cup more]

\* Rows of quadrant op from a list of <<name, type, funct3>>.
Plain(op, list) == [k \in DOMAIN list |-> Row(list[k][1], list[k][2], list[k][3], op, {})]

\* C.SUB and its like: bits 12 .. 10 and 6 .. 5.
Arith(name, b, c) == Row(name, "CA", 4, 1, {<<12, 10, b>>, <<6, 5, c>>})

Quadrant1 ==
    << Row("c_nop", "CI", 0, 1, {<<11, 7, 0>>}), Row("c_addi", "CI", 0, 1, {}),
       Row("c_addiw", "CI", 1, 1, {}), Row("c_li", "CI", 2, 1, {}),
       Row("c_addi16sp", "CI", 3, 1, {<<11, 7, 2>>}), Row("c_lui", "CI", 3, 1, {}),
       Row("c_srli", "CB", 4, 1, {<<11, 10, 0>>}),
       Row("c_srai", "CB", 4, 1, {<<11, 10, 1>>}),
       Row("c_andi", "CB", 4, 1, {<<11, 10, 2>>}),
       Arith("c_sub", 3, 0), Arith("c_xor", 3, 1), Arith("c_or", 3, 2), Arith("c_and", 3, 3),
       Arith("c_subw", 7, 0), Arith("c_addw", 7, 1) >>
    \o Plain(1, << <<"c_j", "CJ", 5>>, <<"c_beqz", "CB", 6>>, <<"c_bnez", "CB", 7>> >>)

Quadrant0 ==
    << Row("c_inv", "N", 0, 0, {<<12, 2, 0>>}) >>
    \o Plain(0, << <<"c_addi4spn", "CIW", 0>>, <<"c_fld", "CL", 1>>, <<"c_lw", "CL", 2>>,
                   <<"c_ld", "CL", 3>>, <<"c_fsd", "CS", 5>>, <<"c_sw", "CS", 6>>,
                   <<"c_sd", "CS", 7>> >>)

(* Wrong variant: the general rows come first. *)
MovesSwapped ==
    << Row("c_mv", "CR", 4, 2, {<<12, 12, 0>>}),
       Row("c_jr", "CR", 4, 2, {<<12, 12, 0>>, <<6, 2, 0>>}),
       Row("c_ebreak", "CR", 4, 2, {<<12, 12, 1>>, <<11, 2, 0>>}),
       Row("c_jalr", "CR", 4, 2, {<<12, 12, 1>>, <<6, 2, 0>>}),
       Row("c_add", "CR", 4, 2, {<<12, 12, 1>>}) >>

Moves ==
    << Row("c_jr", "CR", 4, 2, {<<12, 12, 0>>, <<6, 2, 0>>}),
       Row("c_mv", "CR", 4, 2, {<<12, 12, 0>>}),
       Row("c_ebreak", "CR", 4, 2, {<<12, 12, 1>>, <<11, 2, 0>>}),
       Row("c_jalr", "CR", 4, 2, {<<12, 12, 1>>, <<6, 2, 0>>}),
       Row("c_add", "CR", 4, 2, {<<12, 12, 1>>}) >>

Quadrant2 ==
    Plain(2, << <<"c_slli", "CI", 0>>, <<"c_fldsp", "CI", 1>>, <<"c_lwsp", "CI", 2>>,
                <<"c_ldsp", "CI", 3>> >>)
    \o Moves
    \o Plain(2, << <<"c_fsdsp", "CSS", 5>>, <<"c_swsp", "CSS", 6>>, <<"c_sdsp", "CSS", 7>> >>)

Invalid == [name |-> "inv", type |-> "N", fields |-> {}]
Table == Quadrant1 \o Quadrant0 \o Quadrant2 \o <<Invalid>>

\* The first row that matches.
Decoded ==
    LET rows == Table
        hits == {k \in DOMAIN rows : Matches(word, rows[k].fields)}
    IN  rows[Min(hits)]

-----------------------------------------------------------------------------
(* decode_operand_16. Operands that a format does not set are not in the    *)
(* domain of the result; "unreachable" marks the calls of that name.        *)
B(hi, lo) == Bits(word, hi, lo)
Six == (B(12, 12) * 2^5) + B(6, 2)

\* The immediate of CI by opcode, funct3 and register.
ImmCI ==
    LET f3 == B(15, 13)  rd == B(11, 7)
    IN  CASE B(1, 0) = 1 /\ f3 = 3 /\ rd = 2 ->
                Sext((B(12, 12) * 2^9) + (B(4, 3) * 2^7) + (B(5, 5) * 2^6)
                     + (B(2, 2) * 2^5) + (B(6, 6) * 2^4), 10)
          [] B(1, 0) = 1 /\ f3 = 3 /\ rd \notin {0, 2} ->
                Sext((B(12, 12) * 2^17) + (B(6, 2) * 2^12), 18)
          [] B(1, 0) = 2 /\ f3 = 0 -> Six
          [] B(1, 0) = 2 /\ f3 = 2 ->
                (B(3, 2) * 2^6) + (B(12, 12) * 2^5) + (B(6, 4) * 2^2)
          [] B(1, 0) = 2 /\ f3 \in {1, 3} ->
                (B(4, 2) * 2^6) + (B(12, 12) * 2^5) + (B(6, 5) * 2^3)
          [] OTHER -> Sext(Six, 6)

\* CL and CS: a word, or a double word.
ImmWord == (B(5, 5) * 2^6) + (B(12, 10) * 2^3) + (B(6, 6) * 2^2)
ImmDouble == (B(6, 5) * 2^6) + (B(12, 10) * 2^3)

ImmCB ==
    IF B(15, 13) = 4 THEN IF B(11, 10) = 2 THEN Sext(Six, 6) ELSE Six
    ELSE Sext((B(12, 12) * 2^8) + (B(6, 5) * 2^6) + (B(2, 2) * 2^5)
              + (B(11, 10) * 2^3) + (B(4, 3) * 2), 9)

ImmCJ ==
    Sext((B(12, 12) * 2^11) + (B(11, 11) * 2^4) + (B(10, 9) * 2^8) + (B(8, 8) * 2^10)
         + (B(7, 7) * 2^6) + (B(6, 6) * 2^7) + (B(5, 3) * 2) + (B(2, 2) * 2^5), 12)

ImmCIW == (B(10, 7) * 2^6) + (B(12, 11) * 2^4) + (B(5, 5) * 2^3) + (B(6, 6) * 2^2)

REG_C(x) == x + 8

Operands(type) ==
    LET f3 == B(15, 13)
    IN  CASE type = "CR" -> [rd |-> B(11, 7), rs1 |-> B(11, 7), rs2 |-> B(6, 2)]
          [] type = "CI" -> [rd |-> B(11, 7), rs1 |-> B(11, 7), imm |-> ImmCI]
          [] type = "CSS" /\ f3 = 6 ->
                [rs1 |-> 2, rs2 |-> B(6, 2), imm |-> (B(8, 7) * 2^6) + (B(12, 9) * 2^2)]
          [] type = "CSS" /\ f3 \in {5, 7} ->
                [rs1 |-> 2, rs2 |-> B(6, 2), imm |-> (B(9, 7) * 2^6) + (B(12, 10) * 2^3)]
          [] type = "CIW" -> [rd |-> REG_C(B(4, 2)), rs1 |-> 2, imm |-> ImmCIW]
          [] type = "CL" /\ f3 \in {1, 2, 3} ->
                [rd |-> REG_C(B(4, 2)), rs1 |-> REG_C(B(9, 7)),
                 imm |-> IF f3 = 2 THEN ImmWord ELSE ImmDouble]
          [] type = "CS" /\ f3 \in {5, 6, 7} ->
                [rs1 |-> REG_C(B(9, 7)), rs2 |-> REG_C(B(4, 2)),
                 imm |-> IF f3 = 6 THEN ImmWord ELSE ImmDouble]
          [] type = "CA" -> [rd |-> REG_C(B(9, 7)), rs1 |-> REG_C(B(9, 7)),
                             rs2 |-> REG_C(B(4, 2))]
          [] type = "CB" -> [rd |-> REG_C(B(9, 7)), rs1 |-> REG_C(B(9, 7)), imm |-> ImmCB]
          [] type = "CJ" -> [imm |-> ImmCJ]
          [] type = "N"  -> [none |-> 0]
          [] OTHER       -> [unreachable |-> 0]

-----------------------------------------------------------------------------
\* Operands the functions of execute.cpp use, by instruction; sp needs none.
UsedBy(name) ==
    CASE name \in {"inv", "c_inv", "c_nop", "c_ebreak"} -> {}
      [] name \in {"c_addi", "c_addiw", "c_li", "c_lui", "c_srli", "c_srai", "c_andi",
                   "c_slli", "c_lwsp", "c_ldsp", "c_fldsp", "c_addi4spn"} -> {"rd", "imm"}
      [] name \in {"c_addi16sp", "c_j"} -> {"imm"}
      [] name \in {"c_sub", "c_xor", "c_or", "c_and", "c_subw", "c_addw", "c_add",
                   "c_mv"} -> {"rd", "rs2"}
      [] name \in {"c_beqz", "c_bnez"} -> {"rs1", "imm"}
      [] name \in {"c_fld", "c_lw", "c_ld"} -> {"rd", "rs1", "imm"}
      [] name \in {"c_fsd", "c_sw", "c_sd"} -> {"rs1", "rs2", "imm"}
      [] name \in {"c_jr", "c_jalr"} -> {"rs1"}
      [] name \in {"c_fsdsp", "c_swsp", "c_sdsp"} -> {"rs2", "imm"}

\* What of a decoded instruction makes its function raise IllegalInstruction.
Raises(row) ==
    LET given == Operands(row.type)
    IN  \/ row.name \in {"inv", "c_inv"}
        \/ row.name \in {"c_addi16sp", "c_lui", "c_addi4spn"} /\ given.imm = 0
        \/ row.name = "c_lui" /\ given.rd = 2
        \/ row.name \in {"c_lwsp", "c_ldsp"} /\ given.rd = 0
        \/ row.name \in {"c_jr", "c_jalr"} /\ given.rs1 = 0
        \/ row.name = "c_mv" /\ given.rs2 = 0

\* ifetch calls a half word compressed if its low bits are not both one; every
\* one of them is reached by setting bits.
Init == word = {}
Next == \E k \in 0 .. 15 : word' = word \cup {k} /\ ~({0, 1} \subseteq word')
Spec == Init /\ [][Next]_word

-----------------------------------------------------------------------------
(* Properties.                                                             *)

\* The instruction a half word means by the manual, whose rows exclude each
\* other: by funct3 in each quadrant, and below that by the bits that tell apart
\* what shares a funct3.
RefName ==
    LET f3 == B(15, 13) + 1  rd == B(11, 7)  rs2 == B(6, 2)
        rest == IF B(12, 12) = 0 THEN <<"c_sub", "c_xor", "c_or", "c_and">>
                ELSE <<"c_subw", "c_addw", "inv", "inv">>
        move == IF rs2 # 0 THEN IF B(12, 12) = 0 THEN "c_mv" ELSE "c_add"
                ELSE IF B(12, 12) = 0 THEN "c_jr"
                ELSE IF rd = 0 THEN "c_ebreak" ELSE "c_jalr"
    IN  CASE B(1, 0) = 0 ->
                << IF B(12, 2) = 0 THEN "c_inv" ELSE "c_addi4spn", "c_fld", "c_lw",
                   "c_ld", "inv", "c_fsd", "c_sw", "c_sd" >>[f3]
          [] B(1, 0) = 1 ->
                << IF rd = 0 THEN "c_nop" ELSE "c_addi", "c_addiw", "c_li",
                   IF rd = 2 THEN "c_addi16sp" ELSE "c_lui",
                   <<"c_srli", "c_srai", "c_andi", rest[B(6, 5) + 1]>>[B(11, 10) + 1],
                   "c_j", "c_beqz", "c_bnez" >>[f3]
          [] B(1, 0) = 2 ->
                << "c_slli", "c_fldsp", "c_lwsp", "c_ldsp", move, "c_fsdsp",
                   "c_swsp", "c_sdsp" >>[f3]

\* The table, read from the top, gives each half word the instruction of the
\* manual: where rows overlap the special one stands above the general one.
DecodesAsManual == Decoded.name = RefName

\* The code points the manual reserves, by the bits of the half word.
Reserved ==
    LET f3 == B(15, 13)  rd == B(11, 7)
    IN  CASE B(1, 0) = 0 -> f3 = 4 \/ (f3 = 0 /\ B(12, 5) = 0)
          [] B(1, 0) = 1 -> \/ f3 = 1 /\ rd = 0
                            \/ f3 = 3 /\ B(12, 12) = 0 /\ B(6, 2) = 0
                            \/ f3 = 4 /\ B(12, 10) = 7 /\ B(6, 5) \in {2, 3}
          [] B(1, 0) = 2 -> \/ f3 \in {2, 3} /\ rd = 0
                            \/ f3 = 4 /\ B(12, 12) = 0 /\ rd = 0 /\ B(6, 2) = 0

\* The exception: exec_c_addiw does not look at its register, so that the
\* reserved C.ADDIW of x0 passes as a no-operation.
AddiwOfZero == Decoded.name = "c_addiw" /\ B(11, 7) = 0

\* Illegal instruction is raised at the reserved code points and at no other,
\* between the rows of the table that are missing and the tests the functions
\* of execute.cpp make on operands that decode_operand_16 put together.
ReservedTraps == Raises(Decoded) <=> Reserved /\ ~AddiwOfZero

\* The immediates in the manual's notation.
Pieces(name) ==
    CASE name \in {"c_addi", "c_addiw", "c_li", "c_andi", "c_slli", "c_srli", "c_srai"} ->
            {<<5, 5, 12>>, <<4, 0, 6>>}
      [] name = "c_lui" -> {<<17, 17, 12>>, <<16, 12, 6>>}
      [] name = "c_addi16sp" -> {<<9, 9, 12>>, <<4, 4, 6>>, <<6, 6, 5>>, <<8, 7, 4>>, <<5, 5, 2>>}
      [] name = "c_lwsp" -> {<<5, 5, 12>>, <<4, 2, 6>>, <<7, 6, 3>>}
      [] name \in {"c_ldsp", "c_fldsp"} -> {<<5, 5, 12>>, <<4, 3, 6>>, <<8, 6, 4>>}
      [] name = "c_swsp" -> {<<5, 2, 12>>, <<7, 6, 8>>}
      [] name \in {"c_sdsp", "c_fsdsp"} -> {<<5, 3, 12>>, <<8, 6, 9>>}
      [] name = "c_addi4spn" -> {<<5, 4, 12>>, <<9, 6, 10>>, <<2, 2, 6>>, <<3, 3, 5>>}
      [] name \in {"c_lw", "c_sw"} -> {<<5, 3, 12>>, <<2, 2, 6>>, <<6, 6, 5>>}
      [] name \in {"c_ld", "c_sd", "c_fld", "c_fsd"} -> {<<5, 3, 12>>, <<7, 6, 6>>}
      [] name = "c_j" -> {<<11, 11, 12>>, <<4, 4, 11>>, <<9, 8, 10>>, <<10, 10, 8>>,
                          <<6, 6, 7>>, <<7, 7, 6>>, <<3, 1, 5>>, <<5, 5, 2>>}
      [] name \in {"c_beqz", "c_bnez"} ->
            {<<8, 8, 12>>, <<4, 3, 11>>, <<7, 6, 6>>, <<2, 1, 4>>, <<5, 5, 2>>}

SignedImm == {"c_addi", "c_addiw", "c_li", "c_andi", "c_lui", "c_addi16sp", "c_j",
              "c_beqz", "c_bnez"}

\* Every immediate used has the value the manual gives it, the scattered and the
\* signed ones too. A C.LUI of x0 is a hint that writes nothing.
ImmediatesAsManual ==
    LET d == Decoded
    IN  "imm" \in UsedBy(d.name) /\ ~(d.name = "c_lui" /\ B(11, 7) = 0) =>
           Operands(d.type).imm = RefImm(word, Pieces(d.name), d.name \in SignedImm)

\* Every operand that the executing function uses has been set: DecodedInsn has
\* no initial values, and a format without the field would leave garbage there.
\* None of the std::unreachable() of the decoder is reached.
OperandsAreSet ==
    /\ UsedBy(Decoded.name) \subseteq DOMAIN Operands(Decoded.type)
    /\ "unreachable" \notin DOMAIN Operands(Decoded.type)
=============================================================================
