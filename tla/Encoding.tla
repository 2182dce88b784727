------------------------------ MODULE Encoding ------------------------------
(***************************************************************************)
(* Instructions as words: the table of opcodes.h, inst_encode, inst_decode *)
(* and what the listing (format_an_inst) and the decoding walkthrough of   *)
(* explain.c say of an instruction.                                        *)
(*                                                                         *)
(* An operation is a pair <<name, format>>: add.s is <<"add", "s">>, add   *)
(* is <<"add", "">>, and c.eq.s is <<"eq", "s">>.  A word is the tuple of its  *)
(* six fields                                                              *)
(*     <<opcode, rs, rt, rd, shamt, funct>>                                *)
(* of 6, 5, 5, 5, 5 and 6 bits; its low half is the last three.  An        *)
(* instruction is a record of the fields the C structure keeps; there      *)
(* FS is rd, FT is rt, FD is sh, BASE and COND are rs.                     *)
(***************************************************************************)
EXTENDS Integers, Sequences, FiniteSets, Bitwise

(***************************************************************************)
(* Rows of opcodes.h: <<name, format, operand type, the six fields of its  *)
(* pattern>>.  Each row is written by the part of the word that tells it   *)
(* from the others.                                                        *)
(***************************************************************************)
S == <<"s", 16>>
D == <<"d", 17>>
PS == <<"ps", 22>>   \* 0x46c.....
PS3 == <<"ps", 19>>  \* 0x466.....

Word6(op, rs, rt, rd, sh, fn) == <<op, rs, rt, rd, sh, fn>>

\* opcode alone, and the groups SPECIAL, SPECIAL2, REGIMM, COP0, COP1
Primary(T, rows) == {<<r[1], "", T, Word6(r[2], 0, 0, 0, 0, 0)>> : r \in rows}
Special(T, rows) == {<<r[1], "", T, Word6(0, 0, 0, 0, 0, r[2])>> : r \in rows}
Special2(T, rows) == {<<r[1], "", T, Word6(28, 0, 0, 0, 0, r[2])>> : r \in rows}
Regimm(T, rows) == {<<r[1], "", T, Word6(1, 0, r[2], 0, 0, 0)>> : r \in rows}
Cop(T, rows) == {<<r[1], "", T, Word6(r[2], r[3], 0, 0, 0, r[4])>> : r \in rows}
Fp(T, name, fn, formats) == {<<name, f[1], T, Word6(17, f[2], 0, 0, 0, fn)>> : f \in formats}
Fused(name, fn) == {<<name, f[1], "FP_FD_FR_FS_FT", Word6(19, 0, 0, 0, 0, fn + f[2])>> :
                      f \in {<<"s", 0>>, <<"d", 1>>, <<"ps", 6>>}}

RowsAtoB ==
    UNION {Fp("FP_FD_FS", "abs", 5, {D, PS3, S}), Fp("FP_FD_FS_FT", "add", 0, {D, PS3, S}),
           Special("RD_RS_RT", {<<"add", 32>>, <<"addu", 33>>, <<"and", 36>>}),
           Primary("RT_RS_IMM", {<<"addi", 8>>, <<"addiu", 9>>, <<"andi", 12>>}),
           {<<"alnv", "ps", "FP_FD_FR_FS_FT", Word6(19, 0, 0, 0, 0, 30)>>},
           {<<b[1], "", "BRANCH_COPROC_COND", Word6(b[2], 8, b[3], 0, 0, 0)>> :
              b \in {<<"bc1f", 17, 0>>, <<"bc1fl", 17, 2>>, <<"bc1t", 17, 1>>, <<"bc1tl", 17, 3>>,
                     <<"bc2f", 18, 0>>, <<"bc2fl", 18, 2>>, <<"bc2t", 18, 1>>, <<"bc2tl", 18, 3>>}},
           Primary("BRANCH_RS_RT_LABEL", {<<"beq", 4>>, <<"beql", 20>>, <<"bne", 5>>, <<"bnel", 21>>}),
           Regimm("BRANCH_RS_LABEL", {<<"bgez", 1>>, <<"bgezal", 17>>, <<"bgezall", 19>>,
                  <<"bgezl", 3>>, <<"bltz", 0>>, <<"bltzal", 16>>, <<"bltzall", 18>>, <<"bltzl", 2>>}),
           Primary("BRANCH_RS_LABEL", {<<"bgtz", 7>>, <<"bgtzl", 23>>, <<"blez", 6>>, <<"blezl", 22>>}),
           Special("NOARG", {<<"break", 13>>})}

\* the condition field of c.cond.fmt: UN 1, EQ 2, LT 4, IN 8
CondBits == [c \in {"f", "un", "eq", "ueq", "olt", "ult", "ole", "ule",
                    "sf", "ngle", "seq", "ngl", "lt", "nge", "le", "ngt"} |->
               CHOOSE n \in 0..15 :
                 <<"f", "un", "eq", "ueq", "olt", "ult", "ole", "ule",
                   "sf", "ngle", "seq", "ngl", "lt", "nge", "le", "ngt">>[n + 1] = c]

RowsCompare ==
    UNION {Fp("FP_CMP_FS_FT", c, 48 + CondBits[c], {D, PS3, S}) : c \in DOMAIN CondBits}

RowsCtoL ==
    UNION {Primary("RT_RS_IMM", {<<"cache", 47>>}),
           Fp("FP_FD_FS", "ceil.l", 10, {D, S}), Fp("FP_FD_FS", "ceil.w", 14, {D, S}),
           Cop("FP_RT_COPREG", {<<"cfc0", 16, 2, 0>>, <<"cfc1", 17, 2, 0>>, <<"cfc2", 18, 2, 0>>,
               <<"ctc0", 16, 6, 0>>, <<"ctc1", 17, 6, 0>>, <<"ctc2", 18, 6, 0>>}),
           Special2("RD_RS_RT", {<<"clo", 33>>, <<"clz", 32>>}),
           {<<"cop2", "", "J", Word6(18, 16, 0, 0, 0, 0)>>},
           {<<c[1], c[2], "FP_FD_FS", Word6(17, 21, 16, 0, 0, c[3])>> :
              c \in {<<"cvt.d", "l", 33>>, <<"cvt.s", "l", 32>>}},
           Fp("FP_FD_FS", "cvt.d", 33, {S, <<"w", 17>>}), Fp("FP_FD_FS", "cvt.l", 37, {D, S}),
           Fp("FP_FD_FS", "cvt.ps", 38, {S}), Fp("FP_FD_FS", "cvt.w", 36, {D, S}),
           Fp("FP_FD_FS", "cvt.s", 32, {D, <<"pu", 22>>, <<"w", 20>>}),
           Fp("FP_FD_FS", "cvt.s", 36, {<<"pl", 22>>}),
           Cop("NOARG", {<<"deret", 16, 16, 31>>, <<"eret", 16, 16, 24>>}),
           {<<"di", "", "RT_IMM", Word6(16, 11, 0, 12, 0, 0)>>,
            <<"ei", "", "RT_IMM", Word6(16, 11, 0, 12, 0, 32)>>},
           Special("RS_RT", {<<"div", 26>>, <<"divu", 27>>}), Fp("FP_FD_FS_FT", "div", 3, {D, S}),
           {<<"ehb", "", "NOARG", Word6(0, 0, 0, 0, 3, 0)>>},
           {<<"ext", "", "FP_FD_FS", Word6(31, 0, 0, 0, 0, 0)>>,
            <<"ins", "", "FP_FD_FS", Word6(31, 0, 0, 0, 0, 4)>>},
           Fp("FP_FD_FS", "floor.l", 11, {D, S}), Fp("FP_FD_FS", "floor.w", 15, {D, S}),
           Primary("J", {<<"j", 2>>, <<"jal", 3>>}), Special("RD_RS", {<<"jalr", 9>>}),
           Special("RS", {<<"jr", 8>>}),
           {<<"jalr", "hb", "RD_RS", Word6(0, 0, 0, 0, 16, 9)>>,
            <<"jr", "hb", "RS", Word6(0, 0, 0, 0, 16, 8)>>},
           Primary("RT_ADDR", {<<"lb", 32>>, <<"lbu", 36>>, <<"ldc2", 54>>, <<"lh", 33>>,
                   <<"lhu", 37>>, <<"ll", 48>>, <<"lw", 35>>, <<"lwc2", 50>>, <<"lwl", 34>>, <<"lwr", 38>>}),
           Primary("FP_FT_ADDR", {<<"ldc1", 53>>, <<"lwc1", 49>>}), Primary("RT_IMM", {<<"lui", 15>>}),
           Cop("FP_FD_FS_FT", {<<"ldxc1", 19, 0, 1>>, <<"luxc1", 19, 0, 5>>, <<"lwxc1", 19, 0, 0>>})}

RowsM ==
    UNION {Special2("RS_RT", {<<"madd", 0>>, <<"maddu", 1>>, <<"msub", 4>>, <<"msubu", 5>>}),
           Fused("madd", 0), Fused("msub", 32),
           Cop("RT_COPREG", {<<"mfc0", 16, 0, 0>>, <<"mfc2", 18, 0, 0>>, <<"mfhc2", 18, 3, 0>>,
               <<"mtc0", 16, 4, 0>>, <<"mtc2", 18, 4, 0>>, <<"mthc2", 18, 7, 0>>}),
           Cop("FP_RT_COPREG", {<<"mfc1", 17, 0, 0>>, <<"mfhc1", 17, 3, 0>>,
               <<"mtc1", 17, 4, 0>>, <<"mthc1", 17, 7, 0>>}),
           Special("RD", {<<"mfhi", 16>>, <<"mflo", 18>>}), Fp("FP_FD_FS", "mov", 6, {D, PS, S}),
           Special("MOVC", {<<"movf", 1>>}), {<<"movt", "", "MOVC", Word6(0, 0, 1, 0, 0, 1)>>},
           Fp("FP_MOVC", "movf", 17, {D, PS, S}), Fp("FP_MOVC", "movn", 19, {D, PS, S}),
           {<<"movt", f[1], "FP_MOVC", Word6(17, f[2], 1, 0, 0, 17)>> : f \in {D, PS, S}},
           Fp("FP_MOVC", "movz", 18, {D, PS, S}),
           Special("RD_RS_RT", {<<"movn", 11>>, <<"movz", 10>>}), Special("RS", {<<"mthi", 17>>, <<"mtlo", 19>>}),
           Special2("RD_RS_RT", {<<"mul", 2>>}), Fp("FP_FD_FS_FT", "mul", 2, {D, PS, S}),
           Special("RS_RT", {<<"mult", 24>>, <<"multu", 25>>})}

RowsNtoS ==
    UNION {Fp("FP_FD_FS", "neg", 7, {D, PS, S}), Fused("nmadd", 48), Fused("nmsub", 56),
           Special("RD_RS_RT", {<<"nor", 39>>, <<"or", 37>>, <<"slt", 42>>, <<"sltu", 43>>,
                   <<"sub", 34>>, <<"subu", 35>>}),
           Primary("RT_RS_IMM", {<<"ori", 13>>, <<"pref", 51>>, <<"slti", 10>>, <<"sltiu", 11>>}),
           UNION {Fp("FP_FD_FS_FT", r[1], r[2], {PS}) :
              r \in {<<"pll", 44>>, <<"plu", 45>>, <<"pul", 46>>, <<"puu", 47>>}},
           Cop("RS_RT", {<<"prefx", 17, 16, 15>>}),
           {<<"rdhwr", "", "RD_RS_RT", Word6(31, 0, 0, 0, 0, 59)>>},
           Cop("RT_COPREG", {<<"rdpgpr", 16, 10, 0>>}), Cop("NOARG", {<<"rfe", 16, 16, 16>>}),
           Fp("FP_FD_FS", "recip", 21, {D, S}), Fp("FP_FD_FS", "rsqrt", 22, {D, S}),
           Cop("RD_RT_SHAMT", {<<"rotr", 0, 1, 2>>, <<"rotrv", 0, 1, 3>>}),
           Fp("FP_FD_FS", "round.l", 8, {D, S}), Fp("FP_FD_FS", "round.w", 12, {D, S}),
           Primary("RT_ADDR", {<<"sb", 40>>, <<"sc", 56>>, <<"sdc2", 62>>, <<"sh", 41>>, <<"sw", 43>>,
                   <<"swc2", 58>>, <<"swl", 42>>, <<"swr", 46>>}),
           Special2("NOARG", {<<"sdbbp", 63>>}), Primary("FP_FT_ADDR", {<<"sdc1", 61>>, <<"swc1", 57>>}),
           Cop("FP_FD_FS_FT", {<<"sdxc1", 17, 16, 9>>, <<"suxc1", 17, 16, 13>>, <<"swxc1", 17, 16, 8>>}),
           {<<"seb", "", "RT_COPREG", Word6(31, 0, 0, 0, 16, 32)>>,
            <<"seh", "", "RT_COPREG", Word6(31, 0, 0, 0, 24, 32)>>},
           Special("RD_RT_SHAMT", {<<"sll", 0>>, <<"sra", 3>>, <<"srl", 2>>}),
           {<<"ssnop", "", "RD_RT_SHAMT", Word6(0, 0, 0, 0, 1, 0)>>},
           Special("RD_RT_RS", {<<"sllv", 4>>, <<"srav", 7>>, <<"srlv", 6>>}),
           Fp("FP_FD_FS", "sqrt", 4, {D, S}), Fp("FP_FD_FS_FT", "sub", 1, {D, PS3, S}),
           Special("NOARG", {<<"sync", 15>>, <<"syscall", 12>>}), Regimm("RT_RS_IMM", {<<"synci", 20>>})}

RowsTtoZ ==
    UNION {Special("RS_RT", {<<"teq", 52>>, <<"tge", 48>>, <<"tgeu", 49>>, <<"tlt", 50>>,
                   <<"tltu", 51>>, <<"tne", 54>>}),
           Regimm("RS_IMM", {<<"teqi", 12>>, <<"tgei", 8>>, <<"tgeiu", 9>>, <<"tlti", 10>>,
                  <<"tltiu", 11>>, <<"tnei", 14>>}),
           Cop("NOARG", {<<"tlbp", 16, 16, 8>>, <<"tlbr", 16, 16, 1>>, <<"tlbwi", 16, 16, 2>>,
               <<"tlbwr", 16, 16, 6>>}),
           Fp("FP_FD_FS", "trunc.l", 9, {D, S}), Fp("FP_FD_FS", "trunc.w", 13, {D, S}),
           Cop("RT_COPREG", {<<"wrpgpr", 16, 14, 0>>}),
           {<<"wsbh", "", "RT_COPREG", Word6(31, 0, 0, 0, 2, 32)>>},
           Special("RD_RS_RT", {<<"xor", 38>>}), Primary("RT_RS_IMM", {<<"xori", 14>>})}

Rows == UNION {RowsAtoB, RowsCompare, RowsCtoL, RowsM, RowsNtoS, RowsTtoZ}
Ops == {<<r[1], r[2]>> : r \in Rows}
RowOf == [op \in Ops |-> CHOOSE r \in Rows : <<r[1], r[2]>> = op]
TypeOf(op) == RowOf[op][3]
Pattern(op) == RowOf[op][4]

-----------------------------------------------------------------------------
(***************************************************************************)
(* Instructions.  imm is the low half as 0 .. 65535, tgt the 26-bit target *)
(* of a jump; a field the instruction's type does not use is 0.            *)
(***************************************************************************)
Inst(op, rs, rt, rd, sh, imm, tgt) ==
    [op |-> op, rs |-> rs, rt |-> rt, rd |-> rd, sh |-> sh, imm |-> imm, tgt |-> tgt]

\* What a word that no row matches becomes: opcode 0 is no operation.
Invalid == Inst(<<"invalid", "">>, 0, 0, 0, 0, 0, 0)

Low(w) == w[4] * 2048 + w[5] * 64 + w[6]
Target(w) == (w[2] * 32 + w[3]) * 65536 + Low(w)
ImmFields(v) == <<v \div 2048, (v \div 64) % 32, v % 64>>
\* Mutant of Signed: no offset is negative.
Unsigned(v) == v
Signed(v) == IF v >= 32768 THEN v - 65536 ELSE v

\* The fields inst_encode places for a type; "cc" is the condition code of
\* rt, "cond" the comparison kept in rs.
EncodedFields ==
    [BRANCH_COPROC_COND |-> {"cc", "imm"}, BRANCH_RS_LABEL |-> {"rs", "imm"},
     RS_IMM |-> {"rs", "imm"}, RT_IMM |-> {"rs", "rt", "imm"}, RT_RS_IMM |-> {"rs", "rt", "imm"},
     BRANCH_RS_RT_LABEL |-> {"rs", "rt", "imm"}, RT_ADDR |-> {"rs", "rt", "imm"}, RS |-> {"rs"},
     RD |-> {"rd"}, RT_COPREG |-> {"rt", "rd"}, RS_RT |-> {"rs", "rt"}, RD_RS |-> {"rs", "rd"},
     RD_RT_SHAMT |-> {"rt", "rd", "sh"}, RD_RS_RT |-> {"rs", "rt", "rd"},
     RD_RT_RS |-> {"rs", "rt", "rd"}, FP_FT_ADDR |-> {"rs", "rt", "imm"}, FP_FD_FS |-> {"rd", "sh"},
     FP_RT_COPREG |-> {"rt", "rd"}, FP_CMP_FS_FT |-> {"rt", "rd", "sh", "cond"},
     FP_FD_FS_FT |-> {"rt", "rd", "sh"}, MOVC |-> {"rs", "rt", "rd"},
     FP_MOVC |-> {"cc", "rd", "sh"}, J |-> {"tgt"}, NOARG |-> {}]

\* inst_encode.  A type without a case (FP_FD_FR_FS_FT) is a fatal error there.
Encodable(i) == i.op \in Ops /\ TypeOf(i.op) \in DOMAIN EncodedFields
Field6(uses, name, value) == IF name \in uses THEN value ELSE 0
JumpWord(tgt) == <<0, tgt \div 2097152, (tgt \div 65536) % 32>> \o ImmFields(tgt % 65536)
FieldsWord(i, uses, imm) ==
    <<0, Field6(uses, "rs", i.rs % 32),
      Field6(uses, "rt", i.rt % 32) + Field6(uses, "cc", ((i.rt \div 4) * 4) % 32),
      Field6(uses, "rd", i.rd % 32) + imm[1], Field6(uses, "sh", i.sh % 32) + imm[2],
      Field6(uses, "cond", i.rs) + imm[3]>>
Merged(pattern, placed) == [k \in 1..6 |-> pattern[k] | placed[k]]
EncodeAs(i, uses) ==
    Merged(Pattern(i.op),
           IF "tgt" \in uses THEN JumpWord(i.tgt)
           ELSE FieldsWord(i, uses, ImmFields(Field6(uses, "imm", i.imm))))
Encode(i) == EncodeAs(i, EncodedFields[TypeOf(i.op)])

\* Mutant of Key: the coprocessors share one mask.
KeyOfOpcode(w) ==
    CASE w[1] \in {0, 28} -> <<w[1], 0, 0, 0, 0, w[6]>>
      [] w[1] = 1 -> <<1, 0, w[3], 0, 0, 0>>
      [] w[1] = 16 -> <<16, w[2], 0, 0, 0, w[6]>>
      [] w[1] \in {17, 18, 19} -> <<w[1], w[2], 0, 0, 0, w[6]>>
      [] OTHER -> <<w[1], 0, 0, 0, 0, 0>>
\* The part of a word inst_decode looks up: more than the opcode for the
\* groups SPECIAL, SPECIAL2, REGIMM, COP0, COP1, COP2 and COP1X.
Key(w) ==
    CASE w[1] \in {0, 28} -> <<w[1], 0, 0, 0, 0, w[6]>>
      [] w[1] = 1 -> <<1, 0, w[3], 0, 0, 0>>
      [] w[1] = 16 -> <<16, w[2], 0, 0, 0, w[6] % 32>>
      [] w[1] = 17 -> IF w[2] \div 8 = 1
                     THEN <<17, w[2], w[3] % 2, 0, 0, 0>> ELSE <<17, w[2], 0, 0, 0, w[6]>>
      [] w[1] \in {18, 19} -> <<w[1], w[2], 0, 0, 0, 0>>
      [] OTHER -> <<w[1], 0, 0, 0, 0, 0>>

\* The fields inst_decode takes for a type.
DecodedFields ==
    [BRANCH_COPROC_COND |-> {"rs", "rt", "imm"}, BRANCH_RS_LABEL |-> {"rs", "imm"},
     RS_IMM |-> {"rs", "imm"}, RT_IMM |-> {"rs", "rt", "imm"}, RT_RS_IMM |-> {"rs", "rt", "imm"},
     BRANCH_RS_RT_LABEL |-> {"rs", "rt", "imm"}, RT_ADDR |-> {"rs", "rt", "imm"}, RS |-> {"rs"},
     RD |-> {"rd"}, RT_COPREG |-> {"rt", "rd"}, RS_RT |-> {"rs", "rt"}, RD_RS |-> {"rs", "rd"},
     RD_RT_SHAMT |-> {"rt", "rd", "sh"}, RD_RS_RT |-> {"rs", "rt", "rd"},
     RD_RT_RS |-> {"rs", "rt", "rd"}, FP_FT_ADDR |-> {"rs", "rt", "imm"}, FP_FD_FS |-> {"rd", "sh"},
     FP_RT_COPREG |-> {"rt", "rd"}, FP_FD_FS_FT |-> {"rt", "rd", "sh"},
     MOVC |-> {"rs", "rt", "rd"}, J |-> {"tgt"}, NOARG |-> {}]

\* inst_decode for the row it found.  c.cond.fmt and the conditional moves
\* of coprocessor 1 put FS in rs and FD in rd, where no one looks for them.
DecodedAs(op, w) ==
    LET T == TypeOf(op)
        uses == DecodedFields[T]
        field(name, value) == IF name \in uses THEN value ELSE 0
    IN CASE T = "FP_CMP_FS_FT" -> Inst(op, w[6] % 16, w[3], w[5], 0, 0, 0)
         [] T = "FP_MOVC" -> Inst(op, w[4], w[3], w[5], 0, 0, 0)
         [] T \in DOMAIN DecodedFields ->
              Inst(op, field("rs", w[2]), field("rt", w[3]), field("rd", w[4]),
                   field("sh", w[5]), field("imm", Low(w)), field("tgt", Target(w)))
         [] OTHER -> Invalid

\* Rows with the same pattern are found in an order that only qsort knows.
Found(w) == LET key == Key(w) IN {<<r[1], r[2]>> : r \in {r \in Rows : r[4] = key}}
Decode(w) == IF Found(w) = {} THEN {Invalid} ELSE {DecodedAs(op, w) : op \in Found(w)}

\* r_type_inst, r_sh_type_inst, i_type_inst, j_type_inst, r_co_type_inst and
\* r_cond_type_inst: the instruction of a node of the syntax tree, its
\* immediate resolved to the 16 bits v.
MakeR(op, rd, rs, rt) == Inst(op, rs, rt, rd, 0, 0, 0)
MakeShift(op, rd, rt, sh) == Inst(op, 0, rt, rd, sh % 32, 0, 0)
MakeI(op, rt, rs, v) == Inst(op, rs, rt, 0, 0, v % 65536, 0)
MakeJ(op, v) == Inst(op, 0, 0, 0, 0, 0, v)
MakeFpR(op, fd, fs, ft) == Inst(op, 0, ft, fs, fd, 0, 0)
r_cond_type_inst(op, fs, ft, cc) ==
    Inst(op, IF op[2] = "ps" THEN 0 ELSE CondBits[op[1]], ft, fs, cc * 4, 0, 0)

-----------------------------------------------------------------------------
(***************************************************************************)
(* What is told of an instruction.  Operand lists are written as lexemes   *)
(* <<kind, text, number>>, the form the scanner of module Parser reads.    *)
(***************************************************************************)
NoText == <<"", "">>
Num(n) == <<"num", NoText, n>>
Reg(r) == <<"reg", NoText, r>>
FReg(r) == <<"freg", NoText, r>>
Name(t) == <<"name", t, 0>>
Mark(c) == <<c, NoText, 0>>

\* A negative number is a dash with digits right after it.
Number(n) == IF n < 0 THEN <<Mark("-"), Num(-n)>> ELSE <<Num(n)>>

\* Register 0 is listed by the name r0, which no source may use for it.
Listed(r) == IF r = 0 THEN <<Name(<<"r0", "">>)>> ELSE <<Reg(r)>>

CC(i) == i.rt \div 4
BranchOffset(i) == Signed((i.imm * 4) % 65536)

\* format_an_inst: the operands of the listing, in its order, without the
\* address, the word and the source text around them.
format_an_inst(i) ==
    LET T == TypeOf(i.op)
        imm == Number(Signed(i.imm))
        base == <<Mark("(")>> \o Listed(i.rs) \o <<Mark(")")>>
    IN CASE T = "BRANCH_COPROC_COND" -> <<Num(CC(i))>> \o Number(BranchOffset(i))
         [] T = "BRANCH_RS_LABEL" -> Listed(i.rs) \o Number(BranchOffset(i))
         [] T = "RS_IMM" -> Listed(i.rs) \o imm
         [] T = "RT_IMM" -> Listed(i.rt) \o imm
         [] T = "RT_RS_IMM" -> Listed(i.rt) \o Listed(i.rs) \o imm
         [] T = "BRANCH_RS_RT_LABEL" -> Listed(i.rs) \o Listed(i.rt) \o Number(BranchOffset(i))
         [] T = "RT_ADDR" -> Listed(i.rt) \o imm \o base
         [] T = "RS" -> Listed(i.rs)
         [] T = "RD" -> Listed(i.rd)
         [] T = "RT_COPREG" -> Listed(i.rt) \o Listed(i.rd)
         [] T = "RS_RT" -> Listed(i.rs) \o Listed(i.rt)
         [] T = "RD_RS" -> Listed(i.rd) \o Listed(i.rs)
         [] T = "RD_RT_SHAMT" -> Listed(i.rd) \o Listed(i.rt) \o <<Num(i.sh)>>
         [] T = "RD_RS_RT" -> Listed(i.rd) \o Listed(i.rs) \o Listed(i.rt)
         [] T = "RD_RT_RS" -> Listed(i.rd) \o Listed(i.rt) \o Listed(i.rs)
         [] T = "FP_FT_ADDR" -> <<FReg(i.rt)>> \o imm \o base
         [] T = "FP_FD_FS" -> <<FReg(i.sh), FReg(i.rd)>>
         [] T = "FP_RT_COPREG" -> Listed(i.rt) \o <<FReg(i.rd)>>
         [] T = "FP_CMP_FS_FT" -> (IF i.sh = 0 THEN <<>> ELSE <<Num(i.sh \div 4)>>)
                                  \o <<FReg(i.rd), FReg(i.rt)>>
         [] T = "FP_FD_FS_FT" -> <<FReg(i.sh), FReg(i.rd), FReg(i.rt)>>
         [] T = "MOVC" -> Listed(i.rd) \o Listed(i.rs) \o <<Num(CC(i))>>
         [] T = "FP_MOVC" -> <<FReg(i.sh), FReg(i.rd), Num(CC(i))>>
         [] T = "J" -> <<Num(i.tgt * 4)>>
         [] OTHER -> <<>>

\* sll $0, $0, 0 and every other shift of nothing are listed as nop.
ListedAsNop(i) == TypeOf(i.op) = "RD_RT_SHAMT" /\ i.rd = 0 /\ i.rt = 0 /\ i.sh = 0
Listing(i) == IF ListedAsNop(i) THEN <<Name(<<"nop", "">>)>> ELSE <<Name(i.op)>> \o format_an_inst(i)

\* explain.c's own tables of names.
special_funct_to_name ==
    {<<0, "sll">>, <<2, "srl">>, <<3, "sra">>, <<4, "sllv">>, <<6, "srlv">>, <<7, "srav">>,
     <<8, "jr">>, <<9, "jalr">>, <<10, "movz">>, <<11, "movn">>, <<12, "syscall">>, <<13, "break">>,
     <<16, "mfhi">>, <<17, "mthi">>, <<18, "mflo">>, <<19, "mtlo">>, <<24, "mult">>,
     <<25, "multu">>, <<26, "div">>, <<27, "divu">>, <<32, "add">>, <<33, "addu">>, <<34, "sub">>,
     <<35, "subu">>, <<36, "and">>, <<37, "or">>, <<38, "xor">>, <<39, "nor">>, <<42, "slt">>,
     <<43, "sltu">>}
\* Mutant of regimm_rt_to_name: two names are exchanged.
RegimmSwapped == {<<0, "bltz">>, <<1, "bgez">>, <<16, "bgezal">>, <<17, "bltzal">>}
regimm_rt_to_name == {<<0, "bltz">>, <<1, "bgez">>, <<16, "bltzal">>, <<17, "bgezal">>}

NameIn(table, n, mnemonic) ==
    IF \E e \in table : e[1] = n THEN <<(CHOOSE e \in table : e[1] = n)[2], "">> ELSE mnemonic

\* explain_bit_layout and explain_decoding_steps: the layout chosen and the
\* walkthrough, whose operands are read from the word, not from the instruction.
layout(w) == IF w[1] \in {0, 28, 31} THEN "R" ELSE IF w[1] \in {2, 3} THEN "J" ELSE "I"

\* The fields each frame uncovers, by render_r_decode_step, render_j_decode_step,
\* render_regimm_decode_step and render_i_decode_step.
frames(w) ==
    CASE layout(w) = "R" -> <<{"op"}, {"fn"}, {"rs", "rt", "rd", "sh"}>>
      [] layout(w) = "J" -> <<{"op"}, {"tgt"}>>
      [] w[1] = 1 -> <<{"op"}, {"rt"}, {"rs", "imm"}>>
      [] OTHER -> <<{"op"}, {"rs", "rt", "imm"}>>

Told(i, w) ==
    LET name == CASE w[1] = 0 -> NameIn(special_funct_to_name, w[6], i.op)
                  [] w[1] = 1 -> NameIn(regimm_rt_to_name, w[3], i.op)
                  [] OTHER -> i.op
        shown(f) == CASE f = "rs" -> w[2] [] f = "rt" -> w[3] [] f = "rd" -> w[4]
                      [] f = "sh" -> w[5] [] f = "imm" -> Low(w) [] f = "tgt" -> Target(w)
                      [] f = "fn" -> w[6] [] OTHER -> w[1]
        uncovered == frames(w)
    IN [name |-> name,
        fields |-> {<<f, shown(f)>> : f \in UNION {uncovered[k] : k \in 1..Len(uncovered)}}]
explain_decoding_steps(i) == Told(i, Encode(i))
=============================================================================
