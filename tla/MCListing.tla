----------------------------- MODULE MCListing -----------------------------
(***************************************************************************)
(* Files for module Listing: one line for every instruction, with operands *)
(* of every kind; files of a few good and bad lines; and expressions.      *)
(***************************************************************************)
EXTENDS Listing

N(s) == Name(<<s, "">>)
x == N("x")
Str == <<"str", <<"s", "">>, 0>>
Fp15 == <<"fp", NoText, 15>>
Blank == Mark(" ")
Comma == Mark(",")

\* Operands of each kind: ordinary ones, those at a boundary, and zeros.
OperandText(kind, how) ==
    LET n == IF how = "zero" THEN 0 ELSE 6
        extreme(low, high) == CASE how = "low" -> Number(low) [] how = "high" -> Number(high)
                                [] OTHER -> <<Num(n)>>
    IN CASE kind = "freg" -> <<FReg(n)>>
         [] kind = "cop" -> <<FReg(n + 1)>>
         [] kind = "third" -> <<Num(n)>>
         [] kind \in {"cc", "int"} -> IF how = "zero" THEN <<Num(0)>> ELSE <<Num(5)>>
         [] kind = "imm16" -> extreme(-32768, 32767)
         [] kind = "uimm16" -> extreme(1, 65535)
         [] kind = "addr" -> (IF how = "zero" THEN <<>> ELSE extreme(-4, 32764)) \o <<Mark("("), Reg(9), Mark(")")>>
         [] kind = "label" -> <<x>>
         [] OTHER -> <<Reg(n)>>

\* r is a row of the opcode table.
ShapeOf(r) ==
    CASE r[1] = "ssnop" -> <<>>
      [] r[3] \in DOMAIN Forms -> Forms[r[3]][1]
      [] r[1] \in {"clo", "clz"} -> <<"reg", "reg">>
      [] r[3] \in {"RD_RS_RT", "RD_RT_RS"} -> <<"reg", "reg", "reg">>
      [] r[1] \in {"andi", "ori", "xori"} -> <<"reg", "reg", "uimm16">>
      [] r[3] = "RT_RS_IMM" -> <<"reg", "reg", "imm16">>
      [] r[3] = "BRANCH_RS_RT_LABEL" -> <<"reg", "reg", "label">>
      [] r[3] = "J" -> <<"label">>
      [] OTHER -> <<"reg", "reg">>

\* The registers of a line are made different by the place they stand in.
Placed1(lexemes, k) == [j \in 1..Len(lexemes) |->
    IF lexemes[j][1] \in {"reg", "freg"} /\ lexemes[j][3] = 6 THEN [lexemes[j] EXCEPT ![3] = 10 + k] ELSE lexemes[j]]
OpLine(r, how) ==
    <<Name(<<r[1], r[2]>>)>> \o FlattenSeq([k \in 1..Len(ShapeOf(r)) |->
        Append(Placed1(OperandText(ShapeOf(r)[k], how), k), Comma) \o <<Blank>>])
PseudoText(kind) == CASE kind = "fp" -> <<Fp15>> [] kind = "imm" -> <<Num(70000)>> [] OTHER -> OperandText(kind, "some")
PseudoLine(op) == <<Name(op)>> \o FlattenSeq([k \in 1..Len(PseudoShape(op)) |-> PseudoText(PseudoShape(op)[k])])

OneLine == {<<OpLine(r, how)>> : r \in Rows, how \in {"some", "low", "high", "zero"}}
           \cup {<<PseudoLine(op)>> : op \in PseudoOps}

\* Statements, good and bad.
Good ==
    {<<N("add"), Reg(8), Comma, Reg(9), Comma, Reg(10)>>, <<N("jr"), Reg(31)>>, <<N("syscall")>>,
     <<N("nop")>>, <<N(".data")>>, <<N(".text"), Num(64)>>, <<N(".set"), N("noreorder")>>,
     <<N("x"), Mark(":")>>, <<N("x"), Mark(":"), N("addi"), Reg(8), Num(4), Mark("-"), Num(1), Mark("#")>>,
     <<N(".globl"), N("add")>>, <<N("beq"), Reg(8), Num(5), N("add")>>, <<N("li"), Reg(8), N("k")>>,
     <<N("nop"), Mark(";"), N("jr"), Reg(31)>>}
Bad ==
    {<<N("add"), Reg(8), Reg(9)>>, <<N("foo"), Reg(8)>>, <<N("lw"), Reg(8)>>, <<N("jr"), Reg(31), Reg(30)>>,
     <<N("lw"), Reg(8), Num(4), Mark("+"), x>>, <<N("rem"), Reg(8), Reg(9), Num(0)>>,
     <<N("beq"), Reg(8), Reg(9), N("add")>>, <<N("nop"), Mark("@"), N("nop")>>,
     <<N(".asciiz"), Str>>}
More ==
    {<<>>, <<Mark("#")>>, <<N("k"), Mark("="), Num(3)>>, <<N("y"), Mark("="), Num(3), Mark("*"), Num(2)>>,
     <<N(".ascii"), Str, Comma, Str>>, <<N(".ascii"), Num(1)>>, <<N(".float"), Fp15, Comma, Fp15>>,
     <<N(".float"), Num(1), Comma, Num(5)>>, <<N(".double"), Num(1)>>, <<N(".byte"), Num(1), Comma, Blank, Num(2)>>,
     <<N(".half"), Num(4), Mark("-"), Num(2), Mark("("), x, Mark(")")>>, <<N(".space"), Num(4)>>,
     <<N(".align"), Num(2)>>, <<N(".extern"), x, Num(4)>>, <<N(".comm"), Num(4)>>, <<N(".comm"), x, Num(8)>>,
     <<N(".lcomm"), x, Num(8)>>, <<N(".err")>>, <<N(".globl")>>, <<N("foo")>>, <<N("sub"), Reg(8), x>>, <<N("sub"), Reg(8), Reg(9), Num(3)>>,
     <<N("mul"), Reg(8), Reg(9), Num(3)>>, <<N("or"), Reg(8), Num(3)>>, <<N("ori"), Reg(8), Num(70000)>>,
     <<N("beq"), Reg(8), Num(0), x>>, <<N("div"), Reg(8), Reg(9), Reg(10)>>, <<N("div"), Reg(8), Reg(9), Num(0)>>,
     <<N("div"), Reg(8)>>, <<N("div"), Reg(8), Reg(9), Num(3)>>, <<N("mult"), Reg(8), Num(3)>>, <<N("j"), Reg(8)>>,
     <<N("jal"), Reg(8), Reg(9)>>, <<N("jalr"), Reg(8)>>, <<N("sll"), Reg(8), Reg(9)>>,
     <<N("sllv"), Reg(8), Reg(9), Num(3)>>, <<N("sllv"), Reg(8), Reg(9), x>>, <<N("break"), Num(1)>>,
     <<N("lw"), Reg(8), x, Mark("+"), Num(4), Mark("("), Reg(9), Mark(")")>>, <<N("lw"), Reg(8), x, Mark("-"), Num(4)>>,
     <<N("lw"), Reg(8), Mark("("), Num(9), Mark(")")>>, <<N("ori"), Reg(8), Mark("("), Num(12), Mark(")"), Mark(">"), Mark(">"), Num(2)>>,
     <<N("li"), Reg(8), Mark("("), Num(12), Mark(">")>>, <<N("li"), Reg(8), Num(4), Comma, Blank, Num(2)>>,
     <<N("ror"), Reg(8), Reg(9), Num(40)>>, <<N("li"), Reg(8), x, Mark("+"), x>>,
     <<N("movf"), Reg(8), Reg(9)>>, <<Name(<<"movn", "s">>), FReg(2), FReg(4), Reg(9)>>,
     <<Name(<<"li", "s">>), FReg(2), Num(1)>>, <<Mark("("), Num(1)>>}

\* Any line after a bad or a good one, and a good or a bad one after both.
After == {<<N("add"), Reg(8), Comma, Reg(9), Comma, Reg(10)>>, <<N(".asciiz"), Str>>, <<N("x"), Mark(":")>>}
Files == {<<a, b, c>> : a \in {<<N(".data")>>, <<N("nop"), Mark(";")>>} \cup Bad \cup After,
                        b \in Good \cup Bad \cup More, c \in Bad \cup After}

\* Expressions of up to three operands, printed with the parentheses they need.
Operators == {"+", "-", "*", "/"}
Leaves == {<<"num", 7>>, <<"num", -2>>, <<"num", 0>>, <<"label", "x">>, <<"known", 5>>}
Two == {<<op, l, r>> : op \in Operators, l \in Leaves, r \in Leaves}
Third == {<<"num", -2>>, <<"label", "x">>}
Trees == UNION {Leaves, Two,
                {<<op, l, r>> : op \in Operators, l \in Two, r \in Third},
                {<<op, l, r>> : op \in Operators, l \in Third, r \in Two}}
Binds(e) == CASE e[1] \in {"+", "-"} -> 1 [] e[1] \in {"*", "/"} -> 2 [] OTHER -> 3
RECURSIVE Text(_, _)
Text(e, least) ==
    LET body == CASE e[1] = "num" -> Number(e[2])
                  [] e[1] = "label" -> <<x>>
                  [] e[1] = "known" -> <<N("m")>>
                  [] OTHER -> Text(e[2], Binds(e)) \o <<Blank, Mark(e[1]), Blank>> \o Text(e[3], Binds(e) + 1)
    IN IF Binds(e) < least THEN <<Mark("(")>> \o body \o <<Mark(")")>> ELSE body
File(e) == <<<<N(".word")>> \o Text(e, 0)>>

MCPrograms == {<<f, NoExpression>> : f \in OneLine \cup Files} \cup {<<File(e), e>> : e \in Trees}
MCConsts == [t \in {<<"k", "">>} |-> 3]
MCLabels == [t \in {<<"m", "">>} |-> 5]

\* Values of a list with a comma and no blank between them.
HangPrograms == {<<<<<<N(".data")>>, <<N(".word"), Num(1), Comma, Num(2)>>, <<N("nop")>>>>, NoExpression>>}
=============================================================================
