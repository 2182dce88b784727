------------------------------- MODULE Parser -------------------------------
(***************************************************************************)
(* The scanner (scanner.c) and the parse phase of the parser (parser.c):   *)
(* source text to the nodes of the syntax tree (ast.c).                    *)
(*                                                                         *)
(* The whole state of both is one record, and every function of the C code *)
(* that reads tokens is an operator from such a record to the next.  The   *)
(* source is a sequence of lexemes (module Encoding): a run of characters  *)
(* the scanner takes together, or one of the marks " " "," "#" "nl" ";"    *)
(* "@" and the punctuation; "#" stands for a whole comment and "@" for a   *)
(* character no token starts with.  A file ends in a newline.              *)
(***************************************************************************)
EXTENDS Encoding, FiniteSetsExt, SequencesExt

CONSTANTS Consts,   \* constants earlier files defined: a function from names to integers
          Labels,   \* labels earlier files defined: a function from names to addresses
          MaxKept   \* bound: errors counted, and values kept of one list

ASSUME ParserAssumption ==
    /\ MaxKept \in Nat \ {0}
    /\ \A t \in DOMAIN Consts : Consts[t] \in Int
    /\ \A t \in DOMAIN Labels : Labels[t] \in Nat \ {0} /\ t \notin DOMAIN Consts

Kept(s, v) == IF Len(s) < MaxKept THEN Append(s, v) ELSE s

Plain(names) == {<<n, "">> : n \in names}

\* Operands of the pseudo-instructions; a group shares one shape.
PseudoShapes ==
    {<<Plain({"nop"}), <<>>>>, <<Plain({"li"}), <<"reg", "imm">>>>,
     <<Plain({"move", "neg", "negu", "not", "abs"}), <<"reg", "reg">>>>,
     <<Plain({"ror", "rol", "sle", "sleu", "sgt", "sgtu", "sge", "sgeu", "seq", "sne",
              "rem", "remu", "mulo", "mulou"}), <<"reg", "reg", "regimm">>>>,
     <<{<<"mfc1", "d">>, <<"mtc1", "d">>}, <<"reg", "cop">>>>,
     <<{<<"li", "s">>, <<"li", "d">>}, <<"freg", "fp">>>>,
     <<{<<"l", "s">>, <<"l", "d">>, <<"s", "s">>, <<"s", "d">>}, <<"freg", "addr">>>>,
     <<Plain({"ld", "sd", "ulw", "ulh", "ulhu", "usw", "ush", "la"}), <<"reg", "addr">>>>,
     <<Plain({"beqz", "bnez"}), <<"reg", "label">>>>, <<Plain({"b", "bal"}), <<"label">>>>,
     <<Plain({"bgt", "bgtu", "bge", "bgeu", "blt", "bltu", "ble", "bleu"}),
       <<"reg", "regimm", "label">>>>}
PseudoOps == UNION {s[1] : s \in PseudoShapes}
PseudoShape(op) == (CHOOSE s \in PseudoShapes : op \in s[1])[2]

Segments == Plain({".text", ".data", ".ktext", ".kdata"})
IntLists == Plain({".word", ".half", ".byte"})
FpLists == Plain({".float", ".double"})
Strings == Plain({".ascii", ".asciiz"})
Ignored == Plain({".file", ".loc", ".frame", ".mask", ".fmask", ".ent", ".end", ".lab", ".livereg",
                  ".option", ".bgnb", ".endb", ".endr", ".asm0", ".alias", ".set"})
Unsupported == Plain({".lcomm", ".noalias", ".rdata", ".repeat", ".sdata", ".struct", ".verstamp",
                      ".vreg"})
Directives == UNION {Segments, IntLists, FpLists, Strings, Ignored, Unsupported,
                     Plain({".globl", ".align", ".space", ".extern", ".comm", ".err"})}

Keywords == UNION {Ops, PseudoOps, Directives}

-----------------------------------------------------------------------------
(***************************************************************************)
(* scanner.c.  A token is <<kind, text, number>>; a floating point value is *)
(* its number of tenths.  "cur" is the line whose text source_line gives,  *)
(* 0 for none; "val" is scan_value.                                        *)
(***************************************************************************)
Token(kind) == <<kind, NoText, 0>>

\* scanner_init and parser_init, for a file whose parse starts in text or data.
parser_init(src, text) ==
    [src |-> src, at |-> 1, buf |-> <<>>, force |-> FALSE, line |-> 1, cur |-> 0,
     val |-> Token("NL"), flag |-> FALSE, errors |-> <<>>, warned |-> {}, nodes |-> <<>>,
     text |-> text, unresolved |-> NoText, ret |-> 0, sym |-> NoText, args |-> <<>>,
     form |-> "reg", list |-> [name |-> NoText, vals |-> <<>>, line |-> 0], pc |-> "line"]

scanner_force_identifier(p) == [p EXCEPT !.force = TRUE]
scanner_start_line(p) == [p EXCEPT !.cur = 0]

KindAt(src, j) == IF j \in 1..Len(src) THEN src[j][1] ELSE "eof"

\* Position of the next lexeme that is not skipped.
NextReal(p) ==
    Min({j \in p.at..Len(p.src) : KindAt(p.src, j) \notin {" ", ",", "#"}} \cup {Len(p.src) + 1})

\* scan_fp_check: digits, a comma and digits are one floating point number.
scan_fp_check(src, j) ==
    /\ KindAt(src, j) = "num"
    /\ KindAt(src, j + 1) = ","
    /\ KindAt(src, j + 2) = "num"

\* scan_identifier, once the keyword check is passed or skipped
scan_identifier(text, force) ==
    IF text \in Keywords /\ ~force THEN <<"OP", text, 0>>
    ELSE IF text \in DOMAIN Consts THEN <<"INT", NoText, Consts[text]>>
    ELSE <<"ID", text, 0>>

\* The token that starts at position j, and how many lexemes it takes.
Scanned(src, j, force) ==
    LET k == KindAt(src, j)
        negative == k = "-" /\ KindAt(src, j + 1) \in {"num", "fp"}
        d == IF negative THEN j + 1 ELSE j
        sign == IF negative THEN -1 ELSE 1
        taken == d - j + 1
    IN CASE k = "eof" -> <<Token("EOF"), 0>>
         [] k \in {"nl", ";", "@"} -> <<Token("NL"), 1>>
         [] scan_fp_check(src, d) ->
              <<<<"FP", NoText, sign * (10 * src[d][3] + src[d + 2][3])>>, taken + 2>>
         [] negative \/ k \in {"num", "fp"} ->
              <<<<IF KindAt(src, d) = "fp" THEN "FP" ELSE "INT", NoText, sign * src[d][3]>>, taken>>
         [] k = "name" -> <<scan_identifier(src[j][2], force), 1>>
         [] k = "reg" -> <<<<"REG", NoText, src[j][3]>>, 1>>
         [] k = "freg" -> <<<<"FP_REG", NoText, src[j][3]>>, 1>>
         [] k = "str" -> <<<<"STR", src[j][2], 0>>, 1>>
         [] OTHER -> <<Token(k), 1>>

\* Mutant of CountsLine: a semicolon ends a line as well.
CountsStatements(kind) == kind \in {"nl", ";"}
\* The characters that end a line of the file, not only a statement.
CountsLine(kind) == kind = "nl"

\* scan_one_token: the force flag lasts for one token of any kind; the text
\* of the line is kept when its first real token is scanned, and forgotten
\* when the next line is read.
Buffered(p, j, t) ==
    LET refilled == p.at <= Len(p.src) /\ KindAt(p.src, p.at - 1) \in {"eof", "nl"}
        saved == IF refilled THEN 0 ELSE p.cur
    IN [p EXCEPT !.buf = Append(@, t[1]), !.at = j + t[2], !.force = FALSE,
                 !.line = IF CountsLine(KindAt(p.src, j)) THEN @ + 1 ELSE @,
                 !.cur = IF saved = 0 /\ KindAt(p.src, j) \notin {"nl", ";", "eof"}
                         THEN p.line ELSE saved]
ScanAt(p, j) == Buffered(p, j, Scanned(p.src, j, p.force))
scan_one_token(p) == ScanAt(p, NextReal(p))

\* Mutant of peek: the buffer is not looked at.
PeekAgain(p) == scan_one_token(p)
\* scanner_peek and scanner_peek2 fill the buffer; Tok and Tok2 read it.
peek(p) == IF Len(p.buf) >= 1 THEN p ELSE scan_one_token(p)
peek2(p) == IF Len(p.buf) >= 2 THEN p ELSE scan_one_token(peek(p))
Tok(p) == p.buf[1][1]
Tok2(p) == p.buf[2][1]

\* scanner_advance, of a token that has been peeked at, as every caller's has:
\* scan_value changes only with a token that has a value.
advance(q) ==
    [q EXCEPT !.buf = Tail(@),
              !.val = IF Tok(q) \in {"INT", "ID", "REG", "FP_REG", "STR", "FP"} THEN q.buf[1] ELSE @]

-----------------------------------------------------------------------------
(***************************************************************************)
(* The error helpers and the operands.  A number parsed is left in "ret",  *)
(* a symbol in "sym"; operands are collected in "args".                    *)
(***************************************************************************)
AtEnd(p) == Tok(p) \in {"NL", "EOF"}
parse_error_at(p) == [p EXCEPT !.flag = TRUE, !.errors = Kept(@, p.line)]
Ret(p, v) == [p EXCEPT !.ret = v]
Push(p, v) == [p EXCEPT !.args = Append(@, v)]

RECURSIVE sync_to_nl(_)
SkipFrom(q) == IF AtEnd(q) THEN q ELSE sync_to_nl(advance(q))
sync_to_nl(p) == SkipFrom(peek(p))

Expected(q, kind) == IF Tok(q) = kind THEN advance(q) ELSE parse_error_at(q)
expect(p, kind) == Expected(peek(p), kind)

\* parse_abs_addr: an integer, then an integer after a plus or with a minus.
AddedTo(v, q) == IF Tok(q) = "INT" THEN Ret(advance(q), v + q.buf[1][3]) ELSE Ret(parse_error_at(q), v)
AbsRest(v, q) ==
    CASE Tok(q) = "+" -> AddedTo(v, peek(advance(q)))
      [] Tok(q) = "INT" -> Ret(IF q.buf[1][3] >= 0 THEN parse_error_at(advance(q)) ELSE advance(q),
                               v + q.buf[1][3])
      [] OTHER -> Ret(q, v)
AbsAt(q) == IF Tok(q) = "INT" THEN AbsRest(q.buf[1][3], peek(advance(q))) ELSE Ret(parse_error_at(q), 0)
parse_abs_addr(p) == AbsAt(peek(p))

\* Mutant of Quot: the quotient is rounded down.
Floored(a, b) == IF b = 0 THEN 0 ELSE IF b > 0 THEN a \div b ELSE (-a) \div (-b)
\* C's division truncates; parse_term makes it 0 for a zero divisor.
Quot(a, b) == IF b = 0 THEN 0
              ELSE LET q == (IF a < 0 THEN -a ELSE a) \div (IF b < 0 THEN -b ELSE b)
                   IN IF (a < 0) = (b < 0) THEN q ELSE -q
Apply(op, a, b) == CASE op = "+" -> a + b [] op = "-" -> a - b [] op = "*" -> a * b [] OTHER -> Quot(a, b)

RECURSIVE parse_expr(_)

\* A label of an earlier file is its address.  Those of this file have none
\* while it is parsed: such a label counts as 0, and the first one of an
\* expression is remembered.
Unresolved(q, text) == Ret([advance(q) EXCEPT !.unresolved = IF @ = NoText THEN text ELSE @], 0)
\* Mutant of LabelAt: a label with an address is remembered for patching too.
LabelPatched(q, text) ==
    IF text \in DOMAIN Labels THEN Ret(Unresolved(q, text), Labels[text]) ELSE Unresolved(q, text)
LabelAt(q, text) ==
    IF text \in DOMAIN Labels THEN Ret(advance(q), Labels[text]) ELSE Unresolved(q, text)
FactorAt(q) ==
    CASE Tok(q) = "INT" -> Ret(advance(q), q.buf[1][3])
      [] Tok(q) = "(" -> expect(parse_expr(advance(q)), ")")
      [] Tok(q) = "ID" -> LabelAt(q, q.buf[1][2])
      [] OTHER -> Ret(parse_error_at(q), 0)
parse_factor(p) == FactorAt(peek(p))

Applied(q, r) == Ret(r, Apply(Tok(q), q.ret, r.ret))
RECURSIVE TermRest(_)
TermStep(q) ==
    IF Tok(q) \in {"*", "/"} THEN TermRest(Applied(q, parse_factor(advance(q)))) ELSE q
TermRest(p) == TermStep(peek(p))
parse_term(p) == TermRest(parse_factor(p))

RECURSIVE ExprRest(_)
ExprStep(q) ==
    IF Tok(q) \in {"+", "-"} THEN ExprRest(Applied(q, parse_term(advance(q)))) ELSE q
ExprRest(p) == ExprStep(peek(p))
parse_expr(p) == ExprRest(parse_term(p))

parse_expression(p) == parse_expr([scanner_force_identifier(p) EXCEPT !.unresolved = NoText])

\* ID, ID + ABS_ADDR or ID - ABS_ADDR, after the identifier
OffsetAt(q, sym) ==
    IF Tok(q) \in {"+", "-"}
    THEN [parse_abs_addr(advance(q)) EXCEPT !.sym = sym, !.ret = IF Tok(q) = "-" THEN -@ ELSE @]
    ELSE [q EXCEPT !.sym = sym, !.ret = 0]
SymbolRest(p) == OffsetAt(peek(p), p.val[2])

Shifted(v, n) == v \div (2^n)

\* The amount of a shift, after '(' ABS_ADDR ')' '>' '>'
ShiftBy(q, v) ==
    IF Tok(q) = "INT" THEN Ret(advance(q), Shifted(v, q.buf[1][3])) ELSE Ret(parse_error_at(q), 0)
ShiftRest(p) == ShiftBy(peek(expect(expect(expect(p, ")"), ">"), ">")), p.ret)
ImmAt(q) ==
    CASE Tok(q) = "ID" -> SymbolRest(advance(q))
      [] Tok(q) = "(" -> [ShiftRest(parse_abs_addr(advance(q))) EXCEPT !.sym = NoText]
      [] OTHER -> [parse_abs_addr(q) EXCEPT !.sym = NoText]
parse_imm32(p) == ImmAt(peek(scanner_force_identifier(p)))

\* check_imm_range and check_uimm_range tell of a value out of range, but
\* count no error.  A negative value is a large one to the unsigned check.
Ranged(p, low, high) ==
    IF p.sym = NoText /\ p.ret \notin low..high THEN [p EXCEPT !.warned = @ \cup {p.line}] ELSE p

\* '(' REGISTER ')' after an address, when there is one
BaseAt(q) ==
    expect(IF Tok(q) = "REG" THEN Push(advance(q), q.buf[1][3]) ELSE Push(parse_error_at(q), 0), ")")
BaseRegister(q) == IF Tok(q) = "(" THEN BaseAt(peek(advance(q))) ELSE Push(q, 0)

\* parse_address: the base register and the offset.
WithOffset(p, off, sym) == [Push(p, off) EXCEPT !.ret = off, !.sym = sym]
AbsAddress(q) ==
    IF Tok(q) = "+" /\ Tok2(q) = "ID"
    THEN WithOffset(Push(advance(scanner_force_identifier(advance(q))), 0), q.ret, q.buf[2][2])
    ELSE WithOffset(BaseRegister(q), q.ret, NoText)
SymbolAddress(q) == WithOffset(BaseRegister(q), q.ret, q.sym)
PastPlus(q) == IF Tok(q) = "+" THEN peek2(q) ELSE q
AddressAt(q) ==
    CASE Tok(q) = "(" -> WithOffset(BaseRegister(q), 0, NoText)
      [] Tok(q) = "INT" -> AbsAddress(PastPlus(peek(parse_abs_addr(q))))
      [] Tok(q) = "ID" -> SymbolAddress(peek(SymbolRest(advance(q))))
      [] OTHER -> WithOffset(Push(parse_error_at(q), 0), 0, NoText)
parse_address(p) == AddressAt(peek(scanner_force_identifier(p)))

\* One operand of a kind.  "cc" is optional; "third" is the last operand of
\* movf.fmt and movn.fmt; "regimm" remembers which of the two it found.
Taken(q, kind, otherwise) == IF Tok(q) = kind THEN Push(advance(q), q.buf[1][3]) ELSE otherwise
Immediates == {"imm", "imm16", "uimm16"}
ImmOperand(r, kind) ==
    [Push(CASE kind = "imm16" -> Ranged(r, -32768, 32767)
            [] kind = "uimm16" -> Ranged(r, 0, 65535)
            [] OTHER -> r, r.ret) EXCEPT !.form = "imm"]
TokenOperand(q, kind) ==
    CASE kind = "reg" -> Taken(q, "REG", Push(parse_error_at(q), 0))
      [] kind = "regimm" -> [Taken(q, "REG", q) EXCEPT !.form = "reg"]
      [] kind = "freg" -> Taken(q, "FP_REG", Push(parse_error_at(q), 0))
      [] kind = "cop" -> Taken(q, "FP_REG", Taken(q, "REG", Push(parse_error_at(q), 0)))
      [] kind = "fp" -> Taken(q, "FP", parse_error_at(q))
      [] kind = "int" -> Taken(q, "INT", parse_error_at(q))
      [] kind = "cc" -> Taken(q, "INT", Push(q, 0))
      [] kind = "third" -> Taken(q, "REG", IF Tok(q) = "INT" THEN Push(advance(q), (q.buf[1][3] % 8) * 4)
                                           ELSE Push(q, 0))
      [] OTHER -> IF Tok(q) = "ID" THEN [Push(advance(q), 0) EXCEPT !.sym = q.buf[1][2]]
                  ELSE [Push(parse_error_at(q), 0) EXCEPT !.sym = NoText]
parse_register(p) == TokenOperand(peek(p), "reg")
parse_label(p) == TokenOperand(peek(p), "label")
OperandAt(q, kind) ==
    IF kind \in Immediates \/ (kind = "regimm" /\ Tok(q) # "REG") THEN ImmOperand(parse_imm32(q), kind)
    ELSE IF kind = "addr" THEN parse_address(q) ELSE TokenOperand(q, kind)
Operand(p, kind) == OperandAt(IF kind \in Immediates \cup {"addr"} THEN p ELSE peek(p), kind)

RECURSIVE Operands(_, _)
Operands(p, shape) == IF shape = <<>> THEN p ELSE Operands(Operand(p, Head(shape)), Tail(shape))

-----------------------------------------------------------------------------
(***************************************************************************)
(* Statements.  A node has the kind of its constructor in ast.c, the       *)
(* operands in the order emit_r, emit_i, ... take them, the line number    *)
(* and the line of text new_node records.  The nodes an expansion makes    *)
(* are those of module Pseudo: here one node stands for them.              *)
(***************************************************************************)
Node(kind, name, a, sym, line, src) ==
    [kind |-> kind, name |-> name, a |-> a, sym |-> sym, line |-> line, src |-> src]
ast_append(p, kind, name, a, sym) ==
    [p EXCEPT !.nodes = Append(@, Node(kind, name, a, sym, p.line, p.cur))]
emit(p, kind, name, a) == ast_append(p, kind, name, a, IF kind \in {"i", "j", "expansion"} THEN p.sym ELSE NoText)

\* Types whose operands are simply read in turn: the shape, the kind of the
\* node, and which operand goes where (0: none).
Forms ==
    [NOARG |-> <<<<"cc">>, "r", <<1, 0, 0>>>>, RS |-> <<<<"reg">>, "r", <<0, 1, 0>>>>,
     RD |-> <<<<"reg">>, "r", <<1, 0, 0>>>>, RD_RT_SHAMT |-> <<<<"reg", "reg", "int">>, "shift", <<1, 2, 3>>>>,
     RT_IMM |-> <<<<"reg", "uimm16">>, "i", <<1, 0, 2>>>>, RS_IMM |-> <<<<"reg", "imm16">>, "i", <<0, 1, 2>>>>,
     RT_ADDR |-> <<<<"reg", "addr">>, "i", <<1, 2, 3>>>>, FP_FT_ADDR |-> <<<<"freg", "addr">>, "i", <<1, 2, 3>>>>,
     BRANCH_RS_LABEL |-> <<<<"reg", "label">>, "i", <<0, 1, 2>>>>,
     BRANCH_COPROC_COND |-> <<<<"cc", "label">>, "i", <<1, 0, 2>>>>,
     RT_COPREG |-> <<<<"reg", "cop">>, "fp", <<0, 2, 1>>>>, FP_RT_COPREG |-> <<<<"reg", "cop">>, "fp", <<0, 2, 1>>>>,
     MOVC |-> <<<<"reg", "reg", "cc">>, "r", <<1, 2, 3>>>>, FP_FD_FS |-> <<<<"freg", "freg">>, "fp", <<1, 2, 0>>>>,
     FP_FD_FS_FT |-> <<<<"freg", "freg", "freg">>, "fp", <<1, 2, 3>>>>,
     FP_CMP_FS_FT |-> <<<<"cc", "freg", "freg">>, "cmp", <<2, 3, 1>>>>,
     FP_MOVC |-> <<<<"freg", "freg", "third">>, "fp", <<1, 2, 3>>>>]

\* The RT field of a coprocessor branch: condition code, nullify, true.
cc_to_rt(op, cc) == cc * 4 + (IF op[1] \in {"bc1fl", "bc1tl", "bc2fl", "bc2tl"} THEN 2 ELSE 0)
                           + (IF op[1] \in {"bc1t", "bc1tl", "bc2t", "bc2tl"} THEN 1 ELSE 0)

Placed(op, v) ==
    CASE TypeOf(op) = "BRANCH_COPROC_COND" -> [v EXCEPT ![1] = cc_to_rt(op, @)]
      [] TypeOf(op) = "MOVC" -> [v EXCEPT ![3] = (@ % 8) * 4]
      [] OTHER -> v

\* A missing shift amount ends the statement without a node; ssnop is a
\* shift of its own; breakpoint 1 is reported and assembled.
FormNode(q, op, form) ==
    IF TypeOf(op) = "RD_RT_SHAMT" /\ Len(q.args) < 3 THEN q
    ELSE emit(IF op = <<"break", "">> /\ q.args = <<1>> THEN parse_error_at(q) ELSE q, form[2], op,
              Placed(op, [k \in 1..3 |-> IF form[3][k] = 0 THEN 0 ELSE q.args[form[3][k]]]))
parse_form(p, op) ==
    IF op = <<"ssnop", "">> THEN emit(p, "shift", <<"sll", "">>, <<0, 0, 1>>)
    ELSE FormNode(Operands(p, Forms[TypeOf(op)][1]), op, Forms[TypeOf(op)])

op_to_imm_op == [add |-> "addi", addu |-> "addiu", and |-> "andi", or |-> "ori", xor |-> "xori",
                 slt |-> "slti", sltu |-> "sltiu", sub |-> "addi", subu |-> "addiu",
                 sllv |-> "sll", srav |-> "sra", srlv |-> "srl"]

\* eval_imm_expr: a symbol has no value yet, which is told but no error.
Evaluated(p) == IF p.sym = NoText THEN p ELSE [p EXCEPT !.warned = @ \cup {p.line}, !.ret = 0, !.sym = NoText]
is_zero_imm(p) == p.ret = 0 /\ p.sym = NoText

\* ori $at, $0, imm before an instruction that takes $at; imm was read at q
ori_at(p, q) == ast_append(p, "i", <<"ori", "">>, <<1, 0, q.ret>>, q.sym)

R3Node(r, op) ==
    CASE op[1] \in {"clo", "clz"} -> emit(r, "r", op, <<r.args[1], r.args[2], r.args[1]>>)
      [] op[1] \notin {"clo", "clz"} /\ r.form = "reg" -> emit(r, "r", op, r.args)
      [] op[1] = "mul" /\ r.form = "imm" -> emit(ori_at(r, r), "r", op, <<r.args[1], r.args[2], 1>>)
      [] op[1] \in {"sub", "subu"} /\ r.form = "imm" ->
           emit(Evaluated(r), "i", <<op_to_imm_op[op[1]], "">>, <<r.args[1], r.args[2], -Evaluated(r).ret>>)
      [] OTHER -> emit(r, "i", <<op_to_imm_op[op[1]], "">>, r.args)
\* What follows the first register, which stands for a second that is left out
\* before an immediate.
R3Rest(q, op) ==
    LET immediate == op[1] \in DOMAIN op_to_imm_op
        short == immediate /\ Tok(q) # "REG"
    IN Operands(IF short THEN Push(q, q.args[1]) ELSE q,
                CASE op[1] \in {"clo", "clz"} -> <<"reg">>
                  [] short -> <<"imm">>
                  [] ~short /\ (immediate \/ op[1] = "mul") -> <<"reg", "regimm">>
                  [] OTHER -> <<"reg", "reg">>)
parse_r3(p, op) == R3Node(R3Rest(peek(parse_register(p)), op), op)

\* The second register may be left out: it is then the first.
I2Rest(q, op) ==
    LET last == IF op[1] \in {"andi", "ori", "xori"} THEN "uimm16" ELSE "imm16"
    IN Operand(IF Tok(q) = "REG" THEN parse_register(q) ELSE Push(q, q.args[1]), last)
I2Node(t, op) == emit(t, "i", op, t.args)
parse_i2(p, op) == I2Node(I2Rest(peek(parse_register(p)), op), op)

B2Node(q, r, op) ==
    CASE q.form = "reg" -> emit(r, "i", op, <<r.args[2], r.args[1], 0>>)
      [] q.form = "imm" /\ is_zero_imm(q) -> emit(r, "i", op, <<r.args[1], 0, 0>>)
      [] OTHER -> emit(ori_at(r, q), "i", op, <<r.args[1], 1, 0>>)
B2Rest(q, op) == B2Node(q, parse_label(q), op)
parse_b2(p, op) == B2Rest(Operands(p, <<"reg", "regimm">>), op)

\* j, jal, jr, jalr by the operand; cop2 and jalr.hb make no node at all.
JumpNode(q, op, indirect) ==
    CASE op \notin Plain({"j", "jal", "jr", "jalr"}) -> q
      [] op \in Plain({"j", "jr"}) ->
           IF indirect THEN emit(q, "r", <<"jr", "">>, <<0, Last(q.args), 0>>)
           ELSE emit(q, "j", <<"j", "">>, <<0>>)
      [] OTHER ->
           IF indirect THEN emit(q, "r", <<"jalr", "">>,
                                 <<IF Len(q.args) = 2 THEN q.args[1] ELSE 31, Last(q.args), 0>>)
           ELSE emit(q, "j", <<"jal", "">>, <<0>>)
SecondRegister(q) == IF Tok(q) = "REG" THEN parse_register(q) ELSE q
JumpAt(q, op) ==
    IF Tok(q) = "REG" THEN JumpNode(SecondRegister(peek(parse_register(q))), op, TRUE)
    ELSE JumpNode(parse_label(q), op, FALSE)
parse_j(p, op) == JumpAt(peek(p), op)

\* mult, div and the traps: div and divu may have three operands.
ThirdNode(s, op) ==
    IF s.form = "imm" /\ is_zero_imm(s) THEN parse_error_at(s) ELSE emit(s, "expansion", op, s.args)
TwoNode(r, op) == emit(r, "r", op, <<0, r.args[1], r.args[2]>>)
DivNode(r, op) == IF AtEnd(r) THEN TwoNode(r, op) ELSE ThirdNode(Operand(r, "regimm"), op)
RsRtNode(r, op) == IF op \in Plain({"div", "divu"}) THEN DivNode(peek(r), op) ELSE TwoNode(r, op)
RsRtRest(q, op) ==
    IF Tok(q) \in {"REG", "INT", "ID"} THEN RsRtNode(parse_register(q), op) ELSE parse_error_at(q)
parse_rs_rt(p, op) == RsRtRest(peek(parse_register(p)), op)

\* sllv, srav, srlv: a shift by a constant is another instruction.
ShiftNode(r, op, kind) ==
    CASE kind = "REG" -> emit(r, "r", op, <<r.args[1], r.args[3], r.args[2]>>)
      [] kind = "INT" -> emit(r, "shift", <<op_to_imm_op[op[1]], "">>, r.args)
      [] OTHER -> r
ShiftAmount(q, op) == ShiftNode(TokenOperand(q, IF Tok(q) = "REG" THEN "reg" ELSE "int"), op, Tok(q))
parse_rd_rt_rs(p, op) == ShiftAmount(peek(parse_register(parse_register(p))), op)

\* parse_pseudo: the node of a pseudo-instruction is made, with its line and
\* text, before any operand is read, and appended after the last, also when
\* its expansion was given up (a missing literal, a division by 0).
PseudoNode(p, q, op) ==
    LET constant(names) == op[1] \in names /\ q.form = "imm"
    IN [(CASE constant({"rem", "remu"}) /\ is_zero_imm(q) -> parse_error_at(q)
           [] constant({"ror", "rol"}) -> Ranged(Evaluated(q), 0, 31)
           [] OTHER -> q)
          EXCEPT !.nodes = Append(p.nodes, Node("expansion", op, q.args, q.sym, p.line, p.cur))]
parse_pseudo(p, op) == PseudoNode(p, Operands(p, PseudoShape(op)), op)

parse_statement(a, op) ==
    LET T == TypeOf(op)
    IN CASE op \in PseudoOps -> parse_pseudo(a, op)
         [] T \in DOMAIN Forms -> parse_form(a, op)
         [] T = "RD_RS_RT" -> parse_r3(a, op)
         [] T = "RT_RS_IMM" -> parse_i2(a, op)
         [] T = "BRANCH_RS_RT_LABEL" -> parse_b2(a, op)
         [] T \in {"J", "RD_RS"} -> parse_j(a, op)
         [] T = "RS_RT" -> parse_rs_rt(a, op)
         [] T = "RD_RT_RS" -> parse_rd_rt_rs(a, op)
         [] OTHER -> sync_to_nl(parse_error_at(a))
parse_asm_code(q) ==
    IF Tok(q) # "OP" THEN sync_to_nl(parse_error_at(advance(q)))
    ELSE parse_statement([advance(q) EXCEPT !.args = <<>>, !.sym = NoText, !.form = "reg"], q.buf[1][2])

-----------------------------------------------------------------------------
(***************************************************************************)
(* Directives and lines.  The lists of .word, .float and .ascii are loops  *)
(* of their own: "pc" names the loop the parser is in.                     *)
(***************************************************************************)
\* .text and .data, with an optional address, which starts the kernel's too
SegmentAt(q, dir) ==
    ast_append([(IF Tok(q) = "INT" THEN advance(q) ELSE q) EXCEPT !.text = dir \in Plain({".text", ".ktext"})],
               "dir", dir, IF Tok(q) = "INT" THEN <<q.buf[1][3]>> ELSE <<>>, NoText)
parse_dir_seg(p, dir) == SegmentAt(peek(p), dir)

\* .globl, and .extern and .comm with a size
SizedSymbol(s, dir, sym) == ast_append(s, "dir", dir, <<s.ret>>, sym)
SymbolAt(q, dir) ==
    CASE Tok(q) # "ID" -> parse_error_at(q)
      [] dir = <<".globl", "">> -> ast_append(advance(q), "dir", dir, <<>>, q.buf[1][2])
      [] OTHER -> SizedSymbol(parse_expression(advance(q)), dir, q.buf[1][2])
\* Mutant of parse_dir_symbol: a symbol that is missing is no error.
SymbolOptional(p, dir) ==
    LET q == peek(scanner_force_identifier(p))
    IN IF Tok(q) = "ID" THEN SymbolAt(q, dir) ELSE q
parse_dir_symbol(p, dir) == SymbolAt(peek(scanner_force_identifier(p)), dir)

NumberNode(q, dir) ==
    IF dir = <<".space", "">> /\ q.text THEN parse_error_at(q)
    ELSE ast_append(q, "dir", dir, <<q.ret>>, NoText)
parse_dir_number(p, dir) == NumberNode(parse_expression(p), dir)

BeginList(p, dir, pc) == [p EXCEPT !.list = [name |-> dir, vals |-> <<>>, line |-> p.line], !.pc = pc]

DirectiveAt(q, dir) ==
    CASE dir \in Segments -> parse_dir_seg(q, dir)
      [] dir \in Plain({".globl", ".extern", ".comm"}) -> parse_dir_symbol(q, dir)
      [] dir \in Plain({".align", ".space"}) -> parse_dir_number(q, dir)
      [] dir \in IntLists -> BeginList(q, dir, "ints")
      [] dir \in FpLists -> BeginList(q, dir, "fps")
      [] dir \in Strings -> BeginList(q, dir, "strs")
      [] dir \in Ignored -> sync_to_nl(q)
      [] dir = <<".err", "">> -> parse_error_at(q)
      [] OTHER -> sync_to_nl(parse_error_at(q))
parse_directive(q) == DirectiveAt(advance(q), q.buf[1][2])

\* The end of parse_line: what is left of a bad line is skipped.
FinishAt(q) ==
    CASE ~q.flag /\ Tok(q) = "NL" -> advance(q)
      [] ~q.flag /\ Tok(q) = "EOF" -> q
      [] OTHER -> sync_to_nl(IF q.flag THEN q ELSE parse_error_at(q))
FinishLine(p) == [FinishAt(peek(p)) EXCEPT !.pc = "line"]

\* ID ':' or ID '=' EXPR
ConstNode(e, name) == ast_append(e, "const", name, <<e.ret>>, NoText)
parse_opt_label(q) ==
    CASE Tok(q) = "ID" /\ Tok2(q) = ":" ->
           ast_append(advance(advance(q)), "label", q.buf[1][2], <<>>, NoText)
      [] Tok(q) = "ID" /\ Tok2(q) = "=" ->
           ConstNode(parse_expression(advance(advance(q))), q.buf[1][2])
      [] OTHER -> q

\* A directive with a list goes on in its loop.
DirectiveDone(s) == IF s.pc = "line" THEN FinishLine(s) ELSE s
StatementAt(q) ==
    CASE Tok(q) = "NL" -> advance(q)
      [] Tok(q) = "EOF" -> q
      [] Tok(q) = "OP" /\ q.buf[1][2] \in Directives -> DirectiveDone(parse_directive(q))
      [] OTHER -> FinishLine(parse_asm_code(q))
parse_line(p) == StatementAt(peek(parse_opt_label(IF Tok(p) = "ID" THEN peek2(p) ELSE p)))

\* Mutant of parse_file: the flag of an earlier line is kept.
FlagKept(p) ==
    LET q == peek(p)
    IN IF Tok(q) = "EOF" THEN [q EXCEPT !.pc = "parsed"] ELSE parse_line(scanner_start_line(q))
\* One turn of the loop of parse_file.  The text of the line is forgotten
\* after its first token was scanned.
FileAt(q) ==
    IF Tok(q) = "EOF" THEN [q EXCEPT !.pc = "parsed"]
    ELSE parse_line(scanner_start_line([q EXCEPT !.flag = FALSE]))
parse_file(p) == FileAt(peek(p))

\* data_int_finalize and data_fp_finalize: the line is that of the directive.
Finalize(p) ==
    [p EXCEPT !.nodes = Append(@, Node("data", p.list.name, p.list.vals, NoText, p.list.line, p.cur))]

\* One turn of parse_expr_list: it goes on after an error.
GoOn(q) == IF AtEnd(q) THEN FinishLine(Finalize(q)) ELSE q
ListValue(e) == [e EXCEPT !.list.vals = Kept(@, <<e.ret, e.unresolved>>), !.unresolved = NoText]
parse_expr_list(p) == GoOn(peek(ListValue(parse_expression(p))))

\* Mutant of parse_fp_expr_list: it goes on after an error.
FpListGoesOn(p) ==
    LET e == peek(p) IN GoOn(peek(IF Tok(e) = "FP" THEN advance(e) ELSE parse_error_at(e)))
FpValueAt(q) ==
    IF Tok(q) # "FP" THEN FinishLine(parse_error_at(q))
    ELSE GoOn(peek([advance(q) EXCEPT !.list.vals = Kept(@, <<q.buf[1][3], NoText>>)]))
parse_fp_expr_list(p) == FpValueAt(peek(p))

StringNode(q) ==
    IF q.text THEN parse_error_at(advance(q))
    ELSE ast_append(advance(q), "string", q.list.name, <<>>, q.buf[1][2])
StringsGoOn(q) == IF AtEnd(q) THEN FinishLine(q) ELSE q
StringAt(q) ==
    IF Tok(q) # "STR" THEN FinishLine(parse_error_at(q)) ELSE StringsGoOn(peek(StringNode(q)))
parse_string_list(p) == StringAt(peek(p))
=============================================================================
