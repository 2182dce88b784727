------------------------------ MODULE Listing ------------------------------
(***************************************************************************)
(* A source file is parsed, its instructions are assembled, the words of   *)
(* the text segment are read and written back, and the text segment is     *)
(* listed and the listing is assembled again.                              *)
(***************************************************************************)
EXTENDS Parser

CONSTANTS Programs,   \* the files: pairs of a sequence of lines, each a sequence of lexemes,
                      \* and the expression its one value was written from, or NoExpression
          Resolved    \* the word number every label resolves to

ASSUME ListingAssumption == Resolved \in 0..8191

NoExpression == <<"none", 0>>

VARIABLES prog,    \* the lines of the file
          meant,   \* the expression it was written from
          p,       \* scanner and parser
          turns,   \* for every turn of parse_file: where it started
          image,   \* instructions in text
          copy,    \* what is there after every word was read and stored again
          again,   \* instructions assembled from the listing
          phase

vars == <<prog, meant, p, turns, image, copy, again, phase>>

Source(lines) == FlattenSeq([k \in 1..Len(lines) |-> Append(lines[k], Mark("nl"))])

\* The line of the file a position is in.
LineAt(src, at) == 1 + Cardinality({j \in 1..(at - 1) : KindAt(src, j) = "nl"})

Turn(q) == [line |-> LineAt(q.src, q.at - Len(q.buf)), nodes |-> Len(q.nodes),
            errors |-> Len(q.errors), text |-> q.text]

-----------------------------------------------------------------------------
\* r_type_inst, i_type_inst, ... for the nodes that are one instruction: not
\* for an immediate that does not fit and not for the address of a label,
\* whose expansions are those of module Pseudo.
SignedImm(op) == op[1] \in {"addi", "addiu", "slti", "sltiu", "teqi", "tgei", "tgeiu", "tlti", "tltiu", "tnei"}
                 \/ TypeOf(op) \in {"RT_ADDR", "FP_FT_ADDR"}
IsBranch(op) == TypeOf(op) \in {"BRANCH_RS_LABEL", "BRANCH_RS_RT_LABEL", "BRANCH_COPROC_COND"}
OneInstruction(n) ==
    CASE n.kind = "i" -> \/ IsBranch(n.name)
                         \/ n.sym = NoText /\ n.a[3] \in IF SignedImm(n.name) THEN -32768..32767 ELSE 0..65535
      [] OTHER -> n.kind \in {"r", "shift", "j", "fp", "cmp"}

NodeInst(n) ==
    CASE n.kind = "r" -> MakeR(n.name, n.a[1], n.a[2], n.a[3])
      [] n.kind = "shift" -> MakeShift(n.name, n.a[1], n.a[2], n.a[3])
      [] n.kind = "i" -> MakeI(n.name, n.a[1], n.a[2], IF IsBranch(n.name) THEN Resolved ELSE n.a[3])
      [] n.kind = "j" -> MakeJ(n.name, Resolved)
      [] n.kind = "fp" -> MakeFpR(n.name, n.a[1], n.a[2], n.a[3])
      [] OTHER -> r_cond_type_inst(n.name, n.a[1], n.a[2], n.a[3])
Assembled(nodes) ==
    LET real == SelectSeq(nodes, OneInstruction) IN [k \in 1..Len(real) |-> NodeInst(real[k])]

\* A whole file at once.
RECURSIVE Parsed(_)
Parsed(q) == CASE q.pc = "parsed" -> q
               [] q.pc = "line" -> Parsed(parse_file(q))
               [] q.pc = "ints" -> Parsed(parse_expr_list(q))
               [] q.pc = "fps" -> Parsed(parse_fp_expr_list(q))
               [] OTHER -> Parsed(parse_string_list(q))

-----------------------------------------------------------------------------
Init == /\ \E f \in Programs : prog = f[1] /\ meant = f[2]
        /\ p = parser_init(Source(prog), TRUE)
        /\ turns = <<>>
        /\ image = <<>> /\ copy = <<>> /\ again = <<>>
        /\ phase = "parse"

Others == UNCHANGED <<prog, meant, image, copy, again, phase>>

ParseLine == /\ p.pc = "line"
             /\ p' = parse_file(p)
             /\ turns' = IF p'.pc = "parsed" THEN turns ELSE Append(turns, Turn(peek(p)))
             /\ Others

Value == p.pc = "ints" /\ p' = parse_expr_list(p) /\ UNCHANGED turns /\ Others
FpValue == p.pc = "fps" /\ p' = parse_fp_expr_list(p) /\ UNCHANGED turns /\ Others
String == p.pc = "strs" /\ p' = parse_string_list(p) /\ UNCHANGED turns /\ Others

\* emit_ast, for the instructions of the file
Emit == /\ p.pc = "parsed" /\ phase = "parse"
        /\ image' = Assembled(p.nodes)
        /\ phase' = "copy"
        /\ UNCHANGED <<prog, meant, p, turns, copy, again>>

\* A program reads a word of its text, which inst_encode makes, and stores
\* it, which inst_decode reads.  A type without an encoding ends SPIM.
Copy == /\ phase = "copy" /\ Len(copy) < Len(image)
        /\ LET i == image[Len(copy) + 1]
           IN \E j \in IF Encodable(i) THEN Decode(Encode(i)) ELSE {i} : copy' = Append(copy, j)
        /\ UNCHANGED <<prog, meant, p, turns, image, again, phase>>

\* The listing of the image, assembled again
Relist == /\ phase = "copy" /\ Len(copy) = Len(image)
          /\ again' = [k \in 1..Len(image) |->
                         Assembled(Parsed(parser_init(Append(Listing(image[k]), Mark("nl")), TRUE)).nodes)]
          /\ phase' = "listed"
          /\ UNCHANGED <<prog, meant, p, turns, image, copy>>

Next == ParseLine \/ Value \/ FpValue \/ String \/ Emit \/ Copy \/ Relist

Spec == Init /\ [][Next]_vars

-----------------------------------------------------------------------------
(***************************************************************************)
(* Properties of the parser.                                               *)
(***************************************************************************)
Lines == 1..Len(prog)
JustParsed == phase = "parse" /\ p.pc = "parsed"

\* Where line k starts in the nodes and in the errors, and the segment it
\* starts in.
FromLine(k) == {j \in 1..Len(turns) : turns[j].line >= k}
NodesBefore(k) == IF FromLine(k) = {} THEN Len(p.nodes) ELSE turns[Min(FromLine(k))].nodes
ErrorsBefore(k) == IF FromLine(k) = {} THEN Len(p.errors) ELSE turns[Min(FromLine(k))].errors
TextAt(k) == IF FromLine(k) = {} THEN p.text ELSE turns[Min(FromLine(k))].text
NodesOf(k) == SubSeq(p.nodes, NodesBefore(k) + 1, NodesBefore(k + 1))
ErrorsOf(k) == ErrorsBefore(k + 1) - ErrorsBefore(k)

\* The line as the only one of its file, and its nodes at line k.
Alone(k) == Parsed(parser_init(Append(prog[k], Mark("nl")), TextAt(k)))
AtLine(nodes, k) == [j \in 1..Len(nodes) |->
                       [nodes[j] EXCEPT !.line = @ + k - 1, !.src = IF @ = 0 THEN 0 ELSE @ + k - 1]]

\* TypeOK: the buffer of the scanner never holds more than two tokens when a
\* turn is over (scanner_peek and scanner_peek2 keep what they read), and every
\* instruction assembled is one the opcode table has.
TypeOK ==
    /\ p.pc \in {"line", "ints", "fps", "strs", "parsed"}
    /\ phase \in {"parse", "copy", "listed"}
    /\ Len(p.buf) <= 2
    /\ p.at \in 1..(Len(p.src) + 1)
    /\ \A k \in 1..Len(image) : image[k].op \in Ops

\* LinesIndependent: a line means what it means alone: the same nodes and as
\* many errors, unless the line before it is itself in error.  (An error may
\* leave the scanner's force flag set, and the first word of the next line is
\* then no keyword.)  So what an error damages is at most one line more, and
\* a line that is fine in itself but was damaged passes nothing on.
LinesIndependent ==
    LET independent(alone) ==
            \A k \in Lines :
                (k = 1 \/ alone[k - 1].errors = <<>>) =>
                    /\ NodesOf(k) = AtLine(alone[k].nodes, k)
                    /\ ErrorsOf(k) = Len(alone[k].errors)
    IN JustParsed => independent([k \in Lines |-> Alone(k)])

\* Lines that rightly leave no trace: empty ones and ignored directives.
Words(line) == SelectSeq(line, LAMBDA x : x[1] \notin {" ", ",", "#", ";"})
Silent(line) == LET w == Words(line) IN w = <<>> \/ w[1] \in {Name(d) : d \in Ignored}

\* parse_j reads the operand of these and makes nothing of it.
Forgotten(line) == \E w \in ToSet(line) : w \in {Name(<<"cop2", "">>), Name(<<"jalr", "hb">>)}

\* NothingDropped: a line that is not empty and no ignored directive gives a
\* node or an error, in whatever file it stands.
NothingDropped ==
    JustParsed => \A k \in Lines :
        NodesOf(k) = <<>> /\ ErrorsOf(k) = 0 => Silent(prog[k]) \/ Forgotten(prog[k])

\* SourceTold: an error is told of its own line, or of the next one when the
\* parser has looked past the end; so is a node.  A node carries the text of its own line or none, and none only
\* if the line has one word or the node is a pseudo-instruction's.
SourceTold ==
    JustParsed => \A k \in Lines :
        /\ \A j \in (ErrorsBefore(k) + 1)..ErrorsBefore(k + 1) : p.errors[j] \in {k, k + 1}
        /\ \A j \in DOMAIN NodesOf(k) :
             LET n == NodesOf(k)[j]
             IN /\ n.line \in {k, k + 1}
                /\ n.src \in {0, k}
                /\ n.src = 0 => Len(Words(prog[k])) = 1 \/ n.kind = "expansion"

\* The quotient whose remainder has the sign of the dividend; 0 for a division by 0.
Magnitude(n) == IF n < 0 THEN -n ELSE n
Divided(a, b) ==
    IF b = 0 THEN 0
    ELSE CHOOSE q \in -Magnitude(a)..Magnitude(a) :
           LET rest == a - q * b IN Magnitude(rest) < Magnitude(b) /\ (rest = 0 \/ (rest < 0) = (a < 0))

\* The value of an expression as a constant and the coefficient of its label;
\* a label known from an earlier file is a number.
RECURSIVE Meaning(_)
Meaning(e) ==
    LET l == Meaning(e[2])
        r == Meaning(e[3])
    IN CASE e[1] \in {"num", "known"} -> [c |-> e[2], x |-> 0]
         [] e[1] = "label" -> [c |-> 0, x |-> 1]
         [] e[1] = "+" -> [c |-> l.c + r.c, x |-> l.x + r.x]
         [] e[1] = "-" -> [c |-> l.c - r.c, x |-> l.x - r.x]
         [] e[1] = "*" -> [c |-> l.c * r.c, x |-> l.x * r.c + r.x * l.c]
         [] OTHER -> [c |-> Divided(l.c, r.c), x |-> l.x]

\* A data word can hold a constant plus one label, and nothing else: for any
\* other use of a label the parser stores the wrong sum without a word.
RECURSIVE LabelUses(_)
LabelUses(e) == CASE e[1] \in {"num", "known"} -> 0 [] e[1] = "label" -> 1 [] OTHER -> LabelUses(e[2]) + LabelUses(e[3])
RECURSIVE LabelsAdded(_)
LabelsAdded(e) ==
    \/ LabelUses(e) = 0
    \/ e[1] = "label"
    \/ e[1] \in {"+", "-"} /\ LabelsAdded(e[2]) /\ LabelsAdded(e[3])
                           /\ (e[1] = "-" => LabelUses(e[3]) = 0)

\* ExpressionsRight: the value of .word is that of its expression, with the
\* usual precedence, operators grouping to the left and division truncating,
\* and with at most one label that is still unknown, added, in it
\* (parse_expr_list, parse_factor).
ExpressionsRight ==
    JustParsed /\ meant # NoExpression =>
        LET e == meant
            n == Last(p.nodes)
        IN LabelUses(e) <= 1 /\ LabelsAdded(e) =>
             /\ p.errors = <<>> /\ n.kind = "data" /\ Len(n.a) = 1
             /\ n.a[1][1] = Meaning(e).c
             /\ (n.a[1][2] # NoText) = (Meaning(e).x = 1)

\* TurnsConsume: every turn of the parser's loops gets on with the file: it
\* reads ahead or takes a token, so that the parser comes to the end.
TurnsConsume == [][p'.at > p.at \/ Len(p'.buf) < Len(p.buf) \/ p'.pc = "parsed"]_p

-----------------------------------------------------------------------------
(***************************************************************************)
(* Properties of the encoding.                                             *)
(***************************************************************************)
Field(i, f) == CASE f = "rs" -> i.rs [] f = "rt" -> i.rt [] f = "rd" -> i.rd [] f = "sh" -> i.sh
                 [] f = "imm" -> i.imm [] OTHER -> i.tgt

\* An operand placed over bits that are part of the pattern: synci, di, ei,
\* prefx and movt lose one of the two.
Overlaid(i) == LET w == Pattern(i.op)
                   place == [rs |-> {2}, rt |-> {3}, rd |-> {4}, sh |-> {5}, imm |-> {4, 5, 6}]
               IN \E f \in EncodedFields[TypeOf(i.op)] \cap DOMAIN place : \E k \in place[f] : w[k] # 0

\* Rows whose word is another's or is not looked up by all the bits that make
\* it, and types with fields that inst_decode puts elsewhere or knows nothing of.
Lost == Plain({"bc1fl", "bc1tl", "bc2fl", "bc2t", "bc2tl", "di", "ei", "ehb", "ins", "ldxc1", "luxc1",
               "lwxc1", "movt", "prefx", "rdhwr", "rotr", "rotrv", "sdxc1", "suxc1", "swxc1", "seb",
               "seh", "ssnop", "wsbh"})
        \cup {<<"cvt.d", "l">>, <<"cvt.s", "l">>, <<"floor.w", "s">>, <<"round.l", "s">>,
              <<"trunc.l", "s">>, <<"trunc.w", "s">>, <<"jr", "hb">>, <<"jalr", "hb">>}
Recognised(i) == i.op \notin Lost /\ ~Overlaid(i)
                 /\ TypeOf(i.op) \notin {"FP_CMP_FS_FT", "FP_MOVC", "FP_FD_FR_FS_FT"}

\* RoundTrip: a word of text that a program reads and stores again is the
\* same instruction: the operation, and every operand its type has.
RoundTrip ==
    \A k \in 1..Len(copy) : Recognised(image[k]) =>
        /\ copy[k].op = image[k].op
        /\ \A f \in EncodedFields[TypeOf(image[k].op)] \ {"cc"} : Field(copy[k], f) = Field(image[k], f)
        /\ TypeOf(image[k].op) = "BRANCH_COPROC_COND" => CC(copy[k]) = CC(image[k])

\* What the listing does not show in the words of the language: register 0,
\* targets, a condition code read as a register, the code of break, and the
\* sign of a large unsigned immediate.
MentionsZero(i) == Name(<<"r0", "">>) \in ToSet(Listing(i))
Unlisted(i) ==
    \/ MentionsZero(i) \/ ListedAsNop(i) \/ i.op \in Plain({"clo", "clz"})
    \/ TypeOf(i.op) \in {"FP_MOVC", "J"} \/ IsBranch(i.op)
    \/ TypeOf(i.op) = "NOARG" /\ i.rd # 0
    \/ TypeOf(i.op) \in {"RT_IMM", "RT_RS_IMM"} /\ ~SignedImm(i.op) /\ i.imm >= 32768

\* PrintsBack: the listing of an instruction, assembled, is the instruction.
PrintsBack ==
    phase = "listed" => \A k \in 1..Len(image) : ~Unlisted(image[k]) => again[k] = <<image[k]>>

\* Rows the walkthrough names by the bits of another row.
Renamed == {<<"jr", "hb">>, <<"jalr", "hb">>, <<"ehb", "">>, <<"ssnop", "">>, <<"rotr", "">>, <<"rotrv", "">>}

\* ToldRight: the decoding walkthrough, which reads the word, tells the name
\* and the operands of the instruction.
ToldRight ==
    \A k \in 1..Len(copy) : LET i == image[k] IN
        Encodable(i) /\ Encode(i) # <<0, 0, 0, 0, 0, 0>> /\ i.op \notin Renamed /\ ~Overlaid(i) =>
            \A told \in {explain_decoding_steps(i)} :
               /\ told.name = i.op
               /\ \A f \in EncodedFields[TypeOf(i.op)] \ {"cc", "cond"} : \A t \in told.fields :
                    t[1] = f => t[2] = Field(i, f)

\* LinesRight: every line of a file gives its nodes or its errors, whatever the lines
\* around it, and they tell where it stands (parse_file, parse_line).
LinesRight == TypeOK /\ LinesIndependent /\ NothingDropped /\ SourceTold

\* ListedRight: the listing and the walkthrough both say which instruction it is
\* (format_an_inst, the decoding of explain.c).
ListedRight == PrintsBack /\ ToldRight
=============================================================================
