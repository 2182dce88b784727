---------------------------- MODULE MCAssembler ----------------------------
(* Instances of Assembler for TLC. *)
EXTENDS Assembler, TLC

CONSTANTS a, b

S(op, n, v) == [op |-> op, name |-> n, n |-> v]

\* Segments far enough apart for the longest files; multiples of HALF, as the
\* real bases are.
MCBase == "text" :> 16 @@ "data" :> 48 @@ "ktext" :> 80 @@ "kdata" :> 112

UserDirectives == {S(seg, NoName, 0) : seg \in {"text", "data"}}

SeqsOf(set, len) == UNION {[1..k -> set] : k \in 0..len}

\* Statement k of f names a symbol that f has defined before it.
Backward(f, k) == \E j \in 1..(k - 1) : f[j].op \in Definitions /\ f[j].name = f[k].name

\* The files on which the assembler does what the source says: a segment
\* directive first, data in data segments; no .globl or .extern after the
\* definition; forward references from data only in whole words, aligned and
\* without addend, and none from an instruction in a data segment; no .comm
\* in a text segment.  README.md lists what happens in the other cases.
Clean(f) ==
  /\ f # <<>> /\ f[1].op \in Segments
  /\ \A k \in 1..Len(f) :
       /\ f[k].op \in DataOps => IsData(SegmentAt(f, k))
       /\ f[k].op \in {"globl", "extern"} => ~Backward(f, k)
       /\ f[k].op \in DataOps /\ f[k].name # NoName /\ ~Backward(f, k) =>
            /\ f[k].op = "word" /\ f[k].n = 0
            /\ \A j \in 1..k : f[j].op # "align0"
       /\ f[k].op \in TextOps /\ f[k].name # NoName /\ ~Backward(f, k) => ~IsData(SegmentAt(f, k))
       /\ f[k].op = "comm" => IsData(SegmentAt(f, k))

\* Files loaded one after the other.
ShortVocabulary ==
  {S("globl", a, 0), S("label", a, 0), S("const", a, 5), S("word", a, 0), S("la", a, 1),
   S("byte", NoName, 1), S("extern", a, 1), S("label", b, 0)}

SeveralFiles ==
  {f \in {<<d>> \o g : d \in UserDirectives, g \in SeqsOf(ShortVocabulary, 2)} : Clean(f)}

\* Every kind of statement, with one name.
Vocabulary(n) ==
  {S("label", n, 0), S("globl", n, 0), S("const", n, 5), S("comm", n, 1), S("extern", n, 1),
   S("word", n, 0), S("word", n, 1), S("byte", n, 0), S("la", n, 1), S("jump", n, 0),
   S("word", NoName, 3), S("byte", NoName, 1), S("la", NoName, 3), S("la", NoName, 19),
   S("space", NoName, 1), S("align", NoName, 0), S("align0", NoName, 0),
   S("text", NoName, 0), S("data", NoName, 0), S("ktext", NoName, 0), S("kdata", NoName, 0)}

\* Short files over the whole vocabulary, and longer ones in which
\* data before, between and after two labels is unaligned.
LongVocabulary ==
  {S("label", a, 0), S("word", a, 0), S("la", b, 1), S("label", b, 0),
   S("byte", NoName, 1), S("data", NoName, 0), S("text", NoName, 0)}

OneFile ==
  {f \in {<<d>> \o g : d \in UserDirectives, g \in SeqsOf(Vocabulary(a), 3)} \cup
         {<<S("data", NoName, 0)>> \o g : g \in [1..5 -> LongVocabulary]} : Clean(f)}

AllFiles == OneFile \cup SeveralFiles

\* The hypotheses of the theorems about symbols, segments and literals hold here.
ASSUME CleanAssumption ==
  ScopesClean /\ SegmentsClean /\ LiteralsClean /\ ReferencesClean
=============================================================================
