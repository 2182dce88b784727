--------------------------- MODULE Session_proofs ---------------------------
(***************************************************************************)
(* Proofs about the debugger and the command loop, for every text, boot    *)
(* code, set of files, of lines and of arguments, and every bound.         *)
(***************************************************************************)
EXTENDS Session, SequenceTheorems, TLAPS

DbgType == [text : [Text -> Kinds \cup {NoInst, BREAK}], data : {0, 1},
            bkpts : SUBSET [addr : Text, inst : Kinds]]

\* The records and the text below n, where the program ends, agree: break_inst
\* stands exactly where there is a record, one per address.
Sound(d, n) ==
  /\ d \in DbgType
  /\ \A a \in Text :
       IF a < n THEN /\ d.text[a] # NoInst
                     /\ (d.text[a] = BREAK) <=> (a \in Recorded(d))
       ELSE d.text[a] \in {NoInst, BREAK}
  /\ \A b, c \in d.bkpts : b.addr = c.addr => b = c
  /\ \A b \in d.bkpts : b.addr < n

-----------------------------------------------------------------------------
(* What the operations on the records do to a sound text.                  *)

LEMMA AddrsAdded ==
  ASSUME NEW S, NEW x
  PROVE  {b.addr : b \in S \cup {x}} = {b.addr : b \in S} \cup {x.addr}
  OBVIOUS

LEMMA AddrsKept ==
  ASSUME NEW S, NEW a
  PROVE  {b.addr : b \in {c \in S : c.addr # a}} = {b.addr : b \in S} \ {a}
  OBVIOUS

\* The program under the breakpoints does not depend on how they are recorded.
LEMMA PlainSame ==
  ASSUME NEW d, NEW e,
         \A x \in Text : Plain(e)[x] = Plain(d)[x]
  PROVE  Plain(e) = Plain(d)
  BY DEF Plain

LEMMA PlainAt ==
  ASSUME NEW d, NEW x \in Text
  PROVE  Plain(d)[x] = IF x \in Recorded(d) THEN Saved(d, x).inst
                       ELSE IF d.text[x] = BREAK THEN NoInst ELSE d.text[x]
  BY DEF Plain

LEMMA SavedIs ==
  ASSUME NEW d, NEW b \in d.bkpts, \A c \in d.bkpts : c.addr = b.addr => c = b
  PROVE  Saved(d, b.addr) = b
  BY DEF Saved

LEMMA SavedIn ==
  ASSUME NEW d, NEW a \in Recorded(d)
  PROVE  Saved(d, a) \in d.bkpts /\ Saved(d, a).addr = a
  BY DEF Saved, Recorded

\* Two sets of records that agree at an address save the same there.
LEMMA SavedSame ==
  ASSUME NEW d, NEW e, NEW x \in Recorded(d),
         \A b, c \in d.bkpts : b.addr = c.addr => b = c,
         \A b : b.addr = x => (b \in d.bkpts <=> b \in e.bkpts)
  PROVE  Saved(e, x) = Saved(d, x)
<1>1. Saved(d, x) \in d.bkpts /\ Saved(d, x).addr = x
  BY SavedIn
<1>2. Saved(d, x) \in e.bkpts /\ \A c \in e.bkpts : c.addr = x => c = Saved(d, x)
  BY <1>1
<1> QED
  BY <1>1, <1>2, SavedIs

\* add_breakpoint keeps the text sound and the program under it, and records
\* the address if it holds an instruction.
LEMMA AddSound ==
  ASSUME NEW d, NEW n \in Nat, Sound(d, n), NEW a
  PROVE  /\ Sound(add_breakpoint(d, a), n)
         /\ Plain(add_breakpoint(d, a)) = Plain(d)
         /\ Recorded(add_breakpoint(d, a)) =
              Recorded(d) \cup (IF a \in Text /\ a < n THEN {a} ELSE {})
<1> DEFINE e == add_breakpoint(d, a)
           new == [addr |-> a, inst |-> d.text[a]]
           t == [d.text EXCEPT ![a] = BREAK]
<1>0. d \in DbgType /\ NoInst \notin Kinds /\ BREAK \notin Kinds /\ NoInst # BREAK
  BY DebuggerAssumption DEF Sound
<1>1. CASE a \notin Text
  <2>1. e.text = d.text /\ e.bkpts = d.bkpts /\ e \in DbgType
    BY <1>0, <1>1 DEF add_breakpoint, DbgType
  <2>2. Recorded(e) = Recorded(d)
    BY <2>1 DEF Recorded
  <2>3. ASSUME NEW x \in Text PROVE Plain(e)[x] = Plain(d)[x]
    <3>1. Saved(e, x) = Saved(d, x)
      BY <2>1 DEF Saved
    <3> QED
      BY <2>1, <2>2, <3>1, PlainAt
  <2> QED
    BY <1>1, <2>1, <2>2, <2>3, PlainSame DEF Sound
<1>2. CASE a \in Text /\ d.text[a] = BREAK
  BY <1>2, <1>0 DEF add_breakpoint, Sound
<1>3. CASE a \in Text /\ d.text[a] = NoInst
  <2>1. ~(a < n) /\ a \notin Recorded(d)
    BY <1>3, <1>0 DEF Recorded, Sound
  <2>2. e = [d EXCEPT !.text = t, !.bkpts = d.bkpts]
    BY <1>3, <1>0 DEF add_breakpoint, DbgType
  <2>3. t \in [Text -> Kinds \cup {NoInst, BREAK}]
        /\ d.bkpts \in SUBSET [addr : Text, inst : Kinds]
    BY <1>0 DEF DbgType
  <2>4. e \in DbgType /\ e.bkpts = d.bkpts /\ e.text = t
    <3> HIDE DEF t, e
    <3> QED
      BY <2>2, <2>3, <1>0 DEF DbgType
  <2>5. Recorded(e) = Recorded(d)
    BY <2>4 DEF Recorded
  <2>6. Sound(e, n)
    BY <2>1, <2>4, <2>5, <1>3, <1>0 DEF Sound, DbgType
  <2>7. ASSUME NEW x \in Text PROVE Plain(e)[x] = Plain(d)[x]
    <3>1. Saved(e, x) = Saved(d, x)
      BY <2>4 DEF Saved
    <3>2. e.text[x] = IF x = a THEN BREAK ELSE d.text[x]
      BY <2>4, <1>0, <1>3 DEF DbgType
    <3> QED
      BY <2>1, <2>5, <3>1, <3>2, <1>3, <1>0, PlainAt
  <2> QED
    BY <2>1, <2>5, <2>6, <2>7, PlainSame
<1>4. CASE a \in Text /\ d.text[a] \in Kinds
  <2>1. a < n /\ a \notin Recorded(d)
    BY <1>4, <1>0 DEF Sound
  <2>2. e = [d EXCEPT !.text = t, !.bkpts = d.bkpts \cup {new}]
    BY <1>4, <1>0 DEF add_breakpoint, DbgType
  <2>3. t \in [Text -> Kinds \cup {NoInst, BREAK}]
    BY <1>0 DEF DbgType
  <2>4. d.bkpts \cup {new} \in SUBSET [addr : Text, inst : Kinds]
    BY <1>0, <1>4 DEF DbgType
  <2>5. e \in DbgType /\ e.bkpts = d.bkpts \cup {new} /\ e.text = t
    <3> HIDE DEF t, e, new
    <3> QED
      BY <2>2, <2>3, <2>4, <1>0 DEF DbgType
  <2>6. Recorded(e) = Recorded(d) \cup {a}
    <3>1. new.addr = a
      OBVIOUS
    <3> HIDE DEF new
    <3> QED
      BY <2>5, <3>1, AddrsAdded DEF Recorded
  <2>7. \A b, c \in e.bkpts : b.addr = c.addr => b = c
    BY <2>1, <2>5 DEF Recorded, Sound
  <2>8. Sound(e, n)
    <3>1. \A b \in e.bkpts : b.addr < n
      BY <2>1, <2>5 DEF Sound
    <3>2. \A x \in Text :
            IF x < n THEN /\ e.text[x] # NoInst
                          /\ (e.text[x] = BREAK) <=> (x \in Recorded(e))
            ELSE e.text[x] \in {NoInst, BREAK}
      BY <2>1, <2>5, <2>6, <1>0 DEF Sound, DbgType
    <3> QED
      BY <2>5, <2>7, <3>1, <3>2 DEF Sound
  <2>9. ASSUME NEW x \in Text PROVE Plain(e)[x] = Plain(d)[x]
    <3>1. CASE x = a
      <4>1. Saved(e, a) = new
        <5>1. new \in e.bkpts /\ new.addr = a
          BY <2>5
        <5>2. \A c \in e.bkpts : c.addr = new.addr => c = new
          BY <5>1, <2>7
        <5> HIDE DEF e, new
        <5> QED
          BY <5>1, <5>2, SavedIs
      <4> QED
        BY <3>1, <4>1, <2>1, <2>6, <1>4, <1>0, PlainAt
    <3>2. CASE x # a /\ x \in Recorded(d)
      <4>1. Saved(e, x) = Saved(d, x)
        <5>1. \A b : b.addr = x => (b \in d.bkpts <=> b \in e.bkpts)
          BY <3>2, <2>5
        <5>2. \A b, c \in d.bkpts : b.addr = c.addr => b = c
          BY DEF Sound
        <5> QED
          BY <5>1, <5>2, <3>2, SavedSame
      <4> QED
        BY <3>2, <4>1, <2>6, PlainAt
    <3>3. CASE x # a /\ x \notin Recorded(d)
      BY <3>3, <2>5, <2>6, <1>0, PlainAt DEF DbgType
    <3> QED
      BY <3>1, <3>2, <3>3
  <2> QED
    BY <2>1, <2>6, <2>8, <2>9, PlainSame, <1>4
<1> QED
  BY <1>0, <1>1, <1>2, <1>3, <1>4 DEF DbgType

\* delete_breakpoint gives the instruction back.
LEMMA DeleteSound ==
  ASSUME NEW d, NEW n \in Nat, Sound(d, n), NEW a
  PROVE  /\ Sound(delete_breakpoint(d, a), n)
         /\ Plain(delete_breakpoint(d, a)) = Plain(d)
         /\ Recorded(delete_breakpoint(d, a)) = Recorded(d) \ {a}
<1> DEFINE e == delete_breakpoint(d, a)
           old == Saved(d, a)
           kept == {b \in d.bkpts : b.addr # a}
           t == [d.text EXCEPT ![a] = old.inst]
<1>0. d \in DbgType /\ NoInst \notin Kinds /\ BREAK \notin Kinds /\ NoInst # BREAK
  BY DebuggerAssumption DEF Sound
<1>1. CASE a \notin Recorded(d)
  BY <1>1 DEF delete_breakpoint
<1>2. CASE a \in Recorded(d)
  <2>1. old \in d.bkpts /\ old.addr = a
    BY <1>2, SavedIn
  <2>2. a \in Text /\ old.inst \in Kinds /\ a < n /\ d.text[a] = BREAK
    BY <2>1, <1>2, <1>0 DEF Sound, DbgType
  <2>3. e = [d EXCEPT !.text = t, !.bkpts = kept]
    BY <1>2 DEF delete_breakpoint
  <2>4. /\ t \in [Text -> Kinds \cup {NoInst, BREAK}]
        /\ kept \in SUBSET [addr : Text, inst : Kinds]
    BY <2>2, <1>0 DEF DbgType
  <2>5. e.text = t /\ e.bkpts = kept /\ e \in DbgType
    <3> HIDE DEF t, e, kept
    <3> QED
      BY <2>3, <2>4, <1>0 DEF DbgType
  <2>6. Recorded(e) = Recorded(d) \ {a}
    BY <2>5, AddrsKept DEF Recorded
  <2>7. Sound(e, n)
    <3>1. \A x \in Text :
            IF x < n THEN /\ e.text[x] # NoInst
                          /\ (e.text[x] = BREAK) <=> (x \in Recorded(e))
            ELSE e.text[x] \in {NoInst, BREAK}
      BY <2>2, <2>5, <2>6, <1>0 DEF Sound, DbgType
    <3> QED
      BY <2>5, <3>1 DEF Sound
  <2>8. ASSUME NEW x \in Text PROVE Plain(e)[x] = Plain(d)[x]
    <3>1. CASE x = a
      BY <3>1, <1>2, <2>2, <2>5, <2>6, <1>0, PlainAt DEF DbgType
    <3>2. CASE x # a /\ x \in Recorded(d)
      <4>1. Saved(e, x) = Saved(d, x)
        <5>1. \A b : b.addr = x => (b \in d.bkpts <=> b \in e.bkpts)
          BY <3>2, <2>5
        <5>2. \A b, c \in d.bkpts : b.addr = c.addr => b = c
          BY DEF Sound
        <5> QED
          BY <5>1, <5>2, <3>2, SavedSame
      <4> QED
        BY <3>2, <4>1, <2>6, PlainAt
    <3>3. CASE x # a /\ x \notin Recorded(d)
      BY <3>3, <2>5, <2>6, <1>0, PlainAt DEF DbgType
    <3> QED
      BY <3>1, <3>2, <3>3
  <2> QED
    BY <2>6, <2>7, <2>8, PlainSame
<1> QED
  BY <1>1, <1>2

\* format_an_inst leaves the text as it was, if it returns.
LEMMA FormatSame ==
  ASSUME NEW d, NEW n \in Nat, Sound(d, n), NEW a, ~PrintHangs(d, a)
  PROVE  format_an_inst(d, a) = d
<1> DEFINE e == delete_breakpoint(d, a)
           old == Saved(d, a)
           kept == {b \in d.bkpts : b.addr # a}
           t == [d.text EXCEPT ![a] = old.inst]
<1>0. d \in DbgType /\ NoInst \notin Kinds /\ BREAK \notin Kinds /\ NoInst # BREAK
  BY DebuggerAssumption DEF Sound
<1>1. CASE ~(a \in Text /\ d.text[a] = BREAK)
  BY <1>1 DEF format_an_inst
<1>2. CASE a \in Text /\ d.text[a] = BREAK
  <2>1. a \in Recorded(d)
    BY <1>2 DEF PrintHangs
  <2>2. old \in d.bkpts /\ old.addr = a
    BY <2>1, SavedIn
  <2>3. old = [addr |-> a, inst |-> old.inst] /\ old.inst \in Kinds
    BY <2>2, <1>0 DEF DbgType
  <2>4. e = [d EXCEPT !.text = t, !.bkpts = kept]
    BY <2>1 DEF delete_breakpoint
  <2>5. /\ t \in [Text -> Kinds \cup {NoInst, BREAK}]
        /\ kept \in SUBSET [addr : Text, inst : Kinds]
    BY <2>3, <1>0 DEF DbgType
  <2>6. e.text = t /\ e.bkpts = kept /\ e \in DbgType /\ e.data = d.data
    <3> HIDE DEF t, e, kept
    <3>1. e.data = d.data
      BY <2>4, <1>0 DEF DbgType
    <3> QED
      BY <2>4, <2>5, <3>1, <1>0 DEF DbgType
  <2>7. e.text[a] = old.inst
    BY <2>6, <1>0, <1>2 DEF DbgType
  <2>8. add_breakpoint(e, a) =
          [e EXCEPT !.text = [e.text EXCEPT ![a] = BREAK], !.bkpts = e.bkpts \cup {old}]
    BY <2>3, <2>7, <1>0, <1>2 DEF add_breakpoint
  <2>9. [e.text EXCEPT ![a] = BREAK] = d.text
    BY <2>6, <1>0, <1>2 DEF DbgType
  <2>10. e.bkpts \cup {old} = d.bkpts
    <3>1. \A b \in d.bkpts : b.addr = a => b = old
      BY <2>2 DEF Sound
    <3> QED
      BY <2>2, <2>6, <3>1
  <2>11. [e EXCEPT !.text = d.text, !.bkpts = d.bkpts] = d
    BY <2>6, <1>0 DEF DbgType
  <2> QED
    BY <2>8, <2>9, <2>10, <2>11, <1>2 DEF format_an_inst
<1> QED
  BY <1>1, <1>2

-----------------------------------------------------------------------------
(* Types.                                                                  *)

RunType == [phase : {"idle", "over", "main"}, left : 0..RunSteps, from : 0..(Size + 1),
            display : BOOLEAN, count : Nat, goal : Nat]

Args == {"mapped_io", "ast_only", "write_only"} \cup DOMAIN File

OptType == [mapped_io : BOOLEAN, ast_only : BOOLEAN, write_only : BOOLEAN]

Symbols == UNION {File[f].refs \cup File[f].defs : f \in DOMAIN File}

LoadsType == [loaded : BOOLEAN, attempted : BOOLEAN, errs : Nat,
              refs : SUBSET Symbols, defs : SUBSET Symbols, next : Nat,
              tree : Seq(Kinds), boot : BOOLEAN, bad : BOOLEAN]

Sources == {"stdin", "line", "file"}

LineType == [cmd : Commands \cup {"eof"}, opnd : Operands, val : Nat \cup DOMAIN File]

Phases == {"args", "batch", "prompt", "running", "args_stdin", "asm_stdin", "ended"}

ReplType == [phase : Phases, cur : Sources, stack : Seq(Sources), pushed : BOOLEAN,
             line : LineType, redo : BOOLEAN, prev_cmd : Commands, prev_token : Operands,
             addr : Nat, loc : Nat, start : Starts \cup {0}, steps : 0..RunSteps,
             slips : Nat]

\* The program runs for one of the commands that run it; between commands there
\* is no line.
RunLine(r) ==
  /\ r.phase = "running" => r.line.cmd \in {"run", "continue", "step"}
  /\ r.phase \notin {"running", "ended"} => ~r.pushed

FrontType ==
  /\ argv \in Seq(Args) /\ opt \in OptType /\ loads \in LoadsType
  /\ repl \in ReplType /\ Len(repl.stack) <= Depth /\ RunLine(repl)
  /\ console \in BOOLEAN /\ status \in {-1, 0, 1, 2, 128, 139, 255}

LEMMA FrontLast ==
  ASSUME NEW S, NEW s \in Seq(S), s # <<>>
  PROVE  /\ Front(s) \in Seq(S) /\ Len(Front(s)) = Len(s) - 1 /\ Last(s) \in S
         /\ \A i \in 1..(Len(s) - 1) : Front(s)[i] = s[i]
         /\ Len(s) \in Nat \ {0}
<1>1. Len(s) \in Nat \ {0}
  BY EmptySeq
<1>2. \A i \in 1..(Len(s) - 1) : s[i] \in S
  BY <1>1, ElementOfSeq
<1>3. 1 \in Int /\ Len(s) - 1 \in Int /\ Len(s) \in 1..Len(s)
  BY <1>1
<1>4. /\ SubSeq(s, 1, Len(s) - 1) \in Seq(S)
      /\ Len(SubSeq(s, 1, Len(s) - 1)) = IF 1 <= Len(s) - 1 THEN Len(s) - 1 - 1 + 1 ELSE 0
      /\ \A i \in 1..(Len(s) - 1 - 1 + 1) : SubSeq(s, 1, Len(s) - 1)[i] = s[1 + i - 1]
  BY <1>2, <1>3, SubSeqProperties
<1>5. Len(SubSeq(s, 1, Len(s) - 1)) = Len(s) - 1
  <2> DEFINE n == Len(s)  t == Len(SubSeq(s, 1, Len(s) - 1))
  <2>1. n \in Nat \ {0} /\ t = IF 1 <= n - 1 THEN n - 1 - 1 + 1 ELSE 0
    BY <1>1, <1>4
  <2> HIDE DEF n, t
  <2>2. t = n - 1
    BY <2>1
  <2> QED
    BY <2>2 DEF n, t
<1>6. \A i \in 1..(Len(s) - 1) : SubSeq(s, 1, Len(s) - 1)[i] = s[i]
  BY <1>1, <1>4
<1>7. s[Len(s)] \in S
  BY <1>3, ElementOfSeq
<1> QED
  BY <1>1, <1>4, <1>5, <1>6, <1>7 DEF Front, Last

\* What the operations on the state of the command loop keep.
LEMMA PushType ==
  ASSUME NEW r \in ReplType, NEW c \in Sources
  PROVE  /\ Push(r, c) \in ReplType
         /\ Push(r, c).stack = Append(r.stack, r.cur)
         /\ Push(r, c).cur = c /\ Len(Push(r, c).stack) = Len(r.stack) + 1
<1>1. Append(r.stack, r.cur) \in Seq(Sources) /\ Len(Append(r.stack, r.cur)) = Len(r.stack) + 1
  BY AppendProperties DEF ReplType
<1> QED
  BY <1>1 DEF Push, ReplType

LEMMA PopType ==
  ASSUME NEW r \in ReplType
  PROVE  /\ Pop(r) \in ReplType
         /\ Pop(r).stack = IF r.stack = <<>> THEN r.stack ELSE Front(r.stack)
         /\ Pop(r).cur = IF r.stack = <<>> THEN r.cur ELSE Last(r.stack)
         /\ Len(Pop(r).stack) <= Len(r.stack)
         /\ Pop(r).phase = r.phase /\ Pop(r).pushed = r.pushed /\ Pop(r).line = r.line
         /\ Pop(r).redo = r.redo /\ Pop(r).prev_cmd = r.prev_cmd /\ Pop(r).slips = r.slips
         /\ Pop(r).prev_token = r.prev_token
<1>1. CASE r.stack = <<>>
  BY <1>1 DEF Pop, ReplType
<1>2. CASE r.stack # <<>>
  <2>1. Front(r.stack) \in Seq(Sources) /\ Last(r.stack) \in Sources
        /\ Len(Front(r.stack)) = Len(r.stack) - 1 /\ Len(r.stack) \in Nat
    BY <1>2, FrontLast DEF ReplType
  <2> DEFINE f == Front(r.stack)  l == Last(r.stack)
  <2>2. Pop(r) = [r EXCEPT !.stack = f, !.cur = l]
    BY <1>2 DEF Pop
  <2> HIDE DEF f, l
  <2>3. f \in Seq(Sources) /\ l \in Sources
    BY <2>1 DEF f, l
  <2>4. Pop(r) \in ReplType
    BY <2>2, <2>3 DEF ReplType
  <2>5. Pop(r).stack = f /\ Pop(r).cur = l
    BY <2>2, <2>3 DEF ReplType
  <2>6. /\ Pop(r).phase = r.phase /\ Pop(r).pushed = r.pushed /\ Pop(r).line = r.line
        /\ Pop(r).redo = r.redo /\ Pop(r).prev_cmd = r.prev_cmd /\ Pop(r).slips = r.slips
        /\ Pop(r).prev_token = r.prev_token
    BY <2>2 DEF ReplType
  <2> QED
    BY <1>2, <2>1, <2>4, <2>5, <2>6 DEF f, l
<1> QED
  BY <1>1, <1>2

LEMMA NoLineType == NoLine \in LineType
<1>1. "blank" \in Commands /\ "none" \in Operands
  BY DEF Commands, Operands
<1>2. 0 \in Nat \cup DOMAIN File
  OBVIOUS
<1> QED
  BY <1>1, <1>2 DEF NoLine, LineType

LEMMA LeaveType ==
  ASSUME NEW r \in ReplType
  PROVE  /\ Leave(r) \in ReplType
         /\ Leave(r).phase = "prompt" /\ Leave(r).pushed = FALSE
         /\ Leave(r).redo = r.redo /\ Leave(r).prev_cmd = r.prev_cmd
         /\ Leave(r).slips = r.slips /\ Leave(r).prev_token = r.prev_token
         /\ Leave(r).stack = (IF r.pushed THEN Pop(r) ELSE r).stack
         /\ Leave(r).cur = (IF r.pushed THEN Pop(r) ELSE r).cur
         /\ Len(Leave(r).stack) <= Len(r.stack)
<1> DEFINE p == IF r.pushed THEN Pop(r) ELSE r
<1>1. /\ p \in ReplType /\ p.redo = r.redo /\ p.prev_cmd = r.prev_cmd /\ p.slips = r.slips
      /\ Len(p.stack) <= Len(r.stack) /\ p.prev_token = r.prev_token
  BY PopType DEF ReplType
<1>2. Leave(r) = [p EXCEPT !.pushed = FALSE, !.line = NoLine, !.phase = "prompt"]
  BY DEF Leave
<1> HIDE DEF p
<1>3. Leave(r) \in ReplType
  BY <1>1, <1>2, NoLineType DEF ReplType, Phases
<1>4. /\ Leave(r).phase = "prompt" /\ Leave(r).pushed = FALSE /\ Leave(r).redo = p.redo
      /\ Leave(r).prev_cmd = p.prev_cmd /\ Leave(r).slips = p.slips
      /\ Leave(r).stack = p.stack /\ Leave(r).cur = p.cur /\ Leave(r).prev_token = p.prev_token
  BY <1>1, <1>2 DEF ReplType
<1> QED
  BY <1>1, <1>3, <1>4 DEF p

LEMMA ReturnsType ==
  ASSUME NEW r \in ReplType, NEW c \in Commands
  PROVE  /\ Returns(r, c) \in ReplType
         /\ Returns(r, c).phase = "prompt" /\ Returns(r, c).pushed = FALSE
         /\ Returns(r, c).redo = FALSE /\ Returns(r, c).prev_cmd = c
         /\ Returns(r, c).slips = r.slips /\ Returns(r, c).prev_token = r.prev_token
         /\ Returns(r, c).stack = Leave(r).stack /\ Returns(r, c).cur = Leave(r).cur
<1> DEFINE p == Leave(r)
           loc == IF c = "print" THEN p.loc ELSE 0
           n == IF c = "step" THEN p.steps ELSE 0
           at == IF c = "run" THEN p.start ELSE 0
<1>1. p \in ReplType /\ p.phase = "prompt" /\ p.pushed = FALSE /\ p.slips = r.slips
      /\ p.prev_token = r.prev_token
  BY LeaveType
<1>2. Returns(r, c) = [p EXCEPT !.redo = FALSE, !.prev_cmd = c, !.loc = loc,
                                !.steps = n, !.start = at]
  BY DEF Returns
<1> HIDE DEF p
<1>5. loc \in Nat /\ n \in 0..RunSteps /\ at \in Starts \cup {0}
  BY <1>1, DebuggerAssumption DEF ReplType
<1> HIDE DEF loc, n, at
<1>3. Returns(r, c) \in ReplType
  BY <1>1, <1>2, <1>5 DEF ReplType
<1>4. /\ Returns(r, c).phase = p.phase /\ Returns(r, c).pushed = p.pushed
      /\ Returns(r, c).redo = FALSE /\ Returns(r, c).prev_cmd = c
      /\ Returns(r, c).slips = p.slips /\ Returns(r, c).prev_token = p.prev_token
      /\ Returns(r, c).stack = p.stack /\ Returns(r, c).cur = p.cur
  BY <1>1, <1>2 DEF ReplType
<1> QED
  BY <1>1, <1>3, <1>4 DEF p

LEMMA LineTyped ==
  ASSUME NEW l \in Lines
  PROVE  /\ l \in LineType
         /\ l.cmd = "read" /\ l.opnd = "str" => l.val \in DOMAIN File
         /\ ~(l.cmd = "read" /\ l.opnd = "str") => l.val \in Nat
         /\ l.cmd = "run" => l.val \in Starts \cup {0}
         /\ l.cmd = "step" => l.val <= RunSteps
<1>1. /\ l = [cmd |-> l.cmd, opnd |-> l.opnd, val |-> l.val]
      /\ l.cmd \in Commands /\ l.opnd \in Operands /\ l.val \in Nat \cup DOMAIN File
  BY SessionAssumption
<1>2. [cmd |-> l.cmd, opnd |-> l.opnd, val |-> l.val] \in LineType
  BY <1>1 DEF LineType
<1>3. l \in LineType
  BY <1>1, <1>2
<1> QED
  BY <1>3, SessionAssumption

\* The line that parse_spim_command executes, and the state it starts from.
Typed(l) == IF repl.redo THEN l = NoLine ELSE l \in Lines

LEMMA EnteredType ==
  ASSUME FrontType, repl.phase = "prompt", repl.redo \/ Len(repl.stack) < Depth,
         NEW l, Typed(l)
  PROVE  /\ Entered(l) \in ReplType /\ Len(Entered(l).stack) <= Depth
         /\ Entered(l).redo = repl.redo /\ Entered(l).slips = repl.slips
         /\ Entered(l).prev_cmd = repl.prev_cmd /\ Entered(l).phase = "prompt"
         /\ Entered(l).prev_token = repl.prev_token
         /\ repl.redo => Entered(l) = repl
         /\ ~repl.redo => /\ Entered(l).line = l /\ Entered(l).pushed = TRUE
                          /\ Entered(l).stack = Append(repl.stack, repl.cur)
                          /\ Entered(l).cur = "line"
                          /\ Len(Entered(l).stack) = Len(repl.stack) + 1
<1> USE DEF FrontType
<1>1. CASE repl.redo
  BY <1>1 DEF Entered
<1>2. CASE ~repl.redo
  <2> DEFINE p == Push(repl, "line")
  <2>1. /\ p \in ReplType /\ p.stack = Append(repl.stack, repl.cur) /\ p.cur = "line"
        /\ Len(p.stack) = Len(repl.stack) + 1
    BY PushType DEF Sources
  <2>2. p.redo = repl.redo /\ p.slips = repl.slips /\ p.prev_cmd = repl.prev_cmd
        /\ p.phase = repl.phase /\ p.prev_token = repl.prev_token
    BY DEF Push, ReplType
  <2>3. Entered(l) = [p EXCEPT !.pushed = TRUE, !.line = l]
    BY <1>2 DEF Entered
  <2>4. l \in LineType
    BY <1>2, LineTyped DEF Typed
  <2>5. Len(repl.stack) \in Nat /\ Depth \in Nat
    BY SessionAssumption, LenProperties DEF ReplType
  <2> HIDE DEF p
  <2>6. Entered(l) \in ReplType
    <3>1. TRUE \in BOOLEAN
      OBVIOUS
    <3> HIDE DEF FrontType
    <3> QED
      BY <2>1, <2>3, <2>4, <3>1 DEF ReplType
  <2>7. /\ Entered(l).stack = p.stack /\ Entered(l).cur = p.cur /\ Entered(l).redo = p.redo
        /\ Entered(l).slips = p.slips /\ Entered(l).prev_cmd = p.prev_cmd
        /\ Entered(l).phase = p.phase /\ Entered(l).line = l /\ Entered(l).pushed = TRUE
        /\ Entered(l).prev_token = p.prev_token
    BY <2>1, <2>3, <2>4 DEF ReplType
  <2> QED
    BY <1>2, <2>1, <2>2, <2>5, <2>6, <2>7
<1> QED
  BY <1>1, <1>2

LEMMA LoadsTyped ==
  ASSUME loads \in LoadsType, NEW f \in DOMAIN File
  PROVE  /\ loads.errs \in Nat /\ File[f].errs \in Nat
         /\ loads.refs \cup File[f].refs \in SUBSET Symbols
         /\ loads.defs \cup File[f].defs \in SUBSET Symbols
         /\ Len(File[f].code) \in Nat /\ File[f].code \in Seq(Kinds)
         /\ loads.next + Len(File[f].code) \in Nat /\ Size + 1 \in Nat
<1>1. File[f].refs \in SUBSET Symbols /\ File[f].defs \in SUBSET Symbols
  BY DEF Symbols
<1>2. File[f].errs \in Nat /\ File[f].code \in Seq(Kinds)
  BY SessionAssumption
<1>3. Len(File[f].code) \in Nat
  BY <1>2, LenProperties
<1>4. loads.errs \in Nat /\ loads.refs \in SUBSET Symbols /\ loads.defs \in SUBSET Symbols
      /\ loads.next \in Nat
  BY DEF LoadsType
<1> QED
  BY <1>1, <1>2, <1>3, <1>4, DebuggerAssumption

\* What a tree adds to the text, also when there is no room for it.
LEMMA ReachedTyped ==
  ASSUME loads \in LoadsType, NEW code \in Seq(Kinds)
  PROVE  /\ Reached(code) \in Nat /\ Grown(code) \in Seq(Kinds)
         /\ \A a \in Text : (a < Reached(code)) <=> (a < loads.next + Len(code))
<1>1. loads.next \in Nat /\ Len(code) \in Nat /\ Size \in Nat
  BY DebuggerAssumption, LenProperties DEF LoadsType
<1>2. Grown(code) \in Seq(Kinds)
  BY EmptySeq DEF Grown
<1> QED
  BY <1>1, <1>2 DEF Reached, Text

LEMMA ReadTyped ==
  ASSUME loads \in LoadsType, NEW f \in DOMAIN File, read_assembly_file(f)
  PROVE  loads' \in LoadsType
<1>1. CASE File[f].opens
  <2> DEFINE rs == loads.refs \cup File[f].refs
             ds == loads.defs \cup File[f].defs
             nx == Reached(File[f].code)
             tr == Grown(File[f].code)
             er == File[f].errs
  <2>1. loads' = [loads EXCEPT !.errs = er, !.refs = rs, !.defs = ds, !.next = nx,
                               !.tree = tr, !.boot = FALSE]
    BY <1>1 DEF read_assembly_file
  <2>2. /\ er \in Nat /\ rs \in SUBSET Symbols /\ ds \in SUBSET Symbols /\ nx \in Nat
        /\ tr \in Seq(Kinds)
    BY LoadsTyped, ReachedTyped
  <2> HIDE DEF rs, ds, nx, tr, er
  <2> QED
    BY <2>1, <2>2 DEF LoadsType
<1>2. CASE ~File[f].opens
  BY <1>2 DEF read_assembly_file
<1> QED
  BY <1>1, <1>2

LEMMA LeaveAgainType ==
  ASSUME NEW r \in ReplType, NEW b \in BOOLEAN
  PROVE  /\ [Leave(r) EXCEPT !.redo = b] \in ReplType
         /\ [Leave(r) EXCEPT !.redo = b].phase = "prompt"
         /\ [Leave(r) EXCEPT !.redo = b].pushed = FALSE
         /\ [Leave(r) EXCEPT !.redo = b].redo = b
         /\ [Leave(r) EXCEPT !.redo = b].prev_cmd = r.prev_cmd
         /\ [Leave(r) EXCEPT !.redo = b].slips = r.slips
         /\ [Leave(r) EXCEPT !.redo = b].prev_token = r.prev_token
         /\ [Leave(r) EXCEPT !.redo = b].stack = Leave(r).stack
         /\ [Leave(r) EXCEPT !.redo = b].cur = Leave(r).cur
<1> DEFINE p == Leave(r)
<1>1. p \in ReplType /\ p.phase = "prompt" /\ p.pushed = FALSE
      /\ p.prev_cmd = r.prev_cmd /\ p.slips = r.slips /\ p.prev_token = r.prev_token
  BY LeaveType
<1> HIDE DEF p
<1>2. [p EXCEPT !.redo = b] \in ReplType
  BY <1>1 DEF ReplType
<1>3. /\ [p EXCEPT !.redo = b].phase = p.phase /\ [p EXCEPT !.redo = b].pushed = p.pushed
      /\ [p EXCEPT !.redo = b].redo = b /\ [p EXCEPT !.redo = b].prev_cmd = p.prev_cmd
      /\ [p EXCEPT !.redo = b].slips = p.slips /\ [p EXCEPT !.redo = b].stack = p.stack
      /\ [p EXCEPT !.redo = b].cur = p.cur
      /\ [p EXCEPT !.redo = b].prev_token = p.prev_token
  BY <1>1 DEF ReplType
<1> QED
  BY <1>1, <1>2, <1>3 DEF p

\* What a command may make of the state r of the command loop.
Shaped(r, q) == q \in ReplType /\ Len(q.stack) <= Len(r.stack) /\ RunLine(q)

LEMMA ReturnsShaped ==
  ASSUME NEW r \in ReplType, NEW c \in Commands
  PROVE  Shaped(r, Returns(r, c))
<1> DEFINE q == Returns(r, c)
<1>1. q \in ReplType /\ q.phase = "prompt" /\ ~q.pushed /\ q.stack = Leave(r).stack
  BY ReturnsType
<1>2. Len(Leave(r).stack) <= Len(r.stack)
  BY LeaveType
<1> HIDE DEF q
<1>3. Shaped(r, q)
  BY <1>1, <1>2 DEF Shaped, RunLine
<1> QED
  BY <1>3 DEF q

LEMMA ShapedType ==
  ASSUME FrontType, NEW r \in ReplType, Len(r.stack) <= Depth, Shaped(r, repl'),
         argv' \in Seq(Args), opt' \in OptType, loads' \in LoadsType,
         console' \in BOOLEAN, status' \in {-1, 0, 1, 2, 128, 139, 255}
  PROVE  FrontType'
<1>1. Len(r.stack) \in Nat /\ Len(repl'.stack) \in Nat /\ Depth \in Nat
  BY SessionAssumption, LenProperties DEF ReplType, Shaped
<1> QED
  BY <1>1 DEF FrontType, Shaped

\* The sources that may have been left behind by n slips of ^C.
Left(n) == {"stdin"} \cup (IF n > 0 THEN {"line"} ELSE {})

\* The sources that are held, on the stack and, unless a line has been pushed
\* over it, as the current one, are such as may be; the line counts for one.
Held(r) ==
  /\ \A i \in 1..Len(r.stack) : r.stack[i] \in Left(r.slips)
  /\ Len(r.stack) <= r.slips + (IF r.pushed THEN 1 ELSE 0)
  /\ (r.pushed /\ r.stack # <<>>) \/ r.cur \in Left(r.slips)

Good(r) == r \in ReplType /\ Held(r) /\ r.prev_cmd # "exit" /\ r.prev_token # "str"

LEMMA GoodSame ==
  ASSUME NEW r, Good(r), NEW q \in ReplType, q.stack = r.stack, q.pushed = r.pushed,
         q.slips = r.slips, (q.cur = r.cur) \/ (r.pushed /\ r.stack # <<>>) \/ q.cur = "stdin",
         q.prev_cmd # "exit", q.prev_token # "str"
  PROVE  Good(q)
  BY DEF Good, Held, Left

\* What Pop leaves, whether or not there was something to pop.
LEMMA PopHeld ==
  ASSUME NEW r, Good(r), r.pushed
  PROVE  /\ \A i \in 1..Len(Pop(r).stack) : Pop(r).stack[i] \in Left(r.slips)
         /\ Len(Pop(r).stack) <= r.slips /\ Pop(r).cur \in Left(r.slips)
         /\ Good(Pop(r))
<1>1. /\ r \in ReplType /\ r.stack \in Seq(Sources) /\ r.slips \in Nat /\ Len(r.stack) \in Nat
      /\ Len(r.stack) <= r.slips + 1
  BY LenProperties DEF Good, Held, ReplType
<1>2. /\ Pop(r) \in ReplType /\ Pop(r).slips = r.slips /\ Pop(r).pushed = r.pushed
      /\ Pop(r).prev_cmd = r.prev_cmd /\ Pop(r).prev_token = r.prev_token
      /\ Pop(r).stack = IF r.stack = <<>> THEN r.stack ELSE Front(r.stack)
      /\ Pop(r).cur = IF r.stack = <<>> THEN r.cur ELSE Last(r.stack)
  BY <1>1, PopType
<1>3. CASE r.stack = <<>>
  <2>1. Len(r.stack) = 0
    BY <1>3, EmptySeq
  <2>2. Len(r.stack) <= r.slips /\ r.cur \in Left(r.slips)
    BY <1>1, <1>3, <2>1 DEF Good, Held
  <2>3. Good(Pop(r))
    BY <1>2, <1>3, GoodSame DEF Good
  <2> QED
    BY <1>2, <1>3, <2>2, <2>3 DEF Good, Held
<1>4. CASE r.stack # <<>>
  <2>1. /\ Len(Front(r.stack)) = Len(r.stack) - 1 /\ Len(r.stack) \in Nat \ {0}
        /\ \A i \in 1..(Len(r.stack) - 1) : Front(r.stack)[i] = r.stack[i]
    BY <1>1, <1>4, FrontLast
  <2>2. Len(Front(r.stack)) <= r.slips /\ Len(Front(r.stack)) \in Nat
    BY <1>1, <2>1
  <2>3. Last(r.stack) \in Left(r.slips)
    <3>1. Len(r.stack) \in 1..Len(r.stack)
      BY <2>1
    <3> QED
      BY <3>1 DEF Good, Held, Last
  <2>4. ASSUME NEW i \in 1..Len(Front(r.stack)) PROVE Front(r.stack)[i] \in Left(r.slips)
    <3>1. i \in 1..(Len(r.stack) - 1) /\ i \in 1..Len(r.stack)
      BY <2>1
    <3> QED
      BY <2>1, <3>1 DEF Good, Held
  <2>5. Len(Front(r.stack)) <= r.slips + 1
    BY <1>1, <2>2
  <2>6. Good(Pop(r))
    BY <1>2, <1>4, <2>3, <2>4, <2>5 DEF Good, Held
  <2> QED
    BY <1>2, <1>4, <2>2, <2>3, <2>4, <2>6
<1> QED
  BY <1>3, <1>4

\* So a command may leave, and the sources are the ones from before it.
LEMMA LeaveGood ==
  ASSUME NEW r, Good(r), NEW q \in ReplType,
         q.stack = Leave(r).stack, q.cur = Leave(r).cur, q.pushed = FALSE, q.slips = r.slips,
         q.prev_cmd # "exit", q.prev_token # "str"
  PROVE  Good(q)
<1>1. /\ r \in ReplType /\ r.slips \in Nat
      /\ Leave(r).stack = (IF r.pushed THEN Pop(r) ELSE r).stack
      /\ Leave(r).cur = (IF r.pushed THEN Pop(r) ELSE r).cur
  BY LeaveType DEF Good, ReplType
<1>2. r.slips + 0 = r.slips
  BY <1>1
<1>3. CASE r.pushed
  BY <1>1, <1>2, <1>3, PopHeld DEF Good, Held
<1>4. CASE ~r.pushed
  BY <1>1, <1>2, <1>4 DEF Good, Held
<1> QED
  BY <1>3, <1>4

\* The phases of a session once top_level has been entered.
TopPhases == {"prompt", "running", "args_stdin", "asm_stdin", "ended"}

\* What a command may make of the state r it starts in.
Commanded(r, q) ==
  /\ Shaped(r, q) /\ q.phase \in TopPhases
  /\ FullOperands /\ Good(r) =>
       /\ q.phase # "ended" => Good(q)
       /\ q.phase = "ended" => q.line.cmd = "exit"

LEMMA LeaveCommanded ==
  ASSUME NEW r \in ReplType, NEW q \in ReplType, NEW b \in BOOLEAN,
         Len(q.stack) <= Len(r.stack), FullOperands /\ Good(r) => Good(q)
  PROVE  Commanded(r, [Leave(q) EXCEPT !.redo = b])
<1> DEFINE p == [Leave(q) EXCEPT !.redo = b]
<1>1. /\ p \in ReplType /\ p.phase = "prompt" /\ p.pushed = FALSE /\ p.slips = q.slips
      /\ p.prev_cmd = q.prev_cmd /\ p.prev_token = q.prev_token
      /\ p.stack = Leave(q).stack /\ p.cur = Leave(q).cur
  BY LeaveAgainType
<1> HIDE DEF p
<1>2. Len(p.stack) <= Len(q.stack)
  BY <1>1, LeaveType
<1>3. Len(p.stack) <= Len(r.stack)
  BY <1>1, <1>2, LenProperties DEF ReplType
<1>4. Good(q) => Good(p)
  <2> SUFFICES ASSUME Good(q) PROVE Good(p)
    OBVIOUS
  <2>1. p.prev_cmd # "exit" /\ p.prev_token # "str"
    BY <1>1 DEF Good
  <2> QED
    BY <1>1, <2>1, LeaveGood
<1>5. Commanded(r, p)
  BY <1>1, <1>3, <1>4 DEF Commanded, Shaped, RunLine, TopPhases
<1> QED
  BY <1>5 DEF p

LEMMA ReturnsCommanded ==
  ASSUME NEW r \in ReplType, NEW q \in ReplType, NEW c \in Commands, c # "exit",
         Len(q.stack) <= Len(r.stack), FullOperands /\ Good(r) => Good(q)
  PROVE  Commanded(r, Returns(q, c))
<1> DEFINE p == Returns(q, c)
<1>1. /\ p \in ReplType /\ p.phase = "prompt" /\ p.pushed = FALSE /\ p.slips = q.slips
      /\ p.prev_cmd = c /\ p.prev_token = q.prev_token
      /\ p.stack = Leave(q).stack /\ p.cur = Leave(q).cur
  BY ReturnsType
<1> HIDE DEF p
<1>2. Len(p.stack) <= Len(q.stack)
  BY <1>1, LeaveType
<1>3. Len(p.stack) <= Len(r.stack)
  BY <1>1, <1>2, LenProperties DEF ReplType
<1>4. Good(q) => Good(p)
  <2> SUFFICES ASSUME Good(q) PROVE Good(p)
    OBVIOUS
  <2>1. p.prev_cmd # "exit" /\ p.prev_token # "str"
    BY <1>1 DEF Good
  <2> QED
    BY <1>1, <2>1, LeaveGood
<1>5. Commanded(r, p)
  BY <1>1, <1>3, <1>4 DEF Commanded, Shaped, RunLine, TopPhases
<1> QED
  BY <1>5 DEF p

-----------------------------------------------------------------------------
(* Every step of a session is one of a few kinds of steps of the debugger. *)

RestSame == UNCHANGED <<PC, run, asked, lost>> /\ loads'.next = loads.next

Assembles ==
  /\ \E c \in Seq(Kinds) :
       /\ dbg' = [dbg EXCEPT !.text = Placed(c)]
       /\ \A a \in Text : (a < loads'.next) <=> (a < loads.next + Len(c))
  /\ UNCHANGED <<PC, run, asked, lost>>

Begins ==
  /\ run.phase = "idle" /\ loads'.next = loads.next
  /\ \E pc \in (Starts \cup {PC}) \ {0}, n \in 1..RunSteps, show, cont \in BOOLEAN :
       run_program(pc, n, show, cont)

Prints == \E a : /\ ~PrintHangs(dbg, a) /\ dbg' = format_an_inst(dbg, a)
                 /\ RestSame

Plants ==
  \E a : /\ dbg' = add_breakpoint(dbg, a)
         /\ asked' = IF a \in Recorded(dbg') THEN asked \cup {a} ELSE asked
         /\ lost' = lost \ {a}
         /\ UNCHANGED <<PC, run>> /\ loads'.next = loads.next

Lifts ==
  \E a : /\ dbg' = delete_breakpoint(dbg, a)
         /\ asked' = asked \ {a} /\ lost' = lost \ {a}
         /\ UNCHANGED <<PC, run>> /\ loads'.next = loads.next

Reboots == run.phase = "idle" /\ initialize_world /\ loads'.next = Len(Boot) + 1 /\ UNCHANGED run

Goes == (RunOn \/ Hit \/ ExitCall \/ StepsDone) /\ loads'.next = loads.next

Aborts == Running /\ Abort /\ loads'.next = loads.next

Stays == UNCHANGED dbg /\ RestSame

DebugStep ==
  Stays \/ Assembles \/ Begins \/ Prints \/ Plants \/ Lifts \/ Reboots \/ Goes \/ Aborts

\* The program runs only while a command, or main, waits for it.
RunsInCommand ==
  /\ run.phase # "idle" => repl.phase \in {"running", "batch"}
  /\ run.phase = "idle" => run = Idle

\* What main knows and the terminal, during a command.
MainKept ==
  /\ loads'.attempted = loads.attempted /\ loads'.loaded = loads.loaded
  /\ console' => console \/ repl'.phase = "running"

\* Everything that the proofs below need of a command executed in state r.
CommandDone(r) ==
  FrontType' /\ DebugStep /\ RunsInCommand' /\ Commanded(r, repl') /\ MainKept

\* Emitting a tree is a step of the debugger like reading a file.
LEMMA AssembleStep ==
  ASSUME loads \in LoadsType, NEW code \in Seq(Kinds), assemble(code)
  PROVE  /\ loads' \in LoadsType /\ DebugStep
         /\ loads'.attempted = loads.attempted /\ loads'.loaded = loads.loaded
<1> DEFINE nx == Reached(code)
           tr == Grown(code)
<1>1. nx \in Nat /\ tr \in Seq(Kinds)
      /\ \A a \in Text : (a < nx) <=> (a < loads.next + Len(code))
  BY ReachedTyped
<1>2. loads' = [loads EXCEPT !.next = nx, !.tree = tr]
      /\ dbg' = [dbg EXCEPT !.text = Placed(code)]
      /\ UNCHANGED <<PC, run, asked, lost>>
  BY DEF assemble
<1> HIDE DEF nx, tr
<1>3. loads' \in LoadsType /\ loads'.next = nx
      /\ loads'.attempted = loads.attempted /\ loads'.loaded = loads.loaded
  BY <1>1, <1>2 DEF LoadsType
<1>4. Assembles
  BY <1>1, <1>2, <1>3 DEF Assembles
<1> QED
  BY <1>3, <1>4 DEF DebugStep

\* A line joins the tree.
LEMMA JoinedTyped ==
  ASSUME loads \in LoadsType, NEW c \in AsmLines
  PROVE  loads.tree \o c \in Seq(Kinds)
<1>1. loads.tree \in Seq(Kinds) /\ c \in Seq(Kinds)
  BY SessionAssumption DEF LoadsType
<1> QED
  BY <1>1, ConcatProperties

LEMMA CommandStep ==
  ASSUME FrontType, RunsInCommand, PC \in 0..(Size + 1),
         repl.phase = "prompt", repl.redo \/ Len(repl.stack) < Depth,
         NEW l, Typed(l), NEW r, r = Entered(l),
         \/ EXIT_CMD(r) \/ READ_CMD(r) \/ RUN_CMD(r) \/ CONTINUE_CMD(r)
         \/ STEP_CMD(r) \/ PRINT_CMD(r) \/ BKPT_CMD(r) \/ REINITIALIZE_CMD(r)
         \/ ASM_CMD(r) \/ ARGS_CMD(r) \/ REDO_CMD(r) \/ SHOW_CMD(r) \/ UNKNOWN_CMD(r)
  PROVE  CommandDone(r)
<1>1. /\ r \in ReplType /\ Len(r.stack) <= Depth
      /\ r.redo = repl.redo /\ (~r.redo => r.line \in Lines /\ r.pushed)
      /\ r.phase = "prompt" /\ (~r.redo => r.stack # <<>>)
  <2>1. ~repl.redo => Entered(l).stack # <<>>
    <3> SUFFICES ASSUME ~repl.redo PROVE Entered(l).stack # <<>>
      OBVIOUS
    <3>1. Len(Entered(l).stack) = Len(repl.stack) + 1 /\ Len(repl.stack) \in Nat
      BY EnteredType, LenProperties DEF FrontType, ReplType
    <3>2. Len(<<>>) = 0 /\ Len(repl.stack) + 1 # 0
      BY <3>1, EmptySeq
    <3> QED
      BY <3>1, <3>2
  <2> QED
    BY <2>1, EnteredType DEF Typed
<1>2. run = Idle
  BY DEF RunsInCommand
<1>3. /\ argv \in Seq(Args) /\ opt \in OptType /\ loads \in LoadsType
      /\ console \in BOOLEAN /\ status \in {-1, 0, 1, 2, 128, 139, 255}
  BY DEF FrontType
<1>4. ASSUME Shaped(r, repl'), UNCHANGED <<argv, opt, status>>, loads' \in LoadsType,
             console' \in BOOLEAN
      PROVE  FrontType'
  BY <1>1, <1>3, <1>4, ShapedType
<1>5. ASSUME NEW q, Commanded(r, q), Only(q) PROVE CommandDone(r)
  <2>1. FrontType'
    BY <1>3, <1>4, <1>5 DEF Only, mainVars, Commanded
  <2>2. DebugStep
    BY <1>5 DEF Only, mainVars, debuggerVars, DebugStep, Stays, RestSame
  <2>3. RunsInCommand'
    BY <1>2, <1>5 DEF Only, debuggerVars, RunsInCommand, Idle
  <2>4. MainKept /\ repl' = q
    BY <1>5 DEF Only, mainVars, MainKept
  <2> QED
    BY <1>5, <2>1, <2>2, <2>3, <2>4 DEF CommandDone
<1>6. ASSUME Quits(r), FullOperands /\ Good(r) => r.line.cmd = "exit" PROVE CommandDone(r)
  <2>1. Shaped(r, repl') /\ repl'.phase = "ended" /\ repl'.line = r.line
    <3>1. repl' = [r EXCEPT !.phase = "ended"]
      BY <1>6 DEF Quits
    <3>2. repl' \in ReplType /\ repl'.stack = r.stack /\ repl'.phase = "ended"
          /\ repl'.line = r.line
      BY <1>1, <3>1 DEF ReplType, Phases
    <3>3. Len(r.stack) \in Nat
      BY <1>1, LenProperties DEF ReplType
    <3> QED
      BY <3>2, <3>3 DEF Shaped, RunLine
  <2>2. UNCHANGED <<argv, opt, loads>> /\ console' = FALSE /\ status' = 0
    BY <1>6 DEF Quits, mainVars
  <2>3. FrontType'
    BY <2>1, <2>2, <1>1, <1>3, ShapedType
  <2>4. DebugStep
    BY <1>6 DEF Quits, mainVars, debuggerVars, DebugStep, Stays, RestSame
  <2>5. RunsInCommand'
    BY <1>2, <1>6 DEF Quits, debuggerVars, RunsInCommand, Idle
  <2>6. Commanded(r, repl') /\ MainKept
    BY <1>6, <2>1, <2>2 DEF Commanded, TopPhases, MainKept
  <2> QED
    BY <2>3, <2>4, <2>5, <2>6 DEF CommandDone
<1>7. CASE EXIT_CMD(r)
  <2>1. Good(r) => r.line.cmd = "exit"
    BY <1>7 DEF EXIT_CMD, Cmd, Good
  <2> QED
    BY <1>6, <1>7, <2>1 DEF EXIT_CMD
<1>8. Len(r.stack) <= Len(r.stack)
  BY <1>1, LenProperties DEF ReplType
<1>9. ASSUME FlushExits(r), FullOperands,
              Cmd(r) \in {"read", "print", "breakpoint", "delete", "print_all_regs"}
       PROVE  r.line.cmd = "exit"
  BY <1>1, <1>9 DEF FlushExits, FullOperands, Cmd
<1>10. r.redo => ~r.pushed
  BY EnteredType DEF Typed, FrontType, RunLine
<1>11. CASE REDO_CMD(r)
  <2>1. Commanded(r, [Leave(r) EXCEPT !.redo = TRUE])
    BY <1>1, <1>8, LeaveCommanded
  <2> QED
    BY <1>5, <1>11, <2>1 DEF REDO_CMD
<1>12. CASE UNKNOWN_CMD(r)
  <2>1. Commanded(r, [Leave(r) EXCEPT !.redo = FALSE])
    BY <1>1, <1>8, LeaveCommanded
  <2> QED
    BY <1>5, <1>12, <2>1 DEF UNKNOWN_CMD
<1>13. CASE SHOW_CMD(r)
  <2> DEFINE c == IF Cmd(r) \in {"help", "list", "dump"} THEN Cmd(r) ELSE "nop"
  <2>1. c \in Commands /\ c # "exit"
    BY DEF Commands
  <2>2. \/ Quits(r) /\ (FullOperands => r.line.cmd = "exit")
        \/ Only(Returns(r, c))
    BY <1>13, <1>9 DEF SHOW_CMD
  <2> HIDE DEF c
  <2>3. Commanded(r, Returns(r, c))
    BY <1>1, <1>8, <2>1, ReturnsCommanded
  <2> QED
    BY <1>5, <1>6, <2>2, <2>3
<1>14. ASSUME r.redo, NEW f \in {"asm_stdin", "args_stdin"}
       PROVE  Commanded(r, [r EXCEPT !.phase = f])
  <2> DEFINE q == [r EXCEPT !.phase = f]
  <2>1. /\ q \in ReplType /\ q.stack = r.stack /\ q.phase = f /\ q.pushed = r.pushed
        /\ q.slips = r.slips /\ q.cur = r.cur /\ q.prev_cmd = r.prev_cmd
        /\ q.prev_token = r.prev_token
    BY <1>1, <1>14 DEF ReplType, Phases
  <2> HIDE DEF q
  <2>2. Good(r) => Good(q)
    BY <2>1, GoodSame DEF Good
  <2>3. ~r.pushed
    BY <1>1, <1>14, <1>10
  <2>4. Commanded(r, q)
    BY <1>8, <1>14, <2>1, <2>2, <2>3 DEF Commanded, Shaped, RunLine, TopPhases
  <2> QED
    BY <2>4 DEF q
<1>15. CASE REINITIALIZE_CMD(r)
  <2> DEFINE p == [r EXCEPT !.cur = "stdin"]
  <2>1. /\ p \in ReplType /\ p.stack = r.stack /\ p.cur = "stdin" /\ p.pushed = r.pushed
        /\ p.slips = r.slips /\ p.prev_cmd = r.prev_cmd /\ p.prev_token = r.prev_token
    BY <1>1 DEF ReplType, Sources
  <2>2. Commanded(r, Returns(p, "nop"))
    <3> HIDE DEF p
    <3>1. Good(r) => Good(p)
      BY <2>1, GoodSame DEF Good
    <3>2. "nop" \in Commands
      BY DEF Commands
    <3> QED
      BY <1>1, <1>8, <2>1, <3>1, <3>2, ReturnsCommanded
  <2>3. loads' \in LoadsType /\ loads'.next = Len(Boot) + 1
    <3>1. Len(Boot) + 1 \in Nat
      BY DebuggerAssumption, LenProperties
    <3>2. loads' = [loads EXCEPT !.refs = {}, !.defs = {}, !.next = Len(Boot) + 1,
                                 !.tree = Startup, !.boot = TRUE]
      BY <1>15 DEF REINITIALIZE_CMD
    <3> QED
      BY <1>3, <3>1, <3>2, SessionAssumption DEF LoadsType
  <2>4. FrontType'
    BY <1>3, <1>4, <1>15, <2>2, <2>3 DEF REINITIALIZE_CMD, Commanded
  <2>5. DebugStep
    BY <1>2, <1>15, <2>3 DEF REINITIALIZE_CMD, DebugStep, Reboots, Idle
  <2>6. RunsInCommand' /\ repl' = Returns(p, "nop")
    BY <1>2, <1>15 DEF REINITIALIZE_CMD, RunsInCommand, Idle
  <2>7. MainKept
    BY <1>3, <1>15 DEF REINITIALIZE_CMD, MainKept, LoadsType
  <2> QED
    BY <2>2, <2>4, <2>5, <2>6, <2>7 DEF CommandDone
<1>16. ASSUME NEW q \in ReplType, Len(q.stack) <= Len(r.stack),
              NEW pc \in (Starts \cup {PC}) \ {0}, NEW n \in 1..RunSteps,
              NEW show \in BOOLEAN, NEW cont \in BOOLEAN,
              Cmd(q) \in {"run", "continue", "step"}, Runs(q, pc, n, show, cont),
              Good(r) => Good(q)
       PROVE  CommandDone(r)
  <2>1. repl' = [q EXCEPT !.phase = "running", !.line = [q.line EXCEPT !.cmd = Cmd(q)]]
    BY <1>16 DEF Runs
  <2>2. [q.line EXCEPT !.cmd = Cmd(q)] \in LineType
    BY <1>16 DEF ReplType, LineType, Commands
  <2>3. Commanded(r, repl') /\ repl'.phase = "running"
    <3> DEFINE x == [q.line EXCEPT !.cmd = Cmd(q)]
    <3>1. x.cmd \in {"run", "continue", "step"}
      BY <1>16 DEF ReplType, LineType
    <3> HIDE DEF x
    <3>2. repl' = [q EXCEPT !.phase = "running", !.line = x] /\ x \in LineType
      BY <2>1, <2>2 DEF x
    <3>3. /\ repl' \in ReplType /\ repl'.stack = q.stack /\ repl'.phase = "running"
          /\ repl'.line = x
      BY <1>16, <3>2 DEF ReplType, Phases
    <3>4. /\ repl'.pushed = q.pushed /\ repl'.slips = q.slips /\ repl'.cur = q.cur
          /\ repl'.prev_cmd = q.prev_cmd /\ repl'.prev_token = q.prev_token
      BY <1>16, <3>2 DEF ReplType
    <3>5. Shaped(r, repl')
      BY <1>16, <3>1, <3>3 DEF Shaped, RunLine
    <3>6. Good(r) => Good(repl')
      BY <1>16, <3>3, <3>4, GoodSame DEF Good
    <3> QED
      BY <3>3, <3>5, <3>6 DEF Commanded, TopPhases
  <2>4. console' \in BOOLEAN
    BY <1>3, <1>16 DEF Runs, OptType
  <2>5. FrontType'
    BY <1>3, <1>4, <1>16, <2>3, <2>4 DEF Runs, mainVars, Commanded
  <2>6. DebugStep
    BY <1>2, <1>16 DEF Runs, mainVars, DebugStep, Begins, Idle
  <2>7. run'.phase # "idle"
    BY <1>16 DEF Runs, run_program
  <2>8. MainKept
    BY <1>16, <2>3 DEF MainKept, Runs, mainVars
  <2> QED
    BY <2>3, <2>5, <2>6, <2>7, <2>8 DEF RunsInCommand, CommandDone
<1>17. CASE RUN_CMD(r)
  <2> DEFINE given == IF r.redo THEN r.start ELSE r.line.val
             addr == IF given = 0 THEN Entry ELSE given
             q == [r EXCEPT !.start = addr]
  <2>1. Runs(q, addr, RunSteps, FALSE, FALSE)
    BY <1>17 DEF RUN_CMD
  <2>2. given \in Starts \cup {0}
    BY <1>1, <1>17, LineTyped DEF RUN_CMD, Cmd, ReplType
  <2>3. addr \in (Starts \cup {PC}) \ {0} /\ addr \in Starts \cup {0} /\ RunSteps \in 1..RunSteps
    BY <2>2, DebuggerAssumption DEF Text
  <2> HIDE DEF addr
  <2>4. q \in ReplType /\ q.stack = r.stack /\ q.redo = r.redo /\ q.prev_cmd = r.prev_cmd
        /\ q.line = r.line /\ q.pushed = r.pushed /\ q.slips = r.slips /\ q.cur = r.cur
        /\ q.prev_token = r.prev_token
    BY <1>1, <2>3 DEF ReplType
  <2>5. Cmd(q) \in {"run", "continue", "step"}
    BY <2>4, <1>17 DEF RUN_CMD, Cmd
  <2>6. Len(q.stack) <= Len(r.stack)
    BY <1>1, <2>4, LenProperties DEF ReplType
  <2> HIDE DEF q
  <2>7. Good(r) => Good(q)
    BY <2>4, GoodSame DEF Good
  <2> QED
    BY <1>16, <2>1, <2>3, <2>4, <2>5, <2>6, <2>7
<1>18. CASE CONTINUE_CMD(r)
  <2>1. Cmd(r) \in {"run", "continue", "step"} /\ "continue" \in Commands
    BY <1>18 DEF CONTINUE_CMD, Commands
  <2>2. CASE PC # 0
    <3>1. Runs(r, PC, RunSteps, FALSE, TRUE)
      BY <1>18, <2>2 DEF CONTINUE_CMD
    <3>2. PC \in (Starts \cup {PC}) \ {0} /\ RunSteps \in 1..RunSteps
      BY <2>2, DebuggerAssumption
    <3>3. Len(r.stack) <= Len(r.stack)
      BY <1>1, LenProperties DEF ReplType
    <3> QED
      BY <1>1, <1>16, <2>1, <3>1, <3>2, <3>3
  <2>3. CASE PC = 0
    <3>1. Commanded(r, Returns(r, "continue"))
      BY <1>1, <1>8, <2>1, ReturnsCommanded
    <3> QED
      BY <1>5, <1>18, <2>3, <3>1 DEF CONTINUE_CMD
  <2> QED
    BY <2>2, <2>3
<1>19. CASE STEP_CMD(r)
  <2> DEFINE given == IF r.redo THEN r.steps ELSE r.line.val
             n == IF given = 0 THEN 1 ELSE given
             pc == IF PC = 0 THEN Entry ELSE PC
             q == [r EXCEPT !.steps = n]
  <2>1. Runs(q, pc, n, TRUE, TRUE)
    BY <1>19 DEF STEP_CMD
  <2>2. given \in 0..RunSteps
    <3>1. CASE r.redo
      BY <1>1, <3>1 DEF ReplType
    <3>2. CASE ~r.redo
      <4>1. r.line.val \in Nat /\ r.line.val <= RunSteps
        BY <1>1, <1>19, <3>2, LineTyped DEF STEP_CMD, Cmd
      <4> QED
        BY <3>2, <4>1, DebuggerAssumption
    <3> QED
      BY <3>1, <3>2
  <2>3. pc \in (Starts \cup {PC}) \ {0} /\ n \in 1..RunSteps /\ n \in 0..RunSteps
    BY <2>2, DebuggerAssumption DEF Text
  <2> HIDE DEF n, pc
  <2>4. q \in ReplType /\ q.stack = r.stack /\ q.redo = r.redo /\ q.prev_cmd = r.prev_cmd
        /\ q.line = r.line /\ q.pushed = r.pushed /\ q.slips = r.slips /\ q.cur = r.cur
        /\ q.prev_token = r.prev_token
    BY <1>1, <2>3 DEF ReplType
  <2>5. Cmd(q) \in {"run", "continue", "step"}
    BY <2>4, <1>19 DEF STEP_CMD, Cmd
  <2>6. Len(q.stack) <= Len(r.stack)
    BY <1>1, <2>4, LenProperties DEF ReplType
  <2> HIDE DEF q
  <2>7. Good(r) => Good(q)
    BY <2>4, GoodSame DEF Good
  <2> QED
    BY <1>16, <2>1, <2>3, <2>4, <2>5, <2>6, <2>7
<1>20. ASSUME NEW f \in DOMAIN File, read_assembly_file(f), UNCHANGED <<PC, run, asked, lost>>
       PROVE  DebugStep /\ loads'.attempted = loads.attempted /\ loads'.loaded = loads.loaded
  <2>1. loads.next \in Nat /\ Size \in Nat /\ Len(File[f].code) \in Nat
        /\ File[f].code \in Seq(Kinds)
    BY <1>3, LoadsTyped, DebuggerAssumption DEF LoadsType
  <2>2. CASE File[f].opens
    <3>1. dbg' = [dbg EXCEPT !.text = Placed(File[f].code)]
      BY <1>20, <2>2 DEF read_assembly_file
    <3>2. loads'.next = Reached(File[f].code)
      BY <1>3, <1>20, <2>2 DEF read_assembly_file, LoadsType
    <3>3. \A a \in Text : (a < loads'.next) <=> (a < loads.next + Len(File[f].code))
      BY <1>3, <2>1, <3>2, ReachedTyped
    <3>4. loads'.attempted = loads.attempted /\ loads'.loaded = loads.loaded
      BY <1>3, <1>20, <2>2 DEF read_assembly_file, LoadsType
    <3> QED
      BY <1>20, <2>1, <3>1, <3>3, <3>4 DEF DebugStep, Assembles
  <2>3. CASE ~File[f].opens
    BY <1>20, <2>3 DEF read_assembly_file, DebugStep, Stays, RestSame
  <2> QED
    BY <2>2, <2>3
<1>21. CASE READ_CMD(r)
  <2> DEFINE p == [r EXCEPT !.cur = "file"]
             q == [Leave(p) EXCEPT !.redo = FALSE]
  <2>1. /\ p \in ReplType /\ p.stack = r.stack /\ p.pushed = r.pushed /\ p.slips = r.slips
        /\ p.prev_cmd = r.prev_cmd /\ p.prev_token = r.prev_token
    BY <1>1 DEF ReplType, Sources
  <2>2. "read" \in Commands
    BY DEF Commands
  \* With a line on the stack the file is over it, and is popped.
  <2>3. ASSUME Operand(r) = "str" PROVE Good(r) => Good(p) /\ Good(Pop(p))
    <3> SUFFICES ASSUME Good(r) PROVE Good(p) /\ Good(Pop(p))
      OBVIOUS
    <3>1. ~r.redo
      BY <2>3 DEF Good, Operand
    <3>2. r.pushed /\ r.stack # <<>>
      BY <1>1, <3>1
    <3> HIDE DEF p
    <3>3. Good(p)
      BY <2>1, <3>2, GoodSame DEF Good
    <3> QED
      BY <2>1, <3>2, <3>3, PopHeld
  <2>4. ASSUME Operand(r) = "str" PROVE Commanded(r, q) /\ Commanded(r, Returns(Pop(p), "read"))
    <3> HIDE DEF p
    <3>1. Commanded(r, q)
      BY <1>1, <1>8, <2>1, <2>3, <2>4, LeaveCommanded
    <3> DEFINE t == Pop(p)
    <3>2. t \in ReplType /\ Len(t.stack) <= Len(r.stack) /\ (Good(r) => Good(t))
      BY <2>1, <2>3, <2>4, PopType
    <3> HIDE DEF t, q
    <3>3. Commanded(r, Returns(t, "read"))
      BY <1>1, <2>2, <3>2, ReturnsCommanded
    <3> QED
      BY <3>1, <3>3 DEF t
  <2>5. CASE FlushExits(r)
    <3>1. Quits(r) /\ Cmd(r) = "read"
      BY <1>21, <2>5 DEF READ_CMD
    <3> QED
      BY <1>6, <1>9, <2>5, <3>1
  <2>6. CASE Only(Returns(r, "read"))
    <3>1. Commanded(r, Returns(r, "read"))
      BY <1>1, <1>8, <2>2, ReturnsCommanded
    <3> QED
      BY <1>5, <2>6, <3>1
  <2>7. CASE /\ ~FlushExits(r) /\ Operand(r) = "str"
             /\ \E f \in FileNames(r) :
                  /\ read_assembly_file(f)
                  /\ repl' = IF Overflows(f) THEN q ELSE Returns(Pop(p), "read")
             /\ UNCHANGED <<PC, run, asked, lost, argv, opt, console, status>>
    <3>1. PICK f \in FileNames(r) :
            /\ read_assembly_file(f)
            /\ repl' = IF Overflows(f) THEN q ELSE Returns(Pop(p), "read")
      BY <2>7
    <3>2. f \in DOMAIN File
      BY <1>1, <1>21, <2>7, <3>1, LineTyped DEF FileNames, READ_CMD, Cmd, Operand
    <3> HIDE DEF p, q
    <3>3. Commanded(r, repl')
      BY <2>4, <2>7, <3>1
    <3>4. loads' \in LoadsType
      BY <1>3, <3>1, <3>2, ReadTyped
    <3>5. FrontType'
      BY <1>3, <1>4, <2>7, <3>3, <3>4 DEF Commanded
    <3>6. DebugStep /\ MainKept
      BY <1>20, <2>7, <3>1, <3>2 DEF MainKept
    <3> QED
      BY <1>2, <2>7, <3>3, <3>5, <3>6 DEF RunsInCommand, Idle, CommandDone
  <2> HIDE DEF q, p
  <2>8. \/ FlushExits(r) \/ Only(Returns(r, "read"))
        \/ /\ ~FlushExits(r) /\ Operand(r) = "str"
           /\ \E f \in FileNames(r) :
                /\ read_assembly_file(f)
                /\ repl' = IF Overflows(f) THEN q ELSE Returns(Pop(p), "read")
           /\ UNCHANGED <<PC, run, asked, lost, argv, opt, console, status>>
    BY <1>21 DEF READ_CMD, q, p
  <2> QED
    BY <2>5, <2>6, <2>7, <2>8
<1>22. /\ r.loc \in Nat /\ r.addr \in Nat /\ r.prev_token \in Operands /\ Operand(r) \in Operands
       /\ ~r.redo => (Cmd(r) # "read" => r.line.val \in Nat)
  BY <1>1, LineTyped DEF ReplType, Operand, LineType, Cmd
<1>23. CASE PRINT_CMD(r)
  <2> DEFINE loc == IF r.redo THEN r.loc + 1 ELSE r.line.val
             q == [r EXCEPT !.prev_token = Operand(r), !.loc = loc]
  <2>1. loc \in Nat /\ "print" \in Commands
    BY <1>22, <1>23 DEF PRINT_CMD, Commands
  <2>2. /\ q \in ReplType /\ q.stack = r.stack /\ q.pushed = r.pushed /\ q.slips = r.slips
        /\ q.cur = r.cur /\ q.prev_cmd = r.prev_cmd /\ q.prev_token = Operand(r)
    <3> DEFINE o == Operand(r)
    <3>1. o \in Operands
      BY <1>22
    <3> HIDE DEF loc, o
    <3>2. q = [r EXCEPT !.prev_token = o, !.loc = loc]
      BY DEF o
    <3> HIDE DEF q
    <3>3. /\ q \in ReplType /\ q.stack = r.stack /\ q.pushed = r.pushed /\ q.slips = r.slips
          /\ q.cur = r.cur /\ q.prev_cmd = r.prev_cmd /\ q.prev_token = o
      BY <1>1, <2>1, <3>1, <3>2 DEF ReplType
    <3> QED
      BY <3>3 DEF o
  <2>3. CASE FlushExits(r)
    <3>1. Quits(r) /\ Cmd(r) = "print"
      BY <1>23, <2>3 DEF PRINT_CMD
    <3> QED
      BY <1>6, <1>9, <2>3, <3>1
  <2>4. CASE ~FlushExits(r)
    <3>1. /\ \/ ~PrintHangs(dbg, loc) /\ dbg' = format_an_inst(dbg, loc)
             \/ UNCHANGED dbg
          /\ repl' = Returns(q, "print")
          /\ UNCHANGED <<PC, run, asked, lost, argv, opt, loads, console, status>>
      BY <1>23, <2>4 DEF PRINT_CMD, mainVars
    <3> HIDE DEF q, loc
    <3>2. Commanded(r, repl')
      <4>1. FullOperands /\ Good(r) => Operand(r) # "str"
        BY <1>1, <1>23 DEF FullOperands, Good, Operand, PRINT_CMD, Cmd
      <4>2. FullOperands /\ Good(r) => Good(q)
        BY <2>2, <4>1, GoodSame DEF Good
      <4> QED
        BY <1>1, <1>8, <2>1, <2>2, <3>1, <4>2, ReturnsCommanded
    <3>3. FrontType'
      BY <1>3, <1>4, <3>1, <3>2 DEF Commanded
    <3>4. DebugStep /\ MainKept
      BY <3>1 DEF DebugStep, Stays, Prints, RestSame, MainKept
    <3> QED
      BY <1>2, <3>1, <3>2, <3>3, <3>4 DEF RunsInCommand, Idle, CommandDone
  <2> QED
    BY <2>3, <2>4
<1>24. CASE BKPT_CMD(r)
  <2> DEFINE addr == BreakAddr(r)
             q == [r EXCEPT !.addr = addr]
  <2>1. addr \in Nat
    BY <1>22, <1>24 DEF BKPT_CMD, BreakAddr
  <2>2. /\ q \in ReplType /\ q.stack = r.stack /\ q.pushed = r.pushed /\ q.slips = r.slips
        /\ q.cur = r.cur /\ q.prev_cmd = r.prev_cmd /\ q.prev_token = r.prev_token
    <3> HIDE DEF addr
    <3> QED
      BY <1>1, <2>1 DEF ReplType
  <2>3. CASE FlushExits(r)
    <3>1. Quits(r) /\ Cmd(r) \in {"breakpoint", "delete"}
      BY <1>24, <2>3 DEF BKPT_CMD
    <3> QED
      BY <1>6, <1>9, <2>3, <3>1
  <2>4. CASE ~FlushExits(r)
    <3>1. /\ \/ /\ dbg' = add_breakpoint(dbg, addr)
                /\ asked' = IF addr \in Recorded(dbg') THEN asked \cup {addr} ELSE asked
             \/ dbg' = delete_breakpoint(dbg, addr) /\ asked' = asked \ {addr}
          /\ lost' = lost \ {addr}
          /\ repl' = Returns(q, Cmd(r))
          /\ UNCHANGED <<PC, run, argv, opt, loads, console, status>>
      BY <1>24, <2>4 DEF BKPT_CMD, mainVars
    <3>2. Cmd(r) \in Commands /\ Cmd(r) # "exit"
      BY <1>24 DEF BKPT_CMD, Commands
    <3> HIDE DEF q, addr
    <3>3. Commanded(r, repl')
      <4>1. Good(r) => Good(q)
        BY <2>2, GoodSame DEF Good
      <4> QED
        BY <1>1, <1>8, <2>2, <3>1, <3>2, <4>1, ReturnsCommanded
    <3>4. FrontType'
      BY <1>3, <1>4, <3>1, <3>3 DEF Commanded
    <3>5. DebugStep /\ MainKept
      BY <3>1 DEF DebugStep, Plants, Lifts, MainKept
    <3> QED
      BY <1>2, <3>1, <3>3, <3>4, <3>5 DEF RunsInCommand, Idle, CommandDone
  <2> QED
    BY <2>3, <2>4
<1>25. CASE ARGS_CMD(r)
  <2>1. "args" \in Commands
    BY DEF Commands
  <2>2. Commanded(r, Returns(r, "args"))
    BY <1>1, <1>8, <2>1, ReturnsCommanded
  <2>3. \/ r.redo /\ Only([r EXCEPT !.phase = "args_stdin"])
        \/ Only(Returns(r, "args"))
    BY <1>25 DEF ARGS_CMD
  <2> QED
    BY <1>5, <1>14, <2>2, <2>3
<1>26. CASE ASM_CMD(r)
  <2>1. "asm" \in Commands
    BY DEF Commands
  <2>2. Commanded(r, Returns(r, "asm")) /\ Commanded(r, [Leave(r) EXCEPT !.redo = FALSE])
    BY <1>1, <1>8, <2>1, ReturnsCommanded, LeaveCommanded
  <2>3. CASE r.redo
    <3>1. Only([r EXCEPT !.phase = "asm_stdin"])
      BY <1>26, <2>3 DEF ASM_CMD
    <3> QED
      BY <1>5, <1>14, <2>3, <3>1
  <2>4. CASE ~r.redo
    <3>1. PICK c \in AsmLines :
            /\ assemble(loads.tree \o c)
            /\ repl' = IF Overruns(loads.tree \o c) THEN [Leave(r) EXCEPT !.redo = FALSE]
                       ELSE Returns(r, "asm")
      BY <1>26, <2>4 DEF ASM_CMD
    <3>2. Commanded(r, repl')
      BY <2>2, <3>1
    <3>3. /\ loads' \in LoadsType /\ DebugStep
          /\ loads'.attempted = loads.attempted /\ loads'.loaded = loads.loaded
      <4> DEFINE code == loads.tree \o c
      <4>1. code \in Seq(Kinds) /\ assemble(code)
        BY <1>3, <3>1, JoinedTyped
      <4> HIDE DEF code
      <4> QED
        BY <1>3, <4>1, AssembleStep
    <3>4. UNCHANGED <<PC, run, asked, lost, argv, opt, console, status>>
      BY <3>1 DEF assemble
    <3>5. FrontType'
      BY <1>3, <1>4, <3>2, <3>3, <3>4 DEF Commanded
    <3> QED
      BY <1>2, <3>2, <3>3, <3>4, <3>5 DEF MainKept, RunsInCommand, Idle, CommandDone
  <2> QED
    BY <2>3, <2>4
<1> QED
  BY <1>7, <1>11, <1>12, <1>13, <1>15, <1>17, <1>18, <1>19, <1>21, <1>23, <1>24, <1>25, <1>26

\* The same for a step of main, of top_level or of the program.
LEMMA OtherStep ==
  ASSUME FrontType, RunsInCommand, run \in RunType, PC \in 0..(Size + 1),
         \/ Flag \/ FileArg \/ Dispatch \/ BatchEnds
         \/ StackFull \/ Eof \/ ControlC \/ ControlCSlips \/ SwallowLine
         \/ AsmLine \/ AsmEnds \/ RunFails \/ Progress \/ RunReturns \/ UNCHANGED vars
  PROVE  FrontType' /\ DebugStep /\ RunsInCommand'
<1>1. /\ argv \in Seq(Args) /\ opt \in OptType /\ loads \in LoadsType
      /\ console \in BOOLEAN /\ status \in {-1, 0, 1, 2, 128, 139, 255}
      /\ repl \in ReplType /\ Len(repl.stack) <= Depth /\ Len(repl.stack) \in Nat
  BY LenProperties DEF FrontType, ReplType
<1>2. Shaped(repl, repl)
  BY <1>1 DEF Shaped, FrontType
<1>3. \A q \in Phases \ {"running"} :
        q = "ended" \/ ~repl.pushed => Shaped(repl, [repl EXCEPT !.phase = q])
  <2> SUFFICES ASSUME NEW q \in Phases, q # "running", q = "ended" \/ ~repl.pushed
               PROVE  Shaped(repl, [repl EXCEPT !.phase = q])
    OBVIOUS
  <2> DEFINE p == [repl EXCEPT !.phase = q]
  <2>1. p \in ReplType /\ p.stack = repl.stack /\ p.phase = q /\ p.pushed = repl.pushed
    BY <1>1 DEF ReplType
  <2> HIDE DEF p
  <2>2. Shaped(repl, p)
    BY <1>1, <2>1 DEF Shaped, RunLine
  <2> QED
    BY <2>2 DEF p
<1>4. {"prompt", "ended", "batch"} \subseteq Phases \ {"running"}
  BY DEF Phases
<1>5. ASSUME Shaped(repl, repl'), UNCHANGED <<argv, opt>>, loads' \in LoadsType,
             console' \in BOOLEAN, status' \in {-1, 0, 1, 2, 128, 139, 255}
      PROVE  FrontType'
  BY <1>1, <1>5, ShapedType
<1>6. ASSUME run = Idle, UNCHANGED debuggerVars, loads'.next = loads.next
      PROVE  DebugStep /\ RunsInCommand'
  BY <1>6 DEF debuggerVars, DebugStep, Stays, RestSame, RunsInCommand, Idle
<1>7. repl.phase \notin {"running", "batch"} => run = Idle
  BY DEF RunsInCommand
<1>8. CASE Flag
  <2>1. Head(argv) \in Args /\ argv' \in Seq(Args)
    BY <1>1, <1>8, HeadTailProperties DEF Flag
  <2>2. Head(argv) \in {"mapped_io", "ast_only", "write_only"}
    BY <1>1, <1>8 DEF Flag, OptType
  <2>3. opt' \in OptType
    <3>1. opt' = [opt EXCEPT ![Head(argv)] = TRUE]
      BY <1>8 DEF Flag
    <3> DEFINE h == Head(argv)
    <3> HIDE DEF h
    <3>2. h \in {"mapped_io", "ast_only", "write_only"} /\ opt' = [opt EXCEPT ![h] = TRUE]
      BY <2>2, <3>1 DEF h
    <3> QED
      BY <1>1, <3>2 DEF OptType
  <2>4. FrontType'
    BY <1>1, <1>8, <2>1, <2>3 DEF Flag, FrontType
  <2> QED
    BY <1>6, <1>7, <1>8, <2>4 DEF Flag, debuggerVars
<1>9. CASE FileArg
  <2> DEFINE f == Head(argv)
  <2>1. f \in DOMAIN File /\ repl.phase = "args" /\ argv # <<>>
        /\ UNCHANGED <<PC, run, asked, lost, opt, console>>
    BY <1>9 DEF FileArg
  <2>2. argv' \in Seq(Args)
    BY <1>1, <1>9, HeadTailProperties, EmptySeq DEF FileArg
  <2>3. Shaped(repl, repl') /\ status' \in {-1, 0, 1, 2, 128, 139, 255}
    BY <1>1, <1>2, <1>3, <1>4, <1>9 DEF FileArg, End
  <2>4. CASE File[f].opens
    <3> DEFINE rs == loads.refs \cup File[f].refs
               ds == loads.defs \cup File[f].defs
               nx == loads.next + Len(File[f].code)
               er == File[f].errs
    <3>1. loads' = [loads EXCEPT !.attempted = TRUE, !.loaded = TRUE, !.errs = er,
                                 !.refs = rs, !.defs = ds, !.next = nx,
                                 !.tree = File[f].code, !.boot = FALSE]
      BY <1>9, <2>4 DEF FileArg
    <3>2. er \in Nat /\ rs \in SUBSET Symbols /\ ds \in SUBSET Symbols /\ nx \in Nat
          /\ File[f].code \in Seq(Kinds)
      BY <1>1, <2>1, LoadsTyped
    <3>3. dbg' = [dbg EXCEPT !.text = Placed(File[f].code)]
      BY <1>9, <2>4 DEF FileArg
    <3> HIDE DEF rs, ds, er
    <3>4. loads' \in LoadsType /\ loads'.next = nx
      <4> HIDE DEF nx
      <4> QED
        BY <1>1, <3>1, <3>2 DEF LoadsType
    <3>5. DebugStep
      BY <2>1, <3>2, <3>3, <3>4 DEF DebugStep, Assembles
    <3>6. FrontType'
      <4> HIDE DEF nx, f
      <4> QED
        BY <1>1, <2>1, <2>2, <2>3, <3>4, ShapedType
    <3> QED
      BY <1>7, <2>1, <3>5, <3>6 DEF RunsInCommand, Idle
  <2>5. CASE ~File[f].opens
    <3>1. loads' = [loads EXCEPT !.attempted = TRUE] /\ UNCHANGED dbg
      BY <1>9, <2>5 DEF FileArg
    <3>2. loads' \in LoadsType /\ loads'.next = loads.next
      BY <1>1, <3>1 DEF LoadsType
    <3>3. FrontType'
      BY <1>1, <2>1, <2>2, <2>3, <3>2, ShapedType
    <3> QED
      BY <1>6, <1>7, <2>1, <3>1, <3>2, <3>3 DEF debuggerVars
  <2> QED
    BY <2>4, <2>5
<1>10. CASE Dispatch
  <2>1. UNCHANGED <<argv, opt, loads>> /\ run = Idle
    BY <1>7, <1>10 DEF Dispatch, mainVars
  <2>2. Shaped(repl, repl') /\ status' \in {-1, 0, 1, 2, 128, 139, 255}
    <3>1. /\ \E q \in {"prompt", "ended", "batch"} : repl' = [repl EXCEPT !.phase = q]
          /\ status' \in {status, 0, 1, 2}
      BY <1>10 DEF Dispatch, End
    <3>2. ~repl.pushed
      BY <1>10 DEF Dispatch, FrontType, RunLine
    <3> QED
      BY <1>1, <1>3, <1>4, <3>1, <3>2
  <2>3. \/ UNCHANGED <<debuggerVars, console>>
        \/ /\ repl' = [repl EXCEPT !.phase = "batch"] /\ console' = opt.mapped_io
           /\ run_program(Entry, RunSteps, FALSE, FALSE)
    BY <1>10 DEF Dispatch
  <2>4. FrontType'
    <3>1. console' \in BOOLEAN
      BY <1>1, <2>3 DEF OptType
    <3> QED
      BY <1>1, <1>5, <2>1, <2>2, <3>1
  <2>5. CASE UNCHANGED <<debuggerVars, console>>
    BY <1>6, <2>1, <2>4, <2>5
  <2>6. CASE /\ repl' = [repl EXCEPT !.phase = "batch"] /\ console' = opt.mapped_io
             /\ run_program(Entry, RunSteps, FALSE, FALSE)
    <3>1. Entry \in (Starts \cup {PC}) \ {0} /\ RunSteps \in 1..RunSteps
      BY DebuggerAssumption DEF Text
    <3>2. DebugStep
      BY <2>1, <2>6, <3>1 DEF DebugStep, Begins, Idle
    <3>3. run'.phase # "idle" /\ repl'.phase = "batch"
      BY <1>1, <2>6 DEF run_program, ReplType
    <3> QED
      BY <2>4, <3>2, <3>3 DEF RunsInCommand
  <2> QED
    BY <2>3, <2>5, <2>6
<1>11. CASE BatchEnds
  <2>1. /\ run = Idle /\ UNCHANGED debuggerVars /\ UNCHANGED <<argv, opt, loads>>
        /\ repl' = [repl EXCEPT !.phase = "ended"] /\ console' = FALSE /\ status' \in {0, 128}
    BY <1>11 DEF BatchEnds, End, mainVars
  <2> QED
    BY <1>1, <1>3, <1>4, <1>5, <1>6, <2>1
<1>12. CASE StackFull
  <2>1. /\ run = Idle /\ UNCHANGED debuggerVars /\ UNCHANGED <<argv, opt, loads, console>>
        /\ repl' = [repl EXCEPT !.phase = "ended"] /\ status' = 255
    BY <1>7, <1>12 DEF StackFull, End, mainVars
  <2> QED
    BY <1>1, <1>3, <1>4, <1>5, <1>6, <2>1
<1>13. CASE Eof
  <2> DEFINE x == [repl.line EXCEPT !.cmd = "eof"]
  <2>1. /\ run = Idle /\ UNCHANGED debuggerVars /\ UNCHANGED <<argv, opt, loads>>
        /\ repl' = [repl EXCEPT !.phase = "ended", !.line = x]
        /\ status' = 0 /\ console' = FALSE
    BY <1>7, <1>13 DEF Eof, mainVars
  <2>2. x \in LineType
    BY <1>1 DEF ReplType, LineType
  <2> HIDE DEF x
  <2>3. Shaped(repl, repl')
    <3>1. repl' \in ReplType /\ repl'.stack = repl.stack /\ repl'.phase = "ended"
      BY <1>1, <2>1, <2>2 DEF ReplType, Phases
    <3> QED
      BY <1>1, <3>1 DEF Shaped, RunLine
  <2> QED
    BY <1>1, <1>5, <1>6, <2>1, <2>3
<1>14. Shaped(repl, Unwind) /\ Unwind.phase = "prompt"
  BY <1>1, LeaveType, LeaveAgainType DEF Shaped, Unwind, RunLine
<1>15. ASSUME Running, Abort, repl' \in {repl, Unwind}, console' = FALSE,
              UNCHANGED <<argv, opt, loads, status>>
       PROVE  FrontType' /\ DebugStep /\ RunsInCommand'
  <2>1. FrontType'
    BY <1>1, <1>2, <1>5, <1>14, <1>15
  <2>2. DebugStep
    BY <1>15 DEF DebugStep, Aborts
  <2> QED
    BY <1>15, <2>1, <2>2 DEF Abort, RunsInCommand, Idle
<1>16. CASE ControlC
  <2>1. /\ repl' = Unwind /\ console' = FALSE /\ UNCHANGED <<argv, opt, loads, status>>
        /\ IF Running THEN control_c ELSE UNCHANGED debuggerVars
    BY <1>16 DEF ControlC, mainVars
  <2>2. CASE Running
    BY <1>15, <2>1, <2>2 DEF control_c
  <2>3. CASE ~Running
    <3>1. run = Idle
      BY <2>3 DEF Running, RunType, RunsInCommand
    <3> QED
      BY <1>1, <1>5, <1>6, <1>14, <2>1, <2>3, <3>1
  <2> QED
    BY <2>2, <2>3
<1>17. CASE ControlCSlips
  <2> DEFINE p == Push(repl, "line")
  <2>1. p \in ReplType /\ Len(p.stack) = Len(repl.stack) + 1 /\ p.phase = "prompt"
        /\ ~p.pushed
    <3>1. ~repl.pushed
      BY <1>17 DEF ControlCSlips, FrontType, RunLine
    <3> QED
      BY <1>1, <1>17, <3>1, PushType DEF Sources, Push, ControlCSlips, ReplType
  <2>2. /\ Len(repl.stack) < Depth /\ run = Idle /\ repl' = [p EXCEPT !.slips = p.slips + 1]
        /\ UNCHANGED <<debuggerVars, argv, opt, loads, console, status>>
    BY <1>7, <1>17 DEF ControlCSlips, mainVars
  <2>3. Depth \in Nat
    BY SessionAssumption
  <2> HIDE DEF p
  <2>4. repl' \in ReplType /\ repl'.stack = p.stack /\ repl'.phase = p.phase
        /\ repl'.pushed = p.pushed
    <3> DEFINE n == p.slips + 1
    <3>1. p \in ReplType /\ n \in Nat /\ repl' = [p EXCEPT !.slips = n]
      BY <2>1, <2>2 DEF ReplType
    <3> HIDE DEF n
    <3> QED
      BY <3>1 DEF ReplType
  <2>5. Len(repl'.stack) <= Depth
    BY <1>1, <2>1, <2>2, <2>3, <2>4
  <2>6. FrontType'
    BY <1>1, <2>1, <2>2, <2>4, <2>5 DEF FrontType, RunLine
  <2> QED
    BY <1>6, <2>2, <2>6
<1>18. CASE SwallowLine
  <2>1. "args" \in Commands
    BY DEF Commands
  <2>2. Shaped(repl, Returns(repl, "args"))
    BY <1>1, <2>1, ReturnsShaped
  <2>3. /\ run = Idle /\ repl' = Returns(repl, "args")
        /\ UNCHANGED <<debuggerVars, argv, opt, loads, console, status>>
    BY <1>7, <1>18 DEF SwallowLine, Only, mainVars
  <2> QED
    BY <1>1, <1>5, <1>6, <2>2, <2>3
<1>19. CASE RunFails
  BY <1>15, <1>19 DEF RunFails, RunError, mainVars
<1>20. CASE Progress
  <2> DEFINE b == loads.bad \/ (repl.phase = "batch" /\ run.left > 0 /\ Fetched = "fault")
  <2>1. /\ RunOn \/ Hit \/ ExitCall \/ StepsDone
        /\ loads' = [loads EXCEPT !.bad = b]
        /\ repl.phase \in {"running", "batch"}
        /\ UNCHANGED <<argv, opt, repl, console, status>>
    BY <1>20 DEF Progress
  <2>2. b \in BOOLEAN
    BY <1>1 DEF LoadsType
  <2> HIDE DEF b
  <2>3. loads' \in LoadsType /\ loads'.next = loads.next
    BY <1>1, <2>1, <2>2 DEF LoadsType
  <2>4. FrontType'
    BY <1>1, <1>2, <1>5, <2>1, <2>3
  <2>5. DebugStep
    BY <2>1, <2>3 DEF DebugStep, Goes
  <2>6. run'.phase = "idle" => run' = Idle
    BY <2>1 DEF RunOn, Hit, ExitCall, StepsDone, AfterOver, Running, RunType
  <2> QED
    BY <2>1, <2>4, <2>5, <2>6 DEF RunsInCommand
<1>21. CASE RunReturns
  <2>1. /\ run = Idle /\ repl' = Returns(repl, repl.line.cmd) /\ console' = FALSE
        /\ UNCHANGED <<debuggerVars, argv, opt, loads, status>>
    BY <1>21 DEF RunReturns, mainVars
  <2>2. repl.line.cmd \in Commands
    BY <1>21 DEF RunReturns, FrontType, RunLine, Commands
  <2>3. Shaped(repl, repl')
    BY <1>1, <2>1, <2>2, ReturnsShaped
  <2> QED
    BY <1>1, <1>5, <1>6, <2>1, <2>3
<1>22. CASE UNCHANGED vars
  <2>1. FrontType'
    BY <1>1, <1>2, <1>5, <1>22 DEF vars
  <2> QED
    BY <1>22, <2>1 DEF vars, DebugStep, Stays, RestSame, RunsInCommand
<1>23. CASE AsmLine
  <2>1. PICK c \in AsmLines : loads' = [loads EXCEPT !.tree = loads.tree \o c]
    BY <1>23 DEF AsmLine
  <2> DEFINE tr == loads.tree \o c
  <2>2. tr \in Seq(Kinds) /\ loads' = [loads EXCEPT !.tree = tr]
    BY <1>1, <2>1, JoinedTyped
  <2> HIDE DEF tr
  <2>3. loads' \in LoadsType /\ loads'.next = loads.next
    BY <1>1, <2>2 DEF LoadsType
  <2>4. /\ run = Idle /\ repl' = repl
        /\ UNCHANGED <<debuggerVars, argv, opt, console, status>>
    BY <1>7, <1>23 DEF AsmLine
  <2> QED
    BY <1>1, <1>2, <1>5, <1>6, <2>3, <2>4
<1>24. CASE AsmEnds
  <2>1. "asm" \in Commands /\ loads.tree \in Seq(Kinds)
    BY <1>1 DEF Commands, LoadsType
  <2>2. Shaped(repl, Returns(repl, "asm")) /\ Shaped(repl, Unwind)
    BY <1>1, <1>14, <2>1, ReturnsShaped
  <2>3. /\ run = Idle /\ assemble(loads.tree)
        /\ repl' = IF Overruns(loads.tree) THEN Unwind ELSE Returns(repl, "asm")
    BY <1>7, <1>24 DEF AsmEnds
  <2>4. loads' \in LoadsType /\ DebugStep
    BY <1>1, <2>1, <2>3, AssembleStep
  <2>5. UNCHANGED <<run, argv, opt, console, status>>
    BY <2>3 DEF assemble
  <2>6. FrontType'
    BY <1>1, <1>5, <2>2, <2>3, <2>4, <2>5
  <2> QED
    BY <2>3, <2>4, <2>5, <2>6 DEF RunsInCommand, Idle
<1> QED
  BY <1>8, <1>9, <1>10, <1>11, <1>12, <1>13, <1>16, <1>17, <1>18, <1>19, <1>20, <1>21, <1>22,
     <1>23, <1>24

-----------------------------------------------------------------------------
(* The debugger.                                                           *)

\* The inductive invariant of the debugger.
DebugInv ==
  /\ Sound(dbg, loads.next) /\ run \in RunType /\ PC \in 0..(Size + 1)
  /\ Running => PC # 0
  /\ run.phase = "over" => /\ run.from \in Text /\ run.left > 0
                           /\ run.left = run.goal /\ run.count = 0
  /\ StepsExact
  /\ asked \subseteq Text /\ lost \subseteq Text
  /\ \A a \in asked : a < loads.next
  /\ BreakpointKept

\* What a step of the program may do when no breakpoint is to be passed.
StopStep ==
  run.phase = "main" /\ run'.count = run.count + 1 => PC \notin asked \ lost

MachineStep == [Undebugged!Next]_<<Unplanted, PC>>

\* A file assembled behind the program leaves it sound, and as it was.
LEMMA AssembleSound ==
  ASSUME loads.next \in Nat, Sound(dbg, loads.next), NEW c \in Seq(Kinds),
         NEW e, e = [dbg EXCEPT !.text = Placed(c)], NEW n \in Nat,
         \A a \in Text : (a < n) <=> (a < loads.next + Len(c))
  PROVE  /\ Sound(e, n) /\ Recorded(e) = Recorded(dbg)
         /\ \A a \in Text : a < loads.next => a < n
         /\ \A a \in Text : Plain(dbg)[a] # NoInst => Plain(e)[a] = Plain(dbg)[a]
<1> DEFINE t == Placed(c)
           m == loads.next
<1>0. dbg \in DbgType /\ NoInst \notin Kinds /\ BREAK \notin Kinds /\ NoInst # BREAK
      /\ Size \in Nat /\ Len(c) \in Nat
  BY DebuggerAssumption, LenProperties DEF Sound
<1>1. ASSUME NEW a \in Text
      PROVE  t[a] = IF a - m \in 0..(Len(c) - 1) THEN c[a - m + 1] ELSE dbg.text[a]
  BY DEF Placed
<1>2. ASSUME NEW a \in Text, a - m \in 0..(Len(c) - 1)
      PROVE  c[a - m + 1] \in Kinds /\ m <= a /\ a < m + Len(c)
  <2>1. a - m + 1 \in 1..Len(c) /\ m <= a /\ a < m + Len(c)
    BY <1>0, <1>2 DEF Text
  <2> QED
    BY <2>1, ElementOfSeq
<1>3. ASSUME NEW a \in Text
      PROVE  /\ a < m => t[a] = dbg.text[a]
             /\ m <= a /\ a < m + Len(c) => t[a] \in Kinds
             /\ m + Len(c) <= a => t[a] = dbg.text[a]
             /\ t[a] \in Kinds \cup {NoInst, BREAK}
  <2>1. dbg.text[a] \in Kinds \cup {NoInst, BREAK}
    BY <1>0 DEF DbgType
  <2>2. m <= a /\ a < m + Len(c) => a - m \in 0..(Len(c) - 1)
    BY <1>0 DEF Text
  <2>3. a \in Nat /\ m \in Nat
    BY <1>0 DEF Text
  <2> HIDE DEF t
  <2> QED
    BY <1>0, <1>1, <1>2, <2>1, <2>2, <2>3
<1>4. t \in [Text -> Kinds \cup {NoInst, BREAK}]
  BY <1>3 DEF Placed
<1> HIDE DEF t
<1>5. e = [dbg EXCEPT !.text = t]
  BY DEF t
<1>6. e \in DbgType /\ e.text = t /\ e.bkpts = dbg.bkpts
  BY <1>0, <1>4, <1>5 DEF DbgType
<1>7. Recorded(e) = Recorded(dbg)
  BY <1>6 DEF Recorded
<1>8. \A a \in Text : a < m => a < n
  BY <1>0 DEF Text
<1>9. Sound(e, n)
  <2>1. \A b \in e.bkpts : b.addr < n
    BY <1>0, <1>6, <1>8 DEF Sound, DbgType
  <2>2. ASSUME NEW a \in Text
        PROVE  IF a < n THEN /\ e.text[a] # NoInst
                             /\ (e.text[a] = BREAK) <=> (a \in Recorded(e))
               ELSE e.text[a] \in {NoInst, BREAK}
    <3>1. a \in Nat /\ m \in Nat /\ (a \in Recorded(dbg) => a < m)
      BY <1>0 DEF Text, Sound, Recorded
    <3>2. CASE a < m
      BY <3>2, <1>3, <1>6, <1>7, <1>8 DEF Sound
    <3>3. CASE m <= a /\ a < m + Len(c)
      BY <3>1, <3>3, <1>0, <1>3, <1>6, <1>7
    <3>4. CASE m + Len(c) <= a
      <4>1. ~(a < n) /\ ~(a < m)
        BY <3>1, <3>4, <1>0
      <4> QED
        BY <3>4, <4>1, <1>3, <1>6 DEF Sound
    <3> QED
      BY <1>0, <3>1, <3>2, <3>3, <3>4
  <2>3. \A b, d \in e.bkpts : b.addr = d.addr => b = d
    BY <1>6 DEF Sound
  <2> QED
    BY <1>6, <2>1, <2>2, <2>3 DEF Sound
<1>10. ASSUME NEW a \in Text, Plain(dbg)[a] # NoInst PROVE Plain(e)[a] = Plain(dbg)[a]
  <2>1. Saved(e, a) = Saved(dbg, a)
    BY <1>6 DEF Saved
  <2>2. CASE a \in Recorded(dbg)
    BY <1>7, <2>1, <2>2, PlainAt
  <2>3. CASE a \notin Recorded(dbg)
    <3>1. a < m
      BY <1>10, <2>3, PlainAt DEF Sound
    <3>2. e.text[a] = dbg.text[a]
      BY <3>1, <1>3, <1>6
    <3> QED
      BY <1>7, <2>3, <3>2, PlainAt
  <2> QED
    BY <2>2, <2>3
<1> QED
  BY <1>7, <1>8, <1>9, <1>10

\* The text after an instruction has run: as it was, but for the breakpoint that
\* is added again after it was stepped over.
LEMMA GoesText ==
  ASSUME loads.next \in Nat, DebugInv, RunOn \/ Hit \/ ExitCall \/ StepsDone
  PROVE  \/ run.phase # "over" /\ UNCHANGED dbg
         \/ run.phase = "over" /\ dbg' = add_breakpoint(dbg, run.from)
<1>1. CASE RunOn
  <2> DEFINE after == IF Fetched = "loop" THEN Entry ELSE PC + 1
             show  == run.display /\ PC \in Text
             shown == IF show THEN format_an_inst(dbg, after) ELSE dbg
  <2>1. /\ show => ~PrintHangs(dbg, after)
        /\ IF run.phase = "over" THEN AfterOver(shown)
           ELSE dbg' = shown /\ run' = [run EXCEPT !.left = @ - 1, !.count = @ + 1]
    BY <1>1 DEF RunOn
  <2>2. shown = dbg
    BY <2>1, FormatSame DEF DebugInv
  <2> HIDE DEF shown, show, after
  <2> QED
    BY <2>1, <2>2 DEF AfterOver
<1>2. CASE Hit
  BY <1>2 DEF Hit, AfterOver
<1>3. CASE ExitCall
  BY <1>3 DEF ExitCall, AfterOver
<1>4. CASE StepsDone
  <2>1. run.phase # "over"
    BY <1>4 DEF StepsDone, DebugInv
  <2> QED
    BY <1>4, <2>1 DEF StepsDone
<1> QED
  BY <1>1, <1>2, <1>3, <1>4

\* How it counts, and where it leaves the program counter.
LEMMA GoesRun ==
  ASSUME loads.next \in Nat, DebugInv, RunOn \/ Hit \/ ExitCall \/ StepsDone
  PROVE  /\ run' \in RunType /\ PC' \in 0..(Size + 1) /\ PC' # 0 /\ Running
         /\ UNCHANGED <<asked, lost>>
         /\ run'.phase # "over" /\ StepsExact'
         /\ run'.phase = "main" => run'.from = run.from
         /\ \/ run' = Idle /\ UNCHANGED PC
            \/ run' = [run EXCEPT !.phase = "main", !.left = run.left - 1,
                                  !.count = run.count + 1]
         /\ RunOn \/ UNCHANGED PC
<1>1. /\ run \in RunType /\ PC \in 0..(Size + 1) /\ (Running => PC # 0)
      /\ run.phase = "over" => run.from \in Text /\ run.left = run.goal /\ run.count = 0
      /\ run.phase = "main" => run.count + run.left = run.goal
      /\ Size \in Nat /\ RunSteps \in Nat \ {0} /\ Handler \in 1..Size /\ Entry \in 1..Size
  BY DebuggerAssumption DEF DebugInv, StepsExact, Text
<1>2. Idle \in RunType /\ Idle.phase = "idle"
  BY <1>1 DEF Idle, RunType
<1>3. Running /\ UNCHANGED <<asked, lost>>
  BY DEF RunOn, Hit, ExitCall, StepsDone
<1> DEFINE next == [run EXCEPT !.phase = "main", !.left = run.left - 1,
                               !.count = run.count + 1]
<1>4. ASSUME run.left > 0
      PROVE  /\ next \in RunType /\ next.phase = "main" /\ next.from = run.from
             /\ next.count + next.left = next.goal
  <2>1. run.left - 1 \in 0..RunSteps /\ run.count + 1 \in Nat
    BY <1>1, <1>4 DEF RunType
  <2>2. run.count + run.left = run.goal /\ run.left \in Int /\ run.count \in Int
    BY <1>1, <1>3 DEF Running, RunType
  <2>3. /\ next \in RunType /\ next.phase = "main" /\ next.from = run.from
        /\ next.goal = run.goal
    BY <1>1, <2>1 DEF RunType
  <2>4. next.count = run.count + 1 /\ next.left = run.left - 1
    BY <1>1 DEF RunType
  <2>5. (run.count + 1) + (run.left - 1) = run.count + run.left
    BY <2>2
  <2> HIDE DEF next
  <2> QED
    BY <2>2, <2>3, <2>4, <2>5
<1>5. (run' = Idle /\ UNCHANGED PC) \/ (run.left > 0 /\ run' = next)
  <2>1. CASE run.phase = "over"
    <3>1. run.count + 1 = 1
      BY <1>1, <2>1
    <3>2. [run EXCEPT !.phase = "main", !.left = run.left - 1, !.count = 1] = next
      BY <3>1
    <3> HIDE DEF next
    <3>3. CASE RunOn
      BY <2>1, <3>2, <3>3 DEF RunOn, AfterOver
    <3>4. CASE Hit
      BY <2>1, <3>2, <3>4 DEF Hit, AfterOver
    <3>5. CASE ExitCall
      BY <2>1, <3>2, <3>5 DEF ExitCall, AfterOver
    <3> QED
      BY <3>3, <3>4, <3>5 DEF StepsDone
  <2>2. CASE run.phase = "main"
    <3>1. [run EXCEPT !.left = run.left - 1, !.count = run.count + 1] = next
      BY <1>1, <2>2 DEF RunType
    <3> HIDE DEF next
    <3>2. CASE RunOn
      BY <2>2, <3>1, <3>2 DEF RunOn
    <3>3. CASE Hit
      BY <2>2, <3>3 DEF Hit
    <3>4. CASE ExitCall
      BY <2>2, <3>4 DEF ExitCall
    <3> QED
      BY <3>2, <3>3, <3>4 DEF StepsDone
  <2> QED
    BY <1>3, <2>1, <2>2 DEF Running
<1>6. PC' \in 0..(Size + 1) /\ PC' # 0
  <2>1. CASE UNCHANGED PC
    BY <1>1, <1>3, <2>1
  <2>2. CASE RunOn
    <3>1. \/ PC \in Text /\ PC' \in {Entry, PC + 1, Handler}
          \/ PC \notin Text /\ PC' = Handler
      BY <2>2 DEF RunOn, Fetched
    <3> QED
      BY <1>1, <3>1 DEF Text
  <2> QED
    BY <2>1, <2>2 DEF Hit, ExitCall, StepsDone
<1> HIDE DEF next
<1>7. run' \in RunType /\ run'.phase # "over"
      /\ (run'.phase = "main" => run'.from = run.from /\ run'.count + run'.left = run'.goal)
  BY <1>2, <1>4, <1>5
<1>8. RunOn \/ UNCHANGED PC
  BY DEF Hit, ExitCall, StepsDone
<1> QED
  BY <1>3, <1>5, <1>6, <1>7, <1>8 DEF StepsExact, next

\* An instruction runs as in a machine without a debugger.
LEMMA GoesOn ==
  ASSUME loads.next \in Nat, DebugInv, RunOn
  PROVE  /\ PC' \in IF PC \in Text THEN Undebugged!Successors(Plain(dbg)[PC], PC)
                    ELSE {Handler}
         /\ PC \in Text => dbg.text[PC] # BREAK
<1>0. dbg \in DbgType /\ NoInst \notin Kinds /\ BREAK \notin Kinds /\ NoInst # BREAK
  BY DebuggerAssumption DEF DebugInv, Sound
<1>1. CASE PC \in Text
  <2>1. Fetched = dbg.text[PC] /\ Fetched \in {"seq", "loop", "fault"}
    BY <1>1 DEF RunOn, Fetched
  <2>2. dbg.text[PC] \in Kinds
    BY <2>1 DEF Kinds
  <2>3. PC \notin Recorded(dbg)
    BY <1>0, <1>1, <2>2 DEF DebugInv, Sound
  <2>4. Plain(dbg)[PC] = dbg.text[PC]
    BY <1>0, <1>1, <2>2, <2>3, PlainAt
  <2>5. PC' \in Undebugged!Successors(Fetched, PC)
    BY <1>1, <2>1 DEF RunOn, Undebugged!Successors
  <2> QED
    BY <1>0, <1>1, <2>1, <2>2, <2>4, <2>5
<1>2. CASE PC \notin Text
  BY <1>2 DEF RunOn, Fetched
<1> QED
  BY <1>1, <1>2

\* The text that initialize_world leaves.
LEMMA BootSound ==
  ASSUME NEW d, d = [text |-> BootText, data |-> 1, bkpts |-> {}]
  PROVE  Sound(d, Len(Boot) + 1) /\ Plain(d) = BootText /\ Len(Boot) + 1 \in Nat
<1>1. /\ NoInst # BREAK /\ NoInst \notin Kinds /\ BREAK \notin Kinds /\ Size \in Nat
      /\ Boot \in Seq(Kinds) /\ Len(Boot) \in Nat
  BY DebuggerAssumption, LenProperties
<1>2. ASSUME NEW a \in Text
      PROVE  IF a <= Len(Boot) THEN BootText[a] \in Kinds ELSE BootText[a] = NoInst
  <2>1. BootText[a] = IF a <= Len(Boot) THEN Boot[a] ELSE NoInst
    BY DEF BootText
  <2>2. a <= Len(Boot) => a \in 1..Len(Boot)
    BY <1>1 DEF Text
  <2> QED
    BY <1>1, <2>1, <2>2, ElementOfSeq
<1>3. BootText \in [Text -> Kinds \cup {NoInst, BREAK}]
  BY <1>2 DEF BootText
<1>4. d \in DbgType /\ d.text = BootText /\ d.bkpts = {} /\ Recorded(d) = {}
  BY <1>3 DEF DbgType, Recorded
<1>5. \A a \in Text : (a < Len(Boot) + 1) <=> (a <= Len(Boot))
  BY <1>1 DEF Text
<1>6. Sound(d, Len(Boot) + 1)
  BY <1>1, <1>2, <1>4, <1>5 DEF Sound
<1>7. \A a \in Text : Plain(d)[a] = BootText[a]
  BY <1>1, <1>2, <1>4, PlainAt
<1>8. Plain(d) = BootText
  BY <1>7 DEF Plain, BootText
<1> QED
  BY <1>1, <1>6, <1>8

\* Every step keeps the invariant of the debugger, passes no breakpoint and is a
\* step, or a stutter, of the machine without a debugger.
LEMMA DebugStepKeeps ==
  ASSUME loads.next \in Nat, loads'.next \in Nat, DebugInv, DebugStep
  PROVE  DebugInv' /\ StopStep /\ MachineStep
<1>1. /\ Sound(dbg, loads.next) /\ run \in RunType /\ PC \in 0..(Size + 1)
      /\ asked \subseteq Text /\ lost \subseteq Text
      /\ asked \subseteq Recorded(dbg) \cup lost
                         \cup (IF run.phase = "over" THEN {run.from} ELSE {})
      /\ dbg \in DbgType /\ NoInst # BREAK /\ NoInst \notin Kinds /\ BREAK \notin Kinds
      /\ Size \in Nat
  BY DebuggerAssumption DEF DebugInv, Sound, BreakpointKept
<1>2. run.count + 1 # run.count /\ run.count + 1 # 0
  BY <1>1 DEF RunType
\* The steps that leave run and PC alone.
<1>3. ASSUME UNCHANGED <<PC, run>>, Sound(dbg', loads'.next),
             asked' \subseteq Text, lost' \subseteq Text, \A a \in asked' : a < loads'.next,
             asked' \subseteq Recorded(dbg') \cup lost'
                              \cup (IF run.phase = "over" THEN {run.from} ELSE {})
      PROVE  DebugInv' /\ StopStep
  <2>1. DebugInv'
    BY <1>3 DEF DebugInv, BreakpointKept, StepsExact, Running
  <2> QED
    BY <1>2, <1>3, <2>1 DEF StopStep
<1>4. ASSUME UNCHANGED PC, Plain(dbg') = Plain(dbg) PROVE MachineStep
  BY <1>4 DEF MachineStep, Unplanted
<1>5. CASE Stays
  <2>1. UNCHANGED <<dbg, PC, run, asked, lost>> /\ loads'.next = loads.next
    BY <1>5 DEF Stays, RestSame
  <2>2. DebugInv' /\ StopStep
    BY <1>1, <1>3, <2>1 DEF DebugInv
  <2> QED
    BY <1>4, <2>1, <2>2
<1>6. CASE Prints
  <2>1. UNCHANGED <<dbg, PC, run, asked, lost>> /\ loads'.next = loads.next
    BY <1>1, <1>6, FormatSame DEF Prints, RestSame
  <2>2. DebugInv' /\ StopStep
    BY <1>1, <1>3, <2>1 DEF DebugInv
  <2> QED
    BY <1>4, <2>1, <2>2
<1>7. CASE Assembles
  <2>1. PICK c \in Seq(Kinds) :
          /\ dbg' = [dbg EXCEPT !.text = Placed(c)]
          /\ \A a \in Text : (a < loads'.next) <=> (a < loads.next + Len(c))
    BY <1>7 DEF Assembles
  <2>2. /\ Sound(dbg', loads'.next) /\ Recorded(dbg') = Recorded(dbg)
        /\ \A a \in Text : a < loads.next => a < loads'.next
        /\ \A a \in Text : Plain(dbg)[a] # NoInst => Plain(dbg')[a] = Plain(dbg)[a]
    BY <1>1, <2>1, AssembleSound
  <2>3. UNCHANGED <<PC, run, asked, lost>>
    BY <1>7 DEF Assembles
  <2>4. \A a \in asked' : a < loads'.next
    BY <1>1, <2>2, <2>3 DEF DebugInv
  <2>5. DebugInv' /\ StopStep
    BY <1>1, <1>3, <2>2, <2>3, <2>4
  <2>6. MachineStep
    BY <2>2, <2>3 DEF MachineStep, Undebugged!Next, Undebugged!Load, Unplanted,
                      Undebugged!Text, Text
  <2> QED
    BY <2>5, <2>6
<1>8. CASE Plants
  <2>1. PICK a : /\ dbg' = add_breakpoint(dbg, a)
                 /\ asked' = IF a \in Recorded(dbg') THEN asked \cup {a} ELSE asked
                 /\ lost' = lost \ {a}
                 /\ UNCHANGED <<PC, run>> /\ loads'.next = loads.next
    BY <1>8 DEF Plants
  <2>2. /\ Sound(dbg', loads'.next) /\ Plain(dbg') = Plain(dbg)
        /\ Recorded(dbg') = Recorded(dbg) \cup
             (IF a \in Text /\ a < loads.next THEN {a} ELSE {})
    BY <1>1, <2>1, AddSound
  <2>3. Recorded(dbg') \subseteq Text /\ \A x \in Recorded(dbg') : x < loads.next
    BY <2>1, <2>2 DEF Sound, DbgType, Recorded
  <2>4. \A x \in asked : x \in Text /\ x < loads.next
    BY DEF DebugInv
  <2>5. /\ asked' \subseteq Text /\ lost' \subseteq Text
        /\ \A x \in asked' : x < loads'.next
    BY <1>1, <2>1, <2>3, <2>4
  <2>6. asked' \subseteq Recorded(dbg') \cup lost'
                         \cup (IF run.phase = "over" THEN {run.from} ELSE {})
    BY <1>1, <2>1, <2>2, <2>4
  <2>7. DebugInv' /\ StopStep
    BY <1>3, <2>1, <2>2, <2>5, <2>6
  <2> QED
    BY <1>4, <2>1, <2>2, <2>7
<1>9. CASE Lifts
  <2>1. PICK a : /\ dbg' = delete_breakpoint(dbg, a)
                 /\ asked' = asked \ {a} /\ lost' = lost \ {a}
                 /\ UNCHANGED <<PC, run>> /\ loads'.next = loads.next
    BY <1>9 DEF Lifts
  <2>2. /\ Sound(dbg', loads'.next) /\ Plain(dbg') = Plain(dbg)
        /\ Recorded(dbg') = Recorded(dbg) \ {a}
    BY <1>1, <2>1, DeleteSound
  <2>3. /\ asked' \subseteq Text /\ lost' \subseteq Text
        /\ \A x \in asked' : x < loads'.next
    BY <1>1, <2>1 DEF DebugInv
  <2>4. asked' \subseteq Recorded(dbg') \cup lost'
                         \cup (IF run.phase = "over" THEN {run.from} ELSE {})
    BY <1>1, <2>1, <2>2
  <2>5. DebugInv' /\ StopStep
    BY <1>3, <2>1, <2>2, <2>3, <2>4
  <2> QED
    BY <1>4, <2>1, <2>2, <2>5
<1>10. CASE Begins
  <2>1. PICK pc \in (Starts \cup {PC}) \ {0}, n \in 1..RunSteps,
             show \in BOOLEAN, cont \in BOOLEAN : run_program(pc, n, show, cont)
    BY <1>10 DEF Begins
  <2> DEFINE over == cont /\ pc \in Text /\ dbg.text[pc] = BREAK
  <2>2. /\ run' = [phase |-> IF over THEN "over" ELSE "main", left |-> n,
                   from |-> pc, display |-> show, count |-> 0, goal |-> n]
        /\ PC' = pc /\ dbg' = IF over THEN delete_breakpoint(dbg, pc) ELSE dbg
        /\ UNCHANGED <<asked, lost>> /\ loads'.next = loads.next /\ run.phase = "idle"
    BY <1>10, <2>1 DEF run_program, Begins
  <2>3. pc \in 0..(Size + 1) /\ pc # 0 /\ n \in 0..RunSteps /\ n \in Nat /\ 0 + n = n
    BY <1>1, <2>1, DebuggerAssumption DEF Text
  <2>4. run' \in RunType
    BY <2>2, <2>3 DEF RunType
  <2>5. /\ Sound(dbg', loads'.next) /\ Plain(dbg') = Plain(dbg)
        /\ Recorded(dbg') = IF over THEN Recorded(dbg) \ {pc} ELSE Recorded(dbg)
    <3> HIDE DEF over
    <3> QED
      BY <1>1, <2>2, DeleteSound
  <2>6. /\ run'.phase = (IF over THEN "over" ELSE "main") /\ run'.left = n
        /\ run'.from = pc /\ run'.count = 0 /\ run'.goal = n
    BY <2>2
  <2>7. over => pc \in Text
    OBVIOUS
  <2>8. BreakpointKept'
    <3> HIDE DEF over
    <3> QED
      BY <1>1, <2>2, <2>5, <2>6 DEF BreakpointKept
  <2>9. DebugInv'
    <3> HIDE DEF over
    <3>1. StepsExact'
      BY <2>3, <2>6 DEF StepsExact
    <3>2. run'.phase = "over" => /\ run'.from \in Text /\ run'.left > 0
                                 /\ run'.left = run'.goal /\ run'.count = 0
      BY <2>1, <2>6, <2>7
    <3>3. asked' \subseteq Text /\ lost' \subseteq Text /\ \A a \in asked' : a < loads'.next
      BY <2>2 DEF DebugInv
    <3>4. PC' \in 0..(Size + 1) /\ PC' # 0
      BY <2>2, <2>3
    <3> QED
      BY <2>4, <2>5, <2>8, <3>1, <3>2, <3>3, <3>4 DEF DebugInv
  <2>10. StopStep
    BY <2>2 DEF StopStep
  <2>11. MachineStep
    <3>1. CASE pc \in Starts
      BY <2>2, <2>5, <3>1 DEF MachineStep, Undebugged!Next, Undebugged!Start, Unplanted
    <3>2. CASE pc = PC
      BY <1>4, <2>2, <2>5, <3>2
    <3> QED
      BY <3>1, <3>2
  <2> QED
    BY <2>9, <2>10, <2>11
<1>11. CASE Reboots
  <2>1. /\ dbg' = [text |-> BootText, data |-> 1, bkpts |-> {}]
        /\ PC' = 0 /\ asked' = {} /\ lost' = {} /\ loads'.next = Len(Boot) + 1
        /\ run.phase = "idle" /\ UNCHANGED run
    BY <1>11 DEF Reboots, initialize_world
  <2>2. Sound(dbg', loads'.next) /\ Plain(dbg') = BootText
    BY <2>1, BootSound
  <2>3. DebugInv'
    BY <1>1, <2>1, <2>2 DEF DebugInv, Running, StepsExact, BreakpointKept
  <2>4. StopStep
    BY <2>1 DEF StopStep
  <2>5. MachineStep
    BY <2>1, <2>2 DEF MachineStep, Undebugged!Next, Undebugged!Reset, Unplanted,
                      Undebugged!BootText, BootText, Text, Undebugged!Text
  <2> QED
    BY <2>3, <2>4, <2>5
<1>12. CASE Aborts
  <2>1. /\ run' = Idle /\ UNCHANGED <<dbg, PC, asked>> /\ loads'.next = loads.next
        /\ lost' = IF run.phase = "over" THEN lost \cup {run.from} ELSE lost
        /\ run.phase # "idle"
    BY <1>12 DEF Aborts, Abort, Running
  <2>2. Idle \in RunType /\ Idle.phase = "idle" /\ Idle.count = 0
    BY <1>1, DebuggerAssumption DEF Idle, RunType
  <2>3. lost' \subseteq Text
    BY <1>1, <2>1 DEF DebugInv
  <2>4. DebugInv'
    BY <1>1, <2>1, <2>2, <2>3 DEF DebugInv, Running, StepsExact, BreakpointKept
  <2>5. StopStep
    BY <1>2, <2>1, <2>2 DEF StopStep
  <2> QED
    BY <1>4, <2>1, <2>4, <2>5
<1>13. CASE Goes
  <2>1. (RunOn \/ Hit \/ ExitCall \/ StepsDone) /\ loads'.next = loads.next
    BY <1>13 DEF Goes
  <2>2. /\ run' \in RunType /\ PC' \in 0..(Size + 1) /\ PC' # 0 /\ Running
        /\ UNCHANGED <<asked, lost>>
        /\ run'.phase # "over" /\ StepsExact'
        /\ \/ run' = Idle /\ UNCHANGED PC
           \/ run' = [run EXCEPT !.phase = "main", !.left = run.left - 1,
                                 !.count = run.count + 1]
        /\ RunOn \/ UNCHANGED PC
    BY <2>1, GoesRun
  <2>3. \/ run.phase # "over" /\ UNCHANGED dbg
        \/ run.phase = "over" /\ dbg' = add_breakpoint(dbg, run.from)
    BY <2>1, GoesText
  <2>4. run.phase = "over" => run.from \in Text
    BY DEF DebugInv
  <2>5. /\ Sound(dbg', loads'.next) /\ Plain(dbg') = Plain(dbg)
        /\ Recorded(dbg') = Recorded(dbg) \cup
             (IF run.phase = "over" /\ run.from < loads.next THEN {run.from} ELSE {})
    BY <1>1, <2>1, <2>3, <2>4, AddSound
  <2>6. \A a \in asked : a < loads.next
    BY DEF DebugInv
  <2>7. BreakpointKept'
    BY <1>1, <2>2, <2>5, <2>6 DEF BreakpointKept
  <2>8. DebugInv'
    BY <1>1, <2>1, <2>2, <2>5, <2>6, <2>7 DEF DebugInv
  <2>9. CASE UNCHANGED PC /\ ~RunOn
    <3>1. StopStep
      <4>1. SUFFICES ASSUME run.phase = "main", run'.count = run.count + 1
                     PROVE  FALSE
        BY DEF StopStep
      <4>2. run' = Idle
        BY <2>1, <2>9, <4>1 DEF Hit, ExitCall, StepsDone
      <4> QED
        BY <1>2, <4>1, <4>2 DEF Idle
    <3> QED
      BY <1>4, <2>5, <2>8, <2>9, <3>1
  <2>10. CASE RunOn
    <3>1. /\ PC' \in IF PC \in Text THEN Undebugged!Successors(Plain(dbg)[PC], PC)
                     ELSE {Handler}
          /\ PC \in Text => dbg.text[PC] # BREAK
      BY <2>10, GoesOn
    <3>2. PC # 0
      BY <2>2 DEF DebugInv
    <3>3. MachineStep
      BY <2>5, <3>1, <3>2 DEF MachineStep, Undebugged!Next, Undebugged!Execute, Unplanted,
                              Undebugged!Text, Text
    <3>4. run.phase = "main" => PC \notin asked \ lost
      <4>1. \A a \in Recorded(dbg) : a \in Text /\ dbg.text[a] = BREAK
        BY <1>1 DEF Sound, DbgType, Recorded
      <4> QED
        BY <1>1, <3>1, <4>1
    <3> QED
      BY <2>8, <3>3, <3>4 DEF StopStep
  <2> QED
    BY <2>2, <2>9, <2>10
<1> QED
  BY <1>5, <1>6, <1>7, <1>8, <1>9, <1>10, <1>11, <1>12, <1>13 DEF DebugStep

-----------------------------------------------------------------------------
(* The session.                                                            *)

\* The inductive invariant of a session: types, where the program may run, and
\* what holds of the debugger.
SessionInv == FrontType /\ RunsInCommand /\ DebugInv

LEMMA SessionInit == Init => SessionInv
<1> SUFFICES ASSUME Init PROVE SessionInv
  OBVIOUS
<1>1. argv \in Seq(Args) /\ Depth \in Nat
  BY SessionAssumption DEF Init, Args
<1>2. Len(Boot) + 1 \in Nat /\ Sound(dbg, Len(Boot) + 1)
  BY BootSound DEF Init
<1>3. opt \in OptType
  BY DEF Init, OptType
<1>4. loads \in LoadsType /\ loads.next = Len(Boot) + 1
  BY <1>2, SessionAssumption DEF Init, LoadsType
<1>5. repl \in ReplType /\ repl.stack = <<>> /\ RunLine(repl)
  <2>1. /\ "args" \in Phases /\ "stdin" \in Sources /\ "nop" \in Commands
        /\ "none" \in Operands /\ <<>> \in Seq(Sources) /\ 0 \in 0..RunSteps
    BY DebuggerAssumption, EmptySeq DEF Phases, Sources, Commands, Operands
  <2>2. repl = [phase |-> "args", cur |-> "stdin", stack |-> <<>>,
                pushed |-> FALSE, line |-> NoLine, redo |-> FALSE,
                prev_cmd |-> "nop", prev_token |-> "none", addr |-> 0,
                loc |-> 0, start |-> 0, steps |-> 0, slips |-> 0]
    BY DEF Init
  <2> QED
    BY <2>1, <2>2, NoLineType DEF ReplType, RunLine
<1>6. FrontType
  <2>1. Len(repl.stack) = 0
    BY <1>5, EmptySeq
  <2>2. Len(repl.stack) <= Depth
    BY <1>1, <2>1
  <2>3. console \in BOOLEAN /\ status \in {-1, 0, 1, 2, 128, 139, 255}
    BY DEF Init
  <2> QED
    BY <1>1, <1>3, <1>4, <1>5, <2>2, <2>3 DEF FrontType
<1>7. run = Idle /\ Idle \in RunType /\ Idle.phase = "idle"
  BY DebuggerAssumption DEF Init, Idle, RunType
<1>8. PC = 0 /\ asked = {} /\ lost = {} /\ 0 \in 0..(Size + 1)
  BY DebuggerAssumption DEF Init
<1>9. DebugInv
  BY <1>2, <1>4, <1>7, <1>8 DEF DebugInv, Running, StepsExact, BreakpointKept
<1> QED
  BY <1>6, <1>7, <1>9 DEF SessionInv, RunsInCommand

LEMMA SessionStep ==
  SessionInv /\ [Next]_vars => SessionInv' /\ StopStep /\ MachineStep /\ DebugStep
<1> SUFFICES ASSUME SessionInv, [Next]_vars
             PROVE  SessionInv' /\ StopStep /\ MachineStep /\ DebugStep
  OBVIOUS
<1>1. FrontType /\ RunsInCommand /\ DebugInv /\ run \in RunType /\ PC \in 0..(Size + 1)
  BY DEF SessionInv, DebugInv
<1>2. FrontType' /\ DebugStep /\ RunsInCommand'
  <2>1. CASE parse_spim_command
    <3>1. PICK l \in (IF repl.redo THEN {NoLine} ELSE Lines) :
            LET r == Entered(l) IN
              \/ EXIT_CMD(r) \/ READ_CMD(r) \/ RUN_CMD(r) \/ CONTINUE_CMD(r)
              \/ STEP_CMD(r) \/ PRINT_CMD(r) \/ BKPT_CMD(r) \/ REINITIALIZE_CMD(r)
              \/ ASM_CMD(r) \/ ARGS_CMD(r) \/ REDO_CMD(r) \/ SHOW_CMD(r) \/ UNKNOWN_CMD(r)
      BY <2>1 DEF parse_spim_command
    <3>2. Typed(l) /\ repl.phase = "prompt" /\ (repl.redo \/ Len(repl.stack) < Depth)
      BY <2>1, <3>1 DEF Typed, parse_spim_command
    <3>3. CommandDone(Entered(l))
      BY <1>1, <3>1, <3>2, CommandStep
    <3> QED
      BY <3>3 DEF CommandDone
  <2>2. CASE ~parse_spim_command
    BY <1>1, <2>2, OtherStep DEF Next, Ended
  <2> QED
    BY <2>1, <2>2
<1>3. loads.next \in Nat /\ loads'.next \in Nat
  BY <1>1, <1>2 DEF FrontType, LoadsType
<1> QED
  BY <1>1, <1>2, <1>3, DebugStepKeeps DEF SessionInv

\* The invariant holds in every session, whatever is typed, loaded and run.
THEOREM SessionInvariant == Spec => []SessionInv
<1>1. SessionInv /\ [Next]_vars => SessionInv'
  BY SessionStep
<1> QED
  BY <1>1, SessionInit, PTL DEF Spec

\* Breakpoints are never lost, misplaced or left in the text without a record
\* where the program is: add_breakpoint, delete_breakpoint, format_an_inst,
\* run_program's step over, and every way out of it.
THEOREM BreakpointsSafe == Spec => []BreakpointsIntact
<1>1. SessionInv => BreakpointsIntact
  <2> SUFFICES ASSUME SessionInv PROVE BreakpointsIntact
    OBVIOUS
  <2>1. Sound(dbg, loads.next) /\ dbg \in DbgType /\ BreakpointKept /\ run \in RunType
        /\ PC \in 0..(Size + 1) /\ asked \subseteq Text /\ lost \subseteq Text
    BY DEF SessionInv, DebugInv, Sound
  <2>2. TypeOK
    BY <2>1 DEF SessionInv, FrontType, ReplType, Sources, TypeOK, DbgType, RunType, Recorded
  <2>3. BreaksRecorded
    BY <2>1 DEF Sound, DbgType, BreaksRecorded
  <2> QED
    BY <2>1, <2>2, <2>3 DEF BreakpointsIntact
<1> QED
  BY <1>1, SessionInvariant, PTL

\* `step N' executes exactly N instructions, from a breakpoint or not.
THEOREM StepsCounted == Spec => []StepsExact
<1>1. SessionInv => StepsExact
  BY DEF SessionInv, DebugInv
<1> QED
  BY <1>1, SessionInvariant, PTL

\* No run passes a breakpoint that was asked for and not lost.
THEOREM BreakpointsStop == Spec => StopsAtBreakpoint
<1>1. SessionInv /\ [Next]_vars =>
        [run.phase = "main" /\ run'.count = run.count + 1
           => PC \notin asked \ lost]_debuggerVars
  BY SessionStep DEF StopStep
<1> QED
  BY <1>1, SessionInvariant, PTL DEF Spec, StopsAtBreakpoint

\* The debugger is invisible: a session, seen without its breakpoints, is an
\* execution of the machine that has no debugger.
THEOREM DebuggerInvisible == Spec => Transparent
<1>1. Init => Undebugged!Init
  BY BootSound DEF Init, Undebugged!Init, Unplanted, Undebugged!BootText, BootText,
                   Undebugged!Text, Text
<1>2. SessionInv /\ [Next]_vars => [Undebugged!Next]_<<Unplanted, PC>>
  BY SessionStep DEF MachineStep
<1> QED
  BY <1>1, <1>2, SessionInvariant, PTL DEF Spec, Transparent, Undebugged!Spec

-----------------------------------------------------------------------------
(* The exit status of a batch run.                                         *)

\* What main knows when it decides, and when its run is over.
StatusInv ==
  /\ loads.attempted => repl.phase \in {"args", "batch", "ended"}
  /\ loads.loaded => loads.attempted
  /\ repl.phase = "args" => ~loads.bad
  /\ repl.phase = "batch" => /\ loads.attempted /\ loads.errs = 0
                             /\ loads.refs \subseteq loads.defs
  /\ StatusTells

LEMMA CommandKeeps ==
  ASSUME SessionInv, parse_spim_command
  PROVE  /\ repl.phase = "prompt" /\ repl'.phase \in TopPhases /\ MainKept
         /\ \E l : Typed(l) /\ Commanded(Entered(l), repl')
<1>1. FrontType /\ RunsInCommand /\ PC \in 0..(Size + 1)
  BY DEF SessionInv, DebugInv
<1>2. PICK l \in (IF repl.redo THEN {NoLine} ELSE Lines) :
        LET r == Entered(l) IN
          \/ EXIT_CMD(r) \/ READ_CMD(r) \/ RUN_CMD(r) \/ CONTINUE_CMD(r)
          \/ STEP_CMD(r) \/ PRINT_CMD(r) \/ BKPT_CMD(r) \/ REINITIALIZE_CMD(r)
          \/ ASM_CMD(r) \/ ARGS_CMD(r) \/ REDO_CMD(r) \/ SHOW_CMD(r) \/ UNKNOWN_CMD(r)
  BY DEF parse_spim_command
<1>3. Typed(l) /\ repl.phase = "prompt" /\ (repl.redo \/ Len(repl.stack) < Depth)
  BY <1>2 DEF Typed, parse_spim_command
<1>4. CommandDone(Entered(l))
  BY <1>1, <1>2, <1>3, CommandStep
<1> QED
  BY <1>3, <1>4 DEF CommandDone, Commanded

LEMMA StatusStep == SessionInv /\ StatusInv /\ [Next]_vars => StatusInv'
<1> SUFFICES ASSUME SessionInv, StatusInv, [Next]_vars PROVE StatusInv'
  OBVIOUS
<1>1. repl \in ReplType /\ loads \in LoadsType /\ repl' \in ReplType
  BY SessionStep DEF SessionInv, FrontType
\* Once top_level has been entered no file was tried by main.
<1>2. ASSUME repl'.phase \in TopPhases, ~loads'.attempted, ~loads'.loaded
      PROVE  StatusInv'
  BY <1>2 DEF StatusInv, StatusTells, TopPhases
<1>3. ASSUME repl.phase \in TopPhases \ {"ended"}, repl'.phase \in TopPhases,
             loads'.attempted = loads.attempted, loads'.loaded = loads.loaded
      PROVE  StatusInv'
  BY <1>2, <1>3 DEF StatusInv, TopPhases
<1>4. \A q : [repl EXCEPT !.phase = q].phase = q
  BY <1>1 DEF ReplType
<1>5. CASE parse_spim_command
  <2>1. repl.phase = "prompt" /\ repl'.phase \in TopPhases /\ MainKept
    BY <1>5, CommandKeeps
  <2> QED
    BY <1>3, <2>1 DEF MainKept, TopPhases
<1>6. CASE Flag
  <2>1. UNCHANGED <<loads, repl, status>> /\ repl.phase = "args"
    BY <1>6 DEF Flag
  <2> QED
    BY <2>1 DEF StatusInv, StatusTells
<1>7. CASE FileArg
  <2>1. loads'.attempted /\ loads'.bad = loads.bad /\ repl.phase = "args"
    BY <1>1, <1>7 DEF FileArg, LoadsType
  <2>2. (repl' = repl) \/ (repl'.phase = "ended" /\ status' = 139)
    BY <1>4, <1>7 DEF FileArg, End
  <2> QED
    BY <2>1, <2>2 DEF StatusInv, StatusTells
<1>8. CASE Dispatch
  <2>1. UNCHANGED <<loads, opt>> /\ repl.phase = "args"
    BY <1>8 DEF Dispatch, mainVars
  <2>2. \/ ~loads.attempted /\ ~loads.loaded /\ repl'.phase = "prompt"
        \/ loads.attempted /\ repl'.phase = "ended" /\ status' \in {1, 2}
        \/ /\ loads.attempted /\ loads.errs = 0 /\ (opt.ast_only \/ opt.write_only)
           /\ repl'.phase = "ended"
        \/ /\ loads.attempted /\ loads.errs = 0 /\ loads.refs \subseteq loads.defs
           /\ repl'.phase = "batch"
    <3>1. loads.loaded => loads.attempted
      BY DEF StatusInv
    <3>2. loads.errs \in Nat
      BY <1>1 DEF LoadsType
    <3> QED
      BY <1>4, <1>8, <3>1, <3>2 DEF Dispatch, End
  <2> QED
    BY <2>1, <2>2 DEF StatusInv, StatusTells
<1>9. CASE BatchEnds
  <2>1. /\ UNCHANGED <<loads, opt>> /\ repl.phase = "batch" /\ repl'.phase = "ended"
        /\ status' = IF loads.bad THEN 128 ELSE 0
    BY <1>4, <1>9 DEF BatchEnds, End, mainVars
  <2> QED
    BY <2>1 DEF StatusInv, StatusTells
<1>10. Unwind.phase = "prompt"
  BY <1>1, LeaveAgainType DEF Unwind
<1>11. CASE StackFull \/ Eof \/ ControlC \/ ControlCSlips \/ SwallowLine \/ RunReturns
  <2>1. UNCHANGED loads /\ repl.phase \in TopPhases \ {"ended"}
    BY <1>11 DEF StackFull, Eof, ControlC, ControlCSlips, SwallowLine, RunReturns, Only,
                 mainVars, TopPhases
  <2>2. repl'.phase \in TopPhases
    <3>1. CASE StackFull
      BY <1>4, <3>1 DEF StackFull, End, TopPhases
    <3>2. CASE Eof
      BY <1>1, <3>2 DEF Eof, TopPhases, ReplType
    <3>3. CASE ControlC
      BY <1>10, <3>3 DEF ControlC, TopPhases
    <3>4. CASE ControlCSlips
      BY <1>1, <3>4 DEF ControlCSlips, Push, TopPhases, ReplType
    <3>5. CASE SwallowLine
      <4>1. "args" \in Commands
        BY DEF Commands
      <4> QED
        BY <1>1, <3>5, <4>1, ReturnsType DEF SwallowLine, Only, TopPhases
    <3>6. CASE RunReturns
      <4>1. repl.line.cmd \in Commands
        BY <3>6 DEF RunReturns, SessionInv, FrontType, RunLine, Commands
      <4> QED
        BY <1>1, <3>6, <4>1, ReturnsType DEF RunReturns, TopPhases
    <3> QED
      BY <1>11, <3>1, <3>2, <3>3, <3>4, <3>5, <3>6
  <2> QED
    BY <1>3, <2>1, <2>2
<1>12. CASE RunFails
  <2>1. UNCHANGED <<loads, opt, status>> /\ repl.phase \in {"running", "batch"}
    BY <1>12 DEF RunFails, RunError, Running, mainVars, SessionInv, RunsInCommand
  <2>2. IF repl.phase = "batch" THEN UNCHANGED repl ELSE repl'.phase = "prompt"
    BY <1>10, <1>12 DEF RunFails
  <2>3. CASE repl.phase = "batch"
    BY <2>1, <2>2, <2>3 DEF StatusInv, StatusTells
  <2>4. CASE repl.phase = "running"
    BY <1>3, <2>1, <2>2, <2>4 DEF TopPhases
  <2> QED
    BY <2>1, <2>3, <2>4
<1>13. CASE Progress
  <2>1. /\ UNCHANGED <<repl, status, opt>> /\ repl.phase \in {"running", "batch"}
        /\ loads'.attempted = loads.attempted /\ loads'.loaded = loads.loaded
        /\ loads'.errs = loads.errs /\ loads'.refs = loads.refs /\ loads'.defs = loads.defs
    BY <1>1, <1>13 DEF Progress, LoadsType
  <2> QED
    BY <2>1 DEF StatusInv, StatusTells
<1>14. CASE UNCHANGED vars
  BY <1>14 DEF vars, StatusInv, StatusTells
<1>15. CASE AsmLine
  <2>1. /\ UNCHANGED repl /\ repl.phase = "asm_stdin"
        /\ loads'.attempted = loads.attempted /\ loads'.loaded = loads.loaded
    BY <1>1, <1>15 DEF AsmLine, LoadsType
  <2> QED
    BY <1>3, <2>1 DEF TopPhases
<1>16. CASE AsmEnds
  <2>1. repl.phase = "asm_stdin" /\ assemble(loads.tree) /\ loads.tree \in Seq(Kinds)
    BY <1>1, <1>16 DEF AsmEnds, LoadsType
  <2>2. loads'.attempted = loads.attempted /\ loads'.loaded = loads.loaded
    BY <1>1, <2>1, AssembleStep
  <2>3. repl'.phase = "prompt"
    <3>1. "asm" \in Commands
      BY DEF Commands
    <3> QED
      BY <1>1, <1>10, <1>16, <3>1, ReturnsType DEF AsmEnds
  <2> QED
    BY <1>3, <2>1, <2>2, <2>3 DEF TopPhases
<1> QED
  BY <1>5, <1>6, <1>7, <1>8, <1>9, <1>11, <1>12, <1>13, <1>14, <1>15, <1>16 DEF Next, Ended

\* Exit status 0 of a batch run says what it seems to say, for every command
\* line and all files (main, first_bad_exception, parse_errors_seen).
THEOREM StatusHonest == Spec => []StatusTells
<1>1. Init => StatusInv
  BY DEF Init, StatusInv, StatusTells
<1>2. StatusInv => StatusTells
  BY DEF StatusInv
<1> QED
  BY <1>1, <1>2, StatusStep, SessionInvariant, PTL DEF Spec

-----------------------------------------------------------------------------
(* The prompt.                                                             *)

\* What holds of the command loop when every line has its operands.
LoopInv ==
  /\ repl.phase # "ended" => Good(repl)
  /\ ConsoleReturned /\ EndsOnRequest

\* A new line is pushed over sources that may be there.
LEMMA EnteredGood ==
  ASSUME FrontType, repl.phase = "prompt", repl.redo \/ Len(repl.stack) < Depth,
         Good(repl), NEW l, Typed(l)
  PROVE  Good(Entered(l))
<1>1. CASE repl.redo
  BY <1>1, EnteredType
<1>2. CASE ~repl.redo
  <2> DEFINE r == Entered(l)
  <2>1. /\ r \in ReplType /\ r.pushed = TRUE /\ r.slips = repl.slips /\ r.cur = "line"
        /\ r.stack = Append(repl.stack, repl.cur) /\ r.prev_cmd = repl.prev_cmd
        /\ r.prev_token = repl.prev_token /\ Len(r.stack) = Len(repl.stack) + 1
    BY <1>2, EnteredType
  <2> HIDE DEF r
  <2>2. /\ ~repl.pushed /\ repl.slips \in Nat /\ Len(repl.stack) \in Nat
        /\ repl.stack \in Seq(Sources) /\ repl.cur \in Sources
    BY LenProperties DEF FrontType, RunLine, ReplType
  <2>3. /\ \A i \in 1..Len(repl.stack) : repl.stack[i] \in Left(repl.slips)
        /\ Len(repl.stack) <= repl.slips /\ repl.cur \in Left(repl.slips)
    BY <2>2 DEF Good, Held
  <2>4. ASSUME NEW i \in 1..Len(r.stack) PROVE r.stack[i] \in Left(r.slips)
    <3>1. r.stack[i] = IF i <= Len(repl.stack) THEN repl.stack[i] ELSE repl.cur
      BY <2>1, <2>2, AppendProperties
    <3> QED
      BY <2>1, <2>2, <2>3, <3>1
  <2>5. Len(r.stack) <= r.slips + 1 /\ r.stack # <<>>
    <3>1. Len(<<>>) = 0
      BY EmptySeq
    <3>2. Len(r.stack) # 0 /\ Len(r.stack) <= r.slips + 1
      BY <2>1, <2>2, <2>3
    <3> QED
      BY <3>1, <3>2
  <2>6. Good(r)
    BY <2>1, <2>4, <2>5 DEF Good, Held
  <2> QED
    BY <2>6 DEF r
<1> QED
  BY <1>1, <1>2

LEMMA LoopStep ==
  ASSUME FullOperands
  PROVE  SessionInv /\ StatusInv /\ LoopInv /\ [Next]_vars => LoopInv'
<1> SUFFICES ASSUME SessionInv, StatusInv, LoopInv, [Next]_vars PROVE LoopInv'
  OBVIOUS
<1>1. /\ FrontType /\ repl \in ReplType /\ loads \in LoadsType /\ repl' \in ReplType
      /\ loads' \in LoadsType /\ Len(repl.stack) \in Nat /\ Len(repl.stack) <= Depth
      /\ repl.slips \in Nat /\ Depth \in Nat
  BY SessionStep, SessionAssumption, LenProperties DEF SessionInv, FrontType, ReplType
<1>2. \A q : [repl EXCEPT !.phase = q].phase = q
  BY <1>1 DEF ReplType
<1>3. ASSUME repl.phase # "ended", NEW q \in Phases \ {"ended"}
      PROVE  Good([repl EXCEPT !.phase = q])
  <2> DEFINE p == [repl EXCEPT !.phase = q]
  <2>1. /\ p \in ReplType /\ p.stack = repl.stack /\ p.pushed = repl.pushed
        /\ p.slips = repl.slips /\ p.cur = repl.cur /\ p.prev_cmd = repl.prev_cmd
        /\ p.prev_token = repl.prev_token
    BY <1>1 DEF ReplType
  <2> HIDE DEF p
  <2>2. Good(p)
    BY <1>3, <2>1, GoodSame DEF LoopInv, Good
  <2> QED
    BY <2>2 DEF p
<1>4. ASSUME repl'.phase # "ended", Good(repl'), ~console' PROVE LoopInv'
  BY <1>4 DEF LoopInv, ConsoleReturned, EndsOnRequest
<1>5. ASSUME repl'.phase = "ended", loads'.attempted, ~console' PROVE LoopInv'
  BY <1>5 DEF LoopInv, ConsoleReturned, EndsOnRequest
<1>6. console => repl.phase \in {"running", "batch"}
  BY DEF LoopInv, ConsoleReturned
<1>7. CASE parse_spim_command
  <2>1. PICK l : Typed(l) /\ Commanded(Entered(l), repl')
    BY <1>7, CommandKeeps
  <2>2. repl.phase = "prompt" /\ MainKept /\ (repl.redo \/ Len(repl.stack) < Depth)
    BY <1>7, CommandKeeps DEF parse_spim_command
  <2>3. Good(Entered(l))
    BY <1>1, <2>1, <2>2, EnteredGood DEF LoopInv
  <2>4. /\ repl'.phase # "ended" => Good(repl')
        /\ repl'.phase = "ended" => repl'.line.cmd = "exit"
    BY <2>1, <2>3 DEF Commanded
  <2>5. console' => repl'.phase = "running"
    BY <1>6, <2>2 DEF MainKept
  <2> QED
    BY <2>4, <2>5 DEF LoopInv, ConsoleReturned, EndsOnRequest
<1>8. CASE Flag
  BY <1>8 DEF Flag, LoopInv, ConsoleReturned, EndsOnRequest
<1>9. CASE FileArg
  <2>1. loads'.attempted /\ repl.phase = "args" /\ UNCHANGED console
    BY <1>1, <1>9 DEF FileArg, LoadsType
  <2>2. UNCHANGED repl \/ repl'.phase = "ended"
    BY <1>2, <1>9 DEF FileArg, End
  <2> QED
    BY <1>4, <1>5, <1>6, <2>1, <2>2 DEF LoopInv
<1>10. CASE Dispatch
  <2>1. /\ repl.phase = "args" /\ UNCHANGED loads /\ (loads.loaded => loads.attempted)
        /\ ~console
    BY <1>6, <1>10 DEF Dispatch, mainVars, StatusInv
  <2>2. \/ repl' = [repl EXCEPT !.phase = "prompt"] /\ UNCHANGED console
        \/ repl' = [repl EXCEPT !.phase = "ended"] /\ loads.attempted /\ UNCHANGED console
        \/ repl' = [repl EXCEPT !.phase = "batch"]
    BY <1>10, <2>1 DEF Dispatch, End
  <2>3. Good([repl EXCEPT !.phase = "prompt"]) /\ Good([repl EXCEPT !.phase = "batch"])
    BY <1>3, <2>1 DEF Phases
  <2>4. CASE repl' = [repl EXCEPT !.phase = "prompt"] /\ UNCHANGED console
    BY <1>2, <1>4, <2>1, <2>3, <2>4
  <2>5. CASE repl' = [repl EXCEPT !.phase = "ended"] /\ loads.attempted /\ UNCHANGED console
    BY <1>2, <1>5, <2>1, <2>5
  <2>6. CASE repl' = [repl EXCEPT !.phase = "batch"]
    BY <1>2, <2>3, <2>6 DEF LoopInv, ConsoleReturned, EndsOnRequest
  <2> QED
    BY <2>2, <2>4, <2>5, <2>6
<1>11. CASE BatchEnds
  <2>1. loads'.attempted /\ repl'.phase = "ended" /\ ~console'
    BY <1>2, <1>11 DEF BatchEnds, End, mainVars, StatusInv
  <2> QED
    BY <1>5, <2>1
<1>12. CASE StackFull
  <2>1. /\ repl.phase = "prompt" /\ Len(repl.stack) = Depth /\ UNCHANGED console
        /\ repl' = [repl EXCEPT !.phase = "ended"]
    BY <1>12 DEF StackFull, End
  <2>2. repl'.slips = repl.slips /\ repl'.phase = "ended"
    BY <1>1, <2>1 DEF ReplType
  <2>3. ~repl.pushed
    BY <1>1, <2>1 DEF FrontType, RunLine
  <2>4. Len(repl.stack) <= repl.slips + 0
    BY <2>1, <2>3 DEF LoopInv, Good, Held
  <2>5. repl'.slips >= Depth
    BY <1>1, <2>1, <2>2, <2>4
  <2> QED
    BY <1>6, <2>1, <2>2, <2>5 DEF LoopInv, ConsoleReturned, EndsOnRequest
<1>13. CASE Eof
  <2> DEFINE x == [repl.line EXCEPT !.cmd = "eof"]
  <2>1. repl' = [repl EXCEPT !.phase = "ended", !.line = x] /\ ~console'
    BY <1>13 DEF Eof
  <2>2. x.cmd = "eof"
    BY <1>1 DEF ReplType, LineType
  <2> HIDE DEF x
  <2>3. repl'.phase = "ended" /\ repl'.line = x
    BY <1>1, <2>1 DEF ReplType
  <2> QED
    BY <2>1, <2>2, <2>3 DEF LoopInv, ConsoleReturned, EndsOnRequest
<1>14. ASSUME repl.phase # "ended" PROVE Unwind.phase = "prompt" /\ Good(Unwind)
  <2>1. Good(repl)
    BY <1>14 DEF LoopInv
  <2>2. /\ Unwind \in ReplType /\ Unwind.phase = "prompt" /\ Unwind.pushed = FALSE
        /\ Unwind.slips = repl.slips /\ Unwind.stack = Leave(repl).stack
        /\ Unwind.cur = Leave(repl).cur
        /\ Unwind.prev_cmd = repl.prev_cmd /\ Unwind.prev_token = repl.prev_token
    BY <1>1, LeaveAgainType DEF Unwind
  <2>3. Unwind.prev_cmd # "exit" /\ Unwind.prev_token # "str"
    BY <2>1, <2>2 DEF Good
  <2> QED
    BY <2>1, <2>2, <2>3, LeaveGood
<1>15. CASE ControlC
  BY <1>4, <1>14, <1>15 DEF ControlC
<1>16. CASE ControlCSlips
  <2> DEFINE p == Push(repl, "line")
  <2>1. /\ repl.phase = "prompt" /\ repl' = [p EXCEPT !.slips = p.slips + 1]
        /\ UNCHANGED console
    BY <1>16 DEF ControlCSlips
  <2>2. /\ ~repl.pushed /\ repl.stack \in Seq(Sources) /\ repl.cur \in Sources
    BY <1>1, <2>1 DEF FrontType, RunLine, ReplType
  <2>3. /\ p \in ReplType /\ p.stack = Append(repl.stack, repl.cur) /\ p.cur = "line"
        /\ Len(p.stack) = Len(repl.stack) + 1
    BY <1>1, PushType DEF Sources
  <2>4. /\ p.slips = repl.slips /\ p.phase = repl.phase /\ p.pushed = repl.pushed
        /\ p.prev_cmd = repl.prev_cmd /\ p.prev_token = repl.prev_token
    BY <1>1 DEF Push, ReplType
  <2> HIDE DEF p
  <2>5. /\ repl'.slips = repl.slips + 1 /\ repl'.phase = "prompt" /\ repl'.pushed = FALSE
        /\ repl'.prev_cmd = repl.prev_cmd /\ repl'.prev_token = repl.prev_token
        /\ repl'.stack = p.stack /\ repl'.cur = "line"
    BY <1>1, <2>1, <2>2, <2>3, <2>4 DEF ReplType
  <2>6. Good(repl)
    BY <2>1 DEF LoopInv
  <2>7. Len(repl.stack) <= repl.slips + 0
    BY <2>2, <2>6 DEF Good, Held
  <2>8. Len(repl'.stack) <= repl'.slips + 0
    BY <1>1, <2>3, <2>5, <2>7
  <2>9. Left(repl.slips) \subseteq Left(repl'.slips) /\ "line" \in Left(repl'.slips)
    BY <1>1, <2>5 DEF Left
  <2>10. ASSUME NEW i \in 1..Len(repl'.stack) PROVE repl'.stack[i] \in Left(repl'.slips)
    <3>1. p.stack[i] = IF i <= Len(repl.stack) THEN repl.stack[i] ELSE repl.cur
      BY <2>2, <2>3, <2>5, AppendProperties
    <3>2. p.stack[i] \in Left(repl.slips)
      BY <1>1, <2>2, <2>3, <2>5, <2>6, <3>1 DEF Good, Held
    <3> QED
      BY <2>5, <2>9, <3>2
  <2>11. Good(repl')
    BY <1>1, <2>5, <2>6, <2>8, <2>9, <2>10 DEF Good, Held
  <2> QED
    BY <1>4, <1>6, <2>1, <2>5, <2>11
<1>17. ASSUME repl.phase # "ended", NEW c \in Commands, c # "exit"
       PROVE  Returns(repl, c).phase = "prompt" /\ Good(Returns(repl, c))
  <2>1. Good(repl)
    BY <1>17 DEF LoopInv
  <2> DEFINE q == Returns(repl, c)
  <2>2. /\ q \in ReplType /\ q.phase = "prompt" /\ q.pushed = FALSE
        /\ q.slips = repl.slips /\ q.stack = Leave(repl).stack /\ q.cur = Leave(repl).cur
        /\ q.prev_cmd = c /\ q.prev_token = repl.prev_token
    BY <1>1, ReturnsType
  <2> HIDE DEF q
  <2>3. q.prev_cmd # "exit" /\ q.prev_token # "str"
    BY <1>17, <2>1, <2>2 DEF Good
  <2>4. q.phase = "prompt" /\ Good(q)
    BY <2>1, <2>2, <2>3, LeaveGood
  <2> QED
    BY <2>4 DEF q
<1>18. CASE SwallowLine
  <2>1. "args" \in Commands
    BY DEF Commands
  <2> QED
    BY <1>4, <1>6, <1>17, <1>18, <2>1 DEF SwallowLine, Only
<1>19. CASE RunReturns
  <2>1. repl.line.cmd \in Commands /\ repl.line.cmd # "exit"
    BY <1>1, <1>19 DEF RunReturns, FrontType, RunLine, Commands
  <2> QED
    BY <1>4, <1>17, <1>19, <2>1 DEF RunReturns
<1>20. CASE RunFails
  <2>1. repl.phase \in {"running", "batch"} /\ ~console'
    BY <1>20 DEF RunFails, RunError, Running, SessionInv, RunsInCommand
  <2>2. repl' = repl \/ repl' = Unwind
    BY <1>20 DEF RunFails
  <2>3. Good(repl)
    BY <2>1 DEF LoopInv
  <2> QED
    BY <1>4, <1>14, <2>1, <2>2, <2>3
<1>21. CASE Progress
  <2>1. UNCHANGED <<repl, console>> /\ repl.phase \in {"running", "batch"}
    BY <1>21 DEF Progress
  <2> QED
    BY <2>1 DEF LoopInv, ConsoleReturned, EndsOnRequest
<1>22. CASE UNCHANGED vars
  BY <1>22 DEF vars, LoopInv, ConsoleReturned, EndsOnRequest
<1>23. CASE AsmLine
  <2>1. UNCHANGED <<repl, console>> /\ repl.phase = "asm_stdin"
    BY <1>23 DEF AsmLine
  <2> QED
    BY <1>4, <1>6, <2>1 DEF LoopInv
<1>24. CASE AsmEnds
  <2>1. "asm" \in Commands /\ repl.phase = "asm_stdin" /\ UNCHANGED console
        /\ (repl' = Unwind \/ repl' = Returns(repl, "asm"))
    BY <1>24 DEF AsmEnds, assemble, Commands
  <2> QED
    BY <1>4, <1>6, <1>14, <1>17, <2>1
<1> QED
  BY <1>7, <1>8, <1>9, <1>10, <1>11, <1>12, <1>13, <1>15, <1>16, <1>18, <1>19, <1>20,
     <1>21, <1>22, <1>23, <1>24 DEF Next, Ended

\* However a command ends, by itself, by ^C or by run_error's longjmp, the next
\* prompt finds the terminal and the scanner's sources as the command found
\* them, and only what should ends the session, as long as the lines have the
\* operands they need (top_level, console_to_spim, scanner_pop_source).
THEOREM PromptKept ==
  ASSUME FullOperands
  PROVE  Spec => []PromptRestored
<1>1. Init => LoopInv
  <2> SUFFICES ASSUME Init PROVE LoopInv
    OBVIOUS
  <2>1. repl \in ReplType
    BY SessionInit DEF SessionInv, FrontType
  <2>2. /\ repl.stack = <<>> /\ repl.cur = "stdin" /\ repl.slips = 0 /\ repl.pushed = FALSE
        /\ repl.prev_cmd = "nop" /\ repl.prev_token = "none" /\ repl.phase = "args" /\ ~console
    BY DEF Init
  <2>3. Len(repl.stack) = 0
    BY <2>2, EmptySeq
  <2>4. Good(repl)
    BY <2>1, <2>2, <2>3 DEF Good, Held, Left
  <2> QED
    BY <2>2, <2>4 DEF LoopInv, ConsoleReturned, EndsOnRequest
<1>2. SessionInv /\ LoopInv => PromptRestored
  <2> SUFFICES ASSUME SessionInv, LoopInv, repl.phase = "prompt"
               PROVE  /\ Len(repl.stack) <= repl.slips /\ ~repl.pushed
                      /\ repl.cur \in Left(repl.slips)
    BY DEF LoopInv, PromptRestored, SourcesBalanced, Left
  <2>1. ~repl.pushed /\ repl.slips \in Nat /\ Good(repl)
    BY DEF SessionInv, FrontType, RunLine, ReplType, LoopInv
  <2>2. repl.slips + 0 = repl.slips
    BY <2>1
  <2> QED
    BY <2>1, <2>2 DEF Good, Held
<1>3. Init => StatusInv
  BY DEF Init, StatusInv, StatusTells
<1>4. SessionInv /\ StatusInv /\ LoopInv /\ [Next]_vars => LoopInv'
  BY LoopStep
<1> QED
  BY <1>1, <1>2, <1>3, <1>4, StatusStep, SessionInvariant, PTL DEF Spec
=============================================================================
