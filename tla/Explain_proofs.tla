--------------------------- MODULE Explain_proofs ---------------------------
(***************************************************************************)
(* Narration does not change what a program does, whatever the program,    *)
(* the addresses it uses and the level are, and what is told belongs to    *)
(* the instruction it is told of.                                          *)
(***************************************************************************)
EXTENDS Explain, FiniteSetTheorems, TLAPS

\* A machine is a function on the names of its fields.
IsMachine(x) == x = [d \in DOMAIN x |-> x[d]]

-----------------------------------------------------------------------------
(* Narration is harmless.                                                  *)

LEMMA PeekRestores ==
  ASSUME NEW w, NEW addr, NEW size, IsMachine(w.r)
  PROVE  peek(w, addr, size).r = w.r
<1>1. Looked(w, addr, size).r = w.r \/ \E e : Looked(w, addr, size).r = Raise(w.r, e)
  BY DEF Looked
<1>2. ASSUME NEW e PROVE [Raise(w.r, e) EXCEPT !.exc = w.r.exc] = w.r
  <2>1. DOMAIN [Raise(w.r, e) EXCEPT !.exc = w.r.exc] = DOMAIN w.r
    BY DEF Raise
  <2>2. \A d \in DOMAIN w.r : [Raise(w.r, e) EXCEPT !.exc = w.r.exc][d] = w.r[d]
    BY DEF Raise
  <2>. QED BY <2>1, <2>2 DEF IsMachine, Raise
<1>3. [w.r EXCEPT !.exc = w.r.exc] = w.r
  BY DEF IsMachine
<1>4. peek(w, addr, size).r = [Looked(w, addr, size).r EXCEPT !.exc = w.r.exc]
  BY DEF peek
<1>. QED BY <1>1, <1>2, <1>3, <1>4

LEMMA LooksRestore ==
  ASSUME NEW w, NEW s, NEW t, IsMachine(w.r)
  PROVE  AfterLooks(w, s, t).r = w.r
BY PeekRestores DEF AfterLooks

LEMMA SnapshotRestores ==
  ASSUME NEW w, NEW i, IsMachine(w.r)
  PROVE  AfterSnapshot(w, i).r = w.r
BY PeekRestores DEF AfterSnapshot

LEMMA BegunMachine ==
  ASSUME NEW x PROVE IsMachine(Begun(x, FALSE))
BY DEF Begun, IsMachine

LEMMA DispatchMachine ==
  ASSUME NEW w, NEW i, NEW a, ~Dispatch(w, i, a).r.end
  PROVE  IsMachine(Dispatch(w, i, a).r)
<1>1. PICK e : e = Effect(w.r, i, a) OBVIOUS
<1>2. Dispatch(w, i, a).r = Bumped(e)
  BY <1>1 DEF Dispatch, Dispatched
<1>3. ~e.end \/ Bumped(e) = e
  BY DEF Bumped
<1>4. ~e.end
  BY <1>2, <1>3
<1>. QED BY <1>2, <1>4 DEF Bumped, IsMachine

\* An instruction has the same effect on the machine whatever was written to
\* the registers of coprocessor 0 before.
LEMMA DispatchOfMachine ==
  ASSUME NEW v, NEW w, NEW i, NEW a, v.r = w.r
  PROVE  Dispatch(v, i, a).r = Dispatch(w, i, a).r
BY DEF Dispatch, Dispatched

\* What an instruction leaves, from the machine before it, the snapshot s, the
\* machine w after the switch, the template t and the machine v after the looks.
Leaves(f, answer, before, s, w, t, v) ==
  /\ old' = [r |-> before.r, f |-> f, entered |-> Entered(f)]
  /\ IF explain_level = 0 THEN UNCHANGED narrator
     ELSE /\ snap' = s
          /\ IF w.r.end THEN LeftUntold ELSE explain_after(f, s, w, t)
  /\ m' = Handled(v.r) /\ cp0' = v.c
  /\ strayed' = strayed \cup
       IF Strays(Looks(before, s, w, t, f.i), w) THEN {f.i.op} ELSE {}
  /\ Unobserved(plain, plain0, f.i, answer)

Stepped(f, answer, before, s, w, t, v) ==
  /\ before = [r |-> Begun(m, FALSE), c |-> cp0]
  /\ s = Snapshot(before.r, f.i)
  /\ w = Dispatch(IF explain_level = 0 THEN before ELSE AfterSnapshot(before, f.i),
                  f.i, answer)
  /\ t = render_dispatch(s, w.r, f.i)
  /\ v = IF explain_level < 2 \/ w.r.end THEN w ELSE AfterLooks(w, s, t)
  /\ Leaves(f, answer, before, s, w, t, v)

LEMMA RunParts ==
  ASSUME NEW f, NEW answer, Run(f, answer)
  PROVE  \E before, s, w, t, v : Stepped(f, answer, before, s, w, t, v)
<1>1. \E before \in {[r |-> Begun(m, FALSE), c |-> cp0]} :
      \E s \in {Snapshot(before.r, f.i)} :
      \E w \in {Dispatch(IF explain_level = 0 THEN before ELSE AfterSnapshot(before, f.i),
                         f.i, answer)} :
      \E t \in {render_dispatch(s, w.r, f.i)} :
      \E v \in {IF explain_level < 2 \/ w.r.end THEN w ELSE AfterLooks(w, s, t)} :
        Leaves(f, answer, before, s, w, t, v)
  BY Zenon DEF Run, Leaves
<1>. HIDE DEF Leaves
<1>. QED BY <1>1, Zenon DEF Stepped

LEMMA RunHarmless ==
  ASSUME NEW f, NEW answer, m = plain, Run(f, answer)
  PROVE  m' = plain'
<1>0. PICK before, s, w, t, v : Stepped(f, answer, before, s, w, t, v)
  BY RunParts, Zenon
<1>1. /\ before = [r |-> Begun(m, FALSE), c |-> cp0]
      /\ s = Snapshot(before.r, f.i)
      /\ w = Dispatch(IF explain_level = 0 THEN before
                      ELSE AfterSnapshot(before, f.i), f.i, answer)
      /\ t = render_dispatch(s, w.r, f.i)
      /\ v = IF explain_level < 2 \/ w.r.end THEN w ELSE AfterLooks(w, s, t)
      /\ Leaves(f, answer, before, s, w, t, v)
  BY <1>0, Zenon DEF Stepped
<1>2. PICK seen : seen = IF explain_level = 0 THEN before ELSE AfterSnapshot(before, f.i)
  OBVIOUS
<1>3. PICK bare : bare = [r |-> Begun(plain, FALSE), c |-> plain0]
  OBVIOUS
<1>4. w = Dispatch(seen, f.i, answer)
  BY <1>1, <1>2, Zenon
<1>5. m' = Handled(v.r) /\ plain' = Handled(Dispatch(bare, f.i, answer).r)
  BY <1>1, <1>3, Zenon DEF Leaves, Unobserved
<1>6. before.r = Begun(m, FALSE) /\ IsMachine(before.r)
  BY <1>1, BegunMachine
<1>7. seen.r = before.r
  BY <1>2, <1>6, SnapshotRestores
<1>8. bare.r = seen.r
  BY <1>3, <1>6, <1>7
<1>9. w.r = Dispatch(bare, f.i, answer).r
  BY <1>4, <1>8, DispatchOfMachine
<1>10. v.r = w.r
  <2>1. v = IF explain_level < 2 \/ w.r.end THEN w ELSE AfterLooks(w, s, t)
    BY <1>1
  <2>2. CASE explain_level < 2 \/ w.r.end
    BY <2>1, <2>2
  <2>3. CASE ~(explain_level < 2 \/ w.r.end)
    <3>1. IsMachine(w.r)
      BY <1>4, <2>3, DispatchMachine
    <3>. QED BY <2>1, <2>3, <3>1, LooksRestore
  <2>. QED BY <2>2, <2>3
<1>. QED BY <1>5, <1>9, <1>10

-----------------------------------------------------------------------------
(* The instructions of a pseudo-operation.  While control is in a          *)
(* statement that it has entered at its first instruction, the pending     *)
(* pseudo-operation is the one of that statement.  A statement entered     *)
(* elsewhere has no such guarantee.                                        *)

OfStatement(stmt) == find_pseudo_in_source([label |-> stmt.label, op |-> stmt.op])

PendingInv ==
  /\ prog \in Programs
  /\ explain_level = 0 => ~said.told
  /\ explain_level # 0 /\ ~m.end /\ old.entered => pending = OfStatement(old.f.stmt)

LEMMA FetchedLine ==
  ASSUME prog \in Programs, InText
  PROVE  Fetched.src \in {NoSource, [label |-> Fetched.stmt.label, op |-> Fetched.stmt.op]}
<1>1. PICK k : k = (m.pc \div 4) + 1 OBVIOUS
<1>2. k \in DOMAIN prog /\ Fetched = prog[k]
  BY <1>1 DEF InText, Fetched
<1>. QED BY <1>2, ExplainAssumption DEF NoSource

LEMMA PendingOf ==
  ASSUME NEW p, NEW f,
         f.src \in {NoSource, [label |-> f.stmt.label, op |-> f.stmt.op]},
         f.src = NoSource => p = OfStatement(f.stmt)
  PROVE  Pending(p, f.src) = OfStatement(f.stmt)
BY DEF Pending, OfStatement

\* A step leaves the pending pseudo-operation of the statement it is in.
LEMMA PendingStep ==
  ASSUME PendingInv, InText, ~m.end, NEW answer, Run(Fetched, answer),
         UNCHANGED <<prog, explain_level>>
  PROVE  PendingInv'
<1>1. PICK f : f = Fetched OBVIOUS
<1>2. PICK before, s, w, t, v :
        /\ v = IF explain_level < 2 \/ w.r.end THEN w ELSE AfterLooks(w, s, t)
        /\ Leaves(f, answer, before, s, w, t, v)
  BY <1>1, RunParts, Zenon DEF Stepped
<1>3. f.src \in {NoSource, [label |-> f.stmt.label, op |-> f.stmt.op]}
  BY <1>1, FetchedLine DEF PendingInv
<1>4. old' = [r |-> before.r, f |-> f, entered |-> Entered(f)]
  BY <1>2 DEF Leaves
<1>5. prog' \in Programs
  BY DEF PendingInv
<1>6. explain_level' = 0 => ~said'.told
  BY <1>2 DEF Leaves, PendingInv, narrator
<1>7. ASSUME explain_level' # 0, ~m'.end, old'.entered
      PROVE  pending' = OfStatement(old'.f.stmt)
  <2>1. explain_level # 0
    BY <1>7
  <2>2. ~w.r.end
    <3>. SUFFICES ASSUME w.r.end PROVE FALSE
      OBVIOUS
    <3>1. v = w
      BY <1>2
    <3>2. m' = w.r
      BY <1>2, <3>1 DEF Leaves, Handled
    <3>. QED BY <1>7, <3>2
  <2>3. pending' = Pending(pending, f.src)
    BY <1>2, <2>1, <2>2 DEF Leaves, explain_after
  <2>4. Entered(f) /\ old'.f = f
    BY <1>4, <1>7
  <2>5. f.src = NoSource => pending = OfStatement(f.stmt)
    BY <2>1, <2>4 DEF Entered, PendingInv
  <2>. QED BY <1>3, <2>3, <2>4, <2>5, PendingOf
<1>. QED BY <1>5, <1>6, <1>7 DEF PendingInv

LEMMA PendingInvAlways == Spec => []PendingInv
<1>1. Init => PendingInv
  BY DEF Init, PendingInv, Nothing
<1>2. PendingInv /\ [Next]_vars => PendingInv'
  <2>. SUFFICES ASSUME PendingInv, [Next]_vars PROVE PendingInv'
    OBVIOUS
  <2>1. CASE StepOne
    <3>1. PICK answer : Run(Fetched, answer)
      BY <2>1 DEF StepOne
    <3>. QED BY <2>1, <3>1, PendingStep DEF StepOne
  <2>2. CASE UNCHANGED vars
    BY <2>2 DEF vars, machines, narrator, PendingInv
  <2>. QED BY <2>1, <2>2 DEF Next, Finished
<1>. QED BY <1>1, <1>2, PTL DEF Spec

LEMMA HeaderOf ==
  ASSUME NEW p, NEW f,
         f.src \in {NoSource, [label |-> f.stmt.label, op |-> f.stmt.op]},
         f.src = NoSource => p = OfStatement(f.stmt)
  PROVE  LET h == PseudoHeader(p, f.src) IN
         /\ h[1] = "continuation" => h[2] = f.stmt.op
         /\ f.src = NoSource /\ f.stmt.op \in multi /\ ~f.stmt.label
              => h = <<"continuation", f.stmt.op>>
<1>1. CASE f.src = NoSource
  <2>1. PseudoHeader(p, f.src)
          = IF p \in multi THEN <<"continuation", p>> ELSE <<None, None>>
    BY <1>1 DEF PseudoHeader
  <2>2. p = OfStatement(f.stmt)
    BY <1>1
  <2>3. p = IF ~f.stmt.label /\ f.stmt.op \in single \cup multi THEN f.stmt.op ELSE None
    BY <2>2 DEF OfStatement, find_pseudo_in_source
  <2>4. None \notin multi /\ None # "continuation"
    BY DEF None, multi
  <2>. QED BY <2>1, <2>3, <2>4
<1>2. CASE f.src # NoSource
  <2>1. PseudoHeader(p, f.src)[1] \in {None, "first", "single"}
    BY <1>2 DEF PseudoHeader
  <2>. QED BY <1>2, <2>1 DEF None
<1>. QED BY <1>1, <1>2

\* For every program, an instruction of a pseudo-operation is told as part of that
\* one and of no other, as long as control has come to it from the start of its
\* statement (explain.c, find_pseudo_in_source and pending_pseudo_name).
THEOREM PseudoToldAlways == Spec => []PseudoTold
<1>1. Init => PseudoTold
  BY DEF Init, PseudoTold, Nothing
<1>2. PendingInv /\ PseudoTold /\ [Next]_vars => PseudoTold'
  <2>. SUFFICES ASSUME PendingInv, PseudoTold, [Next]_vars PROVE PseudoTold'
    OBVIOUS
  <2>1. CASE StepOne
    <3>1. PICK answer : Run(Fetched, answer)
      BY <2>1 DEF StepOne
    <3>2. PICK f : f = Fetched OBVIOUS
    <3>3. PICK before, s, w, t, v : Leaves(f, answer, before, s, w, t, v)
      BY <3>1, <3>2, RunParts, Zenon DEF Stepped
    <3>4. f.src \in {NoSource, [label |-> f.stmt.label, op |-> f.stmt.op]}
      BY <2>1, <3>2, FetchedLine DEF PendingInv, StepOne
    <3>5. old'.f = f /\ old'.entered = Entered(f)
      BY <3>3 DEF Leaves
    <3>6. SUFFICES ASSUME said'.told, old'.entered
                   PROVE  /\ said'.pseudo[1] = "continuation" => said'.pseudo[2] = f.stmt.op
                          /\ f.src = NoSource /\ f.stmt.op \in multi /\ ~f.stmt.label
                               => said'.pseudo = <<"continuation", f.stmt.op>>
      BY <3>5 DEF PseudoTold
    <3>7. explain_level # 0
      BY <3>3, <3>6 DEF Leaves, narrator, PendingInv
    <3>8. ~w.r.end
      BY <3>3, <3>6, <3>7 DEF Leaves, LeftUntold, Nothing
    <3>9. said'.pseudo = PseudoHeader(pending, f.src)
      BY <3>3, <3>7, <3>8 DEF Leaves, explain_after, Narration, Nothing
    <3>10. f.src = NoSource => pending = OfStatement(f.stmt)
      BY <2>1, <3>5, <3>6, <3>7 DEF Entered, PendingInv, StepOne
    <3>. QED BY <3>4, <3>9, <3>10, HeaderOf
  <2>2. CASE UNCHANGED vars
    BY <2>2 DEF vars, narrator, PseudoTold
  <2>. QED BY <2>1, <2>2 DEF Next, Finished
<1>. QED BY <1>1, <1>2, PendingInvAlways, PTL DEF Spec

-----------------------------------------------------------------------------
(* A machine keeps its fields, whatever is performed.                      *)

Fields == {"pc", "g", "hi", "lo", "f", "fcr", "mem", "ld1", "ld2", "exc", "end"}
SameFields(x, z) == DOMAIN z = DOMAIN x

LEMMA PutFields ==
  ASSUME NEW x, NEW n, NEW v
  PROVE  /\ SameFields(x, x) /\ SameFields(x, Raise(x, v)) /\ SameFields(x, run_error(x))
         /\ SameFields(x, [x EXCEPT !.g[n] = v]) /\ SameFields(x, [x EXCEPT !.f[n] = v])
         /\ SameFields(x, [x EXCEPT !.fcr[n] = v]) /\ SameFields(x, SetHiLo(x, v))
BY DEF SameFields, Raise, run_error, SetHiLo

LEMMA AccessFields ==
  ASSUME NEW x, NEW a, NEW s, NEW v
  PROVE  SameFields(x, ReadRaises(x, a, s)) /\ SameFields(x, Write(x, a, s, v))
<1>1. SameFields(x, ReadRaises(x, a, s))
  BY PutFields DEF ReadRaises
<1>2. CASE Refused(a, s, "AdES") # "none"
  BY <1>1, <1>2, PutFields DEF Write
<1>3. CASE Refused(a, s, "AdES") = "none"
  <2>1. SameFields(x, Write(x, a, s, v))
    BY <1>3 DEF Write, SameFields
  <2>. QED BY <1>1, <2>1
<1>. QED BY <1>2, <1>3

LEMMA LoadFields ==
  ASSUME NEW x, NEW file, NEW n, NEW v
  PROVE  SameFields(x, LOAD_INST(x, file, n, v, FALSE))
BY DEF LOAD_INST, Put, SameFields

LEMMA FieldsChain ==
  ASSUME NEW x, NEW y, NEW z, SameFields(x, y), SameFields(y, z) PROVE SameFields(x, z)
BY DEF SameFields

LEMMA MergedFields ==
  ASSUME NEW x, NEW a, NEW s, NEW file, NEW n, NEW v
  PROVE  SameFields(x, LOAD_INST(ReadRaises(x, a, s), file, n, v, FALSE))
<1>1. PICK y : y = ReadRaises(x, a, s) OBVIOUS
<1>2. SameFields(x, y)
  BY <1>1, AccessFields
<1>3. SameFields(y, LOAD_INST(y, file, n, v, FALSE))
  BY LoadFields
<1>. QED BY <1>1, <1>2, <1>3, FieldsChain

LEMMA ComputeFields ==
  ASSUME NEW x, NEW i
  PROVE  /\ SameFields(x, AluInst(x, i)) /\ SameFields(x, ImmInst(x, i))
         /\ SameFields(x, ShiftInst(x, i)) /\ SameFields(x, MulInst(x, i))
         /\ SameFields(x, DivInst(x, i)) /\ SameFields(x, TrapInst(x, i))
         /\ i.op \in HiLoOps => SameFields(x, HiLoInst(x, i))
         /\ i.op \in {"COP2", "RFE", "TLB", "BREAK", "SYNC"} => SameFields(x, AbsentInst(x, i))
<1>1. SameFields(x, AluInst(x, i))
  BY PutFields DEF AluInst
<1>2. SameFields(x, ImmInst(x, i))
  BY PutFields DEF ImmInst
<1>3. SameFields(x, ShiftInst(x, i))
  BY PutFields DEF ShiftInst
<1>4. SameFields(x, MulInst(x, i))
  BY DEF MulInst, MulEffect, SetHiLo, SameFields
<1>5. SameFields(x, DivInst(x, i))
  BY PutFields DEF DivInst
<1>6. SameFields(x, TrapInst(x, i))
  BY PutFields DEF TrapInst
<1>7. i.op \in HiLoOps => SameFields(x, HiLoInst(x, i))
  BY DEF HiLoInst, HiLoOps, SameFields
<1>8. i.op \in {"COP2", "RFE", "TLB", "BREAK", "SYNC"} => SameFields(x, AbsentInst(x, i))
  BY PutFields DEF AbsentInst
<1>. QED BY <1>1, <1>2, <1>3, <1>4, <1>5, <1>6, <1>7, <1>8

LEMMA GotoFields ==
  ASSUME NEW x, NEW i
  PROVE  /\ SameFields(x, BranchInst(x, i)) /\ SameFields(x, JumpInst(x, i))
         /\ SameFields(x, BC1Inst(x, i))
<1>1. \A y, t, o, u : SameFields(y, BRANCH_INST(y, t, o, u))
  BY DEF BRANCH_INST, SameFields
<1>2. SameFields(x, BranchInst(x, i))
  <2>1. PICK s : s = IF i.op \in {"BGEZAL", "BLTZAL", "BGEZALL", "BLTZALL"}
                     THEN [x EXCEPT !.g[REG_RA] = (x.pc + 4) % Mod] ELSE x
    OBVIOUS
  <2>2. SameFields(x, s)
    BY <2>1 DEF SameFields
  <2>3. \E t, o, u : BranchInst(x, i) = BRANCH_INST(s, t, o, u)
    BY <2>1 DEF BranchInst
  <2>. QED BY <1>1, <2>2, <2>3, FieldsChain
<1>3. SameFields(x, JumpInst(x, i))
  BY DEF JumpInst, SameFields
<1>4. SameFields(x, BC1Inst(x, i))
  BY <1>1 DEF BC1Inst
<1>. QED BY <1>2, <1>3, <1>4

LEMMA AccessInstFields ==
  ASSUME NEW x, NEW i
  PROVE  /\ SameFields(x, LoadInst(x, i, FALSE)) /\ SameFields(x, MergeInst(x, i, FALSE))
         /\ SameFields(x, StoreInst(x, i)) /\ SameFields(x, SplitInst(x, i))
         /\ SameFields(x, FpLoadInst(x, i, FALSE)) /\ SameFields(x, FpStoreInst(x, i))
<1>1. \E a, s, n, v : LoadInst(x, i, FALSE) = LOAD_INST(ReadRaises(x, a, s), "g", n, v, FALSE)
  BY Zenon DEF LoadInst
<1>2. \E a, n, v : MergeInst(x, i, FALSE) = LOAD_INST(ReadRaises(x, a, 4), "g", n, v, FALSE)
  BY Zenon DEF MergeInst
<1>3. SameFields(x, StoreInst(x, i))
  BY AccessFields DEF StoreInst
<1>4. SameFields(x, SplitInst(x, i))
  <2>1. \E a, v : SplitInst(x, i) = Write(ReadRaises(x, a, 4), a, 4, v)
    BY DEF SplitInst
  <2>. QED BY <2>1, AccessFields, FieldsChain
<1>5. SameFields(x, FpLoadInst(x, i, FALSE))
  <2>2. PICK y : y = LOAD_INST(ReadRaises(x, Address(x, i), 4), "f", i.rt,
                               Read(x, Address(x, i), 4), FALSE)
    OBVIOUS
  <2>3. SameFields(x, y)
    BY <2>2, MergedFields
  <2>4. \/ FpLoadInst(x, i, FALSE) = y
        \/ \E b, n, w : FpLoadInst(x, i, FALSE)
                          = LOAD_INST(ReadRaises(y, b, 4), "f", n, w, FALSE)
    BY <2>2, Zenon DEF FpLoadInst
  <2>5. \A b, n, w : SameFields(x, LOAD_INST(ReadRaises(y, b, 4), "f", n, w, FALSE))
    <3>1. TAKE b, n, w
    <3>2. SameFields(y, LOAD_INST(ReadRaises(y, b, 4), "f", n, w, FALSE))
      BY MergedFields
    <3>. QED BY <2>3, <3>2, FieldsChain
  <2>. QED BY <2>3, <2>4, <2>5, Zenon
<1>6. SameFields(x, FpStoreInst(x, i))
  <2>1. \/ FpStoreInst(x, i) = run_error(x)
        \/ \E a, v : FpStoreInst(x, i) = Write(x, a, 4, v)
        \/ \E a, v, b, w : FpStoreInst(x, i) = Write(Write(x, a, 4, v), b, 4, w)
    BY DEF FpStoreInst
  <2>2. ASSUME NEW a, NEW v, NEW b, NEW w
        PROVE  SameFields(x, Write(Write(x, a, 4, v), b, 4, w))
    <3>1. PICK y : y = Write(x, a, 4, v) OBVIOUS
    <3>2. SameFields(x, y) /\ SameFields(y, Write(y, b, 4, w))
      BY <3>1, AccessFields
    <3>. QED BY <3>1, <3>2, FieldsChain
  <2>3. \A a, v : SameFields(x, Write(x, a, 4, v))
    BY AccessFields
  <2>4. SameFields(x, run_error(x))
    BY PutFields
  <2>5. CASE \E a, v, b, w : FpStoreInst(x, i) = Write(Write(x, a, 4, v), b, 4, w)
    <3>1. PICK a, v, b, w : FpStoreInst(x, i) = Write(Write(x, a, 4, v), b, 4, w)
      BY <2>5
    <3>. QED BY <3>1, <2>2, Zenon
  <2>. QED BY <2>1, <2>3, <2>4, <2>5
<1>. QED BY <1>1, <1>2, <1>3, <1>4, <1>5, <1>6, MergedFields

LEMMA FloatFields ==
  ASSUME NEW x, NEW i
  PROVE  /\ SameFields(x, FpInst(x, i)) /\ SameFields(x, CvtInst(x, i))
         /\ SameFields(x, ToWordInst(x, i)) /\ SameFields(x, CompareInst(x, i))
         /\ SameFields(x, ControlInst(x, i)) /\ SameFields(x, FpMoveIf(x, i))
         /\ i.op \in MoveOps => SameFields(x, MoveInst(x, i))
<1>1. \A n, fmt, v : SameFields(x, SET_FPR(x, n, fmt, v)) /\ SameFields(x, SET_FCC(x, n, v))
  BY DEF SET_FPR, SET_FCC, SameFields
<1>2. SameFields(x, FpInst(x, i))
  BY <1>1, PutFields DEF FpInst
<1>3. SameFields(x, CvtInst(x, i))
  BY <1>1, PutFields DEF CvtInst
<1>4. SameFields(x, ToWordInst(x, i))
  BY PutFields DEF ToWordInst
<1>5. SameFields(x, CompareInst(x, i))
  BY <1>1, PutFields DEF CompareInst
<1>6. SameFields(x, ControlInst(x, i))
  BY DEF ControlInst, Raise, SameFields
<1>7. SameFields(x, FpMoveIf(x, i))
  BY <1>1, PutFields DEF FpMoveIf
<1>8. i.op \in MoveOps => SameFields(x, MoveInst(x, i))
  BY PutFields DEF MoveInst, MoveOps
<1>. QED BY <1>2, <1>3, <1>4, <1>5, <1>6, <1>7, <1>8

LEMMA ExecuteFields ==
  ASSUME NEW x, NEW i, i.op \in ComputeOps \cup GotoOps \cup AccessOps \cup FloatOps
  PROVE  SameFields(x, Execute(x, i, FALSE))
<1>. USE DEF AluOps, ImmOps, RegisterForm, ShiftOps, MulOps, HiLoOps, BranchOps, LikelyOps,
             JumpOps, TrapOps, TrapImmOps, LoadOps, StoreOps, MoveOps
<1>1. CASE i.op \in ComputeOps
  <2>1. CASE i.op \in AluOps \cup ImmOps \cup ShiftOps
    BY <2>1, ComputeFields DEF Execute
  <2>2. CASE i.op \in MulOps \cup {"DIV", "DIVU"} \cup HiLoOps
    BY <2>2, ComputeFields DEF Execute
  <2>3. CASE i.op \in TrapOps \cup TrapImmOps \cup {"COP2", "RFE", "TLB", "BREAK", "SYNC"}
    BY <2>3, ComputeFields DEF Execute
  <2>. QED BY <1>1, <2>1, <2>2, <2>3 DEF ComputeOps
<1>2. CASE i.op \in GotoOps
  BY <1>2, GotoFields DEF GotoOps, Execute
<1>3. CASE i.op \in AccessOps
  BY <1>3, AccessInstFields DEF AccessOps, Execute
<1>4. CASE i.op \in FloatOps
  BY <1>4, FloatFields DEF FloatOps, Execute
<1>. QED BY <1>1, <1>2, <1>3, <1>4

LEMMA CallFields ==
  ASSUME NEW x, NEW a PROVE SameFields(x, Call(x, a))
<1>1. PICK v0 : v0 = x.g[REG_V0] OBVIOUS
<1>2. \A addr : SameFields(x, IF a.ok THEN Write(x, addr, 1, a.v % ByteMod) ELSE x)
  BY AccessFields, PutFields
<1>. QED BY <1>1, <1>2, PutFields DEF Call, Answered, SameFields, run_error

-----------------------------------------------------------------------------
(* What has changed is told.  A template names what it knows to be         *)
(* written; whatever else differs from the snapshot is told after it, so   *)
(* the list is complete whatever the template is.                          *)

FieldsInv == DOMAIN m = Fields
HasFields(x) == DOMAIN x = Fields

LEMMA DispatchEffect ==
  ASSUME NEW w, NEW i, NEW a PROVE Dispatch(w, i, a).r = Bumped(Effect(w.r, i, a))
BY DEF Dispatch, Dispatched

\* The machine that the instruction i finds, after the look of the snapshot.
Seen(before, i) == IF explain_level = 0 THEN before ELSE AfterSnapshot(before, i)

\* What a step finds, what its instruction does (e), and what the looks leave.
Did(f, answer, before, w, v, e) ==
  /\ e = Effect(before.r, f.i, answer)
  /\ before.r = Begun(m, FALSE) /\ before.c = cp0 /\ Seen(before, f.i).r = before.r
  /\ w = Dispatched(Seen(before, f.i), f.i, e)
  /\ w.r = Bumped(e) /\ HasFields(e) /\ w.r.exc = e.exc /\ v.r = w.r

LEMMA StepEffect ==
  ASSUME FieldsInv, prog \in Programs, InText, NEW answer, NEW f, f = Fetched,
         NEW before, NEW s, NEW w, NEW t, NEW v, Stepped(f, answer, before, s, w, t, v)
  PROVE  \E e : Did(f, answer, before, w, v, e)
<1>1. PICK e : e = Effect(before.r, f.i, answer) OBVIOUS
<1>2. before.r = Begun(m, FALSE) /\ before.c = cp0 /\ IsMachine(before.r)
  <2>1. before = [r |-> Begun(m, FALSE), c |-> cp0]
    BY DEF Stepped
  <2>. QED BY <2>1, BegunMachine
<1>3. Seen(before, f.i).r = before.r
  BY <1>2, SnapshotRestores DEF Seen
<1>4. DOMAIN before.r = Fields
  BY <1>2 DEF Begun, FieldsInv
<1>6. w = Dispatch(Seen(before, f.i), f.i, answer)
  BY Zenon DEF Stepped, Seen
<1>7. w = Dispatched(Seen(before, f.i), f.i, e)
  BY <1>1, <1>3, <1>6 DEF Dispatch
<1>8. w.r = Bumped(e)
  BY <1>7 DEF Dispatched
<1>9. DOMAIN e = Fields
  <2>1. f.i.op \in ComputeOps \cup GotoOps \cup AccessOps \cup FloatOps \cup {"SYSCALL"}
    <3>1. PICK k : k = (m.pc \div 4) + 1 OBVIOUS
    <3>2. k \in DOMAIN prog /\ f = prog[k]
      BY <3>1 DEF InText, Fetched
    <3>. QED BY <3>2, ExplainAssumption
  <2>2. CASE f.i.op = "SYSCALL"
    BY <1>1, <1>4, <2>2, CallFields DEF Effect, SameFields
  <2>3. CASE f.i.op # "SYSCALL"
    BY <1>1, <1>4, <2>1, <2>3, ExecuteFields DEF Effect, SameFields
  <2>. QED BY <2>2, <2>3
<1>10. w.r.exc = e.exc
  BY <1>8, <1>9 DEF Bumped, Fields
<1>11. v.r = w.r
  <2>1. CASE explain_level < 2 \/ w.r.end
    BY <2>1 DEF Stepped
  <2>2. CASE ~(explain_level < 2 \/ w.r.end)
    <3>1. IsMachine(w.r)
      BY <1>6, <2>2, DispatchMachine
    <3>2. AfterLooks(w, s, t).r = w.r
      BY <3>1, LooksRestore
    <3>3. v = AfterLooks(w, s, t)
      BY <2>2, Zenon DEF Stepped
    <3>. QED BY <3>2, <3>3
  <2>. QED BY <2>1, <2>2
<1>12. HasFields(e)
  BY <1>9 DEF HasFields
<1>13. Did(f, answer, before, w, v, e)
  BY <1>1, <1>2, <1>3, <1>7, <1>8, <1>10, <1>11, <1>12 DEF Did
<1>. QED BY <1>13

\* A step seen from the snapshot: it has the registers before the instruction,
\* and the machine that is told of has those that m is left with.
LEMMA StepFields ==
  ASSUME FieldsInv, prog \in Programs, InText, NEW answer, NEW f, f = Fetched,
         NEW before, NEW s, NEW w, NEW t, NEW v, Stepped(f, answer, before, s, w, t, v)
  PROVE  /\ DOMAIN m' = Fields
         /\ m'.g = w.r.g /\ m'.hi = w.r.hi /\ m'.lo = w.r.lo
         /\ old'.r.g = s.g /\ old'.r.hi = s.hi /\ old'.r.lo = s.lo
         /\ ~w.r.end => ~m'.end
<1>1. PICK e : w.r = Bumped(e) /\ HasFields(e) /\ v.r = w.r
  <2>1. PICK e : Did(f, answer, before, w, v, e)
    BY StepEffect
  <2>. QED BY <2>1 DEF Did
<1>2. DOMAIN w.r = Fields
  BY <1>1 DEF Bumped, HasFields
<1>3. m' = Handled(w.r)
  BY <1>1 DEF Stepped, Leaves
<1>4. /\ DOMAIN m' = Fields
      /\ m'.g = w.r.g /\ m'.hi = w.r.hi /\ m'.lo = w.r.lo /\ (~w.r.end => ~m'.end)
  BY <1>2, <1>3 DEF Handled, Fields
<1>5. old'.r = before.r
  BY DEF Stepped, Leaves
<1>6. s.g = before.r.g /\ s.hi = before.r.hi /\ s.lo = before.r.lo
  BY DEF Stepped, Snapshot
<1>. QED BY <1>4, <1>5, <1>6

\* The list of what is told, from what the template has written.
LEMMA ChangesComplete ==
  ASSUME NEW s, NEW r, NEW t, NEW mine, mine.regs = t.wrote \ {0}, mine.hl = t.hl
  PROVE  LET c == Changes(s, r, t, mine) IN
         /\ \A n \in Regs \ {0} : r.g[n] # s.g[n] => <<n, s.g[n], r.g[n]>> \in c.regs
         /\ \A x \in c.regs : x = <<x[1], s.g[x[1]], r.g[x[1]]>>
         /\ r.hi # s.hi => <<"hi", s.hi, r.hi>> \in c.hl
         /\ r.lo # s.lo => <<"lo", s.lo, r.lo>> \in c.hl
<1>. DEFINE N == (t.wrote \ {0}) \cup {n \in Regs \ {0} : r.g[n] # s.g[n] /\ n \notin mine.regs}
<1>1. Changes(s, r, t, mine).regs = {<<n, s.g[n], r.g[n]>> : n \in N}
  BY DEF Changes
<1>2. \A n \in Regs \ {0} : r.g[n] # s.g[n] => n \in N
  OBVIOUS
<1>. HIDE DEF N
<1>3. \A n \in Regs \ {0} : r.g[n] # s.g[n] => <<n, s.g[n], r.g[n]>> \in Changes(s, r, t, mine).regs
  BY <1>1, <1>2
<1>4. \A x \in Changes(s, r, t, mine).regs : x = <<x[1], s.g[x[1]], r.g[x[1]]>>
  BY <1>1
<1>5. r.hi # s.hi => <<"hi", s.hi, r.hi>> \in Changes(s, r, t, mine).hl
  BY DEF Changes
<1>6. r.lo # s.lo => <<"lo", s.lo, r.lo>> \in Changes(s, r, t, mine).hl
  BY DEF Changes
<1>. QED BY <1>3, <1>4, <1>5, <1>6

ChangesInv == PendingInv /\ FieldsInv /\ ChangesTold

LEMMA ChangesStep ==
  ASSUME ChangesInv, StepOne PROVE FieldsInv' /\ ChangesTold'
<1>1. PICK answer : Run(Fetched, answer)
  BY DEF StepOne
<1>2. PICK f : f = Fetched OBVIOUS
<1>3. PICK before, s, w, t, v : Stepped(f, answer, before, s, w, t, v)
  BY <1>1, <1>2, RunParts, Zenon
<1>4. prog \in Programs /\ InText /\ FieldsInv
  BY DEF ChangesInv, PendingInv, StepOne
<1>5. /\ DOMAIN m' = Fields
      /\ m'.g = w.r.g /\ m'.hi = w.r.hi /\ m'.lo = w.r.lo
      /\ old'.r.g = s.g /\ old'.r.hi = s.hi /\ old'.r.lo = s.lo
  BY <1>2, <1>3, <1>4, StepFields
<1>6. FieldsInv'
  BY <1>5 DEF FieldsInv
<1>7. ASSUME Done'
      PROVE  /\ \A n \in Regs \ {0} : m'.g[n] # old'.r.g[n] => <<n, old'.r.g[n], m'.g[n]>> \in said'.regs
             /\ \A c \in said'.regs : c = <<c[1], old'.r.g[c[1]], m'.g[c[1]]>>
             /\ m'.hi # old'.r.hi => <<"hi", old'.r.hi, m'.hi>> \in said'.hl
             /\ m'.lo # old'.r.lo => <<"lo", old'.r.lo, m'.lo>> \in said'.hl
  <2>1. explain_level' = explain_level
    BY DEF StepOne
  <2>2. said'.told /\ explain_level >= 2
    BY <1>7, <2>1 DEF Done
  <2>3. explain_level # 0
    BY <1>3, <2>2 DEF Stepped, Leaves, narrator, ChangesInv, PendingInv
  <2>4. IF w.r.end THEN LeftUntold ELSE explain_after(f, s, w, t)
    BY <1>3, <2>3 DEF Stepped, Leaves
  <2>5. explain_after(f, s, w, t)
    <3>1. LeftUntold => ~said'.told
      BY DEF LeftUntold, Nothing
    <3>. QED BY <2>2, <2>4, <3>1
  <2>6. PICK mine : mine = [regs |-> Untouched(touched).regs \cup (t.wrote \ {0}),
                            hl |-> Untouched(touched).hl \cup t.hl]
    OBVIOUS
  <2>7. mine.regs = t.wrote \ {0} /\ mine.hl = t.hl
    BY <2>6 DEF Untouched
  <2>8. PICK x : x = Narration(s, w.r, f.i, mine, t) OBVIOUS
  <2>9. said' = [x EXCEPT !.pseudo = PseudoHeader(pending, f.src),
                          !.legend = Header(flags).legend]
    BY <2>2, <2>5, <2>6, <2>8, Zenon DEF explain_after
  <2>10. PICK c : c = Changes(s, w.r, t, mine) OBVIOUS
  <2>11. x.regs = c.regs /\ x.hl = c.hl /\ "regs" \in DOMAIN x /\ "hl" \in DOMAIN x
    BY <2>8, <2>10 DEF Narration, Nothing
  <2>12. said'.regs = c.regs /\ said'.hl = c.hl
    BY <2>9, <2>11
  <2>13. /\ \A n \in Regs \ {0} : w.r.g[n] # s.g[n] => <<n, s.g[n], w.r.g[n]>> \in c.regs
         /\ \A y \in c.regs : y = <<y[1], s.g[y[1]], w.r.g[y[1]]>>
         /\ w.r.hi # s.hi => <<"hi", s.hi, w.r.hi>> \in c.hl
         /\ w.r.lo # s.lo => <<"lo", s.lo, w.r.lo>> \in c.hl
    BY <2>7, <2>10, ChangesComplete
  <2>. QED BY <1>5, <2>12, <2>13
<1>8. ChangesTold'
  BY <1>7 DEF ChangesTold, Was
<1>. QED BY <1>6, <1>8

\* For every program, at levels 2 and above: every register and half of HI/LO
\* that an instruction or a call has changed is told, with the value before and
\* the value now, also where the template leaves it out or there is none
\* (explain.c, the side effects of explain_after).
THEOREM ChangesToldAlways == Spec => []ChangesTold
<1>1. Init => ChangesTold /\ FieldsInv
  BY DEF Init, ChangesTold, Done, Nothing, FieldsInv, Fields
<1>2. PendingInv /\ FieldsInv /\ ChangesTold /\ [Next]_vars => FieldsInv' /\ ChangesTold'
  <2>. SUFFICES ASSUME PendingInv, FieldsInv, ChangesTold, [Next]_vars
                PROVE  FieldsInv' /\ ChangesTold'
    OBVIOUS
  <2>1. CASE StepOne
    BY <2>1, ChangesStep DEF ChangesInv
  <2>2. CASE UNCHANGED vars
    BY <2>2 DEF vars, machines, narrator, FieldsInv, ChangesTold, Done, Was
  <2>. QED BY <2>1, <2>2 DEF Next, Finished
<1>. QED BY <1>1, <1>2, PendingInvAlways, PTL DEF Spec

-----------------------------------------------------------------------------
(* Narration is harmless, continued: the registers of coprocessor 0.  A    *)
(* look that is refused as its instruction is raises an exception that the *)
(* instruction raises too, before it or after it, and of two such          *)
(* exceptions the second changes nothing but BadVAddr, which is put back.  *)

IsCp0(c) ==
  /\ c = [exl |-> c.exl, epc |-> c.epc, cause |-> c.cause, bad |-> c.bad, first |-> c.first]
  /\ c.exl \in BOOLEAN

Raised(c, pc, code, bad) == [raise_exception(c, pc, code) EXCEPT !.bad = bad]

SameCp0(c, d) ==
  (c.exl <=> d.exl) /\ c.epc = d.epc /\ c.cause = d.cause /\ c.bad = d.bad /\ c.first = d.first

LEMMA Cp0Equal ==
  ASSUME NEW c, NEW d, IsCp0(c), IsCp0(d), SameCp0(c, d) PROVE c = d
<1>1. c.exl = d.exl
  BY DEF IsCp0, SameCp0
<1>. QED BY <1>1 DEF IsCp0, SameCp0

LEMMA RaisedFields ==
  ASSUME NEW c, NEW pc, NEW code, NEW bad, IsCp0(c)
  PROVE  LET x == Raised(c, pc, code, bad)
         IN /\ IsCp0(x) /\ x.exl /\ x.cause = code /\ x.bad = bad
            /\ x.epc = IF c.exl THEN c.epc ELSE pc
            /\ code \notin {"Bp", "Sys"} => x.first = IF c.first = "none" THEN code ELSE c.first
<1>. DEFINE x == Raised(c, pc, code, bad)
<1>1. DOMAIN c = {"exl", "epc", "cause", "bad", "first"}
  BY DEF IsCp0
<1>2. DOMAIN x = {"exl", "epc", "cause", "bad", "first"}
  BY <1>1 DEF Raised, raise_exception
<1>3. x.exl /\ x.cause = code /\ x.bad = bad
  BY <1>1 DEF Raised, raise_exception
<1>4. x.epc = IF c.exl THEN c.epc ELSE pc
  BY <1>1 DEF Raised, raise_exception
<1>5. code \notin {"Bp", "Sys"} => x.first = IF c.first = "none" THEN code ELSE c.first
  BY <1>1 DEF Raised, raise_exception
<1>6. x = [d \in DOMAIN x |-> x[d]]
  BY DEF Raised, raise_exception
<1>7. x = [exl |-> x.exl, epc |-> x.epc, cause |-> x.cause, bad |-> x.bad, first |-> x.first]
  <2>. HIDE DEF x
  <2>. QED BY <1>2, <1>6
<1>8. IsCp0(x)
  BY <1>3, <1>7 DEF IsCp0
<1>. QED BY <1>3, <1>4, <1>5, <1>8

LEMMA RaisedTwice ==
  ASSUME NEW c, NEW pc, NEW code, NEW bad, IsCp0(c), code \notin {"none", "Bp", "Sys"}
  PROVE  Raised(Raised(c, pc, code, c.bad), pc, code, bad) = Raised(c, pc, code, bad)
<1>1. PICK p : p = Raised(c, pc, code, c.bad) OBVIOUS
<1>2. PICK q : q = Raised(p, pc, code, bad) OBVIOUS
<1>3. PICK x : x = Raised(c, pc, code, bad) OBVIOUS
<1>4. IsCp0(p) /\ p.exl /\ p.epc = (IF c.exl THEN c.epc ELSE pc)
      /\ p.first = IF c.first = "none" THEN code ELSE c.first
  BY <1>1, RaisedFields
<1>5. /\ IsCp0(q) /\ q.exl /\ q.cause = code /\ q.bad = bad
      /\ q.epc = IF p.exl THEN p.epc ELSE pc
      /\ q.first = IF p.first = "none" THEN code ELSE p.first
  BY <1>2, <1>4, RaisedFields
<1>6. /\ IsCp0(x) /\ x.exl /\ x.cause = code /\ x.bad = bad
      /\ x.epc = IF c.exl THEN c.epc ELSE pc
      /\ x.first = IF c.first = "none" THEN code ELSE c.first
  BY <1>3, RaisedFields
<1>7. p.first # "none"
  BY <1>4
<1>8. SameCp0(q, x)
  BY <1>4, <1>5, <1>6, <1>7 DEF SameCp0
<1>. QED BY <1>1, <1>2, <1>3, <1>5, <1>6, <1>8, Cp0Equal

LEMMA RaisedAfter ==
  ASSUME NEW c, NEW pc, NEW pc2, NEW code, NEW bad, IsCp0(c),
         code \notin {"none", "Bp", "Sys"}
  PROVE  Raised(Raised(c, pc, code, bad), pc2, code, bad) = Raised(c, pc, code, bad)
<1>1. PICK p : p = Raised(c, pc, code, bad) OBVIOUS
<1>2. PICK q : q = Raised(p, pc2, code, bad) OBVIOUS
<1>3. /\ IsCp0(p) /\ p.exl /\ p.cause = code /\ p.bad = bad
      /\ p.first = IF c.first = "none" THEN code ELSE c.first
  BY <1>1, RaisedFields
<1>4. /\ IsCp0(q) /\ q.exl /\ q.cause = code /\ q.bad = bad
      /\ q.epc = IF p.exl THEN p.epc ELSE pc2
      /\ q.first = IF p.first = "none" THEN code ELSE p.first
  BY <1>2, <1>3, RaisedFields
<1>5. p.first # "none"
  BY <1>3
<1>6. SameCp0(q, p)
  BY <1>3, <1>4, <1>5 DEF SameCp0
<1>. QED BY <1>1, <1>2, <1>3, <1>4, <1>6, Cp0Equal

LEMMA RefusedCodes ==
  ASSUME NEW addr, NEW size PROVE Refused(addr, size, "AdEL") \in {"none", "AdEL", "DBE"}
BY DEF Refused

\* A look keeps BadVAddr, and is an exception if it is refused.
LEMMA PeekRaised ==
  ASSUME NEW w, NEW addr, NEW size, IsCp0(w.c)
  PROVE  /\ peek(w, addr, size).c =
              IF Refused(addr, size, "AdEL") = "none" THEN w.c
              ELSE Raised(w.c, w.r.pc, Refused(addr, size, "AdEL"), w.c.bad)
         /\ IsCp0(peek(w, addr, size).c) /\ peek(w, addr, size).c.bad = w.c.bad
<1>1. PICK x : x = Refused(addr, size, "AdEL") OBVIOUS
<1>2. CASE x = "none"
  <2>1. peek(w, addr, size).c = [w.c EXCEPT !.bad = w.c.bad]
    BY <1>1, <1>2 DEF peek, Looked
  <2>2. [w.c EXCEPT !.bad = w.c.bad] = w.c
    BY DEF IsCp0
  <2>. QED BY <1>1, <1>2, <2>1, <2>2
<1>3. CASE x # "none"
  <2>1. peek(w, addr, size).c = [Raised(w.c, w.r.pc, x, addr) EXCEPT !.bad = w.c.bad]
    BY <1>1, <1>3 DEF peek, Looked, Raised
  <2>2. PICK y : y = [Raised(w.c, w.r.pc, x, addr) EXCEPT !.bad = w.c.bad] OBVIOUS
  <2>3. y = Raised(w.c, w.r.pc, x, w.c.bad)
    BY <2>2 DEF Raised
  <2>4. IsCp0(y) /\ y.bad = w.c.bad
    BY <2>3, RaisedFields
  <2>. QED BY <1>1, <1>3, <2>1, <2>2, <2>3, <2>4
<1>. QED BY <1>2, <1>3

\* The looks of the templates are one look, or none; after the exception that
\* they raise too they change nothing.
LEMMA LooksRaised ==
  ASSUME NEW w, NEW s, NEW t, IsCp0(w.c)
  PROVE  LET x == AfterLooks(w, s, t).c
         IN /\ IsCp0(x) /\ x.bad = w.c.bad
            /\ (\A a \in TemplateLooks(s, t) : Refused(a[1], a[2], "AdEL") \in {"none", w.r.exc})
                 /\ (w.r.exc # "none" => \E c, pc, bad : IsCp0(c) /\ w.c = Raised(c, pc, w.r.exc, bad))
               => x = w.c
<1>. DEFINE bad == {a \in TemplateLooks(s, t) : Refused(a[1], a[2], "AdEL") # "none"}
<1>1. CASE bad = {}
  BY <1>1 DEF AfterLooks
<1>2. CASE bad # {}
  <2>1. PICK a : a = CHOOSE y \in bad : TRUE OBVIOUS
  <2>2. a \in bad
    BY <1>2, <2>1
  <2>3. AfterLooks(w, s, t) = peek(w, a[1], a[2])
    BY <1>2, <2>1 DEF AfterLooks
  <2>4. PICK e : e = Refused(a[1], a[2], "AdEL") OBVIOUS
  <2>5. e \in {"AdEL", "DBE"} /\ a \in TemplateLooks(s, t)
    BY <2>2, <2>4, RefusedCodes
  <2>6. PICK x : x = AfterLooks(w, s, t).c OBVIOUS
  <2>7. x = Raised(w.c, w.r.pc, e, w.c.bad) /\ IsCp0(x) /\ x.bad = w.c.bad
    BY <2>3, <2>4, <2>5, <2>6, PeekRaised
  <2>8. ASSUME \A y \in TemplateLooks(s, t) : Refused(y[1], y[2], "AdEL") \in {"none", w.r.exc},
               w.r.exc # "none" => \E c, pc, b : IsCp0(c) /\ w.c = Raised(c, pc, w.r.exc, b)
        PROVE  x = w.c
    <3>1. e = w.r.exc /\ e # "none"
      BY <2>4, <2>5, <2>8
    <3>2. PICK c, pc, b : IsCp0(c) /\ w.c = Raised(c, pc, e, b)
      BY <2>8, <3>1
    <3>3. w.c.bad = b
      BY <3>2, RaisedFields
    <3>4. Raised(Raised(c, pc, e, b), w.r.pc, e, b) = Raised(c, pc, e, b)
      BY <2>5, <3>2, RaisedAfter
    <3>. QED BY <2>7, <3>2, <3>3, <3>4
  <2>. QED BY <2>6, <2>7, <2>8
<1>. QED BY <1>1, <1>2

\* A step keeps coprocessor 0 as that of the unobserved machine, as long as no
\* look strays, and BadVAddr always.
LEMMA Cp0Step ==
  ASSUME NarrationHarmless, IsCp0(cp0), IsCp0(plain0), FieldsInv, prog \in Programs,
         InText, NEW answer, Run(Fetched, answer)
  PROVE  /\ IsCp0(cp0') /\ IsCp0(plain0') /\ cp0'.bad = plain0'.bad
         /\ strayed' = {} => cp0' = plain0'
<1>1. PICK f : f = Fetched OBVIOUS
<1>2. PICK before, s, w, t, v : Stepped(f, answer, before, s, w, t, v)
  BY <1>1, RunParts, Zenon
<1>3. PICK seen : seen = Seen(before, f.i)
  OBVIOUS
<1>4. PICK e : Did(f, answer, before, w, v, e)
  BY <1>1, <1>2, StepEffect
<1>5. /\ before.r = Begun(m, FALSE) /\ before.c = cp0 /\ seen.r = before.r
      /\ w = Dispatched(seen, f.i, e)
      /\ w.r = Bumped(e) /\ HasFields(e) /\ w.r.exc = e.exc /\ v.r = w.r
  BY <1>3, <1>4 DEF Did
<1>6. /\ cp0' = v.c
      /\ v = IF explain_level < 2 \/ w.r.end THEN w ELSE AfterLooks(w, s, t)
      /\ s = Snapshot(before.r, f.i)
      /\ strayed' = strayed \cup
           IF Strays(Looks(before, s, w, t, f.i), w) THEN {f.i.op} ELSE {}
  BY <1>2, Zenon DEF Stepped, Leaves
<1>7. PICK pc, addr : pc = before.r.pc /\ addr = Address(before.r, f.i) OBVIOUS
<1>8. plain0' = IF e.exc = "none" THEN plain0 ELSE Raised(plain0, pc, e.exc, addr)
  <2>1. PICK bare : bare = [r |-> Begun(plain, FALSE), c |-> plain0] OBVIOUS
  <2>2. plain0' = Dispatch(bare, f.i, answer).c
    BY <1>2, <2>1 DEF Stepped, Leaves, Unobserved
  <2>3. bare.r = before.r /\ bare.c = plain0
    BY <1>5, <2>1 DEF NarrationHarmless
  <2>4. Dispatch(bare, f.i, answer) = Dispatched(bare, f.i, e)
    BY <1>4, <2>3 DEF Dispatch, Did
  <2>. QED BY <1>7, <2>2, <2>3, <2>4 DEF Dispatched, Raised
<1>9. w.c = IF e.exc = "none" THEN seen.c ELSE Raised(seen.c, pc, e.exc, addr)
  BY <1>5, <1>7 DEF Dispatched, Raised
<1>10. IsCp0(seen.c) /\ seen.c.bad = cp0.bad
  <2>1. IsCp0(before.c)
    BY <1>5
  <2>2. \A x, n : IsCp0(peek(before, x, n).c) /\ peek(before, x, n).c.bad = before.c.bad
    BY <2>1, PeekRaised
  <2>3. seen = before \/ seen = peek(before, Address(before.r, f.i), 4)
    BY <1>3 DEF Seen, AfterSnapshot
  <2>. QED BY <1>5, <2>1, <2>2, <2>3
<1>11. IsCp0(w.c)
  BY <1>9, <1>10, RaisedFields
<1>12. /\ IsCp0(plain0')
       /\ plain0'.bad = w.c.bad
  BY <1>8, <1>9, <1>10, RaisedFields DEF NarrationHarmless
<1>13. IsCp0(v.c) /\ v.c.bad = w.c.bad
  BY <1>6, <1>11, LooksRaised
<1>14. ASSUME strayed' = {} PROVE v.c = plain0'
  <2>1. cp0 = plain0 /\ ~Strays(Looks(before, s, w, t, f.i), w)
    BY <1>6, <1>14 DEF NarrationHarmless
  <2>2. \A a \in Looks(before, s, w, t, f.i) : Refused(a[1], a[2], "AdEL") \in {"none", e.exc}
    BY <1>5, <2>1 DEF Strays
  <2>3. w.c = plain0'
    <3>1. CASE seen.c = cp0
      BY <1>8, <1>9, <2>1, <3>1
    <3>2. CASE seen.c # cp0
      <4>1. explain_level # 0 /\ f.i.op \in {"SW", "SH", "SB"} /\ seen = peek(before, addr, 4)
        BY <1>3, <1>5, <1>7, <3>2 DEF Seen, AfterSnapshot
      <4>2. PICK x : x = Refused(addr, 4, "AdEL") OBVIOUS
      <4>3. seen.c = Raised(cp0, pc, x, cp0.bad) /\ x \in {"AdEL", "DBE"}
        <5>1. seen.c = IF x = "none" THEN before.c
                       ELSE Raised(before.c, before.r.pc, x, before.c.bad)
          <6>1. IsCp0(before.c)
            BY <1>5
          <6>2. peek(before, addr, 4).c =
                  IF Refused(addr, 4, "AdEL") = "none" THEN before.c
                  ELSE Raised(before.c, before.r.pc, Refused(addr, 4, "AdEL"), before.c.bad)
            BY <6>1, PeekRaised, Zenon
          <6>. QED BY <4>1, <4>2, <6>2
        <5>2. x # "none" /\ x \in {"none", "AdEL", "DBE"}
          BY <1>5, <3>2, <4>2, <5>1, RefusedCodes
        <5>. QED BY <1>5, <1>7, <5>1, <5>2
      <4>4. <<addr, 4>> \in Looks(before, s, w, t, f.i)
        BY <1>7, <4>1 DEF Looks, SnapshotLooks
      <4>5. x = e.exc
        BY <2>2, <4>2, <4>3, <4>4
      <4>6. Raised(Raised(cp0, pc, x, cp0.bad), pc, x, addr) = Raised(cp0, pc, x, addr)
        BY <4>3, RaisedTwice
      <4>. QED BY <1>8, <1>9, <2>1, <4>3, <4>5, <4>6
    <3>. QED BY <3>1, <3>2
  <2>4. v.c = w.c
    <3>1. CASE explain_level < 2 \/ w.r.end
      BY <1>6, <3>1
    <3>2. CASE ~(explain_level < 2 \/ w.r.end)
      <4>1. v = AfterLooks(w, s, t)
        BY <1>6, <3>2
      <4>2. \A a \in TemplateLooks(s, t) : a \in Looks(before, s, w, t, f.i) \/ explain_level = 0
        BY <3>2 DEF Looks
      <4>3. explain_level # 0
        BY <3>2
      <4>4. \A a \in TemplateLooks(s, t) : Refused(a[1], a[2], "AdEL") \in {"none", w.r.exc}
        BY <1>5, <2>2, <4>2, <4>3
      <4>5. w.r.exc # "none" => \E c, p, b : IsCp0(c) /\ w.c = Raised(c, p, w.r.exc, b)
        BY <1>5, <1>9, <1>10
      <4>. QED BY <1>11, <4>1, <4>4, <4>5, LooksRaised
    <3>. QED BY <3>1, <3>2
  <2>. QED BY <2>3, <2>4
<1>. QED BY <1>6, <1>12, <1>13, <1>14

HarmlessInv == NarrationHarmless /\ IsCp0(cp0) /\ IsCp0(plain0)

LEMMA FieldsInvAlways == Spec => [](PendingInv /\ FieldsInv)
<1>1. Init => FieldsInv
  BY DEF Init, FieldsInv, Fields
<1>2. PendingInv /\ FieldsInv /\ [Next]_vars => FieldsInv'
  <2>. SUFFICES ASSUME PendingInv, FieldsInv, [Next]_vars PROVE FieldsInv'
    OBVIOUS
  <2>1. CASE StepOne
    <3>1. PICK f, answer : f = Fetched /\ Run(f, answer)
      BY <2>1 DEF StepOne
    <3>2. PICK before, s, w, t, v : Stepped(f, answer, before, s, w, t, v)
      BY <3>1, RunParts, Zenon
    <3>3. prog \in Programs /\ InText
      BY <2>1 DEF PendingInv, StepOne
    <3>. QED BY <3>1, <3>2, <3>3, StepFields DEF FieldsInv
  <2>2. CASE UNCHANGED vars
    BY <2>2 DEF vars, machines, FieldsInv
  <2>. QED BY <2>1, <2>2 DEF Next, Finished
<1>. QED BY <1>1, <1>2, PendingInvAlways, PTL DEF Spec

\* For every program, at every level, and whatever addresses the narrator looks
\* at: registers, memory, PC, the exception of each instruction and BadVAddr are
\* those of the unobserved program; and so are EXL, EPC, the cause and the first
\* exception, until a store strays (explain.c 418-438, peek_word, peek_half,
\* peek_byte, which put exception_occurred and BadVAddr back and nothing else).
THEOREM NarrationHarmlessAlways == Spec => []NarrationHarmless
<1>1. Init => HarmlessInv
  <2>. SUFFICES ASSUME Init PROVE HarmlessInv
    OBVIOUS
  <2>1. m = plain /\ cp0 = plain0
    BY DEF Init
  <2>2. cp0 = [exl |-> FALSE, epc |-> 0, cause |-> "none", bad |-> 0, first |-> "none"]
    BY DEF Init
  <2>3. IsCp0(cp0)
    BY <2>2 DEF IsCp0
  <2>. QED BY <2>1, <2>3 DEF HarmlessInv, NarrationHarmless
<1>2. PendingInv /\ FieldsInv /\ HarmlessInv /\ [Next]_vars => HarmlessInv'
  <2>. SUFFICES ASSUME PendingInv, FieldsInv, HarmlessInv, [Next]_vars PROVE HarmlessInv'
    OBVIOUS
  <2>1. CASE StepOne
    <3>1. PICK answer : Run(Fetched, answer)
      BY <2>1 DEF StepOne
    <3>2. prog \in Programs /\ InText
      BY <2>1 DEF PendingInv, StepOne
    <3>3. m' = plain'
      BY <3>1, RunHarmless DEF HarmlessInv, NarrationHarmless
    <3>4. /\ IsCp0(cp0') /\ IsCp0(plain0') /\ cp0'.bad = plain0'.bad
          /\ strayed' = {} => cp0' = plain0'
      BY <3>1, <3>2, Cp0Step DEF HarmlessInv
    <3>5. NarrationHarmless'
      BY <3>3, <3>4 DEF NarrationHarmless
    <3>6. IsCp0(cp0)' /\ IsCp0(plain0)'
      BY <3>4 DEF IsCp0
    <3>. QED BY <3>5, <3>6 DEF HarmlessInv
  <2>2. CASE UNCHANGED vars
    BY <2>2 DEF vars, machines, NarrationHarmless, HarmlessInv, IsCp0
  <2>. QED BY <2>1, <2>2 DEF Next, Finished
<1>3. HarmlessInv => NarrationHarmless
  BY DEF HarmlessInv
<1>. QED BY <1>1, <1>2, <1>3, FieldsInvAlways, PTL DEF Spec

-----------------------------------------------------------------------------
(* The suggestions are those of the last instruction, all of them.         *)

Few(q, n) == (\E S : q \in Seq(S)) /\ Len(q) <= n

LEMMA FewJoined ==
  ASSUME NEW p, NEW q, NEW a \in Nat, NEW b \in Nat, Few(p, a), Few(q, b)
  PROVE  Few(p \o q, a + b)
<1>1. PICK S : p \in Seq(S)
  BY DEF Few
<1>2. PICK T : q \in Seq(T)
  BY DEF Few
<1>3. p \in Seq(S \cup T) /\ q \in Seq(S \cup T)
  BY <1>1, <1>2
<1>4. p \o q \in Seq(S \cup T) /\ Len(p \o q) = Len(p) + Len(q)
  BY <1>3
<1>. QED BY <1>3, <1>4 DEF Few

LEMMA FewLoose ==
  ASSUME NEW q, NEW a \in Nat, NEW b \in Nat, Few(q, a), a <= b PROVE Few(q, b)
BY DEF Few

LEMMA TryRegsFew ==
  ASSUME NEW S, NEW regs \in Seq(S) PROVE Few(say_try_regs(regs), Len(regs))
<1>. DEFINE ks == {k \in 1..Len(regs) : regs[k] # 0 /\ \A j \in 1..(k - 1) : regs[j] # regs[k]}
            at(n) == CHOOSE k \in ks : Cardinality({j \in ks : j <= k}) = n
<1>1. say_try_regs(regs) = [n \in 1..Cardinality(ks) |-> reg(regs[at(n)])]
  BY DEF say_try_regs
<1>2. IsFiniteSet(1..Len(regs)) /\ Cardinality(1..Len(regs)) = Len(regs)
  <2>1. PICK n : n = Len(regs) /\ n \in Nat
    OBVIOUS
  <2>2. IsFiniteSet(1..n) /\ Cardinality(1..n) = IF 1 > n THEN 0 ELSE n - 1 + 1
    <3>1. 1 \in Int /\ n \in Int
      BY <2>1
    <3>. QED BY <3>1, FS_Interval, Zenon
  <2>. QED BY <2>1, <2>2
<1>3. ks \subseteq 1..Len(regs)
  OBVIOUS
<1>4. Cardinality(ks) \in Nat /\ Cardinality(ks) <= Len(regs)
  BY <1>2, <1>3, FS_Subset, FS_CardinalityType
<1>5. PICK c : c = Cardinality(ks) OBVIOUS
<1>6. PICK R : R = {reg(regs[at(n)]) : n \in 1..c} OBVIOUS
<1>7. say_try_regs(regs) \in [1..c -> R]
  BY <1>1, <1>5, <1>6
<1>8. PICK q : q = say_try_regs(regs) OBVIOUS
<1>. HIDE DEF ks
<1>9. c \in Nat /\ c <= Len(regs) /\ q \in [1..c -> R]
  BY <1>4, <1>5, <1>7, <1>8
<1>10. q \in Seq(R) /\ Len(q) = c
  BY <1>9
<1>. QED BY <1>8, <1>9, <1>10 DEF Few

LEMMA SaysFew ==
  ASSUME NEW a, NEW b, NEW S, NEW regs \in Seq(S)
  PROVE  Few(Says(a, b, regs).tries, Len(regs))
<1>1. Says(a, b, regs).tries = say_try_regs(regs)
  BY DEF Says, Silent
<1>. QED BY <1>1, TryRegsFew

LEMMA SaysUpTo3 ==
  ASSUME NEW a, NEW b, NEW x, NEW y, NEW z
  PROVE  /\ Few(Says(a, b, <<>>).tries, 3) /\ Few(Says(a, b, <<x>>).tries, 3)
         /\ Few(Says(a, b, <<x, y>>).tries, 3) /\ Few(Says(a, b, <<x, y, z>>).tries, 3)
<1>1. <<>> \in Seq({}) /\ <<x>> \in Seq({x}) /\ <<x, y>> \in Seq({x, y})
      /\ <<x, y, z>> \in Seq({x, y, z})
  OBVIOUS
<1>2. Len(<<>>) = 0 /\ Len(<<x>>) = 1 /\ Len(<<x, y>>) = 2 /\ Len(<<x, y, z>>) = 3
  OBVIOUS
<1>3. Few(Says(a, b, <<>>).tries, 0) /\ Few(Says(a, b, <<x>>).tries, 1)
  BY <1>1, <1>2, SaysFew
<1>4. Few(Says(a, b, <<x, y>>).tries, 2)
  BY <1>1, <1>2, SaysFew
<1>5. Few(Says(a, b, <<x, y, z>>).tries, 3)
  BY <1>1, <1>2, SaysFew
<1>. QED BY <1>3, <1>4, <1>5, FewLoose

LEMMA FinishFew ==
  ASSUME NEW q, Few(q, 5)
  PROVE  Few(say_try_finish(q), 5) /\ Len(say_try_finish(q)) >= 3
<1>1. PICK S : q \in Seq(S)
  BY DEF Few
<1>2. PICK n : n = Len(q) /\ n \in Nat /\ n <= 5
  BY <1>1 DEF Few
<1>3. CASE n >= 3
  BY <1>1, <1>2, <1>3 DEF say_try_finish, Few
<1>4. CASE n < 3
  <2>1. PICK generic : generic = <<<<"print_all_regs", 0, 0>>, <<"step", 0, 0>>, <<"continue", 0, 0>>>>
    OBVIOUS
  <2>2. PICK T : generic \in Seq(T) /\ Len(generic) = 3
    <3>1. PICK T : T = {<<"print_all_regs", 0, 0>>, <<"step", 0, 0>>, <<"continue", 0, 0>>}
      OBVIOUS
    <3>2. generic \in Seq(T) /\ Len(generic) = 3
      BY <2>1, <3>1
    <3>. QED BY <3>2
  <2>3. PICK more : more = SubSeq(generic, 1, 3 - n) OBVIOUS
  <2>4. more \in Seq(T) /\ Len(more) = 3 - n
    BY <1>2, <1>4, <2>2, <2>3
  <2>5. say_try_finish(q) = q \o more
    BY <1>2, <1>4, <2>1, <2>3 DEF say_try_finish
  <2>6. q \in Seq(S \cup T) /\ more \in Seq(S \cup T)
    BY <1>1, <2>4
  <2>7. q \o more \in Seq(S \cup T) /\ Len(q \o more) = 3
    BY <1>2, <2>4, <2>6
  <2>. QED BY <2>5, <2>7 DEF Few
<1>. QED BY <1>2, <1>3, <1>4

LEMMA AllAdded ==
  ASSUME NEW q, Few(q, 5)
  PROVE  add_suggestions(explain_clear_suggestions(suggestions), q) = q
<1>1. PICK S : q \in Seq(S)
  BY DEF Few
<1>2. PICK none : none = explain_clear_suggestions(suggestions) OBVIOUS
<1>3. none = <<>>
  BY <1>2 DEF explain_clear_suggestions
<1>4. none \o q = q
  BY <1>1, <1>3
<1>5. Len(q) \in Nat /\ Len(q) <= MAX_SUGGESTIONS
  BY <1>1, ExplainAssumption DEF Few
<1>6. add_suggestions(none, q) = SubSeq(q, 1, Len(q))
  BY <1>4, <1>5, ExplainAssumption DEF add_suggestions
<1>7. SubSeq(q, 1, Len(q)) = q
  BY <1>1
<1>. QED BY <1>2, <1>6, <1>7

LEMMA TemplatesFew ==
  ASSUME NEW i, NEW ea, NEW taken, NEW s
  PROVE  /\ Few(tpl_r3_arith(i).tries, 5) /\ Few(tpl_i2_arith(i).tries, 5)
         /\ Few(tpl_shift(i).tries, 5) /\ Few(lui(i).tries, 5)
         /\ Few(tpl_load(i, ea).tries, 5) /\ Few(tpl_store(i, ea).tries, 5)
         /\ Few(tpl_load_unaligned(i, ea).tries, 5) /\ Few(tpl_store_unaligned(i).tries, 5)
         /\ Few(tpl_store_conditional(i).tries, 5) /\ Few(tpl_load_linked(i, ea).tries, 5)
         /\ Few(tpl_load_fp(i, ea).tries, 5) /\ Few(tpl_store_fp(i).tries, 5)
         /\ Few(tpl_branch_2reg(s, i, taken).tries, 5) /\ Few(tpl_branch_1reg(s, i, taken).tries, 5)
         /\ i.op \in JumpOps => Few(Jumped(i).tries, 5)
         /\ Few(MovedHiLo(i).tries, 5) /\ Few(Multiplied(i).tries, 5)
         /\ Few(explain_syscall(s).tries, 5) /\ Few(Silent.tries, 5)
<1>1. \A a, b, x, y, z : /\ Few(Says(a, b, <<>>).tries, 3) /\ Few(Says(a, b, <<x>>).tries, 3)
                         /\ Few(Says(a, b, <<x, y>>).tries, 3)
                         /\ Few(Says(a, b, <<x, y, z>>).tries, 3)
  BY SaysUpTo3
<1>2. \A q : Few(q, 3) => Few(q, 5)
  BY FewLoose
<1>3. \A a, b, q : /\ DOMAIN Says(a, b, q)
                       = {"reads", "wrote", "hl", "look", "mem", "open", "tries", "taken"}
  BY DEF Says, Silent
<1>4. \A q : Few(q, 3) => Few(q \o MemoryTries(ea, i), 5)
  <2>1. PICK x, y : MemoryTries(ea, i) = <<x, y>>
    BY Zenon DEF MemoryTries
  <2>2. <<x, y>> \in Seq({x, y}) /\ Len(<<x, y>>) = 2
    OBVIOUS
  <2>3. Few(MemoryTries(ea, i), 2)
    <3>1. PICK q, S : q = <<x, y>> /\ S = {x, y} OBVIOUS
    <3>2. q \in Seq(S) /\ Len(q) <= 2
      BY <2>2, <3>1
    <3>3. Few(q, 2)
      BY <3>2 DEF Few
    <3>. QED BY <2>1, <3>1, <3>3
  <2>. QED BY <2>3, FewJoined
<1>5. Few(tpl_r3_arith(i).tries, 5) /\ Few(tpl_i2_arith(i).tries, 5)
  BY <1>1, <1>2 DEF tpl_r3_arith, tpl_i2_arith
<1>6. Few(tpl_shift(i).tries, 5) /\ Few(lui(i).tries, 5)
  BY <1>1, <1>2 DEF tpl_shift, lui
<1>7. Few(tpl_load(i, ea).tries, 5)
  BY <1>1, <1>3, <1>4 DEF tpl_load
<1>8. Few(tpl_store(i, ea).tries, 5)
  BY <1>1, <1>3, <1>4 DEF tpl_store
<1>9. Few(tpl_load_unaligned(i, ea).tries, 5) /\ Few(tpl_store_unaligned(i).tries, 5)
  BY <1>1, <1>2, <1>3 DEF tpl_load_unaligned, tpl_store_unaligned
<1>10. Few(tpl_store_conditional(i).tries, 5) /\ Few(tpl_load_linked(i, ea).tries, 5)
  BY <1>1, <1>2, <1>3 DEF tpl_store_conditional, tpl_load_linked
<1>11. Few(tpl_load_fp(i, ea).tries, 5) /\ Few(tpl_store_fp(i).tries, 5)
  BY <1>1, <1>2, <1>3 DEF tpl_load_fp, tpl_store_fp
<1>12. Few(tpl_branch_2reg(s, i, taken).tries, 5) /\ Few(tpl_branch_1reg(s, i, taken).tries, 5)
  BY <1>1, <1>2, <1>3 DEF tpl_branch_2reg, tpl_branch_1reg
<1>13. i.op \in JumpOps => Few(Jumped(i).tries, 5)
  BY <1>1, <1>2 DEF Jumped, JumpOps
<1>14. Few(MovedHiLo(i).tries, 5) /\ Few(Multiplied(i).tries, 5)
  BY <1>1, <1>2, <1>3 DEF MovedHiLo, Multiplied
<1>15. Few(explain_syscall(s).tries, 5)
  <2>1. PICK v0 : v0 = s.g[REG_V0] OBVIOUS
  <2>2. CASE v0 = 4
    <3>1. PICK base : base = Says({REG_V0, REG_A0}, {}, <<REG_V0, REG_A0>>) OBVIOUS
    <3>2. PICK e : e = <<"print addr", s.g[REG_A0], 0>> OBVIOUS
    <3>3. explain_syscall(s) = [base EXCEPT !.tries = Append(@, e)]
      <4>1. s.g[REG_V0] = 4
        BY <2>1, <2>2
      <4>2. \A x, y : (CASE s.g[REG_V0] \in {1, 11} -> x
                         [] s.g[REG_V0] = 4 -> y
                         [] s.g[REG_V0] = 5 -> Says({REG_V0}, {REG_V0}, <<REG_V0>>)
                         [] s.g[REG_V0] = 8 -> Says({REG_V0, REG_A0, REG_A1}, {},
                                                    <<REG_V0, REG_A0, REG_A1>>)
                         [] s.g[REG_V0] = 10 -> Says({REG_V0}, {}, <<REG_V0>>)
                         [] OTHER -> Says({REG_V0}, {}, <<REG_V0, REG_A0, REG_A1>>)) = y
        BY <4>1
      <4>. QED BY <4>2, <3>1, <3>2, Zenon DEF explain_syscall
    <3>4. explain_syscall(s).tries = Append(base.tries, e)
      BY <1>3, <3>1, <3>3
    <3>5. Few(base.tries, 3)
      BY <1>1, <3>1
    <3>6. PICK S, q : q = base.tries /\ q \in Seq(S) /\ Len(q) <= 3
      BY <3>5 DEF Few
    <3>7. Append(q, e) \in Seq(S \cup {e}) /\ Len(Append(q, e)) = Len(q) + 1
      BY <3>6
    <3>8. Len(Append(q, e)) <= 5
      BY <3>6, <3>7
    <3>9. Few(Append(q, e), 5)
      BY <3>7, <3>8 DEF Few
    <3>. QED BY <3>4, <3>6, <3>9
  <2>3. CASE v0 # 4
    BY <1>1, <1>2, <2>1, <2>3 DEF explain_syscall
  <2>. QED BY <2>2, <2>3
<1>16. Few(Silent.tries, 5)
  <2>1. Silent.tries = <<>>
    BY DEF Silent
  <2>2. <<>> \in Seq({}) /\ Len(<<>>) = 0
    OBVIOUS
  <2>. QED BY <2>1, <2>2 DEF Few
<1>. QED BY <1>5, <1>6, <1>7, <1>8, <1>9, <1>10, <1>11, <1>12, <1>13, <1>14, <1>15, <1>16

LEMMA RenderedFew ==
  ASSUME NEW s, NEW r, NEW i PROVE Few(render_dispatch(s, r, i).tries, 5)
<1>. USE DEF RegisterForm, JumpOps
<1>1. \A ea, taken :
        /\ Few(tpl_r3_arith(i).tries, 5) /\ Few(tpl_i2_arith(i).tries, 5)
        /\ Few(tpl_shift(i).tries, 5) /\ Few(lui(i).tries, 5)
        /\ Few(tpl_load(i, ea).tries, 5) /\ Few(tpl_store(i, ea).tries, 5)
        /\ Few(tpl_load_unaligned(i, ea).tries, 5) /\ Few(tpl_store_unaligned(i).tries, 5)
        /\ Few(tpl_store_conditional(i).tries, 5) /\ Few(tpl_load_linked(i, ea).tries, 5)
        /\ Few(tpl_load_fp(i, ea).tries, 5) /\ Few(tpl_store_fp(i).tries, 5)
        /\ Few(tpl_branch_2reg(s, i, taken).tries, 5) /\ Few(tpl_branch_1reg(s, i, taken).tries, 5)
        /\ i.op \in JumpOps => Few(Jumped(i).tries, 5)
        /\ Few(MovedHiLo(i).tries, 5) /\ Few(Multiplied(i).tries, 5)
        /\ Few(explain_syscall(s).tries, 5) /\ Few(Silent.tries, 5)
  BY TemplatesFew
<1>2. Few(Says({}, {}, <<>>).tries, 5)
  <2>1. Few(Says({}, {}, <<>>).tries, 3)
    BY SaysUpTo3
  <2>. QED BY <2>1, FewLoose
<1>3. PICK ea : ea = EffectiveAddress(s, r, i) OBVIOUS
<1>4. CASE i.op \in {"ADD", "ADDU", "SUB", "SUBU", "AND", "OR", "XOR", "NOR", "SLT",
                    "SLTU", "MUL"} \cup DOMAIN RegisterForm \cup {"LUI"}
  BY <1>1, <1>4 DEF render_dispatch
<1>5. CASE i.op \in {"SLL", "SRL", "SRA"}
  BY <1>1, <1>2, <1>5 DEF render_dispatch
<1>6. CASE i.op \in {"LW", "LB", "LBU", "LH", "LHU", "SW", "SB", "SH"}
  BY <1>1, <1>6 DEF render_dispatch
<1>7. CASE i.op \in {"LWL", "LWR", "SWL", "SWR", "LL", "SC", "LWC1", "LDC1", "SWC1", "SDC1"}
  BY <1>1, <1>7 DEF render_dispatch
<1>8. CASE i.op \in {"BEQ", "BNE", "BGEZ", "BGTZ", "BLEZ", "BLTZ"}
  BY <1>1, <1>8 DEF render_dispatch
<1>9. CASE i.op \in JumpOps \cup {"MFHI", "MFLO", "MULT", "DIV", "MULTU", "DIVU", "SYSCALL"}
  BY <1>1, <1>9 DEF render_dispatch
<1>10. CASE ~(\/ i.op \in {"ADD", "ADDU", "SUB", "SUBU", "AND", "OR", "XOR", "NOR", "SLT",
                           "SLTU", "MUL"} \cup DOMAIN RegisterForm \cup {"LUI"}
              \/ i.op \in {"SLL", "SRL", "SRA"}
              \/ i.op \in {"LW", "LB", "LBU", "LH", "LHU", "SW", "SB", "SH"}
              \/ i.op \in {"LWL", "LWR", "SWL", "SWR", "LL", "SC", "LWC1", "LDC1", "SWC1", "SDC1"}
              \/ i.op \in {"BEQ", "BNE", "BGEZ", "BGTZ", "BLEZ", "BLTZ"}
              \/ i.op \in JumpOps \cup {"MFHI", "MFLO", "MULT", "DIV", "MULTU", "DIVU", "SYSCALL"})
  BY <1>1, <1>10 DEF render_dispatch
<1>. QED BY <1>4, <1>5, <1>6, <1>7, <1>8, <1>9, <1>10


LEMMA HintsStep ==
  ASSUME PendingInv, StepOne PROVE HintsFresh'
<1>1. PICK answer : Run(Fetched, answer)
  BY DEF StepOne
<1>2. PICK f : f = Fetched OBVIOUS
<1>3. PICK before, s, w, t, v : Stepped(f, answer, before, s, w, t, v)
  BY <1>1, <1>2, RunParts, Zenon
<1>. SUFFICES ASSUME said'.told
              PROVE  suggestions' = said'.tries /\ (said'.open => Len(suggestions') >= 3)
  BY DEF HintsFresh
<1>4. explain_level # 0
  BY <1>3 DEF Stepped, Leaves, narrator, PendingInv
<1>5. IF w.r.end THEN LeftUntold ELSE explain_after(f, s, w, t)
  BY <1>3, <1>4 DEF Stepped, Leaves
<1>6. LeftUntold => ~said'.told
  BY DEF LeftUntold, Nothing
<1>7. explain_after(f, s, w, t)
  BY <1>5, <1>6
<1>8. Few(t.tries, 5)
  BY <1>3, RenderedFew DEF Stepped
<1>9. PICK mine : mine = [regs |-> Untouched(touched).regs \cup (t.wrote \ {0}),
                          hl |-> Untouched(touched).hl \cup t.hl]
  OBVIOUS
<1>10. PICK x : x = IF explain_level >= 2 THEN Narration(s, w.r, f.i, mine, t)
                    ELSE [Nothing EXCEPT !.told = TRUE]
  OBVIOUS
<1>11. said' = [x EXCEPT !.pseudo = PseudoHeader(pending, f.src),
                         !.legend = Header(flags).legend]
  BY <1>7, <1>9, <1>10, Zenon DEF explain_after
<1>12. suggestions' = add_suggestions(explain_clear_suggestions(suggestions), said'.tries)
  BY <1>7 DEF explain_after
<1>13. /\ "tries" \in DOMAIN x /\ "open" \in DOMAIN x
       /\ \/ x.tries = <<>> /\ ~x.open
          \/ x.tries = say_try_finish(t.tries)
  BY <1>10 DEF Narration, Nothing
<1>14. said'.tries = x.tries /\ said'.open = x.open
  BY <1>11, <1>13
<1>15. Few(<<>>, 5)
  <2>1. <<>> \in Seq({}) /\ Len(<<>>) = 0
    OBVIOUS
  <2>. QED BY <2>1 DEF Few
<1>16. Few(say_try_finish(t.tries), 5) /\ Len(say_try_finish(t.tries)) >= 3
  BY <1>8, FinishFew
<1>17. Few(said'.tries, 5)
  BY <1>13, <1>14, <1>15, <1>16
<1>18. suggestions' = said'.tries
  BY <1>12, <1>17, AllAdded
<1>. QED BY <1>13, <1>14, <1>16, <1>18

\* For every program: what Tab offers is what was printed for the last
\* instruction that was told, all of it, and three commands at least where a
\* block was printed; no block outgrows the list (explain.c, add_suggestion,
\* say_try_finish, explain_clear_suggestions).
THEOREM HintsFreshAlways == Spec => []HintsFresh
<1>1. Init => HintsFresh
  BY DEF Init, HintsFresh, Nothing
<1>2. PendingInv /\ HintsFresh /\ [Next]_vars => HintsFresh'
  <2>. SUFFICES ASSUME PendingInv, HintsFresh, [Next]_vars PROVE HintsFresh'
    OBVIOUS
  <2>1. CASE StepOne
    BY <2>1, HintsStep
  <2>2. CASE UNCHANGED vars
    BY <2>2 DEF vars, narrator, HintsFresh
  <2>. QED BY <2>1, <2>2 DEF Next, Finished
<1>. QED BY <1>1, <1>2, PendingInvAlways, PTL DEF Spec
=============================================================================
