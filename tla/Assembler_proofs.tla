-------------------------- MODULE Assembler_proofs --------------------------
(***************************************************************************)
(* Proofs about the assembler, for every set of files, names and segment   *)
(* layout: its state is well-typed and no forward reference is forgotten;  *)
(* local names end with their file; definitions and items stand where the  *)
(* source puts them; literals are never overwritten, and references hold   *)
(* what the definition they see stands for.                                *)
(***************************************************************************)
EXTENDS Assembler, Iteration

LEMMA AlignedNat == \A a \in Nat : Aligned(a) \in Nat
<1> SUFFICES ASSUME NEW a \in Nat PROVE Aligned(a) \in Nat
  OBVIOUS
<1> DEFINE q == (a + W - 1) \div W
<1>1. W \in Nat /\ W > 0
  BY AssemblerAssumption
<1>2. q \in Nat
  <2>1. a + W - 1 \in Nat
    BY <1>1
  <2> QED
    BY <1>1, <2>1
<1> HIDE DEF q
<1>3. q * W \in Nat
  BY <1>1, <1>2
<1> QED
  BY <1>3 DEF Aligned, q

LEMMA EntryOfType ==
  ASSUME TypeOK, file \in 1..MaxFiles, NEW n \in Names
  PROVE  /\ EntryOf(n) \in Entry
         /\ [table EXCEPT ![n] = EntryOf(n)[2]] \in [Names -> 0..MaxFiles]
  BY AssemblerAssumption DEF TypeOK, EntryOf, Entry

LEMMA RecordType ==
  ASSUME TypeOK, NEW e \in Entry, NEW a \in Nat, NEW global \in BOOLEAN,
         NEW known \in [Entry -> Nat], record_label(e, a, global, known)
  PROVE  /\ addr' \in [Entry -> Nat] /\ errors' \in BOOLEAN
         /\ next_local' \in [Entry -> Entry \cup {NoEntry}]
         /\ local_labels' \in Entry \cup {NoEntry}
         /\ \A x \in Entry : x # e => addr'[x] = known[x]
         /\ known[e] # 0 => addr' = known
<1> USE DEF TypeOK, record_label
<1>1. errors' \in BOOLEAN
  OBVIOUS
<1>2. addr' \in [Entry -> Nat]
  OBVIOUS
<1>3. next_local' \in [Entry -> Entry \cup {NoEntry}]
  OBVIOUS
<1>4. local_labels' \in Entry \cup {NoEntry}
  OBVIOUS
<1>5. \A x \in Entry : x # e => addr'[x] = known[x]
  OBVIOUS
<1>6. known[e] # 0 => addr' = known
  OBVIOUS
<1> QED
  BY <1>1, <1>2, <1>3, <1>4, <1>5, <1>6

LEMMA FixedType ==
  ASSUME TypeOK, NEW a \in Nat
  PROVE  fix_current_label_address(a) \in [Entry -> Nat]
  BY DEF TypeOK, fix_current_label_address

LEMMA SegmentTypes ==
  ASSUME TypeOK
  PROVE  /\ TextSeg \in Segments /\ DataSeg \in Segments
         /\ pc[TextSeg] \in Nat /\ pc[DataSeg] \in Nat
  BY DEF TypeOK, TextSeg, DataSeg, Segments

LEMMA CounterType ==
  ASSUME TypeOK, NEW seg \in Segments, NEW v \in Nat
  PROVE  [pc EXCEPT ![seg] = v] \in [Segments -> Nat]
  BY DEF TypeOK

LEMMA NodeType ==
  ASSUME TypeOK, NodesNamed, phase = "emit", i <= Len(ast)
  PROVE  /\ node \in Stmt /\ file \in 1..MaxFiles
         /\ node.n \in Nat /\ node.name \in Names \cup {NoName}
         /\ node.op \in Definitions \cup {"globl"} => node.name \in Names
<1>1. i \in 1..Len(ast)
  BY DEF TypeOK
<1>2. node \in Stmt
  BY <1>1 DEF TypeOK, node
<1>3. file \in 1..MaxFiles
  BY AssemblerAssumption DEF TypeOK, file
<1>4. node.op \in Definitions \cup {"globl"} => node.name \in Names
  BY <1>1 DEF NodesNamed, node
<1> QED
  BY <1>2, <1>3, <1>4 DEF Stmt

-----------------------------------------------------------------------------
(* Type correctness, action by action. *)

LEMMA NodeOf ==
  ASSUME TypeOK, NEW s \in Stmt, NEW seg,
         s.op \in Definitions \cup {"globl"} => s.name \in Names
  PROVE  /\ Node(s, seg) \in Stmt
         /\ Node(s, seg).op \in Definitions \cup {"globl"} => Node(s, seg).name \in Names
<1> USE AssemblerAssumption
<1>1. s.n \in Nat /\ s.name \in Names \cup {NoName} /\ s.op \in Ops
  BY DEF Stmt
<1>2. AddressNow(s.name) \in Nat
  BY <1>1 DEF AddressNow, TypeOK, Entry
<1>3. CASE s.op = "space" /\ ~IsData(seg)
  BY <1>1, <1>3 DEF Node, Stmt, Ops, Definitions, LabelOps
<1>4. CASE ~(s.op = "space" /\ ~IsData(seg)) /\ (s.op = "space" \/ (s.op \in DataOps /\ AddressNow(s.name) # 0))
  <2>1. Node(s, seg) = [s EXCEPT !.name = NoName, !.n = @ + AddressNow(s.name)]
    BY <1>4 DEF Node
  <2>2. s.n + AddressNow(s.name) \in Nat
    BY <1>1, <1>2
  <2>3. Node(s, seg) \in Stmt
    BY <1>1, <2>1, <2>2 DEF Stmt
  <2>4. Node(s, seg).op = s.op
    BY <2>1 DEF Stmt
  <2>5. s.op \notin Definitions \cup {"globl"}
    BY <1>4 DEF DataOps, Definitions, LabelOps
  <2> QED
    BY <2>3, <2>4, <2>5
<1>5. CASE ~(s.op = "space" /\ ~IsData(seg)) /\ ~(s.op = "space" \/ (s.op \in DataOps /\ AddressNow(s.name) # 0))
  BY <1>5 DEF Node
<1> QED
  BY <1>3, <1>4, <1>5

LEMMA ParseType ==
  ASSUME TypeOK, phase = "idle", file < MaxFiles, NEW f \in Files, Parse(f)
  PROVE  TypeOK' /\ NodesNamed'
<1> USE AssemblerAssumption
<1>1. f \in Seq(Stmt) /\ Len(f) \in Nat /\ DOMAIN f = 1..Len(f)
  OBVIOUS
<1>2. \A k \in 1..Len(f) :
        /\ Node(f[k], SegmentAt(f, k)) \in Stmt
        /\ Node(f[k], SegmentAt(f, k)).op \in Definitions \cup {"globl"} =>
             Node(f[k], SegmentAt(f, k)).name \in Names
  <2> SUFFICES ASSUME NEW k \in 1..Len(f)
               PROVE  /\ Node(f[k], SegmentAt(f, k)) \in Stmt
                      /\ Node(f[k], SegmentAt(f, k)).op \in Definitions \cup {"globl"} =>
                           Node(f[k], SegmentAt(f, k)).name \in Names
    OBVIOUS
  <2>1. f[k] \in Stmt /\ (f[k].op \in Definitions \cup {"globl"} => f[k].name \in Names)
    BY <1>1
  <2> HIDE DEF Node
  <2> QED
    BY <2>1, NodeOf
<1>3. ast' \in Seq(Stmt) /\ Len(ast') = Len(f) /\ NodesNamed'
  <2>1. ast' = [k \in 1..Len(f) |-> Node(f[k], SegmentAt(f, k))]
    BY DEF Parse
  <2>2. ast' \in [1..Len(f) -> Stmt]
    BY <1>2, <2>1
  <2>3. ast' \in Seq(Stmt) /\ Len(ast') = Len(f)
    BY <1>1, <2>2
  <2> QED
    BY <1>2, <2>1, <2>3 DEF NodesNamed
<1>4. table' \in [Names -> 0..MaxFiles]
  BY DEF Parse, TypeOK, file
<1>5. pc' \in [Segments -> Nat]
  BY AlignedNat, SegmentTypes DEF Parse, TypeOK
<1>6. loads' \in Seq(Seq(Stmt)) /\ Len(loads') <= MaxFiles /\ Len(loads') > 0
  BY <1>1 DEF Parse, TypeOK, file
<1>7. errors' \in BOOLEAN /\ dir' \in {"text", "data"}
  BY DEF Parse, TypeOK
<1>8. i' \in 1..(Len(ast') + 1) /\ phase' = "emit"
  BY <1>1, <1>3 DEF Parse
<1>9. UNCHANGED <<entryVars, this_line_labels, text_kernel, data_kernel,
                  enable_data_auto_alignment, resolving, cursor>>
  BY DEF Parse
<1> QED
  BY <1>3, <1>4, <1>5, <1>6, <1>7, <1>8, <1>9 DEF TypeOK, entryVars

(* What every action of the emit phase leaves as it is. *)
EmitFrame == UNCHANGED <<ast, i, cursor, loads>> /\ phase' = "resolve"

LEMMA EmitRest ==
  ASSUME TypeOK, EmitFrame, file \in 1..MaxFiles
  PROVE  /\ ast' \in Seq(Stmt) /\ i' \in 1..(Len(ast') + 1)
         /\ phase' \in {"idle", "emit", "resolve", "flush"}
         /\ cursor' \in Entry \cup {NoEntry}
         /\ loads' \in Seq(Seq(Stmt)) /\ Len(loads') <= MaxFiles
         /\ phase' # "idle" => Len(loads') > 0
  BY DEF TypeOK, EmitFrame, file

LEMMA EmitType == ASSUME TypeOK, NodesNamed, EmitOne PROVE TypeOK'
<1> USE AssemblerAssumption
<1>0. phase = "emit" /\ i <= Len(ast)
  BY ZenonT(30) DEF EmitOne, EmitSegment, EmitAlign, EmitAlign0, EmitSpace, EmitGlobl,
         EmitExtern, EmitComm,
         EmitData, EmitLabel, EmitConst, EmitInst, EmitNothing, Emit
<1>n. /\ node \in Stmt /\ file \in 1..MaxFiles
      /\ node.n \in Nat /\ node.name \in Names \cup {NoName}
      /\ node.op \in Definitions \cup {"globl"} => node.name \in Names
  BY <1>0, NodeType
<1>s. /\ TextSeg \in Segments /\ DataSeg \in Segments
      /\ pc[TextSeg] \in Nat /\ pc[DataSeg] \in Nat
  BY SegmentTypes
<1>a. \A k \in Nat : Aligned(k) \in Nat
  BY AlignedNat
<1> HIDE DEF node, Aligned, file
<1>1. CASE EmitSegment
  <2>1. EmitFrame
    BY <1>1 DEF EmitSegment, Emit, EmitFrame
  <2>2. /\ dir' \in {"text", "data"} /\ text_kernel' \in BOOLEAN /\ data_kernel' \in BOOLEAN
        /\ enable_data_auto_alignment' \in BOOLEAN
    BY <1>1 DEF EmitSegment, TypeOK
  <2>3. UNCHANGED <<table, entryVars, this_line_labels, pc, resolving, errors>>
    BY <1>1 DEF EmitSegment
  <2> QED
    BY <1>n, <2>1, <2>2, <2>3, EmitRest DEF TypeOK, entryVars
<1>2. CASE EmitAlign
  <2>1. EmitFrame
    BY <1>2 DEF EmitAlign, Emit, EmitFrame
  <2> DEFINE seg == IF dir = "text" THEN TextSeg ELSE DataSeg
  <2>2. pc' = [pc EXCEPT ![seg] = Aligned(@)] /\ addr' = fix_current_label_address(Aligned(pc[seg]))
    BY <1>2 DEF EmitAlign
  <2>3. seg \in Segments /\ Aligned(pc[seg]) \in Nat
    BY <1>s, <1>a
  <2>4. pc' \in [Segments -> Nat] /\ addr' \in [Entry -> Nat]
    BY <2>2, <2>3, FixedType DEF TypeOK
  <2>5. UNCHANGED <<table, global_flag, uses, next_local, local_labels, this_line_labels,
                    dir, text_kernel, data_kernel, enable_data_auto_alignment, resolving, errors>>
    BY <1>2 DEF EmitAlign
  <2> QED
    BY <1>n, <2>1, <2>4, <2>5, EmitRest DEF TypeOK
<1>3. CASE EmitAlign0
  <2>1. EmitFrame
    BY <1>3 DEF EmitAlign0, Emit, EmitFrame
  <2>2. enable_data_auto_alignment' \in BOOLEAN
    BY <1>3 DEF EmitAlign0, TypeOK
  <2>3. UNCHANGED <<table, entryVars, this_line_labels, dir, text_kernel, data_kernel, pc,
                    resolving, errors>>
    BY <1>3 DEF EmitAlign0
  <2> QED
    BY <1>n, <2>1, <2>2, <2>3, EmitRest DEF TypeOK, entryVars
<1>4. CASE EmitSpace
  <2>1. EmitFrame
    BY <1>4 DEF EmitSpace, Emit, EmitFrame
  <2>2. pc' \in [Segments -> Nat]
    <3>1. pc' = [pc EXCEPT ![DataSeg] = pc[DataSeg] + node.n] /\ pc[DataSeg] + node.n \in Nat
      BY <1>4, <1>n, <1>s DEF EmitSpace
    <3> QED
      BY <1>s, <3>1, CounterType
  <2>3. UNCHANGED <<table, entryVars, this_line_labels, dir, text_kernel, data_kernel,
                    enable_data_auto_alignment, resolving, errors>>
    BY <1>4 DEF EmitSpace
  <2> QED
    BY <1>n, <2>1, <2>2, <2>3, EmitRest DEF TypeOK, entryVars
<1>5. CASE EmitGlobl
  <2>1. EmitFrame
    BY <1>5 DEF EmitGlobl, Emit, EmitFrame
  <2>2. node.name \in Names
    BY <1>5, <1>n DEF EmitGlobl, Emit
  <2>3. EntryOf(node.name) \in Entry /\ table' \in [Names -> 0..MaxFiles]
    BY <1>5, <1>n, <2>2, EntryOfType DEF EmitGlobl, lookup_label
  <2>4. global_flag' \in [Entry -> BOOLEAN]
    BY <1>5, <2>3 DEF EmitGlobl, TypeOK
  <2>5. UNCHANGED <<addr, uses, next_local, local_labels, this_line_labels, counterVars,
                    resolving, errors>>
    BY <1>5 DEF EmitGlobl
  <2> QED
    BY <1>n, <2>1, <2>3, <2>4, <2>5, EmitRest DEF TypeOK, counterVars
<1>6. CASE EmitExtern
  <2>1. EmitFrame
    BY <1>6 DEF EmitExtern, Emit, EmitFrame
  <2>2. node.name \in Names
    BY <1>6, <1>n DEF EmitExtern, Emit, Definitions
  <2> DEFINE e == EntryOf(node.name)
  <2>3. e \in Entry /\ table' \in [Names -> 0..MaxFiles]
    BY <1>6, <1>n, <2>2, EntryOfType DEF EmitExtern, lookup_label
  <2>4. global_flag' \in [Entry -> BOOLEAN] /\ pc' \in [Segments -> Nat]
    <3>1. /\ global_flag' = [global_flag EXCEPT ![e] = TRUE]
          /\ pc' = [pc EXCEPT ![DataSeg] = pc[DataSeg] + node.n]
      BY <1>6 DEF EmitExtern
    <3>2. global_flag \in [Entry -> BOOLEAN]
      BY DEF TypeOK
    <3>3. pc[DataSeg] + node.n \in Nat
      BY <1>n, <1>s
    <3> QED
      BY <1>s, <2>3, <3>1, <3>2, <3>3, CounterType
  <2>5. /\ addr' \in [Entry -> Nat] /\ errors' \in BOOLEAN
        /\ next_local' \in [Entry -> Entry \cup {NoEntry}]
        /\ local_labels' \in Entry \cup {NoEntry}
        /\ resolving' \in Entry \cup {NoEntry}
    <3>1. CASE addr[e] = 0
      <4>1. record_label(e, pc[DataSeg], TRUE, addr) /\ resolving' = e
        BY <1>6, <3>1 DEF EmitExtern
      <4>2. addr \in [Entry -> Nat]
        BY DEF TypeOK
      <4> QED
        BY <1>s, <2>3, <4>1, <4>2, RecordType
    <3>2. CASE addr[e] # 0
      BY <1>6, <3>2 DEF EmitExtern, TypeOK
    <3> QED
      BY <3>1, <3>2
  <2>6. UNCHANGED <<uses, this_line_labels, dir, text_kernel, data_kernel,
                    enable_data_auto_alignment>>
    BY <1>6 DEF EmitExtern
  <2> QED
    BY <1>n, <2>1, <2>3, <2>4, <2>5, <2>6, EmitRest DEF TypeOK
<1>7. CASE EmitComm
  <2>1. EmitFrame
    BY <1>7 DEF EmitComm, Emit, EmitFrame
  <2>2. node.name \in Names
    BY <1>7, <1>n DEF EmitComm, Emit, Definitions
  <2> DEFINE e == EntryOf(node.name)
             start == Aligned(pc[DataSeg])
             fixed == fix_current_label_address(start)
  <2>3. e \in Entry /\ table' \in [Names -> 0..MaxFiles]
    BY <1>7, <1>n, <2>2, EntryOfType DEF EmitComm, lookup_label
  <2>4. start \in Nat /\ fixed \in [Entry -> Nat]
    BY <1>s, <1>a, FixedType
  <2>5. pc' \in [Segments -> Nat]
    <3>1. pc' = [pc EXCEPT ![DataSeg] = start + node.n]
      BY <1>7 DEF EmitComm
    <3> HIDE DEF start
    <3>2. start + node.n \in Nat
      BY <1>n, <2>4
    <3> QED
      BY <1>s, <3>1, <3>2, CounterType
  <2>6. /\ addr' \in [Entry -> Nat] /\ errors' \in BOOLEAN
        /\ next_local' \in [Entry -> Entry \cup {NoEntry}]
        /\ local_labels' \in Entry \cup {NoEntry}
        /\ resolving' \in Entry \cup {NoEntry}
    <3>1. CASE fixed[e] = 0
      <4>1. record_label(e, start, global_flag[e], fixed) /\ resolving' = e
        BY <1>7, <3>1 DEF EmitComm
      <4>2. global_flag[e] \in BOOLEAN
        BY <2>3 DEF TypeOK
      <4> HIDE DEF start, fixed, e
      <4> QED
        BY <2>3, <2>4, <4>1, <4>2, RecordType
    <3>2. CASE fixed[e] # 0
      BY <1>7, <2>4, <3>2 DEF EmitComm, TypeOK
    <3> QED
      BY <3>1, <3>2
  <2>7. UNCHANGED <<global_flag, uses, this_line_labels, dir, text_kernel, data_kernel,
                    enable_data_auto_alignment>>
    BY <1>7 DEF EmitComm
  <2> QED
    BY <1>n, <2>1, <2>3, <2>5, <2>6, <2>7, EmitRest DEF TypeOK
<1>8. ASSUME NEW op \in DataOps, EmitData(op) PROVE TypeOK'
  <2>1. EmitFrame
    BY <1>8 DEF EmitData, Emit, EmitFrame
  <2> DEFINE align == op = "word" /\ dir = "data" /\ enable_data_auto_alignment
             start == IF align THEN Aligned(pc[DataSeg]) ELSE pc[DataSeg]
             len   == IF op = "word" THEN W ELSE 1
             e     == EntryOf(node.name)
  <2>2. start \in Nat /\ len \in Nat
    BY <1>s, <1>a
  <2>3. addr' \in [Entry -> Nat]
    <3>1. addr' = IF align THEN fix_current_label_address(start) ELSE addr
      BY <1>8 DEF EmitData
    <3> QED
      BY <2>2, <3>1, FixedType DEF TypeOK
  <2>4. pc' \in [Segments -> Nat]
    <3>1. pc' = [pc EXCEPT ![DataSeg] = start + len]
      BY <1>8 DEF EmitData
    <3> HIDE DEF start, len
    <3>2. start + len \in Nat
      BY <2>2
    <3> QED
      BY <1>s, <3>1, <3>2, CounterType
  <2>5. uses' \in [Entry -> Seq(Use)]
    <3>1. CASE node.name # NoName /\ addr'[e] = 0
      <4>1. uses' = [uses EXCEPT ![e] = <<DataUse(start, node.n)>> \o @]
        BY <1>8, <3>1 DEF EmitData
      <4>2. e \in Entry
        BY <1>n, <3>1, EntryOfType
      <4>3. DataUse(start, node.n) \in Use
        BY <1>n, <2>2 DEF DataUse, Use
      <4> HIDE DEF e, start
      <4>4. <<DataUse(start, node.n)>> \o uses[e] \in Seq(Use)
        BY <4>2, <4>3 DEF TypeOK
      <4> QED
        BY <4>1, <4>2, <4>4 DEF TypeOK
    <3>2. CASE ~(node.name # NoName /\ addr'[e] = 0)
      <4>1. uses' = uses
        BY <1>8, <3>2 DEF EmitData
      <4> QED
        BY <4>1 DEF TypeOK
    <3> QED
      BY <3>1, <3>2
  <2>6. UNCHANGED <<table, global_flag, next_local, local_labels, this_line_labels,
                    dir, text_kernel, data_kernel, enable_data_auto_alignment, resolving, errors>>
    BY <1>8 DEF EmitData
  <2> QED
    BY <1>n, <2>1, <2>3, <2>4, <2>5, <2>6, EmitRest DEF TypeOK
<1>9. CASE EmitLabel
  <2>1. EmitFrame
    BY <1>9 DEF EmitLabel, Emit, EmitFrame
  <2>2. node.name \in Names
    BY <1>9, <1>n DEF EmitLabel, Emit, Definitions, LabelOps
  <2> DEFINE e == EntryOf(node.name)
             at == pc[IF dir = "text" THEN TextSeg ELSE DataSeg]
  <2>3. e \in Entry /\ table' \in [Names -> 0..MaxFiles]
    BY <1>9, <1>n, <2>2, EntryOfType DEF EmitLabel, lookup_label
  <2>4. /\ addr' \in [Entry -> Nat] /\ errors' \in BOOLEAN
        /\ next_local' \in [Entry -> Entry \cup {NoEntry}]
        /\ local_labels' \in Entry \cup {NoEntry}
    <3>1. record_label(e, at, global_flag[e], addr)
      BY <1>9 DEF EmitLabel
    <3>2. at \in Nat /\ global_flag[e] \in BOOLEAN /\ addr \in [Entry -> Nat]
      BY <1>s, <2>3 DEF TypeOK
    <3> HIDE DEF e, at
    <3> QED
      BY <2>3, <3>1, <3>2, RecordType
  <2>5. this_line_labels' \in Seq(Entry)
    <3>1. this_line_labels' = <<e>> \o this_line_labels
      BY <1>9 DEF EmitLabel
    <3> HIDE DEF e
    <3> QED
      BY <2>3, <3>1 DEF TypeOK
  <2>6. UNCHANGED <<global_flag, uses, counterVars, resolving>>
    BY <1>9 DEF EmitLabel
  <2> QED
    BY <1>n, <2>1, <2>3, <2>4, <2>5, <2>6, EmitRest DEF TypeOK, counterVars
<1>10. CASE EmitConst
  <2>1. EmitFrame
    BY <1>10 DEF EmitConst, Emit, EmitFrame
  <2>2. node.name \in Names
    BY <1>10, <1>n DEF EmitConst, Emit, Definitions, LabelOps
  <2> DEFINE e == EntryOf(node.name)
  <2>3. e \in Entry /\ table' \in [Names -> 0..MaxFiles]
    BY <1>10, <1>n, <2>2, EntryOfType DEF EmitConst, lookup_label
  <2>4. /\ addr' \in [Entry -> Nat] /\ errors' \in BOOLEAN
        /\ next_local' \in [Entry -> Entry \cup {NoEntry}]
        /\ local_labels' \in Entry \cup {NoEntry}
    <3>1. record_label(e, node.n, global_flag[e], addr)
      BY <1>10 DEF EmitConst
    <3>2. global_flag[e] \in BOOLEAN /\ addr \in [Entry -> Nat]
      BY <2>3 DEF TypeOK
    <3> HIDE DEF e
    <3> QED
      BY <1>n, <2>3, <3>1, <3>2, RecordType
  <2>5. resolving' \in Entry \cup {NoEntry}
    BY <1>10, <2>3 DEF EmitConst, TypeOK
  <2>6. UNCHANGED <<global_flag, uses, this_line_labels, counterVars>>
    BY <1>10 DEF EmitConst
  <2> QED
    BY <1>n, <2>1, <2>3, <2>4, <2>5, <2>6, EmitRest DEF TypeOK, counterVars
<1>11. ASSUME NEW op \in TextOps, EmitInst(op) PROVE TypeOK'
  <2>1. EmitFrame
    BY <1>11 DEF EmitInst, Emit, EmitFrame
  <2> DEFINE seg     == IF dir = "text" THEN TextSeg ELSE DataSeg
             at      == pc[seg]
             e       == EntryOf(node.name)
             off     == IF op = "jump" THEN 0 ELSE node.n
             unknown == node.name # NoName /\ addr[e] = 0
             v       == off + IF node.name = NoName \/ unknown THEN 0 ELSE addr[e]
             words   == IF op = "jump" THEN 1 ELSE IF unknown THEN 2 ELSE la_words(v)
             UseAt(k) == InstUse(at + k * W, op, off)
  <2>2. seg \in Segments /\ at \in Nat /\ off \in Nat
    BY <1>s, <1>n
  <2>3. words \in {1, 2}
    BY DEF la_words
  <2>4. pc' \in [Segments -> Nat]
    <3>1. pc' = [pc EXCEPT ![seg] = at + words * W]
      BY <1>11 DEF EmitInst
    <3> HIDE DEF seg, at, words
    <3>2. at + words * W \in Nat
      <4>1. words * W = W \/ words * W = W + W
        BY <2>3
      <4> QED
        BY <2>2, <4>1
    <3> QED
      BY <2>2, <3>1, <3>2, CounterType
  <2>5. uses' \in [Entry -> Seq(Use)]
    <3>1. uses' = IF ~unknown THEN uses
                  ELSE [uses EXCEPT ![e] =
                          (IF words = 1 THEN <<UseAt(0)>> ELSE <<UseAt(1), UseAt(0)>>) \o @]
      BY <1>11 DEF EmitInst
    <3>2. CASE unknown
      <4>1. e \in Entry
        BY <1>n, <3>2, EntryOfType
      <4> HIDE DEF seg, at, off, words, e
      <4>2. UseAt(0) \in Use /\ UseAt(1) \in Use
        BY <2>2 DEF InstUse, Use
      <4> HIDE DEF UseAt
      <4>3. (IF words = 1 THEN <<UseAt(0)>> ELSE <<UseAt(1), UseAt(0)>>) \in Seq(Use)
        BY <4>2
      <4>4. uses[e] \in Seq(Use)
        BY <4>1 DEF TypeOK
      <4>5. (IF words = 1 THEN <<UseAt(0)>> ELSE <<UseAt(1), UseAt(0)>>) \o uses[e] \in Seq(Use)
        BY <4>3, <4>4
      <4> QED
        BY <3>1, <3>2, <4>1, <4>5 DEF TypeOK
    <3>3. CASE ~unknown
      BY <3>1, <3>3 DEF TypeOK
    <3> QED
      BY <3>2, <3>3
  <2>6. errors' \in BOOLEAN
    BY <1>11 DEF EmitInst, TypeOK
  <2>7. UNCHANGED <<table, addr, global_flag, next_local, local_labels, this_line_labels,
                    dir, text_kernel, data_kernel, enable_data_auto_alignment, resolving>>
    BY <1>11 DEF EmitInst
  <2> QED
    BY <1>n, <2>1, <2>4, <2>5, <2>6, <2>7, EmitRest DEF TypeOK
<1>12. CASE EmitNothing
  <2>1. EmitFrame
    BY <1>12 DEF EmitNothing, Emit, EmitFrame
  <2>2. UNCHANGED <<table, entryVars, this_line_labels, counterVars, resolving, errors>>
    BY <1>12 DEF EmitNothing
  <2> QED
    BY <1>n, <2>1, <2>2, EmitRest DEF TypeOK, entryVars, counterVars
<1> QED
  BY ZenonT(30), <1>1, <1>2, <1>3, <1>4, <1>5, <1>6, <1>7, <1>8, <1>9, <1>10, <1>11,
         <1>12 DEF EmitOne

LEMMA ResolveType ==
  ASSUME TypeOK, ResolveOne \/ ResolveDone \/ ClearNext \/ NextNode \/ EndEmit \/ FlushOne \/ FlushDone
  PROVE  TypeOK'
<1> USE AssemblerAssumption
<1>1. CASE ResolveOne
  <2>1. uses' \in [Entry -> Seq(Use)]
    BY <1>1 DEF ResolveOne, TypeOK
  <2>2. errors' \in BOOLEAN
    BY <1>1 DEF ResolveOne, TypeOK
  <2>3. UNCHANGED <<table, addr, global_flag, next_local, local_labels, this_line_labels,
                    counterVars, ast, i, phase, resolving, cursor, loads>>
    BY <1>1 DEF ResolveOne
  <2> QED
    BY <2>1, <2>2, <2>3 DEF TypeOK, counterVars
<1>2. CASE ResolveDone
  BY <1>2 DEF ResolveDone, TypeOK, entryVars, counterVars
<1>3. CASE ClearNext
  <2>1. resolving' \in Entry /\ this_line_labels' \in Seq(Entry)
    BY <1>3 DEF ClearNext, TypeOK
  <2>2. UNCHANGED <<table, entryVars, counterVars, ast, i, phase, cursor, errors, loads>>
    BY <1>3 DEF ClearNext
  <2> QED
    BY <2>1, <2>2 DEF TypeOK, entryVars, counterVars
<1>4. CASE NextNode
  <2>1. /\ i' \in 1..(Len(ast) + 1) /\ phase' \in {"emit", "flush"} /\ Len(loads) > 0
        /\ cursor' \in Entry \cup {NoEntry}
    BY SMTT(30), <1>4 DEF NextNode, TypeOK
  <2>2. UNCHANGED <<table, entryVars, this_line_labels, counterVars, ast, resolving, errors, loads>>
    BY <1>4 DEF NextNode
  <2> QED
    BY <2>1, <2>2 DEF TypeOK, entryVars, counterVars
<1>5. CASE EndEmit
  BY <1>5 DEF EndEmit, TypeOK, entryVars, counterVars
<1>6. CASE FlushOne
  <2>1. table' \in [Names -> 0..MaxFiles] /\ cursor' \in Entry \cup {NoEntry}
    BY <1>6 DEF FlushOne, TypeOK, Entry
  <2>2. UNCHANGED <<entryVars, this_line_labels, counterVars, ast, i, phase, resolving,
                    errors, loads>>
    BY <1>6 DEF FlushOne
  <2> QED
    BY <2>1, <2>2 DEF TypeOK, entryVars, counterVars
<1>7. CASE FlushDone
  BY <1>7 DEF FlushDone, TypeOK
<1> QED
  BY <1>1, <1>2, <1>3, <1>4, <1>5, <1>6, <1>7

-----------------------------------------------------------------------------
(* No forward reference is forgotten. *)

LEMMA FixedOffLine ==
  ASSUME NEW a, NEW x \in Entry, ~OnLine(x)
  PROVE  fix_current_label_address(a)[x] = addr[x]
  BY DEF fix_current_label_address

LEMMA EmitDangling ==
  ASSUME TypeOK, NodesNamed, LineOpen, NoDanglingUse, EmitOne
  PROVE  NoDanglingUse'
<1> USE AssemblerAssumption
<1>0. phase = "emit" /\ i <= Len(ast) /\ resolving = NoEntry
  BY ZenonT(30) DEF EmitOne, EmitSegment, EmitAlign, EmitAlign0, EmitSpace, EmitGlobl,
         EmitExtern, EmitComm,
         EmitData, EmitLabel, EmitConst, EmitInst, EmitNothing, Emit, LineOpen
<1>n. /\ file \in 1..MaxFiles /\ node.n \in Nat /\ node.name \in Names \cup {NoName}
      /\ node.op \in Definitions \cup {"globl"} => node.name \in Names
  BY <1>0, NodeType
<1> SUFFICES ASSUME NEW x \in Entry, uses'[x] # <<>>, addr'[x] # 0, x # resolving'
             PROVE  OnLine(x)'
  BY DEF NoDanglingUse
<1>x. uses[x] # <<>> /\ addr[x] # 0 => OnLine(x)
  BY <1>0 DEF NoDanglingUse
<1> HIDE DEF node, file
<1>1. CASE UNCHANGED <<uses, addr, this_line_labels>>
  BY <1>x, <1>1 DEF OnLine
<1>2. CASE EmitSegment \/ EmitAlign0 \/ EmitSpace \/ EmitGlobl \/ EmitNothing
  BY <1>1, <1>2 DEF EmitSegment, EmitAlign0, EmitSpace, EmitGlobl, EmitNothing, entryVars
<1>3. CASE EmitAlign
  BY <1>x, <1>3, FixedOffLine DEF EmitAlign, OnLine
<1>4. CASE EmitExtern
  <2> DEFINE e == EntryOf(node.name)
  <2>1. UNCHANGED <<uses, this_line_labels>>
    BY <1>4 DEF EmitExtern
  <2>2. e \in Entry
    BY <1>4, <1>n, EntryOfType DEF EmitExtern, Emit, Definitions
  <2>3. CASE addr[e] = 0
    <3>1. record_label(e, pc[DataSeg], TRUE, addr) /\ resolving' = e
      BY <1>4, <2>3 DEF EmitExtern
    <3>2. addr'[x] = addr[x]
      <4>1. addr \in [Entry -> Nat]
        BY DEF TypeOK
      <4>2. x # e
        BY <3>1
      <4>3. addr' = [addr EXCEPT ![e] = pc[DataSeg]]
        BY <2>3, <3>1 DEF record_label
      <4> HIDE DEF e
      <4> QED
        BY <2>2, <4>1, <4>2, <4>3
    <3> QED
      BY <1>x, <2>1, <3>2 DEF OnLine
  <2>4. CASE addr[e] # 0
    BY <1>1, <1>4, <2>1, <2>4 DEF EmitExtern
  <2> QED
    BY <2>3, <2>4
<1>5. CASE EmitComm
  <2> DEFINE e == EntryOf(node.name)
             start == Aligned(pc[DataSeg])
             fixed == fix_current_label_address(start)
  <2>1. UNCHANGED <<uses, this_line_labels>>
    BY <1>5 DEF EmitComm
  <2>2. e \in Entry /\ start \in Nat /\ fixed \in [Entry -> Nat]
    BY <1>5, <1>n, EntryOfType, SegmentTypes, AlignedNat, FixedType DEF EmitComm, Emit, Definitions
  <2>3. addr'[x] = fixed[x]
    <3>1. CASE fixed[e] = 0
      <4>1. record_label(e, start, global_flag[e], fixed) /\ resolving' = e
        BY <1>5, <3>1 DEF EmitComm
      <4>2. global_flag[e] \in BOOLEAN
        BY <2>2 DEF TypeOK
      <4> HIDE DEF e, start, fixed
      <4> QED
        BY <2>2, <4>1, <4>2, RecordType
    <3>2. CASE fixed[e] # 0
      BY <1>5, <3>2 DEF EmitComm
    <3> QED
      BY <3>1, <3>2
  <2> QED
    BY <1>x, <2>1, <2>3, FixedOffLine DEF OnLine
<1>6. ASSUME NEW op \in DataOps, EmitData(op) PROVE OnLine(x)'
  <2> DEFINE align == op = "word" /\ dir = "data" /\ enable_data_auto_alignment
             start == IF align THEN Aligned(pc[DataSeg]) ELSE pc[DataSeg]
             e     == EntryOf(node.name)
  <2>1. this_line_labels' = this_line_labels
    BY <1>6 DEF EmitData
  <2>2. addr' = IF align THEN fix_current_label_address(start) ELSE addr
    BY <1>6 DEF EmitData
  <2>3. uses'[x] = uses[x]
    <3>1. CASE node.name # NoName /\ addr'[e] = 0
      <4>1. uses' = [uses EXCEPT ![e] = <<DataUse(start, node.n)>> \o @]
        BY <1>6, <3>1 DEF EmitData
      <4>2. x # e
        BY <3>1
      <4> QED
        BY <4>1, <4>2 DEF TypeOK
    <3>2. CASE ~(node.name # NoName /\ addr'[e] = 0)
      BY <1>6, <3>2 DEF EmitData
    <3> QED
      BY <3>1, <3>2
  <2>4. ~OnLine(x) => addr'[x] = addr[x]
    BY <2>2, FixedOffLine
  <2> QED
    BY <1>x, <2>1, <2>3, <2>4 DEF OnLine
<1>7. CASE EmitLabel
  <2> DEFINE e == EntryOf(node.name)
             at == pc[IF dir = "text" THEN TextSeg ELSE DataSeg]
  <2>1. uses' = uses /\ this_line_labels' = <<e>> \o this_line_labels
    BY <1>7 DEF EmitLabel
  <2>2. e \in Entry
    BY <1>7, <1>n, EntryOfType DEF EmitLabel, Emit, Definitions, LabelOps
  <2>3. x # e => addr'[x] = addr[x]
    <3>1. record_label(e, at, global_flag[e], addr)
      BY <1>7 DEF EmitLabel
    <3>2. at \in Nat /\ global_flag[e] \in BOOLEAN /\ addr \in [Entry -> Nat]
      BY <2>2, SegmentTypes DEF TypeOK
    <3> HIDE DEF e, at
    <3> QED
      BY <2>2, <3>1, <3>2, RecordType
  <2> HIDE DEF e
  <2>4. OnLine(x) \/ x = e => OnLine(x)'
    <3> DEFINE s == this_line_labels
    <3>1. s \in Seq(Entry) /\ Len(s) \in Nat /\ Len(<<e>> \o s) = Len(s) + 1
      BY <2>2 DEF TypeOK
    <3>2. (<<e>> \o s)[1] = e /\ \A k \in 1..Len(s) : (<<e>> \o s)[k + 1] = s[k]
      <4> HIDE DEF s
      <4> QED
        BY <2>2, <3>1
    <3>3. CASE x = e
      BY <2>1, <3>1, <3>2, <3>3 DEF OnLine
    <3>4. CASE OnLine(x)
      <4>1. PICK k \in 1..Len(s) : s[k] = x
        BY <3>4 DEF OnLine
      <4>2. k + 1 \in 1..Len(this_line_labels') /\ this_line_labels'[k + 1] = x
        BY <2>1, <3>1, <3>2, <4>1
      <4> QED
        BY <4>2 DEF OnLine
    <3> QED
      BY <3>3, <3>4
  <2> QED
    BY <1>x, <2>1, <2>3, <2>4
<1>8. CASE EmitConst
  <2> DEFINE e == EntryOf(node.name)
  <2>1. UNCHANGED <<uses, this_line_labels>>
    BY <1>8 DEF EmitConst
  <2>2. e \in Entry
    BY <1>8, <1>n, EntryOfType DEF EmitConst, Emit, Definitions, LabelOps
  <2>3. addr'[x] = addr[x]
    <3>1. record_label(e, node.n, global_flag[e], addr) /\ (addr[e] = 0 => resolving' = e)
      BY <1>8 DEF EmitConst
    <3>2. global_flag[e] \in BOOLEAN /\ addr \in [Entry -> Nat]
      BY <2>2 DEF TypeOK
    <3> HIDE DEF e
    <3> QED
      BY <1>n, <2>2, <3>1, <3>2, RecordType
  <2> QED
    BY <1>x, <2>1, <2>3 DEF OnLine
<1>9. ASSUME NEW op \in TextOps, EmitInst(op) PROVE OnLine(x)'
  <2> DEFINE e == EntryOf(node.name)
  <2>1. UNCHANGED <<addr, this_line_labels>>
    BY <1>9 DEF EmitInst
  <2>2. uses'[x] = uses[x]
    <3>1. CASE node.name # NoName /\ addr[e] = 0
      <4>1. x # e
        BY <2>1, <3>1
      <4>2. \E u : uses' = [uses EXCEPT ![e] = u]
        BY <1>9, <3>1 DEF EmitInst
      <4> QED
        BY <4>1, <4>2 DEF TypeOK
    <3>2. CASE ~(node.name # NoName /\ addr[e] = 0)
      BY <1>9, <3>2 DEF EmitInst
    <3> QED
      BY <3>1, <3>2
  <2> QED
    BY <1>x, <2>1, <2>2 DEF OnLine
<1> QED
  BY ZenonT(30), <1>2, <1>3, <1>4, <1>5, <1>6, <1>7, <1>8, <1>9 DEF EmitOne

(* The inductive step, and the theorems. *)
LEMMA StepInv == AssemblerInv /\ [Next]_vars => AssemblerInv'
<1> SUFFICES ASSUME AssemblerInv, [Next]_vars PROVE AssemblerInv'
  OBVIOUS
<1> USE AssemblerAssumption DEF AssemblerInv
<1>1. CASE read_assembly_file
  <2>1. PICK f \in Files : phase = "idle" /\ file < MaxFiles /\ Parse(f)
    BY <1>1, AssemblerAssumption DEF read_assembly_file, Loadable
  <2>2. TypeOK' /\ NodesNamed'
    BY <2>1, ParseType
  <2>3. UNCHANGED <<addr, uses, resolving, this_line_labels>> /\ phase' = "emit"
    BY <2>1 DEF Parse, entryVars
  <2>4. LineOpen' /\ NoDanglingUse'
    BY <2>1, <2>3 DEF LineOpen, NoDanglingUse, OnLine
  <2> QED
    BY <2>2, <2>4
<1>2. CASE EmitOne
  <2>1. ast' = ast /\ phase' = "resolve"
    BY ZenonT(30), <1>2 DEF EmitOne, EmitSegment, EmitAlign, EmitAlign0, EmitSpace, EmitGlobl,
           EmitExtern,
                EmitComm, EmitData, EmitLabel, EmitConst, EmitInst, EmitNothing, Emit
  <2>2. NodesNamed' /\ LineOpen'
    BY <2>1 DEF NodesNamed, LineOpen
  <2> QED
    BY SMTT(30), <1>2, <2>2, EmitType, EmitDangling
<1>3. ASSUME ResolveOne \/ ResolveDone \/ ClearNext \/ NextNode \/ EndEmit \/ FlushOne \/ FlushDone
      PROVE  AssemblerInv'
  <2>1. TypeOK'
    BY <1>3, ResolveType
  <2>2. ast' = ast /\ addr' = addr
    BY <1>3 DEF ResolveOne, ResolveDone, ClearNext, NextNode, EndEmit, FlushOne, FlushDone,
           entryVars
  <2>3. NodesNamed'
    BY <2>2 DEF NodesNamed
  <2>4. LineOpen'
    BY <1>3 DEF LineOpen, ResolveOne, ResolveDone, ClearNext, NextNode, EndEmit, FlushOne,
           FlushDone,
                EndsLine
  <2>5. NoDanglingUse'
    <3>1. CASE ResolveOne
      BY <3>1 DEF ResolveOne, NoDanglingUse, OnLine, TypeOK
    <3>2. CASE ResolveDone
      BY <3>2 DEF ResolveDone, entryVars, NoDanglingUse, OnLine
    <3>3. CASE ClearNext
      <4> SUFFICES ASSUME NEW x \in Entry, uses[x] # <<>>, addr[x] # 0, x # resolving'
                   PROVE  OnLine(x)'
        BY <3>3 DEF NoDanglingUse, ClearNext, entryVars
      <4>1. PICK k \in 1..Len(this_line_labels) : this_line_labels[k] = x
        BY <3>3 DEF NoDanglingUse, OnLine, ClearNext, TypeOK
      <4>2. this_line_labels' = Tail(this_line_labels) /\ resolving' = Head(this_line_labels)
        BY <3>3 DEF ClearNext
      <4>3. k # 1
        BY <4>1, <4>2
      <4>4. k - 1 \in 1..Len(this_line_labels') /\ this_line_labels'[k - 1] = x
        BY <4>1, <4>2, <4>3 DEF TypeOK
      <4> QED
        BY <4>4 DEF OnLine
    <3>4. CASE NextNode \/ EndEmit \/ FlushOne \/ FlushDone
      BY <3>4 DEF NextNode, EndEmit, FlushOne, FlushDone, entryVars, NoDanglingUse, OnLine
    <3> QED
      BY <1>3, <3>1, <3>2, <3>3, <3>4
  <2> QED
    BY <2>1, <2>3, <2>4, <2>5
<1>4. CASE UNCHANGED vars
  BY SMTT(30), <1>4 DEF vars, entryVars, counterVars, TypeOK, NodesNamed, LineOpen,
         NoDanglingUse, OnLine
<1> QED
  BY <1>1, <1>2, <1>3, <1>4 DEF Next, Loading

LEMMA InitInv == Init => AssemblerInv
<1> SUFFICES ASSUME Init PROVE AssemblerInv
  OBVIOUS
<1> USE AssemblerAssumption DEF Init
<1>1. TypeOK
  <2>1. /\ table \in [Names -> 0..MaxFiles] /\ addr \in [Entry -> Nat]
        /\ next_local \in [Entry -> Entry \cup {NoEntry}]
    OBVIOUS
  <2>2. global_flag \in [Entry -> BOOLEAN]
    OBVIOUS
  <2>3. uses \in [Entry -> Seq(Use)] /\ this_line_labels \in Seq(Entry)
    OBVIOUS
  <2>4. pc \in [Segments -> Nat]
    OBVIOUS
  <2>5. ast \in Seq(Stmt) /\ i \in 1..(Len(ast) + 1)
    OBVIOUS
  <2>6. loads \in Seq(Seq(Stmt)) /\ Len(loads) <= MaxFiles
    OBVIOUS
  <2> QED
    BY <2>1, <2>2, <2>3, <2>4, <2>5, <2>6 DEF TypeOK
<1>2. NodesNamed /\ LineOpen /\ NoDanglingUse
  BY DEF NodesNamed, LineOpen, NoDanglingUse
<1> QED
  BY <1>1, <1>2 DEF AssemblerInv

\* The inductive invariant holds, whatever files are loaded: the state is
\* well-typed and no use waits on a symbol that has been resolved.
THEOREM AssemblerInvariant == Spec => []AssemblerInv
  BY InitInv, StepInv, PTL DEF Spec

\* The state of the assembler is well-typed, whatever files it loads.
THEOREM TypeCorrect == Spec => []TypeOK
  BY AssemblerInvariant, PTL DEF AssemblerInv

\* A forward reference is never forgotten: whatever files are loaded, a use
\* waits only on an undefined symbol, a label of the current line or the one
\* being resolved (record_*_uses_symbol, resolve_label_uses, clear_labels).
THEOREM UsesNeverForgotten == Spec => []NoDanglingUse
  BY AssemblerInvariant, PTL DEF AssemblerInv

-----------------------------------------------------------------------------
(* The scope of symbols and the segments: between two files exactly the    *)
(* global symbols are left in the symbol table, at the place they stand    *)
(* for, and everything is in the segment it is written in.                 *)

\* The head of what is left of the list of local labels.
ListHead == IF phase = "flush" THEN cursor ELSE local_labels

\* A walk of the list from entry h does not get to its end without passing e:
\* S is what it may visit.
Visits(e, h) ==
  \E S \in SUBSET Entry : h \in S /\ \A x \in S : x = e \/ next_local[x] \in S

\* A walk of the list from entry h meets no entry of the name n.
Avoids(n, h) ==
  \E S \in SUBSET (Entry \cup {NoEntry}) :
    h \in S /\ \A x \in S : x # NoEntry => x[1] # n /\ next_local[x] \in S

Declares(c, n) ==
  c \in AllLines /\ StmtAt(c).op \in {"globl", "extern"} /\ StmtAt(c).name = n

\* The nodes are those of the file being loaded, but for what Node changes.
SourceInv ==
  /\ \A f \in 1..Len(loads) : loads[f] \in Files
  /\ phase \in {"emit", "resolve"} =>
       /\ Len(ast) = Len(loads[file])
       /\ \A k \in 1..Len(ast) : ast[k].op # "error" =>
            /\ ast[k].op = loads[file][k].op
            /\ ast[k].op \in Definitions \cup {"globl"} => ast[k] = loads[file][k]

\* A symbol is made global only where the source declares it.
FlagsDeclared == \A e \in Entry : global_flag[e] => \E c \in AllLines : Declares(c, e[1])

GlobalDef(n) == \E d \in Named(n) : IsGlobal(d)

\* What is defined is on the list of local labels, or is global in the source.
DefinedListed ==
  \A e \in Entry : addr[e] # 0 /\ table[e[1]] = e[2] => Visits(e, ListHead) \/ GlobalDef(e[1])

\* Entries of files to come are undefined; a defined one of the file being
\* emitted is in the table.
EntriesCurrent ==
  /\ \A e \in Entry : e[2] > Len(loads) => addr[e] = 0
  /\ \A n \in Names : table[n] <= Len(loads)
  /\ phase \in {"emit", "resolve"} =>
       \A n \in Names : addr[<<n, file>>] # 0 => table[n] = file

LineDefined == \A e \in Entry : OnLine(e) => addr[e] # 0

ForgetInv ==
  /\ FlagsDeclared /\ DefinedListed /\ EntriesCurrent /\ LineDefined
  /\ \A seg \in Segments : pc[seg] # 0
  /\ phase = "idle" => local_labels = NoEntry

-----------------------------------------------------------------------------
Emitted(d) ==
  \/ d[1] < file \/ phase \in {"flush", "idle"}
  \/ d[2] < i \/ (d[2] = i /\ phase = "resolve")

Undefined(n) == \A d \in Named(n) : ~Emitted(d)

\* d is the global definition of n, and what else names n comes later and
\* defines only what is undefined.
First(n, d) ==
  /\ d \in Named(n) /\ IsGlobal(d)
  /\ \A c \in Named(n) \ {d} :
       StmtAt(c).op \notin LabelOps /\ (d[1] < c[1] \/ (d[1] = c[1] /\ d[2] < c[2]))

\* The line of the label d goes on.
OpenLine(d) ==
  /\ d[1] = file /\ phase \in {"emit", "resolve"} /\ i <= Len(ast)
  /\ \A k \in (d[2] + 1)..Len(loads[file]) :
       Emitted(<<file, k>>) => loads[file][k].op \in LabelOps \cup {"globl"}

Cur == IF dir = "text" THEN TextSeg ELSE DataSeg

\* The entry e stands for what its definition d does.
Stands(e, d) ==
  /\ addr[e] # 0
  /\ StmtAt(d).op = "const" => addr[e] = StmtAt(d).n
  /\ StmtAt(d).op \in {"comm", "extern"} => d \in DOMAIN placed /\ addr[e] = placed[d].at
  /\ /\ StmtAt(d).op = "label"
     /\ After(d) \in DOMAIN placed /\ placed[After(d)].seg = SourceSeg(d)
     => addr[e] = placed[After(d)].at

\* While the line of the label d goes on, its entry e follows the counter; e is
\* on the line no longer than until the statement after it is emitted.
LineRight(e, d) ==
  /\ StmtAt(d).op = "label" /\ OpenLine(d) => OnLine(e) /\ addr[e] = pc[SourceSeg(d)]
  /\ OnLine(e) => /\ StmtAt(d).op = "label"
                  /\ \/ OpenLine(d) \/ i > Len(ast)
                     \/ phase = "resolve" /\ After(d) = <<file, i>>

\* Only items are placed, and only when they are emitted.
PlacedEmitted ==
  \A d \in DOMAIN placed :
    d \in AllLines /\ Emitted(d) /\ StmtAt(d).op \notin LabelOps \cup {"globl"}

NodesRight == phase \in {"emit", "resolve"} => \A k \in 1..Len(ast) : ast[k].op # "error"

\* The flags select the segment that the text before node i names.
SegmentFollowed ==
  /\ phase = "emit" /\ i > 1 => Cur = SegmentAt(loads[file], i - 1)
  /\ phase = "resolve" /\ i <= Len(ast) => Cur = SegmentAt(loads[file], i)

\* A symbol that is not defined yet: if it is declared, its entry waits.
Awaited(n) ==
  /\ Avoids(n, ListHead)
  /\ \A e \in Entry : e[1] = n => addr[e] = 0
  /\ (\E c \in AllLines : Declares(c, n) /\ Emitted(c)) =>
       table[n] # 0 /\ global_flag[<<n, table[n]>>]

\* The entry that the table has for n stands for what d does.
Standing(n, d) ==
  table[n] # 0 /\ Stands(<<n, table[n]>>, d) /\ LineRight(<<n, table[n]>>, d)

Found(n, d) == Avoids(n, ListHead) /\ Standing(n, d)

KeptInv ==
  /\ PlacedEmitted
  /\ ~errors =>
       /\ NodesRight /\ SegmentFollowed
       /\ \A n \in Names : Undefined(n) => Awaited(n)
       /\ \A n \in Names : \A d \in AllLines : First(n, d) /\ Emitted(d) => Found(n, d)

ScopeInv == SourceInv /\ ForgetInv /\ KeptInv

-----------------------------------------------------------------------------
(* What a node that is emitted does to the symbols, by its kind.            *)

\* known is addr with the labels of the line moved to where an item of the
\* segment seg is put, at the address at; or they are there already.
Moved(known, seg, at) ==
  /\ known \in [Entry -> Nat] /\ seg \in Segments /\ at \in Nat \ {0}
  /\ \A e \in Entry :
       \/ known[e] = addr[e] /\ (OnLine(e) => at = pc[seg])
       \/ OnLine(e) /\ known[e] = at

\* Node i has been put at the address at of the segment seg.
PutAt(seg, at) ==
  /\ DOMAIN placed' = DOMAIN placed \cup {<<file, i>>}
  /\ placed'[<<file, i>>].seg = seg /\ placed'[<<file, i>>].at = at
  /\ \A d \in DOMAIN placed \ {<<file, i>>} : placed'[d] = placed[d]

\* What record_label does to the entries.
Defines(e, a, g, known) ==
  IF known[e] # 0
  THEN addr' = known /\ UNCHANGED <<next_local, local_labels>>
  ELSE /\ addr' = [known EXCEPT ![e] = a]
       /\ IF g THEN UNCHANGED <<next_local, local_labels>>
          ELSE next_local' = [next_local EXCEPT ![e] = local_labels] /\ local_labels' = e

listVars == <<next_local, local_labels>>
segVars == <<dir, text_kernel, data_kernel>>

Quiet ==
  /\ node.op \in Segments \cup {"align0", "error"}
  /\ UNCHANGED <<table, addr, global_flag, listVars, this_line_labels, pc, placed, errors>>

ItemAt(seg, at) ==
  /\ node.op \in TextOps \cup DataOps \cup {"align", "space"}
  /\ Moved(addr', seg, at) /\ PutAt(seg, at)
  /\ UNCHANGED <<table, global_flag, listVars, this_line_labels, segVars>>

Globl ==
  /\ node.op = "globl" /\ lookup_label(node.name)
  /\ global_flag' = [global_flag EXCEPT ![EntryOf(node.name)] = TRUE]
  /\ UNCHANGED <<addr, listVars, this_line_labels, segVars, pc, placed, errors>>

\* .comm, and .extern, which makes its symbol global too.
AllocAt(known, at) ==
  LET e == EntryOf(node.name)
      g == node.op = "extern" \/ global_flag[e]
  IN  /\ node.op \in {"comm", "extern"} /\ lookup_label(node.name)
      /\ Moved(known, DataSeg, at) /\ Defines(e, at, g, known) /\ PutAt(DataSeg, at)
      /\ global_flag' = [global_flag EXCEPT ![e] = g]
      /\ UNCHANGED <<this_line_labels, segVars>>

Labels ==
  LET e == EntryOf(node.name)
  IN  /\ node.op \in LabelOps /\ lookup_label(node.name)
      /\ Defines(e, IF node.op = "const" THEN node.n ELSE pc[Cur], global_flag[e], addr)
      /\ addr[e] # 0 => errors'
      /\ this_line_labels' = IF node.op = "const" THEN this_line_labels ELSE <<e>> \o this_line_labels
      /\ UNCHANGED <<global_flag, segVars, pc, placed>>

Effect ==
  \/ Quiet \/ Globl \/ Labels
  \/ \E seg \in Segments, at \in Nat : ItemAt(seg, at)
  \/ \E known \in [Entry -> Nat], at \in Nat : AllocAt(known, at)

\* What the node leaves of the entries that are named n: the labels among them
\* move with the counter, if it puts something there.
Unmoved(n) ==
  /\ placed' = placed /\ pc' = pc
  /\ node.op \in Segments \cup LabelOps \cup {"align0", "globl"}
  /\ \A x \in Entry : x[1] = n => addr'[x] = addr[x]

MovedTo(n, seg, at) ==
  /\ PutAt(seg, at) /\ at # 0
  /\ node.op \in Items \cup {"align"}
  /\ \A x \in Entry : x[1] = n =>
       \/ addr'[x] = addr[x] /\ (OnLine(x) => at = pc[seg])
       \/ OnLine(x) /\ addr'[x] = at

Unharmed(n) ==
  /\ Avoids(n, local_labels) => Avoids(n, local_labels)'
  /\ table[n] # 0 => table'[n] = table[n]
  /\ \A x \in Entry : x[1] = n /\ global_flag[x] => global_flag'[x]
  /\ \A x \in Entry : x[1] = n => (OnLine(x)' <=> OnLine(x))
  /\ Unmoved(n) \/ \E seg \in Segments, at \in Nat : MovedTo(n, seg, at)

-----------------------------------------------------------------------------
LEMMA AlignedPositive ==
  ASSUME NEW a \in Nat, a # 0
  PROVE  Aligned(a) # 0
<1> DEFINE q == (a + W - 1) \div W
<1>1. W \in Nat /\ W > 0
  BY AssemblerAssumption
<1>2. q \in Nat /\ q # 0
  <2>1. a + W - 1 \in Nat /\ a + W - 1 >= W
    BY <1>1
  <2> QED
    BY <1>1, <2>1
<1> HIDE DEF q
<1>3. q * W # 0
  BY <1>1, <1>2
<1> QED
  BY <1>3 DEF Aligned, q

LEMMA PlacePuts ==
  ASSUME NEW seg, NEW at, NEW len, Place(seg, at, len)
  PROVE  PutAt(seg, at)
  BY DEF Place, PutAt, Over

LEMMA FixMoves ==
  ASSUME TypeOK, NEW seg \in Segments, NEW at \in Nat, at # 0
  PROVE  Moved(fix_current_label_address(at), seg, at)
  BY FixedType DEF Moved, fix_current_label_address, TypeOK

LEMMA StayMoves ==
  ASSUME TypeOK, NEW seg \in Segments, pc[seg] # 0
  PROVE  Moved(addr, seg, pc[seg])
  BY DEF Moved, TypeOK

LEMMA RecordDefines ==
  ASSUME NEW e, NEW a, NEW g, NEW known, record_label(e, a, g, known)
  PROVE  Defines(e, a, g, known) /\ (known[e] # 0 => errors') /\ (errors => errors')
  BY DEF record_label, Defines

LEMMA EmitEffect ==
  ASSUME TypeOK, NodesNamed, \A seg \in Segments : pc[seg] # 0, EmitOne
  PROVE  /\ phase = "emit" /\ i <= Len(ast) /\ phase' = "resolve"
         /\ UNCHANGED <<ast, i, cursor, loads>> /\ (errors => errors')
         /\ Effect
<1> USE AssemblerAssumption
<1>0. /\ phase = "emit" /\ i <= Len(ast) /\ phase' = "resolve"
      /\ UNCHANGED <<ast, i, cursor, loads>>
  BY ZenonT(30) DEF EmitOne, EmitSegment, EmitAlign, EmitAlign0, EmitSpace, EmitGlobl,
         EmitExtern, EmitComm,
         EmitData, EmitLabel, EmitConst, EmitInst, EmitNothing, Emit
<1>n. /\ file \in 1..MaxFiles /\ node.n \in Nat /\ node.name \in Names \cup {NoName}
      /\ node.op \in Definitions \cup {"globl"} => node.name \in Names
  BY <1>0, NodeType
<1>s. /\ TextSeg \in Segments /\ DataSeg \in Segments /\ Cur \in Segments
      /\ pc[TextSeg] \in Nat /\ pc[DataSeg] \in Nat /\ pc[Cur] \in Nat
  BY SegmentTypes DEF Cur
<1>p. pc[DataSeg] # 0 /\ pc[Cur] # 0 /\ Aligned(pc[DataSeg]) # 0 /\ Aligned(pc[Cur]) # 0
  BY <1>s, AlignedPositive
<1>a. Aligned(pc[DataSeg]) \in Nat /\ Aligned(pc[Cur]) \in Nat
  BY <1>s, AlignedNat
<1> SUFFICES Effect /\ (errors => errors')
  BY <1>0
<1> HIDE DEF node, file
<1>1. CASE EmitSegment \/ EmitAlign0 \/ EmitNothing
  <2>1. Quiet
    BY <1>1 DEF EmitSegment, EmitAlign0, EmitNothing, Emit, Quiet, entryVars, counterVars, listVars
  <2> QED
    BY <2>1 DEF Effect, Quiet
<1>2. CASE EmitGlobl
  <2>1. Globl
    BY <1>2 DEF EmitGlobl, Emit, Globl, counterVars, listVars, segVars
  <2> QED
    BY <2>1 DEF Effect, Globl
<1>3. CASE EmitAlign
  <2>1. /\ addr' = fix_current_label_address(Aligned(pc[Cur]))
        /\ Place(Cur, Aligned(pc[Cur]), 0)
    BY <1>3 DEF EmitAlign, Cur
  <2>2. Moved(addr', Cur, Aligned(pc[Cur])) /\ PutAt(Cur, Aligned(pc[Cur]))
    BY <1>s, <1>p, <1>a, <2>1, FixMoves, PlacePuts
  <2>3. ItemAt(Cur, Aligned(pc[Cur]))
    BY <1>3, <2>2 DEF ItemAt, EmitAlign, Emit, listVars, segVars
  <2>4. errors' = errors
    BY <1>3 DEF EmitAlign
  <2> QED
    BY <1>s, <1>a, <2>3, <2>4 DEF Effect
<1>4. CASE EmitSpace
  <2>1. addr' = addr /\ Place(DataSeg, pc[DataSeg], node.n)
    BY <1>4 DEF EmitSpace, entryVars
  <2>2. Moved(addr', DataSeg, pc[DataSeg]) /\ PutAt(DataSeg, pc[DataSeg])
    BY <1>s, <1>p, <2>1, StayMoves, PlacePuts
  <2>3. ItemAt(DataSeg, pc[DataSeg])
    BY <1>4, <2>2 DEF ItemAt, EmitSpace, Emit, listVars, segVars, entryVars
  <2>4. errors' = errors
    BY <1>4 DEF EmitSpace
  <2> QED
    BY <1>s, <2>3, <2>4 DEF Effect
<1>5. ASSUME NEW op \in DataOps, EmitData(op) PROVE Effect /\ (errors => errors')
  <2> DEFINE align == op = "word" /\ dir = "data" /\ enable_data_auto_alignment
             start == IF align THEN Aligned(pc[DataSeg]) ELSE pc[DataSeg]
             len   == IF op = "word" THEN W ELSE 1
  <2>1. addr' = (IF align THEN fix_current_label_address(start) ELSE addr) /\ Place(DataSeg, start, len)
    BY <1>5 DEF EmitData
  <2>2. start \in Nat /\ start # 0
    BY <1>s, <1>p, <1>a
  <2>3. Moved(addr', DataSeg, start)
    <3>1. CASE align
      BY <1>s, <2>1, <2>2, <3>1, FixMoves
    <3>2. CASE ~align
      BY <1>s, <1>p, <2>1, <3>2, StayMoves
    <3> QED
      BY <3>1, <3>2
  <2>4. PutAt(DataSeg, start)
    BY <2>1, PlacePuts
  <2>5. /\ node.op \in DataOps /\ errors' = errors
        /\ UNCHANGED <<table, global_flag, listVars, this_line_labels, segVars>>
    BY <1>5 DEF EmitData, Emit, listVars, segVars
  <2> HIDE DEF start
  <2>6. ItemAt(DataSeg, start)
    BY <2>3, <2>4, <2>5 DEF ItemAt
  <2> QED
    BY <1>s, <2>2, <2>5, <2>6 DEF Effect
<1>6. ASSUME NEW op \in TextOps, EmitInst(op) PROVE Effect /\ (errors => errors')
  <2>1. addr' = addr /\ \E len : Place(Cur, pc[Cur], len)
    BY <1>6 DEF EmitInst, Cur
  <2>2. Moved(addr', Cur, pc[Cur]) /\ PutAt(Cur, pc[Cur])
    BY <1>s, <1>p, <2>1, StayMoves, PlacePuts
  <2>3. /\ node.op \in TextOps
        /\ UNCHANGED <<table, global_flag, listVars, this_line_labels, segVars>>
    BY <1>6 DEF EmitInst, Emit, listVars, segVars
  <2>4. ItemAt(Cur, pc[Cur])
    BY <2>2, <2>3 DEF ItemAt
  <2>5. errors => errors'
    BY <1>6 DEF EmitInst
  <2> QED
    BY <1>s, <2>4, <2>5 DEF Effect
<1>7. CASE EmitExtern
  <2> DEFINE e == EntryOf(node.name)
  <2>1. /\ node.op = "extern" /\ lookup_label(node.name) /\ Place(DataSeg, pc[DataSeg], node.n)
        /\ global_flag' = [global_flag EXCEPT ![e] = TRUE]
        /\ UNCHANGED <<this_line_labels, segVars>>
    BY <1>7 DEF EmitExtern, Emit, segVars
  <2>2. Defines(e, pc[DataSeg], TRUE, addr) /\ (errors => errors')
    <3>1. CASE addr[e] = 0
      BY <1>7, <3>1, RecordDefines DEF EmitExtern
    <3>2. CASE addr[e] # 0
      BY <1>7, <3>2 DEF EmitExtern, Defines
    <3> QED
      BY <3>1, <3>2
  <2>3. Moved(addr, DataSeg, pc[DataSeg]) /\ PutAt(DataSeg, pc[DataSeg])
    BY <1>s, <1>p, <2>1, StayMoves, PlacePuts
  <2>4. AllocAt(addr, pc[DataSeg])
    BY <2>1, <2>2, <2>3 DEF AllocAt
  <2> QED
    BY <1>s, <2>2, <2>4 DEF Effect, TypeOK
<1>8. CASE EmitComm
  <2> DEFINE e     == EntryOf(node.name)
             start == Aligned(pc[DataSeg])
             fixed == fix_current_label_address(start)
  <2>1. /\ node.op = "comm" /\ lookup_label(node.name) /\ Place(DataSeg, start, node.n)
        /\ UNCHANGED <<global_flag, this_line_labels, segVars>>
    BY <1>8 DEF EmitComm, Emit, segVars
  <2>2. Defines(e, start, global_flag[e], fixed) /\ (errors => errors')
    <3>1. CASE fixed[e] = 0
      <4>1. record_label(e, start, global_flag[e], fixed)
        BY <1>8, <3>1 DEF EmitComm
      <4> QED
        BY <4>1, RecordDefines
    <3>2. CASE fixed[e] # 0
      BY <1>8, <3>2 DEF EmitComm, Defines
    <3> QED
      BY <3>1, <3>2
  <2>3. Moved(fixed, DataSeg, start) /\ PutAt(DataSeg, start)
    BY <1>s, <1>p, <1>a, <2>1, FixMoves, PlacePuts
  <2>4. e \in Entry /\ fixed \in [Entry -> Nat]
    BY <1>n, <1>a, <2>1, EntryOfType, FixedType DEF Definitions
  <2>5. [global_flag EXCEPT ![e] = global_flag[e]] = global_flag
    BY DEF TypeOK
  <2> HIDE DEF e, start, fixed
  <2>6. node.op # "extern"
    BY <2>1
  <2>7. global_flag[e] \in BOOLEAN
    BY <2>4 DEF TypeOK
  <2>8. (node.op = "extern" \/ global_flag[e]) = global_flag[e]
    BY <2>6, <2>7
  <2>9. AllocAt(fixed, start)
    BY <2>1, <2>2, <2>3, <2>5, <2>8 DEF AllocAt, e
  <2> QED
    BY <1>a, <2>2, <2>4, <2>9 DEF Effect, start
<1>9. CASE EmitLabel
  <2> DEFINE e == EntryOf(node.name)
  <2>1. /\ node.op = "label" /\ lookup_label(node.name)
        /\ record_label(e, pc[Cur], global_flag[e], addr)
        /\ this_line_labels' = <<e>> \o this_line_labels
        /\ UNCHANGED <<global_flag, segVars, pc, placed>>
    BY <1>9 DEF EmitLabel, Emit, segVars, counterVars, Cur
  <2>2. Defines(e, pc[Cur], global_flag[e], addr) /\ (addr[e] # 0 => errors') /\ (errors => errors')
    BY <2>1, RecordDefines
  <2>3. Labels
    BY <2>1, <2>2 DEF Labels, LabelOps
  <2> QED
    BY <2>2, <2>3 DEF Effect
<1>10. CASE EmitConst
  <2> DEFINE e == EntryOf(node.name)
  <2>1. /\ node.op = "const" /\ lookup_label(node.name)
        /\ record_label(e, node.n, global_flag[e], addr)
        /\ UNCHANGED <<global_flag, segVars, pc, placed, this_line_labels>>
    BY <1>10 DEF EmitConst, Emit, segVars, counterVars
  <2>2. Defines(e, node.n, global_flag[e], addr) /\ (addr[e] # 0 => errors') /\ (errors => errors')
    BY <2>1, RecordDefines
  <2>3. Labels
    BY <2>1, <2>2 DEF Labels, LabelOps
  <2> QED
    BY <2>2, <2>3 DEF Effect
<1> QED
  BY <1>1, <1>2, <1>3, <1>4, <1>5, <1>6, <1>7, <1>8, <1>9, <1>10 DEF EmitOne

LEMMA CounterMoves ==
  ASSUME TypeOK, \A seg \in Segments : pc[seg] # 0, NEW s \in Segments, NEW v \in Nat, v # 0,
         pc' = [pc EXCEPT ![s] = v]
  PROVE  \A seg \in Segments : pc'[seg] # 0
  BY DEF TypeOK

(* The location counters never come to 0, the address of what is undefined. *)
LEMMA CountersPositive ==
  ASSUME TypeOK, NodesNamed, \A seg \in Segments : pc[seg] # 0, [Next]_vars
  PROVE  \A seg \in Segments : pc'[seg] # 0
<1> USE AssemblerAssumption
<1>s. /\ TextSeg \in Segments /\ DataSeg \in Segments /\ Cur \in Segments
      /\ pc[TextSeg] \in Nat /\ pc[DataSeg] \in Nat /\ pc[Cur] \in Nat
  BY SegmentTypes DEF Cur
<1>p. pc[DataSeg] # 0 /\ pc[Cur] # 0 /\ Aligned(pc[DataSeg]) # 0 /\ Aligned(pc[Cur]) # 0
  BY <1>s, AlignedPositive
<1>a. Aligned(pc[DataSeg]) \in Nat /\ Aligned(pc[Cur]) \in Nat
  BY <1>s, AlignedNat
<1>1. CASE pc' = pc
  BY <1>1
<1>2. CASE EmitOne
  <2>0. phase = "emit" /\ i <= Len(ast)
    BY ZenonT(30), <1>2 DEF EmitOne, EmitSegment, EmitAlign, EmitAlign0, EmitSpace, EmitGlobl,
           EmitExtern,
                EmitComm, EmitData, EmitLabel, EmitConst, EmitInst, EmitNothing, Emit
  <2>n. node.n \in Nat
    BY <2>0, NodeType
  <2> HIDE DEF node
  <2>1. CASE EmitAlign
    <3>1. pc' = [pc EXCEPT ![Cur] = Aligned(pc[Cur])]
      BY <2>1 DEF EmitAlign, Cur
    <3> QED
      BY <1>s, <1>p, <1>a, <3>1, CounterMoves
  <2>2. CASE EmitSpace \/ EmitExtern
    <3>1. pc' = [pc EXCEPT ![DataSeg] = pc[DataSeg] + node.n]
      BY <2>2 DEF EmitSpace, EmitExtern
    <3>2. pc[DataSeg] + node.n \in Nat /\ pc[DataSeg] + node.n # 0
      BY <1>s, <1>p, <2>n
    <3> QED
      BY <1>s, <3>1, <3>2, CounterMoves
  <2>3. CASE EmitComm
    <3>1. pc' = [pc EXCEPT ![DataSeg] = Aligned(pc[DataSeg]) + node.n]
      BY <2>3 DEF EmitComm
    <3>2. Aligned(pc[DataSeg]) + node.n \in Nat /\ Aligned(pc[DataSeg]) + node.n # 0
      BY <1>a, <1>p, <2>n
    <3> QED
      BY <1>s, <3>1, <3>2, CounterMoves
  <2>4. ASSUME NEW op \in DataOps, EmitData(op) PROVE \A seg \in Segments : pc'[seg] # 0
    <3>1. PICK start \in {Aligned(pc[DataSeg]), pc[DataSeg]}, len \in {W, 1} :
            pc' = [pc EXCEPT ![DataSeg] = start + len]
      BY <2>4 DEF EmitData
    <3>2. start + len \in Nat /\ start + len # 0
      BY <1>s, <1>a, <3>1
    <3> QED
      BY <1>s, <3>1, <3>2, CounterMoves
  <2>5. ASSUME NEW op \in TextOps, EmitInst(op) PROVE \A seg \in Segments : pc'[seg] # 0
    <3>1. PICK words \in {1, 2} : pc' = [pc EXCEPT ![Cur] = pc[Cur] + words * W]
      BY ZenonT(30), <2>5 DEF EmitInst, Cur, la_words
    <3>2. pc[Cur] + words * W \in Nat /\ pc[Cur] + words * W # 0
      BY <1>s, <3>1
    <3> QED
      BY <1>s, <3>1, <3>2, CounterMoves
  <2>6. CASE EmitSegment \/ EmitAlign0 \/ EmitGlobl \/ EmitLabel \/ EmitConst \/ EmitNothing
    BY <1>1, <2>6 DEF EmitSegment, EmitAlign0, EmitGlobl, EmitLabel, EmitConst, EmitNothing,
           counterVars
  <2> QED
    BY ZenonT(30), <1>2, <2>1, <2>2, <2>3, <2>4, <2>5, <2>6 DEF EmitOne
<1>3. CASE read_assembly_file
  <2>1. pc' = pc \/ pc' = [pc EXCEPT ![DataSeg] = Aligned(pc[DataSeg])]
    BY <1>3 DEF read_assembly_file, Parse
  <2> QED
    BY <1>1, <1>s, <1>p, <1>a, <2>1, CounterMoves
<1>4. CASE ResolveOne \/ ResolveDone \/ ClearNext \/ NextNode \/ EndEmit \/ FlushOne \/ FlushDone
  BY <1>1, <1>4 DEF ResolveOne, ResolveDone, ClearNext, NextNode, EndEmit, FlushOne, FlushDone,
         counterVars
<1>5. CASE UNCHANGED vars
  BY <1>1, <1>5 DEF vars, counterVars
<1> QED
  BY <1>2, <1>3, <1>4, <1>5 DEF Next, Loading

-----------------------------------------------------------------------------
(* The source text, as files are added to it.                               *)

LEMMA SameSource ==
  ASSUME loads' = loads
  PROVE  /\ AllLines' = AllLines /\ \A n : Named(n)' = Named(n)
         /\ \A d : IsGlobal(d)' <=> IsGlobal(d)
         /\ \A d : StmtAt(d)' = StmtAt(d) /\ After(d)' = After(d) /\ SourceSeg(d)' = SourceSeg(d)
         /\ \A c, n : Declares(c, n)' <=> Declares(c, n)
<1>1. AllLines' = AllLines /\ \A d : StmtAt(d)' = StmtAt(d)
  BY DEF AllLines, Lines, StmtAt
<1>2. \A n : Named(n)' = Named(n)
  BY <1>1 DEF Named
<1>3. \A d : IsGlobal(d)' <=> IsGlobal(d)
  BY <1>1 DEF IsGlobal
<1>4. \A d : After(d)' = After(d) /\ SourceSeg(d)' = SourceSeg(d)
  BY DEF After, SourceSeg
<1>5. \A c, n : Declares(c, n)' <=> Declares(c, n)
  BY <1>1 DEF Declares
<1> QED
  BY <1>1, <1>2, <1>3, <1>4, <1>5

LEMMA InSource ==
  ASSUME NEW d
  PROVE  d \in AllLines <=> /\ d = <<d[1], d[2]>> /\ d[1] \in 1..Len(loads)
                            /\ d[2] \in 1..Len(loads[d[1]])
  BY DEF AllLines, Lines

LEMMA MoreSource ==
  ASSUME TypeOK, NEW f \in Seq(Stmt), loads' = Append(loads, f)
  PROVE  /\ Len(loads') = Len(loads) + 1 /\ loads'[Len(loads) + 1] = f
         /\ \A k \in 1..Len(loads) : loads'[k] = loads[k]
         /\ AllLines \subseteq AllLines'
         /\ \A d \in AllLines' : d[1] <= Len(loads) => d \in AllLines
         /\ \A d \in AllLines : StmtAt(d)' = StmtAt(d) /\ (IsGlobal(d)' <=> IsGlobal(d))
                                /\ After(d)' = After(d) /\ SourceSeg(d)' = SourceSeg(d)
<1>1. /\ Len(loads') = Len(loads) + 1 /\ loads'[Len(loads) + 1] = f
      /\ \A k \in 1..Len(loads) : loads'[k] = loads[k]
      /\ Len(loads) \in Nat
  BY DEF TypeOK
<1>2. AllLines \subseteq AllLines'
  BY <1>1 DEF AllLines, Lines
<1>3. ASSUME NEW d \in AllLines', d[1] <= Len(loads) PROVE d \in AllLines
  BY <1>1, <1>3 DEF AllLines, Lines
<1>4. ASSUME NEW d \in AllLines PROVE d[1] \in 1..Len(loads) /\ StmtAt(d)' = StmtAt(d)
  BY <1>1, <1>4 DEF AllLines, Lines, StmtAt
<1>5. ASSUME NEW d \in AllLines PROVE IsGlobal(d)' <=> IsGlobal(d)
  <2>1. d[1] \in 1..Len(loads) /\ StmtAt(d)' = StmtAt(d)
    BY <1>4
  <2>2. \A c \in AllLines' : c[1] \in Nat
    BY <1>1 DEF AllLines, Lines
  <2>3. \A c \in AllLines' : c[1] <= d[1] => c \in AllLines
    BY <1>1, <1>3, <2>1, <2>2
  <2>4. ASSUME IsGlobal(d)' PROVE IsGlobal(d)
    <3>1. PICK c \in AllLines' : /\ StmtAt(c)'.op \in {"globl", "extern"}
                                 /\ StmtAt(c)'.name = StmtAt(d)'.name /\ c[1] <= d[1]
      BY <2>4 DEF IsGlobal
    <3>2. c \in AllLines /\ StmtAt(c)' = StmtAt(c)
      BY <1>4, <2>3, <3>1
    <3> QED
      BY <2>1, <3>1, <3>2 DEF IsGlobal
  <2>5. ASSUME IsGlobal(d) PROVE IsGlobal(d)'
    <3>1. PICK c \in AllLines : /\ StmtAt(c).op \in {"globl", "extern"}
                                /\ StmtAt(c).name = StmtAt(d).name /\ c[1] <= d[1]
      BY <2>5 DEF IsGlobal
    <3>2. c \in AllLines' /\ StmtAt(c)' = StmtAt(c)
      BY <1>2, <1>4, <3>1
    <3> QED
      BY <2>1, <3>1, <3>2 DEF IsGlobal
  <2> QED
    BY <2>4, <2>5
<1>6. ASSUME NEW d \in AllLines PROVE After(d)' = After(d) /\ SourceSeg(d)' = SourceSeg(d)
  <2>1. loads'[d[1]] = loads[d[1]]
    BY <1>1, <1>4
  <2> QED
    BY <2>1 DEF After, SourceSeg
<1> QED
  BY <1>1, <1>2, <1>3, <1>4, <1>5, <1>6

LEMMA NodeSource ==
  ASSUME NEW s \in Stmt, NEW seg, Node(s, seg).op # "error"
  PROVE  /\ Node(s, seg).op = s.op
         /\ s.op \in Definitions \cup {"globl"} => Node(s, seg) = s
<1>1. CASE s.op = "space" /\ ~IsData(seg)
  BY <1>1 DEF Node, Stmt
<1>2. CASE s.op \in DataOps \/ (s.op = "space" /\ IsData(seg))
  BY <1>2 DEF Node, Stmt, DataOps, Definitions, LabelOps
<1>3. CASE s.op \notin DataOps \cup {"space"}
  BY <1>3 DEF Node
<1> QED
  BY <1>1, <1>2, <1>3

LEMMA StepSource ==
  ASSUME AssemblerInv, SourceInv, [Next]_vars
  PROVE  SourceInv'
<1> USE AssemblerAssumption DEF AssemblerInv
<1>1. CASE read_assembly_file
  <2>1. PICK f \in Files : Parse(f)
    BY <1>1 DEF read_assembly_file, Loadable
  <2>2. f \in Seq(Stmt) /\ loads' = Append(loads, f)
    BY <2>1 DEF Parse
  <2>3. /\ Len(loads') = Len(loads) + 1 /\ loads'[Len(loads) + 1] = f
        /\ \A k \in 1..Len(loads) : loads'[k] = loads[k]
        /\ Len(loads) \in Nat
    BY <2>2 DEF TypeOK
  <2>4. \A k \in 1..Len(loads') : loads'[k] \in Files
    BY <2>3 DEF SourceInv
  <2>5. ast' = [k \in 1..Len(f) |-> Node(f[k], SegmentAt(f, k))]
    BY <2>1 DEF Parse
  <2>6. Len(f) \in Nat /\ \A k \in 1..Len(f) : f[k] \in Stmt
    BY <2>2
  <2>7. ASSUME NEW k \in 1..Len(f), Node(f[k], SegmentAt(f, k)).op # "error"
        PROVE  /\ Node(f[k], SegmentAt(f, k)).op = f[k].op
               /\ Node(f[k], SegmentAt(f, k)).op \in Definitions \cup {"globl"} =>
                    Node(f[k], SegmentAt(f, k)) = f[k]
    BY <2>6, <2>7, NodeSource
  <2>8. Len(ast') = Len(f) /\ DOMAIN ast' = 1..Len(f)
    BY <2>5, <2>6
  <2>9. file' = Len(loads) + 1 /\ loads'[file'] = f
    BY <2>3 DEF file
  <2> QED
    BY <2>4, <2>5, <2>7, <2>8, <2>9 DEF SourceInv
<1>2. CASE /\ loads' = loads
           /\ phase' \in {"emit", "resolve"} => phase \in {"emit", "resolve"} /\ ast' = ast
  BY SMTT(30), <1>2 DEF SourceInv, file
<1>3. CASE EmitOne
  BY ZenonT(30), <1>2, <1>3 DEF EmitOne, EmitSegment, EmitAlign, EmitAlign0, EmitSpace,
         EmitGlobl, EmitExtern,
         EmitComm, EmitData, EmitLabel, EmitConst, EmitInst, EmitNothing, Emit
<1>4. CASE ResolveOne \/ ResolveDone \/ ClearNext \/ NextNode \/ EndEmit \/ FlushOne \/ FlushDone
  BY <1>2, <1>4 DEF ResolveOne, ResolveDone, ClearNext, NextNode, EndEmit, FlushOne, FlushDone
<1>5. CASE UNCHANGED vars
  BY <1>2, <1>5 DEF vars
<1> QED
  BY <1>1, <1>3, <1>4, <1>5 DEF Next, Loading

(* The node about to be emitted is a statement of the file. *)
LEMMA NodeLine ==
  ASSUME AssemblerInv, SourceInv, phase = "emit", i <= Len(ast)
  PROVE  /\ <<file, i>> \in AllLines
         /\ node.op # "error" => node.op = StmtAt(<<file, i>>).op
         /\ node.op \in Definitions \cup {"globl"} => node = StmtAt(<<file, i>>)
<1>1. i \in 1..Len(ast) /\ Len(ast) = Len(loads[file]) /\ file \in 1..Len(loads)
  BY DEF AssemblerInv, TypeOK, SourceInv, file
<1>2. <<file, i>> \in AllLines
  BY <1>1, InSource
<1>3. StmtAt(<<file, i>>) = loads[file][i]
  BY DEF StmtAt
<1> QED
  BY <1>1, <1>2, <1>3 DEF SourceInv, node, Definitions, LabelOps

-----------------------------------------------------------------------------
(* Walks of the list of local labels.                                       *)

LEMMA PushVisits ==
  ASSUME TypeOK, NEW e \in Entry, NEW x \in Entry,
         next_local' = [next_local EXCEPT ![e] = local_labels], local_labels' = e,
         x = e \/ Visits(x, local_labels)
  PROVE  Visits(x, local_labels)'
<1>1. CASE x = e
  <2>1. {e} \in SUBSET Entry
    OBVIOUS
  <2> QED
    BY <1>1, <2>1 DEF Visits
<1>2. CASE x # e
  <2>1. PICK S \in SUBSET Entry : local_labels \in S /\ \A y \in S : y = x \/ next_local[y] \in S
    BY <1>2 DEF Visits
  <2> DEFINE T == S \cup {e}
  <2>2. T \in SUBSET Entry /\ local_labels' \in T
    BY <2>1
  <2>3. ASSUME NEW y \in T PROVE y = x \/ next_local'[y] \in T
    BY <2>1 DEF TypeOK
  <2> HIDE DEF T
  <2> QED
    BY <2>2, <2>3 DEF Visits
<1> QED
  BY <1>1, <1>2

LEMMA PushAvoids ==
  ASSUME TypeOK, NEW e \in Entry, NEW n, e[1] # n,
         next_local' = [next_local EXCEPT ![e] = local_labels], local_labels' = e,
         Avoids(n, local_labels)
  PROVE  Avoids(n, local_labels)'
<1>1. PICK S \in SUBSET (Entry \cup {NoEntry}) :
        local_labels \in S /\ \A x \in S : x # NoEntry => x[1] # n /\ next_local[x] \in S
  BY DEF Avoids
<1> DEFINE T == S \cup {e}
<1>2. T \in SUBSET (Entry \cup {NoEntry}) /\ local_labels' \in T
  BY <1>1
<1>3. ASSUME NEW y \in T, y # NoEntry PROVE y[1] # n /\ next_local'[y] \in T
  BY <1>1, <1>3 DEF TypeOK
<1> HIDE DEF T
<1> QED
  BY <1>2, <1>3 DEF Avoids

LEMMA EndVisits ==
  ASSUME NEW x PROVE ~Visits(x, NoEntry)
  BY AssemblerAssumption DEF Visits

LEMMA SameWalks ==
  ASSUME UNCHANGED next_local, ListHead' = ListHead, NEW x
  PROVE  /\ Visits(x, ListHead)' <=> Visits(x, ListHead)
         /\ Avoids(x, ListHead)' <=> Avoids(x, ListHead)
<1>1. Visits(x, ListHead)' <=> Visits(x, ListHead)
  BY DEF Visits
<1>2. Avoids(x, ListHead)' <=> Avoids(x, ListHead)
  BY DEF Avoids
<1> QED
  BY <1>1, <1>2

-----------------------------------------------------------------------------
(* Local symbols do not outlive their file.                                 *)

LEMMA MovedZero ==
  ASSUME TypeOK, LineDefined, NEW known, NEW seg, NEW at, Moved(known, seg, at)
  PROVE  known \in [Entry -> Nat] /\ \A x \in Entry : known[x] = 0 <=> addr[x] = 0
  BY DEF Moved, LineDefined, TypeOK

LEMMA EntryPair ==
  ASSUME NEW e \in Entry
  PROVE  e = <<e[1], e[2]>> /\ e[1] \in Names /\ e[2] \in 1..MaxFiles
  BY DEF Entry

(* Looking a name up enters it in the table, under the file being loaded.   *)
LEMMA Looked ==
  ASSUME TypeOK, EntriesCurrent, phase = "emit", NEW n \in Names, lookup_label(n)
  PROVE  /\ file \in 1..MaxFiles /\ EntryOf(n) \in Entry
         /\ EntryOf(n) = <<n, table'[n]>> /\ table'[n] # 0 /\ table'[n] <= Len(loads)
         /\ \A m \in Names : m # n => table'[m] = table[m]
         /\ addr[EntryOf(n)] # 0 => table'[n] = table[n]
         /\ table[n] # 0 => table'[n] = table[n]
<1> USE AssemblerAssumption
<1>1. file \in 1..MaxFiles /\ file = Len(loads)
  BY DEF TypeOK, file
<1>2. EntryOf(n) \in Entry /\ EntryOf(n) = <<n, IF table[n] = 0 THEN file ELSE table[n]>>
  BY <1>1, EntryOfType DEF EntryOf
<1>3. table'[n] = EntryOf(n)[2] /\ \A m \in Names : m # n => table'[m] = table[m]
  BY DEF lookup_label, TypeOK
<1>4. table'[n] = IF table[n] = 0 THEN file ELSE table[n]
  BY <1>2, <1>3
<1>5. table'[n] <= Len(loads) /\ table'[n] # 0
  BY <1>1, <1>4 DEF EntriesCurrent, TypeOK
<1>6. ASSUME addr[EntryOf(n)] # 0, table[n] = 0 PROVE FALSE
  <2>1. EntryOf(n) = <<n, file>>
    BY <1>2, <1>6
  <2>2. table[n] = file
    BY <1>6, <2>1 DEF EntriesCurrent
  <2> QED
    BY <1>1, <1>6, <2>2
<1> QED
  BY <1>1, <1>2, <1>3, <1>4, <1>5, <1>6

(* What record_label leaves of the entries, given that it defines what is   *)
(* global in the source or puts it on the list.                             *)
LEMMA DefineForget ==
  ASSUME TypeOK, DefinedListed, EntriesCurrent, phase = "emit", phase' = "resolve",
         loads' = loads, NEW n \in Names, lookup_label(n), NEW a, NEW g, NEW known,
         known \in [Entry -> Nat], \A x \in Entry : known[x] = 0 <=> addr[x] = 0,
         Defines(EntryOf(n), a, g, known), g => GlobalDef(n)
  PROVE  /\ DefinedListed' /\ EntriesCurrent'
         /\ \A x \in Entry : addr[x] # 0 => addr'[x] # 0
         /\ a # 0 => addr'[EntryOf(n)] # 0
<1> DEFINE e == EntryOf(n)
<1>1. /\ file \in 1..MaxFiles /\ e \in Entry
      /\ e = <<n, table'[n]>> /\ table'[n] # 0 /\ table'[n] <= Len(loads)
      /\ \A m \in Names : m # n => table'[m] = table[m]
      /\ addr[e] # 0 => table'[n] = table[n]
      /\ table[n] # 0 => table'[n] = table[n]
  BY Looked
<1>2. Defines(e, a, g, known)
  OBVIOUS
<1> HIDE DEF e
<1>3. \A x \in Entry : x # e => addr'[x] = known[x]
  BY <1>1, <1>2 DEF Defines
<1>4. addr[e] # 0 => addr' = known /\ UNCHANGED <<next_local, local_labels>>
  BY <1>1, <1>2 DEF Defines
<1>5. addr[e] = 0 => addr'[e] = a
  BY <1>1, <1>2 DEF Defines
<1>6. \A x \in Entry : x # e => (addr'[x] = 0 <=> addr[x] = 0)
  BY <1>3
<1>7. addr[e] # 0 => addr'[e] # 0
  BY <1>1, <1>4
<1>8. ListHead = local_labels /\ ListHead' = local_labels'
  BY DEF ListHead
<1>9. GlobalDef(n)' <=> GlobalDef(n)
  BY SameSource DEF GlobalDef
<1>10. \A m : GlobalDef(m)' <=> GlobalDef(m)
  BY SameSource DEF GlobalDef
<1>11. DefinedListed'
  <2> SUFFICES ASSUME NEW x \in Entry, addr'[x] # 0, table'[x[1]] = x[2], ~GlobalDef(x[1])
               PROVE  Visits(x, ListHead)'
    BY <1>10 DEF DefinedListed
  <2>1. x = <<x[1], x[2]>> /\ x[1] \in Names
    BY EntryPair
  <2>2. x[1] = n => x = e
    BY <1>1, <2>1
  <2>3. x # e => Visits(x, local_labels)
    <3>1. SUFFICES ASSUME x # e PROVE Visits(x, local_labels)
      OBVIOUS
    <3>2. addr[x] # 0 /\ table[x[1]] = x[2]
      BY <1>1, <1>6, <2>1, <2>2, <3>1
    <3> QED
      BY <1>8, <3>2 DEF DefinedListed
  <2>4. CASE x = e /\ addr[e] = 0
    <3>1. known[e] = 0 /\ ~g
      BY <1>1, <2>1, <2>4
    <3>2. local_labels' = e /\ next_local' = [next_local EXCEPT ![e] = local_labels]
      BY <1>2, <3>1 DEF Defines
    <3>3. Visits(x, local_labels)'
      BY <1>1, <2>4, <3>2, PushVisits
    <3> QED
      BY <1>8, <3>3
  <2>5. CASE (x # e \/ addr[e] # 0) /\ UNCHANGED <<next_local, local_labels>>
    <3>1. Visits(x, ListHead)
      <4>1. CASE x # e
        BY <1>8, <2>3, <4>1
      <4>2. CASE x = e
        BY <1>1, <2>1, <2>5, <4>2 DEF DefinedListed
      <4> QED
        BY <4>1, <4>2
    <3> QED
      BY <1>8, <2>5, <3>1, SameWalks
  <2>6. CASE next_local' = [next_local EXCEPT ![e] = local_labels] /\ local_labels' = e
    <3>1. Visits(x, local_labels)'
      BY <1>1, <2>3, <2>6, PushVisits
    <3> QED
      BY <1>8, <3>1
  <2> QED
    BY <1>2, <2>4, <2>5, <2>6 DEF Defines
<1>12. EntriesCurrent'
  <2>1. ASSUME NEW x \in Entry, x[2] > Len(loads') PROVE addr'[x] = 0
    <3>1. x # e
      <4>1. e[2] = table'[n]
        BY <1>1
      <4>2. x[2] \in Nat
        BY EntryPair, AssemblerAssumption
      <4>3. Len(loads) \in Nat
        BY DEF TypeOK
      <4> QED
        BY <1>1, <2>1, <4>1, <4>2, <4>3
    <3> QED
      BY <1>6, <2>1, <3>1 DEF EntriesCurrent
  <2>2. ASSUME NEW m \in Names PROVE table'[m] <= Len(loads')
    BY <1>1 DEF EntriesCurrent
  <2>3. ASSUME NEW m \in Names, addr'[<<m, file>>] # 0 PROVE table'[m] = file
    <3>1. <<m, file>> \in Entry
      BY <1>1 DEF Entry
    <3>2. CASE <<m, file>> = e
      BY <1>1, <3>2
    <3>3. CASE <<m, file>> # e
      <4>1. addr[<<m, file>>] # 0
        BY <1>6, <2>3, <3>1, <3>3
      <4>2. table[m] = file
        BY <4>1 DEF EntriesCurrent
      <4>3. file # 0
        BY <1>1
      <4> QED
        BY <1>1, <4>2, <4>3
    <3> QED
      BY <3>2, <3>3
  <2> QED
    BY <2>1, <2>2, <2>3 DEF EntriesCurrent, file
<1> QED
  BY <1>1, <1>5, <1>6, <1>7, <1>11, <1>12 DEF e

LEMMA EmitForget ==
  ASSUME AssemblerInv, SourceInv, ForgetInv, EmitOne
  PROVE  FlagsDeclared' /\ DefinedListed' /\ EntriesCurrent' /\ LineDefined'
<1>1. TypeOK /\ NodesNamed /\ \A seg \in Segments : pc[seg] # 0
  BY DEF AssemblerInv, ForgetInv
<1>2. /\ phase = "emit" /\ i <= Len(ast) /\ phase' = "resolve"
      /\ UNCHANGED <<ast, i, cursor, loads>> /\ Effect
  BY <1>1, EmitEffect
<1>3. /\ node.op \in Definitions \cup {"globl"} => node.name \in Names
      /\ file \in 1..MaxFiles
  BY <1>1, <1>2, NodeType
<1>4. /\ <<file, i>> \in AllLines
      /\ node.op \in Definitions \cup {"globl"} => node = StmtAt(<<file, i>>)
  BY <1>2, NodeLine
<1>5. FlagsDeclared /\ DefinedListed /\ EntriesCurrent /\ LineDefined
  BY DEF ForgetInv
<1>6. \A c, n : Declares(c, n)' <=> Declares(c, n)
  BY <1>2, SameSource
<1>7. AllLines' = AllLines /\ \A m : GlobalDef(m)' <=> GlobalDef(m)
  BY <1>2, SameSource DEF GlobalDef
<1>8. ListHead = local_labels /\ ListHead' = local_labels'
  BY <1>2 DEF ListHead
<1>9. \A m \in Names : (\E c \in AllLines : Declares(c, m)) /\ <<file, i>> \in Named(m) => GlobalDef(m)
  <2> SUFFICES ASSUME NEW m \in Names, NEW c \in AllLines, Declares(c, m), <<file, i>> \in Named(m)
               PROVE  IsGlobal(<<file, i>>)
    BY DEF GlobalDef
  <2>1. c[1] \in 1..Len(loads) /\ file = Len(loads)
    BY InSource DEF file
  <2> QED
    BY <2>1 DEF IsGlobal, Declares, Named
<1>10. \A m \in Names, e \in Entry :
         global_flag[e] /\ e[1] = m /\ <<file, i>> \in Named(m) => GlobalDef(m)
  BY <1>5, <1>9 DEF FlagsDeclared
<1> HIDE DEF node, file
<1>11. CASE Quiet
  <2>1. UNCHANGED <<table, addr, global_flag, next_local, local_labels, this_line_labels>>
    BY <1>11 DEF Quiet, listVars
  <2>2. FlagsDeclared'
    BY <1>5, <1>6, <1>7, <2>1 DEF FlagsDeclared
  <2>3. DefinedListed'
    BY <1>5, <1>7, <1>8, <2>1, SameWalks DEF DefinedListed
  <2>4. EntriesCurrent' /\ LineDefined'
    BY <1>2, <1>5, <2>1 DEF EntriesCurrent, LineDefined, OnLine, file
  <2> QED
    BY <2>2, <2>3, <2>4
<1>12. ASSUME NEW seg \in Segments, NEW at \in Nat, ItemAt(seg, at)
       PROVE  FlagsDeclared' /\ DefinedListed' /\ EntriesCurrent' /\ LineDefined'
  <2>1. UNCHANGED <<table, global_flag, next_local, local_labels, this_line_labels>>
    BY <1>12 DEF ItemAt, listVars
  <2>2. \A x \in Entry : addr'[x] = 0 <=> addr[x] = 0
    BY <1>1, <1>5, <1>12, MovedZero DEF ItemAt
  <2>3. FlagsDeclared'
    BY <1>5, <1>6, <1>7, <2>1 DEF FlagsDeclared
  <2>4. DefinedListed'
    BY <1>5, <1>7, <1>8, <2>1, <2>2, SameWalks DEF DefinedListed
  <2>5. EntriesCurrent' /\ LineDefined'
    BY <1>2, <1>3, <1>5, <2>1, <2>2 DEF EntriesCurrent, LineDefined, OnLine, file, Entry
  <2> QED
    BY <2>3, <2>4, <2>5
<1>13. CASE Globl
  <2> DEFINE e == EntryOf(node.name)
  <2>1. /\ node.op = "globl" /\ lookup_label(node.name) /\ node.name \in Names
        /\ global_flag' = [global_flag EXCEPT ![e] = TRUE]
        /\ UNCHANGED <<addr, next_local, local_labels, this_line_labels>>
    BY <1>3, <1>13 DEF Globl, listVars
  <2>2. Declares(<<file, i>>, node.name)
    BY <1>4, <2>1 DEF Declares
  <2>3. e \in Entry /\ e[1] = node.name
    BY <1>1, <1>2, <1>5, <2>1, Looked
  <2>4. FlagsDeclared'
    BY <1>4, <1>5, <1>6, <1>7, <2>1, <2>2, <2>3 DEF FlagsDeclared, TypeOK
  <2>5. DefinedListed' /\ EntriesCurrent'
    <3>1. /\ e = <<node.name, table'[node.name]>> /\ table'[node.name] # 0
          /\ table'[node.name] <= Len(loads)
          /\ \A m \in Names : m # node.name => table'[m] = table[m]
          /\ table[node.name] # 0 => table'[node.name] = table[node.name]
          /\ addr[e] # 0 => table'[node.name] = table[node.name]
      BY <1>1, <1>2, <1>5, <2>1, Looked
    <3> HIDE DEF e
    <3>2. DefinedListed'
      <4> SUFFICES ASSUME NEW x \in Entry, addr'[x] # 0, table'[x[1]] = x[2], ~GlobalDef(x[1])
                   PROVE  Visits(x, ListHead)'
        BY <1>7 DEF DefinedListed
      <4>1. x = <<x[1], x[2]>> /\ x[1] \in Names
        BY EntryPair
      <4>2. x[1] = node.name => x = e
        BY <3>1, <4>1
      <4>3. table[x[1]] = x[2]
        BY <2>1, <3>1, <4>1, <4>2
      <4>4. Visits(x, ListHead)
        BY <1>5, <2>1, <4>3 DEF DefinedListed
      <4> QED
        BY <1>8, <2>1, <4>4, SameWalks
    <3>3. EntriesCurrent'
      <4>1. ASSUME NEW m \in Names, addr'[<<m, file>>] # 0 PROVE table'[m] = file
        <5>1. table[m] = file /\ file # 0
          BY <1>2, <1>3, <1>5, <2>1, <4>1 DEF EntriesCurrent
        <5> QED
          BY <3>1, <5>1
      <4>2. \A m \in Names : table'[m] <= Len(loads')
        BY <1>2, <1>5, <3>1 DEF EntriesCurrent
      <4> QED
        BY <1>2, <1>5, <2>1, <4>1, <4>2 DEF EntriesCurrent, file
    <3> QED
      BY <3>2, <3>3
  <2>6. LineDefined'
    BY <1>5, <2>1 DEF LineDefined, OnLine
  <2> QED
    BY <2>4, <2>5, <2>6
<1>14. CASE Labels
  <2> DEFINE e == EntryOf(node.name)
             a == IF node.op = "const" THEN node.n ELSE pc[Cur]
  <2>1. /\ node.op \in LabelOps /\ lookup_label(node.name) /\ node.name \in Names
        /\ Defines(e, a, global_flag[e], addr)
        /\ this_line_labels' = IF node.op = "const" THEN this_line_labels ELSE <<e>> \o this_line_labels
        /\ UNCHANGED global_flag
    BY <1>3, <1>14 DEF Labels, Definitions
  <2>2. <<file, i>> \in Named(node.name)
    BY <1>4, <2>1 DEF Named, Definitions
  <2>3. e \in Entry /\ e[1] = node.name
    BY <1>1, <1>2, <1>5, <2>1, Looked
  <2>4. global_flag[e] => GlobalDef(node.name)
    BY <1>10, <2>1, <2>2, <2>3
  <2>5. addr \in [Entry -> Nat]
    BY <1>1 DEF TypeOK
  <2> HIDE DEF a
  <2>6. /\ DefinedListed' /\ EntriesCurrent'
        /\ \A x \in Entry : addr[x] # 0 => addr'[x] # 0
        /\ a # 0 => addr'[e] # 0
    BY <1>1, <1>2, <1>5, <2>1, <2>4, <2>5, DefineForget
  <2>7. FlagsDeclared'
    BY <1>5, <1>6, <1>7, <2>1 DEF FlagsDeclared
  <2>8. LineDefined'
    <3>1. CASE node.op = "const"
      BY <1>5, <2>1, <2>6, <3>1 DEF LineDefined, OnLine
    <3>2. CASE node.op # "const"
      <4>1. a # 0
        <5>1. Cur \in Segments
          BY <1>1, SegmentTypes DEF Cur
        <5> QED
          BY <1>1, <3>2, <5>1 DEF a
      <4>2. \A x \in Entry : OnLine(x)' => x = e \/ OnLine(x)
        BY <1>1, <2>1, <2>3, <3>2 DEF OnLine, TypeOK
      <4> QED
        BY <1>5, <2>6, <4>1, <4>2 DEF LineDefined
    <3> QED
      BY <3>1, <3>2
  <2> QED
    BY <2>6, <2>7, <2>8
<1>15. ASSUME NEW known \in [Entry -> Nat], NEW at \in Nat, AllocAt(known, at)
       PROVE  FlagsDeclared' /\ DefinedListed' /\ EntriesCurrent' /\ LineDefined'
  <2> DEFINE e == EntryOf(node.name)
             g == node.op = "extern" \/ global_flag[e]
  <2>1. /\ node.op \in {"comm", "extern"} /\ lookup_label(node.name) /\ node.name \in Names
        /\ Moved(known, DataSeg, at) /\ Defines(e, at, g, known)
        /\ global_flag' = [global_flag EXCEPT ![e] = g]
        /\ UNCHANGED this_line_labels
    BY <1>3, <1>15 DEF AllocAt, Definitions
  <2>2. <<file, i>> \in Named(node.name)
    BY <1>4, <2>1 DEF Named, Definitions
  <2>3. e \in Entry /\ e[1] = node.name
    BY <1>1, <1>2, <1>5, <2>1, Looked
  <2>4. g => \E c \in AllLines : Declares(c, node.name)
    <3>1. CASE node.op = "extern"
      <4>1. Declares(<<file, i>>, node.name)
        BY <1>4, <3>1 DEF Declares, Definitions
      <4> QED
        BY <1>4, <4>1
    <3>2. CASE global_flag[e]
      BY <1>5, <2>3, <3>2 DEF FlagsDeclared
    <3> QED
      BY <3>1, <3>2
  <2>5. g => GlobalDef(node.name)
    BY <1>9, <2>1, <2>2, <2>4
  <2>6. \A x \in Entry : known[x] = 0 <=> addr[x] = 0
    BY <1>1, <1>5, <2>1, MovedZero
  <2> HIDE DEF g
  <2>7. /\ DefinedListed' /\ EntriesCurrent'
        /\ \A x \in Entry : addr[x] # 0 => addr'[x] # 0
    BY <1>1, <1>2, <1>5, <2>1, <2>5, <2>6, DefineForget
  <2>8. FlagsDeclared'
    <3> SUFFICES ASSUME NEW x \in Entry, global_flag'[x] PROVE \E c \in AllLines : Declares(c, x[1])
      BY <1>6, <1>7 DEF FlagsDeclared
    <3>1. CASE x = e
      BY <1>1, <2>1, <2>3, <2>4, <3>1 DEF TypeOK
    <3>2. CASE x # e
      BY <1>1, <1>5, <2>1, <3>2 DEF TypeOK, FlagsDeclared
    <3> QED
      BY <3>1, <3>2
  <2>9. LineDefined'
    BY <1>5, <2>1, <2>7 DEF LineDefined, OnLine
  <2> QED
    BY <2>7, <2>8, <2>9
<1> QED
  BY <1>2, <1>11, <1>12, <1>13, <1>14, <1>15 DEF Effect

(* Parsing a file only creates entries, which are undefined.                *)
LEMMA ParseForget ==
  ASSUME AssemblerInv, ForgetInv, read_assembly_file
  PROVE  FlagsDeclared' /\ DefinedListed' /\ EntriesCurrent' /\ LineDefined'
<1> USE AssemblerAssumption
<1>1. PICK f \in Files : Parse(f)
  BY DEF read_assembly_file, Loadable
<1>2. /\ phase = "idle" /\ phase' = "emit" /\ loads' = Append(loads, f) /\ f \in Seq(Stmt)
      /\ UNCHANGED <<addr, global_flag, next_local, local_labels, this_line_labels>>
      /\ Len(loads) < MaxFiles /\ file = Len(loads)
  BY <1>1 DEF Parse, entryVars, read_assembly_file, file
<1>3. TypeOK /\ FlagsDeclared /\ DefinedListed /\ EntriesCurrent /\ LineDefined
  BY DEF ForgetInv, AssemblerInv
<1>4. \A n \in Names : table'[n] = IF table[n] = 0 /\ n \in Referenced(f) THEN Len(loads) + 1 ELSE table[n]
  BY <1>1, <1>2 DEF Parse
<1>5. /\ Len(loads') = Len(loads) + 1 /\ Len(loads) \in Nat
      /\ AllLines \subseteq AllLines'
      /\ \A d \in AllLines : StmtAt(d)' = StmtAt(d) /\ (IsGlobal(d)' <=> IsGlobal(d))
  BY <1>2, <1>3, MoreSource DEF TypeOK
<1>6. \A n : GlobalDef(n) => GlobalDef(n)'
  BY <1>5 DEF GlobalDef, Named
<1>7. FlagsDeclared'
  BY <1>2, <1>3, <1>5 DEF FlagsDeclared, Declares
<1>8. \A x \in Entry : addr[x] # 0 => x[2] <= Len(loads)
  <2> SUFFICES ASSUME NEW x \in Entry, addr[x] # 0 PROVE x[2] <= Len(loads)
    OBVIOUS
  <2>1. x[2] \in Nat /\ Len(loads) \in Nat
    BY <1>5, EntryPair
  <2>2. ~(x[2] > Len(loads))
    BY <1>3 DEF EntriesCurrent
  <2> QED
    BY <2>1, <2>2
<1>9. DefinedListed'
  <2> SUFFICES ASSUME NEW x \in Entry, addr'[x] # 0, table'[x[1]] = x[2], ~GlobalDef(x[1])'
               PROVE  Visits(x, ListHead)'
    BY DEF DefinedListed
  <2>1. x[1] \in Names /\ x[2] <= Len(loads) /\ x[2] \in Nat
    BY <1>2, <1>8, EntryPair
  <2>2. table[x[1]] = x[2]
    BY <1>4, <1>5, <2>1
  <2>3. Visits(x, ListHead)
    BY <1>2, <1>3, <1>6, <2>2 DEF DefinedListed
  <2>4. ListHead' = ListHead
    BY <1>2 DEF ListHead
  <2> QED
    BY <1>2, <2>3, <2>4, SameWalks
<1>10. EntriesCurrent'
  <2>1. ASSUME NEW x \in Entry, x[2] > Len(loads') PROVE addr'[x] = 0
    <3>1. x[2] \in Nat
      BY EntryPair
    <3>2. x[2] > Len(loads)
      BY <1>5, <2>1, <3>1
    <3> QED
      BY <1>2, <1>3, <3>2 DEF EntriesCurrent
  <2>2. \A m \in Names : table'[m] <= Len(loads')
    <3> SUFFICES ASSUME NEW m \in Names PROVE table'[m] <= Len(loads')
      OBVIOUS
    <3>1. table[m] \in Nat /\ table[m] <= Len(loads)
      BY <1>3 DEF EntriesCurrent, TypeOK
    <3> QED
      BY <1>4, <1>5, <3>1
  <2>3. ASSUME NEW m \in Names PROVE addr'[<<m, file'>>] = 0
    <3>1. file' = Len(loads) + 1 /\ <<m, file'>> \in Entry
      BY <1>2, <1>5 DEF file, Entry
    <3>2. <<m, file'>>[2] > Len(loads)
      BY <1>5, <3>1
    <3> QED
      BY <1>2, <1>3, <3>1, <3>2 DEF EntriesCurrent
  <2> QED
    BY <2>1, <2>2, <2>3 DEF EntriesCurrent
<1>11. LineDefined'
  BY <1>2, <1>3 DEF LineDefined, OnLine
<1> QED
  BY <1>7, <1>9, <1>10, <1>11

LEMMA StepForget ==
  ASSUME AssemblerInv, SourceInv, ForgetInv, [Next]_vars
  PROVE  ForgetInv'
<1> USE AssemblerAssumption
<1>1. TypeOK /\ NodesNamed /\ LineOpen /\ \A seg \in Segments : pc[seg] # 0
  BY DEF AssemblerInv, ForgetInv
<1>2. \A seg \in Segments : pc'[seg] # 0
  BY <1>1, CountersPositive
<1>3. FlagsDeclared /\ DefinedListed /\ EntriesCurrent /\ LineDefined
  BY DEF ForgetInv
<1>4. CASE EmitOne
  <2>1. phase' = "resolve"
    BY <1>1, <1>4, EmitEffect
  <2> QED
    BY <1>2, <1>4, <2>1, EmitForget DEF ForgetInv
<1>5. CASE read_assembly_file
  <2>1. phase' = "emit"
    BY <1>5 DEF read_assembly_file, Parse
  <2> QED
    BY <1>2, <1>5, <2>1, ParseForget DEF ForgetInv
<1>6. ASSUME UNCHANGED <<table, addr, global_flag, next_local, local_labels, loads>>,
             phase' \in {"emit", "resolve"} => phase \in {"emit", "resolve"},
             phase' = "idle" => phase = "idle", ListHead' = ListHead,
             \A x \in Entry : OnLine(x)' => OnLine(x)
      PROVE  ForgetInv'
  <2>1. FlagsDeclared'
    BY <1>3, <1>6, SameSource DEF FlagsDeclared
  <2>2. DefinedListed'
    BY <1>3, <1>6, SameSource, SameWalks DEF DefinedListed, GlobalDef
  <2>3. EntriesCurrent' /\ LineDefined'
    BY <1>3, <1>6 DEF EntriesCurrent, LineDefined, file
  <2> QED
    BY <1>2, <1>6, <2>1, <2>2, <2>3 DEF ForgetInv
<1>7. CASE ResolveOne \/ ResolveDone \/ EndEmit \/ UNCHANGED vars
  <2>1. /\ UNCHANGED <<table, addr, global_flag, next_local, local_labels, loads>>
        /\ UNCHANGED <<this_line_labels, cursor>>
        /\ phase' = phase \/ (phase = "emit" /\ phase' = "resolve")
    BY <1>7 DEF ResolveOne, ResolveDone, EndEmit, vars, entryVars
  <2>2. ListHead' = ListHead /\ \A x \in Entry : OnLine(x)' => OnLine(x)
    BY <2>1 DEF ListHead, OnLine
  <2> QED
    BY <1>6, <2>1, <2>2
<1>8. CASE ClearNext
  <2>1. /\ UNCHANGED <<table, addr, global_flag, next_local, local_labels, loads, cursor, phase>>
        /\ this_line_labels # <<>> /\ this_line_labels' = Tail(this_line_labels)
    BY <1>8 DEF ClearNext, entryVars
  <2>2. \A x \in Entry : OnLine(x)' => OnLine(x)
    BY SMTT(30), <1>1, <2>1 DEF OnLine, TypeOK
  <2>3. ListHead' = ListHead
    BY <2>1 DEF ListHead
  <2> QED
    BY <1>6, <2>1, <2>2, <2>3
<1>9. CASE NextNode
  <2>1. /\ UNCHANGED <<table, addr, global_flag, next_local, local_labels, loads, this_line_labels>>
        /\ phase = "resolve"
        /\ (phase' = "flush" /\ cursor' = local_labels) \/ (phase' = "emit" /\ cursor' = cursor)
    BY <1>9 DEF NextNode, entryVars
  <2>2. ListHead' = ListHead /\ \A x \in Entry : OnLine(x)' => OnLine(x)
    BY <2>1 DEF ListHead, OnLine
  <2> QED
    BY <1>6, <2>1, <2>2
<1>10. CASE FlushOne
  <2>1. /\ UNCHANGED <<addr, global_flag, next_local, local_labels, loads, this_line_labels>>
        /\ phase = "flush" /\ phase' = "flush" /\ cursor \in Entry
        /\ table' = [table EXCEPT ![cursor[1]] = 0] /\ cursor' = next_local[cursor]
    BY <1>1, <1>10 DEF FlushOne, entryVars, TypeOK
  <2>2. \A m \in Names : table'[m] = IF m = cursor[1] THEN 0 ELSE table[m]
    BY <1>1, <2>1 DEF TypeOK
  <2>3. DefinedListed'
    <3> SUFFICES ASSUME NEW x \in Entry, addr'[x] # 0, table'[x[1]] = x[2], ~GlobalDef(x[1])'
                 PROVE  Visits(x, ListHead)'
      BY DEF DefinedListed
    <3>1. x[1] \in Names /\ x[2] # 0
      BY EntryPair
    <3>2. x[1] # cursor[1] /\ table[x[1]] = x[2]
      BY <2>2, <3>1
    <3>3. ~GlobalDef(x[1])
      BY <2>1, SameSource DEF GlobalDef
    <3>4. Visits(x, cursor)
      BY <1>3, <2>1, <3>2, <3>3 DEF DefinedListed, ListHead
    <3>5. PICK S \in SUBSET Entry : cursor \in S /\ \A y \in S : y = x \/ next_local[y] \in S
      BY <3>4 DEF Visits
    <3>6. next_local[cursor] \in S
      BY <3>2, <3>5
    <3> QED
      BY <2>1, <3>5, <3>6 DEF Visits, ListHead
  <2>4. FlagsDeclared'
    BY <1>3, <2>1, SameSource DEF FlagsDeclared
  <2>5. EntriesCurrent' /\ LineDefined'
    BY <1>1, <1>3, <2>1, <2>2 DEF EntriesCurrent, LineDefined, OnLine, TypeOK
  <2> QED
    BY <1>2, <2>1, <2>3, <2>4, <2>5 DEF ForgetInv
<1>11. CASE FlushDone
  <2>1. /\ UNCHANGED <<table, addr, global_flag, next_local, loads, this_line_labels>>
        /\ phase = "flush" /\ phase' = "idle" /\ cursor = NoEntry /\ local_labels' = NoEntry
    BY <1>11 DEF FlushDone
  <2>2. ListHead = NoEntry /\ ListHead' = NoEntry
    BY <2>1 DEF ListHead
  <2>3. FlagsDeclared'
    BY <1>3, <2>1, SameSource DEF FlagsDeclared
  <2>4. DefinedListed'
    BY <1>3, <2>1, <2>2, SameSource, SameWalks DEF DefinedListed, GlobalDef
  <2>5. EntriesCurrent' /\ LineDefined'
    BY <1>3, <2>1 DEF EntriesCurrent, LineDefined, OnLine
  <2> QED
    BY <1>2, <2>1, <2>3, <2>4, <2>5 DEF ForgetInv
<1> QED
  BY <1>4, <1>5, <1>7, <1>8, <1>9, <1>10, <1>11 DEF Next, Loading

(* Of the lines of a set one comes first.                                   *)
LEMMA LeastLine ==
  ASSUME NEW G \in SUBSET AllLines, G # {}
  PROVE  \E d \in G : \A c \in G : d[1] < c[1] \/ (d[1] = c[1] /\ d[2] <= c[2])
<1> DEFINE A == {d[1] : d \in G}
<1>1. \A d \in G : d[1] \in Nat /\ d[2] \in Nat
  BY InSource
<1>2. PICK f \in A : \A g \in A : f <= g
  <2>1. A \in SUBSET Nat /\ A # {}
    BY <1>1
  <2> HIDE DEF A
  <2> QED
    BY <2>1, LeastNat
<1> DEFINE B == {d[2] : d \in {x \in G : x[1] = f}}
<1>3. PICK k \in B : \A l \in B : k <= l
  <2>1. B \in SUBSET Nat /\ B # {}
    BY <1>1, <1>2
  <2> HIDE DEF B
  <2> QED
    BY <2>1, LeastNat
<1>4. PICK d \in G : d[1] = f /\ d[2] = k
  BY <1>3
<1>5. ASSUME NEW c \in G PROVE d[1] < c[1] \/ (d[1] = c[1] /\ d[2] <= c[2])
  <2>1. f <= c[1] /\ c[1] \in Nat /\ d[1] \in Nat
    BY <1>1, <1>2
  <2>2. CASE c[1] = f
    <3>1. c[2] \in B
      BY <2>2
    <3> QED
      BY <1>3, <1>4, <2>2, <3>1
  <2> QED
    BY <1>4, <2>1, <2>2
<1> QED
  BY <1>4, <1>5

(* If some statement that names n is global, so is a definition of n: the   *)
(* first one.                                                               *)
LEMMA FirstGlobal ==
  ASSUME NEW n, GlobalDef(n)
  PROVE  \E d \in Defs(n) : IsGlobal(d)
<1> DEFINE G == {d \in Named(n) : IsGlobal(d)}
<1>1. G \in SUBSET AllLines /\ G # {}
  BY DEF GlobalDef, Named
<1>2. PICK d \in G : \A c \in G : d[1] < c[1] \/ (d[1] = c[1] /\ d[2] <= c[2])
  <2> HIDE DEF G
  <2> QED
    BY <1>1, LeastLine
<1>3. \A c \in Named(n) : c[1] \in Nat /\ c[2] \in Nat /\ StmtAt(c).name = n
  BY InSource DEF Named
<1>4. ASSUME NEW c \in Named(n), c[1] < d[1] PROVE ~IsGlobal(c)
  <2>1. c[1] \in Nat /\ d[1] \in Nat
    BY <1>3
  <2> QED
    BY <1>2, <1>4, <2>1
<1>5. ASSUME NEW c \in Named(n), c[1] = d[1] PROVE c[2] >= d[2]
  <2>1. IsGlobal(c)
    BY <1>3, <1>5 DEF IsGlobal
  <2>2. c[2] \in Nat /\ d[2] \in Nat /\ c[1] \in Nat
    BY <1>3
  <2> QED
    BY <1>2, <1>5, <2>1, <2>2
<1> QED
  BY <1>4, <1>5 DEF Defs

LEMMA InitForget == Init => SourceInv /\ ForgetInv
<1> SUFFICES ASSUME Init PROVE SourceInv /\ ForgetInv
  OBVIOUS
<1>1. /\ Len(loads) = 0 /\ phase = "idle" /\ pc = BASE /\ local_labels = NoEntry
      /\ \A e \in Entry : addr[e] = 0 /\ global_flag[e] = FALSE
      /\ \A n \in Names : table[n] = 0
  BY DEF Init
<1>2. \A e \in Entry : ~OnLine(e)
  BY DEF Init, OnLine
<1>3. SourceInv
  BY <1>1 DEF SourceInv
<1>4. FlagsDeclared /\ DefinedListed /\ EntriesCurrent /\ LineDefined
  BY <1>1, <1>2 DEF FlagsDeclared, DefinedListed, EntriesCurrent, LineDefined
<1>5. \A seg \in Segments : pc[seg] # 0
  BY <1>1, AssemblerAssumption
<1> QED
  BY <1>1, <1>3, <1>4, <1>5 DEF ForgetInv

(* Local symbols do not outlive their file, whatever the files are: what is  *)
(* still defined after flush_local_labels is global in the source.           *)
THEOREM LocalsGone == Spec => []LocalsForgotten
<1>1. Init => SourceInv /\ ForgetInv
  BY InitForget
<1>2. AssemblerInv /\ SourceInv /\ ForgetInv /\ [Next]_vars => (SourceInv /\ ForgetInv)'
  BY StepSource, StepForget
<1>3. AssemblerInv /\ ForgetInv => LocalsForgotten
  <2> SUFFICES ASSUME ForgetInv, phase = "idle", NEW n \in Names, table[n] # 0,
                      addr[<<n, table[n]>>] # 0, AssemblerInv
               PROVE  \E d \in Defs(n) : IsGlobal(d)
    BY DEF LocalsForgotten
  <2>1. <<n, table[n]>> \in Entry
    BY DEF AssemblerInv, TypeOK, Entry
  <2>2. ~Visits(<<n, table[n]>>, ListHead)
    BY EndVisits DEF ForgetInv, ListHead
  <2>3. GlobalDef(n)
    BY <2>1, <2>2 DEF ForgetInv, DefinedListed
  <2> QED
    BY <2>3, FirstGlobal
<1> QED
  BY <1>1, <1>2, <1>3, AssemblerInvariant, PTL DEF Spec

-----------------------------------------------------------------------------
(* Global symbols are kept, at the place they stand for.                    *)

LEMMA SegmentLast ==
  ASSUME NEW f \in Seq(Stmt), NEW k \in 1..Len(f), f[k].op \in Segments
  PROVE  SegmentAt(f, k) = f[k].op
<1> DEFINE dirs == {j \in 1..k : f[j].op \in Segments}
<1>1. k \in dirs /\ \A l \in dirs : l <= k
  OBVIOUS
<1>2. \A j \in dirs : (\A l \in dirs : l <= j) => j = k
  BY <1>1
<1>3. (CHOOSE j \in dirs : \A l \in dirs : l <= j) = k
  <2> HIDE DEF dirs
  <2> QED
    BY <1>1, <1>2
<1> QED
  BY <1>1, <1>3 DEF SegmentAt

LEMMA SegmentSpan ==
  ASSUME NEW f \in Seq(Stmt), NEW j \in 0..Len(f), NEW k \in j..Len(f),
         \A l \in (j + 1)..k : f[l].op \notin Segments
  PROVE  SegmentAt(f, k) = SegmentAt(f, j)
<1> DEFINE D(m) == {l \in 1..m : f[l].op \in Segments}
           last(S) == IF S = {} THEN "text" ELSE f[CHOOSE l \in S : \A x \in S : x <= l].op
<1>1. D(k) = D(j)
  OBVIOUS
<1>2. SegmentAt(f, k) = last(D(k)) /\ SegmentAt(f, j) = last(D(j))
  BY DEF SegmentAt
<1> HIDE DEF D, last
<1> QED
  BY <1>1, <1>2

LEMMA LinePushed ==
  ASSUME TypeOK, NEW e \in Entry, this_line_labels' = <<e>> \o this_line_labels
  PROVE  \A x \in Entry : OnLine(x)' <=> x = e \/ OnLine(x)
<1>1. this_line_labels \in Seq(Entry) /\ Len(this_line_labels) \in Nat
  BY DEF TypeOK
<1>2. /\ Len(this_line_labels') = Len(this_line_labels) + 1
      /\ this_line_labels'[1] = e
      /\ \A k \in 1..Len(this_line_labels) : this_line_labels'[k + 1] = this_line_labels[k]
  BY <1>1
<1> SUFFICES ASSUME NEW x \in Entry PROVE OnLine(x)' <=> x = e \/ OnLine(x)
  OBVIOUS
<1>3. ASSUME OnLine(x)' PROVE x = e \/ OnLine(x)
  <2>1. PICK k \in 1..(Len(this_line_labels) + 1) : this_line_labels'[k] = x
    BY <1>2, <1>3 DEF OnLine
  <2>2. CASE k = 1
    BY <1>2, <2>1, <2>2
  <2>3. CASE k # 1
    <3>1. k - 1 \in 1..Len(this_line_labels) /\ (k - 1) + 1 = k
      BY <1>1, <2>3
    <3>2. this_line_labels[k - 1] = x
      BY <1>2, <2>1, <3>1
    <3> QED
      BY <3>1, <3>2 DEF OnLine
  <2> QED
    BY <2>2, <2>3
<1>4. ASSUME OnLine(x) PROVE OnLine(x)'
  <2>1. PICK k \in 1..Len(this_line_labels) : this_line_labels[k] = x
    BY <1>4 DEF OnLine
  <2>2. k + 1 \in 1..Len(this_line_labels') /\ this_line_labels'[k + 1] = x
    BY <1>1, <1>2, <2>1
  <2> QED
    BY <2>2 DEF OnLine
<1>5. ASSUME x = e PROVE OnLine(x)'
  <2>1. 1 \in 1..Len(this_line_labels')
    BY <1>1, <1>2
  <2> QED
    BY <1>2, <1>5, <2>1 DEF OnLine
<1> QED
  BY <1>3, <1>4, <1>5

LEMMA EmitSegs ==
  ASSUME EmitOne
  PROVE  IF node.op \in Segments THEN Cur' = node.op ELSE Cur' = Cur
<1>1. CASE EmitSegment
  BY ZenonT(30), <1>1 DEF EmitSegment, Emit, Cur, TextSeg, DataSeg, IsData, Segments
<1>2. CASE ~EmitSegment
  <2>1. UNCHANGED <<dir, text_kernel, data_kernel>>
    BY ZenonT(30), <1>2 DEF EmitOne, EmitAlign, EmitAlign0, EmitSpace, EmitGlobl, EmitExtern,
           EmitComm,
         EmitData, EmitLabel, EmitConst, EmitInst, EmitNothing, counterVars
  <2>2. node.op \notin Segments
    BY ZenonT(30), <1>2 DEF EmitOne, EmitAlign, EmitAlign0, EmitSpace, EmitGlobl, EmitExtern,
           EmitComm,
         EmitData, EmitLabel, EmitConst, EmitInst, EmitNothing, Emit, Segments, DataOps, TextOps
  <2> QED
    BY <2>1, <2>2 DEF Cur, TextSeg, DataSeg
<1> QED
  BY <1>1, <1>2

(* What is emitted, before and after node i.                                *)
LEMMA EmittedNow ==
  ASSUME AssemblerInv, phase = "emit", phase' = "resolve", UNCHANGED <<i, loads>>, NEW d \in AllLines
  PROVE  /\ Emitted(d)' <=> Emitted(d) \/ d = <<file, i>>
         /\ ~Emitted(<<file, i>>)
<1>1. d = <<d[1], d[2]>> /\ d[1] \in 1..Len(loads) /\ d[2] \in Nat
  BY InSource
<1>2. file = Len(loads) /\ file' = file /\ file \in Nat /\ i \in Nat
  BY DEF file, AssemblerInv, TypeOK
<1>3. Emitted(d) <=> d[1] < file \/ d[2] < i
  BY DEF Emitted
<1>4. Emitted(d)' <=> d[1] < file \/ d[2] < i \/ d[2] = i
  BY <1>2 DEF Emitted
<1>5. d = <<file, i>> <=> d[1] = file /\ d[2] = i
  BY <1>1
<1>6. ~Emitted(<<file, i>>)
  BY <1>2 DEF Emitted
<1> QED
  BY <1>1, <1>2, <1>3, <1>4, <1>5, <1>6

LEMMA NamedLine ==
  ASSUME NEW n, NEW d \in Named(n)
  PROVE  /\ d \in AllLines /\ StmtAt(d).op \in Definitions /\ StmtAt(d).name = n
         /\ d = <<d[1], d[2]>> /\ d[1] \in 1..Len(loads) /\ d[2] \in 1..Len(loads[d[1]])
  BY InSource DEF Named

(* The statement after a label on its line.                                 *)
LEMMA AfterCases ==
  ASSUME NEW d \in AllLines
  PROVE  \/ /\ After(d) = d
            /\ \A k \in (d[2] + 1)..Len(loads[d[1]]) : loads[d[1]][k].op \in LabelOps \cup {"globl"}
         \/ \E k \in (d[2] + 1)..Len(loads[d[1]]) :
              /\ After(d) = <<d[1], k>> /\ loads[d[1]][k].op \notin LabelOps \cup {"globl"}
              /\ \A l \in (d[2] + 1)..(k - 1) : loads[d[1]][l].op \in LabelOps \cup {"globl"}
<1> DEFINE later == {k \in (d[2] + 1)..Len(loads[d[1]]) :
                       loads[d[1]][k].op \notin LabelOps \cup {"globl"}}
<1>1. d[2] \in Nat
  BY InSource
<1>2. CASE later = {}
  BY <1>2 DEF After
<1>3. CASE later # {}
  <2>1. later \in SUBSET Nat
    BY <1>1
  <2>2. \E k \in later : \A l \in later : k <= l
    <3> HIDE DEF later
    <3> QED
      BY <1>3, <2>1, LeastNat
  <2> DEFINE k == CHOOSE k \in later : \A l \in later : k <= l
  <2>3. k \in later /\ \A l \in later : k <= l
    BY <2>2
  <2>4. After(d) = <<d[1], k>>
    BY <1>3 DEF After
  <2> HIDE DEF k
  <2>5. ASSUME NEW l \in (d[2] + 1)..(k - 1) PROVE loads[d[1]][l].op \in LabelOps \cup {"globl"}
    <3>1. k \in (d[2] + 1)..Len(loads[d[1]]) /\ l \in Nat /\ ~(k <= l)
      BY <1>1, <2>1, <2>3, <2>5
    <3>2. l \in (d[2] + 1)..Len(loads[d[1]])
      BY <1>1, <2>5, <3>1
    <3> QED
      BY <2>3, <3>1, <3>2
  <2> QED
    BY <2>3, <2>4, <2>5
<1> QED
  BY <1>2, <1>3

\* What a step that emits nothing leaves: the lines of labels, and the table's
\* entries of the names that are not on the list.
LinesStay ==
  ~errors => \A d \in AllLines : \A e : Emitted(d) /\ LineRight(e, d) => LineRight(e, d)'
TablesStay ==
  \A n \in Names : Avoids(n, ListHead) => table'[n] = table[n] /\ Avoids(n, ListHead)'

(* A step that emits nothing keeps KeptInv, if it keeps the lists of the     *)
(* names that are followed, and their lines.                                *)
LEMMA KeptFrame ==
  ASSUME KeptInv, UNCHANGED <<loads, addr, placed, global_flag>>, errors => errors',
         \A d \in AllLines : Emitted(d)' <=> Emitted(d),
         ~errors => NodesRight' /\ SegmentFollowed',
         TablesStay, LinesStay
  PROVE  KeptInv'
<1>1. /\ AllLines' = AllLines /\ \A n : Named(n)' = Named(n)
      /\ \A d : IsGlobal(d)' <=> IsGlobal(d)
      /\ \A d : StmtAt(d)' = StmtAt(d) /\ After(d)' = After(d) /\ SourceSeg(d)' = SourceSeg(d)
      /\ \A c, n : Declares(c, n)' <=> Declares(c, n)
  BY SameSource
<1>2. PlacedEmitted'
  BY <1>1 DEF KeptInv, PlacedEmitted
<1>3. ASSUME ~errors, NEW n \in Names, Undefined(n)' PROVE Awaited(n)'
  <2>1. Undefined(n)
    BY <1>1, <1>3 DEF Undefined, Named
  <2>2. Awaited(n)
    BY <1>3, <2>1 DEF KeptInv
  <2>3. Avoids(n, ListHead)' /\ table'[n] = table[n]
    BY <2>2 DEF Awaited, TablesStay
  <2>4. (\E c \in AllLines' : Declares(c, n)' /\ Emitted(c)') => table[n] # 0 /\ global_flag[<<n, table[n]>>]
    BY <1>1, <2>2 DEF Awaited
  <2> QED
    BY <2>2, <2>3, <2>4 DEF Awaited
<1>4. ASSUME ~errors, NEW n \in Names, NEW d \in AllLines, First(n, d)', Emitted(d)' PROVE Found(n, d)'
  <2>1. First(n, d) /\ Emitted(d)
    BY <1>1, <1>4 DEF First
  <2>2. Found(n, d)
    BY <1>4, <2>1 DEF KeptInv
  <2>3. Avoids(n, ListHead)' /\ table'[n] = table[n] /\ table[n] # 0 /\ Stands(<<n, table[n]>>, d)
    BY <2>2 DEF Found, Standing, TablesStay
  <2>p. PICK e : e = <<n, table[n]>> /\ e = <<n, table'[n]>>
    BY <2>3
  <2>4. Stands(e, d)'
    BY <1>1, <2>3, <2>p DEF Stands
  <2>5. LineRight(e, d)'
    BY <1>4, <2>1, <2>2, <2>p DEF Found, Standing, LinesStay
  <2> QED
    BY <2>3, <2>4, <2>5, <2>p DEF Found, Standing
<1> QED
  BY <1>1, <1>2, <1>3, <1>4 DEF KeptInv

LEMMA KeptQuiet ==
  ASSUME AssemblerInv, KeptInv, ResolveOne \/ ResolveDone \/ UNCHANGED vars
  PROVE  KeptInv' /\ LinesStay /\ TablesStay
<1>1. /\ UNCHANGED <<loads, addr, placed, global_flag, table, next_local, local_labels, cursor,
                     this_line_labels, pc, dir, text_kernel, data_kernel, ast, i, phase>>
      /\ errors => errors'
  <2>1. CASE ResolveOne
    <3>1. errors => errors'
      BY <2>1, Zenon DEF ResolveOne
    <3> QED
      BY <2>1, <3>1 DEF ResolveOne, counterVars
  <2>2. CASE ResolveDone \/ UNCHANGED vars
    BY <2>2 DEF ResolveDone, vars, entryVars, counterVars
  <2> QED
    BY <2>1, <2>2
<1>2. file' = file /\ ListHead' = ListHead /\ Cur' = Cur
  BY <1>1 DEF file, ListHead, Cur, TextSeg, DataSeg
<1>3. \A d : Emitted(d)' <=> Emitted(d)
  BY <1>1, <1>2 DEF Emitted
<1>4. ~errors => NodesRight' /\ SegmentFollowed'
  BY <1>1, <1>2 DEF KeptInv, NodesRight, SegmentFollowed
<1>5. \A n : Avoids(n, ListHead)' <=> Avoids(n, ListHead)
  BY <1>1, <1>2, SameWalks
<1>6. \A d : OpenLine(d)' <=> OpenLine(d)
  BY <1>1, <1>2, <1>3 DEF OpenLine
<1>7. \A e : OnLine(e)' <=> OnLine(e)
  BY <1>1 DEF OnLine
<1>8. \A e, d : LineRight(e, d)' <=> LineRight(e, d)
  BY <1>1, <1>2, <1>6, <1>7, SameSource DEF LineRight
<1>t. TablesStay
  BY <1>1, <1>5 DEF TablesStay
<1>s. LinesStay
  BY <1>8 DEF LinesStay
<1> QED
  BY <1>1, <1>3, <1>4, <1>t, <1>s, KeptFrame

(* The labels of the line are taken off it only when it has ended.          *)
LEMMA KeptClear ==
  ASSUME AssemblerInv, SourceInv, KeptInv, ClearNext
  PROVE  KeptInv' /\ LinesStay /\ TablesStay
<1>1. /\ UNCHANGED <<loads, addr, placed, global_flag, table, next_local, local_labels, cursor,
                     pc, dir, text_kernel, data_kernel, ast, i, phase, errors>>
      /\ phase = "resolve" /\ EndsLine /\ this_line_labels # <<>>
      /\ this_line_labels' = Tail(this_line_labels)
  BY DEF ClearNext, entryVars, counterVars
<1>2. file' = file /\ ListHead' = ListHead /\ Cur' = Cur
  BY <1>1 DEF file, ListHead, Cur, TextSeg, DataSeg
<1>3. \A d : Emitted(d)' <=> Emitted(d)
  BY <1>1, <1>2 DEF Emitted
<1>4. ~errors => NodesRight' /\ SegmentFollowed'
  BY <1>1, <1>2 DEF KeptInv, NodesRight, SegmentFollowed
<1>5. \A n : Avoids(n, ListHead)' <=> Avoids(n, ListHead)
  BY <1>1, <1>2, SameWalks
<1>6. \A d : OpenLine(d)' <=> OpenLine(d)
  BY <1>1, <1>2, <1>3 DEF OpenLine
<1>7. \A e : OnLine(e)' => OnLine(e)
  <2> SUFFICES ASSUME NEW e, OnLine(e)' PROVE OnLine(e)
    OBVIOUS
  <2>1. this_line_labels \in Seq(Entry)
    BY DEF AssemblerInv, TypeOK
  <2>2. PICK k \in 1..Len(Tail(this_line_labels)) : Tail(this_line_labels)[k] = e
    BY <1>1 DEF OnLine
  <2>3. k + 1 \in 1..Len(this_line_labels) /\ this_line_labels[k + 1] = e
    BY <1>1, <2>1, <2>2
  <2> QED
    BY <2>3 DEF OnLine
<1>8. ASSUME NEW d \in AllLines, Emitted(d), StmtAt(d).op = "label", OpenLine(d), NodesRight
      PROVE  FALSE
  <2>1. /\ d[1] = file /\ i <= Len(ast) /\ d[2] \in 1..Len(loads[file])
        /\ Len(ast) = Len(loads[file]) /\ i \in 1..Len(ast) /\ Len(ast) \in Nat /\ file \in Nat
    BY <1>1, <1>8, InSource DEF OpenLine, SourceInv, AssemblerInv, TypeOK, file
  <2>2. node.op \notin LabelOps \cup {"globl", "error"} /\ node.op = loads[file][i].op
    BY <1>1, <2>1 DEF EndsLine, node, SourceInv
  <2>3. d[2] < i \/ d[2] = i
    BY <1>1, <1>8, <2>1 DEF Emitted
  <2>4. CASE d[2] = i
    BY <1>8, <2>1, <2>2, <2>4 DEF StmtAt, LabelOps
  <2>5. CASE d[2] < i
    <3>1. i \in (d[2] + 1)..Len(loads[file])
      BY <2>1, <2>5
    <3>2. Emitted(<<file, i>>)
      BY <1>1 DEF Emitted
    <3> QED
      BY <1>8, <2>2, <3>1, <3>2 DEF OpenLine
  <2> QED
    BY <2>3, <2>4, <2>5
<1>9. ASSUME ~errors, NEW d \in AllLines, NEW e, Emitted(d), LineRight(e, d) PROVE LineRight(e, d)'
  <2>1. NodesRight
    BY <1>9 DEF KeptInv
  <2>2. StmtAt(d)' = StmtAt(d) /\ After(d)' = After(d)
    BY <1>1, SameSource
  <2> QED
    BY <1>1, <1>2, <1>6, <1>7, <1>8, <1>9, <2>1, <2>2 DEF LineRight
<1>t. TablesStay
  BY <1>1, <1>5 DEF TablesStay
<1>s. LinesStay
  BY <1>9 DEF LinesStay
<1> QED
  BY <1>1, <1>3, <1>4, <1>t, <1>s, KeptFrame

LEMMA KeptNext ==
  ASSUME AssemblerInv, SourceInv, KeptInv, NextNode, i <= Len(ast)
  PROVE  KeptInv' /\ LinesStay /\ TablesStay
<1>1. /\ UNCHANGED <<loads, addr, placed, global_flag, table, next_local, local_labels, cursor,
                     this_line_labels, pc, dir, text_kernel, data_kernel, ast, errors>>
      /\ phase = "resolve" /\ phase' = "emit" /\ i' = i + 1
      /\ EndsLine => this_line_labels = <<>>
  <2>1. ~(i > Len(ast))
    BY DEF AssemblerInv, TypeOK
  <2> QED
    BY <2>1 DEF NextNode, entryVars, counterVars
<1>0. /\ i \in 1..Len(ast) /\ Len(ast) \in Nat /\ Len(ast) = Len(loads[file]) /\ file \in Nat
      /\ Len(ast') = Len(ast)
  BY <1>1 DEF AssemblerInv, TypeOK, SourceInv, file
<1>2. file' = file /\ ListHead' = ListHead /\ Cur' = Cur
  BY <1>1 DEF file, ListHead, Cur, TextSeg, DataSeg
<1>3. ASSUME NEW d, d[2] \in Nat PROVE Emitted(d)' <=> Emitted(d)
  <2>1. Emitted(d)' <=> d[1] < file \/ d[2] < i + 1
    BY <1>1, <1>2 DEF Emitted
  <2>2. Emitted(d) <=> d[1] < file \/ d[2] < i \/ d[2] = i
    BY <1>1 DEF Emitted
  <2> QED
    BY <1>0, <1>3, <2>1, <2>2
<1>4. ~errors => NodesRight' /\ SegmentFollowed'
  <2>1. ASSUME ~errors PROVE NodesRight'
    BY <1>1, <2>1 DEF KeptInv, NodesRight
  <2>2. ASSUME ~errors PROVE SegmentFollowed'
    <3>1. Cur = SegmentAt(loads[file], i)
      BY <1>1, <2>2 DEF KeptInv, SegmentFollowed
    <3>2. i' - 1 = i
      BY <1>0, <1>1
    <3> QED
      BY <1>1, <1>2, <3>1, <3>2 DEF SegmentFollowed
  <2> QED
    BY <2>1, <2>2
<1>5. \A n : Avoids(n, ListHead)' <=> Avoids(n, ListHead)
  BY <1>1, <1>2, SameWalks
<1>6. ASSUME NEW d \in AllLines PROVE OpenLine(d)' <=> OpenLine(d) /\ i' <= Len(ast)
  <2>1. d[2] \in Nat
    BY InSource
  <2>2. ASSUME NEW k \in (d[2] + 1)..Len(loads[file])
        PROVE  Emitted(<<file, k>>)' <=> Emitted(<<file, k>>)
    <3>1. k \in Nat
      BY <1>0, <2>1
    <3>2. Emitted(<<file, k>>)' <=> file < file \/ k < i + 1
      BY <1>1, <1>2 DEF Emitted
    <3>3. Emitted(<<file, k>>) <=> file < file \/ k < i \/ k = i
      BY <1>1 DEF Emitted
    <3> QED
      BY <1>0, <3>1, <3>2, <3>3
  <2> QED
    BY <1>0, <1>1, <1>2, <2>2 DEF OpenLine
<1>7. \A e : OnLine(e)' <=> OnLine(e)
  BY <1>1 DEF OnLine
<1>8. ASSUME NEW d \in AllLines, StmtAt(d).op = "label", After(d) = <<file, i>>, NodesRight, ~EndsLine
      PROVE  OpenLine(d)
  <2>1. node.op \in LabelOps \cup {"globl"} /\ node.op = loads[file][i].op
    BY <1>0, <1>1, <1>8 DEF EndsLine, node, SourceInv, NodesRight
  <2>2. d = <<d[1], d[2]>> /\ d[2] \in Nat
    BY InSource
  <2>3. After(d) = d
    <3> SUFFICES ASSUME After(d) # d PROVE FALSE
      OBVIOUS
    <3>1. PICK k \in (d[2] + 1)..Len(loads[d[1]]) :
            After(d) = <<d[1], k>> /\ loads[d[1]][k].op \notin LabelOps \cup {"globl"}
      BY AfterCases
    <3>2. d[1] = file /\ k = i
      BY <1>8, <3>1
    <3> QED
      BY <2>1, <3>1, <3>2
  <2>4. d[1] = file /\ d[2] = i
    BY <1>8, <2>2, <2>3
  <2>5. \A k \in (d[2] + 1)..Len(loads[file]) : ~Emitted(<<file, k>>)
    BY <1>0, <1>1, <2>4 DEF Emitted
  <2> QED
    BY <1>1, <2>4, <2>5 DEF OpenLine
<1>9. ASSUME ~errors, NEW d \in AllLines, NEW e, Emitted(d), LineRight(e, d) PROVE LineRight(e, d)'
  <2>1. NodesRight
    BY <1>9 DEF KeptInv
  <2>2. StmtAt(d)' = StmtAt(d) /\ After(d)' = After(d) /\ SourceSeg(d)' = SourceSeg(d)
    BY <1>1, SameSource
  <2>3. ASSUME OnLine(e) PROVE ~EndsLine
    BY <1>1, <2>3 DEF OnLine
  <2>4. ASSUME OnLine(e) PROVE StmtAt(d).op = "label" /\ OpenLine(d)
    BY <1>0, <1>8, <1>9, <2>1, <2>3, <2>4 DEF LineRight
  <2>5. i' <= Len(ast) \/ i' > Len(ast')
    BY <1>0, <1>1
  <2> QED
    BY <1>1, <1>6, <1>7, <1>9, <2>2, <2>4, <2>5 DEF LineRight
<1>10. \A d \in AllLines : Emitted(d)' <=> Emitted(d)
  BY <1>3, InSource
<1>t. TablesStay
  BY <1>1, <1>5 DEF TablesStay
<1>s. LinesStay
  BY <1>9 DEF LinesStay
<1> QED
  BY <1>1, <1>4, <1>10, <1>t, <1>s, KeptFrame

(* The end of the nodes.                                                    *)
LEMMA KeptEnd ==
  ASSUME AssemblerInv, SourceInv, KeptInv, EndEmit \/ (NextNode /\ i > Len(ast))
  PROVE  KeptInv' /\ LinesStay /\ TablesStay
<1>1. /\ UNCHANGED <<loads, addr, placed, global_flag, table, next_local, local_labels,
                     this_line_labels, pc, dir, text_kernel, data_kernel, ast, i, errors>>
      /\ phase \in {"emit", "resolve"} /\ phase' \in {"resolve", "flush"} /\ i > Len(ast)
      /\ phase' = "flush" => this_line_labels = <<>> /\ cursor' = local_labels
  BY DEF EndEmit, NextNode, EndsLine, entryVars, counterVars
<1>0. /\ i \in Nat /\ Len(ast) \in Nat /\ Len(ast) = Len(loads[file]) /\ file \in Nat
      /\ file = Len(loads)
  BY <1>1 DEF AssemblerInv, TypeOK, SourceInv, file
<1>2. file' = file /\ ListHead' = ListHead
  BY <1>1 DEF file, ListHead
<1>3. ASSUME NEW d \in AllLines PROVE Emitted(d) /\ Emitted(d)'
  <2>1. d[1] \in 1..file /\ (d[1] = file => d[2] \in 1..Len(ast))
    BY <1>0, InSource
  <2>2. d[1] < file \/ d[2] < i
    BY <1>0, <1>1, <2>1
  <2> QED
    BY <1>1, <1>2, <2>2 DEF Emitted
<1>4. ~errors => NodesRight' /\ SegmentFollowed'
  <2>1. SegmentFollowed'
    BY <1>0, <1>1 DEF SegmentFollowed
  <2> QED
    BY <1>1, <2>1 DEF KeptInv, NodesRight
<1>5. \A n : Avoids(n, ListHead)' <=> Avoids(n, ListHead)
  BY <1>1, <1>2, SameWalks
<1>6. \A d : ~OpenLine(d)'
  BY <1>0, <1>1 DEF OpenLine
<1>7. \A e : OnLine(e)' => OnLine(e) /\ i' > Len(ast')
  BY <1>1 DEF OnLine
<1>9. ASSUME NEW d \in AllLines, NEW e, LineRight(e, d) PROVE LineRight(e, d)'
  <2>2. StmtAt(d)' = StmtAt(d)
    BY <1>1, SameSource
  <2> QED
    BY <1>6, <1>7, <1>9, <2>2 DEF LineRight
<1>t. TablesStay
  BY <1>1, <1>5 DEF TablesStay
<1>s. LinesStay
  BY <1>9 DEF LinesStay
<1> QED
  BY <1>1, <1>3, <1>4, <1>t, <1>s, KeptFrame

LEMMA KeptFlush ==
  ASSUME AssemblerInv, KeptInv, FlushOne \/ FlushDone
  PROVE  KeptInv' /\ LinesStay /\ TablesStay
<1>1. /\ UNCHANGED <<loads, addr, placed, global_flag, next_local, this_line_labels, errors>>
      /\ phase = "flush" /\ phase' \in {"flush", "idle"}
  BY DEF FlushOne, FlushDone, entryVars, counterVars
<1>2. \A d : Emitted(d) /\ Emitted(d)'
  BY <1>1 DEF Emitted
<1>3. NodesRight' /\ SegmentFollowed'
  BY <1>1 DEF NodesRight, SegmentFollowed
<1>4. ASSUME NEW n \in Names, Avoids(n, ListHead) PROVE table'[n] = table[n] /\ Avoids(n, ListHead)'
  <2>1. ListHead = cursor
    BY <1>1 DEF ListHead
  <2>2. PICK S \in SUBSET (Entry \cup {NoEntry}) :
          cursor \in S /\ \A x \in S : x # NoEntry => x[1] # n /\ next_local[x] \in S
    BY <1>4, <2>1 DEF Avoids
  <2>3. CASE FlushOne
    <3>1. /\ cursor # NoEntry /\ cursor' = next_local[cursor] /\ phase' = "flush"
          /\ table' = [table EXCEPT ![cursor[1]] = 0]
      BY <2>3 DEF FlushOne
    <3>2. table'[n] = table[n]
      BY <2>2, <3>1 DEF AssemblerInv, TypeOK
    <3>3. ListHead' = cursor'
      BY <3>1 DEF ListHead
    <3> QED
      BY <1>1, <2>2, <3>1, <3>2, <3>3 DEF Avoids
  <2>4. CASE FlushDone
    <3>1. table' = table /\ phase' = "idle" /\ local_labels' = NoEntry
      BY <2>4 DEF FlushDone
    <3>2. ListHead' = NoEntry
      BY <3>1 DEF ListHead
    <3>3. Avoids(n, ListHead)'
      BY <3>2 DEF Avoids
    <3> QED
      BY <3>1, <3>3
  <2> QED
    BY <2>3, <2>4
<1>5. \A d, e : LineRight(e, d)'
  <2>1. \A e : ~OnLine(e)'
    BY <1>1 DEF AssemblerInv, LineOpen, OnLine
  <2>2. \A d : ~OpenLine(d)'
    BY <1>1 DEF OpenLine
  <2> QED
    BY <2>1, <2>2 DEF LineRight
<1>t. TablesStay
  BY <1>4 DEF TablesStay
<1>s. LinesStay
  BY <1>5 DEF LinesStay
<1> QED
  BY <1>1, <1>2, <1>3, <1>t, <1>s, KeptFrame

(* A new file is parsed: its lines are not emitted yet.                     *)
LEMMA KeptParse ==
  ASSUME AssemblerInv, ForgetInv, KeptInv, read_assembly_file
  PROVE  KeptInv'
<1> USE AssemblerAssumption DEF AssemblerInv
<1>1. PICK f \in Files : phase = "idle" /\ file < MaxFiles /\ Parse(f)
  BY DEF read_assembly_file, Loadable
<1>2. /\ UNCHANGED <<addr, placed, global_flag, next_local, local_labels, this_line_labels>>
      /\ f \in Seq(Stmt) /\ loads' = Append(loads, f) /\ i' = 1 /\ phase' = "emit"
      /\ \A n \in Names : table[n] # 0 => table'[n] = table[n]
  BY <1>1 DEF Parse, entryVars
<1>3. /\ Len(loads') = Len(loads) + 1 /\ loads'[Len(loads) + 1] = f
      /\ \A k \in 1..Len(loads) : loads'[k] = loads[k]
      /\ AllLines \subseteq AllLines'
      /\ \A d \in AllLines' : d[1] <= Len(loads) => d \in AllLines
      /\ \A d \in AllLines : StmtAt(d)' = StmtAt(d) /\ (IsGlobal(d)' <=> IsGlobal(d))
                             /\ After(d)' = After(d) /\ SourceSeg(d)' = SourceSeg(d)
  BY <1>2, MoreSource
<1>4. Len(loads) \in Nat /\ file = Len(loads) /\ file' = Len(loads) + 1
  BY <1>3 DEF TypeOK, file
<1>5. \A d \in AllLines : Emitted(d)
  BY <1>1 DEF Emitted
<1>6. ASSUME NEW d \in AllLines'
      PROVE  /\ d[1] \in 1..(Len(loads) + 1) /\ d[2] \in Nat \ {0}
             /\ Emitted(d)' <=> d \in AllLines
             /\ d \in AllLines <=> d[1] <= Len(loads)
  <2>1. d[1] \in 1..(Len(loads) + 1) /\ d[2] \in Nat \ {0}
    BY <1>3 DEF AllLines, Lines
  <2>2. Emitted(d)' <=> d[1] < Len(loads) + 1
    BY <1>2, <1>4, <2>1 DEF Emitted
  <2>3. d \in AllLines <=> d[1] <= Len(loads)
    BY <1>3, InSource
  <2> QED
    BY <1>4, <2>1, <2>2, <2>3
<1>7. ListHead' = ListHead
  BY <1>1, <1>2 DEF ListHead
<1>8. \A n : Avoids(n, ListHead)' <=> Avoids(n, ListHead)
  BY <1>2, <1>7, SameWalks
<1>9. \A e : ~OnLine(e) /\ ~OnLine(e)'
  BY <1>1, <1>2 DEF LineOpen, OnLine
<1>10. PlacedEmitted'
  BY <1>2, <1>3, <1>6 DEF KeptInv, PlacedEmitted
<1> SUFFICES ASSUME ~errors' PROVE
        /\ NodesRight' /\ SegmentFollowed'
        /\ \A n \in Names : Undefined(n)' => Awaited(n)'
        /\ \A n \in Names : \A d \in AllLines' : First(n, d)' /\ Emitted(d)' => Found(n, d)'
  BY <1>10 DEF KeptInv
<1>e. ~errors /\ \A k \in 1..Len(f) : ast'[k].op # "error"
  BY <1>1 DEF Parse
<1>11. NodesRight' /\ SegmentFollowed'
  <2>1. ast' = [k \in 1..Len(f) |-> Node(f[k], SegmentAt(f, k))]
    BY <1>1 DEF Parse
  <2>2. Len(f) \in Nat
    BY <1>2
  <2>3. Len(ast') = Len(f)
    BY <2>1, <2>2
  <2> QED
    BY <1>2, <1>e, <2>3 DEF NodesRight, SegmentFollowed
<1>12. ASSUME NEW n \in Names, Undefined(n)' PROVE Awaited(n)'
  <2>1. Undefined(n)
    BY <1>3, <1>6, <1>12 DEF Undefined, Named
  <2>2. Awaited(n)
    BY <1>e, <2>1 DEF KeptInv
  <2>3. ASSUME NEW c \in AllLines', Declares(c, n)', Emitted(c)'
        PROVE  table'[n] # 0 /\ global_flag'[<<n, table'[n]>>]
    <3>1. c \in AllLines /\ Declares(c, n) /\ Emitted(c)
      BY <1>3, <1>5, <1>6, <2>3 DEF Declares
    <3> QED
      BY <1>2, <2>2, <3>1 DEF Awaited
  <2> QED
    BY <1>2, <1>8, <2>2, <2>3 DEF Awaited
<1>13. ASSUME NEW n \in Names, NEW d \in AllLines', First(n, d)', Emitted(d)' PROVE Found(n, d)'
  <2>1. d \in AllLines /\ Emitted(d)
    BY <1>5, <1>6, <1>13
  <2>2. First(n, d)
    BY <1>3, <1>13, <2>1 DEF First, Named
  <2>3. Found(n, d)
    BY <1>e, <2>1, <2>2 DEF KeptInv
  <2>4. PICK e : e = <<n, table[n]>> /\ e = <<n, table'[n]>> /\ table'[n] # 0
    BY <1>2, <2>3 DEF Found, Standing
  <2>5. Stands(e, d)'
    BY <1>2, <1>3, <2>1, <2>3, <2>4 DEF Found, Standing, Stands
  <2>6. ~OpenLine(d)'
    BY <1>4, <1>6, <2>1 DEF OpenLine
  <2>7. LineRight(e, d)'
    BY <1>9, <2>6 DEF LineRight
  <2> QED
    BY <1>8, <2>3, <2>4, <2>5, <2>7 DEF Found, Standing
<1> QED
  BY <1>11, <1>12, <1>13

LEMMA DefinesAvoids ==
  ASSUME TypeOK, NEW e \in Entry, NEW a, NEW g, NEW known, Defines(e, a, g, known),
         NEW n, known[e] # 0 \/ g \/ e[1] # n, Avoids(n, local_labels)
  PROVE  Avoids(n, local_labels)'
<1>1. CASE UNCHANGED <<next_local, local_labels>>
  BY <1>1 DEF Avoids
<1>2. CASE ~UNCHANGED <<next_local, local_labels>>
  <2>1. /\ e[1] # n
        /\ next_local' = [next_local EXCEPT ![e] = local_labels] /\ local_labels' = e
    BY <1>2 DEF Defines
  <2> QED
    BY <2>1, PushAvoids
<1> QED
  BY <1>1, <1>2

(* A node leaves the entries of the names that it does not define in peace. *)
LEMMA EmitOther ==
  ASSUME AssemblerInv, SourceInv, ForgetInv, EmitOne, node.op # "error", NEW n \in Names,
         \/ <<file, i>> \notin Named(n)
         \/ node.op \notin LabelOps /\ table[n] # 0 /\ addr[<<n, table[n]>>] # 0
  PROVE  Unharmed(n)
<1> USE AssemblerAssumption
<1>1. TypeOK /\ NodesNamed /\ EntriesCurrent /\ LineDefined /\ \A seg \in Segments : pc[seg] # 0
  BY DEF AssemblerInv, ForgetInv
<1>2. phase = "emit" /\ i <= Len(ast) /\ Effect
  BY <1>1, EmitEffect
<1>3. /\ <<file, i>> \in AllLines
      /\ node.op \in Definitions \cup {"globl"} => node = StmtAt(<<file, i>>)
  BY <1>2, NodeLine
<1>4. node.op \in Definitions \cup {"globl"} => node.name \in Names
  BY <1>1, <1>2, NodeType
<1>5. ASSUME node.op \in Definitions, node.name = n
      PROVE  node.op \notin LabelOps /\ table[n] # 0 /\ addr[EntryOf(n)] # 0
  <2>1. <<file, i>> \in Named(n)
    BY <1>3, <1>5 DEF Named
  <2>2. node.op \notin LabelOps /\ table[n] # 0 /\ addr[<<n, table[n]>>] # 0
    BY <2>1
  <2> QED
    BY <2>2 DEF EntryOf
<1> HIDE DEF node
<1>6. CASE Quiet
  <2>1. /\ UNCHANGED <<table, addr, global_flag, next_local, local_labels, this_line_labels, pc, placed>>
        /\ node.op \in Segments \cup {"align0"}
    BY <1>6 DEF Quiet, listVars
  <2>2. Avoids(n, local_labels) => Avoids(n, local_labels)'
    BY <2>1 DEF Avoids
  <2>3. Unmoved(n)
    BY <2>1 DEF Unmoved
  <2> QED
    BY <2>1, <2>2, <2>3 DEF Unharmed, OnLine
<1>7. ASSUME NEW seg \in Segments, NEW at \in Nat, ItemAt(seg, at) PROVE Unharmed(n)
  <2>1. /\ UNCHANGED <<table, global_flag, next_local, local_labels, this_line_labels>>
        /\ node.op \in Items \cup {"align"}
        /\ PutAt(seg, at) /\ Moved(addr', seg, at)
    BY <1>7 DEF ItemAt, listVars, Items
  <2>2. Avoids(n, local_labels) => Avoids(n, local_labels)'
    BY <2>1 DEF Avoids
  <2>3. MovedTo(n, seg, at)
    BY <2>1 DEF MovedTo, Moved
  <2> QED
    BY <2>1, <2>2, <2>3 DEF Unharmed, OnLine
<1>8. CASE Globl
  <2>1. /\ UNCHANGED <<addr, next_local, local_labels, this_line_labels, pc, placed>>
        /\ node.op = "globl" /\ lookup_label(node.name) /\ node.name \in Names
        /\ global_flag' = [global_flag EXCEPT ![EntryOf(node.name)] = TRUE]
    BY <1>4, <1>8 DEF Globl, listVars
  <2>2. table[n] # 0 => table'[n] = table[n]
    BY <1>1, <1>2, <2>1, Looked
  <2>3. ASSUME NEW x \in Entry, global_flag[x] PROVE global_flag'[x]
    BY <1>1, <2>1, <2>3 DEF TypeOK
  <2>4. Avoids(n, local_labels) => Avoids(n, local_labels)'
    BY <2>1 DEF Avoids
  <2>5. Unmoved(n)
    BY <2>1 DEF Unmoved
  <2> QED
    BY <2>1, <2>2, <2>3, <2>4, <2>5 DEF Unharmed, OnLine
<1>9. ASSUME NEW known \in [Entry -> Nat], NEW at \in Nat, AllocAt(known, at) PROVE Unharmed(n)
  <2> DEFINE e == EntryOf(node.name)
             g == node.op = "extern" \/ global_flag[e]
  <2>1. /\ UNCHANGED this_line_labels
        /\ node.op \in {"comm", "extern"} /\ lookup_label(node.name) /\ node.name \in Names
        /\ Moved(known, DataSeg, at) /\ Defines(e, at, g, known) /\ PutAt(DataSeg, at)
        /\ global_flag' = [global_flag EXCEPT ![e] = g]
    BY <1>4, <1>9 DEF AllocAt, Definitions
  <2>2. /\ e \in Entry /\ e = <<node.name, table'[node.name]>>
        /\ \A m \in Names : m # node.name => table'[m] = table[m]
        /\ table[node.name] # 0 => table'[node.name] = table[node.name]
    BY <1>1, <1>2, <2>1, Looked
  <2>3. \A x \in Entry : known[x] = 0 <=> addr[x] = 0
    BY <1>1, <2>1, MovedZero
  <2>4. node.name = n => known[e] # 0
    BY <1>5, <2>1, <2>2, <2>3 DEF Definitions
  <2>5. ASSUME NEW x \in Entry, x[1] = n PROVE addr'[x] = known[x]
    <3>1. CASE known[e] # 0
      BY <2>1, <3>1 DEF Defines
    <3>2. CASE known[e] = 0
      <4>1. x # e
        BY <2>2, <2>4, <2>5, <3>2
      <4>2. addr' = [known EXCEPT ![e] = at]
        BY <2>1, <3>2 DEF Defines
      <4> HIDE DEF e
      <4> QED
        BY <4>1, <4>2
    <3> QED
      BY <3>1, <3>2
  <2>6. DataSeg \in Segments /\ at # 0
    BY <2>1 DEF Moved
  <2>7. MovedTo(n, DataSeg, at)
    BY <2>1, <2>5, <2>6 DEF MovedTo, Moved, Items
  <2>8. Avoids(n, local_labels) => Avoids(n, local_labels)'
    <3>1. e[1] = node.name
      BY <2>2
    <3> HIDE DEF e, g
    <3> QED
      BY <1>1, <2>1, <2>2, <2>4, <3>1, DefinesAvoids
  <2>9. ASSUME NEW x \in Entry, global_flag[x] PROVE global_flag'[x]
    <3>1. CASE x = e
      <4>1. g
        BY <2>9, <3>1
      <4> HIDE DEF g, e
      <4> QED
        BY <1>1, <2>1, <2>2, <3>1, <4>1 DEF TypeOK
    <3>2. CASE x # e
      <4> HIDE DEF g, e
      <4> QED
        BY <1>1, <2>1, <2>2, <2>9, <3>2 DEF TypeOK
    <3> QED
      BY <3>1, <3>2
  <2>10. table[n] # 0 => table'[n] = table[n]
    BY <2>2
  <2>11. \A x : OnLine(x)' <=> OnLine(x)
    BY <2>1 DEF OnLine
  <2> QED
    BY <2>6, <2>7, <2>8, <2>9, <2>10, <2>11 DEF Unharmed
<1>10. CASE Labels
  <2> DEFINE e == EntryOf(node.name)
             a == IF node.op = "const" THEN node.n ELSE pc[Cur]
             g == global_flag[e]
  <2>1. /\ UNCHANGED <<global_flag, pc, placed>>
        /\ node.op \in LabelOps /\ lookup_label(node.name) /\ node.name \in Names
        /\ Defines(e, a, g, addr)
        /\ this_line_labels' = IF node.op = "const" THEN this_line_labels ELSE <<e>> \o this_line_labels
    BY <1>4, <1>10 DEF Labels, Definitions
  <2>2. /\ e \in Entry /\ e = <<node.name, table'[node.name]>>
        /\ \A m \in Names : m # node.name => table'[m] = table[m]
    BY <1>1, <1>2, <2>1, Looked
  <2>3. node.name # n
    BY <1>5, <2>1 DEF Definitions
  <2>4. e[1] # n
    BY <2>2, <2>3
  <2> HIDE DEF e, a, g
  <2>5. ASSUME NEW x \in Entry, x[1] = n PROVE addr'[x] = addr[x]
    BY <1>1, <2>1, <2>4, <2>5 DEF Defines, TypeOK
  <2>6. Unmoved(n)
    BY <2>1, <2>5 DEF Unmoved
  <2>7. Avoids(n, local_labels) => Avoids(n, local_labels)'
    BY <1>1, <2>1, <2>2, <2>4, DefinesAvoids
  <2>8. ASSUME NEW x \in Entry, x[1] = n PROVE OnLine(x)' <=> OnLine(x)
    <3>1. CASE node.op = "const"
      BY <2>1, <3>1 DEF OnLine
    <3>2. CASE node.op # "const"
      <4>1. OnLine(x)' <=> x = e \/ OnLine(x)
        BY <1>1, <2>1, <2>2, <3>2, LinePushed
      <4> QED
        BY <2>4, <2>8, <4>1
    <3> QED
      BY <3>1, <3>2
  <2>9. table'[n] = table[n]
    BY <2>2, <2>3
  <2> QED
    BY <2>1, <2>6, <2>7, <2>8, <2>9 DEF Unharmed
<1> QED
  BY <1>2, <1>6, <1>7, <1>8, <1>9, <1>10 DEF Effect

(* The line of an emitted label goes on up to the node i just if i comes    *)
(* after it, where i does not leave the line open.                          *)
LEMMA OpenAfter ==
  ASSUME AssemblerInv, SourceInv, phase = "emit", i <= Len(ast), NEW d \in AllLines, Emitted(d),
         StmtAt(<<file, i>>).op \notin LabelOps \cup {"globl"}
  PROVE  OpenLine(d) <=> After(d) = <<file, i>>
<1>0. /\ i \in 1..Len(ast) /\ Len(ast) \in Nat /\ Len(ast) = Len(loads[file]) /\ file \in Nat
      /\ StmtAt(<<file, i>>) = loads[file][i]
  BY DEF AssemblerInv, TypeOK, SourceInv, file, StmtAt
<1>1. d = <<d[1], d[2]>> /\ d[1] \in Nat /\ d[2] \in Nat
  BY InSource
<1>2. Emitted(d) <=> d[1] < file \/ d[2] < i
  BY DEF Emitted
<1>3. ASSUME NEW k \in Nat PROVE Emitted(<<file, k>>) <=> k < i
  BY <1>0, <1>3 DEF Emitted
<1>4. OpenLine(d) <=> /\ d[1] = file
                      /\ \A k \in (d[2] + 1)..Len(loads[file]) :
                           k < i => loads[file][k].op \in LabelOps \cup {"globl"}
  <2>1. \A k \in (d[2] + 1)..Len(loads[file]) : Emitted(<<file, k>>) <=> k < i
    BY <1>0, <1>1, <1>3
  <2> QED
    BY <2>1 DEF OpenLine
<1>5. CASE d[1] # file
  <2>1. After(d) = d \/ \E k : After(d) = <<d[1], k>>
    BY AfterCases
  <2> QED
    BY <1>1, <1>4, <1>5, <2>1
<1>6. CASE d[1] = file
  <2>1. d[2] < i
    BY <1>0, <1>2, <1>6
  <2>2. i \in (d[2] + 1)..Len(loads[file])
    BY <1>0, <1>1, <2>1
  <2>3. PICK k \in (d[2] + 1)..Len(loads[file]) :
          /\ After(d) = <<file, k>> /\ loads[file][k].op \notin LabelOps \cup {"globl"}
          /\ \A l \in (d[2] + 1)..(k - 1) : loads[file][l].op \in LabelOps \cup {"globl"}
    BY <1>0, <1>6, <2>2, AfterCases
  <2>4. k <= i
    <3> SUFFICES ASSUME ~(k <= i) PROVE FALSE
      OBVIOUS
    <3>1. i \in (d[2] + 1)..(k - 1)
      BY <1>0, <1>1, <2>2, <2>3
    <3> QED
      BY <1>0, <2>3, <3>1
  <2>5. ASSUME k = i PROVE OpenLine(d)
    BY <1>0, <1>1, <1>4, <1>6, <2>3, <2>5
  <2>6. ASSUME k # i PROVE ~OpenLine(d)
    <3>1. k < i
      BY <1>0, <1>1, <2>3, <2>4, <2>6
    <3> QED
      BY <1>4, <2>3, <3>1
  <2>7. After(d) = <<file, i>> <=> k = i
    BY <2>3
  <2> QED
    BY <2>5, <2>6, <2>7
<1> QED
  BY <1>5, <1>6

(* What is placed is placed when it is emitted.                             *)
LEMMA PlacedStill ==
  ASSUME AssemblerInv, SourceInv, ForgetInv, PlacedEmitted, EmitOne
  PROVE  PlacedEmitted'
<1>1. TypeOK /\ NodesNamed /\ \A seg \in Segments : pc[seg] # 0
  BY DEF AssemblerInv, ForgetInv
<1>2. phase = "emit" /\ i <= Len(ast) /\ phase' = "resolve" /\ UNCHANGED <<i, loads>> /\ Effect
  BY <1>1, EmitEffect
<1>3. /\ <<file, i>> \in AllLines
      /\ node.op # "error" => node.op = StmtAt(<<file, i>>).op
  BY <1>2, NodeLine
<1>4. \A d : StmtAt(d)' = StmtAt(d) /\ AllLines' = AllLines
  BY <1>2, SameSource
<1>5. \A d \in AllLines : Emitted(d)' <=> Emitted(d) \/ d = <<file, i>>
  BY <1>2, EmittedNow
<1>6. CASE placed' = placed
  BY <1>4, <1>5, <1>6 DEF PlacedEmitted
<1>7. ASSUME NEW seg, NEW at, PutAt(seg, at), node.op \in Items \cup {"align"} PROVE PlacedEmitted'
  <2>1. StmtAt(<<file, i>>).op \notin LabelOps \cup {"globl"}
    BY <1>3, <1>7 DEF Items, TextOps, DataOps, LabelOps
  <2>2. DOMAIN placed' = DOMAIN placed \cup {<<file, i>>}
    BY <1>7 DEF PutAt
  <2> QED
    BY <1>3, <1>4, <1>5, <2>1, <2>2 DEF PlacedEmitted
<1>8. CASE Quiet \/ Globl \/ Labels
  BY <1>6, <1>8 DEF Quiet, Globl, Labels
<1>9. ASSUME NEW seg \in Segments, NEW at \in Nat, ItemAt(seg, at) PROVE PlacedEmitted'
  BY <1>7, <1>9 DEF ItemAt, Items
<1>10. ASSUME NEW known \in [Entry -> Nat], NEW at \in Nat, AllocAt(known, at) PROVE PlacedEmitted'
  BY <1>7, <1>10 DEF AllocAt, Items
<1> QED
  BY <1>2, <1>8, <1>9, <1>10 DEF Effect

(* The symbols that are defined already stay where they are, but for the    *)
(* labels of the line.                                                      *)
LEMMA StandsOld ==
  ASSUME AssemblerInv, SourceInv, ForgetInv, NodesRight, EmitOne,
         NEW n \in Names, NEW d \in AllLines, Emitted(d), Standing(n, d), Unharmed(n)
  PROVE  Standing(n, d)'
<1>1. TypeOK /\ NodesNamed /\ \A seg \in Segments : pc[seg] # 0
  BY DEF AssemblerInv, ForgetInv
<1>2. /\ phase = "emit" /\ i <= Len(ast) /\ phase' = "resolve" /\ UNCHANGED <<ast, i, cursor, loads>>
  BY <1>1, EmitEffect
<1>0. /\ i \in 1..Len(ast) /\ Len(ast) \in Nat /\ Len(ast) = Len(loads[file]) /\ file \in Nat
      /\ file' = file
  BY <1>2 DEF AssemblerInv, TypeOK, SourceInv, file
<1>3. node.op # "error"
  BY <1>0, <1>2 DEF NodesRight, node
<1>4. /\ <<file, i>> \in AllLines /\ node.op = StmtAt(<<file, i>>).op
      /\ node.op \in Definitions \cup {"globl"} => node = StmtAt(<<file, i>>)
  BY <1>2, <1>3, NodeLine
<1>5. /\ \A c : StmtAt(c)' = StmtAt(c) /\ After(c)' = After(c) /\ SourceSeg(c)' = SourceSeg(c)
      /\ \A c \in AllLines : Emitted(c)' <=> Emitted(c) \/ c = <<file, i>>
      /\ d # <<file, i>>
  BY <1>2, SameSource, EmittedNow
<1>8. PICK e \in Entry : e = <<n, table[n]>> /\ e = <<n, table'[n]>> /\ e[1] = n /\ table'[n] # 0
  <2>1. <<n, table[n]>> \in Entry /\ table'[n] = table[n] /\ table[n] # 0
    BY <1>1 DEF Standing, Unharmed, TypeOK, Entry
  <2> QED
    BY <2>1
<1>9. Stands(e, d) /\ LineRight(e, d) /\ (OnLine(e)' <=> OnLine(e))
  BY <1>8 DEF Standing, Unharmed
<1>o. OpenLine(d)' <=> OpenLine(d) /\ (d[1] = file => node.op \in LabelOps \cup {"globl"})
  <2>1. d[1] \in Nat /\ d[2] \in Nat
    BY InSource
  <2>2. d[1] = file => d[2] < i
    BY <1>0, <1>2, <2>1 DEF Emitted
  <2>3. ASSUME NEW k \in (d[2] + 1)..Len(loads[file])
        PROVE  (Emitted(<<file, k>>) <=> k < i) /\ (Emitted(<<file, k>>)' <=> k < i \/ k = i)
    <3>1. k \in Nat
      BY <1>0, <2>1
    <3>2. Emitted(<<file, k>>) <=> k < i
      BY <1>0, <1>2, <3>1 DEF Emitted
    <3>3. Emitted(<<file, k>>)' <=> k < i \/ k = i
      BY <1>0, <1>2, <3>1 DEF Emitted
    <3> QED
      BY <3>2, <3>3
  <2>4. OpenLine(d)' <=> /\ d[1] = file
                         /\ \A k \in (d[2] + 1)..Len(loads[file]) :
                              k < i \/ k = i => loads[file][k].op \in LabelOps \cup {"globl"}
    BY <1>0, <1>2, <2>3 DEF OpenLine
  <2>5. OpenLine(d) <=> /\ d[1] = file
                        /\ \A k \in (d[2] + 1)..Len(loads[file]) :
                             k < i => loads[file][k].op \in LabelOps \cup {"globl"}
    BY <1>2, <2>3 DEF OpenLine
  <2>6. d[1] = file => i \in (d[2] + 1)..Len(loads[file])
    BY <1>0, <2>1, <2>2
  <2>7. node.op = loads[file][i].op
    BY <1>4 DEF StmtAt
  <2> QED
    BY <2>4, <2>5, <2>6, <2>7
<1>a. node.op \notin LabelOps \cup {"globl"} => (OpenLine(d) <=> After(d) = <<file, i>>)
  BY <1>2, <1>4, OpenAfter
<1>l. OnLine(e) => StmtAt(d).op = "label" /\ OpenLine(d)
  BY <1>0, <1>2, <1>9 DEF LineRight
<1>r. OnLine(e)' => /\ StmtAt(d).op = "label"
                    /\ OpenLine(d)' \/ After(d) = <<file, i>>
  BY <1>9, <1>a, <1>l, <1>o
<1>11. CASE Unmoved(n)
  <2>1. placed' = placed /\ pc' = pc /\ addr'[e] = addr[e]
    BY <1>8, <1>11 DEF Unmoved
  <2>2. Stands(e, d)'
    BY <1>5, <1>9, <2>1 DEF Stands
  <2>3. LineRight(e, d)'
    BY <1>0, <1>2, <1>5, <1>9, <1>o, <1>r, <2>1 DEF LineRight
  <2> QED
    BY <1>8, <2>2, <2>3 DEF Standing
<1>12. ASSUME NEW seg \in Segments, NEW at \in Nat, MovedTo(n, seg, at) PROVE Standing(n, d)'
  <2>1. /\ node.op \notin LabelOps \cup {"globl"}
        /\ \/ addr'[e] = addr[e] /\ (OnLine(e) => at = pc[seg])
           \/ OnLine(e) /\ addr'[e] = at
        /\ at # 0 /\ PutAt(seg, at)
    BY <1>8, <1>12 DEF MovedTo, Items, TextOps, DataOps, LabelOps
  <2>2. ~OpenLine(d)'
    BY <1>o, <2>1 DEF OpenLine
  <2>3. LineRight(e, d)'
    BY <1>0, <1>2, <1>5, <1>r, <2>2 DEF LineRight
  <2>4. /\ <<file, i>> \in DOMAIN placed'
        /\ placed'[<<file, i>>].seg = seg /\ placed'[<<file, i>>].at = at
        /\ \A c : c # <<file, i>> => /\ c \in DOMAIN placed' <=> c \in DOMAIN placed
                                     /\ c \in DOMAIN placed => placed'[c] = placed[c]
    BY <2>1 DEF PutAt
  <2>5. CASE OnLine(e)
    <3>1. StmtAt(d).op = "label" /\ OpenLine(d) /\ After(d) = <<file, i>>
      BY <1>a, <1>l, <2>1, <2>5
    <3>2. addr[e] = pc[SourceSeg(d)] /\ addr[e] # 0
      BY <1>9, <3>1 DEF LineRight, Stands
    <3>3. addr'[e] # 0 /\ (seg = SourceSeg(d) => addr'[e] = at)
      BY <2>1, <2>5, <3>2
    <3>4. Stands(e, d)'
      BY <1>5, <2>4, <3>1, <3>3 DEF Stands
    <3> QED
      BY <1>8, <2>3, <3>4 DEF Standing
  <2>6. CASE ~OnLine(e)
    <3>1. addr'[e] = addr[e]
      BY <2>1, <2>6
    <3>2. StmtAt(d).op = "label" => After(d) # <<file, i>>
      BY <1>9, <1>a, <2>1, <2>6 DEF LineRight
    <3>3. Stands(e, d)'
      <4> DEFINE p == <<file, i>>
                 q == After(d)
      <4>1. /\ d # p /\ (StmtAt(d).op = "label" => q # p)
            /\ \A c : c # p => /\ c \in DOMAIN placed' <=> c \in DOMAIN placed
                               /\ c \in DOMAIN placed => placed'[c] = placed[c]
            /\ After(d)' = q
        BY <1>5, <2>4, <3>2
      <4> HIDE DEF p, q
      <4>2. After(d) = q
        BY DEF q
      <4> QED
        BY <1>5, <1>9, <3>1, <4>1, <4>2 DEF Stands
    <3> QED
      BY <1>8, <2>3, <3>3 DEF Standing
  <2> QED
    BY <2>5, <2>6
<1> QED
  BY <1>11, <1>12 DEF Unharmed

LEMMA KeptOld ==
  ASSUME AssemblerInv, SourceInv, ForgetInv, KeptInv, ~errors, EmitOne,
         NEW n \in Names, NEW d \in AllLines, First(n, d), Emitted(d)
  PROVE  Found(n, d)'
<1>1. TypeOK /\ NodesNamed /\ \A seg \in Segments : pc[seg] # 0
  BY DEF AssemblerInv, ForgetInv
<1>2. phase = "emit" /\ i <= Len(ast) /\ phase' = "resolve" /\ UNCHANGED <<ast, i, loads>>
  BY <1>1, EmitEffect
<1>3. node.op # "error"
  BY <1>1, <1>2 DEF KeptInv, NodesRight, node, TypeOK
<1>4. node.op = StmtAt(<<file, i>>).op
  BY <1>2, <1>3, NodeLine
<1>5. d # <<file, i>>
  BY <1>2, EmittedNow
<1>6. Found(n, d)
  BY DEF KeptInv
<1>7. Unharmed(n)
  <2>1. table[n] # 0 /\ addr[<<n, table[n]>>] # 0
    BY <1>6 DEF Found, Standing, Stands
  <2>2. <<file, i>> \in Named(n) => node.op \notin LabelOps
    BY <1>4, <1>5 DEF First
  <2> QED
    BY <1>3, <2>1, <2>2, EmitOther
<1>8. Avoids(n, ListHead)'
  <2>1. ListHead = local_labels /\ ListHead' = local_labels'
    BY <1>2 DEF ListHead
  <2> QED
    BY <1>6, <1>7, <2>1 DEF Found, Unharmed, Avoids
<1>9. Standing(n, d)'
  BY <1>6, <1>7, StandsOld DEF Found, KeptInv
<1> QED
  BY <1>8, <1>9 DEF Found

(* What a declaration has made of the name that node i defines: it comes    *)
(* before the definition.                                                   *)
LEMMA DeclaredBefore ==
  ASSUME AssemblerInv, SourceInv, ScopesClean, phase = "emit", i <= Len(ast),
         NEW n \in Names, NEW c \in AllLines, Declares(c, n), c[1] <= file,
         StmtAt(<<file, i>>).op \in Definitions, StmtAt(<<file, i>>).name = n
  PROVE  c = <<file, i>> \/ Emitted(c)
<1>0. /\ i \in 1..Len(ast) /\ Len(ast) \in Nat /\ Len(ast) = Len(loads[file]) /\ file \in 1..Len(loads)
      /\ StmtAt(<<file, i>>) = loads[file][i] /\ loads[file] \in Files
  BY DEF AssemblerInv, TypeOK, SourceInv, file, StmtAt
<1>1. /\ c = <<c[1], c[2]>> /\ c[1] \in 1..Len(loads) /\ c[2] \in 1..Len(loads[c[1]])
      /\ StmtAt(c) = loads[c[1]][c[2]]
  BY InSource DEF StmtAt
<1>2. Emitted(c) <=> c[1] < file \/ c[2] < i
  BY DEF Emitted
<1>3. CASE c[1] = file
  <2>1. loads[file][c[2]].op \in {"globl", "extern"} /\ loads[file][c[2]].name = n
    BY <1>1, <1>3 DEF Declares
  <2>2. c[2] \in 1..Len(loads[file]) /\ i \in 1..Len(loads[file])
    BY <1>0, <1>1, <1>3
  <2>3. ~(i < c[2])
    BY <1>0, <2>1, <2>2 DEF ScopesClean
  <2>4. c[2] = i \/ c[2] < i
    BY <1>0, <2>2, <2>3
  <2> QED
    BY <1>1, <1>2, <1>3, <2>4
<1>4. CASE c[1] # file
  BY <1>0, <1>1, <1>2, <1>4
<1> QED
  BY <1>3, <1>4

(* A label is written in the segment that is selected when it is emitted.   *)
LEMMA CurrentSegment ==
  ASSUME AssemblerInv, SourceInv, DirectiveFirst, SegmentFollowed, phase = "emit", i <= Len(ast),
         StmtAt(<<file, i>>).op \notin Segments
  PROVE  Cur = SourceSeg(<<file, i>>)
<1>0. /\ i \in 1..Len(ast) /\ Len(ast) \in Nat /\ Len(ast) = Len(loads[file]) /\ file \in 1..Len(loads)
      /\ StmtAt(<<file, i>>) = loads[file][i] /\ loads[file] \in Files
      /\ SourceSeg(<<file, i>>) = SegmentAt(loads[file], i)
  BY DEF AssemblerInv, TypeOK, SourceInv, file, StmtAt, SourceSeg
<1>1. i # 1
  <2> SUFFICES ASSUME i = 1 PROVE FALSE
    OBVIOUS
  <2>1. loads[file] # <<>>
    BY <1>0
  <2> QED
    BY <1>0, <2>1 DEF DirectiveFirst
<1>2. loads[file] \in Seq(Stmt)
  BY <1>0, AssemblerAssumption
<1>3. /\ i - 1 \in 0..Len(loads[file]) /\ i \in (i - 1)..Len(loads[file])
      /\ \A l \in ((i - 1) + 1)..i : l = i
  BY <1>0, <1>1
<1>4. SegmentAt(loads[file], i) = SegmentAt(loads[file], i - 1)
  BY <1>0, <1>2, <1>3, SegmentSpan
<1> QED
  BY <1>0, <1>1, <1>4 DEF SegmentFollowed

LEMMA FollowedStill ==
  ASSUME AssemblerInv, SourceInv, ForgetInv, DirectiveFirst, SegmentFollowed, EmitOne,
         node.op = "error" => StmtAt(<<file, i>>).op \notin Segments
  PROVE  SegmentFollowed'
<1>1. TypeOK /\ NodesNamed /\ \A seg \in Segments : pc[seg] # 0
  BY DEF AssemblerInv, ForgetInv
<1>2. phase = "emit" /\ i <= Len(ast) /\ phase' = "resolve" /\ UNCHANGED <<ast, i, loads>>
  BY <1>1, EmitEffect
<1>0. /\ i \in 1..Len(ast) /\ Len(ast) = Len(loads[file]) /\ file \in 1..Len(loads)
      /\ StmtAt(<<file, i>>) = loads[file][i] /\ loads[file] \in Files
      /\ SourceSeg(<<file, i>>) = SegmentAt(loads[file], i) /\ file' = file
  BY <1>2 DEF AssemblerInv, TypeOK, SourceInv, file, StmtAt, SourceSeg
<1>3. node.op # "error" => node.op = loads[file][i].op
  BY <1>0, <1>2, NodeLine
<1>4. loads[file] \in Seq(Stmt)
  BY <1>0, AssemblerAssumption
<1>5. Cur' = SegmentAt(loads[file], i)
  <2>1. CASE node.op \in Segments
    <3>1. node.op = loads[file][i].op
      BY <1>3, <2>1 DEF Segments
    <3> QED
      BY <1>0, <1>4, <2>1, <3>1, EmitSegs, SegmentLast
  <2>2. CASE node.op \notin Segments
    BY <1>0, <1>2, <1>3, <2>2, EmitSegs, CurrentSegment
  <2> QED
    BY <2>1, <2>2
<1> QED
  BY <1>0, <1>2, <1>5 DEF SegmentFollowed

(* A name that is still not defined waits on.                               *)
LEMMA AwaitedStill ==
  ASSUME AssemblerInv, SourceInv, ForgetInv, EmitOne, node.op # "error",
         NEW n \in Names, Awaited(n), <<file, i>> \notin Named(n)
  PROVE  Awaited(n)'
<1>1. TypeOK /\ NodesNamed /\ EntriesCurrent /\ LineDefined /\ \A seg \in Segments : pc[seg] # 0
  BY DEF AssemblerInv, ForgetInv
<1>2. phase = "emit" /\ i <= Len(ast) /\ phase' = "resolve" /\ UNCHANGED <<ast, i, cursor, loads>> /\ Effect
  BY <1>1, EmitEffect
<1>3. /\ <<file, i>> \in AllLines /\ node.op = StmtAt(<<file, i>>).op
      /\ node.op \in Definitions \cup {"globl"} => node = StmtAt(<<file, i>>)
  BY <1>2, NodeLine
<1>4. Unharmed(n)
  BY EmitOther
<1>5. Avoids(n, ListHead)'
  <2>1. ListHead = local_labels /\ ListHead' = local_labels'
    BY <1>2 DEF ListHead
  <2> QED
    BY <1>4, <2>1 DEF Awaited, Unharmed, Avoids
<1>6. ASSUME NEW x \in Entry, x[1] = n PROVE addr'[x] = 0
  <2>1. addr[x] = 0 /\ ~OnLine(x)
    BY <1>1, <1>6 DEF Awaited, LineDefined
  <2> QED
    BY <1>4, <1>6, <2>1 DEF Unharmed, Unmoved, MovedTo
<1>7. ASSUME NEW c \in AllLines, Declares(c, n), Emitted(c)'
      PROVE  table'[n] # 0 /\ global_flag'[<<n, table'[n]>>]
  <2>1. Emitted(c) \/ c = <<file, i>>
    BY <1>2, <1>7, EmittedNow
  <2>2. CASE Emitted(c)
    <3>1. table[n] # 0 /\ global_flag[<<n, table[n]>>] /\ table'[n] = table[n]
      BY <1>4, <1>7, <2>2 DEF Awaited, Unharmed
    <3>2. <<n, table[n]>> \in Entry /\ <<n, table[n]>>[1] = n
      BY <1>1, <3>1 DEF TypeOK, Entry
    <3> QED
      BY <1>4, <3>1, <3>2 DEF Unharmed
  <2>3. CASE c = <<file, i>>
    <3>1. node.op = "globl" /\ node.name = n
      BY <1>3, <1>7, <2>3 DEF Declares, Named, Definitions
    <3>2. Globl
      BY <1>2, <3>1 DEF Effect, Quiet, Labels, ItemAt, AllocAt, Segments, LabelOps, TextOps, DataOps
    <3>3. lookup_label(n) /\ global_flag' = [global_flag EXCEPT ![EntryOf(n)] = TRUE]
      BY <3>1, <3>2 DEF Globl
    <3>4. EntryOf(n) \in Entry /\ EntryOf(n) = <<n, table'[n]>> /\ table'[n] # 0
      BY <1>1, <1>2, <3>3, Looked
    <3>5. global_flag'[EntryOf(n)] = TRUE
      BY <1>1, <3>3, <3>4 DEF TypeOK
    <3> QED
      BY <3>4, <3>5
  <2> QED
    BY <2>1, <2>2, <2>3
<1>8. AllLines' = AllLines /\ \A c : Declares(c, n)' <=> Declares(c, n)
  BY <1>2, SameSource
<1> QED
  BY <1>5, <1>6, <1>7, <1>8 DEF Awaited

(* A symbol that is not defined gets the place of its definition.           *)
LEMMA StandsNew ==
  ASSUME AssemblerInv, SourceInv, ForgetInv, PlacedEmitted, NodesRight, SegmentFollowed,
         ScopesClean, EmitOne,
         NEW n \in Names, NEW d, d = <<file, i>>, d \in Named(n), addr[EntryOf(n)] = 0
  PROVE  Standing(n, d)'
<1> USE AssemblerAssumption
<1>1. TypeOK /\ NodesNamed /\ EntriesCurrent /\ LineDefined /\ \A seg \in Segments : pc[seg] # 0
  BY DEF AssemblerInv, ForgetInv
<1>2. phase = "emit" /\ i <= Len(ast) /\ phase' = "resolve" /\ UNCHANGED <<ast, i, cursor, loads>> /\ Effect
  BY <1>1, EmitEffect
<1>0. /\ i \in 1..Len(ast) /\ Len(ast) \in Nat /\ Len(ast) = Len(loads[file])
      /\ file \in 1..Len(loads) /\ file = Len(loads) /\ file' = file
      /\ d[1] = file /\ d[2] = i
  BY <1>2 DEF AssemblerInv, TypeOK, SourceInv, file
<1>3. node.op # "error"
  BY <1>0, <1>2 DEF NodesRight, node
<1>4. d \in AllLines /\ node = StmtAt(d) /\ node.op \in Definitions /\ node.name = n /\ d \in Named(n)
  BY <1>2, <1>3, NodeLine, NamedLine
<1>5. \A c : StmtAt(c)' = StmtAt(c) /\ After(c)' = After(c) /\ SourceSeg(c)' = SourceSeg(c)
  BY <1>2, SameSource
<1>8. PICK e \in Entry : /\ e = EntryOf(n) /\ addr[e] = 0 /\ ~OnLine(e) /\ e[1] = n
                         /\ table[n] # 0 => e = <<n, table[n]>>
  <2>1. file \in 1..MaxFiles
    BY <1>0, <1>1 DEF TypeOK
  <2>2. EntryOf(n) \in Entry /\ EntryOf(n)[1] = n
    BY <1>1, <2>1, EntryOfType DEF EntryOf
  <2>3. addr[EntryOf(n)] = 0 /\ ~OnLine(EntryOf(n))
    BY <1>1, <2>2 DEF LineDefined
  <2>4. table[n] # 0 => EntryOf(n) = <<n, table[n]>>
    BY DEF EntryOf
  <2> QED
    BY <2>2, <2>3, <2>4
<1>11. ASSUME lookup_label(n) PROVE e = <<n, table'[n]>> /\ table'[n] # 0
  BY <1>1, <1>2, <1>8, <1>11, Looked
<1>12. CASE StmtAt(d).op \in {"comm", "extern"}
  <2>1. PICK known \in [Entry -> Nat], at \in Nat : AllocAt(known, at)
    BY <1>2, <1>4, <1>12 DEF Effect, Quiet, Globl, Labels, ItemAt, Segments, LabelOps, TextOps,
           DataOps
  <2> DEFINE g == node.op = "extern" \/ global_flag[e]
  <2>2. /\ lookup_label(n) /\ Moved(known, DataSeg, at) /\ Defines(e, at, g, known)
        /\ PutAt(DataSeg, at) /\ UNCHANGED this_line_labels
    BY <1>4, <1>8, <2>1 DEF AllocAt
  <2>3. known[e] = 0
    BY <1>1, <1>8, <2>2, MovedZero
  <2> HIDE DEF g
  <2>6. addr'[e] = at /\ at # 0
    BY <2>2, <2>3 DEF Defines, Moved
  <2>7. d \in DOMAIN placed' /\ placed'[d].at = at
    BY <2>2 DEF PutAt
  <2>8. StmtAt(d)'.op = StmtAt(d).op /\ StmtAt(d).op \notin {"label", "const"}
    BY <1>5, <1>12
  <2>9. Stands(e, d)'
    BY <1>12, <2>6, <2>7, <2>8 DEF Stands
  <2>10. ~OnLine(e)'
    BY <1>8, <2>2 DEF OnLine
  <2>11. LineRight(e, d)'
    BY <2>8, <2>10 DEF LineRight
  <2> QED
    BY <1>11, <2>2, <2>9, <2>11 DEF Standing
<1>13. CASE StmtAt(d).op \in LabelOps
  <2>1. Labels
    BY <1>2, <1>3, <1>4, <1>13
       DEF Effect, Quiet, Globl, AllocAt, ItemAt, Segments, LabelOps, TextOps, DataOps
  <2> DEFINE a == IF node.op = "const" THEN node.n ELSE pc[Cur]
             g == global_flag[e]
  <2>2. /\ lookup_label(n) /\ Defines(e, a, g, addr) /\ UNCHANGED <<pc, placed>>
        /\ this_line_labels' = IF node.op = "const" THEN this_line_labels ELSE <<e>> \o this_line_labels
    BY <1>4, <1>8, <2>1 DEF Labels
  <2>5. addr'[e] = a
    <3> HIDE DEF a, g
    <3> QED
      BY <1>1, <1>8, <2>2 DEF Defines, TypeOK
  <2>6. CASE StmtAt(d).op = "const"
    <3>1. addr'[e] = StmtAt(d).n
      BY <1>4, <2>5, <2>6
    <3>2. StmtAt(d) = loads[file][i] /\ loads[file] \in Files /\ i \in 1..Len(loads[file])
      BY <1>0 DEF StmtAt, SourceInv
    <3>3. StmtAt(d).n # 0
      BY <2>6, <3>2 DEF ScopesClean
    <3>4. Stands(e, d)'
      BY <1>5, <2>6, <3>1, <3>3 DEF Stands
    <3>5. ~OnLine(e)'
      BY <1>4, <1>8, <2>2, <2>6 DEF OnLine
    <3>6. LineRight(e, d)'
      BY <1>5, <2>6, <3>5 DEF LineRight
    <3> QED
      BY <1>11, <2>2, <3>4, <3>6 DEF Standing
  <2>7. CASE StmtAt(d).op = "label"
    <3>1. addr'[e] = pc[Cur] /\ this_line_labels' = <<e>> \o this_line_labels
      BY <1>4, <2>2, <2>5, <2>7
    <3>2. OnLine(e)'
      BY <1>1, <3>1, LinePushed
    <3>3. Cur = SourceSeg(d)
      <4>1. StmtAt(d).op \notin Segments
        BY <2>7 DEF Segments
      <4> QED
        BY <1>2, <4>1, CurrentSegment DEF ScopesClean
    <3>4. pc[Cur] # 0
      BY <1>1, SegmentTypes DEF Cur
    <3>5. After(d) \notin DOMAIN placed
      <4> SUFFICES ASSUME After(d) \in DOMAIN placed PROVE FALSE
        OBVIOUS
      <4>1. Emitted(After(d)) /\ StmtAt(After(d)).op \notin LabelOps \cup {"globl"}
        BY DEF PlacedEmitted
      <4>2. After(d) # d
        BY <2>7, <4>1 DEF LabelOps
      <4>3. PICK k \in (d[2] + 1)..Len(loads[d[1]]) : After(d) = <<d[1], k>>
        BY <1>4, <4>2, AfterCases
      <4>4. k \in Nat /\ k > i
        BY <1>0, <4>3
      <4>5. Emitted(After(d)) <=> file < file \/ k < i
        BY <1>0, <1>2, <4>3 DEF Emitted
      <4> QED
        BY <1>0, <4>1, <4>4, <4>5
    <3>6. Stands(e, d)'
      BY <1>5, <2>2, <2>7, <3>1, <3>4, <3>5 DEF Stands
    <3>7. OpenLine(d)'
      <4>1. ASSUME NEW k \in (d[2] + 1)..Len(loads[file]) PROVE ~Emitted(<<file, k>>)'
        <5>1. k \in Nat /\ k > i
          BY <1>0, <4>1
        <5>2. Emitted(<<file, k>>)' <=> file < file \/ k < i \/ k = i
          BY <1>0, <1>2 DEF Emitted
        <5> QED
          BY <1>0, <5>1, <5>2
      <4> QED
        BY <1>0, <1>2, <4>1 DEF OpenLine
    <3>8. LineRight(e, d)'
      BY <1>5, <2>2, <2>7, <3>1, <3>2, <3>3, <3>7 DEF LineRight
    <3> QED
      BY <1>11, <2>2, <3>6, <3>8 DEF Standing
  <2> QED
    BY <1>13, <2>6, <2>7 DEF LabelOps
<1> QED
  BY <1>4, <1>12, <1>13 DEF Definitions

(* A global symbol is not put on the list when it is defined.               *)
LEMMA KeptNew ==
  ASSUME AssemblerInv, SourceInv, ForgetInv, KeptInv, ScopesClean, ~errors, EmitOne,
         NEW n \in Names, NEW d, d = <<file, i>>, First(n, d)
  PROVE  Found(n, d)'
<1> USE AssemblerAssumption
<1>1. TypeOK /\ NodesNamed /\ EntriesCurrent /\ LineDefined /\ \A seg \in Segments : pc[seg] # 0
  BY DEF AssemblerInv, ForgetInv
<1>2. phase = "emit" /\ i <= Len(ast) /\ phase' = "resolve" /\ UNCHANGED <<ast, i, cursor, loads>> /\ Effect
  BY <1>1, EmitEffect
<1>0. /\ i \in 1..Len(ast) /\ Len(ast) \in Nat /\ Len(ast) = Len(loads[file])
      /\ file \in 1..Len(loads) /\ file = Len(loads) /\ file' = file
      /\ d[1] = file /\ d[2] = i
  BY <1>2 DEF AssemblerInv, TypeOK, SourceInv, file
<1>3. node.op # "error"
  BY <1>0, <1>2 DEF KeptInv, NodesRight, node
<1>4. d \in AllLines /\ node = StmtAt(d) /\ node.op \in Definitions /\ node.name = n /\ d \in Named(n)
  BY <1>2, <1>3, NodeLine, NamedLine DEF First
<1>5. \A c : StmtAt(c)' = StmtAt(c) /\ After(c)' = After(c) /\ SourceSeg(c)' = SourceSeg(c)
  BY <1>2, SameSource
<1>6. Undefined(n)
  <2> SUFFICES ASSUME NEW c \in Named(n), Emitted(c) PROVE FALSE
    BY DEF Undefined
  <2>1. c[1] \in 1..Len(loads) /\ c[2] \in Nat
    BY NamedLine
  <2>2. c[1] < file \/ c[2] < i
    BY <1>2 DEF Emitted
  <2>3. c = d \/ d[1] < c[1] \/ (d[1] = c[1] /\ d[2] < c[2])
    BY DEF First
  <2> QED
    BY <1>0, <2>1, <2>2, <2>3
<1>7. Awaited(n)
  BY <1>6 DEF KeptInv
<1>8. PICK e \in Entry : /\ e = EntryOf(n) /\ addr[e] = 0 /\ ~OnLine(e) /\ e[1] = n
                         /\ table[n] # 0 => e = <<n, table[n]>>
  <2>1. file \in 1..MaxFiles
    BY <1>0, <1>1 DEF TypeOK
  <2>2. EntryOf(n) \in Entry /\ EntryOf(n)[1] = n
    BY <1>1, <2>1, EntryOfType DEF EntryOf
  <2>3. addr[EntryOf(n)] = 0 /\ ~OnLine(EntryOf(n))
    BY <1>1, <1>7, <2>2 DEF Awaited, LineDefined
  <2>4. table[n] # 0 => EntryOf(n) = <<n, table[n]>>
    BY DEF EntryOf
  <2> QED
    BY <2>2, <2>3, <2>4
<1>9. node.op = "extern" \/ global_flag[e]
  <2>1. PICK c \in AllLines : Declares(c, n) /\ c[1] <= file
    BY <1>0, <1>4 DEF First, IsGlobal, Declares
  <2>2. c = d \/ Emitted(c)
    BY <1>2, <1>4, <2>1, DeclaredBefore
  <2>3. CASE c = d
    BY <1>4, <2>1, <2>3 DEF Declares, Definitions, LabelOps
  <2>4. CASE Emitted(c)
    BY <1>7, <1>8, <2>1, <2>4 DEF Awaited
  <2> QED
    BY <2>2, <2>3, <2>4
<1>10. ASSUME NEW a, NEW g, NEW known, Defines(e, a, g, known), known[e] = 0, g
       PROVE  Avoids(n, ListHead)'
  <2>1. Avoids(n, local_labels)
    BY <1>2, <1>7 DEF Awaited, ListHead, Avoids
  <2>2. Avoids(n, local_labels)'
    BY <1>1, <1>10, <2>1, DefinesAvoids
  <2>3. ListHead' = local_labels'
    BY <1>2 DEF ListHead
  <2> QED
    BY <2>2, <2>3 DEF Avoids
<1>11. Standing(n, d)'
  BY <1>4, <1>8, StandsNew DEF KeptInv
<1>12. CASE StmtAt(d).op \in {"comm", "extern"}
  <2>1. PICK known \in [Entry -> Nat], at \in Nat : AllocAt(known, at)
    BY <1>2, <1>4, <1>12 DEF Effect, Quiet, Globl, Labels, ItemAt, Segments, LabelOps, TextOps,
           DataOps
  <2> DEFINE g == node.op = "extern" \/ global_flag[e]
  <2>2. Moved(known, DataSeg, at) /\ Defines(e, at, g, known)
    BY <1>4, <1>8, <2>1 DEF AllocAt
  <2>3. known[e] = 0
    BY <1>1, <1>8, <2>2, MovedZero
  <2>4. g
    BY <1>9
  <2> HIDE DEF g
  <2>5. Avoids(n, ListHead)'
    BY <1>10, <2>2, <2>3, <2>4
  <2> QED
    BY <1>11, <2>5 DEF Found
<1>13. CASE StmtAt(d).op \in LabelOps
  <2>1. Labels
    BY <1>2, <1>3, <1>4, <1>13
       DEF Effect, Quiet, Globl, AllocAt, ItemAt, Segments, LabelOps, TextOps, DataOps
  <2> DEFINE a == IF node.op = "const" THEN node.n ELSE pc[Cur]
             g == global_flag[e]
  <2>2. Defines(e, a, g, addr)
    BY <1>4, <1>8, <2>1 DEF Labels
  <2>3. g
    BY <1>4, <1>9, <1>13 DEF LabelOps
  <2> HIDE DEF a, g
  <2>4. Avoids(n, ListHead)'
    BY <1>8, <1>10, <2>2, <2>3
  <2> QED
    BY <1>11, <2>4 DEF Found
<1> QED
  BY <1>4, <1>12, <1>13 DEF Definitions

LEMMA KeptEmit ==
  ASSUME AssemblerInv, SourceInv, ForgetInv, KeptInv, ScopesClean, EmitOne
  PROVE  KeptInv'
<1>1. TypeOK /\ NodesNamed /\ \A seg \in Segments : pc[seg] # 0
  BY DEF AssemblerInv, ForgetInv
<1>2. /\ phase = "emit" /\ i <= Len(ast) /\ phase' = "resolve" /\ UNCHANGED <<ast, i, loads>>
      /\ errors => errors'
  BY <1>1, EmitEffect
<1>3. PlacedEmitted'
  BY PlacedStill DEF KeptInv
<1> SUFFICES ASSUME ~errors PROVE
        /\ NodesRight' /\ SegmentFollowed'
        /\ \A n \in Names : Undefined(n)' => Awaited(n)'
        /\ \A n \in Names : \A d \in AllLines' : First(n, d)' /\ Emitted(d)' => Found(n, d)'
  BY <1>2, <1>3 DEF KeptInv
<1>4. NodesRight /\ NodesRight'
  BY <1>2 DEF KeptInv, NodesRight
<1>5. node.op # "error"
  <2>1. i \in 1..Len(ast)
    BY <1>1, <1>2 DEF TypeOK
  <2> QED
    BY <1>2, <1>4, <2>1 DEF NodesRight, node
<1>6. SegmentFollowed'
  BY <1>5, FollowedStill DEF KeptInv, ScopesClean
<1>7. /\ AllLines' = AllLines /\ \A n : Named(n)' = Named(n)
      /\ \A d : StmtAt(d)' = StmtAt(d) /\ (IsGlobal(d)' <=> IsGlobal(d))
  BY <1>2, SameSource
<1>8. /\ \A d \in AllLines : Emitted(d)' <=> Emitted(d) \/ d = <<file, i>>
      /\ <<file, i>> \in AllLines
  BY <1>2, EmittedNow, NodeLine
<1>9. ASSUME NEW n \in Names, Undefined(n)' PROVE Awaited(n)'
  <2>1. \A d \in Named(n) : ~Emitted(d) /\ d # <<file, i>>
    BY <1>7, <1>8, <1>9 DEF Undefined, Named
  <2>2. Undefined(n) /\ <<file, i>> \notin Named(n)
    BY <2>1 DEF Undefined
  <2> QED
    BY <1>5, <2>2, AwaitedStill DEF KeptInv
<1>10. ASSUME NEW n \in Names, NEW d \in AllLines, First(n, d)', Emitted(d)' PROVE Found(n, d)'
  <2>1. First(n, d)
    BY <1>7, <1>10 DEF First
  <2> QED
    BY <1>8, <1>10, <2>1, KeptOld, KeptNew
<1> QED
  BY <1>4, <1>6, <1>7, <1>9, <1>10

LEMMA KeptRest ==
  ASSUME AssemblerInv, SourceInv, KeptInv,
         \/ ResolveOne \/ ResolveDone \/ ClearNext \/ NextNode \/ EndEmit
         \/ FlushOne \/ FlushDone \/ UNCHANGED vars
  PROVE  KeptInv' /\ LinesStay /\ TablesStay
<1>1. CASE NextNode
  <2>1. i <= Len(ast) \/ i > Len(ast)
    BY DEF AssemblerInv, TypeOK
  <2> QED
    BY <1>1, <2>1, KeptNext, KeptEnd
<1>2. CASE ResolveOne \/ ResolveDone \/ UNCHANGED vars
  BY <1>2, KeptQuiet
<1>3. CASE FlushOne \/ FlushDone
  BY <1>3, KeptFlush
<1> QED
  BY <1>1, <1>2, <1>3, KeptClear, KeptEnd

LEMMA StepKept ==
  ASSUME AssemblerInv, SourceInv, ForgetInv, KeptInv, ScopesClean, [Next]_vars
  PROVE  KeptInv'
  BY KeptRest, KeptEmit, KeptParse DEF Next, Loading

LEMMA InitKept == Init => KeptInv
<1> SUFFICES ASSUME Init PROVE KeptInv
  OBVIOUS
<1>1. /\ loads = <<>> /\ placed = <<>> /\ phase = "idle" /\ local_labels = NoEntry
      /\ \A e \in Entry : addr[e] = 0
  BY DEF Init
<1>2. AllLines = {} /\ DOMAIN placed = {}
  BY <1>1 DEF AllLines, Lines
<1>3. PlacedEmitted /\ NodesRight /\ SegmentFollowed
  BY <1>1, <1>2 DEF PlacedEmitted, NodesRight, SegmentFollowed
<1>4. ASSUME NEW n \in Names PROVE Awaited(n)
  <2>1. ListHead = NoEntry
    BY <1>1 DEF ListHead
  <2>2. Avoids(n, ListHead)
    <3>1. {NoEntry} \in SUBSET (Entry \cup {NoEntry}) /\ \A x \in {NoEntry} : x = NoEntry
      OBVIOUS
    <3> QED
      BY <2>1, <3>1 DEF Avoids
  <2> QED
    BY <1>1, <1>2, <2>2 DEF Awaited
<1> QED
  BY <1>2, <1>3, <1>4 DEF KeptInv

(* The only definition of a name, if it is global, comes before what else   *)
(* names it.                                                                *)
LEMMA OnlyFirst ==
  ASSUME NEW n, NEW d, Defs(n) = {d}, IsGlobal(d)
  PROVE  First(n, d)
<1>1. d \in Named(n) /\ Named(n) \in SUBSET AllLines
  BY DEF Defs, Named
<1>2. PICK m \in Named(n) : \A c \in Named(n) : m[1] < c[1] \/ (m[1] = c[1] /\ m[2] <= c[2])
  BY <1>1, LeastLine
<1>3. \A c \in Named(n) : c = <<c[1], c[2]>> /\ c[1] \in Nat /\ c[2] \in Nat
  BY NamedLine
<1>4. m = d
  <2>1. ASSUME NEW c \in Named(n) PROVE ~(c[1] < m[1]) /\ (c[1] = m[1] => c[2] >= m[2])
    BY <1>2, <1>3
  <2>2. m \in Defs(n)
    BY <2>1 DEF Defs
  <2> QED
    BY <2>2
<1>5. ASSUME NEW c \in Named(n) \ {d}
      PROVE  StmtAt(c).op \notin LabelOps /\ (d[1] < c[1] \/ (d[1] = c[1] /\ d[2] < c[2]))
  <2>1. StmtAt(c).op \notin LabelOps
    BY DEF Defs
  <2>2. d[1] < c[1] \/ (d[1] = c[1] /\ d[2] <= c[2])
    BY <1>2, <1>4
  <2>3. ~(d[1] = c[1] /\ d[2] = c[2])
    BY <1>1, <1>3
  <2> QED
    BY <1>1, <1>3, <2>1, <2>2, <2>3
<1> QED
  BY <1>1, <1>5 DEF First

\* After a file exactly its global symbols are left in the table, each at the
\* place its definition stands for, in whatever order the statements and the
\* files come (record_label, fix_current_label_address, flush_local_labels),
\* for files that begin with a segment directive, declare a symbol global
\* before they define it and define no constant to be 0.
THEOREM ScopesKept == ASSUME ScopesClean PROVE Spec => []ScopesRight
<1>1. Init => SourceInv /\ ForgetInv /\ KeptInv
  BY InitForget, InitKept
<1>2. AssemblerInv /\ SourceInv /\ ForgetInv /\ KeptInv /\ [Next]_vars =>
        (SourceInv /\ ForgetInv /\ KeptInv)'
  BY StepSource, StepForget, StepKept
<1>3. KeptInv => GlobalsKept
  <2> SUFFICES ASSUME KeptInv, phase = "idle", ~errors, NEW n \in Names, NEW d \in Defs(n),
                      Defs(n) = {d}, IsGlobal(d), HasMeaning(d)
               PROVE  table[n] # 0 /\ addr[<<n, table[n]>>] = Meaning(d)
    BY DEF GlobalsKept
  <2>1. First(n, d) /\ Emitted(d)
    BY OnlyFirst DEF Emitted
  <2>2. d \in AllLines /\ StmtAt(d).op \in Definitions
    BY <2>1, NamedLine DEF First
  <2>3. Found(n, d)
    BY <2>1, <2>2 DEF KeptInv
  <2>4. PICK e : e = <<n, table[n]>> /\ Stands(e, d) /\ table[n] # 0
    BY <2>3 DEF Found, Standing
  <2>5. addr[e] = Meaning(d)
    <3>1. CASE StmtAt(d).op = "const"
      BY <2>4, <3>1 DEF Stands, Meaning
    <3>2. CASE StmtAt(d).op = "label"
      BY <2>4, <3>2 DEF Stands, Meaning, HasMeaning
    <3>3. CASE StmtAt(d).op \in {"comm", "extern"}
      BY <2>4, <3>3 DEF Stands, Meaning
    <3> QED
      BY <2>2, <3>1, <3>2, <3>3 DEF Definitions, LabelOps
  <2> QED
    BY <2>4, <2>5
<1> QED
  BY <1>1, <1>2, <1>3, AssemblerInvariant, LocalsGone, PTL DEF Spec, ScopesRight

-----------------------------------------------------------------------------
(* Everything is in the segment it is written in.                           *)

\* The counters stay in their segments.
SegmentsFit == \A seg \in Segments : InSegment(pc[seg], seg)

\* A rejected statement is no directive and no label.
ErrorNodes ==
  phase \in {"emit", "resolve"} =>
    \A k \in 1..Len(ast) : ast[k].op = "error" => loads[file][k].op \in {"space", "error"}

\* The line of the node emitted last goes on.
Goes == phase = "emit" \/ (phase = "resolve" /\ ~EndsLine)

\* The label d of the file is known at an address of its segment; as long as it
\* can be moved, that is the segment of the counter it is moved with.
LabelPlaced(d) ==
  LET n == StmtAt(d).name
      e == <<n, table[n]>>
  IN  /\ phase \in {"emit", "resolve"} => table[n] # 0
      /\ table[n] # 0 => /\ addr[e] # 0 /\ InSegment(addr[e], SourceSeg(d))
                         /\ OnLine(e) /\ Goes => Cur = SourceSeg(d)

SegmentInv ==
  /\ SegmentFollowed /\ ErrorNodes
  /\ DOMAIN placed \subseteq AllLines /\ SegmentAsWritten
  /\ ~errors => \A d \in AllLines :
       d[1] = file /\ StmtAt(d).op = "label" /\ Emitted(d) => LabelPlaced(d)

LEMMA AlignedAbove ==
  ASSUME NEW a \in Nat
  PROVE  a <= Aligned(a)
<1> DEFINE q == (a + W - 1) \div W
           r == (a + W - 1) % W
<1>1. W \in Nat /\ W > 0
  BY AssemblerAssumption
<1>2. a + W - 1 \in Int
  BY <1>1
<1>3. q \in Int /\ r \in Int /\ r < W /\ a + W - 1 = W * q + r
  BY <1>1, <1>2
<1> HIDE DEF q, r
<1>4. W * q = q * W
  BY <1>1, <1>3
<1>5. a <= q * W
  <2> DEFINE w == q * W
  <2>1. w \in Int /\ a + W - 1 = w + r
    BY <1>1, <1>3, <1>4
  <2> HIDE DEF w
  <2>2. a <= w
    BY <1>1, <1>3, <2>1
  <2> QED
    BY <2>2 DEF w
<1> QED
  BY <1>5 DEF Aligned, q

\* What a node does to a known symbol x, and where it puts what it stores.
StaysClose(x) ==
  \/ addr'[x] = addr[x]
  \/ OnLine(x) /\ addr'[x] \in Nat /\ pc[Cur] <= addr'[x] /\ addr'[x] <= pc'[Cur]
PutRight ==
  \/ placed' = placed /\ node.op \notin TextOps \cup DataOps
  \/ \E seg, at : PutAt(seg, at) /\ (node.op \in TextOps \cup DataOps => seg = Cur)

LEMMA FixedClose ==
  ASSUME TypeOK, NEW a \in Nat, pc[Cur] <= a, a <= pc'[Cur], NEW x \in Entry,
         addr'[x] = fix_current_label_address(a)[x]
  PROVE  StaysClose(x)
  BY DEF fix_current_label_address, StaysClose

LEMMA EmitPlaces ==
  ASSUME AssemblerInv, ForgetInv, EmitOne, node.op \in DataOps \cup {"comm"} => dir = "data"
  PROVE  /\ \A x \in Entry : addr[x] # 0 => StaysClose(x)
         /\ PutRight
<1>p. TypeOK /\ NodesNamed /\ LineDefined /\ \A seg \in Segments : pc[seg] # 0
  BY DEF AssemblerInv, ForgetInv
<1>0. phase = "emit" /\ i <= Len(ast)
  BY <1>p, EmitEffect
<1> USE AssemblerAssumption DEF AssemblerInv
<1>n. node.n \in Nat /\ (node.op \in Definitions \cup {"globl"} => node.name \in Names)
      /\ file \in 1..MaxFiles
  BY <1>0, NodeType
<1>s. Cur \in Segments /\ DataSeg \in Segments /\ pc[Cur] \in Nat /\ pc[DataSeg] \in Nat
  BY SegmentTypes DEF Cur
<1>a. Aligned(pc[Cur]) \in Nat /\ pc[Cur] <= Aligned(pc[Cur])
  BY <1>s, AlignedNat, AlignedAbove
<1>d. dir = "data" => DataSeg = Cur
  BY DEF Cur
<1> HIDE DEF node, file
<1>1. CASE addr' = addr /\ placed' = placed /\ node.op \notin TextOps \cup DataOps
  BY <1>1 DEF StaysClose, PutRight
<1>2. CASE EmitSegment \/ EmitAlign0 \/ EmitNothing \/ EmitGlobl
  <2>1. addr' = addr /\ placed' = placed
    BY <1>2 DEF EmitSegment, EmitAlign0, EmitNothing, EmitGlobl, entryVars
  <2>2. node.op \notin TextOps \cup DataOps
    BY <1>2 DEF EmitSegment, EmitAlign0, EmitNothing, EmitGlobl, Emit, Segments, TextOps, DataOps
  <2> QED
    BY <1>1, <2>1, <2>2
<1>3. CASE EmitAlign
  <2>1. /\ addr' = fix_current_label_address(Aligned(pc[Cur]))
        /\ pc' = [pc EXCEPT ![Cur] = Aligned(pc[Cur])]
        /\ Place(Cur, Aligned(pc[Cur]), 0)
    BY <1>3 DEF EmitAlign, Cur
  <2>2. pc'[Cur] = Aligned(pc[Cur])
    BY <1>s, <2>1 DEF TypeOK
  <2>3. \A x \in Entry : StaysClose(x)
    BY <1>a, <2>1, <2>2, FixedClose
  <2>4. PutRight
    BY <2>1, PlacePuts DEF PutRight
  <2> QED
    BY <2>3, <2>4
<1>4. CASE EmitSpace
  <2>1. addr' = addr /\ Place(DataSeg, pc[DataSeg], node.n) /\ node.op \notin TextOps \cup DataOps
    BY <1>4 DEF EmitSpace, entryVars, Emit, TextOps, DataOps
  <2> QED
    BY <2>1, PlacePuts DEF PutRight, StaysClose
<1>5. CASE EmitExtern
  <2>1. Place(DataSeg, pc[DataSeg], node.n) /\ node.op \notin TextOps \cup DataOps /\ node.name \in Names
    BY <1>n, <1>5 DEF EmitExtern, Emit, TextOps, DataOps, Definitions
  <2>2. PutRight
    BY <2>1, PlacePuts DEF PutRight
  <2> DEFINE e == EntryOf(node.name)
  <2>3. e \in Entry
    BY <1>n, <2>1, EntryOfType
  <2>4. addr' = addr \/ (addr[e] = 0 /\ addr' = [addr EXCEPT ![e] = pc[DataSeg]])
    BY <1>5 DEF EmitExtern, record_label
  <2> HIDE DEF e
  <2>5. ASSUME NEW x \in Entry, addr[x] # 0 PROVE StaysClose(x)
    BY <2>3, <2>4, <2>5 DEF StaysClose, TypeOK
  <2> QED
    BY <2>2, <2>5
<1>6. CASE EmitComm
  <2> DEFINE e     == EntryOf(node.name)
             start == Aligned(pc[DataSeg])
             fixed == fix_current_label_address(start)
  <2>1. /\ node.op \notin TextOps \cup DataOps /\ node.name \in Names /\ dir = "data"
        /\ Place(DataSeg, start, node.n) /\ pc' = [pc EXCEPT ![DataSeg] = start + node.n]
        /\ addr' = fixed \/ (fixed[e] = 0 /\ addr' = [fixed EXCEPT ![e] = start])
    BY <1>n, <1>6 DEF EmitComm, Emit, TextOps, DataOps, Definitions, record_label
  <2>2. PutRight
    BY <2>1, PlacePuts DEF PutRight
  <2>3. e \in Entry
    BY <1>n, <2>1, EntryOfType
  <2>4. DataSeg = Cur /\ start \in Nat /\ pc[Cur] <= start /\ pc'[Cur] = start + node.n /\ start <= pc'[Cur]
    <3>1. DataSeg = Cur /\ start \in Nat /\ pc[Cur] <= start
      BY <1>a, <1>d, <2>1
    <3> HIDE DEF start
    <3>2. pc'[Cur] = start + node.n
      BY <1>s, <2>1, <3>1 DEF TypeOK
    <3> QED
      BY <1>n, <3>1, <3>2
  <2>5. ASSUME NEW x \in Entry, addr[x] # 0 PROVE addr'[x] = fixed[x]
    <3>1. fixed \in [Entry -> Nat]
      BY <2>4, FixedType
    <3>2. start # 0
      BY <1>s, <1>p, AlignedPositive
    <3>3. fixed[x] # 0
      BY <2>5, <3>2 DEF fix_current_label_address
    <3> HIDE DEF fixed, e, start
    <3> QED
      BY <2>1, <2>3, <3>1, <3>3
  <2>6. ASSUME NEW x \in Entry, addr[x] # 0 PROVE StaysClose(x)
    BY <2>4, <2>5, <2>6, FixedClose
  <2> QED
    BY <2>2, <2>6
<1>7. ASSUME NEW op \in DataOps, EmitData(op)
      PROVE  PutRight /\ \A x \in Entry : addr[x] # 0 => StaysClose(x)
  <2> DEFINE align == op = "word" /\ dir = "data" /\ enable_data_auto_alignment
             start == IF align THEN Aligned(pc[DataSeg]) ELSE pc[DataSeg]
             len   == IF op = "word" THEN W ELSE 1
  <2>1. /\ node.op \in DataOps /\ dir = "data" /\ DataSeg = Cur
        /\ addr' = (IF align THEN fix_current_label_address(start) ELSE addr)
        /\ Place(DataSeg, start, len) /\ pc' = [pc EXCEPT ![DataSeg] = start + len]
    BY <1>d, <1>7 DEF EmitData, Emit
  <2>2. PutRight
    BY <2>1, PlacePuts DEF PutRight
  <2>3. start \in Nat /\ len \in Nat /\ pc[Cur] <= start
    BY <1>s, <1>a, <2>1
  <2> HIDE DEF start, len
  <2>4. pc'[Cur] = start + len
    BY <1>s, <2>1 DEF TypeOK
  <2>5. start <= pc'[Cur]
    BY <2>3, <2>4
  <2>6. ASSUME NEW x \in Entry PROVE StaysClose(x)
    <3>1. CASE align
      BY <2>1, <2>3, <2>5, <3>1, FixedClose
    <3>2. CASE ~align
      BY <2>1, <3>2 DEF StaysClose
    <3> QED
      BY <3>1, <3>2
  <2> QED
    BY <2>2, <2>6
<1>8. ASSUME NEW op \in TextOps, EmitInst(op)
      PROVE  PutRight /\ \A x \in Entry : addr[x] # 0 => StaysClose(x)
  <2>1. addr' = addr /\ \E len : Place(Cur, pc[Cur], len)
    BY <1>8 DEF EmitInst, Cur
  <2> QED
    BY <2>1, PlacePuts DEF PutRight, StaysClose
<1>9. CASE EmitLabel \/ EmitConst
  <2>1. placed' = placed /\ node.op \in LabelOps /\ node.name \in Names
    BY <1>n, <1>9 DEF EmitLabel, EmitConst, Emit, LabelOps, Definitions
  <2>2. PutRight
    BY <2>1 DEF PutRight, LabelOps, TextOps, DataOps
  <2> DEFINE e == EntryOf(node.name)
  <2>3. e \in Entry
    BY <1>n, <2>1, EntryOfType
  <2>4. addr' = addr \/ (addr[e] = 0 /\ \E a : addr' = [addr EXCEPT ![e] = a])
    BY <1>9 DEF EmitLabel, EmitConst, record_label
  <2> HIDE DEF e
  <2>5. ASSUME NEW x \in Entry, addr[x] # 0 PROVE StaysClose(x)
    BY <2>3, <2>4, <2>5 DEF StaysClose, TypeOK
  <2> QED
    BY <2>2, <2>5
<1> QED
  BY <1>2, <1>3, <1>4, <1>5, <1>6, <1>7, <1>8, <1>9 DEF EmitOne

LEMMA Between ==
  ASSUME TypeOK, TypeOK', SegmentsFit, SegmentsFit', NEW seg \in Segments, NEW a \in Nat,
         pc[seg] <= a, a <= pc'[seg]
  PROVE  InSegment(a, seg)
<1>1. pc[seg] \in Nat /\ pc'[seg] \in Nat /\ \A s \in Segments : BASE[s] \in Nat
  BY AssemblerAssumption DEF TypeOK
<1>2. InSegment(pc[seg], seg) /\ InSegment(pc'[seg], seg)
  BY DEF SegmentsFit, InSegment
<1> QED
  BY <1>1, <1>2 DEF InSegment

LEMMA OneSegment ==
  ASSUME NEW s \in Segments, NEW a \in Nat, InSegment(a, s), InSegment(a, "kdata")
  PROVE  s = "kdata"
<1>1. /\ "kdata" \in Segments /\ BASE[s] \in Nat /\ BASE["kdata"] \in Nat
      /\ s # "kdata" => BASE[s] # BASE["kdata"]
  BY AssemblerAssumption DEF Segments
<1>2. BASE[s] <= a /\ BASE["kdata"] <= a
  BY <1>1 DEF InSegment
<1>3. BASE[s] <= BASE["kdata"] /\ BASE["kdata"] <= BASE[s]
  BY <1>1, <1>2 DEF InSegment
<1> QED
  BY <1>1, <1>3

LEMMA SegmentEmit ==
  ASSUME AssemblerInv, AssemblerInv', SourceInv, ForgetInv, SegmentInv, SegmentsClean,
         SegmentsFit, SegmentsFit', EmitOne
  PROVE  SegmentInv'
<1> USE AssemblerAssumption
<1>1. /\ TypeOK /\ TypeOK' /\ NodesNamed /\ EntriesCurrent /\ LineDefined
      /\ \A seg \in Segments : pc[seg] # 0
  BY DEF AssemblerInv, ForgetInv
<1>2. /\ phase = "emit" /\ i <= Len(ast) /\ phase' = "resolve" /\ UNCHANGED <<ast, i, cursor, loads>>
      /\ errors => errors'
      /\ Effect
  BY <1>1, EmitEffect
<1> DEFINE p == <<file, i>>
<1>0. /\ i \in 1..Len(ast) /\ Len(ast) = Len(loads[file]) /\ file \in 1..Len(loads) /\ file' = file
      /\ StmtAt(p) = loads[file][i] /\ loads[file] \in Files
      /\ SourceSeg(p) = SegmentAt(loads[file], i)
  <2>1. StmtAt(p) = loads[file][i] /\ SourceSeg(p) = SegmentAt(loads[file], i)
    BY DEF StmtAt, SourceSeg
  <2>2. i \in 1..Len(ast) /\ file \in 1..Len(loads) /\ file' = file
    BY <1>1, <1>2 DEF TypeOK, file
  <2> QED
    BY <1>2, <2>1, <2>2 DEF SourceInv
<1>3. /\ p \in AllLines /\ (node.op # "error" => node.op = StmtAt(p).op)
      /\ node.op \in Definitions \cup {"globl"} => node = StmtAt(p)
  BY <1>2, NodeLine
<1>4. node.op = "error" => StmtAt(p).op \in {"space", "error"}
  BY <1>0, <1>2 DEF SegmentInv, ErrorNodes, node
<1>5. SegmentFollowed'
  <2>1. node.op = "error" => StmtAt(p).op \notin Segments
    BY <1>4 DEF Segments
  <2> QED
    BY <2>1, FollowedStill DEF SegmentInv, SegmentsClean
<1>6. ErrorNodes'
  BY <1>0, <1>2 DEF SegmentInv, ErrorNodes
<1>7. StmtAt(p).op \notin Segments => Cur = SourceSeg(p)
  BY <1>2, CurrentSegment DEF SegmentInv, SegmentsClean
<1>8. node.op \in DataOps \cup {"comm"} => dir = "data"
  <2> SUFFICES ASSUME node.op \in DataOps \cup {"comm"} PROVE dir = "data"
    OBVIOUS
  <2>1. StmtAt(p).op \in DataOps \cup {"comm"} /\ StmtAt(p).op \notin Segments
    BY <1>3 DEF DataOps, Segments
  <2>2. IsData(Cur)
    BY <1>0, <1>7, <2>1 DEF SegmentsClean
  <2> QED
    BY <1>1, <2>2 DEF IsData, Cur, TextSeg, TypeOK
<1>9. (\A x \in Entry : addr[x] # 0 => StaysClose(x)) /\ PutRight
  BY <1>8, EmitPlaces
<1>10. /\ AllLines' = AllLines
       /\ \A c : StmtAt(c)' = StmtAt(c) /\ SourceSeg(c)' = SourceSeg(c)
       /\ \A c \in AllLines : Emitted(c)' <=> Emitted(c) \/ c = p
  BY <1>2, SameSource, EmittedNow
<1>11. DOMAIN placed' \subseteq AllLines' /\ SegmentAsWritten'
  <2>0. /\ DOMAIN placed \subseteq AllLines
        /\ \A d \in DOMAIN placed : StmtAt(d).op \in TextOps \cup DataOps => placed[d].seg = SourceSeg(d)
    BY DEF SegmentInv, SegmentAsWritten, Stored
  <2>s. SegmentAsWritten' <=> \A d \in DOMAIN placed' :
          StmtAt(d).op \in TextOps \cup DataOps => placed'[d].seg = SourceSeg(d)
    BY <1>10 DEF SegmentAsWritten, Stored
  <2>1. CASE placed' = placed
    BY <1>10, <2>0, <2>1, <2>s
  <2>2. ASSUME NEW seg, NEW at, PutAt(seg, at), node.op \in TextOps \cup DataOps => seg = Cur
        PROVE  DOMAIN placed' \subseteq AllLines' /\ SegmentAsWritten'
    <3>1. /\ DOMAIN placed' = DOMAIN placed \cup {p} /\ placed'[p].seg = seg
          /\ \A d \in DOMAIN placed \ {p} : placed'[d] = placed[d]
      BY <2>2 DEF PutAt
    <3>2. StmtAt(p).op \in TextOps \cup DataOps => placed'[p].seg = SourceSeg(p)
      <4> SUFFICES ASSUME StmtAt(p).op \in TextOps \cup DataOps PROVE placed'[p].seg = SourceSeg(p)
        OBVIOUS
      <4>1. StmtAt(p).op \notin Segments /\ node.op = StmtAt(p).op
        BY <1>3, <1>4 DEF TextOps, DataOps, Segments
      <4> QED
        BY <1>7, <2>2, <3>1, <4>1
    <3> HIDE DEF p
    <3> QED
      BY <1>3, <1>10, <2>0, <2>s, <3>1, <3>2
  <2> QED
    BY <1>9, <2>1, <2>2 DEF PutRight
<1>12. ASSUME ~errors', NEW d \in AllLines, d[1] = file, StmtAt(d).op = "label", Emitted(d)'
       PROVE  LabelPlaced(d)'
  <2>1. PICK n \in Names : n = StmtAt(d).name
    <3>1. d[2] \in 1..Len(loads[file]) /\ StmtAt(d) = loads[file][d[2]]
      BY <1>12, InSource DEF StmtAt
    <3>2. StmtAt(d).name \in Names
      BY <1>0, <1>12, <3>1 DEF Definitions, LabelOps
    <3> QED
      BY <3>2
  <2>2. ~errors
    BY <1>2, <1>12
  <2>e. (Goes' => node.op \in LabelOps \cup {"globl", "error"}) /\ node' = node
    BY <1>2 DEF Goes, EndsLine, node
  <2>c. Goes' => Cur' = Cur
    <3>1. node.op \in LabelOps \cup {"globl", "error"} => node.op \notin Segments
      BY DEF LabelOps, Segments
    <3> QED
      BY <2>e, <3>1, EmitSegs
  <2>3. CASE d # p
    <3>1. Emitted(d)
      BY <1>10, <1>12, <2>3
    <3>2. LabelPlaced(d)
      BY <1>12, <2>2, <3>1 DEF SegmentInv
    <3>3. /\ table[n] # 0 /\ addr[<<n, table[n]>>] # 0 /\ InSegment(addr[<<n, table[n]>>], SourceSeg(d))
          /\ OnLine(<<n, table[n]>>) => Cur = SourceSeg(d)
      BY <1>2, <2>1, <3>2 DEF LabelPlaced, Goes
    <3>4. table'[n] = table[n]
      <4>1. CASE table' = table
        BY <4>1
      <4>2. CASE node.op \in Definitions \cup {"globl"} /\ lookup_label(node.name)
        <5>1. node.name \in Names
          BY <1>1, <1>2, <4>2, NodeType
        <5> QED
          BY <1>1, <1>2, <3>3, <4>2, <5>1, Looked
      <4> QED
        BY <1>2, <4>1, <4>2 DEF Effect, Quiet, Globl, Labels, ItemAt, AllocAt, Definitions
    <3>5. PICK e \in Entry : e = <<n, table[n]>> /\ e = <<n, table'[n]>>
      BY <1>1, <3>3, <3>4 DEF TypeOK, Entry
    <3>6. StaysClose(e)
      BY <1>9, <3>3, <3>5
    <3>7. addr'[e] # 0 /\ InSegment(addr'[e], SourceSeg(d))
      <4>1. CASE addr'[e] = addr[e]
        BY <3>3, <3>5, <4>1
      <4>2. CASE OnLine(e) /\ addr'[e] \in Nat /\ pc[Cur] <= addr'[e] /\ addr'[e] <= pc'[Cur]
        <5>1. Cur \in Segments /\ Cur = SourceSeg(d)
          BY <1>1, <3>3, <3>5, <4>2, SegmentTypes DEF Cur
        <5>2. pc[Cur] \in Nat /\ pc[Cur] # 0
          BY <1>1, <5>1 DEF TypeOK
        <5>3. InSegment(addr'[e], Cur)
          BY <1>1, <4>2, <5>1, Between
        <5> QED
          BY <4>2, <5>1, <5>2, <5>3
      <4> QED
        BY <3>6, <4>1, <4>2 DEF StaysClose
    <3>8. OnLine(e)' => OnLine(e)
      <4>1. CASE this_line_labels' = this_line_labels
        BY <4>1 DEF OnLine
      <4>2. CASE Labels
        <5>1. node.name \in Names
          BY <1>1, <1>2, <4>2, NodeType DEF Labels, Definitions
        <5>2. EntryOf(node.name) \in Entry
          BY <1>1, <1>2, <4>2, <5>1, Looked DEF Labels
        <5>3. addr[EntryOf(node.name)] = 0
          BY <1>12, <4>2 DEF Labels
        <5>4. \/ this_line_labels' = this_line_labels
              \/ this_line_labels' = <<EntryOf(node.name)>> \o this_line_labels
          BY <4>2 DEF Labels
        <5>5. EntryOf(node.name) # e
          BY <3>3, <3>5, <5>3
        <5> QED
          BY <1>1, <4>1, <5>2, <5>4, <5>5, LinePushed
      <4> QED
        BY <1>2, <4>1, <4>2 DEF Effect, Quiet, Globl, ItemAt, AllocAt
    <3>9. OnLine(e)' /\ Goes' => Cur' = SourceSeg(d)
      BY <2>c, <3>3, <3>5, <3>8
    <3> QED
      BY <1>10, <2>1, <3>3, <3>4, <3>5, <3>7, <3>9 DEF LabelPlaced
  <2>4. CASE d = p
    <3>1. node = StmtAt(p) /\ node.op = "label" /\ node.name = n
      BY <1>3, <1>4, <1>12, <2>1, <2>4 DEF Definitions, LabelOps
    <3>2. Labels
      BY <1>2, <3>1 DEF Effect, Quiet, Globl, ItemAt, AllocAt, Segments, TextOps, DataOps
    <3>3. lookup_label(n) /\ Defines(EntryOf(n), pc[Cur], global_flag[EntryOf(n)], addr)
          /\ addr[EntryOf(n)] = 0
      BY <1>12, <3>1, <3>2 DEF Labels
    <3>4. EntryOf(n) \in Entry /\ EntryOf(n) = <<n, table'[n]>> /\ table'[n] # 0
      BY <1>1, <1>2, <3>3, Looked
    <3>5. PICK e \in Entry : e = EntryOf(n) /\ e = <<n, table'[n]>>
      BY <3>4
    <3>6. addr'[e] = pc[Cur]
      BY <1>1, <3>3, <3>5 DEF Defines, TypeOK
    <3>7. Cur \in Segments /\ Cur = SourceSeg(d)
      BY <1>1, <1>7, <1>12, <2>4, SegmentTypes DEF Cur, Segments
    <3>8. pc[Cur] # 0 /\ InSegment(pc[Cur], Cur)
      BY <1>1, <3>7 DEF SegmentsFit
    <3>9. Goes' => Cur' = SourceSeg(d)
      BY <2>c, <3>7
    <3>10. addr'[e] # 0 /\ InSegment(addr'[e], SourceSeg(d))
      BY <3>6, <3>7, <3>8
    <3> QED
      BY <1>10, <2>1, <3>4, <3>5, <3>9, <3>10 DEF LabelPlaced
  <2> QED
    BY <2>3, <2>4
<1> HIDE DEF p
<1>13. ~errors' => \A d \in AllLines' :
          d[1] = file' /\ StmtAt(d)'.op = "label" /\ Emitted(d)' => LabelPlaced(d)'
  BY <1>0, <1>10, <1>12
<1> QED
  BY <1>5, <1>6, <1>11, <1>13 DEF SegmentInv

(* A step between two nodes.                                                *)
LEMMA SegmentFrame ==
  ASSUME SegmentInv, UNCHANGED <<loads, addr, placed>>, errors => errors',
         \A d \in AllLines : Emitted(d)' <=> Emitted(d), SegmentFollowed', ErrorNodes',
         \A n \in Names : table'[n] # 0 => table'[n] = table[n],
         phase' \in {"emit", "resolve"} => phase \in {"emit", "resolve"} /\ table' = table,
         \A e : OnLine(e)' /\ Goes' => OnLine(e) /\ Goes /\ Cur' = Cur,
         SourceInv
  PROVE  SegmentInv'
<1>1. /\ AllLines' = AllLines /\ file' = file
      /\ \A d : StmtAt(d)' = StmtAt(d) /\ SourceSeg(d)' = SourceSeg(d)
  BY SameSource DEF file
<1>2. DOMAIN placed' \subseteq AllLines' /\ SegmentAsWritten'
  BY <1>1 DEF SegmentInv, SegmentAsWritten, Stored
<1>3. ASSUME ~errors', NEW d \in AllLines, d[1] = file, StmtAt(d).op = "label", Emitted(d)
      PROVE  LabelPlaced(d)'
  <2>1. LabelPlaced(d)
    BY <1>3 DEF SegmentInv
  <2>2. PICK n \in Names : n = StmtAt(d).name
    <3>1. d[2] \in 1..Len(loads[file]) /\ StmtAt(d) = loads[file][d[2]] /\ loads[file] \in Files
      BY <1>3, InSource DEF StmtAt, SourceInv
    <3>2. StmtAt(d).name \in Names
      BY <1>3, <3>1, AssemblerAssumption DEF Definitions, LabelOps
    <3> QED
      BY <3>2
  <2>3. phase' \in {"emit", "resolve"} => table'[n] # 0
    BY <2>1, <2>2 DEF LabelPlaced
  <2>4. ASSUME table'[n] # 0
        PROVE  /\ addr'[<<n, table'[n]>>] # 0 /\ InSegment(addr'[<<n, table'[n]>>], SourceSeg(d))
               /\ OnLine(<<n, table[n]>>)' /\ Goes' => Cur' = SourceSeg(d)
    <3>1. PICK e : e = <<n, table[n]>> /\ e = <<n, table'[n]>> /\ table[n] # 0
      BY <2>4
    <3>2. addr[e] # 0 /\ InSegment(addr[e], SourceSeg(d)) /\ (OnLine(e) /\ Goes => Cur = SourceSeg(d))
      BY <2>1, <2>2, <3>1 DEF LabelPlaced
    <3> QED
      BY <3>1, <3>2
  <2> QED
    BY <1>1, <2>2, <2>3, <2>4 DEF LabelPlaced
<1> QED
  BY <1>1, <1>2, <1>3 DEF SegmentInv

(* What is emitted stays the same between two nodes.                        *)
LEMMA EmittedSame ==
  ASSUME AssemblerInv, SourceInv, NEW d \in AllLines,
         \/ ResolveOne \/ ResolveDone \/ ClearNext \/ NextNode \/ EndEmit
         \/ FlushOne \/ FlushDone \/ UNCHANGED vars
  PROVE  Emitted(d)' <=> Emitted(d)
<1>0. /\ i \in Nat /\ Len(ast) \in Nat /\ file = Len(loads) /\ file \in Nat
      /\ phase \in {"emit", "resolve"} => Len(ast) = Len(loads[file])
  BY DEF AssemblerInv, TypeOK, SourceInv, file
<1>1. d[1] \in 1..file /\ d[2] \in Nat /\ (d[1] = file => d[2] \in 1..Len(loads[file]))
  BY <1>0, InSource
<1>2. CASE ResolveOne \/ ResolveDone \/ ClearNext \/ UNCHANGED vars
  <2>1. UNCHANGED <<loads, i, phase>>
    BY <1>2 DEF ResolveOne, ResolveDone, ClearNext, vars
  <2> QED
    BY <2>1 DEF Emitted, file
<1>3. CASE FlushOne \/ FlushDone
  <2>1. phase = "flush" /\ phase' \in {"flush", "idle"}
    BY <1>3 DEF FlushOne, FlushDone
  <2> QED
    BY <2>1 DEF Emitted
<1>4. CASE (NextNode \/ EndEmit) /\ i > Len(ast)
  <2>1. /\ phase \in {"emit", "resolve"} /\ phase' \in {"resolve", "flush"} /\ UNCHANGED <<loads, i>>
    BY <1>4 DEF NextNode, EndEmit
  <2>2. d[1] < file \/ d[2] < i
    BY <1>0, <1>1, <1>4, <2>1
  <2> QED
    BY <2>1, <2>2 DEF Emitted, file
<1>5. CASE NextNode /\ ~(i > Len(ast))
  <2>1. phase = "resolve" /\ phase' = "emit" /\ i' = i + 1 /\ loads' = loads
    BY <1>5 DEF NextNode
  <2>2. Emitted(d)' <=> d[1] < file \/ d[2] < i + 1
    BY <2>1 DEF Emitted, file
  <2>3. Emitted(d) <=> d[1] < file \/ d[2] < i \/ d[2] = i
    BY <2>1 DEF Emitted
  <2> QED
    BY <1>0, <1>1, <2>2, <2>3
<1> QED
  BY <1>2, <1>3, <1>4, <1>5 DEF EndEmit

LEMMA SegmentRest ==
  ASSUME AssemblerInv, SourceInv, SegmentInv,
         \/ ResolveOne \/ ResolveDone \/ ClearNext \/ NextNode \/ EndEmit
         \/ FlushOne \/ FlushDone \/ UNCHANGED vars
  PROVE  SegmentInv'
<1>0. \A d \in AllLines : Emitted(d)' <=> Emitted(d)
  BY EmittedSame
<1>t. i \in Nat /\ Len(ast) \in Nat
  BY DEF AssemblerInv, TypeOK
<1>1. CASE ResolveOne \/ ResolveDone \/ UNCHANGED vars
  <2>1. /\ UNCHANGED <<loads, addr, placed, table, this_line_labels, ast, i, phase>>
        /\ UNCHANGED <<dir, text_kernel, data_kernel>>
    BY <1>1 DEF ResolveOne, ResolveDone, vars, entryVars, counterVars
  <2>2. errors => errors'
    <3>1. CASE ResolveOne
      BY <3>1, Zenon DEF ResolveOne
    <3>2. CASE ResolveDone \/ UNCHANGED vars
      BY <3>2 DEF ResolveDone, vars
    <3> QED
      BY <1>1, <3>1, <3>2
  <2>3. Cur' = Cur /\ file' = file
    BY <2>1 DEF Cur, TextSeg, DataSeg, file
  <2>4. SegmentFollowed' /\ ErrorNodes'
    BY <2>1, <2>3 DEF SegmentInv, SegmentFollowed, ErrorNodes
  <2>5. \A e : OnLine(e)' /\ Goes' => OnLine(e) /\ Goes /\ Cur' = Cur
    BY <2>1, <2>3 DEF OnLine, Goes, EndsLine, node
  <2> QED
    BY <1>0, <2>1, <2>2, <2>4, <2>5, SegmentFrame
<1>2. CASE ClearNext
  <2>1. /\ UNCHANGED <<loads, addr, placed, table, ast, i, phase, errors>>
        /\ UNCHANGED <<dir, text_kernel, data_kernel>> /\ phase = "resolve" /\ EndsLine
    BY <1>2 DEF ClearNext, entryVars, counterVars
  <2>3. Cur' = Cur /\ file' = file
    BY <2>1 DEF Cur, TextSeg, DataSeg, file
  <2>4. SegmentFollowed' /\ ErrorNodes'
    BY <2>1, <2>3 DEF SegmentInv, SegmentFollowed, ErrorNodes
  <2>5. ~Goes'
    BY <2>1 DEF Goes, EndsLine, node
  <2> QED
    BY <1>0, <2>1, <2>4, <2>5, SegmentFrame
<1>3. CASE NextNode /\ ~(i > Len(ast))
  <2>1. /\ UNCHANGED <<loads, addr, placed, table, this_line_labels, ast, errors>>
        /\ UNCHANGED <<dir, text_kernel, data_kernel>> /\ phase = "resolve" /\ phase' = "emit"
        /\ i' = i + 1 /\ (EndsLine => this_line_labels = <<>>)
    BY <1>3 DEF NextNode, entryVars, counterVars
  <2>3. Cur' = Cur /\ file' = file
    BY <2>1 DEF Cur, TextSeg, DataSeg, file
  <2>4. SegmentFollowed'
    <3>1. Cur = SegmentAt(loads[file], i) /\ i' - 1 = i
      BY <1>3, <1>t, <2>1 DEF SegmentInv, SegmentFollowed
    <3> QED
      BY <2>1, <2>3, <3>1 DEF SegmentFollowed
  <2>5. ErrorNodes'
    BY <2>1, <2>3 DEF SegmentInv, ErrorNodes
  <2>6. \A e : OnLine(e)' /\ Goes' => OnLine(e) /\ Goes /\ Cur' = Cur
    BY <2>1, <2>3 DEF OnLine, Goes
  <2> QED
    BY <1>0, <2>1, <2>4, <2>5, <2>6, SegmentFrame
<1>4. CASE (NextNode \/ EndEmit) /\ i > Len(ast)
  <2>1. /\ UNCHANGED <<loads, addr, placed, table, this_line_labels, ast, i, errors>>
        /\ phase \in {"emit", "resolve"} /\ phase' \in {"resolve", "flush"}
    BY <1>4 DEF NextNode, EndEmit, entryVars
  <2>2. file' = file
    BY <2>1 DEF file
  <2>3. SegmentFollowed' /\ ErrorNodes'
    BY <1>4, <1>t, <2>1, <2>2 DEF SegmentInv, SegmentFollowed, ErrorNodes
  <2>4. ~Goes'
    BY <1>4, <2>1 DEF Goes, EndsLine
  <2> QED
    BY <1>0, <2>1, <2>3, <2>4, SegmentFrame
<1>5. CASE FlushOne \/ FlushDone
  <2>1. UNCHANGED <<loads, addr, placed, errors>> /\ phase = "flush" /\ phase' \in {"flush", "idle"}
    BY <1>5 DEF FlushOne, FlushDone, entryVars
  <2>2. SegmentFollowed' /\ ErrorNodes' /\ ~Goes'
    BY <2>1 DEF SegmentFollowed, ErrorNodes, Goes
  <2>3. \A n \in Names : table'[n] # 0 => table'[n] = table[n]
    BY <1>5 DEF FlushOne, FlushDone, AssemblerInv, TypeOK
  <2> QED
    BY <1>0, <2>1, <2>2, <2>3, SegmentFrame
<1> QED
  BY <1>1, <1>2, <1>3, <1>4, <1>5 DEF EndEmit

LEMMA SegmentParse ==
  ASSUME AssemblerInv, SegmentInv, read_assembly_file
  PROVE  SegmentInv'
<1> USE AssemblerAssumption
<1>1. PICK f \in Files : phase = "idle" /\ Parse(f)
  BY DEF read_assembly_file, Loadable
<1>2. /\ UNCHANGED <<addr, placed>>
      /\ f \in Seq(Stmt) /\ loads' = Append(loads, f) /\ i' = 1 /\ phase' = "emit"
      /\ ast' = [k \in 1..Len(f) |-> Node(f[k], SegmentAt(f, k))]
  BY <1>1 DEF Parse, entryVars
<1>3. /\ Len(loads') = Len(loads) + 1 /\ loads'[Len(loads) + 1] = f
      /\ AllLines \subseteq AllLines'
      /\ \A d \in AllLines : StmtAt(d)' = StmtAt(d) /\ SourceSeg(d)' = SourceSeg(d)
  BY <1>2, MoreSource DEF AssemblerInv
<1>4. file' = Len(loads) + 1 /\ loads'[file'] = f
  BY <1>3 DEF file
<1>5. SegmentFollowed'
  BY <1>2 DEF SegmentFollowed
<1>6. ErrorNodes'
  <2>1. Len(f) \in Nat /\ Len(ast') = Len(f) /\ \A k \in 1..Len(f) : f[k] \in Stmt
    BY <1>2
  <2>2. ASSUME NEW s \in Stmt, NEW seg, Node(s, seg).op = "error" PROVE s.op \in {"space", "error"}
    BY <2>2 DEF Node, Stmt
  <2>3. ASSUME NEW k \in 1..Len(f), ast'[k].op = "error" PROVE f[k].op \in {"space", "error"}
    BY <1>2, <2>1, <2>2, <2>3
  <2> QED
    BY <1>4, <2>1, <2>3 DEF ErrorNodes
<1>7. DOMAIN placed' \subseteq AllLines' /\ SegmentAsWritten'
  BY <1>2, <1>3 DEF SegmentInv, SegmentAsWritten, Stored
<1>8. ASSUME NEW d \in AllLines', d[1] = file', Emitted(d)' PROVE FALSE
  <2>1. d[2] \in Nat \ {0} /\ d[1] \in Nat
    BY DEF AllLines, Lines
  <2>2. d[1] < file' \/ d[2] < 1
    BY <1>2, <1>8 DEF Emitted
  <2> QED
    BY <1>8, <2>1, <2>2
<1> QED
  BY <1>5, <1>6, <1>7, <1>8 DEF SegmentInv

\* Items are in the segments that the text before them names, and the labels
\* with them, however an alignment moves them (emit_dir_seg, align_text,
\* align_data, fix_current_label_address), for files that begin with a segment
\* directive and have data and .comm in data segments, as long as no segment
\* grows into another one.
THEOREM SegmentsKept == ASSUME SegmentsClean PROVE Spec /\ []SegmentsFit => []SegmentsRight
<1>1. Init => SegmentInv
  <2> SUFFICES ASSUME Init PROVE SegmentInv
    OBVIOUS
  <2>1. loads = <<>> /\ placed = <<>> /\ phase = "idle"
    BY DEF Init
  <2>2. AllLines = {} /\ DOMAIN placed = {}
    BY <2>1 DEF AllLines, Lines
  <2> QED
    BY <2>1, <2>2 DEF SegmentInv, SegmentFollowed, ErrorNodes, SegmentAsWritten, Stored
<1>2. AssemblerInv /\ AssemblerInv' /\ SourceInv /\ ForgetInv /\ SegmentInv /\ SegmentsFit /\ SegmentsFit'
        /\ [Next]_vars => SegmentInv'
  BY SegmentEmit, SegmentRest, SegmentParse DEF Next, Loading
<1>3. Init => SourceInv /\ ForgetInv
  BY InitForget
<1>4. AssemblerInv /\ SourceInv /\ ForgetInv /\ [Next]_vars => (SourceInv /\ ForgetInv)'
  BY StepSource, StepForget
<1>5. AssemblerInv /\ SegmentInv => SegmentsRight
  <2> SUFFICES ASSUME AssemblerInv, SegmentInv, phase = "flush", ~errors, NEW d \in Lines(file),
                      StmtAt(d).op = "label", table[StmtAt(d).name] # 0
               PROVE  HighBits(addr[<<StmtAt(d).name, table[StmtAt(d).name]>>]) = HighBits(BASE[SourceSeg(d)])
    BY DEF SegmentInv, SegmentsRight, LabelSegment
  <2> DEFINE a == addr[<<StmtAt(d).name, table[StmtAt(d).name]>>]
  <2>1. d \in AllLines /\ d[1] = file
    <3>1. file \in 1..Len(loads)
      BY DEF AssemblerInv, TypeOK, file
    <3> QED
      BY <3>1 DEF AllLines, Lines
  <2>2. LabelPlaced(d)
    BY <2>1 DEF SegmentInv, Emitted
  <2>3. InSegment(a, SourceSeg(d))
    BY <2>2 DEF LabelPlaced
  <2> HIDE DEF a
  <2>4. {s \in Segments \ {"text"} : BASE[s] <= a} = {s \in Segments \ {"text"} : BASE[s] <= BASE[SourceSeg(d)]}
    BY <2>3 DEF InSegment
  <2>5. HighBits(a) = HighBits(BASE[SourceSeg(d)])
    BY <2>4 DEF HighBits
  <2> QED
    BY <2>5 DEF a
<1> QED
  BY <1>1, <1>2, <1>3, <1>4, <1>5, AssemblerInvariant, PTL DEF Spec

-----------------------------------------------------------------------------
(* Words.                                                                   *)

LEMMA WordParts ==
  ASSUME NEW x \in 0..(W - 1)
  PROVE  x % W = x /\ (x + W) % W = x
<1>1. W \in Nat \ {0}
  BY AssemblerAssumption
<1> QED
  BY <1>1

LEMMA WholeMultiple == \A q \in Nat : (q * W) % W = 0
<1>1. W \in Nat \ {0}
  BY AssemblerAssumption
<1> QED
  BY <1>1

LEMMA WholeNext ==
  ASSUME NEW a \in Nat, a % W = 0
  PROVE  (a + W) % W = 0
<1>1. W \in Nat \ {0}
  BY AssemblerAssumption
<1>2. PICK q \in Nat : a = q * W
  <2>1. a = (a \div W) * W
    BY <1>1
  <2>2. a \div W \in Nat
    BY <1>1
  <2> QED
    BY <2>1, <2>2
<1>3. q + 1 \in Nat /\ a + W = (q + 1) * W
  BY <1>1, <1>2
<1>4. ((q + 1) * W) % W = 0
  BY <1>3, WholeMultiple
<1> QED
  BY <1>3, <1>4

LEMMA AlignedWhole == \A a \in Nat : Aligned(a) % W = 0
<1> SUFFICES ASSUME NEW a \in Nat PROVE Aligned(a) % W = 0
  OBVIOUS
<1>1. W \in Nat \ {0}
  BY AssemblerAssumption
<1>2. PICK q : q = (a + W - 1) \div W
  OBVIOUS
<1>3. q \in Nat
  BY <1>1, <1>2
<1>4. (q * W) % W = 0
  BY <1>3, WholeMultiple
<1> QED
  BY <1>2, <1>4 DEF Aligned

-----------------------------------------------------------------------------
(* Literals stay as they were stored.                                       *)

\* Items are between the base and the counter of their segments, and no two
\* of them overlap.
ItemsApart ==
  /\ \A d \in DOMAIN placed :
       /\ placed[d] \in [seg : Segments, at : Nat, len : Nat]
       /\ BASE[placed[d].seg] <= placed[d].at
       /\ placed[d].at + placed[d].len <= pc[placed[d].seg]
  /\ \A c, d \in DOMAIN placed : c # d =>
       \/ placed[c].at + placed[c].len <= placed[d].at
       \/ placed[d].at + placed[d].len <= placed[c].at

\* The word at address a belongs to the item d, which names a symbol.
WordOf(a, d) ==
  /\ d \in DOMAIN placed /\ StmtAt(d).name # NoName
  /\ placed[d].at <= a /\ a + W <= placed[d].at + placed[d].len

\* What is still to be patched is a word of an item that names a symbol.
UsesInside ==
  \A e \in Entry : \A k \in 1..Len(uses[e]) : \E d \in DOMAIN placed : WordOf(uses[e][k].at, d)

\* The byte at address b of the literal d is what the source says.
Literal(d, b) == b \in DOMAIN mem /\ mem[b] = <<StmtAt(d).n, (b - placed[d].at) % W>>

LiteralsHeld ==
  \A d \in Stored : StmtAt(d).name = NoName =>
    \A b \in placed[d].at..(placed[d].at + placed[d].len - 1) : Literal(d, b)

\* The symbols that the file has defined so far are known.
DefinedSoFar ==
  phase \in {"emit", "resolve"} =>
    \A d \in AllLines : d[1] = file /\ Emitted(d) /\ StmtAt(d).op \in Definitions =>
      table[StmtAt(d).name] # 0 /\ addr[<<StmtAt(d).name, table[StmtAt(d).name]>>] # 0

\* The nodes that store something, and the statements they come from.
NodesRead ==
  phase \in {"emit", "resolve"} =>
    \A k \in 1..Len(ast) : ast[k].op \in TextOps \cup DataOps =>
      /\ loads[file][k].name = NoName => ast[k] = loads[file][k]
      /\ ast[k].name # NoName => ast[k].name = loads[file][k].name

ImageInv ==
  /\ PlacedEmitted /\ ItemsApart /\ UsesInside /\ LiteralsHeld
  /\ DefinedSoFar /\ NodesRead /\ ErrorNodes

\* Node i is put at the address at of the segment seg, len bytes long; text stays
\* whole words.
StoreAt(seg, at, len) ==
  /\ seg \in Segments /\ at \in Nat /\ len \in Nat /\ pc[seg] <= at
  /\ IsData(seg) \/ pc[seg] % W # 0 \/ (at + len) % W = 0
  /\ pc' = [pc EXCEPT ![seg] = at + len] /\ Place(seg, at, len)

\* len bytes from at become the words of v.
Filled(at, len, v) == mem' = Over(mem, [b \in at..(at + len - 1) |-> <<v, (b - at) % W>>])

\* The byte at b is in one of the words that the uses us are to patch.
WaitsIn(us, b) == \E k \in 1..Len(us) : us[k].at <= b /\ b < us[k].at + W

\* What node i adds to the symbol it names.
Addend == IF node.op = "jump" THEN 0 ELSE node.n

\* The use u is what node i records for a word of its item.
NewUse(u, at, len) ==
  /\ u.at \in {at, at + W} /\ u.at + W <= at + len
  /\ IF u.op = "data" THEN node.op \in DataOps ELSE node.op \in TextOps /\ u.off = Addend

\* Uses of the entry that node i names are added, for all of the words between
\* at and at + len.
UsesAdded(at, len) ==
  /\ \A x \in Entry : \A k \in 1..Len(uses'[x]) :
       \/ \E j \in 1..Len(uses[x]) : uses'[x][k] = uses[x][j]
       \/ x = EntryOf(node.name) /\ NewUse(uses'[x][k], at, len)
  /\ \A x \in Entry : \A j \in 1..Len(uses[x]) :
       \E k \in 1..Len(uses'[x]) : uses'[x][k] = uses[x][j]
  /\ \A b \in at..(at + len - 1) : WaitsIn(uses'[EntryOf(node.name)], b)

\* What node i stores, if it is an instruction or a datum: the value, or what is
\* to be patched later.
StoredItem(seg, at, len) ==
  LET e == EntryOf(node.name) IN
  /\ node.op \in TextOps \cup DataOps
  /\ \E v : /\ Filled(at, len, v)
            /\ IF node.name # NoName /\ addr'[e] = 0
               THEN UsesAdded(at, len)
               ELSE uses' = uses /\ v = Addend + IF node.name = NoName THEN 0 ELSE addr'[e]
  /\ node.op \in TextOps => seg = Cur /\ at = pc[Cur]
  /\ node.op = "word" /\ dir = "data" /\ enable_data_auto_alignment => at % W = 0

Stores ==
  \/ UNCHANGED <<placed, pc, mem, uses>>
  \/ \E seg, at, len :
       /\ StoreAt(seg, at, len)
       /\ \/ node.op \notin TextOps \cup DataOps /\ UNCHANGED <<mem, uses>>
          \/ StoredItem(seg, at, len)

LEMMA UsesPushed ==
  ASSUME TypeOK, NEW e \in Entry, e = EntryOf(node.name), NEW new \in Seq(Use),
         uses' = [uses EXCEPT ![e] = new \o @], NEW at, NEW len,
         \A k \in 1..Len(new) : NewUse(new[k], at, len),
         \A b \in at..(at + len - 1) : WaitsIn(new, b)
  PROVE  UsesAdded(at, len)
<1>1. uses'[e] = new \o uses[e] /\ uses[e] \in Seq(Use)
  BY DEF TypeOK
<1>a. PICK old \in Seq(Use), all \in Seq(Use), p \in Nat, q \in Nat :
        old = uses[e] /\ all = uses'[e] /\ all = new \o old /\ p = Len(new) /\ q = Len(old)
  <2>1. PICK old \in Seq(Use) : old = uses[e]
    BY <1>1
  <2>2. new \o old \in Seq(Use) /\ Len(new) \in Nat /\ Len(old) \in Nat
    BY <2>1
  <2> QED
    BY <1>1, <2>1, <2>2
<1>b. /\ Len(all) = p + q /\ \A k \in 1..p : all[k] = new[k]
      /\ \A k \in (p + 1)..(p + q) : all[k] = old[k - p]
  BY <1>a
<1>c. \A j \in 1..q : p + j \in (p + 1)..(p + q) /\ (p + j) - p = j
  BY <1>a
<1>d. \A j \in 1..q : all[p + j] = old[j]
  BY <1>b, <1>c
<1>2. /\ \A k \in 1..Len(new) : k \in 1..Len(uses'[e]) /\ uses'[e][k] = new[k]
      /\ \A j \in 1..Len(uses[e]) : \E k \in 1..Len(uses'[e]) : uses'[e][k] = uses[e][j]
      /\ \A k \in 1..Len(uses'[e]) : k \in 1..Len(new) \/
           (k - Len(new) \in 1..Len(uses[e]) /\ uses'[e][k] = uses[e][k - Len(new)])
  <2>1. \A k \in 1..p : k \in 1..(p + q) /\ all[k] = new[k]
    BY <1>b
  <2>2. \A j \in 1..q : p + j \in 1..(p + q) /\ all[p + j] = old[j]
    BY <1>a, <1>d
  <2>3. \A k \in 1..(p + q) : k \in 1..p \/ (k - p \in 1..q /\ all[k] = old[k - p])
    BY <1>a, <1>b
  <2> QED
    BY <1>a, <1>b, <2>1, <2>2, <2>3
<1>3. \A x \in Entry : x # e => uses'[x] = uses[x]
  BY DEF TypeOK
<1>4. ASSUME NEW x \in Entry, NEW k \in 1..Len(uses'[x])
      PROVE  \/ \E j \in 1..Len(uses[x]) : uses'[x][k] = uses[x][j]
             \/ x = e /\ NewUse(uses'[x][k], at, len)
  BY <1>2, <1>3, <1>4
<1>5. ASSUME NEW x \in Entry, NEW j \in 1..Len(uses[x])
      PROVE  \E k \in 1..Len(uses'[x]) : uses'[x][k] = uses[x][j]
  <2>1. CASE x = e
    BY <1>2, <1>5, <2>1
  <2>2. CASE x # e
    BY <1>3, <1>5, <2>2
  <2> QED
    BY <2>1, <2>2
<1>6. ASSUME NEW b \in at..(at + len - 1) PROVE WaitsIn(uses'[e], b)
  BY <1>2, <1>6 DEF WaitsIn
<1> QED
  BY <1>4, <1>5, <1>6 DEF UsesAdded

LEMMA BytesFilled ==
  ASSUME NEW at \in Nat, NEW len \in Nat, len <= W, NEW v
  PROVE  Bytes(at, len, v) = [b \in at..(at + len - 1) |-> <<v, (b - at) % W>>]
<1>1. W \in Nat \ {0}
  BY AssemblerAssumption
<1>2. ASSUME NEW b \in at..(at + len - 1) PROVE b - at = (b - at) % W
  <2>1. b - at \in 0..(W - 1)
    BY <1>1
  <2> QED
    BY <1>1, <2>1
<1> QED
  BY <1>2 DEF Bytes

(* What an instruction stores, and which uses it records.                   *)
LEMMA InstStores ==
  ASSUME AssemblerInv, phase = "emit", i <= Len(ast), NEW op \in TextOps, EmitInst(op)
  PROVE  Stores
<1> USE AssemblerAssumption
<1>p. TypeOK /\ NodesNamed
  BY DEF AssemblerInv
<1>n. node.n \in Nat /\ node.name \in Names \cup {NoName} /\ file \in 1..MaxFiles
  BY <1>p, NodeType
<1>s. Cur \in Segments /\ pc[Cur] \in Nat
  BY <1>p, SegmentTypes DEF Cur
<1> HIDE DEF node, file
<1> DEFINE at      == pc[Cur]
           e       == EntryOf(node.name)
           off     == IF op = "jump" THEN 0 ELSE node.n
           unknown == node.name # NoName /\ addr[e] = 0
           v       == off + IF node.name = NoName \/ unknown THEN 0 ELSE addr[e]
           words   == IF op = "jump" THEN 1 ELSE IF unknown THEN 2 ELSE la_words(v)
           UseAt(k) == InstUse(at + k * W, op, off)
<1>1. /\ node.op = op /\ addr' = addr
      /\ uses' = IF ~unknown THEN uses
                 ELSE [uses EXCEPT ![e] =
                         (IF words = 1 THEN <<UseAt(0)>> ELSE <<UseAt(1), UseAt(0)>>) \o @]
      /\ mem' = Over(mem, [b \in at..(at + words * W - 1) |-> <<v, (b - at) % W>>])
      /\ pc' = [pc EXCEPT ![Cur] = at + words * W]
      /\ Place(Cur, at, words * W)
  BY DEF EmitInst, Emit, Cur
<1>2. words \in {1, 2}
  BY DEF la_words
<1>3. off \in Nat /\ at \in Nat
  BY <1>n, <1>s
<1>4. off = Addend
  BY <1>1 DEF Addend
<1>5. ~unknown => v = Addend + IF node.name = NoName THEN 0 ELSE addr[e]
  BY <1>4
<1>e. unknown => e \in Entry
  BY <1>n, <1>p, EntryOfType
<1>u. \A k \in {0, 1} : /\ at + k * W \in Nat /\ UseAt(k) \in Use /\ UseAt(k).at = at + k * W
                        /\ UseAt(k).op # "data" /\ UseAt(k).off = Addend
  BY <1>3, <1>4 DEF InstUse, Use, TextOps
<1>v. unknown <=> node.name # NoName /\ addr'[e] = 0
  BY <1>1
<1> HIDE DEF v, words, unknown, off, UseAt
<1> DEFINE len == words * W
<1>7. len \in Nat /\ (words = 1 => len = W) /\ (words = 2 => len = W + W)
  BY <1>2
<1>8. unknown => UsesAdded(at, len)
  <2>0. PICK u, w : u = UseAt(0) /\ w = UseAt(1)
    OBVIOUS
  <2>1. /\ u \in Use /\ u.at = at /\ u.op # "data" /\ u.off = Addend
        /\ w \in Use /\ w.at = at + W /\ w.op # "data" /\ w.off = Addend
    BY <1>3, <1>u, <2>0
  <2>2. NewUse(u, at, len) /\ (words = 2 => NewUse(w, at, len))
    <3>1. node.op \in TextOps
      BY <1>1
    <3> QED
      BY <1>2, <1>3, <1>7, <2>1, <3>1 DEF NewUse
  <2> DEFINE new == IF words = 1 THEN <<u>> ELSE <<w, u>>
  <2>3. /\ new \in Seq(Use) /\ (words = 1 => Len(new) = 1 /\ new[1] = u)
        /\ words = 2 => Len(new) = 2 /\ new[1] = w /\ new[2] = u
    BY <1>2, <2>1
  <2>4. unknown => uses' = [uses EXCEPT ![e] = new \o @]
    BY <1>1, <2>0
  <2> HIDE DEF new
  <2>5. \A k \in 1..Len(new) : NewUse(new[k], at, len)
    BY <1>2, <2>2, <2>3
  <2>6. \A b \in at..(at + len - 1) : WaitsIn(new, b)
    <3> SUFFICES ASSUME NEW b \in at..(at + len - 1) PROVE WaitsIn(new, b)
      OBVIOUS
    <3>0. PICK a \in Nat, l \in Nat :
            a = at /\ l = len /\ b \in a..(a + l - 1) /\ l = IF words = 1 THEN W ELSE W + W
      BY <1>2, <1>3, <1>7
    <3> HIDE DEF at, len
    <3>1. CASE words = 1
      <4>1. 1 \in 1..Len(new) /\ new[1].at <= b /\ b < new[1].at + W
        <5>1. new[1].at = a /\ Len(new) = 1 /\ l = W
          BY <2>1, <2>3, <3>0, <3>1
        <5>2. a <= b /\ b < a + W
          BY <3>0, <5>1
        <5> QED
          BY <5>1, <5>2
      <4> QED
        BY <4>1 DEF WaitsIn
    <3>2. CASE words = 2 /\ b < at + W
      <4>1. 2 \in 1..Len(new) /\ new[2].at <= b /\ b < new[2].at + W
        BY <1>7, <2>1, <2>3, <3>0, <3>2
      <4> QED
        BY <4>1 DEF WaitsIn
    <3>3. CASE words = 2 /\ at + W <= b
      <4>1. 1 \in 1..Len(new) /\ new[1].at <= b /\ b < new[1].at + W
        BY <1>7, <2>1, <2>3, <3>0, <3>3
      <4> QED
        BY <4>1 DEF WaitsIn
    <3> QED
      BY <1>2, <1>3, <3>1, <3>2, <3>3
  <2> QED
    BY <1>e, <1>p, <2>3, <2>4, <2>5, <2>6, UsesPushed
<1>9. StoredItem(Cur, at, len)
  <2>1. /\ node.op \in TextOps \cup DataOps /\ Filled(at, len, v)
        /\ node.op # "word"
    BY <1>1 DEF Filled, TextOps
  <2>2. ~unknown => uses' = uses /\ v = Addend + IF node.name = NoName THEN 0 ELSE addr'[e]
    BY <1>1, <1>5
  <2> QED
    BY <1>8, <1>v, <2>1, <2>2 DEF StoredItem
<1>10. StoreAt(Cur, at, len)
  <2>1. at % W # 0 \/ (at + len) % W = 0
    <3>1. at % W = 0 => (at + W) % W = 0
      BY <1>3, WholeNext
    <3>2. at % W = 0 => ((at + W) + W) % W = 0
      BY <1>3, <3>1, WholeNext
    <3>3. words = 1 => at + len = at + W
      BY <1>7
    <3>4. words = 2 => at + len = (at + W) + W
      BY <1>3, <1>7
    <3> QED
      BY <1>2, <3>1, <3>2, <3>3, <3>4
  <2> QED
    BY <1>1, <1>3, <1>7, <1>s, <2>1 DEF StoreAt
<1> QED
  BY <1>9, <1>10 DEF Stores

LEMMA DataStores ==
  ASSUME AssemblerInv, LineDefined, \A seg \in Segments : pc[seg] # 0, phase = "emit", i <= Len(ast),
         NEW op \in DataOps, EmitData(op),
         op = "byte" /\ node.name # NoName => addr[EntryOf(node.name)] # 0
  PROVE  Stores
<1> USE AssemblerAssumption
<1>p. TypeOK /\ NodesNamed
  BY DEF AssemblerInv
<1>n. node.n \in Nat /\ node.name \in Names \cup {NoName} /\ file \in 1..MaxFiles
  BY <1>p, NodeType
<1>s. DataSeg \in Segments /\ pc[DataSeg] \in Nat /\ IsData(DataSeg)
  BY <1>p, SegmentTypes DEF IsData, DataSeg
<1>a. /\ Aligned(pc[DataSeg]) \in Nat /\ pc[DataSeg] <= Aligned(pc[DataSeg])
      /\ Aligned(pc[DataSeg]) % W = 0
  BY <1>s, AlignedNat, AlignedAbove, AlignedWhole
<1> HIDE DEF node, file
<1> DEFINE align == op = "word" /\ dir = "data" /\ enable_data_auto_alignment
           start == IF align THEN Aligned(pc[DataSeg]) ELSE pc[DataSeg]
           len   == IF op = "word" THEN W ELSE 1
           e     == EntryOf(node.name)
           value == node.n + IF node.name = NoName THEN 0 ELSE addr'[e]
           unknown == node.name # NoName /\ addr'[e] = 0
<1>1. /\ node.op = op
      /\ addr' = IF align THEN fix_current_label_address(start) ELSE addr
      /\ unknown => /\ uses' = [uses EXCEPT ![e] = <<DataUse(start, node.n)>> \o @]
                    /\ mem' = Over(mem, Bytes(start, len, node.n))
      /\ ~unknown => uses' = uses /\ mem' = Over(mem, Bytes(start, len, value))
      /\ pc' = [pc EXCEPT ![DataSeg] = start + len]
      /\ Place(DataSeg, start, len)
  BY DEF EmitData, Emit
<1>2. start \in Nat /\ len \in Nat /\ len <= W /\ pc[DataSeg] <= start /\ (op = "word" => len = W)
  BY <1>s, <1>a
<1>3. op = "byte" => addr' = addr
  BY <1>1
<1>4. op \in {"word", "byte"}
  BY DEF DataOps
<1>5. Addend = node.n /\ node.op \in DataOps /\ node.op \notin TextOps
  BY <1>1, <1>4 DEF Addend, DataOps, TextOps
<1>e. node.name # NoName => e \in Entry
  BY <1>n, <1>p, EntryOfType
<1>6. op = "byte" /\ node.name # NoName => addr'[e] # 0
  BY <1>3
<1>7. align => start % W = 0
  BY <1>a
<1> HIDE DEF start, len, unknown
<1>8. StoredItem(DataSeg, start, len)
  <2>0. node.op = "word" /\ dir = "data" /\ enable_data_auto_alignment => start % W = 0
    BY <1>1, <1>7
  <2> HIDE DEF value, align
  <2>1. CASE unknown
    <3>0. Bytes(start, len, node.n) = [b \in start..(start + len - 1) |-> <<node.n, (b - start) % W>>]
      <4>1. \A x : Bytes(start, len, x) = [b \in start..(start + len - 1) |-> <<x, (b - start) % W>>]
        BY <1>2, BytesFilled
      <4> QED
        BY <4>1, Zenon
    <3>1. Filled(start, len, node.n)
      BY <1>1, <2>1, <3>0, Zenon DEF Filled
    <3>2. len = W
      BY <1>2, <1>4, <1>6, <2>1 DEF unknown
    <3>3. PICK u : u = DataUse(start, node.n)
      OBVIOUS
    <3>4. u \in Use /\ u.at = start /\ u.op = "data"
      BY <1>n, <1>2, <3>3 DEF DataUse, Use
    <3>5. PICK new : new = <<u>>
      OBVIOUS
    <3>6. new \in Seq(Use) /\ Len(new) = 1 /\ new[1] = u
      BY <3>4, <3>5
    <3>7. NewUse(u, start, len)
      BY <1>2, <1>5, <3>2, <3>4 DEF NewUse
    <3>8. \A b \in start..(start + len - 1) : WaitsIn(new, b)
      BY <1>2, <3>2, <3>4, <3>6 DEF WaitsIn
    <3>9. uses' = [uses EXCEPT ![e] = new \o @] /\ e \in Entry
      BY <1>1, <1>e, <2>1, <3>3, <3>5 DEF unknown
    <3>10. \A k \in 1..Len(new) : NewUse(new[k], start, len)
      BY <3>6, <3>7
    <3>11. UsesAdded(start, len)
      BY <1>p, <3>6, <3>8, <3>9, <3>10, UsesPushed
    <3> QED
      BY <1>5, <2>0, <2>1, <3>1, <3>11 DEF StoredItem, unknown
  <2>2. CASE ~unknown
    <3>0. Bytes(start, len, value) = [b \in start..(start + len - 1) |-> <<value, (b - start) % W>>]
      BY <1>2, BytesFilled
    <3>1. Filled(start, len, value) /\ uses' = uses
      BY <1>1, <2>2, <3>0, Zenon DEF Filled
    <3>2. value = Addend + IF node.name = NoName THEN 0 ELSE addr'[e]
      BY <1>5 DEF value
    <3> QED
      BY <1>5, <2>0, <2>2, <3>1, <3>2 DEF StoredItem, unknown
  <2> QED
    BY <2>1, <2>2
<1>9. StoreAt(DataSeg, start, len)
  BY <1>1, <1>2, <1>s DEF StoreAt
<1> QED
  BY <1>8, <1>9 DEF Stores

LEMMA EmitStores ==
  ASSUME AssemblerInv, ForgetInv, EmitOne,
         node.op = "byte" /\ node.name # NoName => addr[EntryOf(node.name)] # 0
  PROVE  Stores
<1> USE AssemblerAssumption
<1>p. TypeOK /\ NodesNamed /\ LineDefined /\ \A seg \in Segments : pc[seg] # 0
  BY DEF AssemblerInv, ForgetInv
<1>0. phase = "emit" /\ i <= Len(ast)
  BY <1>p, EmitEffect
<1>n. node.n \in Nat
  BY <1>p, <1>0, NodeType
<1>s. Cur \in Segments /\ DataSeg \in Segments /\ pc[Cur] \in Nat /\ pc[DataSeg] \in Nat
  BY <1>p, SegmentTypes DEF Cur
<1>a. /\ Aligned(pc[Cur]) \in Nat /\ pc[Cur] <= Aligned(pc[Cur]) /\ Aligned(pc[Cur]) % W = 0
      /\ Aligned(pc[DataSeg]) \in Nat /\ pc[DataSeg] <= Aligned(pc[DataSeg]) /\ IsData(DataSeg)
  BY <1>s, AlignedNat, AlignedAbove, AlignedWhole DEF IsData, DataSeg
<1> HIDE DEF node, file
<1>1. CASE EmitSegment \/ EmitAlign0 \/ EmitNothing \/ EmitGlobl \/ EmitLabel \/ EmitConst
  BY <1>1 DEF EmitSegment, EmitAlign0, EmitNothing, EmitGlobl, EmitLabel, EmitConst, entryVars,
              counterVars, Stores
<1>2. CASE EmitAlign
  <2>1. /\ node.op = "align" /\ UNCHANGED <<mem, uses>>
        /\ pc' = [pc EXCEPT ![Cur] = Aligned(pc[Cur])]
        /\ Place(Cur, Aligned(pc[Cur]), 0)
    BY <1>2 DEF EmitAlign, Emit, Cur
  <2>2. Aligned(pc[Cur]) = Aligned(pc[Cur]) + 0
    BY <1>a
  <2>3. StoreAt(Cur, Aligned(pc[Cur]), 0)
    BY <1>a, <1>s, <2>1, <2>2 DEF StoreAt
  <2> QED
    BY <2>1, <2>3 DEF Stores, TextOps, DataOps
<1>3. CASE EmitSpace \/ EmitExtern
  <2>1. /\ node.op \in {"space", "extern"} /\ UNCHANGED <<mem, uses>>
        /\ pc' = [pc EXCEPT ![DataSeg] = pc[DataSeg] + node.n]
        /\ Place(DataSeg, pc[DataSeg], node.n)
    BY <1>3 DEF EmitSpace, EmitExtern, Emit, entryVars
  <2>2. StoreAt(DataSeg, pc[DataSeg], node.n)
    BY <1>a, <1>n, <1>s, <2>1 DEF StoreAt
  <2> QED
    BY <2>1, <2>2 DEF Stores, TextOps, DataOps
<1>4. CASE EmitComm
  <2>1. /\ node.op = "comm" /\ UNCHANGED <<mem, uses>>
        /\ pc' = [pc EXCEPT ![DataSeg] = Aligned(pc[DataSeg]) + node.n]
        /\ Place(DataSeg, Aligned(pc[DataSeg]), node.n)
    BY <1>4 DEF EmitComm, Emit
  <2>2. StoreAt(DataSeg, Aligned(pc[DataSeg]), node.n)
    BY <1>n, <1>a, <1>s, <2>1 DEF StoreAt
  <2> QED
    BY <2>1, <2>2 DEF Stores, TextOps, DataOps
<1>5. ASSUME NEW op \in DataOps, EmitData(op) PROVE Stores
  <2>1. node.op = op
    BY <1>5 DEF EmitData, Emit
  <2> QED
    BY <1>0, <1>5, <1>p, <2>1, DataStores
<1>6. ASSUME NEW op \in TextOps, EmitInst(op) PROVE Stores
  BY <1>0, <1>6, InstStores
<1> QED
  BY <1>1, <1>2, <1>3, <1>4, <1>5, <1>6 DEF EmitOne

-----------------------------------------------------------------------------
(* A new item is apart from the others.                                     *)

LEMMA StorePlaces ==
  ASSUME NEW seg, NEW at, NEW len, Place(seg, at, len), <<file, i>> \notin DOMAIN placed
  PROVE  /\ DOMAIN placed' = DOMAIN placed \cup {<<file, i>>}
         /\ placed'[<<file, i>>] = [seg |-> seg, at |-> at, len |-> len]
         /\ \A d \in DOMAIN placed : placed'[d] = placed[d]
  BY DEF Place, Over

LEMMA StoreApart ==
  ASSUME TypeOK, TypeOK', SegmentsFit, SegmentsFit', ItemsApart, NEW seg, NEW at, NEW len,
         StoreAt(seg, at, len), NEW d \in DOMAIN placed
  PROVE  placed[d].at + placed[d].len <= at \/ at + len <= placed[d].at
<1> USE AssemblerAssumption
<1>1. /\ seg \in Segments /\ at \in Nat /\ len \in Nat /\ pc[seg] <= at
      /\ pc' = [pc EXCEPT ![seg] = at + len]
  BY DEF StoreAt
<1>2. pc'[seg] = at + len /\ pc[seg] \in Nat
  BY <1>1 DEF TypeOK
<1> DEFINE s == placed[d].seg
<1>3. /\ s \in Segments /\ placed[d].at \in Nat /\ placed[d].len \in Nat
      /\ BASE[s] <= placed[d].at /\ placed[d].at + placed[d].len <= pc[s]
  BY DEF ItemsApart
<1> HIDE DEF s
<1>4. BASE[s] \in Nat /\ BASE[seg] \in Nat /\ pc[s] \in Nat
  BY <1>1, <1>3 DEF TypeOK
<1>5. CASE s = seg
  BY <1>1, <1>2, <1>3, <1>5
<1>6. CASE s # seg
  <2>1. BASE[s] # BASE[seg]
    BY <1>1, <1>3, <1>6
  <2>2. BASE[seg] <= pc[s] <=> BASE[seg] <= BASE[s]
    BY <1>1, <1>3 DEF SegmentsFit, InSegment
  <2>3. BASE[s] <= pc'[seg] <=> BASE[s] <= BASE[seg]
    BY <1>1, <1>3 DEF SegmentsFit, InSegment
  <2>4. BASE[seg] <= pc[seg]
    BY <1>1 DEF SegmentsFit, InSegment
  <2> QED
    BY <1>1, <1>2, <1>3, <1>4, <2>1, <2>2, <2>3, <2>4
<1> QED
  BY <1>5, <1>6

LEMMA StoreItems ==
  ASSUME TypeOK, TypeOK', SegmentsFit, SegmentsFit', ItemsApart, NEW seg, NEW at, NEW len,
         StoreAt(seg, at, len), <<file, i>> \notin DOMAIN placed
  PROVE  ItemsApart'
<1> USE AssemblerAssumption
<1>1. /\ seg \in Segments /\ at \in Nat /\ len \in Nat /\ pc[seg] <= at
      /\ pc' = [pc EXCEPT ![seg] = at + len] /\ Place(seg, at, len)
  BY DEF StoreAt
<1>2. /\ pc'[seg] = at + len /\ pc[seg] \in Nat /\ BASE[seg] \in Nat
      /\ \A s \in Segments : s # seg => pc'[s] = pc[s]
  BY <1>1 DEF TypeOK
<1>3. PICK c : c = <<file, i>>
  OBVIOUS
<1>4. /\ DOMAIN placed' = DOMAIN placed \cup {c} /\ c \notin DOMAIN placed
      /\ placed'[c] = [seg |-> seg, at |-> at, len |-> len]
      /\ \A d \in DOMAIN placed : placed'[d] = placed[d]
  BY <1>1, <1>3, StorePlaces
<1>5. \A d \in DOMAIN placed : placed[d].at + placed[d].len <= at \/ at + len <= placed[d].at
  BY StoreApart
<1>6. BASE[seg] <= at
  <2>1. BASE[seg] <= pc[seg]
    BY <1>1 DEF SegmentsFit, InSegment
  <2> QED
    BY <1>1, <1>2, <2>1
<1>7. /\ placed'[c].seg = seg /\ placed'[c].at = at /\ placed'[c].len = len
      /\ placed'[c] \in [seg : Segments, at : Nat, len : Nat]
  BY <1>1, <1>4
<1>8. ASSUME NEW d \in DOMAIN placed
      PROVE  /\ placed'[d] \in [seg : Segments, at : Nat, len : Nat]
             /\ BASE[placed'[d].seg] <= placed'[d].at
             /\ placed'[d].at + placed'[d].len <= pc'[placed'[d].seg]
  <2>1. PICK r : r = placed[d] /\ r = placed'[d]
    BY <1>4, <1>8
  <2>2. /\ r \in [seg : Segments, at : Nat, len : Nat]
        /\ BASE[r.seg] <= r.at /\ r.at + r.len <= pc[r.seg]
    BY <1>8, <2>1 DEF ItemsApart
  <2>3. r.at + r.len <= pc'[r.seg]
    <3>1. CASE r.seg = seg
      BY <1>1, <1>2, <2>2, <3>1
    <3>2. CASE r.seg # seg
      BY <1>2, <2>2, <3>2
    <3> QED
      BY <3>1, <3>2
  <2> QED
    BY <2>1, <2>2, <2>3
<1>9. ASSUME NEW d \in DOMAIN placed', NEW b \in DOMAIN placed', b # d
      PROVE  \/ placed'[b].at + placed'[b].len <= placed'[d].at
             \/ placed'[d].at + placed'[d].len <= placed'[b].at
  <2>1. CASE b \in DOMAIN placed /\ d \in DOMAIN placed
    BY <1>4, <1>9, <2>1 DEF ItemsApart
  <2>2. CASE b = c
    BY <1>4, <1>5, <1>7, <1>9, <2>2
  <2>3. CASE d = c
    BY <1>4, <1>5, <1>7, <1>9, <2>3
  <2> QED
    BY <1>4, <2>1, <2>2, <2>3
<1>10. \A d \in DOMAIN placed' :
         /\ placed'[d] \in [seg : Segments, at : Nat, len : Nat]
         /\ BASE[placed'[d].seg] <= placed'[d].at
         /\ placed'[d].at + placed'[d].len <= pc'[placed'[d].seg]
  BY <1>2, <1>4, <1>6, <1>7, <1>8
<1> QED
  BY <1>9, <1>10 DEF ItemsApart

(* Writing some bytes leaves the others.                                    *)
LEMMA OverOther ==
  ASSUME NEW m, NEW f, NEW b \in DOMAIN m, b \notin DOMAIN f
  PROVE  b \in DOMAIN Over(m, f) /\ Over(m, f)[b] = m[b]
  BY DEF Over

-----------------------------------------------------------------------------
(* What is emitted is placed apart, and its uses are words of it.            *)

LEMMA ImageStores ==
  ASSUME AssemblerInv, AssemblerInv', SourceInv, SegmentsFit, SegmentsFit', ImageInv,
         LiteralsClean, phase = "emit", i <= Len(ast), loads' = loads, Stores
  PROVE  ItemsApart' /\ UsesInside' /\ LiteralsHeld'
<1> USE AssemblerAssumption
<1>t. TypeOK /\ TypeOK' /\ ItemsApart /\ UsesInside /\ LiteralsHeld
  BY DEF AssemblerInv, ImageInv
<1>l. \A d : StmtAt(d)' = StmtAt(d)
  BY SameSource
<1>1. CASE UNCHANGED <<placed, pc, mem, uses>>
  BY <1>1, <1>l, <1>t DEF ItemsApart, UsesInside, LiteralsHeld, WordOf, Literal, Stored
<1>2. PICK c : c = <<file, i>>
  OBVIOUS
<1>3. c \notin DOMAIN placed
  <2>1. ~Emitted(<<file, i>>)
    BY DEF Emitted, AssemblerInv, TypeOK, file
  <2> QED
    BY <1>2, <2>1 DEF ImageInv, PlacedEmitted
<1>4. ASSUME NEW seg, NEW at, NEW len, StoreAt(seg, at, len),
             \/ node.op \notin TextOps \cup DataOps /\ UNCHANGED <<mem, uses>>
             \/ StoredItem(seg, at, len)
      PROVE  ItemsApart' /\ UsesInside' /\ LiteralsHeld'
  <2>1. ItemsApart'
    BY <1>2, <1>3, <1>4, <1>t, StoreItems
  <2>2. /\ DOMAIN placed' = DOMAIN placed \cup {c}
        /\ placed'[c] = [seg |-> seg, at |-> at, len |-> len]
        /\ \A d \in DOMAIN placed : placed'[d] = placed[d]
    <3>1. Place(seg, at, len)
      BY <1>4 DEF StoreAt
    <3> QED
      BY <1>2, <1>3, <3>1, StorePlaces
  <2>3. at \in Nat /\ len \in Nat /\ placed'[c].at = at /\ placed'[c].len = len
    BY <1>4, <2>2 DEF StoreAt
  <2>4. \A d \in DOMAIN placed : placed[d].at + placed[d].len <= at \/ at + len <= placed[d].at
    BY <1>4, <1>t, StoreApart
  <2>5. /\ node.op \in TextOps \cup DataOps => node.op = StmtAt(c).op
        /\ node.op \in TextOps \cup DataOps /\ StmtAt(c).name = NoName => node = StmtAt(c)
        /\ node.op \in TextOps \cup DataOps /\ node.name # NoName => StmtAt(c).name # NoName
        /\ StmtAt(c).op = "jump" /\ StmtAt(c).name = NoName => StmtAt(c).n = 0
    <3>0. i \in 1..Len(ast) /\ Len(ast) = Len(loads[file]) /\ file \in 1..Len(loads)
      BY DEF AssemblerInv, TypeOK, SourceInv, file
    <3>1. i \in 1..Len(ast) /\ i \in 1..Len(loads[file]) /\ loads[file] \in Files
      BY <3>0 DEF SourceInv
    <3>2. StmtAt(c) = loads[file][i]
      BY <1>2 DEF StmtAt
    <3>3. node.op \in TextOps \cup DataOps => node.op = StmtAt(c).op
      BY <1>2, NodeLine DEF TextOps, DataOps
    <3>4. /\ node.op \in TextOps \cup DataOps /\ loads[file][i].name = NoName => node = loads[file][i]
          /\ node.op \in TextOps \cup DataOps /\ node.name # NoName => node.name = loads[file][i].name
      BY <3>1 DEF ImageInv, NodesRead, node
    <3>5. loads[file][i].op = "jump" /\ loads[file][i].name = NoName => loads[file][i].n = 0
      BY <3>1 DEF LiteralsClean
    <3> QED
      BY <3>2, <3>3, <3>4, <3>5
  <2>6. ASSUME NEW a, NEW d \in DOMAIN placed, WordOf(a, d) PROVE WordOf(a, d)'
    BY <1>l, <2>2, <2>6 DEF WordOf
  <2>7. UsesInside'
    <3> SUFFICES ASSUME NEW e \in Entry, NEW k \in 1..Len(uses'[e])
                 PROVE  \E d \in DOMAIN placed' : WordOf(uses[e][k].at, d)'
      BY Zenon DEF UsesInside
    <3>1. PICK a : a = uses'[e][k].at
      OBVIOUS
    <3>2. CASE \E j \in 1..Len(uses[e]) : uses'[e][k] = uses[e][j]
      <4>1. PICK d \in DOMAIN placed : WordOf(a, d)
        BY <1>t, <3>1, <3>2 DEF UsesInside
      <4>2. WordOf(a, d)'
        BY <2>6, <4>1
      <4> QED
        BY <2>2, <3>1, <4>2 DEF WordOf
    <3>3. CASE /\ node.op \in TextOps \cup DataOps /\ node.name # NoName
               /\ at <= a /\ a + W <= at + len
      <4>1. WordOf(uses[e][k].at, c)'
        BY <1>l, <2>2, <2>3, <2>5, <3>1, <3>3 DEF WordOf
      <4> QED
        BY <2>2, <4>1
    <3>4. CASE uses' = uses
      BY <3>2, <3>4
    <3>5. CASE StoredItem(seg, at, len) /\ uses' # uses
      <4>1. node.op \in TextOps \cup DataOps /\ node.name # NoName /\ UsesAdded(at, len)
        BY <3>5 DEF StoredItem
      <4>2. ASSUME NewUse(uses'[e][k], at, len) PROVE at <= a /\ a + W <= at + len
        BY <2>3, <3>1, <4>2 DEF NewUse
      <4>3. (\E j \in 1..Len(uses[e]) : uses'[e][k] = uses[e][j]) \/ NewUse(uses'[e][k], at, len)
        BY <4>1 DEF UsesAdded
      <4> QED
        BY <3>2, <3>3, <4>1, <4>2, <4>3
    <3> QED
      BY <1>4, <3>4, <3>5
  <2>8. ASSUME NEW d \in DOMAIN placed, StmtAt(d).op \in TextOps \cup DataOps, StmtAt(d).name = NoName,
               NEW b \in placed[d].at..(placed[d].at + placed[d].len - 1)
        PROVE  Literal(d, b)'
    <3>1. Literal(d, b)
      BY <1>t, <2>8 DEF LiteralsHeld, Stored
    <3>2. b \in DOMAIN mem' /\ mem'[b] = mem[b]
      <4>1. CASE mem' = mem
        BY <3>1, <4>1 DEF Literal
      <4>2. ASSUME NEW v, Filled(at, len, v) PROVE b \in DOMAIN mem' /\ mem'[b] = mem[b]
        <5>1. PICK f : f = [x \in at..(at + len - 1) |-> <<v, (x - at) % W>>]
          OBVIOUS
        <5>2. DOMAIN f = at..(at + len - 1) /\ mem' = Over(mem, f)
          BY <4>2, <5>1 DEF Filled
        <5>3. PICK p \in Nat, q \in Nat : p = placed[d].at /\ q = placed[d].len
          BY <1>t DEF ItemsApart
        <5>4. p + q <= at \/ at + len <= p
          BY <2>4, <5>3
        <5>5. b \in p..(p + q - 1) /\ b \in DOMAIN mem
          BY <2>8, <3>1, <5>3 DEF Literal
        <5>6. b \notin DOMAIN f
          BY <2>3, <5>2, <5>4, <5>5
        <5> QED
          BY ZenonT(30), <5>2, <5>5, <5>6, OverOther
      <4> QED
        BY <1>4, <4>1, <4>2 DEF StoredItem
    <3> QED
      BY <1>l, <2>2, <2>8, <3>1, <3>2 DEF Literal
  <2>9. ASSUME StmtAt(c).op \in TextOps \cup DataOps, StmtAt(c).name = NoName,
               NEW b \in at..(at + len - 1)
        PROVE  Literal(c, b)'
    <3>1. PICK v : /\ node.op \in TextOps \cup DataOps /\ Filled(at, len, v)
                   /\ node.name = NoName => v = Addend + 0
      <4>1. node.op \in TextOps \cup DataOps
        <5>1. i \in 1..Len(ast) /\ StmtAt(c) = loads[file][i]
          BY <1>2 DEF AssemblerInv, TypeOK, StmtAt
        <5>2. node.op # "error"
          BY <2>9, <5>1 DEF ImageInv, ErrorNodes, node, TextOps, DataOps
        <5> QED
          BY <1>2, <2>9, <5>2, NodeLine
      <4> QED
        BY <1>4, <4>1 DEF StoredItem
    <3>2. v = StmtAt(c).n
      <4>1. node.n \in Nat
        BY NodeType DEF AssemblerInv
      <4> QED
        BY <2>5, <2>9, <3>1, <4>1 DEF Addend
    <3>3. b \in DOMAIN mem' /\ mem'[b] = <<v, (b - at) % W>>
      BY <2>9, <3>1 DEF Filled, Over
    <3> QED
      BY <1>l, <2>3, <3>2, <3>3 DEF Literal
  <2>10. LiteralsHeld'
    <3> SUFFICES ASSUME NEW d \in DOMAIN placed', StmtAt(d)'.op \in TextOps \cup DataOps,
                        StmtAt(d)'.name = NoName,
                        NEW b \in placed'[d].at..(placed'[d].at + placed'[d].len - 1)
                 PROVE  Literal(d, b)'
      BY DEF LiteralsHeld, Stored
    <3>1. CASE d \in DOMAIN placed
      BY <1>l, <2>2, <2>8, <3>1
    <3>2. CASE d = c
      BY <1>l, <2>3, <2>9, <3>2
    <3> QED
      BY <2>2, <3>1, <3>2
  <2> QED
    BY <2>1, <2>7, <2>10
<1> QED
  BY <1>1, <1>4 DEF Stores

(* A symbol that has an address keeps one, and a definition gives one.      *)
LEMMA EmitKnown ==
  ASSUME AssemblerInv, ForgetInv, EmitOne, node.op = "const" => node.n # 0
  PROVE  /\ \A n \in Names : table[n] # 0 => table'[n] = table[n]
         /\ \A x \in Entry : addr[x] # 0 => addr'[x] # 0
         /\ node.op \in Definitions =>
              table'[node.name] # 0 /\ addr'[<<node.name, table'[node.name]>>] # 0
<1> USE AssemblerAssumption
<1>p. TypeOK /\ NodesNamed /\ \A seg \in Segments : pc[seg] # 0
  BY DEF AssemblerInv, ForgetInv
<1>0. phase = "emit" /\ i <= Len(ast) /\ Effect
  BY <1>p, EmitEffect
<1>n. /\ file \in 1..MaxFiles /\ node.n \in Nat
      /\ node.op \in Definitions \cup {"globl"} => node.name \in Names
  BY <1>p, <1>0, NodeType
<1>c. Cur \in Segments /\ pc[Cur] \in Nat /\ pc[Cur] # 0
  BY <1>p, SegmentTypes DEF Cur
<1>a. addr \in [Entry -> Nat] /\ table \in [Names -> 0..MaxFiles]
  BY <1>p DEF TypeOK
<1> HIDE DEF node, file
<1>1. ASSUME NEW n \in Names, lookup_label(n)
      PROVE  /\ \A m \in Names : table[m] # 0 => table'[m] = table[m]
             /\ EntryOf(n) \in Entry /\ EntryOf(n) = <<n, table'[n]>> /\ table'[n] # 0
  BY <1>1, <1>a, <1>n DEF lookup_label, EntryOf, Entry
<1>2. ASSUME NEW known \in [Entry -> Nat], NEW e \in Entry, NEW v, NEW g, v # 0, Defines(e, v, g, known)
      PROVE  addr'[e] # 0 /\ \A x \in Entry : known[x] # 0 => addr'[x] # 0
  BY <1>2 DEF Defines
<1>3. ASSUME NEW known, NEW seg, NEW at, Moved(known, seg, at)
      PROVE  at # 0 /\ known \in [Entry -> Nat] /\ \A x \in Entry : addr[x] # 0 => known[x] # 0
  BY <1>3 DEF Moved
<1>4. CASE Quiet
  BY <1>4 DEF Quiet, Segments, Definitions, LabelOps
<1>5. CASE Globl
  BY <1>1, <1>5, <1>n DEF Globl, Definitions, LabelOps
<1>6. CASE Labels
  <2>1. PICK n \in Names : n = node.name /\ lookup_label(n)
    BY <1>6, <1>n DEF Labels, Definitions
  <2>2. PICK v : v = IF node.op = "const" THEN node.n ELSE pc[Cur]
    OBVIOUS
  <2>3. v # 0 /\ Defines(EntryOf(n), v, global_flag[EntryOf(n)], addr)
    BY <1>6, <1>c, <2>1, <2>2 DEF Labels
  <2>4. addr'[EntryOf(n)] # 0 /\ \A x \in Entry : addr[x] # 0 => addr'[x] # 0
    BY <1>1, <1>2, <1>a, <2>1, <2>3
  <2> QED
    BY <1>1, <2>1, <2>4
<1>7. ASSUME NEW seg \in Segments, NEW at \in Nat, ItemAt(seg, at)
      PROVE  /\ table' = table /\ \A x \in Entry : addr[x] # 0 => addr'[x] # 0
             /\ node.op \notin Definitions
  BY <1>3, <1>7 DEF ItemAt, Definitions, LabelOps, TextOps, DataOps
<1>8. ASSUME NEW known \in [Entry -> Nat], NEW at \in Nat, AllocAt(known, at)
      PROVE  /\ \A m \in Names : table[m] # 0 => table'[m] = table[m]
             /\ \A x \in Entry : addr[x] # 0 => addr'[x] # 0
             /\ table'[node.name] # 0 /\ addr'[<<node.name, table'[node.name]>>] # 0
  <2>1. PICK n \in Names : n = node.name /\ lookup_label(n)
    BY <1>8, <1>n DEF AllocAt, Definitions
  <2>2. PICK g : g = (node.op = "extern" \/ global_flag[EntryOf(n)])
    OBVIOUS
  <2>3. Moved(known, DataSeg, at) /\ Defines(EntryOf(n), at, g, known)
    BY <1>8, <2>1, <2>2 DEF AllocAt
  <2>4. at # 0 /\ \A x \in Entry : addr[x] # 0 => known[x] # 0
    BY <1>3, <2>3
  <2>5. addr'[EntryOf(n)] # 0 /\ \A x \in Entry : known[x] # 0 => addr'[x] # 0
    BY <1>1, <1>2, <2>1, <2>3, <2>4
  <2> QED
    BY <1>1, <2>1, <2>4, <2>5
<1> QED
  BY <1>0, <1>4, <1>5, <1>6, <1>7, <1>8 DEF Effect

LEMMA DefinedEmit ==
  ASSUME AssemblerInv, SourceInv, ForgetInv, ErrorNodes, DefinedSoFar, LiteralsClean, EmitOne
  PROVE  DefinedSoFar'
<1> USE AssemblerAssumption
<1>p. TypeOK /\ NodesNamed /\ \A seg \in Segments : pc[seg] # 0
  BY DEF AssemblerInv, ForgetInv
<1>0. phase = "emit" /\ i <= Len(ast) /\ phase' = "resolve" /\ UNCHANGED <<i, loads>>
  BY <1>p, EmitEffect
<1>1. AllLines' = AllLines /\ file' = file /\ \A d : StmtAt(d)' = StmtAt(d)
  BY <1>0, SameSource DEF file
<1>2. i \in 1..Len(loads[file]) /\ loads[file] \in Files
  BY <1>0 DEF AssemblerInv, TypeOK, SourceInv, file
<1>i. i \in 1..Len(ast)
  BY <1>0 DEF AssemblerInv, TypeOK
<1>3. StmtAt(<<file, i>>) = loads[file][i]
  BY DEF StmtAt
<1>4. node.op \in Definitions => node = StmtAt(<<file, i>>)
  BY <1>0, NodeLine
<1>5. node.op = "const" => node.n # 0
  BY <1>2, <1>3, <1>4 DEF LiteralsClean, Definitions, LabelOps
<1> HIDE DEF node
<1>6. /\ \A n \in Names : table[n] # 0 => table'[n] = table[n]
      /\ \A x \in Entry : addr[x] # 0 => addr'[x] # 0
      /\ node.op \in Definitions =>
           table'[node.name] # 0 /\ addr'[<<node.name, table'[node.name]>>] # 0
  BY <1>5, EmitKnown
<1>7. ASSUME NEW d \in AllLines, d[1] = file, Emitted(d)', StmtAt(d).op \in Definitions
      PROVE  table'[StmtAt(d).name] # 0 /\ addr'[<<StmtAt(d).name, table'[StmtAt(d).name]>>] # 0
  <2>1. Emitted(d) \/ d = <<file, i>>
    BY <1>0, <1>7, EmittedNow
  <2>2. CASE Emitted(d)
    <3>1. PICK n \in Names : n = StmtAt(d).name
      <4>1. d[2] \in 1..Len(loads[file]) /\ StmtAt(d) = loads[file][d[2]]
        BY <1>7, InSource DEF StmtAt
      <4> QED
        BY <1>2, <1>7, <4>1
    <3>2. table[n] # 0 /\ addr[<<n, table[n]>>] # 0
      BY <1>0, <1>7, <2>2, <3>1 DEF DefinedSoFar
    <3>3. <<n, table[n]>> \in Entry
      BY <1>p, <3>2 DEF TypeOK, Entry
    <3> QED
      BY <1>6, <3>1, <3>2, <3>3
  <2>3. CASE d = <<file, i>>
    <3>1. node.op # "error" => node.op = StmtAt(d).op
      BY <1>0, <2>3, NodeLine
    <3>2. node.op # "error"
      BY <1>0, <1>2, <1>3, <1>7, <1>i, <2>3 DEF ErrorNodes, node, Definitions, LabelOps
    <3> QED
      BY <1>4, <1>6, <1>7, <2>3, <3>1, <3>2
  <2> QED
    BY <2>1, <2>2, <2>3
<1> QED
  BY <1>0, <1>1, <1>7 DEF DefinedSoFar

(* A byte that names a symbol finds it defined.                             *)
LEMMA ByteKnown ==
  ASSUME AssemblerInv, SourceInv, DefinedSoFar, NodesRead, LiteralsClean,
         phase = "emit", i <= Len(ast), node.op = "byte", node.name # NoName
  PROVE  addr[EntryOf(node.name)] # 0
<1>1. /\ i \in 1..Len(ast) /\ Len(ast) = Len(loads[file]) /\ file \in 1..Len(loads)
      /\ i \in 1..Len(loads[file]) /\ Len(loads[file]) \in Nat
  BY DEF AssemblerInv, TypeOK, SourceInv, file
<1>2. loads[file] \in Files
  BY <1>1 DEF SourceInv
<1>3. node.op = loads[file][i].op /\ node.name = loads[file][i].name
  BY <1>1 DEF SourceInv, NodesRead, node, TextOps, DataOps
<1>4. PICK j \in 1..(i - 1) : loads[file][j].op \in Definitions /\ loads[file][j].name = node.name
  BY <1>1, <1>2, <1>3 DEF LiteralsClean
<1>5. PICK d : d = <<file, j>>
  OBVIOUS
<1>6. d[1] = file /\ d[2] = j /\ d[2] < i /\ StmtAt(d) = loads[file][j]
  BY <1>1, <1>5 DEF StmtAt
<1>7. d \in AllLines /\ Emitted(d)
  <2>1. d = <<d[1], d[2]>> /\ d[2] \in 1..Len(loads[d[1]])
    BY <1>1, <1>5, <1>6
  <2> QED
    BY <1>1, <1>6, <2>1, InSource DEF Emitted
<1>8. table[node.name] # 0 /\ addr[<<node.name, table[node.name]>>] # 0
  BY <1>4, <1>6, <1>7 DEF DefinedSoFar
<1> QED
  BY <1>8 DEF EntryOf

LEMMA ImageEmit ==
  ASSUME AssemblerInv, AssemblerInv', SourceInv, ForgetInv, SegmentsFit, SegmentsFit', ImageInv,
         LiteralsClean, EmitOne
  PROVE  ImageInv'
<1>p. TypeOK /\ NodesNamed /\ \A seg \in Segments : pc[seg] # 0
  BY DEF AssemblerInv, ForgetInv
<1>0. /\ phase = "emit" /\ i <= Len(ast) /\ phase' = "resolve" /\ UNCHANGED <<i, loads, ast>>
      /\ Effect
  BY <1>p, EmitEffect
<1>1. AllLines' = AllLines /\ file' = file /\ \A d : StmtAt(d)' = StmtAt(d)
  BY <1>0, SameSource DEF file
<1>2. Stores
  <2>1. node.op = "byte" /\ node.name # NoName => addr[EntryOf(node.name)] # 0
    BY <1>0, ByteKnown DEF ImageInv
  <2> QED
    BY <2>1, EmitStores
<1>3. ItemsApart' /\ UsesInside' /\ LiteralsHeld'
  BY <1>0, <1>2, ImageStores
<1>4. DefinedSoFar'
  BY DefinedEmit DEF ImageInv
<1>5. NodesRead' /\ ErrorNodes'
  BY <1>0, <1>1 DEF ImageInv, NodesRead, ErrorNodes
<1>6. PlacedEmitted'
  <2>1. \A d \in AllLines : Emitted(d) \/ d = <<file, i>> => Emitted(d)'
    BY <1>0, EmittedNow
  <2>2. ASSUME NEW d \in DOMAIN placed
        PROVE  d \in AllLines' /\ Emitted(d)' /\ StmtAt(d)'.op \notin LabelOps \cup {"globl"}
    BY <1>1, <2>1 DEF ImageInv, PlacedEmitted
  <2>3. CASE placed' = placed
    BY <2>2, <2>3 DEF PlacedEmitted
  <2>4. ASSUME NEW seg, NEW at, PutAt(seg, at), node.op \in Items \cup {"align"}
        PROVE  PlacedEmitted'
    <3>1. PICK c : c = <<file, i>>
      OBVIOUS
    <3>2. c \in AllLines /\ (node.op # "error" => node.op = StmtAt(c).op)
      BY <1>0, <3>1, NodeLine
    <3>3. StmtAt(c).op \notin LabelOps \cup {"globl"}
      BY <2>4, <3>2 DEF Items, TextOps, DataOps, LabelOps
    <3>4. DOMAIN placed' = DOMAIN placed \cup {c}
      BY <2>4, <3>1 DEF PutAt
    <3>5. c \in AllLines' /\ Emitted(c)' /\ StmtAt(c)'.op \notin LabelOps \cup {"globl"}
      BY <1>1, <2>1, <3>1, <3>2, <3>3
    <3> QED
      BY <2>2, <3>4, <3>5 DEF PlacedEmitted
  <2>5. CASE Quiet \/ Globl \/ Labels
    BY <2>3, <2>5 DEF Quiet, Globl, Labels
  <2>6. ASSUME NEW seg, NEW at, ItemAt(seg, at) PROVE PlacedEmitted'
    BY <2>4, <2>6 DEF ItemAt, Items
  <2>7. ASSUME NEW known, NEW at, AllocAt(known, at) PROVE PlacedEmitted'
    BY <2>4, <2>7 DEF AllocAt, Items
  <2> QED
    BY <1>0, <2>5, <2>6, <2>7 DEF Effect
<1> QED
  BY <1>3, <1>4, <1>5, <1>6 DEF ImageInv

(* Patching a use leaves the literals.                                      *)
LEMMA ImageResolve ==
  ASSUME AssemblerInv, ItemsApart, UsesInside, LiteralsHeld, UNCHANGED <<loads, placed>>, ResolveOne
  PROVE  UsesInside' /\ LiteralsHeld'
<1> USE AssemblerAssumption
<1>t. TypeOK
  BY DEF AssemblerInv
<1>l. \A d : StmtAt(d)' = StmtAt(d)
  BY SameSource
<1>1. PICK e \in Entry : e = resolving /\ uses[e] # <<>>
  BY <1>t DEF ResolveOne, TypeOK
<1>2. PICK u \in Use : u = Head(uses[e])
  BY <1>1, <1>t DEF TypeOK
<1>3. /\ 1 \in 1..Len(uses[e]) /\ uses[e][1] = u /\ u.at \in Nat
      /\ \A k \in 1..Len(Tail(uses[e])) : k + 1 \in 1..Len(uses[e]) /\ Tail(uses[e])[k] = uses[e][k + 1]
  BY SMTT(30), <1>1, <1>2, <1>t DEF TypeOK, Use
<1>4. uses' = [uses EXCEPT ![e] = Tail(@)]
  BY <1>1 DEF ResolveOne
<1>5. UsesInside'
  <2> SUFFICES ASSUME NEW x \in Entry, NEW k \in 1..Len(uses'[x])
               PROVE  \E d \in DOMAIN placed : WordOf(uses'[x][k].at, d)
    BY <1>l, Zenon DEF UsesInside, WordOf
  <2>1. \E j \in 1..Len(uses[x]) : uses'[x][k] = uses[x][j]
    <3>1. CASE x = e
      BY <1>3, <1>4, <1>t, <3>1 DEF TypeOK
    <3>2. CASE x # e
      BY <1>4, <1>t, <3>2 DEF TypeOK
    <3> QED
      BY <3>1, <3>2
  <2> QED
    BY <2>1 DEF UsesInside
<1>6. PICK c \in DOMAIN placed : WordOf(u.at, c)
  BY <1>3 DEF UsesInside
<1>7. mem' = mem \/ \E v : mem' = Over(mem, Bytes(u.at, W, v))
  BY <1>1, <1>2 DEF ResolveOne
<1>8. ASSUME NEW d \in DOMAIN placed, StmtAt(d).op \in TextOps \cup DataOps, StmtAt(d).name = NoName,
             NEW b \in placed[d].at..(placed[d].at + placed[d].len - 1)
      PROVE  Literal(d, b)'
  <2>1. Literal(d, b)
    BY <1>8 DEF LiteralsHeld, Stored
  <2>2. PICK p \in Nat, q \in Nat : p = placed[d].at /\ q = placed[d].len
    BY DEF ItemsApart
  <2>3. PICK r \in Nat, t \in Nat : r = placed[c].at /\ t = placed[c].len
    BY DEF ItemsApart
  <2>4. c # d /\ r <= u.at /\ u.at + W <= r + t
    BY <1>6, <1>8, <2>3 DEF WordOf
  <2>5. p + q <= r \/ r + t <= p
    BY <2>2, <2>3, <2>4 DEF ItemsApart
  <2>6. b \in p..(p + q - 1)
    BY <1>8, <2>2
  <2>7. b \notin u.at..(u.at + W - 1)
    BY <1>3, <2>4, <2>5, <2>6
  <2>8. b \in DOMAIN mem' /\ mem'[b] = mem[b]
    <3>1. CASE mem' = mem
      BY <2>1, <3>1 DEF Literal
    <3>2. ASSUME NEW v, mem' = Over(mem, Bytes(u.at, W, v)) PROVE b \in DOMAIN mem' /\ mem'[b] = mem[b]
      <4>1. PICK f : f = Bytes(u.at, W, v)
        OBVIOUS
      <4>2. DOMAIN f = u.at..(u.at + W - 1)
        BY <4>1 DEF Bytes
      <4>3. b \in DOMAIN mem /\ b \notin DOMAIN f /\ mem' = Over(mem, f)
        BY <2>1, <2>7, <3>2, <4>1, <4>2 DEF Literal
      <4> QED
        BY <4>3, OverOther
    <3> QED
      BY <1>7, <3>1, <3>2
  <2> QED
    BY <1>l, <2>1, <2>8 DEF Literal
<1> QED
  BY <1>5, <1>8, <1>l DEF LiteralsHeld, Stored

LEMMA ImageRest ==
  ASSUME AssemblerInv, SourceInv, ImageInv,
         \/ ResolveOne \/ ResolveDone \/ ClearNext \/ NextNode \/ EndEmit
         \/ FlushOne \/ FlushDone \/ UNCHANGED vars
  PROVE  ImageInv'
<1>1. /\ UNCHANGED <<loads, placed, pc, addr>>
      /\ ~ResolveOne => UNCHANGED <<mem, uses>>
      /\ phase' \in {"emit", "resolve"} =>
           phase \in {"emit", "resolve"} /\ UNCHANGED <<ast, table>>
  BY DEF ResolveOne, ResolveDone, ClearNext, NextNode, EndEmit, FlushOne, FlushDone, vars,
         entryVars, counterVars
<1>2. AllLines' = AllLines /\ file' = file /\ \A d : StmtAt(d)' = StmtAt(d)
  BY <1>1, SameSource DEF file
<1>3. \A d \in AllLines : Emitted(d)' <=> Emitted(d)
  BY EmittedSame
<1>4. ItemsApart'
  BY <1>1 DEF ImageInv, ItemsApart
<1>5. PlacedEmitted'
  BY <1>1, <1>2, <1>3 DEF ImageInv, PlacedEmitted
<1>6. NodesRead' /\ ErrorNodes'
  BY <1>1, <1>2 DEF ImageInv, NodesRead, ErrorNodes
<1>7. DefinedSoFar'
  <2>1. CASE phase' \in {"emit", "resolve"}
    BY <1>1, <1>2, <1>3, <2>1 DEF ImageInv, DefinedSoFar
  <2> QED
    BY <2>1 DEF DefinedSoFar
<1>8. UsesInside' /\ LiteralsHeld'
  <2>1. CASE ResolveOne
    BY <1>1, <2>1, ImageResolve DEF ImageInv
  <2>2. CASE ~ResolveOne
    BY <1>1, <1>2, <2>2 DEF ImageInv, UsesInside, LiteralsHeld, WordOf, Literal, Stored
  <2> QED
    BY <2>1, <2>2
<1> QED
  BY <1>4, <1>5, <1>6, <1>7, <1>8 DEF ImageInv

LEMMA NodeReads ==
  ASSUME NEW s \in Stmt, NEW seg, Node(s, seg).op \in TextOps \cup DataOps
  PROVE  /\ s.name = NoName => Node(s, seg) = s
         /\ Node(s, seg).name # NoName => Node(s, seg).name = s.name
<1>1. CASE s.op = "space" /\ ~IsData(seg)
  BY <1>1 DEF Node, Stmt, TextOps, DataOps
<1>2. CASE s.op = "space" /\ IsData(seg)
  BY <1>2 DEF Node, Stmt, TextOps, DataOps
<1>3. CASE s.op # "space" /\ s.op \in DataOps /\ AddressNow(s.name) # 0
  <2>1. Node(s, seg) = [s EXCEPT !.name = NoName, !.n = @ + AddressNow(s.name)]
    BY <1>3 DEF Node
  <2>2. Node(s, seg).name = NoName
    BY <2>1 DEF Stmt
  <2>3. s.name # NoName
    BY <1>3 DEF AddressNow
  <2> QED
    BY <2>2, <2>3
<1>4. CASE s.op # "space" /\ ~(s.op \in DataOps /\ AddressNow(s.name) # 0)
  BY <1>4 DEF Node
<1> QED
  BY <1>1, <1>2, <1>3, <1>4

LEMMA AlignedCounters ==
  ASSUME TypeOK, NEW f, Parse(f)
  PROVE  \A seg \in Segments : pc[seg] <= pc'[seg]
<1>1. pc' = pc \/ pc' = [pc EXCEPT ![DataSeg] = Aligned(pc[DataSeg])]
  BY DEF Parse
<1>2. DataSeg \in Segments /\ pc[DataSeg] \in Nat /\ Aligned(pc[DataSeg]) \in Nat
      /\ pc[DataSeg] <= Aligned(pc[DataSeg])
  BY SegmentTypes, AlignedNat, AlignedAbove
<1>3. pc \in [Segments -> Nat]
  BY DEF TypeOK
<1>4. CASE pc' = pc
  BY <1>3, <1>4
<1>5. PICK a \in Nat : a = Aligned(pc[DataSeg])
  BY <1>2
<1>6. CASE pc' = [pc EXCEPT ![DataSeg] = a]
  BY <1>2, <1>3, <1>5, <1>6
<1> QED
  BY <1>1, <1>4, <1>5, <1>6

LEMMA ImageParse ==
  ASSUME AssemblerInv, AssemblerInv', ImageInv, read_assembly_file
  PROVE  ImageInv'
<1> USE AssemblerAssumption
<1>1. PICK f \in Files : phase = "idle" /\ Parse(f)
  BY DEF read_assembly_file, Loadable
<1>2. /\ UNCHANGED <<placed, mem, uses>>
      /\ f \in Seq(Stmt) /\ loads' = Append(loads, f) /\ i' = 1 /\ phase' = "emit"
      /\ ast' = [k \in 1..Len(f) |-> Node(f[k], SegmentAt(f, k))]
  BY <1>1 DEF Parse, entryVars
<1>t. TypeOK /\ TypeOK'
  BY DEF AssemblerInv
<1>3. /\ Len(loads') = Len(loads) + 1 /\ loads'[Len(loads) + 1] = f
      /\ AllLines \subseteq AllLines' /\ \A d \in AllLines : StmtAt(d)' = StmtAt(d)
  BY <1>2, <1>t, MoreSource
<1>4. file' = Len(loads) + 1 /\ loads'[file'] = f /\ Len(loads) \in Nat
  BY <1>3, <1>t DEF file, TypeOK
<1>5. Len(f) \in Nat /\ Len(ast') = Len(f) /\ \A k \in 1..Len(f) : f[k] \in Stmt
  BY <1>2
<1>6. NodesRead' /\ ErrorNodes'
  <2>1. \A k \in 1..Len(f) : ast'[k] = Node(f[k], SegmentAt(f, k))
    BY <1>2
  <2>2. ASSUME NEW k \in 1..Len(f), ast'[k].op \in TextOps \cup DataOps
        PROVE  /\ f[k].name = NoName => ast'[k] = f[k]
               /\ ast'[k].name # NoName => ast'[k].name = f[k].name
    BY <1>5, <2>1, <2>2, NodeReads
  <2>3. ASSUME NEW s \in Stmt, NEW seg, Node(s, seg).op = "error" PROVE s.op \in {"space", "error"}
    BY <2>3 DEF Node, Stmt
  <2>4. ASSUME NEW k \in 1..Len(f), ast'[k].op = "error" PROVE f[k].op \in {"space", "error"}
    BY <1>5, <2>1, <2>3, <2>4
  <2> QED
    BY <1>4, <1>5, <2>2, <2>4 DEF NodesRead, ErrorNodes
<1>7. \A d \in DOMAIN placed : d \in AllLines /\ StmtAt(d)' = StmtAt(d)
  BY <1>3 DEF ImageInv, PlacedEmitted
<1>8. PlacedEmitted'
  <2>1. \A d \in AllLines : Emitted(d)'
    BY <1>4, InSource DEF Emitted
  <2> QED
    BY <1>2, <1>3, <1>7, <2>1 DEF ImageInv, PlacedEmitted
<1>9. DefinedSoFar'
  <2>1. ASSUME NEW d \in AllLines', d[1] = file', Emitted(d)' PROVE FALSE
    <3>1. d[2] \in Nat \ {0} /\ d[1] \in Nat
      BY DEF AllLines, Lines
    <3>2. d[1] < file' \/ d[2] < 1
      BY <1>2, <2>1 DEF Emitted
    <3> QED
      BY <2>1, <3>1, <3>2
  <2> QED
    BY <2>1 DEF DefinedSoFar
<1>10. ItemsApart'
  <2>1. \A seg \in Segments : pc[seg] <= pc'[seg] /\ pc[seg] \in Nat /\ pc'[seg] \in Nat
    BY <1>1, <1>t, AlignedCounters DEF TypeOK
  <2>2. ASSUME NEW d \in DOMAIN placed
        PROVE  placed[d].at + placed[d].len <= pc'[placed[d].seg]
    <3>1. PICK s \in Segments, p \in Nat, q \in Nat :
            s = placed[d].seg /\ p = placed[d].at /\ q = placed[d].len /\ p + q <= pc[s]
      BY DEF ImageInv, ItemsApart
    <3>2. p + q <= pc'[s]
      BY <2>1, <3>1
    <3> QED
      BY <3>1, <3>2
  <2> QED
    BY <1>2, <2>2 DEF ImageInv, ItemsApart
<1>11. UsesInside'
  BY <1>2, <1>7 DEF ImageInv, UsesInside, WordOf
<1>12. LiteralsHeld'
  BY <1>2, <1>7 DEF ImageInv, LiteralsHeld, Literal, Stored
<1> QED
  BY <1>6, <1>8, <1>9, <1>10, <1>11, <1>12 DEF ImageInv

LEMMA InitImage == Init => ImageInv
<1> SUFFICES ASSUME Init PROVE ImageInv
  OBVIOUS
<1>1. /\ loads = <<>> /\ placed = <<>> /\ phase = "idle" /\ uses = [e \in Entry |-> <<>>]
  BY DEF Init
<1>2. DOMAIN placed = {}
  BY <1>1
<1>3. UsesInside
  BY <1>1 DEF UsesInside
<1> QED
  BY <1>1, <1>2, <1>3 DEF ImageInv, PlacedEmitted, ItemsApart, LiteralsHeld, Stored, DefinedSoFar,
                          NodesRead, ErrorNodes

LEMMA StepImage ==
  ASSUME AssemblerInv, AssemblerInv', SourceInv, ForgetInv, SegmentsFit, SegmentsFit', ImageInv,
         LiteralsClean, [Next]_vars
  PROVE  ImageInv'
BY ImageEmit, ImageRest, ImageParse DEF Next, Loading

\* A literal is in memory as it was written, whatever is emitted and patched
\* around it later (store_word, store_byte, resolve_a_label_sub), for files in
\* which a byte names only what is defined before it, as long as no segment
\* grows into another one.  Items do not overlap, and a use that waits to be
\* patched is a word of an item that names a symbol.
THEOREM LiteralsStay == ASSUME LiteralsClean PROVE Spec /\ []SegmentsFit => []LiteralsKept
<1>1. Init => ImageInv
  BY InitImage
<1>2. AssemblerInv /\ AssemblerInv' /\ SourceInv /\ ForgetInv /\ ImageInv /\ SegmentsFit /\ SegmentsFit'
        /\ [Next]_vars => ImageInv'
  BY StepImage
<1>3. Init => SourceInv /\ ForgetInv
  BY InitForget
<1>4. AssemblerInv /\ SourceInv /\ ForgetInv /\ [Next]_vars => (SourceInv /\ ForgetInv)'
  BY StepSource, StepForget
<1>5. ImageInv => LiteralsKept
  BY DEF ImageInv, LiteralsHeld, Literal, LiteralsKept, Holds
<1> QED
  BY <1>1, <1>2, <1>3, <1>4, <1>5, AssemblerInvariant, PTL DEF Spec

-----------------------------------------------------------------------------
(* References hold what their symbols stand for.                            *)

\* The file of the line d is being emitted.
Current(d) == d[1] = file /\ phase \in {"emit", "resolve"}

\* All files share one entry for n: nothing has defined it, or its definition is
\* global and comes before all others.
Shared(n) == Undefined(n) \/ \E d \in AllLines : First(n, d)

\* What the item d refers to is the entry that the table has for its name.
Live(d) == Current(d) \/ Shared(StmtAt(d).name)

\* The use u is a word of the item d that can be patched, and becomes what the
\* source says when it is.
UseOf(u, d) ==
  /\ WordOf(u.at, d) /\ d \in Stored
  /\ u.at % W = 0 /\ u.at \in {placed[d].at, placed[d].at + W}
  /\ IF u.op = "data" THEN StmtAt(d).n = 0 ELSE u.off = StmtAt(d).n
  /\ u.op # "data" => ~InSegment(u.at, "kdata")

\* Every use that waits is one of an item that names the symbol.  Between files
\* no definition in the file of the item is left for it.
UsesRight ==
  \A e \in Entry : \A k \in 1..Len(uses[e]) :
    \E d \in DOMAIN placed :
      /\ UseOf(uses[e][k], d) /\ StmtAt(d).name = e[1]
      /\ Live(d) => table[e[1]] = e[2]
      /\ ~Current(d) => \A v \in Defs(e[1]) : v[1] # d[1]

\* The byte at b is to be patched when the entry e is defined, or it is the byte
\* of what d makes of e; then e does not move any more.
Waits(b, e) == WaitsIn(uses[e], b)

Fixed(e) == addr[e] # 0 /\ (OnLine(e) => phase = "resolve" /\ EndsLine)

Reads(b, d, v) == b \in DOMAIN mem /\ mem[b] = <<v + StmtAt(d).n, (b - placed[d].at) % W>>

Refers(d, e) ==
  \A b \in placed[d].at..(placed[d].at + placed[d].len - 1) :
    Waits(b, e) \/ (Fixed(e) /\ Reads(b, d, addr[e]))

ReferencesHeld ==
  \A d \in Stored : StmtAt(d).name # NoName /\ Live(d) =>
    \E e \in Entry : e[1] = StmtAt(d).name /\ table[e[1]] = e[2] /\ Refers(d, e)

\* A reference to a definition of its own file, once the file is loaded.
PastRight ==
  \A d \in Stored : StmtAt(d).name # NoName /\ ~Current(d) =>
    \A v \in Defs(StmtAt(d).name) : v[1] = d[1] /\ HasMeaning(v) =>
      \A b \in placed[d].at..(placed[d].at + placed[d].len - 1) : Reads(b, d, Meaning(v))

\* The definitions that the file has made so far stand where they should.
DefsRight ==
  \A n \in Names : \A v \in Defs(n) : Current(v) /\ Emitted(v) =>
    Standing(n, v)

\* What is defined has been defined by the file or by a global definition.
Origins ==
  phase \in {"emit", "resolve"} =>
    \A n \in Names : table[n] # 0 /\ addr[<<n, table[n]>>] # 0 =>
      \E c \in Named(n) : Emitted(c) /\ (c[1] = file \/ IsGlobal(c))

\* The nodes that refer to a symbol keep its name, or hold its value.
NodesRefer ==
  phase \in {"emit", "resolve"} =>
    \A k \in 1..Len(ast) :
      LET s == loads[file][k]
          e == <<s.name, table[s.name]>>
      IN  ast[k].op \in TextOps \cup DataOps /\ s.name # NoName =>
            /\ table[s.name] # 0
            /\ \/ ast[k] = s
               \/ /\ ast[k].op \in DataOps /\ ast[k].name = NoName
                  /\ ast[k].n = s.n + addr[e] /\ addr[e] # 0 /\ ~OnLine(e)

\* Text is whole words; data is aligned until .align 0 says otherwise.
WordsWhole ==
  /\ pc["text"] % W = 0 /\ pc["ktext"] % W = 0
  /\ phase = "idle" => enable_data_auto_alignment
  /\ phase \in {"emit", "resolve"} =>
       \/ enable_data_auto_alignment
       \/ \E d \in AllLines : d[1] = file /\ Emitted(d) /\ StmtAt(d).op = "align0"

ResolvesKnown == resolving # NoEntry => Fixed(resolving)

RefInv ==
  /\ WordsWhole
  /\ ~errors => /\ UsesRight /\ ReferencesHeld /\ PastRight
                /\ DefsRight /\ Origins /\ NodesRefer /\ ResolvesKnown


-----------------------------------------------------------------------------
(* What the source says stays the same, and who shares an entry.            *)

LEMMA SameDefs ==
  ASSUME loads' = loads
  PROVE  /\ \A n : Defs(n)' = Defs(n)
         /\ \A n, d : First(n, d)' <=> First(n, d)
<1>1. /\ \A n : Named(n)' = Named(n) /\ \A d : IsGlobal(d)' <=> IsGlobal(d)
      /\ \A d : StmtAt(d)' = StmtAt(d)
  BY SameSource
<1>2. \A n : Defs(n)' = Defs(n)
  BY <1>1 DEF Defs
<1>3. \A n, d : First(n, d)' <=> First(n, d)
  BY <1>1 DEF First
<1> QED
  BY <1>2, <1>3

LEMMA SharedBefore ==
  ASSUME loads' = loads, \A d \in AllLines : Emitted(d) => Emitted(d)', NEW n, Shared(n)'
  PROVE  Shared(n)
<1>1. Named(n)' = Named(n) /\ AllLines' = AllLines /\ \A d : First(n, d)' <=> First(n, d)
  BY SameSource, SameDefs
<1>2. Named(n) \subseteq AllLines
  BY DEF Named
<1>3. CASE Undefined(n)'
  BY <1>1, <1>2, <1>3 DEF Undefined, Shared
<1>4. CASE \E d \in AllLines' : First(n, d)'
  BY <1>1, <1>4 DEF Shared
<1> QED
  BY <1>3, <1>4 DEF Shared

LEMMA LiveBefore ==
  ASSUME loads' = loads, \A d \in AllLines : Emitted(d) => Emitted(d)',
         phase' \in {"emit", "resolve"} => phase \in {"emit", "resolve"}, NEW d, Live(d)'
  PROVE  Live(d) /\ (Current(d)' => Current(d))
<1>1. Current(d)' => Current(d)
  BY DEF Current, file
<1>2. StmtAt(d)' = StmtAt(d)
  BY SameSource
<1>3. CASE Shared(StmtAt(d).name)'
  <2>1. PICK n : n = StmtAt(d).name /\ n = StmtAt(d)'.name
    BY <1>2
  <2>2. Shared(n)'
    BY <1>3, <2>1
  <2>3. Shared(n)
    BY <2>2, SharedBefore
  <2> QED
    BY <1>1, <2>1, <2>3 DEF Live
<1> QED
  BY <1>1, <1>3 DEF Live

(* The entry that files share is not on the list of local labels.           *)
LEMMA SharedAvoids ==
  ASSUME AssemblerInv, KeptInv, ~errors, NEW n \in Names, Shared(n)
  PROVE  Avoids(n, ListHead)
<1>1. CASE Undefined(n)
  BY <1>1 DEF KeptInv, Awaited
<1>2. ASSUME NEW d \in AllLines, First(n, d) PROVE Avoids(n, ListHead)
  <2>1. CASE Emitted(d)
    BY <1>2, <2>1 DEF KeptInv, Found
  <2>2. CASE ~Emitted(d)
    <3>1. ASSUME NEW c \in Named(n) PROVE ~Emitted(c)
      <4>1. CASE c = d
        BY <2>2, <4>1
      <4>2. CASE c # d
        <5>1. d[1] < c[1] \/ (d[1] = c[1] /\ d[2] < c[2])
          BY <1>2, <3>1, <4>2 DEF First
        <5>2. /\ c[1] \in 1..file /\ d[1] \in 1..file /\ c[2] \in Nat /\ d[2] \in Nat
              /\ i \in Nat /\ file \in Nat
          <6>1. c \in AllLines
            BY <3>1, NamedLine
          <6>2. c[1] \in 1..file /\ d[1] \in 1..file /\ c[2] \in Nat /\ d[2] \in Nat
            BY <6>1, InSource DEF file
          <6>3. i \in Nat /\ file \in Nat
            BY DEF file, AssemblerInv, TypeOK
          <6> QED
            BY <6>2, <6>3
        <5>3. d[1] = file /\ phase \notin {"flush", "idle"} /\ ~(d[2] < i)
          BY <2>2, <5>2 DEF Emitted
        <5>4. c[1] = file /\ i <= d[2] /\ d[2] < c[2]
          BY <5>1, <5>2, <5>3
        <5> QED
          BY <5>2, <5>3, <5>4 DEF Emitted
      <4> QED
        BY <4>1, <4>2
    <3> QED
      BY <1>1, <3>1 DEF Undefined
  <2> QED
    BY <2>1, <2>2
<1> QED
  BY <1>1, <1>2 DEF Shared

LEMMA SameMeaning ==
  ASSUME loads' = loads, NEW v,
         \A w \in {v, After(v)} : /\ w \in DOMAIN placed' <=> w \in DOMAIN placed
                                  /\ w \in DOMAIN placed => placed'[w] = placed[w],
         HasMeaning(v)'
  PROVE  HasMeaning(v) /\ Meaning(v)' = Meaning(v)
<1>1. StmtAt(v)' = StmtAt(v) /\ After(v)' = After(v) /\ SourceSeg(v)' = SourceSeg(v)
  BY SameSource
<1>2. CASE StmtAt(v).op = "const"
  BY <1>1, <1>2 DEF HasMeaning, Meaning
<1>3. CASE StmtAt(v).op = "label"
  BY <1>1, <1>3 DEF HasMeaning, Meaning
<1>4. CASE StmtAt(v).op \notin {"const", "label"}
  BY <1>1, <1>4 DEF HasMeaning, Meaning
<1> QED
  BY <1>2, <1>3, <1>4

LEMMA StandsMeaning ==
  ASSUME NEW n, NEW v \in Named(n), NEW e, Stands(e, v), HasMeaning(v)
  PROVE  addr[e] # 0 /\ addr[e] = Meaning(v)
<1>1. StmtAt(v).op \in {"const", "label", "comm", "extern"}
  BY DEF Named, Definitions, LabelOps
<1>2. CASE StmtAt(v).op = "const"
  BY <1>2 DEF Stands, Meaning
<1>3. CASE StmtAt(v).op = "label"
  BY <1>3 DEF Stands, HasMeaning, Meaning
<1>4. CASE StmtAt(v).op \in {"comm", "extern"}
  BY <1>4 DEF Stands, HasMeaning, Meaning
<1> QED
  BY <1>1, <1>2, <1>3, <1>4

(* An item is a line of the source.                                         *)
LEMMA StoredLine ==
  ASSUME SourceInv, PlacedEmitted, ItemsApart, NEW d \in Stored
  PROVE  /\ d \in AllLines /\ Emitted(d) /\ d \in DOMAIN placed
         /\ StmtAt(d).name \in Names \cup {NoName} /\ StmtAt(d).n \in Nat
         /\ StmtAt(d).op \in TextOps \cup DataOps
         /\ placed[d].at \in Nat /\ placed[d].len \in Nat
<1>1. d \in AllLines /\ Emitted(d) /\ d \in DOMAIN placed /\ StmtAt(d).op \in TextOps \cup DataOps
  BY DEF Stored, PlacedEmitted
<1>2. d[1] \in 1..Len(loads) /\ d[2] \in 1..Len(loads[d[1]])
  BY <1>1, InSource
<1>3. loads[d[1]] \in Seq(Stmt)
  BY <1>2, AssemblerAssumption DEF SourceInv
<1>4. StmtAt(d) \in Stmt
  BY <1>2, <1>3 DEF StmtAt
<1>5. placed[d].at \in Nat /\ placed[d].len \in Nat
  BY <1>1 DEF ItemsApart
<1> QED
  BY <1>1, <1>4, <1>5 DEF Stmt

-----------------------------------------------------------------------------
(* The steps that emit nothing.                                             *)

Rest ==
  \/ ResolveOne \/ ResolveDone \/ ClearNext \/ NextNode \/ EndEmit
  \/ FlushOne \/ FlushDone \/ UNCHANGED vars

\* The step ends the file.
Closes == phase \in {"emit", "resolve"} /\ phase' \notin {"emit", "resolve"}

LEMMA RestFrame ==
  ASSUME AssemblerInv, Rest
  PROVE  /\ UNCHANGED <<loads, placed, addr>> /\ (errors => errors')
         /\ ~ResolveOne => UNCHANGED <<mem, uses>>
         /\ phase' \in {"emit", "resolve"} => phase \in {"emit", "resolve"} /\ UNCHANGED <<ast, table>>
         /\ Closes => i > Len(ast) /\ this_line_labels = <<>> /\ resolving = NoEntry /\ ~ResolveOne
         /\ \A x : OnLine(x)' => OnLine(x)
         /\ \A x : Fixed(x) => Fixed(x)'
<1>t. TypeOK
  BY DEF AssemblerInv
<1>1. CASE ResolveOne
  BY <1>1 DEF ResolveOne, Closes, OnLine, Fixed, EndsLine, node, counterVars
<1>2. CASE ResolveDone
  BY <1>2 DEF ResolveDone, ResolveOne, Closes, OnLine, Fixed, EndsLine, node, entryVars, counterVars
<1>3. CASE ClearNext
  <2>1. /\ UNCHANGED <<loads, placed, addr, errors, mem, uses, ast, table, phase, i>>
        /\ phase = "resolve" /\ this_line_labels # <<>> /\ this_line_labels' = Tail(this_line_labels)
    BY <1>3 DEF ClearNext, entryVars, counterVars
  <2>2. ASSUME NEW x, OnLine(x)' PROVE OnLine(x)
    <3>1. PICK line \in Seq(Entry) : line = this_line_labels /\ line # <<>>
      BY <1>t, <2>1 DEF TypeOK
    <3>2. PICK k \in 1..Len(Tail(line)) : Tail(line)[k] = x
      BY <2>1, <2>2, <3>1 DEF OnLine
    <3>3. k + 1 \in 1..Len(line) /\ line[k + 1] = x
      BY <3>1, <3>2
    <3> QED
      BY <3>1, <3>3 DEF OnLine
  <2>3. EndsLine' <=> EndsLine
    BY <2>1 DEF EndsLine, node
  <2> QED
    BY <2>1, <2>2, <2>3 DEF Closes, Fixed
<1>4. CASE NextNode
  <2>1. /\ UNCHANGED <<loads, placed, addr, errors, mem, uses, ast, table, this_line_labels>>
        /\ phase = "resolve" /\ (EndsLine => this_line_labels = <<>>) /\ resolving = NoEntry
        /\ i > Len(ast) \/ phase' = "emit"
    BY <1>4 DEF NextNode, entryVars, counterVars
  <2>2. \A x : OnLine(x)' <=> OnLine(x)
    BY <2>1 DEF OnLine
  <2>3. i > Len(ast) => EndsLine
    BY DEF EndsLine
  <2>4. EndsLine => \A x : ~OnLine(x)
    BY <2>1 DEF OnLine
  <2>5. ~ResolveOne
    BY <2>1 DEF ResolveOne
  <2> QED
    BY <2>1, <2>2, <2>3, <2>4, <2>5 DEF Closes, Fixed
<1>5. CASE EndEmit
  BY <1>5 DEF EndEmit, Closes, OnLine, Fixed, entryVars, counterVars
<1>6. CASE FlushOne \/ FlushDone
  BY <1>6 DEF FlushOne, FlushDone, Closes, OnLine, Fixed, entryVars, counterVars
<1>7. CASE UNCHANGED vars
  BY <1>7 DEF vars, Closes, OnLine, Fixed, EndsLine, node, entryVars, counterVars
<1> QED
  BY <1>1, <1>2, <1>3, <1>4, <1>5, <1>6, <1>7 DEF Rest

(* The entry that an item refers to stays the one that the table has.       *)
LEMMA RestTable ==
  ASSUME AssemblerInv, SourceInv, KeptInv, Rest, ~errors, NEW d, StmtAt(d).name \in Names, Live(d)'
  PROVE  Live(d) /\ table'[StmtAt(d).name] = table[StmtAt(d).name]
<1>1. /\ loads' = loads
      /\ phase' \in {"emit", "resolve"} => phase \in {"emit", "resolve"} /\ table' = table
  BY RestFrame
<1>2. \A c \in AllLines : Emitted(c)' <=> Emitted(c)
  BY EmittedSame DEF Rest
<1>3. Live(d)
  BY <1>1, <1>2, LiveBefore
<1>4. CASE phase' \in {"emit", "resolve"}
  BY <1>1, <1>3, <1>4
<1>5. CASE phase' \notin {"emit", "resolve"}
  <2>1. PICK n \in Names : n = StmtAt(d).name /\ n = StmtAt(d)'.name
    BY <1>1, SameSource
  <2>2. Shared(n)'
    BY <1>5, <2>1 DEF Live, Current
  <2>3. Shared(n)
    BY <1>1, <1>2, <2>2, SharedBefore
  <2>4. Avoids(n, ListHead)
    BY <2>3, SharedAvoids
  <2>5. TablesStay
    BY KeptRest DEF Rest
  <2> QED
    BY <1>3, <2>1, <2>4, <2>5 DEF TablesStay
<1> QED
  BY <1>4, <1>5

(* Where the line is empty and nothing is being resolved, nothing waits for *)
(* what is defined.                                                         *)
LEMMA NothingWaits ==
  ASSUME AssemblerInv, this_line_labels = <<>>, resolving = NoEntry, NEW e \in Entry, addr[e] # 0
  PROVE  uses[e] = <<>> /\ \A b : ~Waits(b, e)
<1>1. ~OnLine(e) /\ e # NoEntry
  BY AssemblerAssumption DEF OnLine
<1>2. uses[e] = <<>>
  BY <1>1 DEF AssemblerInv, NoDanglingUse
<1> QED
  BY <1>2 DEF Waits, WaitsIn

(* A definition that the file has made is the one its name stands for when  *)
(* the file ends, and nothing waits for it.                                 *)
LEMMA ClosedDefs ==
  ASSUME AssemblerInv, SourceInv, DefsRight, Rest, Closes,
         NEW n \in Names, NEW v \in Defs(n), v[1] = file
  PROVE  /\ <<n, table[n]>> \in Entry /\ Stands(<<n, table[n]>>, v)
         /\ \A b : ~Waits(b, <<n, table[n]>>)
<1>1. i > Len(ast) /\ this_line_labels = <<>> /\ resolving = NoEntry
  BY RestFrame
<1>2. v \in Named(n)
  BY DEF Defs
<1>3. Emitted(v) /\ Current(v)
  <2>1. v[2] \in 1..Len(loads[file]) /\ Len(ast) = Len(loads[file]) /\ Len(ast) \in Nat /\ i \in Nat
    BY <1>2, NamedLine DEF Closes, SourceInv, AssemblerInv, TypeOK
  <2>2. v[2] < i
    BY <1>1, <2>1
  <2> QED
    BY <2>2 DEF Emitted, Current, Closes
<1>4. Standing(n, v)
  BY <1>3 DEF DefsRight
<1>5. PICK e : e = <<n, table[n]>>
  OBVIOUS
<1>6. e \in Entry /\ Stands(e, v)
  BY <1>4, <1>5 DEF Standing, AssemblerInv, TypeOK, Entry
<1>7. \A b : ~Waits(b, e)
  BY <1>1, <1>6, NothingWaits DEF Stands
<1> QED
  BY <1>5, <1>6, <1>7

\* The use u of the entry r, which is a word of the item c, has been patched.
Patched(r, u, c) ==
  /\ r \in Entry /\ Fixed(r) /\ UseOf(u, c) /\ StmtAt(c).name = r[1] /\ c \in Stored
  /\ u.at \in Nat /\ addr[r] \in Nat
  /\ Live(c) => table[r[1]] = r[2]
  /\ ~Current(c) => \A v \in Defs(r[1]) : v[1] # c[1]
  /\ \A b \in DOMAIN mem : b \notin u.at..(u.at + W - 1) => b \in DOMAIN mem' /\ mem'[b] = mem[b]
  /\ \A b \in u.at..(u.at + W - 1) :
       b \in DOMAIN mem' /\ mem'[b] = <<addr[r] + StmtAt(c).n, (b - placed[c].at) % W>>
  /\ \A x \in Entry : \A b :
       WaitsIn(uses[x], b) =>
         WaitsIn(uses'[x], b) \/ (x = r /\ u.at <= b /\ b < u.at + W)

LEMMA OneItem ==
  ASSUME ItemsApart, NEW c \in DOMAIN placed, NEW d \in DOMAIN placed,
         NEW b \in placed[c].at..(placed[c].at + placed[c].len - 1),
         b \in placed[d].at..(placed[d].at + placed[d].len - 1)
  PROVE  c = d
<1>1. PICK p \in Nat, q \in Nat, r \in Nat, s \in Nat :
        p = placed[c].at /\ q = placed[c].len /\ r = placed[d].at /\ s = placed[d].len
  BY DEF ItemsApart
<1>2. ~(p + q <= r) /\ ~(r + s <= p)
  BY <1>1
<1> QED
  BY <1>1, <1>2 DEF ItemsApart

(* A byte of a word that is patched.                                        *)
LEMMA WordByte ==
  ASSUME NEW a \in Nat, NEW p \in Nat, a \in {p, p + W}, NEW b \in a..(a + W - 1)
  PROVE  (b - p) % W = b - a
<1>1. W \in Nat \ {0} /\ b - a \in 0..(W - 1)
  BY AssemblerAssumption
<1>2. PICK x \in 0..(W - 1) : x = b - a
  BY <1>1
<1>3. x % W = x /\ (x + W) % W = x
  BY <1>2, WordParts
<1>4. b - p = x \/ b - p = x + W
  BY <1>1, <1>2
<1> QED
  BY <1>2, <1>3, <1>4

LEMMA PatchOne ==
  ASSUME AssemblerInv, SourceInv, PlacedEmitted, ItemsApart, UsesRight, ResolvesKnown, ResolveOne
  PROVE  \E r, u, c : Patched(r, u, c)
<1> USE AssemblerAssumption
<1>t. TypeOK
  BY DEF AssemblerInv
<1>1. PICK r \in Entry : r = resolving /\ uses[r] # <<>> /\ r # NoEntry
  BY <1>t DEF ResolveOne, TypeOK
<1>2. PICK us \in Seq(Use) : us = uses[r] /\ us # <<>>
  BY <1>1, <1>t DEF TypeOK
<1>3. PICK u \in Use : u = Head(us) /\ u = us[1] /\ 1 \in 1..Len(us)
  BY <1>2
<1>4. PICK c \in DOMAIN placed :
        /\ UseOf(u, c) /\ StmtAt(c).name = r[1]
        /\ Live(c) => table[r[1]] = r[2]
        /\ ~Current(c) => \A v \in Defs(r[1]) : v[1] # c[1]
  BY <1>2, <1>3 DEF UsesRight
<1>5. Fixed(r) /\ addr[r] # 0 /\ addr[r] \in Nat
  BY <1>1, <1>t DEF ResolvesKnown, Fixed, TypeOK
<1>6. c \in Stored /\ StmtAt(c).n \in Nat /\ placed[c].at \in Nat /\ u.at \in Nat /\ u.off \in Nat
  <2>1. c \in Stored
    BY <1>4 DEF UseOf
  <2> QED
    BY <2>1, StoredLine DEF Use
<1>7. u.at % W = 0 /\ u.at \in {placed[c].at, placed[c].at + W}
      /\ patched(r, u) = addr[r] + StmtAt(c).n /\ Reaches(u)
  BY <1>4, <1>5, <1>6 DEF UseOf, patched, Reaches
<1>8. PICK v : v = patched(r, u)
  OBVIOUS
<1>9. mem' = Over(mem, Bytes(u.at, W, v)) /\ uses' = [uses EXCEPT ![r] = Tail(us)]
  BY <1>1, <1>2, <1>3, <1>5, <1>7, <1>8 DEF ResolveOne
<1>10. PICK f : f = Bytes(u.at, W, v)
  OBVIOUS
<1>11. DOMAIN f = u.at..(u.at + W - 1) /\ \A b \in u.at..(u.at + W - 1) : f[b] = <<v, b - u.at>>
  BY <1>10 DEF Bytes
<1>12. mem' = Over(mem, f)
  BY <1>9, <1>10
<1>13. \A b \in DOMAIN mem : b \notin u.at..(u.at + W - 1) => b \in DOMAIN mem' /\ mem'[b] = mem[b]
  BY <1>11, <1>12, OverOther
<1>14. ASSUME NEW b \in u.at..(u.at + W - 1)
       PROVE  b \in DOMAIN mem' /\ mem'[b] = <<addr[r] + StmtAt(c).n, (b - placed[c].at) % W>>
  <2>1. b \in DOMAIN mem' /\ mem'[b] = <<v, b - u.at>>
    BY <1>11, <1>12, <1>14 DEF Over
  <2>2. (b - placed[c].at) % W = b - u.at
    BY <1>6, <1>7, <1>14, WordByte
  <2> QED
    BY <1>7, <1>8, <2>1, <2>2
<1>15. ASSUME NEW x \in Entry, NEW b, WaitsIn(uses[x], b)
       PROVE  WaitsIn(uses'[x], b) \/ (x = r /\ u.at <= b /\ b < u.at + W)
  <2>1. CASE x # r
    BY <1>9, <1>15, <1>t, <2>1 DEF TypeOK
  <2>2. CASE x = r
    <3>1. uses'[x] = Tail(us) /\ uses[x] = us
      BY <1>2, <1>9, <1>t, <2>2 DEF TypeOK
    <3>2. PICK k \in 1..Len(us) : us[k].at <= b /\ b < us[k].at + W
      BY <1>15, <3>1 DEF WaitsIn
    <3>3. CASE k = 1
      BY <1>3, <2>2, <3>2, <3>3
    <3>4. CASE k # 1
      <4>1. k - 1 \in 1..Len(Tail(us)) /\ Tail(us)[k - 1] = us[k]
        BY <1>2, <3>2, <3>4
      <4> QED
        BY <3>1, <3>2, <4>1 DEF WaitsIn
    <3> QED
      BY <3>3, <3>4
  <2> QED
    BY <2>1, <2>2
<1>16. Patched(r, u, c)
  BY <1>1, <1>4, <1>5, <1>6, <1>13, <1>14, <1>15 DEF Patched
<1> QED
  BY <1>16

LEMMA PatchLeaves ==
  ASSUME TypeOK, ResolveOne, NEW x \in Entry, NEW k \in 1..Len(uses'[x])
  PROVE  \E j \in 1..Len(uses[x]) : uses'[x][k] = uses[x][j]
<1>1. PICK r \in Entry, us \in Seq(Use) :
        us = uses[r] /\ us # <<>> /\ uses' = [uses EXCEPT ![r] = Tail(us)]
  BY AssemblerAssumption DEF ResolveOne, TypeOK
<1>2. CASE x # r
  BY <1>1, <1>2 DEF TypeOK
<1>3. CASE x = r
  <2>1. uses'[x] = Tail(us) /\ uses[x] = us
    BY <1>1, <1>3 DEF TypeOK
  <2>2. \A j \in 1..Len(Tail(us)) : j + 1 \in 1..Len(us) /\ Tail(us)[j] = us[j + 1]
    BY <1>1
  <2> QED
    BY <2>1, <2>2
<1> QED
  BY <1>2, <1>3

LEMMA RestUses ==
  ASSUME AssemblerInv, SourceInv, KeptInv, ImageInv, RefInv, Rest, ~errors
  PROVE  UsesRight'
<1>1. /\ UNCHANGED <<loads, placed, addr>> /\ (~ResolveOne => uses' = uses)
      /\ phase' \in {"emit", "resolve"} => phase \in {"emit", "resolve"}
  BY RestFrame
<1>2. UsesRight /\ DefsRight /\ TypeOK
  BY DEF RefInv, AssemblerInv
<1>3. /\ \A d : StmtAt(d)' = StmtAt(d) /\ \A n : Defs(n)' = Defs(n) /\ file' = file
  BY <1>1, SameSource, SameDefs DEF file
<1> SUFFICES ASSUME NEW e \in Entry, NEW k \in 1..Len(uses'[e])
             PROVE  \E d \in DOMAIN placed' :
                      /\ UseOf(uses[e][k], d)' /\ StmtAt(d)'.name = e[1]
                      /\ Live(d)' => table'[e[1]] = e[2]
                      /\ ~Current(d)' => \A v \in Defs(e[1])' : v[1] # d[1]
  BY Zenon DEF UsesRight
<1>4. PICK j \in 1..Len(uses[e]) : uses'[e][k] = uses[e][j]
  BY <1>1, <1>2, PatchLeaves
<1>5. PICK u : u = uses[e][j] /\ u = uses'[e][k]
  BY <1>4
<1>6. PICK d \in DOMAIN placed :
        /\ UseOf(u, d) /\ StmtAt(d).name = e[1]
        /\ Live(d) => table[e[1]] = e[2]
        /\ ~Current(d) => \A v \in Defs(e[1]) : v[1] # d[1]
  BY ZenonT(30), <1>2, <1>5 DEF UsesRight
<1>7. UseOf(uses[e][k], d)' /\ StmtAt(d)'.name = e[1]
  BY <1>1, <1>3, <1>5, <1>6 DEF UseOf, WordOf, Stored
<1>8. e[1] \in Names /\ e = <<e[1], e[2]>> /\ e[2] # 0
  BY EntryPair
<1>9. Live(d)' => table'[e[1]] = e[2]
  BY <1>6, <1>8, RestTable
<1>10. ASSUME ~Current(d)', NEW v \in Defs(e[1]), v[1] = d[1] PROVE FALSE
  <2>1. Current(d)
    BY <1>6, <1>10
  <2>2. Closes
    BY <1>3, <1>10, <2>1 DEF Current, Closes
  <2>3. PICK n \in Names : n = e[1]
    BY <1>8
  <2>4. v \in Defs(n) /\ v[1] = file /\ table[n] = e[2]
    BY <1>6, <1>10, <2>1, <2>3 DEF Current, Live
  <2>5. \A b : ~Waits(b, <<n, table[n]>>)
    BY <1>2, <2>2, <2>4, ClosedDefs
  <2>6. \A b : ~WaitsIn(uses[e], b)
    BY <1>8, <2>3, <2>4, <2>5 DEF Waits
  <2>7. PICK us \in Seq(Use) : us = uses[e]
    BY <1>2 DEF TypeOK
  <2>8. u \in Use /\ u = us[j] /\ j \in 1..Len(us)
    BY <1>4, <1>5, <2>7
  <2>9. u.at <= u.at /\ u.at < u.at + W
    BY <2>8, AssemblerAssumption DEF Use
  <2>10. WaitsIn(us, u.at)
    BY <2>8, <2>9 DEF WaitsIn
  <2> QED
    BY <2>6, <2>7, <2>10
<1> QED
  BY <1>1, <1>3, <1>6, <1>7, <1>9, <1>10

(* What an item holds survives a patch of another one, and is right after   *)
(* one of its own.                                                          *)
LEMMA RestReferences ==
  ASSUME AssemblerInv, SourceInv, KeptInv, ImageInv, RefInv, Rest, ~errors
  PROVE  ReferencesHeld'
<1>1. /\ UNCHANGED <<loads, placed, addr>> /\ (~ResolveOne => UNCHANGED <<mem, uses>>)
      /\ \A x : Fixed(x) => Fixed(x)'
  BY RestFrame
<1>2. /\ UsesRight /\ ReferencesHeld /\ ResolvesKnown /\ TypeOK /\ ItemsApart /\ PlacedEmitted
  BY DEF RefInv, AssemblerInv, ImageInv
<1>3. /\ \A d : StmtAt(d)' = StmtAt(d) /\ Stored' = Stored
  BY <1>1, SameSource DEF Stored
<1> SUFFICES ASSUME NEW d \in Stored, StmtAt(d).name # NoName, Live(d)'
             PROVE  \E e \in Entry : e[1] = StmtAt(d)'.name /\ table'[e[1]] = e[2] /\ Refers(d, e)'
  BY <1>3 DEF ReferencesHeld
<1>4. PICK n \in Names : n = StmtAt(d).name
  BY <1>2, StoredLine
<1>5. Live(d) /\ table'[n] = table[n]
  BY <1>4, RestTable
<1>7. PICK e \in Entry : e[1] = n /\ table[n] = e[2] /\ Refers(d, e)
  BY <1>2, <1>4, <1>5 DEF ReferencesHeld
<1>8. ASSUME NEW b \in placed[d].at..(placed[d].at + placed[d].len - 1)
      PROVE  WaitsIn(uses'[e], b) \/ (Fixed(e)' /\ Reads(b, d, addr[e])')
  <2>1. WaitsIn(uses[e], b) \/ (Fixed(e) /\ Reads(b, d, addr[e]))
    BY <1>7, <1>8 DEF Refers, Waits
  <2>2. CASE ~ResolveOne
    BY <1>1, <1>3, <2>1, <2>2 DEF Reads
  <2>3. CASE ResolveOne
    <3>1. PICK r, u, c : Patched(r, u, c)
      BY <1>2, <2>3, PatchOne
    <3>2. /\ r \in Entry /\ Fixed(r) /\ c \in DOMAIN placed /\ StmtAt(c).name = r[1] /\ u.at \in Nat
          /\ placed[c].at <= u.at /\ u.at + W <= placed[c].at + placed[c].len
      BY <3>1 DEF Patched, UseOf, WordOf, Stored
    <3>3. d \in DOMAIN placed /\ placed[c].at \in Nat /\ placed[c].len \in Nat
      BY <1>2, <3>2, StoredLine DEF ItemsApart
    <3>4. CASE u.at <= b /\ b < u.at + W
      <4>1. b \in placed[c].at..(placed[c].at + placed[c].len - 1) /\ b \in u.at..(u.at + W - 1)
        BY <1>8, <3>2, <3>3, <3>4, AssemblerAssumption
      <4>2. c = d
        BY <1>2, <1>8, <3>2, <3>3, <4>1, OneItem
      <4>3. r = e
        <5>1. r[1] = e[1] /\ r[2] = e[2]
          BY <1>4, <1>5, <1>7, <3>1, <3>2, <4>2 DEF Patched
        <5> QED
          BY <1>7, <3>2, <5>1, EntryPair
      <4>4. b \in DOMAIN mem' /\ mem'[b] = <<addr[e] + StmtAt(d).n, (b - placed[d].at) % W>>
        BY <3>1, <4>1, <4>2, <4>3 DEF Patched
      <4> QED
        BY <1>1, <1>3, <3>2, <4>3, <4>4 DEF Reads
    <3>5. CASE ~(u.at <= b /\ b < u.at + W)
      <4>1. CASE WaitsIn(uses[e], b)
        BY <1>7, <3>1, <3>5, <4>1 DEF Patched
      <4>2. CASE Fixed(e) /\ Reads(b, d, addr[e])
        <5>1. b \notin u.at..(u.at + W - 1)
          BY <3>2, <3>5, AssemblerAssumption
        <5>2. b \in DOMAIN mem' /\ mem'[b] = mem[b]
          BY <3>1, <4>2, <5>1 DEF Patched, Reads
        <5> QED
          BY <1>1, <1>3, <4>2, <5>2 DEF Reads
      <4> QED
        BY <2>1, <4>1, <4>2
    <3> QED
      BY <3>4, <3>5
  <2> QED
    BY <2>2, <2>3
<1>9. Refers(d, e)'
  BY <1>1, <1>8 DEF Refers, Waits
<1> QED
  BY <1>3, <1>4, <1>5, <1>7, <1>9

LEMMA RestPast ==
  ASSUME AssemblerInv, SourceInv, KeptInv, ImageInv, RefInv, Rest, ~errors
  PROVE  PastRight'
<1>1. /\ UNCHANGED <<loads, placed, addr>> /\ (~ResolveOne => UNCHANGED <<mem, uses>>)
      /\ Closes => ~ResolveOne
  BY RestFrame
<1>2. /\ UsesRight /\ ReferencesHeld /\ PastRight /\ DefsRight /\ ResolvesKnown
      /\ TypeOK /\ ItemsApart /\ PlacedEmitted
  BY DEF RefInv, AssemblerInv, ImageInv
<1>3. /\ \A d : StmtAt(d)' = StmtAt(d) /\ Stored' = Stored /\ file' = file
      /\ \A n : Defs(n)' = Defs(n)
  BY <1>1, SameSource, SameDefs DEF Stored, file
<1>4. \A v : HasMeaning(v)' => HasMeaning(v) /\ Meaning(v)' = Meaning(v)
  BY <1>1, SameMeaning
<1> SUFFICES ASSUME NEW d \in Stored, StmtAt(d).name # NoName, ~Current(d)',
                    NEW v \in Defs(StmtAt(d).name), v[1] = d[1], HasMeaning(v),
                    NEW b \in placed[d].at..(placed[d].at + placed[d].len - 1), NEW w, w = Meaning(v)
             PROVE  Reads(b, d, w)'
  <2>1. ASSUME NEW d \in Stored, StmtAt(d)'.name # NoName, ~Current(d)',
               NEW v \in Defs(StmtAt(d).name)', v[1] = d[1], HasMeaning(v)',
               NEW b \in placed'[d].at..(placed'[d].at + placed'[d].len - 1)
        PROVE  Reads(b, d, Meaning(v))'
    <3>1. PICK w : w = Meaning(v) /\ w = Meaning(v)'
      BY <1>4, <2>1
    <3>2. Reads(b, d, w)'
      BY <1>1, <1>3, <1>4, <2>1, <3>1
    <3> QED
      BY <3>1, <3>2 DEF Reads
  <2> QED
    BY <1>3, <2>1 DEF PastRight
<1>5. PICK n \in Names : n = StmtAt(d).name
  BY <1>2, StoredLine
<1>6. CASE ~Current(d)
  <2>1. Reads(b, d, w)
    BY <1>2, <1>6 DEF PastRight
  <2>2. CASE ~ResolveOne
    BY <1>1, <1>3, <2>1, <2>2 DEF Reads
  <2>3. CASE ResolveOne
    <3>1. PICK r, u, c : Patched(r, u, c)
      BY <1>2, <2>3, PatchOne
    <3>2. /\ c \in DOMAIN placed /\ StmtAt(c).name = r[1] /\ u.at \in Nat
          /\ placed[c].at <= u.at /\ u.at + W <= placed[c].at + placed[c].len
          /\ ~Current(c) => \A x \in Defs(r[1]) : x[1] # c[1]
      BY <3>1 DEF Patched, UseOf, WordOf, Stored
    <3>3. d \in DOMAIN placed /\ placed[c].at \in Nat /\ placed[c].len \in Nat
      BY <1>2, <3>2, StoredLine DEF ItemsApart
    <3>4. c # d
      BY <1>6, <3>2
    <3>5. b \notin u.at..(u.at + W - 1)
      <4>1. ASSUME b \in u.at..(u.at + W - 1) PROVE FALSE
        <5>1. b \in placed[c].at..(placed[c].at + placed[c].len - 1)
          BY <3>2, <3>3, <4>1, AssemblerAssumption
        <5> QED
          BY <1>2, <3>2, <3>3, <3>4, <5>1, OneItem
      <4> QED
        BY <4>1
    <3>6. b \in DOMAIN mem' /\ mem'[b] = mem[b]
      BY <2>1, <3>1, <3>5 DEF Patched, Reads
    <3> QED
      BY <1>1, <1>3, <2>1, <3>6 DEF Reads
  <2> QED
    BY <2>2, <2>3
<1>7. CASE Current(d)
  <2>1. Closes /\ v[1] = file
    BY <1>3, <1>7 DEF Current, Closes
  <2>2. PICK e \in Entry : e[1] = n /\ table[n] = e[2] /\ Refers(d, e)
    BY <1>2, <1>5, <1>7 DEF ReferencesHeld, Live
  <2>3. e = <<n, table[n]>> /\ v \in Defs(n) /\ v \in Named(n)
    BY <1>5, <2>2, EntryPair DEF Defs
  <2>4. Stands(e, v) /\ ~Waits(b, e)
    BY <1>2, <2>1, <2>3, ClosedDefs
  <2>5. addr[e] = w
    BY <2>3, <2>4, StandsMeaning
  <2>6. Reads(b, d, w)
    BY <2>2, <2>4, <2>5 DEF Refers
  <2> QED
    BY <1>1, <1>3, <2>1, <2>6 DEF Reads
<1> QED
  BY <1>6, <1>7

LEMMA RestRefs ==
  ASSUME AssemblerInv, SourceInv, ForgetInv, KeptInv, ImageInv, RefInv, Rest
  PROVE  RefInv'
<1>1. /\ UNCHANGED <<loads, placed, addr>> /\ (errors => errors')
      /\ phase' \in {"emit", "resolve"} => phase \in {"emit", "resolve"} /\ UNCHANGED <<ast, table>>
      /\ \A x : OnLine(x)' => OnLine(x)
      /\ \A x : Fixed(x) => Fixed(x)'
  BY RestFrame
<1>2. /\ AllLines' = AllLines /\ \A n : Defs(n)' = Defs(n) /\ Named(n)' = Named(n) /\ file' = file
      /\ \A d : /\ StmtAt(d)' = StmtAt(d) /\ After(d)' = After(d) /\ SourceSeg(d)' = SourceSeg(d)
                /\ IsGlobal(d)' <=> IsGlobal(d)
  BY <1>1, SameSource, SameDefs DEF file
<1>3. \A d \in AllLines : Emitted(d)' <=> Emitted(d)
  BY EmittedSame DEF Rest
<1>4. WordsWhole'
  <2>1. WordsWhole
    BY DEF RefInv
  <2>2. /\ pc' = pc
        /\ phase' = "idle" => enable_data_auto_alignment' \/ (phase = "idle" /\ enable_data_auto_alignment' = enable_data_auto_alignment)
        /\ phase' \in {"emit", "resolve"} => enable_data_auto_alignment' = enable_data_auto_alignment
    BY DEF Rest, ResolveOne, ResolveDone, ClearNext, NextNode, EndEmit, FlushOne, FlushDone, vars,
           entryVars, counterVars
  <2>4. ASSUME phase' \in {"emit", "resolve"}
        PROVE  \/ enable_data_auto_alignment'
               \/ \E d \in AllLines' : d[1] = file' /\ Emitted(d)' /\ StmtAt(d)'.op = "align0"
    BY <1>1, <1>2, <1>3, <2>1, <2>2, <2>4 DEF WordsWhole
  <2> QED
    BY <2>1, <2>2, <2>4 DEF WordsWhole
<1> SUFFICES ASSUME ~errors'
             PROVE  /\ UsesRight' /\ ReferencesHeld' /\ PastRight'
                    /\ DefsRight' /\ Origins' /\ NodesRefer' /\ ResolvesKnown'
  BY <1>4 DEF RefInv
<1>5. ~errors /\ DefsRight /\ Origins /\ NodesRefer /\ ResolvesKnown
  BY <1>1 DEF RefInv
<1>6. UsesRight' /\ ReferencesHeld' /\ PastRight'
  BY <1>5, RestUses, RestReferences, RestPast
<1>7. DefsRight'
  <2> SUFFICES ASSUME NEW n \in Names, NEW v \in Defs(n), Current(v)', Emitted(v)'
               PROVE  Standing(n, v)'
    BY <1>2 DEF DefsRight
  <2>1. v \in AllLines
    BY NamedLine DEF Defs
  <2>2. Current(v) /\ Emitted(v) /\ table' = table
    BY <1>1, <1>2, <1>3, <2>1 DEF Current
  <2>3. PICK e : e = <<n, table[n]>> /\ e = <<n, table'[n]>>
    BY <2>2
  <2>4. table[n] # 0 /\ Stands(e, v) /\ LineRight(e, v)
    BY <1>5, <2>2, <2>3 DEF DefsRight, Standing
  <2>5. LinesStay
    BY KeptRest DEF Rest
  <2>6. LineRight(e, v)'
    BY <1>5, <2>1, <2>2, <2>4, <2>5 DEF LinesStay
  <2>7. Stands(e, v)'
    BY <1>1, <1>2, <2>4 DEF Stands
  <2>8. PICK m : m = table'[n]
    OBVIOUS
  <2> QED
    BY <2>2, <2>3, <2>4, <2>6, <2>7 DEF Standing, Stands, LineRight, OnLine, OpenLine
<1>8. Origins'
  <2> SUFFICES ASSUME phase' \in {"emit", "resolve"}, NEW n \in Names, table'[n] # 0,
                      addr'[<<n, table'[n]>>] # 0
               PROVE  \E c \in Named(n) : Emitted(c)' /\ (c[1] = file \/ IsGlobal(c))
    BY <1>2 DEF Origins
  <2>1. PICK c \in Named(n) : Emitted(c) /\ (c[1] = file \/ IsGlobal(c))
    BY <1>1, <1>5 DEF Origins
  <2> QED
    BY <1>3, <2>1, NamedLine
<1>9. NodesRefer'
  BY <1>1, <1>2, <1>5 DEF NodesRefer
<1>10. ResolvesKnown'
  <2>1. CASE resolving' = resolving \/ resolving' = NoEntry
    BY <1>1, <1>5, <2>1 DEF ResolvesKnown
  <2>2. CASE ClearNext
    <3>1. /\ phase' = "resolve" /\ UNCHANGED <<i, ast, addr>> /\ EndsLine
          /\ this_line_labels # <<>> /\ resolving' = Head(this_line_labels)
      BY <2>2 DEF ClearNext, entryVars
    <3>2. PICK line \in Seq(Entry) : line = this_line_labels /\ line # <<>>
      BY <3>1 DEF AssemblerInv, TypeOK
    <3>3. 1 \in 1..Len(line) /\ Head(line) = line[1] /\ line[1] \in Entry
      BY <3>2
    <3>4. resolving' \in Entry /\ OnLine(resolving')
      BY <3>1, <3>2, <3>3 DEF OnLine
    <3>5. addr[resolving'] # 0
      BY <3>4 DEF ForgetInv, LineDefined
    <3>6. EndsLine'
      BY <3>1 DEF EndsLine, node
    <3> QED
      BY <3>1, <3>5, <3>6 DEF ResolvesKnown, Fixed
  <2> QED
    BY <2>1, <2>2 DEF Rest, ResolveOne, ResolveDone, NextNode, EndEmit, FlushOne, FlushDone, vars
<1> QED
  BY <1>6, <1>7, <1>8, <1>9, <1>10

-----------------------------------------------------------------------------
(* A new file is read.                                                      *)

(* What the lines before it say of the symbols stays the same.              *)
LEMMA ParseShared ==
  ASSUME AssemblerInv, phase = "idle", NEW f \in Seq(Stmt), loads' = Append(loads, f),
         phase' = "emit", i' = 1
  PROVE  /\ \A d \in AllLines : Emitted(d) /\ Emitted(d)' /\ ~Current(d) /\ ~Current(d)'
         /\ \A n : Named(n) \subseteq Named(n)'
         /\ \A n : \A v \in Defs(n)' : v[1] <= Len(loads) => v \in Defs(n)
         /\ \A n : Shared(n)' => Shared(n)
<1>1. /\ Len(loads') = Len(loads) + 1 /\ AllLines \subseteq AllLines'
      /\ \A d \in AllLines' : d[1] <= Len(loads) => d \in AllLines
      /\ \A d \in AllLines : StmtAt(d)' = StmtAt(d) /\ (IsGlobal(d)' <=> IsGlobal(d))
  BY MoreSource DEF AssemblerInv
<1>2. Len(loads) \in Nat /\ \A d \in AllLines : d[1] \in 1..Len(loads)
  BY InSource DEF AssemblerInv, TypeOK
<1>3. \A d \in AllLines : Emitted(d) /\ Emitted(d)' /\ ~Current(d) /\ ~Current(d)'
  BY <1>1, <1>2 DEF Emitted, Current, file
<1>4. \A n : Named(n) \subseteq Named(n)' /\ Named(n) \subseteq AllLines
  BY <1>1 DEF Named
<1>5. \A n : \A v \in Named(n)' : v \in AllLines' /\ (v[1] <= Len(loads) => v \in Named(n))
  BY <1>1 DEF Named
<1>6. ASSUME NEW n, NEW v \in Defs(n)', v[1] <= Len(loads) PROVE v \in Defs(n)
  <2>1. v \in Named(n) /\ v \in AllLines
    BY <1>4, <1>5, <1>6 DEF Defs
  <2>2. StmtAt(v).op \notin LabelOps =>
          \A c \in Named(n)' : (c[1] < v[1] => ~IsGlobal(c)') /\ (c[1] = v[1] => c[2] >= v[2])
    BY <1>1, <1>6, <2>1 DEF Defs
  <2>3. StmtAt(v).op \notin LabelOps =>
          \A c \in Named(n) : (c[1] < v[1] => ~IsGlobal(c)) /\ (c[1] = v[1] => c[2] >= v[2])
    BY <1>1, <1>4, <2>2
  <2> QED
    BY <2>1, <2>3 DEF Defs
<1>7. ASSUME NEW n, Undefined(n)' PROVE Undefined(n)
  BY <1>3, <1>4, <1>7 DEF Undefined
<1>8. ASSUME NEW n, NEW d \in AllLines', First(n, d)' PROVE Shared(n)
  <2>1. CASE d \in AllLines
    <3>1. d \in Named(n) /\ IsGlobal(d)
      BY <1>1, <1>2, <1>5, <1>8, <2>1 DEF First
    <3>2. ASSUME NEW c \in Named(n) \ {d}
          PROVE  StmtAt(c).op \notin LabelOps /\ (d[1] < c[1] \/ (d[1] = c[1] /\ d[2] < c[2]))
      BY <1>1, <1>4, <1>8, <3>2 DEF First
    <3>3. First(n, d)
      BY <3>1, <3>2 DEF First
    <3> QED
      BY <2>1, <3>3 DEF Shared
  <2>2. CASE d \notin AllLines
    <3>1. d[1] \in Nat /\ Len(loads) < d[1]
      <4>1. d[1] \in 1..Len(loads')
        BY <1>8 DEF AllLines, Lines
      <4> QED
        BY <1>1, <1>2, <2>2, <4>1
    <3>2. ASSUME NEW c \in Named(n) PROVE FALSE
      <4>1. c \in Named(n)' /\ c # d /\ c[1] \in 1..Len(loads)
        BY <1>2, <1>4, <2>2, <3>2
      <4>2. d[1] <= c[1]
        BY <1>2, <1>8, <3>1, <4>1 DEF First
      <4> QED
        BY <1>2, <3>1, <4>1, <4>2
    <3> QED
      BY <3>2 DEF Undefined, Shared
  <2> QED
    BY <2>1, <2>2
<1> QED
  BY <1>3, <1>4, <1>6, <1>7, <1>8 DEF Shared

(* The nodes refer to what the statements name.                             *)
LEMMA ParseRefers ==
  ASSUME AssemblerInv, AssemblerInv', NEW f \in Files, phase = "idle", Parse(f)
  PROVE  NodesRefer'
<1> USE AssemblerAssumption
<1>1. /\ UNCHANGED <<addr, this_line_labels>> /\ this_line_labels = <<>>
      /\ f \in Seq(Stmt) /\ loads' = Append(loads, f)
      /\ ast' = [k \in 1..Len(f) |-> Node(f[k], SegmentAt(f, k))]
      /\ table' = [n \in Names |->
           IF table[n] = 0 /\ n \in Referenced(f) THEN file + 1 ELSE table[n]]
  BY DEF Parse, entryVars, AssemblerInv, LineOpen
<1>2. TypeOK /\ Len(loads) \in Nat
  <2>1. TypeOK
    BY DEF AssemblerInv
  <2> QED
    BY SMTT(30), <2>1 DEF TypeOK
<1>3. loads'[file'] = f /\ Len(f) \in Nat /\ Len(ast') = Len(f)
  BY <1>1, <1>2, MoreSource DEF file
<1>4. \A x : ~OnLine(x)'
  BY <1>1 DEF OnLine
<1> SUFFICES ASSUME NEW k \in 1..Len(f), NEW s, s = f[k], ast'[k].op \in TextOps \cup DataOps,
                    s.name # NoName
             PROVE  /\ table'[s.name] # 0
                    /\ \/ ast'[k] = s
                       \/ /\ ast'[k].op \in DataOps /\ ast'[k].name = NoName
                          /\ ast'[k].n = s.n + addr'[<<s.name, table'[s.name]>>]
                          /\ addr'[<<s.name, table'[s.name]>>] # 0
  <2>1. \A k \in 1..Len(f) :
          ast'[k].op \in TextOps \cup DataOps /\ f[k].name # NoName =>
            /\ table'[f[k].name] # 0
            /\ \/ ast'[k] = f[k]
               \/ /\ ast'[k].op \in DataOps /\ ast'[k].name = NoName
                  /\ ast'[k].n = f[k].n + addr'[<<f[k].name, table'[f[k].name]>>]
                  /\ addr'[<<f[k].name, table'[f[k].name]>>] # 0
    OBVIOUS
  <2> QED
    BY <1>3, <1>4, <2>1 DEF NodesRefer
<1>5. s \in Stmt /\ s.name \in Names /\ s.n \in Nat
  <2>1. s \in Stmt
    BY <1>1
  <2> QED
    BY <2>1 DEF Stmt
<1>6. PICK seg : seg = SegmentAt(f, k)
  OBVIOUS
<1>7. ast'[k] = Node(s, seg)
  BY <1>1, <1>6
<1>8. s.op \in TextOps \cup DataOps
  BY <1>5, <1>7, NodeSource DEF TextOps, DataOps
<1>9. s.name \in Referenced(f)
  BY <1>8 DEF Referenced
<1>10. table'[s.name] # 0 /\ (table[s.name] # 0 => table'[s.name] = table[s.name])
  BY <1>1, <1>2, <1>5, <1>9 DEF file
<1>11. s.op # "space"
  BY <1>8 DEF TextOps, DataOps
<1>12. CASE s.op \in DataOps /\ AddressNow(s.name) # 0
  <2>1. ast'[k] = [s EXCEPT !.name = NoName, !.n = @ + AddressNow(s.name)]
    BY <1>7, <1>11, <1>12 DEF Node
  <2>2. table[s.name] # 0 /\ AddressNow(s.name) = addr[<<s.name, table[s.name]>>]
    BY <1>5, <1>12 DEF AddressNow
  <2>3. /\ ast'[k].op = s.op /\ ast'[k].name = NoName /\ ast'[k].n = s.n + AddressNow(s.name)
    BY <1>5, <2>1 DEF Stmt
  <2> QED
    BY <1>1, <1>10, <1>12, <2>2, <2>3
<1>13. CASE ~(s.op \in DataOps /\ AddressNow(s.name) # 0)
  <2>1. ast'[k] = s
    BY <1>7, <1>11, <1>13 DEF Node
  <2> QED
    BY <1>10, <2>1
<1> QED
  BY <1>12, <1>13

LEMMA ParseRefs ==
  ASSUME AssemblerInv, AssemblerInv', SourceInv, ForgetInv, KeptInv, ImageInv, RefInv, read_assembly_file
  PROVE  RefInv'
<1> USE AssemblerAssumption
<1>1. PICK f \in Files : phase = "idle" /\ Parse(f)
  BY DEF read_assembly_file, Loadable
<1>2. /\ UNCHANGED <<addr, placed, mem, uses, this_line_labels, resolving, enable_data_auto_alignment>>
      /\ f \in Seq(Stmt) /\ loads' = Append(loads, f) /\ i' = 1 /\ phase' = "emit"
      /\ errors => errors'
      /\ table' = [n \in Names |->
           IF table[n] = 0 /\ n \in Referenced(f) THEN file + 1 ELSE table[n]]
      /\ pc' = pc \/ pc' = [pc EXCEPT ![DataSeg] = Aligned(@)]
  BY <1>1 DEF Parse, entryVars
<1>t. TypeOK /\ TypeOK' /\ Len(loads) \in Nat
  <2>1. TypeOK /\ TypeOK'
    BY DEF AssemblerInv
  <2>2. Len(loads) \in Nat
    BY <2>1 DEF TypeOK
  <2> QED
    BY <2>1, <2>2
<1>3. /\ Len(loads') = Len(loads) + 1 /\ AllLines \subseteq AllLines'
      /\ \A d \in AllLines' : d[1] <= Len(loads) => d \in AllLines
      /\ \A d \in AllLines : StmtAt(d)' = StmtAt(d) /\ (IsGlobal(d)' <=> IsGlobal(d))
                             /\ After(d)' = After(d) /\ SourceSeg(d)' = SourceSeg(d)
  BY <1>2, <1>t, MoreSource
<1>4. /\ \A d \in AllLines : Emitted(d) /\ Emitted(d)' /\ ~Current(d) /\ ~Current(d)'
      /\ \A n : Named(n) \subseteq Named(n)'
      /\ \A n : \A v \in Defs(n)' : v[1] <= Len(loads) => v \in Defs(n)
      /\ \A n : Shared(n)' => Shared(n)
  BY <1>1, <1>2, ParseShared
<1>5. file' = Len(loads) + 1 /\ file = Len(loads)
  BY <1>3 DEF file
<1>6. resolving = NoEntry /\ this_line_labels = <<>>
  BY <1>1 DEF AssemblerInv, LineOpen
<1>7. ItemsApart /\ PlacedEmitted
  BY DEF ImageInv
<1>8. Stored' = Stored /\ \A d \in DOMAIN placed : d \in AllLines /\ d[1] <= Len(loads)
  <2>1. \A d \in DOMAIN placed : d \in AllLines /\ d[1] <= Len(loads)
    BY <1>7, InSource DEF PlacedEmitted
  <2> QED
    BY <1>2, <1>3, <2>1 DEF Stored
<1>9. WordsWhole'
  <2>1. pc'["text"] = pc["text"] /\ pc'["ktext"] = pc["ktext"]
    BY <1>2, <1>t DEF DataSeg, TypeOK, Segments
  <2> QED
    BY <1>1, <1>2, <2>1 DEF RefInv, WordsWhole
<1> SUFFICES ASSUME ~errors'
             PROVE  /\ UsesRight' /\ ReferencesHeld' /\ PastRight'
                    /\ DefsRight' /\ Origins' /\ NodesRefer' /\ ResolvesKnown'
  BY <1>9 DEF RefInv
<1>10. UsesRight /\ ReferencesHeld /\ PastRight
  BY <1>2 DEF RefInv
<1>11. ASSUME NEW d \in DOMAIN placed, Live(d)' PROVE Live(d)
  <2>1. d \in AllLines /\ ~Current(d)' /\ StmtAt(d)' = StmtAt(d)
    BY <1>3, <1>4, <1>8
  <2>2. PICK n : n = StmtAt(d).name
    OBVIOUS
  <2>3. Shared(n)'
    BY <1>11, <2>1, <2>2 DEF Live
  <2> QED
    BY <1>4, <2>2, <2>3 DEF Live
<1>12. \A n \in Names : table[n] # 0 => table'[n] = table[n]
  BY <1>2
<1>13. UsesRight'
  <2> SUFFICES ASSUME NEW e \in Entry, NEW k \in 1..Len(uses[e])
               PROVE  \E d \in DOMAIN placed :
                        /\ UseOf(uses[e][k], d)' /\ StmtAt(d)'.name = e[1]
                        /\ Live(d)' => table'[e[1]] = e[2]
                        /\ ~Current(d)' => \A v \in Defs(e[1])' : v[1] # d[1]
    BY ZenonT(30), <1>2 DEF UsesRight
  <2>1. PICK d \in DOMAIN placed :
          /\ UseOf(uses[e][k], d) /\ StmtAt(d).name = e[1]
          /\ Live(d) => table[e[1]] = e[2]
          /\ ~Current(d) => \A v \in Defs(e[1]) : v[1] # d[1]
    BY <1>10 DEF UsesRight
  <2>2. UseOf(uses[e][k], d)' /\ StmtAt(d)'.name = e[1]
    BY <1>2, <1>3, <1>8, <2>1 DEF UseOf, WordOf
  <2>3. Live(d)' => table'[e[1]] = e[2]
    BY <1>11, <1>12, <2>1, EntryPair
  <2>4. \A v \in Defs(e[1])' : v[1] # d[1]
    BY <1>4, <1>8, <2>1
  <2> QED
    BY <2>2, <2>3, <2>4
<1>14. ReferencesHeld'
  <2> SUFFICES ASSUME NEW d \in Stored, StmtAt(d)'.name # NoName, Live(d)'
               PROVE  \E e \in Entry : e[1] = StmtAt(d)'.name /\ table'[e[1]] = e[2] /\ Refers(d, e)'
    BY <1>8 DEF ReferencesHeld
  <2>1. d \in DOMAIN placed /\ StmtAt(d)' = StmtAt(d)
    BY <1>3, <1>8 DEF Stored
  <2>2. PICK e \in Entry : e[1] = StmtAt(d).name /\ table[e[1]] = e[2] /\ Refers(d, e)
    BY <1>10, <1>11, <2>1 DEF ReferencesHeld
  <2>3. Fixed(e)' <=> Fixed(e)
    BY <1>2, <1>6 DEF Fixed, OnLine
  <2>4. Refers(d, e)'
    BY <1>2, <2>1, <2>2, <2>3 DEF Refers, Waits, Reads
  <2> QED
    BY <1>12, <2>1, <2>2, <2>4, EntryPair
<1>15. PastRight'
  <2> SUFFICES ASSUME NEW d \in Stored, StmtAt(d)'.name # NoName,
                      NEW v \in Defs(StmtAt(d).name)', v[1] = d[1], HasMeaning(v)',
                      NEW b \in placed[d].at..(placed[d].at + placed[d].len - 1)
               PROVE  Reads(b, d, Meaning(v))'
    BY <1>2, <1>8 DEF PastRight
  <2>1. d \in DOMAIN placed /\ StmtAt(d)' = StmtAt(d) /\ ~Current(d) /\ v[1] <= Len(loads)
    BY <1>3, <1>4, <1>8 DEF Stored
  <2>2. PICK n : n = StmtAt(d).name /\ n = StmtAt(d)'.name
    BY <2>1
  <2>3. v \in Defs(n) /\ v \in AllLines
    <3>1. v \in Defs(n)'
      BY <2>2
    <3>2. v \in Defs(n)
      BY <1>4, <2>1, <3>1
    <3> QED
      BY <3>2, NamedLine DEF Defs
  <2>4. HasMeaning(v) /\ Meaning(v)' = Meaning(v)
    <3>1. StmtAt(v)' = StmtAt(v) /\ After(v)' = After(v) /\ SourceSeg(v)' = SourceSeg(v)
      BY <1>3, <2>3
    <3>2. CASE StmtAt(v).op = "const"
      BY <3>1, <3>2 DEF HasMeaning, Meaning
    <3>3. CASE StmtAt(v).op = "label"
      BY <1>2, <3>1, <3>3 DEF HasMeaning, Meaning
    <3>4. CASE StmtAt(v).op \notin {"const", "label"}
      BY <1>2, <3>1, <3>4 DEF HasMeaning, Meaning
    <3> QED
      BY <3>2, <3>3, <3>4
  <2>5. Reads(b, d, Meaning(v))
    BY <1>10, <2>1, <2>2, <2>3, <2>4 DEF PastRight
  <2> QED
    BY <1>2, <2>1, <2>4, <2>5 DEF Reads
<1>16. DefsRight'
  <2>1. ASSUME NEW v \in AllLines', Current(v)' PROVE ~Emitted(v)'
    <3>1. v[2] \in Nat \ {0} /\ v[1] \in Nat
      BY DEF AllLines, Lines
    <3> QED
      BY <1>2, <1>5, <2>1, <3>1 DEF Current, Emitted
  <2> QED
    BY <2>1 DEF DefsRight, Defs, Named
<1>17. Origins'
  <2> SUFFICES ASSUME NEW n \in Names, NEW e, e = <<n, table'[n]>>, table'[n] # 0, addr[e] # 0
               PROVE  \E c \in Named(n)' : Emitted(c)' /\ IsGlobal(c)'
    BY <1>2 DEF Origins
  <2>1. e \in Entry /\ e[1] = n /\ e[2] = table'[n]
    BY <1>t DEF TypeOK, Entry
  <2>2. table[n] = e[2]
    <3>1. e[2] <= Len(loads)
      BY <1>t, <2>1 DEF ForgetInv, EntriesCurrent, Entry
    <3> QED
      BY <1>2, <1>5, <1>t, <2>1, <3>1
  <2>3. local_labels = NoEntry /\ ListHead = NoEntry
    BY <1>1 DEF ForgetInv, ListHead
  <2>4. GlobalDef(n)
    BY <2>1, <2>2, <2>3, EndVisits DEF ForgetInv, DefinedListed
  <2>5. PICK c \in Named(n) : IsGlobal(c)
    BY <2>4 DEF GlobalDef
  <2> QED
    BY <1>3, <1>4, <2>5, NamedLine
<1>18. NodesRefer'
  BY <1>1, ParseRefers
<1>19. ResolvesKnown'
  BY <1>2, <1>6 DEF ResolvesKnown
<1> QED
  BY <1>13, <1>14, <1>15, <1>16, <1>17, <1>18, <1>19

-----------------------------------------------------------------------------
(* A node is emitted.                                                       *)

\* A node is emitted where all is well, without an error.
Emits ==
  /\ AssemblerInv /\ SourceInv /\ ForgetInv /\ KeptInv /\ ImageInv /\ RefInv
  /\ ScopesClean /\ LiteralsClean /\ ReferencesClean
  /\ EmitOne /\ ~errors'

LEMMA EmitStart ==
  ASSUME Emits, NEW c, c = <<file, i>>
  PROVE  /\ ~errors /\ phase = "emit" /\ phase' = "resolve" /\ i \in 1..Len(ast)
         /\ UNCHANGED <<ast, i, loads>> /\ file' = file
         /\ c \in AllLines /\ c[1] = file /\ c[2] = i /\ node.op = StmtAt(c).op
         /\ node.op \in Definitions \cup {"globl"} => node = StmtAt(c)
         /\ loads[file] \in Files /\ i \in 1..Len(loads[file]) /\ StmtAt(c) = loads[file][i]
         /\ ~Emitted(c) /\ c \notin DOMAIN placed
         /\ \A d \in AllLines : Emitted(d)' <=> Emitted(d) \/ d = c
         /\ node.op = "const" => node.n # 0
<1>1. /\ AssemblerInv /\ SourceInv /\ ForgetInv /\ KeptInv /\ ImageInv /\ LiteralsClean
      /\ EmitOne /\ ~errors'
  BY DEF Emits
<1>2. TypeOK /\ NodesNamed /\ \A seg \in Segments : pc[seg] # 0
  BY <1>1 DEF AssemblerInv, ForgetInv
<1>3. /\ phase = "emit" /\ i <= Len(ast) /\ phase' = "resolve" /\ UNCHANGED <<ast, i, loads>>
      /\ errors => errors'
  BY <1>1, <1>2, EmitEffect
<1>4. ~errors /\ NodesRight
  BY <1>1, <1>3 DEF KeptInv
<1>5. i \in 1..Len(ast) /\ file' = file /\ file \in 1..Len(loads) /\ Len(ast) = Len(loads[file])
  BY <1>1, <1>2, <1>3 DEF TypeOK, SourceInv, file
<1>6. node.op # "error"
  BY <1>3, <1>4, <1>5 DEF NodesRight, node
<1>7. /\ c \in AllLines /\ node.op = StmtAt(c).op
      /\ node.op \in Definitions \cup {"globl"} => node = StmtAt(c)
  BY <1>1, <1>3, <1>6, NodeLine
<1>8. c[1] = file /\ c[2] = i /\ StmtAt(c) = loads[file][i]
  BY DEF StmtAt
<1>9. loads[file] \in Files /\ i \in 1..Len(loads[file])
  BY <1>1, <1>5 DEF SourceInv
<1>10. ~Emitted(c) /\ \A d \in AllLines : Emitted(d)' <=> Emitted(d) \/ d = c
  BY <1>1, <1>3, <1>7, EmittedNow
<1>11. c \notin DOMAIN placed
  BY <1>1, <1>10 DEF ImageInv, PlacedEmitted
<1>12. node.op = "const" => node.n # 0
  BY <1>1, <1>7, <1>8, <1>9 DEF LiteralsClean, Definitions, LabelOps
<1> QED
  BY <1>3, <1>4, <1>5, <1>7, <1>8, <1>9, <1>10, <1>11, <1>12

(* What has an address and is off the line keeps it.                        *)
LEMMA EmitFixed ==
  ASSUME AssemblerInv, ForgetInv, EmitOne, ~errors', NEW x \in Entry, addr[x] # 0, ~OnLine(x)
  PROVE  addr'[x] = addr[x] /\ ~OnLine(x)'
<1>1. TypeOK /\ NodesNamed /\ EntriesCurrent /\ \A seg \in Segments : pc[seg] # 0
  BY DEF AssemblerInv, ForgetInv
<1>2. phase = "emit" /\ i <= Len(ast) /\ Effect
  BY <1>1, EmitEffect
<1>3. node.op \in Definitions \cup {"globl"} => node.name \in Names
  BY <1>1, <1>2, NodeType
<1> HIDE DEF node
<1>4. CASE Quiet \/ Globl
  BY <1>4 DEF Quiet, Globl, OnLine
<1>5. ASSUME NEW seg, NEW at, ItemAt(seg, at) PROVE addr'[x] = addr[x] /\ ~OnLine(x)'
  BY <1>5 DEF ItemAt, Moved, OnLine
<1>6. ASSUME NEW known, NEW at, AllocAt(known, at) PROVE addr'[x] = addr[x] /\ ~OnLine(x)'
  <2>1. PICK e, g : /\ Moved(known, DataSeg, at) /\ Defines(e, at, g, known)
                    /\ UNCHANGED this_line_labels
    BY <1>6 DEF AllocAt
  <2>2. known[x] = addr[x] /\ known \in [Entry -> Nat]
    BY <2>1 DEF Moved
  <2>3. CASE known[e] # 0
    BY <2>1, <2>2, <2>3 DEF Defines, OnLine
  <2>4. CASE known[e] = 0
    <3>1. x # e /\ addr' = [known EXCEPT ![e] = at]
      BY <2>1, <2>2, <2>4 DEF Defines
    <3> QED
      BY <2>1, <2>2, <3>1 DEF OnLine
  <2> QED
    BY <2>3, <2>4
<1>7. CASE Labels
  <2>1. PICK n \in Names : n = node.name /\ lookup_label(n)
    BY <1>3, <1>7 DEF Labels, Definitions
  <2>2. PICK e \in Entry : e = EntryOf(n)
    BY <1>1, <1>2, <2>1, Looked
  <2>3. PICK v, g : Defines(e, v, g, addr) /\ addr[e] = 0
    BY <1>7, <2>1, <2>2 DEF Labels
  <2>4. x # e /\ addr' = [addr EXCEPT ![e] = v]
    BY <2>3 DEF Defines
  <2>5. addr'[x] = addr[x]
    BY <1>1, <2>4 DEF TypeOK
  <2>6. UNCHANGED this_line_labels \/ this_line_labels' = <<e>> \o this_line_labels
    BY <1>7, <2>1, <2>2 DEF Labels
  <2>7. ~OnLine(x)'
    <3>1. CASE UNCHANGED this_line_labels
      BY <3>1 DEF OnLine
    <3>2. CASE this_line_labels' = <<e>> \o this_line_labels
      BY <1>1, <2>2, <2>4, <3>2, LinePushed
    <3> QED
      BY <2>6, <3>1, <3>2
  <2> QED
    BY <2>5, <2>7
<1> QED
  BY <1>2, <1>4, <1>5, <1>6, <1>7 DEF Effect

(* What a node leaves to be resolved is defined for good.                   *)
LEMMA ResolvesSet ==
  ASSUME EmitOne
  PROVE  \/ resolving' = resolving
         \/ /\ node.op \in {"comm", "extern"} /\ lookup_label(node.name)
            /\ resolving' = EntryOf(node.name)
         \/ /\ node.op = "const" /\ lookup_label(node.name) /\ UNCHANGED this_line_labels
            /\ resolving' = EntryOf(node.name) /\ addr[EntryOf(node.name)] = 0
<1>1. CASE EmitSegment \/ EmitAlign \/ EmitAlign0 \/ EmitSpace \/ EmitGlobl
  BY <1>1 DEF EmitSegment, EmitAlign, EmitAlign0, EmitSpace, EmitGlobl
<1>2. CASE EmitExtern
  BY <1>2 DEF EmitExtern, Emit
<1>3. CASE EmitComm
  BY <1>3 DEF EmitComm, Emit
<1>4. CASE EmitConst
  BY <1>4 DEF EmitConst, Emit
<1>5. CASE \E op \in DataOps : EmitData(op)
  BY <1>5 DEF EmitData
<1>6. CASE \E op \in TextOps : EmitInst(op)
  BY <1>6 DEF EmitInst
<1>7. CASE EmitLabel \/ EmitNothing
  BY <1>7 DEF EmitLabel, EmitNothing
<1> QED
  BY <1>1, <1>2, <1>3, <1>4, <1>5, <1>6, <1>7 DEF EmitOne

LEMMA EmitEnds ==
  ASSUME Emits
  PROVE  EndsLine' <=> node.op \notin LabelOps \cup {"globl", "error"}
<1>1. i \in 1..Len(ast) /\ UNCHANGED <<ast, i>>
  BY EmitStart
<1>2. ast \in Seq(Stmt)
  BY DEF Emits, AssemblerInv, TypeOK
<1>3. ~(i > Len(ast))
  BY <1>1, <1>2
<1>4. ~(i' > Len(ast')) /\ node' = node
  BY <1>1, <1>3 DEF node
<1> QED
  BY <1>4 DEF EndsLine

LEMMA EmitResolves ==
  ASSUME Emits
  PROVE  ResolvesKnown'
<1>1. AssemblerInv /\ ForgetInv /\ EmitOne
  BY DEF Emits
<1>2. /\ phase = "emit" /\ phase' = "resolve" /\ i \in 1..Len(ast) /\ UNCHANGED <<ast, i, loads>>
      /\ node.op = "const" => node.n # 0
  BY EmitStart
<1>3. TypeOK /\ EntriesCurrent /\ NodesNamed /\ resolving = NoEntry /\ LineDefined
  BY <1>1, <1>2 DEF AssemblerInv, ForgetInv, LineOpen
<1>4. i <= Len(ast)
  BY <1>2, <1>3 DEF TypeOK
<1>5. node.op \in Definitions =>
        node.name \in Names /\ table'[node.name] # 0 /\ addr'[<<node.name, table'[node.name]>>] # 0
  BY <1>1, <1>2, <1>3, <1>4, EmitKnown, NodeType
<1>6. EndsLine' <=> node.op \notin LabelOps \cup {"globl", "error"}
  BY EmitEnds
<1> HIDE DEF node
<1>7. ASSUME node.op \in Definitions, lookup_label(node.name), resolving' = EntryOf(node.name),
             OnLine(resolving)' => phase' = "resolve" /\ EndsLine'
      PROVE  ResolvesKnown'
  <2>1. PICK e : e = EntryOf(node.name)
    OBVIOUS
  <2>2. e = <<node.name, table'[node.name]>>
    BY <1>2, <1>3, <1>5, <1>7, <2>1, Looked
  <2>3. addr'[e] # 0 /\ resolving' = e
    BY <1>5, <1>7, <2>1, <2>2
  <2> QED
    BY <1>7, <2>3 DEF ResolvesKnown, Fixed
<1>8. CASE resolving' = resolving
  BY <1>3, <1>8 DEF ResolvesKnown
<1>9. CASE /\ node.op \in {"comm", "extern"} /\ lookup_label(node.name)
           /\ resolving' = EntryOf(node.name)
  <2>1. EndsLine' /\ node.op \in Definitions
    BY <1>6, <1>9 DEF LabelOps, Definitions
  <2> QED
    BY <1>2, <1>7, <1>9, <2>1
<1>10. CASE /\ node.op = "const" /\ lookup_label(node.name) /\ UNCHANGED this_line_labels
            /\ resolving' = EntryOf(node.name) /\ addr[EntryOf(node.name)] = 0
  <2>1. node.op \in Definitions
    BY <1>10 DEF LabelOps, Definitions
  <2>2. EntryOf(node.name) \in Entry
    BY <1>2, <1>3, <1>5, <1>10, <2>1, Looked
  <2>3. ~OnLine(EntryOf(node.name))
    BY <1>3, <1>10, <2>2 DEF LineDefined
  <2>4. ~OnLine(resolving)'
    BY <1>10, <2>3 DEF OnLine
  <2> QED
    BY <1>7, <1>10, <2>1, <2>4
<1> QED
  BY <1>1, <1>8, <1>9, <1>10, ResolvesSet

(* Text stays whole words, and only .align 0 ends the alignment of data.     *)
LEMMA EnableSet ==
  ASSUME EmitOne
  PROVE  \/ enable_data_auto_alignment' \in {TRUE, enable_data_auto_alignment}
         \/ node.op = "align0"
<1>1. CASE EmitSegment
  BY <1>1 DEF EmitSegment
<1>2. CASE EmitAlign0
  BY <1>2 DEF EmitAlign0, Emit
<1>3. CASE EmitAlign \/ EmitSpace \/ EmitExtern \/ EmitComm
  BY <1>3 DEF EmitAlign, EmitSpace, EmitExtern, EmitComm
<1>4. CASE EmitGlobl \/ EmitLabel \/ EmitConst \/ EmitNothing
  BY <1>4 DEF EmitGlobl, EmitLabel, EmitConst, EmitNothing, counterVars
<1>5. CASE \E op \in DataOps : EmitData(op)
  BY <1>5 DEF EmitData
<1>6. CASE \E op \in TextOps : EmitInst(op)
  BY <1>6 DEF EmitInst
<1> QED
  BY <1>1, <1>2, <1>3, <1>4, <1>5, <1>6 DEF EmitOne

LEMMA StoredNow ==
  ASSUME AssemblerInv, SourceInv, ForgetInv, ImageInv, LiteralsClean, EmitOne
  PROVE  Stores
<1>1. phase = "emit" /\ i <= Len(ast)
  BY EmitEffect DEF AssemblerInv, ForgetInv
<1>2. node.op = "byte" /\ node.name # NoName => addr[EntryOf(node.name)] # 0
  BY <1>1, ByteKnown DEF ImageInv
<1> QED
  BY <1>2, EmitStores

LEMMA EmitWords ==
  ASSUME AssemblerInv, SourceInv, ForgetInv, ImageInv, LiteralsClean, EmitOne, WordsWhole
  PROVE  WordsWhole'
<1>1. /\ phase = "emit" /\ i <= Len(ast) /\ phase' = "resolve" /\ UNCHANGED <<ast, i, loads>>
      /\ file' = file
  BY EmitEffect DEF AssemblerInv, ForgetInv, file
<1>2. pc \in [Segments -> Nat]
  BY DEF AssemblerInv, TypeOK
<1>3. ASSUME NEW s \in {"text", "ktext"} PROVE pc'[s] % W = 0
  <2>1. pc[s] % W = 0 /\ s \in Segments /\ ~IsData(s)
    BY DEF WordsWhole, Segments, IsData
  <2>2. CASE UNCHANGED pc
    BY <2>1, <2>2
  <2>3. CASE \E seg, at, len : StoreAt(seg, at, len)
    <3>1. PICK seg, at, len : StoreAt(seg, at, len)
      BY <2>3
    <3>2. seg \in Segments /\ pc' = [pc EXCEPT ![seg] = at + len]
      BY <3>1 DEF StoreAt
    <3>3. CASE seg = s
      BY <1>2, <2>1, <3>1, <3>2, <3>3 DEF StoreAt
    <3>4. CASE seg # s
      BY <1>2, <2>1, <3>2, <3>4
    <3> QED
      BY <3>3, <3>4
  <2>4. Stores
    BY StoredNow
  <2> QED
    BY <2>2, <2>3, <2>4 DEF Stores
<1>4. \/ enable_data_auto_alignment'
      \/ \E d \in AllLines : d[1] = file /\ Emitted(d)' /\ StmtAt(d).op = "align0"
  <2>1. \A d \in AllLines : Emitted(d)' <=> Emitted(d) \/ d = <<file, i>>
    BY <1>1, EmittedNow
  <2>2. CASE node.op = "align0"
    <3>1. <<file, i>> \in AllLines /\ StmtAt(<<file, i>>).op = "align0"
      BY <1>1, <2>2, NodeLine
    <3>2. <<file, i>>[1] = file
      OBVIOUS
    <3> QED
      BY <2>1, <3>1, <3>2
  <2>3. CASE enable_data_auto_alignment' = enable_data_auto_alignment
    BY <1>1, <2>1, <2>3 DEF WordsWhole
  <2> QED
    BY <2>2, <2>3, EnableSet
<1>5. AllLines' = AllLines /\ \A d : StmtAt(d)' = StmtAt(d)
  BY <1>1, SameSource
<1> QED
  BY <1>1, <1>3, <1>4, <1>5 DEF WordsWhole

(* Names are entered in the table only as they are looked up.               *)
LEMMA TableSet ==
  ASSUME AssemblerInv, ForgetInv, EmitOne, node.op = "const" => node.n # 0, NEW n \in Names
  PROVE  \/ table'[n] = table[n]
         \/ table[n] = 0 /\ table'[n] = file
<1>1. TypeOK /\ NodesNamed /\ phase = "emit" /\ i <= Len(ast) /\ Effect
  BY EmitEffect DEF AssemblerInv, ForgetInv
<1>2. node.op \in Definitions \cup {"globl"} => node.name \in Names
  BY <1>1, NodeType
<1> HIDE DEF node
<1>3. table' = table \/ (node.name \in Names /\ lookup_label(node.name))
  <2>1. CASE Quiet
    BY <2>1 DEF Quiet
  <2>2. CASE Globl
    BY <1>2, <2>2 DEF Globl
  <2>3. CASE Labels
    BY <1>2, <2>3 DEF Labels, Definitions
  <2>4. CASE \E seg \in Segments, at \in Nat : ItemAt(seg, at)
    BY <2>4 DEF ItemAt
  <2>5. CASE \E known \in [Entry -> Nat], at \in Nat : AllocAt(known, at)
    BY <1>2, <2>5 DEF AllocAt, Definitions
  <2> QED
    BY <1>1, <2>1, <2>2, <2>3, <2>4, <2>5 DEF Effect
<1>4. table \in [Names -> 0..MaxFiles]
  BY <1>1 DEF TypeOK
<1> QED
  BY <1>3, <1>4 DEF lookup_label, EntryOf

(* Without an error a label or a constant was not defined before.           *)
LEMMA NotAgain ==
  ASSUME Emits, node.op \in LabelOps
  PROVE  addr[EntryOf(node.name)] = 0
<1>1. Effect /\ ~errors'
  BY EmitEffect DEF Emits, AssemblerInv, ForgetInv
<1> HIDE DEF node
<1>2. Labels
  BY <1>1 DEF Effect, Quiet, Globl, ItemAt, AllocAt, LabelOps, Segments, TextOps, DataOps
<1> QED
  BY <1>1, <1>2 DEF Labels

LEMMA DefinesFresh ==
  ASSUME Emits, NEW n \in Names, NEW c, c = <<file, i>>, c \in Defs(n)
  PROVE  addr[EntryOf(n)] = 0
<1>1. /\ phase = "emit" /\ c[1] = file /\ c[2] = i /\ node.op = StmtAt(c).op
      /\ node.op \in Definitions => node = StmtAt(c)
  BY EmitStart
<1>2. /\ c \in Named(n)
      /\ StmtAt(c).op \notin LabelOps =>
           \A w \in Named(n) : (w[1] < c[1] => ~IsGlobal(w)) /\ (w[1] = c[1] => w[2] >= c[2])
  BY DEF Defs
<1>3. StmtAt(c).op \in Definitions /\ StmtAt(c).name = n
  BY <1>2, NamedLine
<1>4. CASE StmtAt(c).op \in LabelOps
  BY <1>1, <1>3, <1>4, NotAgain
<1>5. CASE StmtAt(c).op \notin LabelOps
  <2> SUFFICES ASSUME addr[EntryOf(n)] # 0 PROVE FALSE
    OBVIOUS
  <2>1. EntriesCurrent /\ Origins /\ TypeOK
    BY EmitStart DEF Emits, ForgetInv, RefInv, AssemblerInv
  <2>2. file \in Nat /\ i \in Nat
    BY <1>1, <2>1 DEF TypeOK, file
  <2>3. table[n] # 0
    <3> SUFFICES ASSUME table[n] = 0 PROVE FALSE
      OBVIOUS
    <3>1. EntryOf(n) = <<n, file>>
      BY DEF EntryOf
    <3>2. table[n] = file
      BY <1>1, <2>1, <3>1 DEF EntriesCurrent
    <3>3. file # 0
      BY <1>1, <2>1 DEF TypeOK, file
    <3> QED
      BY <3>2, <3>3
  <2>4. addr[<<n, table[n]>>] # 0
    BY <2>3 DEF EntryOf
  <2>5. PICK w \in Named(n) : Emitted(w) /\ (w[1] = file \/ IsGlobal(w))
    BY <1>1, <2>1, <2>3, <2>4 DEF Origins
  <2>6. w[1] \in 1..Len(loads) /\ w[2] \in Nat
    BY <2>5, NamedLine
  <2>7. w[1] = file
    BY <1>1, <1>2, <1>5, <2>2, <2>5, <2>6 DEF file
  <2>8. w[2] < i
    BY <1>1, <2>2, <2>5, <2>7 DEF Emitted
  <2> QED
    BY <1>1, <1>2, <1>5, <2>2, <2>5, <2>6, <2>7, <2>8
<1> QED
  BY <1>4, <1>5

LEMMA EmitDefs ==
  ASSUME Emits
  PROVE  DefsRight'
<1>1. /\ AssemblerInv /\ SourceInv /\ ForgetInv /\ PlacedEmitted /\ EmitOne /\ ScopesClean
      /\ NodesRight /\ SegmentFollowed /\ DefsRight /\ TypeOK
  BY EmitStart DEF Emits, KeptInv, RefInv, AssemblerInv
<1>2. PICK c : c = <<file, i>>
  OBVIOUS
<1>3. /\ phase = "emit" /\ loads' = loads /\ file' = file /\ c \in AllLines /\ i \in 1..Len(ast)
      /\ node.op = StmtAt(c).op
      /\ node.op \in Definitions \cup {"globl"} => node = StmtAt(c)
      /\ \A d \in AllLines : Emitted(d)' <=> Emitted(d) \/ d = c
  BY <1>2, EmitStart
<1>4. node.op # "error"
  BY <1>1, <1>3 DEF NodesRight, node
<1>5. SUFFICES ASSUME NEW n \in Names, NEW v \in Defs(n), v[1] = file, Emitted(v) \/ v = c
               PROVE  Standing(n, v)'
  <2>1. \A n : Defs(n)' = Defs(n)
    BY <1>3, SameDefs
  <2>2. \A n : \A v \in Defs(n) : v \in AllLines
    BY DEF Defs, Named
  <2> QED
    BY <1>3, <1>5, <2>1, <2>2 DEF DefsRight, Current
<1>6. v \in Named(n) /\ v \in AllLines
  BY <1>5 DEF Defs, Named
<1>7. CASE Emitted(v)
  <2>1. Standing(n, v)
    BY <1>1, <1>3, <1>5, <1>7 DEF DefsRight, Current
  <2>2. table[n] # 0 /\ addr[<<n, table[n]>>] # 0
    BY <2>1 DEF Standing, Stands
  <2>3. c \in Named(n) => node.op \notin LabelOps
    <3> SUFFICES ASSUME c \in Named(n), node.op \in LabelOps PROVE FALSE
      OBVIOUS
    <3>0. StmtAt(c).name = n /\ StmtAt(c).op \in Definitions
      BY NamedLine
    <3>1. node.name = n
      BY <1>3, <3>0
    <3>2. addr[EntryOf(n)] = 0
      BY <3>1, NotAgain
    <3> QED
      BY <2>2, <3>2 DEF EntryOf
  <2>4. Unharmed(n)
    BY <1>1, <1>2, <1>4, <2>2, <2>3, EmitOther
  <2> QED
    BY <1>1, <1>6, <1>7, <2>1, <2>4, StandsOld
<1>8. CASE v = c
  <2>1. addr[EntryOf(n)] = 0
    BY <1>2, <1>5, <1>8, DefinesFresh
  <2> QED
    BY <1>1, <1>2, <1>6, <1>8, <2>1, StandsNew
<1> QED
  BY <1>5, <1>7, <1>8

LEMMA EmitOrigins ==
  ASSUME Emits
  PROVE  Origins'
<1>1. /\ AssemblerInv /\ SourceInv /\ ForgetInv /\ EmitOne /\ NodesRight /\ Origins /\ TypeOK
      /\ LineDefined /\ EntriesCurrent
  BY EmitStart DEF Emits, KeptInv, RefInv, AssemblerInv, ForgetInv
<1>2. PICK c : c = <<file, i>>
  OBVIOUS
<1>3. /\ phase = "emit" /\ loads' = loads /\ file' = file /\ c \in AllLines /\ i \in 1..Len(ast)
      /\ c[1] = file /\ (node.op = "const" => node.n # 0)
      /\ \A d \in AllLines : Emitted(d)' <=> Emitted(d) \/ d = c
  BY <1>2, EmitStart
<1>4. node.op # "error"
  BY <1>1, <1>3 DEF NodesRight, node
<1>5. SUFFICES ASSUME NEW n \in Names, table'[n] # 0, addr'[<<n, table'[n]>>] # 0
               PROVE  \E w \in Named(n) : Emitted(w)' /\ (w[1] = file \/ IsGlobal(w))
  <2>1. \A n : Named(n)' = Named(n)
    BY <1>3, SameSource
  <2>2. \A d : IsGlobal(d)' <=> IsGlobal(d)
    BY <1>3, SameSource
  <2> QED
    BY <1>3, <1>5, <2>1, <2>2 DEF Origins
<1>6. CASE c \in Named(n)
  BY <1>3, <1>6
<1>7. CASE c \notin Named(n)
  <2>1. Unharmed(n)
    BY <1>1, <1>2, <1>4, <1>7, EmitOther
  <2>2. PICK e : e = <<n, table'[n]>>
    OBVIOUS
  <2>3. e \in Entry
    <3>1. TypeOK'
      BY <1>1, EmitType DEF AssemblerInv
    <3>2. table'[n] \in 1..MaxFiles
      BY <1>5, <3>1, AssemblerAssumption DEF TypeOK
    <3> QED
      BY <2>2, <3>2 DEF Entry
  <2>4. addr[e] # 0
    <3>1. addr'[e] = addr[e] \/ OnLine(e)
      BY <2>1, <2>2, <2>3 DEF Unharmed, Unmoved, MovedTo
    <3> QED
      BY <1>1, <1>5, <2>2, <2>3, <3>1 DEF LineDefined
  <2>5. table'[n] = table[n]
    <3>1. table'[n] = file => table[n] = file
      BY <1>1, <1>3, <2>2, <2>4 DEF EntriesCurrent
    <3> QED
      BY <1>1, <1>3, <1>5, <3>1, TableSet
  <2>6. PICK w \in Named(n) : Emitted(w) /\ (w[1] = file \/ IsGlobal(w))
    BY <1>1, <1>3, <1>5, <2>2, <2>4, <2>5 DEF Origins
  <2>7. w \in AllLines
    BY <2>6 DEF Named
  <2> QED
    BY <1>3, <2>6, <2>7
<1> QED
  BY <1>6, <1>7

LEMMA EmitRefers ==
  ASSUME Emits
  PROVE  NodesRefer'
<1>1. /\ AssemblerInv /\ SourceInv /\ ForgetInv /\ EmitOne /\ ~errors' /\ NodesRefer /\ TypeOK
  BY EmitStart DEF Emits, RefInv, AssemblerInv
<1>2. /\ phase = "emit" /\ loads' = loads /\ file' = file /\ ast' = ast /\ (node.op = "const" => node.n # 0)
  BY EmitStart
<1>3. SUFFICES ASSUME NEW k \in 1..Len(ast), NEW s, s = loads[file][k],
                      ast[k].op \in TextOps \cup DataOps, s.name # NoName
               PROVE  /\ table'[s.name] # 0
                      /\ \/ ast[k] = s
                         \/ /\ ast[k].op \in DataOps /\ ast[k].name = NoName
                            /\ ast[k].n = s.n + addr'[<<s.name, table'[s.name]>>]
                            /\ addr'[<<s.name, table'[s.name]>>] # 0
                            /\ ~\E j \in 1..Len(this_line_labels') :
                                  this_line_labels'[j] = <<s.name, table'[s.name]>>
  <2>1. \A k \in 1..Len(ast) :
          ast[k].op \in TextOps \cup DataOps /\ loads[file][k].name # NoName =>
            /\ table'[loads[file][k].name] # 0
            /\ \/ ast[k] = loads[file][k]
               \/ /\ ast[k].op \in DataOps /\ ast[k].name = NoName
                  /\ ast[k].n = loads[file][k].n
                       + addr'[<<loads[file][k].name, table'[loads[file][k].name]>>]
                  /\ addr'[<<loads[file][k].name, table'[loads[file][k].name]>>] # 0
                  /\ ~\E j \in 1..Len(this_line_labels') :
                       this_line_labels'[j] = <<loads[file][k].name, table'[loads[file][k].name]>>
    BY <1>3
  <2> QED
    BY <1>2, <2>1 DEF NodesRefer, OnLine
<1>4. PICK e : e = <<s.name, table[s.name]>>
  OBVIOUS
<1>5. /\ table[s.name] # 0
      /\ \/ ast[k] = s
         \/ /\ ast[k].op \in DataOps /\ ast[k].name = NoName
            /\ ast[k].n = s.n + addr[e] /\ addr[e] # 0 /\ ~OnLine(e)
  BY <1>1, <1>2, <1>3, <1>4 DEF NodesRefer
<1>6. s \in Stmt
  <2>1. file \in 1..Len(loads) /\ Len(ast) = Len(loads[file])
    BY <1>1, <1>2 DEF TypeOK, SourceInv, file
  <2>2. loads[file] \in Seq(Stmt)
    BY <1>1, <2>1 DEF TypeOK
  <2> QED
    BY <1>3, <2>1, <2>2
<1>7. s.name \in Names
  BY <1>3, <1>6 DEF Stmt
<1>8. table'[s.name] = table[s.name] /\ table[s.name] \in 1..MaxFiles
  <2>1. table'[s.name] = table[s.name]
    BY <1>1, <1>2, <1>5, <1>7, EmitKnown
  <2> QED
    BY <1>1, <1>5, <1>7, <2>1, AssemblerAssumption DEF TypeOK
<1>9. e \in Entry /\ e = <<s.name, table'[s.name]>>
  BY <1>4, <1>7, <1>8 DEF Entry
<1>10. addr[e] # 0 /\ ~OnLine(e) =>
         addr'[e] = addr[e] /\ ~\E j \in 1..Len(this_line_labels') : this_line_labels'[j] = e
  <2>1. addr[e] # 0 /\ ~OnLine(e) => addr'[e] = addr[e] /\ ~OnLine(e)'
    BY <1>1, <1>9, EmitFixed
  <2> QED
    BY <2>1 DEF OnLine
<1> QED
  BY <1>5, <1>8, <1>9, <1>10

-----------------------------------------------------------------------------
(* What a node stores.                                                      *)

\* A node is emitted, and the segments stay apart.
EmitsFit == Emits /\ TypeOK' /\ SegmentsFit /\ SegmentsFit'

(* It leaves the items before it, and what waits.                           *)
LEMMA EmitOld ==
  ASSUME EmitsFit, NEW c, c = <<file, i>>
  PROVE  /\ \A d \in DOMAIN placed' : d \in DOMAIN placed \/ d = c
         /\ \A d \in DOMAIN placed : d \in DOMAIN placed' /\ placed'[d] = placed[d]
         /\ \A d \in DOMAIN placed : \A b \in placed[d].at..(placed[d].at + placed[d].len - 1) :
              b \in DOMAIN mem => b \in DOMAIN mem' /\ mem'[b] = mem[b]
         /\ \A x \in Entry : \A b : WaitsIn(uses[x], b) => WaitsIn(uses'[x], b)
<1>1. Emits /\ TypeOK /\ TypeOK' /\ SegmentsFit /\ SegmentsFit' /\ ItemsApart
  BY DEF EmitsFit, Emits, AssemblerInv, ImageInv
<1>2. Stores
  BY StoredNow DEF EmitsFit, Emits
<1>3. c \notin DOMAIN placed
  BY <1>1, EmitStart
<1>4. CASE UNCHANGED <<placed, pc, mem, uses>>
  BY <1>4
<1>5. ASSUME NEW seg, NEW at, NEW len, StoreAt(seg, at, len),
             \/ UNCHANGED <<mem, uses>>
             \/ StoredItem(seg, at, len)
      PROVE  /\ \A d \in DOMAIN placed' : d \in DOMAIN placed \/ d = c
             /\ \A d \in DOMAIN placed : d \in DOMAIN placed' /\ placed'[d] = placed[d]
             /\ \A d \in DOMAIN placed : \A b \in placed[d].at..(placed[d].at + placed[d].len - 1) :
                  b \in DOMAIN mem => b \in DOMAIN mem' /\ mem'[b] = mem[b]
             /\ \A x \in Entry : \A b : WaitsIn(uses[x], b) => WaitsIn(uses'[x], b)
  <2>1. Place(seg, at, len) /\ at \in Nat /\ len \in Nat
    BY <1>5 DEF StoreAt
  <2>2. /\ \A d \in DOMAIN placed' : d \in DOMAIN placed \/ d = c
        /\ \A d \in DOMAIN placed : d \in DOMAIN placed' /\ placed'[d] = placed[d]
    BY <1>3, <2>1, StorePlaces
  <2>3. CASE UNCHANGED <<mem, uses>>
    BY <2>2, <2>3
  <2>4. CASE StoredItem(seg, at, len)
    <3>1. ASSUME NEW d \in DOMAIN placed,
                 NEW b \in placed[d].at..(placed[d].at + placed[d].len - 1), b \in DOMAIN mem
          PROVE  b \in DOMAIN mem' /\ mem'[b] = mem[b]
      <4>1. placed[d].at + placed[d].len <= at \/ at + len <= placed[d].at
        BY <1>1, <1>5, StoreApart
      <4>2. placed[d].at \in Nat /\ placed[d].len \in Nat
        BY <1>1 DEF ItemsApart
      <4>3. b \notin at..(at + len - 1)
        BY <2>1, <4>1, <4>2
      <4>4. PICK v : Filled(at, len, v)
        BY <2>4 DEF StoredItem
      <4>5. PICK f : f = [a \in at..(at + len - 1) |-> <<v, (a - at) % W>>]
        OBVIOUS
      <4>6. mem' = Over(mem, f) /\ b \notin DOMAIN f
        BY <4>3, <4>4, <4>5 DEF Filled
      <4> QED
        BY <3>1, <4>6, OverOther
    <3>2. ASSUME NEW x \in Entry, NEW b, WaitsIn(uses[x], b)
          PROVE  WaitsIn(uses'[x], b)
      <4>1. CASE uses' = uses
        BY <3>2, <4>1
      <4>2. CASE UsesAdded(at, len)
        <5>1. PICK j \in 1..Len(uses[x]) : uses[x][j].at <= b /\ b < uses[x][j].at + W
          BY <3>2 DEF WaitsIn
        <5>2. PICK k \in 1..Len(uses'[x]) : uses'[x][k] = uses[x][j]
          BY <4>2 DEF UsesAdded
        <5> QED
          BY <5>1, <5>2 DEF WaitsIn
      <4> QED
        BY <2>4, <4>1, <4>2 DEF StoredItem
    <3> QED
      BY <2>2, <3>1, <3>2
  <2> QED
    BY <1>5, <2>3, <2>4
<1> QED
  BY <1>2, <1>4, <1>5 DEF Stores

\* The item c, node i, is at the address at of the segment seg, len bytes long.
NewItem(c, seg, at, len) ==
  /\ StoredItem(seg, at, len) /\ at \in Nat /\ len \in Nat
  /\ c \in DOMAIN placed' /\ placed'[c].at = at /\ placed'[c].len = len
  /\ StmtAt(c).op \in TextOps \cup DataOps /\ c \in Stored'
  /\ seg \in Segments /\ pc[seg] <= at /\ pc'[seg] = at + len

LEMMA EmitNew ==
  ASSUME EmitsFit, NEW c, c = <<file, i>>,
         \/ c \in Stored'
         \/ ~(uses' = uses)
  PROVE  \E seg, at, len : NewItem(c, seg, at, len)
<1>1. c \notin DOMAIN placed /\ node.op = StmtAt(c).op /\ loads' = loads
  BY EmitStart DEF EmitsFit
<1>2. Stores
  BY StoredNow DEF EmitsFit, Emits
<1>3. StmtAt(c)' = StmtAt(c)
  BY <1>1, SameSource
<1> HIDE DEF node
<1>4. c \in Stored' => c \in DOMAIN placed' /\ node.op \in TextOps \cup DataOps
  BY <1>1, <1>3 DEF Stored
<1>5. PICK seg, at, len : StoreAt(seg, at, len) /\ StoredItem(seg, at, len)
  BY <1>1, <1>2, <1>4 DEF Stores
<1>6. at \in Nat /\ len \in Nat /\ Place(seg, at, len)
  BY <1>5 DEF StoreAt
<1>7. c \in DOMAIN placed' /\ placed'[c] = [seg |-> seg, at |-> at, len |-> len]
  BY <1>1, <1>6, StorePlaces
<1>8. StmtAt(c).op \in TextOps \cup DataOps
  BY <1>1, <1>5 DEF StoredItem
<1>9. c \in Stored'
  BY <1>3, <1>7, <1>8 DEF Stored
<1>10. TypeOK
  BY DEF EmitsFit, Emits, AssemblerInv
<1>11. seg \in Segments /\ pc[seg] <= at /\ pc'[seg] = at + len
  BY <1>5, <1>10 DEF StoreAt, TypeOK
<1> QED
  BY <1>5, <1>6, <1>7, <1>8, <1>9, <1>11 DEF NewItem

(* What the statement of a node that refers to a symbol says.               *)
LEMMA EmitRefersTo ==
  ASSUME Emits, NEW c, c = <<file, i>>, StmtAt(c).op \in TextOps \cup DataOps, StmtAt(c).name # NoName,
         NEW e, e = <<StmtAt(c).name, table[StmtAt(c).name]>>
  PROVE  /\ e \in Entry /\ e[1] = StmtAt(c).name /\ table[e[1]] = e[2] /\ table'[e[1]] = e[2]
         /\ StmtAt(c).n \in Nat
         /\ \/ node = StmtAt(c) /\ EntryOf(node.name) = e
            \/ /\ node.op \in DataOps /\ node.name = NoName
               /\ node.n = StmtAt(c).n + addr[e] /\ addr[e] # 0 /\ ~OnLine(e)
<1>1. /\ phase = "emit" /\ i \in 1..Len(ast) /\ node.op = StmtAt(c).op /\ StmtAt(c) = loads[file][i]
      /\ loads[file] \in Files /\ i \in 1..Len(loads[file]) /\ (node.op = "const" => node.n # 0)
  BY EmitStart
<1>2. NodesRefer /\ TypeOK /\ AssemblerInv /\ ForgetInv /\ EmitOne
  BY EmitStart DEF Emits, RefInv, AssemblerInv
<1>3. StmtAt(c) \in Stmt
  BY <1>1, AssemblerAssumption
<1>4. StmtAt(c).name \in Names /\ StmtAt(c).n \in Nat
  BY <1>3 DEF Stmt
<1>5. PICK s : s = StmtAt(c)
  OBVIOUS
<1>6. /\ table[s.name] # 0
      /\ \/ node = s
         \/ /\ node.op \in DataOps /\ node.name = NoName
            /\ node.n = s.n + addr[e] /\ addr[e] # 0 /\ ~OnLine(e)
  BY <1>1, <1>2, <1>5 DEF NodesRefer, node
<1>7. table'[s.name] = table[s.name] /\ table[s.name] \in 1..MaxFiles
  <2>1. table'[s.name] = table[s.name]
    BY <1>1, <1>2, <1>4, <1>5, <1>6, EmitKnown
  <2> QED
    BY <1>2, <1>4, <1>5, <1>6, <2>1, AssemblerAssumption DEF TypeOK
<1>8. e \in Entry /\ e[1] = s.name /\ e[2] = table[s.name]
  BY <1>4, <1>5, <1>7 DEF Entry
<1>9. node = s => EntryOf(node.name) = e
  BY <1>5, <1>6 DEF EntryOf
<1> QED
  BY <1>4, <1>5, <1>6, <1>7, <1>8, <1>9

(* What refers to a symbol that is not known yet is a whole word of its own. *)
LEMMA NewAligned ==
  ASSUME Emits, NEW c, c = <<file, i>>, NEW seg, NEW at, NEW len, StoredItem(seg, at, len),
         at \in Nat, StmtAt(c).op \in TextOps \cup DataOps, StmtAt(c).name # NoName,
         NEW e, e = <<StmtAt(c).name, table[StmtAt(c).name]>>, addr'[e] = 0
  PROVE  /\ at % W = 0 /\ (at + W) % W = 0
         /\ StmtAt(c).op \in DataOps => StmtAt(c).n = 0
         /\ StmtAt(c).op \in TextOps => ~IsData(Cur)
<1>1. /\ phase = "emit" /\ i \in 1..Len(ast) /\ node.op = StmtAt(c).op /\ c[1] = file /\ c[2] = i
      /\ loads[file] \in Files /\ i \in 1..Len(loads[file]) /\ (node.op = "const" => node.n # 0)
  BY EmitStart
<1>2. PICK f : f = loads[file]
  OBVIOUS
<1>3. StmtAt(c) = f[i] /\ f \in Seq(Stmt) /\ SourceSeg(c) = SegmentAt(f, i)
  BY <1>1, <1>2, AssemblerAssumption DEF StmtAt, SourceSeg
<1>4. /\ AssemblerInv /\ SourceInv /\ ForgetInv /\ TypeOK /\ DefinedSoFar /\ WordsWhole
      /\ DirectiveFirst /\ ReferencesClean /\ EmitOne /\ SegmentFollowed
  BY EmitStart DEF Emits, AssemblerInv, ImageInv, RefInv, ScopesClean, KeptInv
<1>5. \A j \in 1..(i - 1) : <<file, j>> \in AllLines /\ Emitted(<<file, j>>) /\ StmtAt(<<file, j>>) = f[j]
  <2> SUFFICES ASSUME NEW j \in 1..(i - 1)
               PROVE  <<file, j>> \in AllLines /\ Emitted(<<file, j>>) /\ StmtAt(<<file, j>>) = f[j]
    OBVIOUS
  <2>1. j < i /\ j \in 1..Len(loads[file]) /\ file \in 1..Len(loads)
    <3>1. Len(loads[file]) \in Nat
      BY <1>2, <1>3
    <3>2. file \in 1..Len(loads)
      BY <1>1, <1>4 DEF TypeOK, file
    <3> QED
      BY <1>1, <3>1, <3>2
  <2>2. <<file, j>> \in AllLines
    BY <2>1 DEF AllLines, Lines
  <2>3. Emitted(<<file, j>>)
    BY <2>1 DEF Emitted
  <2>4. StmtAt(<<file, j>>) = f[j]
    BY <1>2 DEF StmtAt
  <2> QED
    BY <2>2, <2>3, <2>4
<1>6. e \in Entry
  BY EmitRefersTo
<1>7. ~\E j \in 1..(i - 1) : f[j].op \in Definitions /\ f[j].name = f[i].name
  <2> SUFFICES ASSUME NEW j \in 1..(i - 1), f[j].op \in Definitions, f[j].name = f[i].name
               PROVE  FALSE
    OBVIOUS
  <2>1. PICK d : d = <<file, j>>
    OBVIOUS
  <2>2. d \in AllLines /\ Emitted(d) /\ StmtAt(d) = f[j] /\ d[1] = file
    BY <1>5, <2>1
  <2>3. addr[<<StmtAt(d).name, table[StmtAt(d).name]>>] # 0
    BY <1>1, <1>4, <2>2 DEF DefinedSoFar
  <2>4. addr[e] # 0
    BY <1>3, <2>2, <2>3
  <2> QED
    BY <1>1, <1>4, <1>6, <2>4, EmitKnown
<1>8. /\ f[i].op \in TextOps => ~IsData(SegmentAt(f, i))
      /\ f[i].op \in DataOps =>
           /\ f[i].op = "word" /\ f[i].n = 0 /\ IsData(SegmentAt(f, i))
           /\ \A j \in 1..i : f[j].op # "align0"
  BY SMTT(30), <1>1, <1>2, <1>3, <1>4, <1>7 DEF ReferencesClean
<1>9. Cur = SegmentAt(f, i)
  <2>1. StmtAt(c).op \notin Segments
    BY DEF TextOps, DataOps, Segments
  <2>2. i <= Len(ast)
    BY <1>1, <1>4 DEF TypeOK
  <2> QED
    BY <1>1, <1>3, <1>4, <2>1, <2>2, CurrentSegment
<1>10. at % W = 0
  <2>1. CASE f[i].op \in TextOps
    <3>1. Cur \in {"text", "ktext"} /\ at = pc[Cur]
      BY <1>1, <1>3, <1>8, <1>9, <2>1 DEF StoredItem, Cur, TextSeg, DataSeg, IsData
    <3> QED
      BY <1>4, <3>1 DEF WordsWhole
  <2>2. CASE f[i].op \in DataOps
    <3>1. dir = "data"
      BY <1>4, <1>8, <1>9, <2>2 DEF Cur, TextSeg, DataSeg, IsData, TypeOK
    <3>2. enable_data_auto_alignment
      <4> SUFFICES ASSUME ~enable_data_auto_alignment PROVE FALSE
        OBVIOUS
      <4>1. PICK d \in AllLines : d[1] = file /\ Emitted(d) /\ StmtAt(d).op = "align0"
        BY <1>1, <1>4 DEF WordsWhole
      <4>2. d[2] \in 1..Len(f) /\ StmtAt(d) = f[d[2]]
        BY <1>2, <4>1, InSource DEF StmtAt
      <4>3. d[2] < i
        BY <1>1, <1>4, <4>1 DEF Emitted, file, TypeOK
      <4> QED
        BY <1>1, <1>8, <2>2, <4>1, <4>2, <4>3
    <3> QED
      BY <1>1, <1>3, <1>8, <2>2, <3>1, <3>2 DEF StoredItem
  <2> QED
    BY <1>3, <2>1, <2>2
<1>11. (at + W) % W = 0
  BY <1>10, WholeNext
<1> QED
  BY <1>3, <1>8, <1>9, <1>10, <1>11

\* A jump has no addend.
LEMMA NoJumpAddend ==
  ASSUME Emits, NEW c, c = <<file, i>>, node = StmtAt(c)
  PROVE  Addend = StmtAt(c).n
<1>1. loads[file] \in Files /\ i \in 1..Len(loads[file]) /\ StmtAt(c) = loads[file][i]
  BY EmitStart
<1>2. StmtAt(c).op = "jump" => StmtAt(c).n = 0
  BY <1>1 DEF Emits, ReferencesClean
<1> QED
  BY <1>2 DEF Addend

LEMMA EmitUses ==
  ASSUME EmitsFit
  PROVE  UsesRight'
<1>1. Emits /\ TypeOK /\ UsesRight
  BY EmitStart DEF EmitsFit, Emits, AssemblerInv, RefInv
<1>2. PICK c : c = <<file, i>>
  OBVIOUS
<1>3. /\ phase = "emit" /\ phase' = "resolve" /\ loads' = loads /\ file' = file /\ c[1] = file
      /\ \A d \in AllLines : Emitted(d) => Emitted(d)'
      /\ (node.op = "const" => node.n # 0)
  BY <1>1, <1>2, EmitStart
<1>4. /\ \A n : Defs(n)' = Defs(n)
      /\ \A d : StmtAt(d)' = StmtAt(d)
  BY <1>3, SameDefs, SameSource
<1>5. SUFFICES ASSUME NEW x \in Entry, NEW k \in 1..Len(uses'[x]), NEW u, u = uses'[x][k]
               PROVE  \E d \in DOMAIN placed' :
                        /\ UseOf(u, d)' /\ StmtAt(d).name = x[1]
                        /\ Live(d)' => table'[x[1]] = x[2]
                        /\ ~Current(d)' => \A v \in Defs(x[1]) : v[1] # d[1]
  BY <1>4, <1>5 DEF UsesRight
<1>6. CASE \E j \in 1..Len(uses[x]) : u = uses[x][j]
  <2>1. PICK j \in 1..Len(uses[x]) : u = uses[x][j]
    BY <1>6
  <2>2. PICK d \in DOMAIN placed :
          /\ UseOf(u, d) /\ StmtAt(d).name = x[1]
          /\ Live(d) => table[x[1]] = x[2]
          /\ ~Current(d) => \A v \in Defs(x[1]) : v[1] # d[1]
    BY <1>1, <2>1 DEF UsesRight
  <2>3. d \in DOMAIN placed' /\ placed'[d] = placed[d]
    BY <1>2, <2>2, EmitOld
  <2>4. UseOf(u, d)'
    BY <1>4, <2>2, <2>3 DEF UseOf, WordOf, Stored
  <2>5. ASSUME Live(d)' PROVE table'[x[1]] = x[2]
    <3>1. Live(d)
      BY <1>3, <2>5, LiveBefore
    <3>2. table[x[1]] = x[2] /\ x[1] \in Names /\ x[2] # 0
      BY <1>5, <2>2, <3>1, EntryPair
    <3> QED
      BY <1>1, <1>3, <3>2, EmitKnown DEF Emits
  <2>6. Current(d)' <=> Current(d)
    BY <1>3 DEF Current
  <2> QED
    BY <2>2, <2>3, <2>4, <2>5, <2>6
<1>7. CASE ~\E j \in 1..Len(uses[x]) : u = uses[x][j]
  <2>1. uses' # uses
    BY <1>5, <1>7
  <2>2. PICK seg, at, len : NewItem(c, seg, at, len)
    BY <1>2, <2>1, EmitNew
  <2>3. /\ StoredItem(seg, at, len) /\ at \in Nat /\ len \in Nat /\ c \in Stored'
        /\ c \in DOMAIN placed' /\ placed'[c].at = at /\ placed'[c].len = len
        /\ StmtAt(c).op \in TextOps \cup DataOps
    BY <2>2 DEF NewItem
  <2> HIDE DEF node
  <2>4. /\ node.name # NoName /\ addr'[EntryOf(node.name)] = 0 /\ UsesAdded(at, len)
    BY <2>1, <2>3 DEF StoredItem
  <2>5. x = EntryOf(node.name) /\ NewUse(u, at, len)
    BY <1>5, <1>7, <2>4 DEF UsesAdded
  <2>6. StmtAt(c).name # NoName
    <3>1. NodesRead /\ i \in 1..Len(ast) /\ StmtAt(c) = loads[file][i]
      BY <1>1, <1>2, EmitStart DEF Emits, ImageInv
    <3>2. node.op \in TextOps \cup DataOps
      BY <2>3 DEF StoredItem
    <3> QED
      BY <1>3, <2>4, <3>1, <3>2 DEF NodesRead, node
  <2>7. PICK e : e = <<StmtAt(c).name, table[StmtAt(c).name]>>
    OBVIOUS
  <2>8. /\ e[1] = StmtAt(c).name /\ table'[e[1]] = e[2] /\ node = StmtAt(c)
        /\ EntryOf(node.name) = e
    BY <1>1, <1>2, <2>3, <2>4, <2>6, <2>7, EmitRefersTo
  <2>9. x = e /\ addr'[e] = 0
    BY <2>4, <2>5, <2>8
  <2>10. /\ at % W = 0 /\ (at + W) % W = 0
         /\ StmtAt(c).op \in DataOps => StmtAt(c).n = 0
         /\ StmtAt(c).op \in TextOps => ~IsData(Cur)
    BY <1>1, <1>2, <2>3, <2>6, <2>7, <2>9, NewAligned
  <2>11. u.at \in {at, at + W} /\ u.at + W <= at + len
    BY <2>5 DEF NewUse
  <2>12. IF u.op = "data" THEN StmtAt(c).n = 0 ELSE u.off = StmtAt(c).n
    <3>1. Addend = StmtAt(c).n
      BY <1>1, <1>2, <2>8, NoJumpAddend
    <3> QED
      BY <2>5, <2>8, <2>10, <3>1 DEF NewUse
  <2>13. WordOf(u.at, c)'
    <3>1. at <= u.at
      BY <2>3, <2>11, AssemblerAssumption
    <3> QED
      BY <1>4, <2>3, <2>6, <2>11, <3>1 DEF WordOf
  <2>14. ASSUME u.op # "data" PROVE ~InSegment(u.at, "kdata")
    <3>1. seg = Cur /\ ~IsData(seg)
      BY <2>3, <2>5, <2>8, <2>10, <2>14 DEF NewUse, StoredItem
    <3>2. seg \in Segments /\ pc[seg] <= at /\ pc'[seg] = at + len
      BY <2>2 DEF NewItem
    <3>3. pc[seg] \in Nat /\ W \in Nat
      BY <1>1, <3>2, AssemblerAssumption DEF TypeOK
    <3>4. u.at \in Nat /\ pc[seg] <= u.at /\ u.at <= pc'[seg]
      BY <2>3, <2>11, <3>2, <3>3
    <3>5. TypeOK' /\ SegmentsFit /\ SegmentsFit'
      BY DEF EmitsFit
    <3>6. InSegment(u.at, seg)
      BY <1>1, <3>2, <3>4, <3>5, Between
    <3> QED
      BY <3>1, <3>2, <3>4, <3>6, OneSegment DEF IsData
  <2>15. UseOf(u, c)'
    BY <1>4, <2>3, <2>10, <2>11, <2>12, <2>13, <2>14 DEF UseOf
  <2>16. Current(c)'
    BY <1>3 DEF Current
  <2> QED
    BY <2>3, <2>8, <2>9, <2>15, <2>16
<1> QED
  BY <1>6, <1>7

LEMMA EmitReferences ==
  ASSUME EmitsFit
  PROVE  ReferencesHeld'
<1>1. /\ Emits /\ TypeOK /\ ReferencesHeld /\ AssemblerInv /\ SourceInv /\ ForgetInv /\ EmitOne
      /\ ~errors'
  BY EmitStart DEF EmitsFit, Emits, AssemblerInv, RefInv
<1>2. PICK c : c = <<file, i>>
  OBVIOUS
<1>3. /\ phase = "emit" /\ phase' = "resolve" /\ loads' = loads
      /\ \A d \in AllLines : Emitted(d) => Emitted(d)'
      /\ (node.op = "const" => node.n # 0) /\ node.op = StmtAt(c).op
  BY <1>1, <1>2, EmitStart
<1>4. \A d : StmtAt(d)' = StmtAt(d)
  BY <1>3, SameSource
<1>5. SUFFICES ASSUME NEW d \in Stored', StmtAt(d).name # NoName, Live(d)'
               PROVE  \E e \in Entry : /\ e[1] = StmtAt(d).name /\ table'[e[1]] = e[2]
                                       /\ Refers(d, e)'
  BY <1>4, <1>5 DEF ReferencesHeld
<1>6. CASE d # c
  <2>1. d \in DOMAIN placed
    BY <1>2, <1>5, <1>6, EmitOld DEF Stored
  <2>2. d \in Stored
    BY <1>4, <1>5, <2>1 DEF Stored
  <2>3. Live(d)
    BY <1>3, <1>5, LiveBefore
  <2>4. PICK e \in Entry : e[1] = StmtAt(d).name /\ table[e[1]] = e[2] /\ Refers(d, e)
    BY <1>1, <1>5, <2>2, <2>3 DEF ReferencesHeld
  <2>5. table'[e[1]] = e[2]
    <3>1. e[1] \in Names /\ e[2] # 0
      BY <2>4, EntryPair
    <3> QED
      BY <1>1, <1>3, <2>4, <3>1, EmitKnown
  <2>6. placed'[d] = placed[d]
    BY <1>2, <2>1, EmitOld
  <2>7. ASSUME NEW b \in placed[d].at..(placed[d].at + placed[d].len - 1)
        PROVE  Waits(b, e)' \/ (Fixed(e)' /\ Reads(b, d, addr[e])')
    <3>1. CASE Waits(b, e)
      <4>1. WaitsIn(uses'[e], b)
        BY <1>2, <3>1, EmitOld DEF Waits
      <4> QED
        BY <4>1 DEF Waits
    <3>2. CASE Fixed(e) /\ Reads(b, d, addr[e])
      <4>1. addr[e] # 0 /\ ~OnLine(e)
        BY <1>3, <3>2 DEF Fixed
      <4>2. addr'[e] = addr[e] /\ ~OnLine(e)'
        BY <1>1, <4>1, EmitFixed
      <4>3. b \in DOMAIN mem' /\ mem'[b] = mem[b]
        BY <1>2, <2>1, <2>7, <3>2, EmitOld DEF Reads
      <4>4. mem'[b] = <<addr'[e] + StmtAt(d).n, (b - placed[d].at) % W>>
        BY <3>2, <4>2, <4>3 DEF Reads
      <4>5. Fixed(e)'
        BY <4>1, <4>2 DEF Fixed
      <4> QED
        BY <1>4, <2>6, <4>3, <4>4, <4>5 DEF Reads
    <3> QED
      BY <2>4, <2>7, <3>1, <3>2 DEF Refers
  <2>8. Refers(d, e)'
    BY <2>6, <2>7 DEF Refers
  <2> QED
    BY <2>4, <2>5, <2>8
<1>7. CASE d = c
  <2>1. PICK seg, at, len : NewItem(c, seg, at, len)
    BY <1>2, <1>5, <1>7, EmitNew
  <2>2. /\ StoredItem(seg, at, len) /\ at \in Nat /\ len \in Nat
        /\ placed'[c].at = at /\ placed'[c].len = len
        /\ StmtAt(c).op \in TextOps \cup DataOps
    BY <2>1 DEF NewItem
  <2>3. PICK e : e = <<StmtAt(c).name, table[StmtAt(c).name]>>
    OBVIOUS
  <2>4. /\ e \in Entry /\ e[1] = StmtAt(c).name /\ table'[e[1]] = e[2] /\ StmtAt(c).n \in Nat
        /\ \/ node = StmtAt(c) /\ EntryOf(node.name) = e
           \/ /\ node.op \in DataOps /\ node.name = NoName
              /\ node.n = StmtAt(c).n + addr[e] /\ addr[e] # 0 /\ ~OnLine(e)
    BY <1>1, <1>2, <1>5, <1>7, <2>2, <2>3, EmitRefersTo
  <2> HIDE DEF node
  <2>5. EndsLine'
    BY <1>1, <1>3, <2>2, EmitEnds DEF TextOps, DataOps, LabelOps
  <2>6. addr'[e] \in Nat /\ addr[e] \in Nat
    BY <1>1, <2>4 DEF EmitsFit, TypeOK
  <2>7. ASSUME addr'[e] # 0, Filled(at, len, addr'[e] + StmtAt(c).n)
        PROVE  Refers(c, e)'
    <3>1. Fixed(e)'
      BY <1>3, <2>5, <2>7 DEF Fixed
    <3>2. ASSUME NEW b \in at..(at + len - 1)
          PROVE  b \in DOMAIN mem' /\ mem'[b] = <<addr'[e] + StmtAt(c).n, (b - at) % W>>
      BY <2>7 DEF Filled, Over
    <3> QED
      BY <1>4, <2>2, <3>1, <3>2 DEF Refers, Reads
  <2>8. CASE node = StmtAt(c) /\ EntryOf(node.name) = e
    <3>1. Addend = StmtAt(c).n /\ node.name # NoName
      BY <1>1, <1>2, <1>5, <1>7, <2>8, NoJumpAddend
    <3>2. CASE addr'[e] = 0
      <4>1. \A b \in at..(at + len - 1) : WaitsIn(uses'[e], b)
        BY <2>2, <2>8, <3>1, <3>2 DEF StoredItem, UsesAdded
      <4> QED
        BY <1>7, <2>2, <2>4, <4>1 DEF Refers, Waits
    <3>3. CASE addr'[e] # 0
      <4>1. PICK v : Filled(at, len, v) /\ v = Addend + addr'[e]
        BY <2>2, <2>8, <3>1, <3>3 DEF StoredItem
      <4>2. v = addr'[e] + StmtAt(c).n
        BY <2>4, <2>6, <3>1, <4>1
      <4> QED
        BY <1>7, <2>4, <2>7, <3>3, <4>1, <4>2
    <3> QED
      BY <3>2, <3>3
  <2>9. CASE /\ node.op \in DataOps /\ node.name = NoName
             /\ node.n = StmtAt(c).n + addr[e] /\ addr[e] # 0 /\ ~OnLine(e)
    <3>1. addr'[e] = addr[e]
      BY <1>1, <2>4, <2>9, EmitFixed
    <3>2. Addend = node.n
      BY <2>9 DEF Addend, DataOps
    <3>3. PICK v : Filled(at, len, v) /\ v = Addend + 0
      BY <2>2, <2>9 DEF StoredItem
    <3>4. v = addr'[e] + StmtAt(c).n
      BY <2>4, <2>6, <2>9, <3>1, <3>2, <3>3
    <3> QED
      BY <1>7, <2>4, <2>7, <2>9, <3>1, <3>3, <3>4
  <2> QED
    BY <2>4, <2>8, <2>9
<1> QED
  BY <1>6, <1>7

LEMMA EmitPast ==
  ASSUME EmitsFit
  PROVE  PastRight'
<1>1. Emits /\ PastRight
  BY EmitStart DEF EmitsFit, Emits, RefInv
<1>2. PICK c : c = <<file, i>>
  OBVIOUS
<1>3. phase = "emit" /\ phase' = "resolve" /\ loads' = loads /\ file' = file /\ c[1] = file
  BY <1>1, <1>2, EmitStart
<1>4. (\A d : StmtAt(d)' = StmtAt(d) /\ After(d)' = After(d)) /\ \A n : Defs(n)' = Defs(n)
  BY <1>3, SameSource, SameDefs
<1>5. SUFFICES ASSUME NEW d \in Stored', StmtAt(d).name # NoName, ~Current(d)',
                      NEW v \in Defs(StmtAt(d).name), v[1] = d[1], HasMeaning(v)',
                      NEW b \in placed'[d].at..(placed'[d].at + placed'[d].len - 1)
               PROVE  Reads(b, d, Meaning(v))'
  <2>1. \A d \in Stored' : StmtAt(d).name # NoName /\ ~Current(d)' =>
          \A v \in Defs(StmtAt(d).name) : v[1] = d[1] /\ HasMeaning(v)' =>
            \A b \in placed'[d].at..(placed'[d].at + placed'[d].len - 1) : Reads(b, d, Meaning(v))'
    BY <1>5
  <2>2. \A d : Defs(StmtAt(d).name)' = Defs(StmtAt(d).name)
    BY <1>3, <1>4
  <2> QED
    BY <1>4, <2>1, <2>2 DEF PastRight
<1>6. d # c /\ ~Current(d) /\ d[1] # file
  BY <1>3, <1>5 DEF Current
<1>7. d \in DOMAIN placed /\ placed'[d] = placed[d]
  BY <1>2, <1>5, <1>6, EmitOld DEF Stored
<1>8. d \in Stored
  BY <1>4, <1>5, <1>7 DEF Stored
<1>9. HasMeaning(v) /\ Meaning(v)' = Meaning(v)
  <2>1. v \in AllLines
    BY <1>5 DEF Defs, Named
  <2>2. After(v)[1] = v[1]
    BY <2>1, AfterCases
  <2>3. v # c /\ After(v) # c
    BY <1>3, <1>5, <1>6, <2>2
  <2>4. \A w \in {v, After(v)} : /\ w \in DOMAIN placed' <=> w \in DOMAIN placed
                                 /\ w \in DOMAIN placed => placed'[w] = placed[w]
    BY <1>2, <2>3, EmitOld
  <2> QED
    BY <1>3, <1>5, <2>4, SameMeaning
<1>10. Reads(b, d, Meaning(v))
  BY <1>1, <1>5, <1>6, <1>7, <1>8, <1>9 DEF PastRight
<1>11. b \in DOMAIN mem' /\ mem'[b] = mem[b]
  BY <1>2, <1>5, <1>7, <1>10, EmitOld DEF Reads
<1> QED
  BY <1>4, <1>7, <1>9, <1>10, <1>11 DEF Reads

LEMMA EmitRefs ==
  ASSUME AssemblerInv, AssemblerInv', SourceInv, ForgetInv, KeptInv, ImageInv, RefInv,
         SegmentsFit, SegmentsFit', ScopesClean, LiteralsClean, ReferencesClean, EmitOne
  PROVE  RefInv'
<1>1. WordsWhole'
  BY EmitWords DEF RefInv
<1>2. ASSUME ~errors'
      PROVE  /\ UsesRight' /\ ReferencesHeld' /\ PastRight'
             /\ DefsRight' /\ Origins' /\ NodesRefer' /\ ResolvesKnown'
  <2>1. Emits
    BY <1>2 DEF Emits
  <2>2. EmitsFit
    BY <2>1 DEF EmitsFit, AssemblerInv
  <2> QED
    BY <2>1, <2>2, EmitUses, EmitReferences, EmitPast, EmitDefs, EmitOrigins, EmitRefers,
           EmitResolves
<1> QED
  BY <1>1, <1>2 DEF RefInv

-----------------------------------------------------------------------------
LEMMA InitRefs == Init => RefInv
<1> SUFFICES ASSUME Init PROVE RefInv
  OBVIOUS
<1>1. /\ loads = <<>> /\ placed = <<>> /\ phase = "idle" /\ uses = [e \in Entry |-> <<>>]
      /\ pc = BASE /\ enable_data_auto_alignment = TRUE /\ resolving = NoEntry
  BY DEF Init
<1>2. WordsWhole
  BY <1>1, AssemblerAssumption DEF WordsWhole, Segments
<1>3. UsesRight
  BY <1>1 DEF UsesRight
<1>4. Stored = {}
  BY <1>1 DEF Stored
<1>5. ReferencesHeld /\ PastRight
  BY <1>4 DEF ReferencesHeld, PastRight
<1>6. DefsRight /\ Origins /\ NodesRefer /\ ResolvesKnown
  BY <1>1 DEF DefsRight, Current, Origins, NodesRefer, ResolvesKnown
<1> QED
  BY <1>2, <1>3, <1>5, <1>6 DEF RefInv

(* Between files everything that is visible has been patched in.            *)
LEMMA ReferencesDone ==
  ASSUME AssemblerInv, SourceInv, KeptInv, ImageInv, RefInv
  PROVE  ReferencesRight
<1>1. SUFFICES ASSUME phase = "idle", ~errors, NEW d \in Stored, NEW n, n = StmtAt(d).name,
                      n # NoName, NEW v \in Visible(n, d[1]), Visible(n, d[1]) = {v}, HasMeaning(v),
                      NEW b \in placed[d].at..(placed[d].at + placed[d].len - 1)
               PROVE  mem[b] = <<Meaning(v) + StmtAt(d).n, (b - placed[d].at) % W>>
  BY <1>1 DEF ReferencesRight, Holds
<1>2. n \in Names /\ ~Current(d)
  BY <1>1, StoredLine DEF ImageInv, Current
<1>3. PastRight /\ ReferencesHeld
  BY <1>1 DEF RefInv
<1>4. PICK own : own = {x \in Defs(n) : x[1] = d[1]}
  OBVIOUS
<1>5. PICK others : others = {x \in Defs(n) : x[1] # d[1]}
  OBVIOUS
<1>6. Visible(n, d[1]) =
        IF own # {} THEN own ELSE IF \A x \in others : IsGlobal(x) THEN others ELSE {}
  BY <1>4, <1>5 DEF Visible
<1>7. CASE own # {}
  <2>1. v \in Defs(n) /\ v[1] = d[1]
    BY <1>1, <1>4, <1>6, <1>7
  <2>2. Reads(b, d, Meaning(v))
    BY <1>1, <1>2, <1>3, <2>1 DEF PastRight
  <2> QED
    BY <2>2 DEF Reads
<1>8. CASE own = {}
  <2>1. (\A x \in others : IsGlobal(x)) /\ others = {v}
    BY <1>1, <1>6, <1>8
  <2>2. Defs(n) = {v} /\ IsGlobal(v)
    BY <1>4, <1>5, <1>8, <2>1
  <2>3. First(n, v)
    BY <2>2, OnlyFirst
  <2>4. v \in Named(n) /\ v \in AllLines /\ Emitted(v)
    BY <1>1, <2>3 DEF First, Named, Emitted
  <2>5. Found(n, v)
    BY <1>1, <1>2, <2>3, <2>4 DEF KeptInv
  <2>6. PICK e : e = <<n, table[n]>>
    OBVIOUS
  <2>7. Stands(e, v)
    BY <2>5, <2>6 DEF Found, Standing
  <2>8. addr[e] # 0 /\ addr[e] = Meaning(v)
    BY <1>1, <2>4, <2>7, StandsMeaning
  <2>9. Live(d)
    BY <1>1, <2>3, <2>4 DEF Live, Shared
  <2>10. PICK x \in Entry : x[1] = StmtAt(d).name /\ table[x[1]] = x[2] /\ Refers(d, x)
    BY <1>1, <1>3, <2>9 DEF ReferencesHeld
  <2>11. x = e
    BY <1>1, <2>6, <2>10, EntryPair
  <2>12. this_line_labels = <<>> /\ resolving = NoEntry
    BY <1>1 DEF AssemblerInv, LineOpen
  <2>13. ~Waits(b, e)
    BY <2>8, <2>10, <2>11, <2>12, NothingWaits
  <2>14. Reads(b, d, addr[e])
    BY <2>10, <2>11, <2>13 DEF Refers
  <2> QED
    BY <2>8, <2>14 DEF Reads
<1> QED
  BY <1>7, <1>8

\* The image is what the source says, however symbols are used and defined and
\* in whatever order the files come: what a file refers to holds the place of
\* the one definition it sees, and literals are as they were written
\* (record_*_uses_symbol, resolve_a_label_sub, fix_current_label_address).  The
\* files begin with a segment directive and declare symbols before they define
\* them; a jump has no addend and no constant is 0; a reference to what is
\* defined later is an instruction in a text segment or an aligned word of data
\* without addend; and no segment grows into another one.
THEOREM ImageAlways ==
  ASSUME ScopesClean, LiteralsClean, ReferencesClean
  PROVE  Spec /\ []SegmentsFit => []ImageRight
<1>1. Init => SourceInv /\ ForgetInv /\ KeptInv /\ ImageInv /\ RefInv
  BY InitForget, InitKept, InitImage, InitRefs
<1>2. AssemblerInv /\ SourceInv /\ ForgetInv /\ KeptInv /\ [Next]_vars =>
        (SourceInv /\ ForgetInv /\ KeptInv)'
  BY StepSource, StepForget, StepKept
<1>3. AssemblerInv /\ AssemblerInv' /\ SourceInv /\ ForgetInv /\ ImageInv /\ SegmentsFit /\ SegmentsFit'
        /\ [Next]_vars => ImageInv'
  BY StepImage
<1>4. AssemblerInv /\ AssemblerInv' /\ SourceInv /\ ForgetInv /\ KeptInv /\ ImageInv /\ RefInv
        /\ SegmentsFit /\ SegmentsFit' /\ [Next]_vars => RefInv'
  BY EmitRefs, RestRefs, ParseRefs DEF Next, Loading, Rest
<1>5. AssemblerInv /\ SourceInv /\ KeptInv /\ ImageInv /\ RefInv => ReferencesRight
  BY ReferencesDone
<1> QED
  BY <1>1, <1>2, <1>3, <1>4, <1>5, AssemblerInvariant, LiteralsStay, PTL DEF Spec, ImageRight
=============================================================================
