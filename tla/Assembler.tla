----------------------------- MODULE Assembler -----------------------------
(***************************************************************************)
(* Loading assembly files: the symbol table (symbol-table.c), the location *)
(* counters (data.c, instruction.c) and the two phases of parser.c, which  *)
(* builds the tree of a whole file and only then emits it node by node.    *)
(*                                                                         *)
(* A file is a sequence of statements.  A statement has an op, a name (or  *)
(* NoName) and a number: the value of a constant, the addend of a          *)
(* reference, a literal, or a size.  A word is W bytes and 16-bit fields   *)
(* hold the values below HALF.  Memory maps the address of a byte to a     *)
(* value and the index of the byte in it.                                  *)
(*                                                                         *)
(* The symbol table entry of a name is created by the first lookup in a    *)
(* file and dropped no earlier than the end of a file, so an entry is the  *)
(* pair of the name and the number of the file that created it.            *)
(*                                                                         *)
(* phase is the place in read_assembly_file:                               *)
(*   idle      between files                                               *)
(*   emit      emit_ast is about to emit node i (or has emitted them all)  *)
(*   resolve   node i is emitted; uses of resolving, then of the labels of *)
(*             the line, are being patched                                 *)
(*   flush     flush_local_labels walks the list of local labels           *)
(***************************************************************************)
EXTENDS Integers, Sequences, FiniteSets

CONSTANTS
  Names, NoName,
  NoEntry,           \* the null pointer to a symbol table entry
  Files,             \* the files that may be loaded
  Together,          \* the ones that may be loaded together with others
  MaxFiles,          \* bound on the number of files loaded
  W,                 \* bytes in a word
  HALF,              \* values below this fit an immediate field
  BASE               \* where each segment starts

Segments    == {"text", "data", "ktext", "kdata"}
TextOps     == {"jump", "la"}
DataOps     == {"word", "byte"}
Items       == TextOps \cup DataOps \cup {"space", "comm", "extern"}
LabelOps    == {"label", "const"}
Definitions == LabelOps \cup {"comm", "extern"}
Ops == Items \cup LabelOps \cup Segments \cup {"globl", "align", "align0", "error"}

Stmt  == [op : Ops, name : Names \cup {NoName}, n : Nat]
Entry == Names \X (1..MaxFiles)
Use   == [at : Nat, op : TextOps \cup {"data"}, off : Nat]

ASSUME AssemblerAssumption ==
  /\ NoName \notin Names /\ NoEntry \notin Entry
  /\ MaxFiles \in Nat /\ W \in Nat \ {0} /\ HALF \in Nat \ {0}
  /\ BASE \in [Segments -> Nat \ {0}]
  /\ \A s, t \in Segments : s # t => BASE[s] # BASE[t]
  /\ \A s \in Segments : BASE[s] % W = 0
  /\ Files \subseteq Seq(Stmt) /\ Together \subseteq Files
  /\ \A f \in Files : \A k \in 1..Len(f) :
       f[k].op \in Definitions \cup {"globl"} => f[k].name \in Names

VARIABLES
  table,             \* the hash table: file that created the entry, 0 if none
  addr, global_flag, uses, next_local,   \* the entries
  local_labels, this_line_labels,
  dir,               \* data_dir and text_dir
  text_kernel, data_kernel,  \* in_kernel of instruction.c and of data.c
  pc,                \* next_text_pc, next_data_pc, next_k_text_pc, next_k_data_pc
  enable_data_auto_alignment,
  mem,
  ast, i, phase, resolving, cursor,
  errors,            \* an error has been reported
  loads,             \* history: the source of the files loaded so far
  placed             \* history: where each item of each file has been put

entryVars == <<addr, global_flag, uses, next_local, local_labels>>
counterVars == <<dir, text_kernel, data_kernel, pc, enable_data_auto_alignment>>
vars == <<table, entryVars, this_line_labels, counterVars, mem,
          ast, i, phase, resolving, cursor, errors, loads, placed>>

Init ==
  /\ table = [n \in Names |-> 0]
  /\ addr = [e \in Entry |-> 0]
  /\ global_flag = [e \in Entry |-> FALSE]
  /\ uses = [e \in Entry |-> <<>>]
  /\ next_local = [e \in Entry |-> NoEntry]
  /\ local_labels = NoEntry /\ this_line_labels = <<>>
  /\ dir = "text" /\ text_kernel = FALSE /\ data_kernel = FALSE
  /\ pc = BASE /\ enable_data_auto_alignment = TRUE
  /\ mem = <<>>
  /\ ast = <<>> /\ i = 1 /\ phase = "idle"
  /\ resolving = NoEntry /\ cursor = NoEntry /\ errors = FALSE
  /\ loads = <<>> /\ placed = <<>>

file == Len(loads)           \* the number of the file being loaded
node == ast[i]
TextSeg == IF text_kernel THEN "ktext" ELSE "text"
DataSeg == IF data_kernel THEN "kdata" ELSE "data"

Aligned(a) == ((a + W - 1) \div W) * W

\* The function m with f's values where f is defined.
Over(m, f) == [x \in DOMAIN m \cup DOMAIN f |-> IF x \in DOMAIN f THEN f[x] ELSE m[x]]

\* The bytes of value v, len of them, stored from address a.
Bytes(a, len, v) == [b \in a..(a + len - 1) |-> <<v, b - a>>]

\* The top four bits of an address tell the segment.
HighBits(a) == Cardinality({s \in Segments \ {"text"} : BASE[s] <= a})

Place(seg, at, len) ==
  placed' = Over(placed, [k \in {<<file, i>>} |-> [seg |-> seg, at |-> at, len |-> len]])

-----------------------------------------------------------------------------
(* The symbol table. *)

\* The entry that lookup_label returns for a name in the file being loaded.
EntryOf(n) == <<n, IF table[n] = 0 THEN file ELSE table[n]>>

lookup_label(n) == table' = [table EXCEPT ![n] = EntryOf(n)[2]]

\* Mutant: a global label is put on the list of local labels too.
record_label_listed(e, a, global, known) ==
  IF known[e] # 0
  THEN /\ errors' = TRUE /\ addr' = known
       /\ UNCHANGED <<next_local, local_labels>>
  ELSE /\ addr' = [known EXCEPT ![e] = a] /\ UNCHANGED errors
       /\ next_local' = [next_local EXCEPT ![e] = local_labels]
       /\ local_labels' = e

\* Mutant: the test for a second definition only reports it.
record_label_again(e, a, global, known) ==
  /\ errors' = (errors \/ known[e] # 0)
  /\ addr' = [known EXCEPT ![e] = a]
  /\ IF global
     THEN UNCHANGED <<next_local, local_labels>>
     ELSE next_local' = [next_local EXCEPT ![e] = local_labels] /\ local_labels' = e

\* Define entry e at address a.  known is addr after the changes the caller
\* has made in the same step.  Resolving the uses is left to the caller.
record_label(e, a, global, known) ==
  IF known[e] # 0
  THEN /\ errors' = TRUE /\ addr' = known
       /\ UNCHANGED <<next_local, local_labels>>
  ELSE /\ addr' = [known EXCEPT ![e] = a] /\ UNCHANGED errors
       /\ IF global
          THEN UNCHANGED <<next_local, local_labels>>
          ELSE next_local' = [next_local EXCEPT ![e] = local_labels] /\ local_labels' = e

OnLine(e) == \E k \in 1..Len(this_line_labels) : this_line_labels[k] = e

\* The labels of the line follow the counter to address a.
fix_current_label_address(a) == [e \in Entry |-> IF OnLine(e) THEN a ELSE addr[e]]

-----------------------------------------------------------------------------
(* The parse phase. *)

\* The last segment directive among the first k statements of f.
SegmentAt(f, k) ==
  LET dirs == {j \in 1..k : f[j].op \in Segments}
  IN  IF dirs = {} THEN "text" ELSE f[CHOOSE j \in dirs : \A l \in dirs : l <= j].op

IsData(seg) == seg \in {"data", "kdata"}

\* The names that the parser looks up: those of expressions.
Referenced(f) == {f[k].name : k \in {j \in 1..Len(f) : f[j].op \in TextOps \cup DataOps \cup {"space"}}} \ {NoName}

\* The address of a name at parse time, 0 if it is not known yet.
AddressNow(n) == IF n = NoName THEN 0 ELSE IF table[n] = 0 THEN 0 ELSE addr[<<n, table[n]>>]

\* What the parser makes of a statement.  parse_factor replaces a name in a
\* data expression or a size by its address if it has one by now; otherwise a
\* datum keeps a reference to the entry and a size loses it.
Node(s, seg) ==
  IF s.op = "space" /\ ~IsData(seg)
  THEN [s EXCEPT !.op = "error"]
  ELSE IF s.op = "space" \/ (s.op \in DataOps /\ AddressNow(s.name) # 0)
       THEN [s EXCEPT !.name = NoName, !.n = @ + AddressNow(s.name)]
       ELSE s

\* parser_init and parse_file up to emit_ast.  The segment flags are left as
\* the last directive of the file has set them, and a word aligns the data
\* counter already here.
Parse(f) ==
  /\ ast' = [k \in 1..Len(f) |-> Node(f[k], SegmentAt(f, k))]
  /\ table' = [n \in Names |-> IF table[n] = 0 /\ n \in Referenced(f) THEN file + 1 ELSE table[n]]
  /\ dir' = IF IsData(SegmentAt(f, Len(f))) THEN "data" ELSE "text"
  /\ pc' = IF enable_data_auto_alignment /\ \E k \in 1..Len(f) : f[k].op = "word" /\ IsData(SegmentAt(f, k))
           THEN [pc EXCEPT ![DataSeg] = Aligned(@)] ELSE pc
  /\ errors' = (errors \/ \E k \in 1..Len(f) : ast'[k].op = "error")
  /\ loads' = Append(loads, f)
  /\ i' = 1 /\ phase' = "emit"
  /\ UNCHANGED <<entryVars, this_line_labels, text_kernel, data_kernel,
                 enable_data_auto_alignment, mem, resolving, cursor, placed>>

-----------------------------------------------------------------------------
(* The emit phase: emit_one, by the kind of the node. *)

Emit(op) == phase = "emit" /\ i <= Len(ast) /\ node.op = op /\ phase' = "resolve"

\* Mutant: the kernel's text segment is not selected.
EmitSegment_user ==
  \E seg \in Segments :
  /\ Emit(seg)
  /\ dir' = IF IsData(seg) THEN "data" ELSE "text"
  /\ data_kernel' = (seg = "kdata")
  /\ UNCHANGED <<table, entryVars, this_line_labels, text_kernel, pc, mem, ast, i, resolving,
                 enable_data_auto_alignment, cursor, errors, loads, placed>>

EmitSegment ==
  \E seg \in Segments :
  /\ Emit(seg)
  /\ dir' = IF IsData(seg) THEN "data" ELSE "text"
  /\ IF IsData(seg)
     THEN /\ data_kernel' = (seg = "kdata") /\ enable_data_auto_alignment' = TRUE
          /\ UNCHANGED text_kernel
     ELSE text_kernel' = (seg = "ktext") /\ UNCHANGED <<data_kernel, enable_data_auto_alignment>>
  /\ UNCHANGED <<table, entryVars, this_line_labels, pc, mem, ast, i, resolving, cursor,
                 errors, loads, placed>>

\* Mutant: the data counter is aligned whatever the segment.
EmitAlign_data ==
  /\ Emit("align")
  /\ pc' = [pc EXCEPT ![DataSeg] = Aligned(@)]
  /\ addr' = fix_current_label_address(Aligned(pc[DataSeg]))
  /\ Place(DataSeg, Aligned(pc[DataSeg]), 0)
  /\ UNCHANGED <<table, global_flag, uses, next_local, local_labels, this_line_labels,
                 dir, text_kernel, data_kernel, enable_data_auto_alignment, mem, ast, i,
                 resolving, cursor, errors, loads>>

EmitAlign ==
  /\ Emit("align")
  /\ LET seg == IF dir = "text" THEN TextSeg ELSE DataSeg
     IN  /\ pc' = [pc EXCEPT ![seg] = Aligned(@)]
         /\ addr' = fix_current_label_address(Aligned(pc[seg]))
         /\ Place(seg, Aligned(pc[seg]), 0)
  /\ UNCHANGED <<table, global_flag, uses, next_local, local_labels, this_line_labels,
                 dir, text_kernel, data_kernel, enable_data_auto_alignment, mem, ast, i,
                 resolving, cursor, errors, loads>>

\* .align 0; the flag of the text segment is never read.
EmitAlign0 ==
  /\ Emit("align0")
  /\ enable_data_auto_alignment' = (enable_data_auto_alignment /\ dir = "text")
  /\ UNCHANGED <<table, entryVars, this_line_labels, dir, text_kernel, data_kernel, pc,
                 mem, ast, i, resolving, cursor, errors, loads, placed>>

EmitSpace ==
  /\ Emit("space")
  /\ pc' = [pc EXCEPT ![DataSeg] = @ + node.n]
  /\ Place(DataSeg, pc[DataSeg], node.n)
  /\ UNCHANGED <<table, entryVars, this_line_labels, dir, text_kernel, data_kernel,
                 enable_data_auto_alignment, mem, ast, i, resolving, cursor, errors, loads>>

\* make_label_global
EmitGlobl ==
  /\ Emit("globl")
  /\ lookup_label(node.name)
  /\ global_flag' = [global_flag EXCEPT ![EntryOf(node.name)] = TRUE]
  /\ UNCHANGED <<addr, uses, next_local, local_labels, this_line_labels, counterVars, mem,
                 ast, i, resolving, cursor, errors, loads, placed>>

EmitExtern ==
  /\ Emit("extern")
  /\ LET e == EntryOf(node.name) IN
     /\ lookup_label(node.name)
     /\ global_flag' = [global_flag EXCEPT ![e] = TRUE]
     /\ IF addr[e] = 0
        THEN record_label(e, pc[DataSeg], TRUE, addr) /\ resolving' = e
        ELSE UNCHANGED <<addr, next_local, local_labels, errors, resolving>>
  /\ pc' = [pc EXCEPT ![DataSeg] = @ + node.n]
  /\ Place(DataSeg, pc[DataSeg], node.n)
  /\ UNCHANGED <<uses, this_line_labels, dir, text_kernel, data_kernel,
                 enable_data_auto_alignment, mem, ast, i, cursor, loads>>

\* .comm aligns the data counter, and with it the labels of the line.
EmitComm ==
  /\ Emit("comm")
  /\ LET e     == EntryOf(node.name)
         start == Aligned(pc[DataSeg])
         fixed == fix_current_label_address(start)
     IN  /\ lookup_label(node.name)
         /\ IF fixed[e] = 0
            THEN record_label(e, start, global_flag[e], fixed) /\ resolving' = e
            ELSE addr' = fixed /\ UNCHANGED <<next_local, local_labels, errors, resolving>>
         /\ pc' = [pc EXCEPT ![DataSeg] = start + node.n]
         /\ Place(DataSeg, start, node.n)
  /\ UNCHANGED <<global_flag, uses, this_line_labels, dir, text_kernel, data_kernel,
                 enable_data_auto_alignment, mem, ast, i, cursor, loads>>

\* Mutant: the use is recorded at the counter before alignment.
DataUse_early(start, off) == [at |-> pc[DataSeg], op |-> "data", off |-> off]

\* record_data_uses_symbol
DataUse(start, off) == [at |-> start, op |-> "data", off |-> off]

\* One datum of emit_data_int_node.  In a text segment it goes to the data
\* segment too, unaligned.
EmitData(op) ==
  /\ Emit(op)
  /\ LET align == op = "word" /\ dir = "data" /\ enable_data_auto_alignment
         start == IF align THEN Aligned(pc[DataSeg]) ELSE pc[DataSeg]
         len   == IF op = "word" THEN W ELSE 1
         e     == EntryOf(node.name)
     IN  /\ addr' = IF align THEN fix_current_label_address(start) ELSE addr
         /\ IF node.name # NoName /\ addr'[e] = 0
            THEN /\ uses' = [uses EXCEPT ![e] = <<DataUse(start, node.n)>> \o @]
                 /\ mem' = Over(mem, Bytes(start, len, node.n))
            ELSE /\ mem' = Over(mem, Bytes(start, len,
                             node.n + IF node.name = NoName THEN 0 ELSE addr'[e]))
                 /\ UNCHANGED uses
         /\ pc' = [pc EXCEPT ![DataSeg] = start + len]
         /\ Place(DataSeg, start, len)
  /\ UNCHANGED <<table, global_flag, next_local, local_labels, this_line_labels,
                 dir, text_kernel, data_kernel, enable_data_auto_alignment, ast, i,
                 resolving, cursor, errors, loads>>

EmitLabel ==
  /\ Emit("label")
  /\ LET e == EntryOf(node.name) IN
     /\ lookup_label(node.name)
     /\ record_label(e, pc[IF dir = "text" THEN TextSeg ELSE DataSeg], global_flag[e], addr)
     /\ this_line_labels' = <<e>> \o this_line_labels
  /\ UNCHANGED <<global_flag, uses, counterVars, mem, ast, i, resolving, cursor, loads, placed>>

\* Mutant: the uses are left for the end of the line, where a constant is not
\* among the labels.
EmitConst_unresolved ==
  /\ Emit("const")
  /\ LET e == EntryOf(node.name) IN
     /\ lookup_label(node.name)
     /\ record_label(e, node.n, global_flag[e], addr)
  /\ UNCHANGED <<global_flag, uses, this_line_labels, counterVars, mem, ast, i, resolving,
                 cursor, loads, placed>>

\* name = value.  A second definition returns before the uses are resolved.
EmitConst ==
  /\ Emit("const")
  /\ LET e == EntryOf(node.name) IN
     /\ lookup_label(node.name)
     /\ record_label(e, node.n, global_flag[e], addr)
     /\ resolving' = IF addr[e] = 0 THEN e ELSE resolving
  /\ UNCHANGED <<global_flag, uses, this_line_labels, counterVars, mem, ast, i, cursor,
                 loads, placed>>

\* The words that load the value v: one if it fits a half, else two.
la_words(v) == IF v < HALF \/ v % HALF = 0 THEN 1 ELSE 2

\* Mutant: the use is recorded after the instruction is stored.
InstUse_late(at, op, off) == [at |-> at + W, op |-> op, off |-> off]

\* record_inst_uses_symbol
InstUse(at, op, off) == [at |-> at, op |-> op, off |-> off]

\* j_type_inst (which drops the addend) and i_type_inst for la.  An unknown
\* value takes the longest form.
EmitInst(op) ==
  /\ Emit(op)
  /\ LET seg     == IF dir = "text" THEN TextSeg ELSE DataSeg
         at      == pc[seg]
         e       == EntryOf(node.name)
         off     == IF op = "jump" THEN 0 ELSE node.n
         unknown == node.name # NoName /\ addr[e] = 0
         v       == off + IF node.name = NoName \/ unknown THEN 0 ELSE addr[e]
         words   == IF op = "jump" THEN 1 ELSE IF unknown THEN 2 ELSE la_words(v)
         UseAt(k) == InstUse(at + k * W, op, off)
     IN  /\ uses' = IF ~unknown THEN uses
                    ELSE [uses EXCEPT ![e] =
                            (IF words = 1 THEN <<UseAt(0)>> ELSE <<UseAt(1), UseAt(0)>>) \o @]
         /\ mem' = Over(mem, [b \in at..(at + words * W - 1) |-> <<v, (b - at) % W>>])
         /\ errors' = (errors \/ (op = "jump" /\ ~unknown /\ HighBits(v) # HighBits(at)))
         /\ pc' = [pc EXCEPT ![seg] = at + words * W]
         /\ Place(seg, at, words * W)
  /\ UNCHANGED <<table, addr, global_flag, next_local, local_labels, this_line_labels,
                 dir, text_kernel, data_kernel, enable_data_auto_alignment, ast, i,
                 resolving, cursor, loads>>

\* A statement rejected by the parser has left no node.
EmitNothing ==
  /\ Emit("error")
  /\ UNCHANGED <<table, entryVars, this_line_labels, counterVars, mem, ast, i, resolving,
                 cursor, errors, loads, placed>>

EmitOne ==
  \/ EmitSegment \/ EmitAlign \/ EmitAlign0 \/ EmitSpace \/ EmitGlobl \/ EmitExtern
  \/ EmitComm \/ (\E op \in DataOps : EmitData(op)) \/ EmitLabel \/ EmitConst
  \/ (\E op \in TextOps : EmitInst(op)) \/ EmitNothing

-----------------------------------------------------------------------------
(* Patching the forward references, and the end of the file. *)

\* What resolve_a_label_sub stores: the address, with the addend only for an
\* instruction.
patched(e, u) == addr[e] + IF u.op = "data" THEN 0 ELSE u.off

\* The address a is in the segment seg, as long as no segment grows into the next.
InSegment(a, seg) == \A s \in Segments : BASE[s] <= a <=> BASE[s] <= BASE[seg]

\* Whether the patch of the use u gets to memory.  The words of the text segments
\* are the instructions themselves, those of data are written by mem_write_word,
\* which loses an unaligned one; and an instruction in kernel data is a copy that
\* resolve_label_uses does not write again.
Reaches(u) ==
  /\ u.op = "data" \/ InSegment(u.at, "data") => u.at % W = 0
  /\ u.op # "data" => ~InSegment(u.at, "kdata")

\* One use of resolve_label_uses.  An instruction whose symbol still has
\* address 0 is reported and dropped.  A jump and la stand for the instructions
\* that name a symbol: the offsets of branches, the carry of a load into its lui
\* and the range of an immediate field are left out.
ResolveOne ==
  /\ phase = "resolve" /\ resolving # NoEntry /\ uses[resolving] # <<>>
  /\ LET u == Head(uses[resolving])
         v == patched(resolving, u)
     IN  IF u.op # "data" /\ addr[resolving] = 0
         THEN errors' = TRUE /\ UNCHANGED mem
         ELSE /\ errors' = (errors \/ (u.op = "jump" /\ HighBits(v) # HighBits(u.at)))
              /\ mem' = IF Reaches(u) THEN Over(mem, Bytes(u.at, W, v)) ELSE mem
  /\ uses' = [uses EXCEPT ![resolving] = Tail(@)]
  /\ UNCHANGED <<table, addr, global_flag, next_local, local_labels, this_line_labels,
                 counterVars, ast, i, phase, resolving, cursor, loads, placed>>

ResolveDone ==
  /\ phase = "resolve" /\ resolving # NoEntry /\ uses[resolving] = <<>>
  /\ resolving' = NoEntry
  /\ UNCHANGED <<table, entryVars, this_line_labels, counterVars, mem, ast, i, phase, cursor,
                 errors, loads, placed>>

\* Labels, constants and .globl do not end the line.
EndsLine == IF i > Len(ast) THEN TRUE ELSE node.op \notin LabelOps \cup {"globl", "error"}

\* clear_labels: the labels of the line are resolved one by one.
ClearNext ==
  /\ phase = "resolve" /\ resolving = NoEntry /\ EndsLine /\ this_line_labels # <<>>
  /\ resolving' = Head(this_line_labels) /\ this_line_labels' = Tail(this_line_labels)
  /\ UNCHANGED <<table, entryVars, counterVars, mem, ast, i, phase, cursor,
                 errors, loads, placed>>

\* Mutant: a node is skipped.
NextNode_skip ==
  /\ phase = "resolve" /\ resolving = NoEntry /\ (EndsLine => this_line_labels = <<>>)
  /\ IF i > Len(ast)
     THEN phase' = "flush" /\ cursor' = local_labels /\ UNCHANGED i
     ELSE phase' = "emit" /\ i' = i + 2 /\ UNCHANGED cursor
  /\ UNCHANGED <<table, entryVars, this_line_labels, counterVars, mem, ast, resolving,
                 errors, loads, placed>>

\* On to the next node; after the last one the labels left are cleared too.
NextNode ==
  /\ phase = "resolve" /\ resolving = NoEntry /\ (EndsLine => this_line_labels = <<>>)
  /\ IF i > Len(ast)
     THEN phase' = "flush" /\ cursor' = local_labels /\ UNCHANGED i
     ELSE phase' = "emit" /\ i' = i + 1 /\ UNCHANGED cursor
  /\ UNCHANGED <<table, entryVars, this_line_labels, counterVars, mem, ast, resolving,
                 errors, loads, placed>>

EndEmit ==
  /\ phase = "emit" /\ i > Len(ast)
  /\ phase' = "resolve"
  /\ UNCHANGED <<table, entryVars, this_line_labels, counterVars, mem, ast, i, resolving,
                 cursor, errors, loads, placed>>

\* Mutant: the flush ends at the first label.
FlushOne_first ==
  /\ phase = "flush" /\ cursor # NoEntry
  /\ table' = [table EXCEPT ![cursor[1]] = 0]
  /\ cursor' = NoEntry
  /\ UNCHANGED <<entryVars, this_line_labels, counterVars, mem, ast, i, phase, resolving,
                 errors, loads, placed>>

\* The entry is searched by name.
FlushOne ==
  /\ phase = "flush" /\ cursor # NoEntry
  /\ table' = [table EXCEPT ![cursor[1]] = 0]
  /\ cursor' = next_local[cursor]
  /\ UNCHANGED <<entryVars, this_line_labels, counterVars, mem, ast, i, phase, resolving,
                 errors, loads, placed>>

\* end_of_assembly_file
FlushDone ==
  /\ phase = "flush" /\ cursor = NoEntry
  /\ local_labels' = NoEntry
  /\ data_kernel' = FALSE /\ enable_data_auto_alignment' = TRUE
  /\ phase' = "idle"
  /\ UNCHANGED <<table, addr, global_flag, uses, next_local, this_line_labels, dir,
                 text_kernel, pc, mem, ast, i, resolving, cursor, errors, loads, placed>>

Loading == EmitOne \/ ResolveOne \/ ResolveDone \/ ClearNext \/ NextNode \/ EndEmit
           \/ FlushOne \/ FlushDone

\* Bound: any file first, and several in a row only of the short ones.
Loadable ==
  IF loads = <<>> THEN Files
  ELSE IF \A k \in 1..Len(loads) : loads[k] \in Together THEN Together ELSE {}

read_assembly_file ==
  phase = "idle" /\ file < MaxFiles /\ \E f \in Loadable : Parse(f)

Next == read_assembly_file \/ Loading

Spec == Init /\ [][Next]_vars

\* A file is read to its end: the loader runs in one thread.
FairSpec == Spec /\ WF_vars(Loading)

-----------------------------------------------------------------------------
(* What the source says, read off the text of the files without the symbol *)
(* table.                                                                  *)

Lines(f) == {<<f, k>> : k \in 1..Len(loads[f])}
AllLines == UNION {Lines(f) : f \in 1..Len(loads)}
StmtAt(d) == loads[d[1]][d[2]]
SourceSeg(d) == SegmentAt(loads[d[1]], d[2])

\* Declared global in its own file or in one loaded before.
IsGlobal(d) ==
  \E c \in AllLines : /\ StmtAt(c).op \in {"globl", "extern"}
                     /\ StmtAt(c).name = StmtAt(d).name /\ c[1] <= d[1]

\* The statements that may define n, and the definitions of n: a .comm or
\* .extern is one only if there is no other before it.
Named(n) == {d \in AllLines : StmtAt(d).op \in Definitions /\ StmtAt(d).name = n}

Defs(n) ==
  {d \in Named(n) : StmtAt(d).op \notin LabelOps =>
     \A c \in Named(n) : (c[1] < d[1] => ~IsGlobal(c)) /\ (c[1] = d[1] => c[2] >= d[2])}

\* The definitions of n that file f sees: its own, or else the global ones.
\* Empty as well when another file has a local definition of n.
Visible(n, f) ==
  LET own    == {d \in Defs(n) : d[1] = f}
      others == {d \in Defs(n) : d[1] # f}
  IN  IF own # {} THEN own ELSE IF \A d \in others : IsGlobal(d) THEN others ELSE {}

\* The statement that ends the line a label is on.
After(d) ==
  LET later == {k \in (d[2] + 1)..Len(loads[d[1]]) :
                  loads[d[1]][k].op \notin LabelOps \cup {"globl"}}
  IN  IF later = {} THEN d ELSE <<d[1], CHOOSE k \in later : \A l \in later : k <= l>>

\* Files in which a segment directive comes first; those in which, besides,
\* nothing is declared global after it is defined and no constant is 0; and
\* those in which data and .comm are in data segments.
DirectiveFirst == \A f \in Files : f # <<>> => f[1].op \in Segments

ScopesClean ==
  DirectiveFirst /\ \A f \in Files :
    /\ \A k \in 1..Len(f) : f[k].op = "const" => f[k].n # 0
    /\ \A j, k \in 1..Len(f) :
         j < k /\ f[j].op \in Definitions /\ f[k].op \in {"globl", "extern"} =>
           f[j].name # f[k].name

SegmentsClean ==
  DirectiveFirst /\ \A f \in Files : \A k \in 1..Len(f) :
    f[k].op \in DataOps \cup {"comm"} => IsData(SegmentAt(f, k))

\* Files in which a jump names its target or has no addend, no constant is 0,
\* and a byte names only symbols that are defined before it.
LiteralsClean ==
  \A f \in Files : \A k \in 1..Len(f) :
    /\ f[k].op = "jump" /\ f[k].name = NoName => f[k].n = 0
    /\ f[k].op = "const" => f[k].n # 0
    /\ f[k].op = "byte" /\ f[k].name # NoName =>
         \E j \in 1..(k - 1) : f[j].op \in Definitions /\ f[j].name = f[k].name

\* Files in which a jump has no addend; and what refers to a symbol that is not
\* defined before it is a whole aligned word of data without addend, or an
\* instruction in a text segment.
ReferencesClean ==
  \A f \in Files : \A k \in 1..Len(f) :
    /\ f[k].op = "jump" => f[k].n = 0
    /\ \/ f[k].name = NoName
       \/ \E j \in 1..(k - 1) : f[j].op \in Definitions /\ f[j].name = f[k].name
       \/ /\ f[k].op \in TextOps => ~IsData(SegmentAt(f, k))
          /\ f[k].op \in DataOps =>
               /\ f[k].op = "word" /\ f[k].n = 0 /\ IsData(SegmentAt(f, k))
               /\ \A j \in 1..k : f[j].op # "align0"

\* The definition d has a place: it is a constant, allocates space itself, or
\* is a label before an item, or an .align, of its own segment.
HasMeaning(d) ==
  \/ StmtAt(d).op = "const"
  \/ StmtAt(d).op # "label" /\ d \in DOMAIN placed
  \/ /\ StmtAt(d).op = "label" /\ After(d) \in DOMAIN placed
     /\ placed[After(d)].seg = SourceSeg(d)

Meaning(d) ==
  CASE StmtAt(d).op = "const" -> StmtAt(d).n
    [] StmtAt(d).op = "label" -> placed[After(d)].at
    [] OTHER -> placed[d].at

\* The item d holds the value v in each of its words.
Holds(d, v) ==
  \A b \in placed[d].at..(placed[d].at + placed[d].len - 1) :
    mem[b] = <<v, (b - placed[d].at) % W>>

Stored == {d \in DOMAIN placed : StmtAt(d).op \in TextOps \cup DataOps}
-----------------------------------------------------------------------------
(* Properties. *)

\* The state the assembler can be in: counters and entries in range, the node
\* to emit within the tree, a file open unless idle (symbol-table.h, emit_ast).
TypeOK ==
  /\ table \in [Names -> 0..MaxFiles]
  /\ addr \in [Entry -> Nat] /\ global_flag \in [Entry -> BOOLEAN]
  /\ uses \in [Entry -> Seq(Use)]
  /\ next_local \in [Entry -> Entry \cup {NoEntry}]
  /\ local_labels \in Entry \cup {NoEntry} /\ this_line_labels \in Seq(Entry)
  /\ dir \in {"text", "data"} /\ text_kernel \in BOOLEAN /\ data_kernel \in BOOLEAN
  /\ pc \in [Segments -> Nat] /\ enable_data_auto_alignment \in BOOLEAN
  /\ ast \in Seq(Stmt) /\ i \in 1..(Len(ast) + 1)
  /\ phase \in {"idle", "emit", "resolve", "flush"}
  /\ resolving \in Entry \cup {NoEntry} /\ cursor \in Entry \cup {NoEntry}
  /\ errors \in BOOLEAN
  /\ loads \in Seq(Seq(Stmt)) /\ Len(loads) <= MaxFiles
  /\ phase # "idle" => Len(loads) > 0

\* A forward reference is never forgotten (resolve_label_uses, clear_labels):
\* uses wait only on an undefined symbol, on a label of the current line or
\* on the one being resolved; so between files only on undefined symbols.
NoDanglingUse ==
  \A e \in Entry :
    uses[e] # <<>> => addr[e] = 0 \/ e = resolving \/ OnLine(e)

\* What NoDanglingUse rests on: nodes that define a symbol name it, a label is
\* being resolved only between two nodes, and the line is empty at the end of
\* the file.
NodesNamed ==
  \A k \in 1..Len(ast) : ast[k].op \in Definitions \cup {"globl"} => ast[k].name \in Names
LineOpen ==
  /\ phase # "resolve" => resolving = NoEntry
  /\ phase \in {"idle", "flush"} => this_line_labels = <<>>
AssemblerInv == TypeOK /\ NodesNamed /\ LineOpen /\ NoDanglingUse

\* The memory image means what the source says: every reference whose symbol
\* has one visible definition holds the place of what the definition stands
\* for, plus the addend, whichever came first and in whichever file
\* (record_*_uses_symbol, resolve_a_label_sub, fix_current_label_address).
ReferencesRight ==
  phase = "idle" /\ ~errors =>
    \A d \in Stored : StmtAt(d).name # NoName =>
      \A v \in Visible(StmtAt(d).name, d[1]) :
        Visible(StmtAt(d).name, d[1]) = {v} /\ HasMeaning(v) =>
          Holds(d, Meaning(v) + StmtAt(d).n)

\* Patching a reference leaves the literals around it as they were stored
\* (mem_write_word in resolve_a_label_sub, store_byte, store_word).
LiteralsKept ==
  \A d \in Stored : StmtAt(d).name = NoName => Holds(d, StmtAt(d).n)

\* Once a file is loaded its global symbols can be found by every later file
\* and by the debugger, at the place their definition stands for
\* (record_label, flush_local_labels, find_symbol_address).
GlobalsKept ==
  phase = "idle" /\ ~errors =>
    \A n \in Names : \A d \in Defs(n) :
      Defs(n) = {d} /\ IsGlobal(d) /\ HasMeaning(d) =>
        table[n] # 0 /\ addr[<<n, table[n]>>] = Meaning(d)

\* Local symbols do not outlive their file: what the table still defines
\* between files is global in some file ("Remove all local (non-global) label
\* from the table.", flush_local_labels).
LocalsForgotten ==
  phase = "idle" =>
    \A n \in Names : table[n] # 0 /\ addr[<<n, table[n]>>] # 0 =>
      \E d \in Defs(n) : IsGlobal(d)

\* A label keeps to the segment it is written in, however the labels of its
\* line are moved by an alignment (align_text, align_data).
LabelSegment ==
  phase = "flush" /\ ~errors =>
    \A d \in Lines(file) : StmtAt(d).op = "label" =>
      LET n == StmtAt(d).name
      IN  table[n] # 0 => HighBits(addr[<<n, table[n]>>]) = HighBits(BASE[SourceSeg(d)])

\* Instructions and data are put into the segment that the text before them
\* names, by default the text segment (emit_dir_seg, emit_one,
\* user_kernel_text_segment).
SegmentAsWritten == \A d \in Stored : placed[d].seg = SourceSeg(d)

\* Loading a file ends (flush_local_labels, resolve_label_uses).
FileFinishes == phase # "idle" ~> phase = "idle"

\* The image is what the source says: references and literals hold their values,
\* in whatever order symbols are used and defined (resolve_a_label_sub).
ImageRight == ReferencesRight /\ LiteralsKept

\* Everything is where its directive puts it: items in their segments, and the
\* labels with them (emit_dir_seg, align_text, align_data).
SegmentsRight == SegmentAsWritten /\ LabelSegment

\* After a file exactly its global symbols are left (flush_local_labels).
ScopesRight == GlobalsKept /\ LocalsForgotten
=============================================================================
