------------------------------ MODULE Explain ------------------------------
(***************************************************************************)
(* The narrator of -explain (explain.c): around every instruction of       *)
(* run_spim, explain_before takes a snapshot of the machine and            *)
(* explain_after tells what has happened, from the snapshot and from the   *)
(* registers and the memory as they now are.  Looking at memory goes       *)
(* through the same functions as the program's accesses do; of what they   *)
(* raise exception_occurred and BadVAddr are put back, and EXL, EPC, the   *)
(* cause and the first exception are not.                                  *)
(*                                                                         *)
(* m and cp0 are the machine that is narrated; plain and plain0 the one    *)
(* that runs the same program unobserved.  What the narrator says is the   *)
(* record said: the registers, HI/LO and memory it names with their values *)
(* before and after, the outcome and the target of a branch, the commands  *)
(* it suggests.  Words, layout and columns are left out.  Loads and        *)
(* branches are not delayed, nothing reads coprocessor 0, interrupts do    *)
(* not happen, and the handler is where a run stops being followed.        *)
(***************************************************************************)
EXTENDS Execution, FiniteSets, TLC

CONSTANTS
  Programs,         \* sequences of instructions with their source lines
  Starts,           \* initial registers, HI/LO and memories
  Levels,           \* values of explain_level
  Answers,          \* what read_int and the other calls return
  Handler,          \* address of the exception handler
  MaxSteps,         \* instructions of a run
  MAX_SUGGESTIONS   \* room for suggestions

\* The instructions of a program are those of the switch, the line one is stored
\* with is the line of its statement, and a block of suggestions has room.
ASSUME ExplainAssumption ==
  /\ \A p \in Programs : \A k \in DOMAIN p :
       /\ p[k].i.op \in ComputeOps \cup GotoOps \cup AccessOps \cup FloatOps \cup {"SYSCALL"}
       /\ p[k].src \in {[label |-> FALSE, op |-> "none"],
                        [label |-> p[k].stmt.label, op |-> p[k].stmt.op]}
  /\ MAX_SUGGESTIONS \in Nat /\ MAX_SUGGESTIONS >= 5

\* Registers with a role, within the five that Execution has ($a3 shares one with
\* $ra, which no call uses).
REG_A1 == 1
REG_V0 == 2
REG_A0 == 3
REG_A3 == 4

VARIABLES prog, explain_level, m, cp0, plain, plain0, old,
          snap, touched, suggestions, pending, flags, said, left,
          strayed  \* history: the instructions of the looks that were refused
                   \* without an exception of the instruction itself
machines == <<m, cp0, plain, plain0>>
narrator == <<snap, touched, suggestions, pending, flags, said>>
vars == <<prog, explain_level, machines, old, narrator, left, strayed>>

-----------------------------------------------------------------------------
(* Exceptions and looking at memory.                                       *)

\* raise_exception outside a delay slot: EPC is kept while EXL is set, and the
\* first exception that is not an interrupt, a call or a breakpoint is kept for
\* the exit status.
raise_exception(c, pc, code) ==
  [c EXCEPT !.first = IF @ = "none" /\ code \notin {"Bp", "Sys"} THEN code ELSE @,
            !.epc = IF c.exl THEN @ ELSE pc,
            !.cause = code,
            !.exl = TRUE]

\* What mem_read_* does to the machine for a refused address.
Looked(w, addr, size) ==
  LET e == Refused(addr, size, "AdEL") IN
  IF e = "none" THEN w
  ELSE [r |-> Raise(w.r, e),
        c |-> [raise_exception(w.c, w.r.pc, e) EXCEPT !.bad = addr]]

\* Mutant of peek: the exception stays.
PeekRaises(w, addr, size) == [Looked(w, addr, size) EXCEPT !.c.bad = w.c.bad]

\* Mutant of peek: BadVAddr stays.
PeekLosesBadVAddr(w, addr, size) == [Looked(w, addr, size) EXCEPT !.r.exc = w.r.exc]

\* peek_word, _half and _byte on a machine w: exception_occurred and BadVAddr
\* are put back, the rest of what raise_exception wrote is not.
peek(w, addr, size) ==
  LET l == Looked(w, addr, size)
  IN [r |-> [l.r EXCEPT !.exc = w.r.exc], c |-> [l.c EXCEPT !.bad = w.c.bad]]

-----------------------------------------------------------------------------
(* Before the instruction.                                                 *)

NoMem == [has |-> FALSE, addr |-> 0, val |-> 0]

\* Mutant of explain_clear_suggestions: the list is kept.
KeepSuggestions(s) == s

explain_clear_suggestions(s) == <<>>

\* The snapshot; a store also keeps the word at its address.
Snapshot(r, i) ==
  [g |-> r.g, hi |-> r.hi, lo |-> r.lo, pc |-> r.pc,
   mem |-> IF i.op \in {"SW", "SH", "SB"}
           THEN [has |-> TRUE, addr |-> Address(r, i), val |-> Read(r, Address(r, i), 4)]
           ELSE NoMem]

\* The machine after explain_before.
AfterSnapshot(w, i) ==
  IF i.op \in {"SW", "SH", "SB"} THEN peek(w, Address(w.r, i), 4) ELSE w

-----------------------------------------------------------------------------
(* The templates.  Each names the registers the instruction read, those it *)
(* wrote, the memory it looks at, and the commands to try.                 *)

reg(n) == <<"print reg", n, 0>>
\* say_try_regs: $0 and a register already named are left out.
say_try_regs(regs) ==
  LET named(k) == regs[k] # 0 /\ \A j \in 1..(k - 1) : regs[j] # regs[k]
      ks == {k \in 1..Len(regs) : named(k)}
      at(n) == CHOOSE k \in ks : Cardinality({j \in ks : j <= k}) = n
  IN [n \in 1..Cardinality(ks) |-> reg(regs[at(n)])]

Silent ==
  [reads |-> {}, wrote |-> {}, hl |-> {}, look |-> {}, mem |-> 0, open |-> FALSE,
   tries |-> <<>>, taken |-> {}]
Says(reads, wrote, tries) ==
  [Silent EXCEPT !.reads = reads, !.wrote = wrote, !.open = TRUE, !.tries = say_try_regs(tries)]

tpl_r3_arith(i) == Says({i.rs, i.rt}, {i.rd}, <<i.rs, i.rt, i.rd>>)
tpl_i2_arith(i) == Says({i.rs}, {i.rt}, <<i.rs, i.rt>>)
tpl_shift(i)    == Says({i.rt}, {i.rd}, <<i.rt, i.rd>>)
lui(i)          == Says({}, {i.rt}, <<i.rt>>)

\* Mutant of EffectiveAddress: from the registers as they now are.
LiveAddress(s, r, i) == Address(r, i)
\* The effective address, from the base register of the snapshot s.
EffectiveAddress(s, r, i) == (s.g[i.rs] + sign_ex(i.imm)) % Mod

MemoryTries(ea, i) == <<<<"print addr", ea, 0>>, <<"print form", i.imm, i.rs>>>>
tpl_load(i, ea) ==
  [Says({i.rs}, {i.rt}, <<i.rs, i.rt>>) EXCEPT
     !.look = {<<ea, Size[i.op]>>}, !.tries = @ \o MemoryTries(ea, i)]

\* Mutant of tpl_store: the value that is stored is not named.
StoreUnnamed(i, ea) ==
  [Says({i.rs}, {}, <<i.rs, i.rt>>) EXCEPT
     !.mem = Size[i.op], !.tries = @ \o MemoryTries(ea, i)]
tpl_store(i, ea) ==
  [Says({i.rs, i.rt}, {}, <<i.rs, i.rt>>) EXCEPT
     !.mem = Size[i.op], !.tries = @ \o MemoryTries(ea, i)]

tpl_load_unaligned(i, ea) ==
  [Says({i.rs, i.rt}, {i.rt}, <<i.rs, i.rt>>) EXCEPT !.look = {<<Aligned(ea), 4>>}]
\* For SWL, SWR and SC no snapshot of memory is taken: nothing is told of it.
tpl_store_unaligned(i) == [Says({i.rs, i.rt}, {}, <<i.rs, i.rt>>) EXCEPT !.mem = 4]
tpl_store_conditional(i) == [Says({i.rs, i.rt}, {}, <<i.rs, i.rt>>) EXCEPT !.mem = 4]
tpl_load_linked(i, ea) ==
  [Says({i.rs}, {i.rt}, <<i.rs, i.rt>>) EXCEPT !.look = {<<ea, 4>>}]
tpl_load_fp(i, ea) ==
  [Says({i.rs}, {}, <<i.rs>>) EXCEPT
     !.look = {<<ea, 4>>} \cup IF i.op = "LDC1" THEN {<<(ea + 4) % Mod, 4>>} ELSE {}]
tpl_store_fp(i) == Says({i.rs}, {}, <<i.rs>>)

\* Mutant of tpl_branch_1reg: a target without the PC of the snapshot.
BranchTargetless(s, i, taken) ==
  [Says({i.rs}, {}, <<i.rs>>) EXCEPT !.taken = {<<taken, BRANCH_OFFSET(i.imm) % Mod>>}]

\* The comparison is made again on the values of the snapshot; the target is
\* counted from the instruction after the one of the snapshot.
Target(s, i) == (s.pc + 4 + BRANCH_OFFSET(i.imm)) % Mod
tpl_branch_2reg(s, i, taken) ==
  [Says({i.rs, i.rt}, {}, <<i.rs, i.rt>>) EXCEPT !.taken = {<<taken, Target(s, i)>>}]
tpl_branch_1reg(s, i, taken) ==
  [Says({i.rs}, {}, <<i.rs>>) EXCEPT !.taken = {<<taken, Target(s, i)>>}]

\* Mutant of Compared: BGEZ is told as BGTZ.
ComparedStrictly(op, a, b) ==
  CASE op = "BEQ" -> a = b    [] op = "BNE" -> a # b
    [] op = "BGEZ" -> Signed(a) > 0  [] op = "BGTZ" -> Signed(a) > 0
    [] op = "BLEZ" -> Signed(a) <= 0 [] op = "BLTZ" -> Signed(a) < 0
Compared(op, a, b) ==
  CASE op = "BEQ" -> a = b    [] op = "BNE" -> a # b
    [] op = "BGEZ" -> Signed(a) >= 0 [] op = "BGTZ" -> Signed(a) > 0
    [] op = "BLEZ" -> Signed(a) <= 0 [] op = "BLTZ" -> Signed(a) < 0

Jumped(i) ==
  CASE i.op = "J"    -> Says({}, {}, <<>>)
    [] i.op = "JAL"  -> Says({}, {REG_RA}, <<REG_RA>>)
    [] i.op = "JR"   -> Says({i.rs}, {}, <<i.rs>>)
    [] i.op = "JALR" -> Says({i.rs}, {i.rd}, <<i.rs, i.rd>>)
MovedHiLo(i) == Says({}, {i.rd}, <<i.rd>>)
Multiplied(i) == [Says({i.rs, i.rt}, {}, <<i.rs, i.rt>>) EXCEPT !.hl = {"hi", "lo"}]

\* explain_syscall: the call is the one of the snapshot, for read_int has
\* written $v0 since.
explain_syscall(s) ==
  LET v0 == s.g[REG_V0] IN
  CASE v0 \in {1, 11} -> Says({REG_V0, REG_A0}, {}, <<REG_V0, REG_A0>>)
    [] v0 = 4 -> [Says({REG_V0, REG_A0}, {}, <<REG_V0, REG_A0>>) EXCEPT
                    !.tries = Append(@, <<"print addr", s.g[REG_A0], 0>>)]
    [] v0 = 5 -> Says({REG_V0}, {REG_V0}, <<REG_V0>>)
    [] v0 = 8 -> Says({REG_V0, REG_A0, REG_A1}, {}, <<REG_V0, REG_A0, REG_A1>>)
    [] v0 = 10 -> Says({REG_V0}, {}, <<REG_V0>>)
    [] OTHER -> Says({REG_V0}, {}, <<REG_V0, REG_A0, REG_A1>>)

\* render_dispatch: an instruction without a template opens no block.
render_dispatch(s, r, i) ==
  LET ea == EffectiveAddress(s, r, i) IN
  CASE i.op \in {"ADD", "ADDU", "SUB", "SUBU", "AND", "OR", "XOR", "NOR", "SLT",
                 "SLTU", "MUL"} -> tpl_r3_arith(i)
    [] i.op \in DOMAIN RegisterForm -> tpl_i2_arith(i)
    [] i.op = "LUI" -> lui(i)
    [] i.op = "SLL" /\ i.rd = 0 /\ i.rt = 0 /\ i.sh = 0 -> Says({}, {}, <<>>)
    [] i.op \in {"SLL", "SRL", "SRA"} /\ ~(i.op = "SLL" /\ i.rd = 0 /\ i.rt = 0 /\ i.sh = 0)
         -> tpl_shift(i)
    [] i.op \in {"LW", "LB", "LBU", "LH", "LHU"} -> tpl_load(i, ea)
    [] i.op \in {"SW", "SB", "SH"} -> tpl_store(i, ea)
    [] i.op \in {"LWL", "LWR"} -> tpl_load_unaligned(i, ea)
    [] i.op \in {"SWL", "SWR"} -> tpl_store_unaligned(i)
    [] i.op = "LL" -> tpl_load_linked(i, ea)
    [] i.op = "SC" -> tpl_store_conditional(i)
    [] i.op \in {"LWC1", "LDC1"} -> tpl_load_fp(i, ea)
    [] i.op \in {"SWC1", "SDC1"} -> tpl_store_fp(i)
    [] i.op \in {"BEQ", "BNE"} ->
         tpl_branch_2reg(s, i, Compared(i.op, s.g[i.rs], s.g[i.rt]))
    [] i.op \in {"BGEZ", "BGTZ", "BLEZ", "BLTZ"} ->
         tpl_branch_1reg(s, i, Compared(i.op, s.g[i.rs], 0))
    [] i.op \in JumpOps -> Jumped(i)
    [] i.op \in {"MFHI", "MFLO"} -> MovedHiLo(i)
    [] i.op \in {"MULT", "DIV", "MULTU", "DIVU"} -> Multiplied(i)
    [] i.op = "SYSCALL" -> explain_syscall(s)
    [] OTHER -> Silent

\* say_try_finish: a block that was opened has three commands.
say_try_finish(tries) ==
  LET generic == <<<<"print_all_regs", 0, 0>>, <<"step", 0, 0>>, <<"continue", 0, 0>>>>
  IN IF Len(tries) >= 3 THEN tries ELSE tries \o SubSeq(generic, 1, 3 - Len(tries))

\* add_suggestion, for each command that is printed.
add_suggestions(s, tries) ==
  LET all == s \o tries
  IN SubSeq(all, 1, IF Len(all) > MAX_SUGGESTIONS THEN MAX_SUGGESTIONS ELSE Len(all))

\* Mutant of lookup_classification: ADDI is described as ADDIU is.
ClassifiedTogether(op) ==
  CASE op \in {"ADDU", "SUBU", "MULTU", "DIVU", "SLTU"} -> {"u"}
    [] op \in {"ADDI", "ADDIU", "SLTIU"} -> {"i", "u"}
    [] OTHER -> {}
\* lookup_classification: the modifiers told of an instruction.
lookup_classification(op) ==
  CASE op \in {"ADDU", "SUBU", "MULTU", "DIVU", "SLTU"} -> {"u"}
    [] op \in {"ADDI", "ANDI", "ORI", "XORI", "SLTI"} -> {"i"}
    [] op \in {"ADDIU", "SLTIU"} -> {"i", "u"}
    [] op \in {"SLLV", "SRLV", "SRAV"} -> {"v"}
    [] op \in {"LW", "SW"} -> {"w"}
    [] op \in {"LH", "SH"} -> {"h"}
    [] op = "LHU" -> {"h", "zero"}
    [] op \in {"LB", "SB"} -> {"b"}
    [] op = "LBU" -> {"b", "zero"}
    [] op \in {"BGEZAL", "BLTZAL", "JAL", "JALR"} -> {"al"}
    [] op \in {"BEQL", "BNEL", "BGEZL", "BGTZL", "BLEZL", "BLTZL"} -> {"l"}
    [] op \in {"BGEZALL", "BLTZALL"} -> {"al", "l"}
    [] OTHER -> {}

-----------------------------------------------------------------------------
(* Pseudo-operations, recognised by the source line.                       *)

\* pseudo_ops: whether the expansion may have several instructions.
single == {"b", "bal", "beqz", "bnez", "move", "neg", "negu", "nop", "not"}
multi == {"abs", "bge", "bgeu", "bgt", "bgtu", "ble", "bleu", "blt", "bltu", "la", "ld",
          "li", "mulo", "mulou", "rem", "remu", "rol", "ror", "sd", "seq", "sne",
          "sge", "sgeu", "sgt", "sgtu", "sle", "sleu", "ulh", "ulhu", "ulw", "ush", "usw"}

NoSource == [label |-> FALSE, op |-> "none"]
None == "none"

\* Mutant of find_pseudo_in_source: the table is not consulted.
FindAny(src) == IF ~src.label THEN src.op ELSE None
\* find_pseudo_in_source: the mnemonic must come first on the line.
find_pseudo_in_source(src) ==
  IF ~src.label /\ src.op \in single \cup multi THEN src.op ELSE None

\* Mutant of Pending: a line that is no pseudo-operation changes nothing.
PendingKept(p, src) ==
  IF src # NoSource /\ find_pseudo_in_source(src) # None
  THEN find_pseudo_in_source(src) ELSE p
\* The pseudo-operation whose expansion may go on.
Pending(p, src) == IF src = NoSource THEN p ELSE find_pseudo_in_source(src)

\* The header: the first or only instruction of a pseudo-operation, another one
\* of the pending pseudo-operation, or nothing.
PseudoHeader(p, src) ==
  LET f == find_pseudo_in_source(src) IN
  IF src # NoSource
  THEN IF f = None THEN <<None, None>>
       ELSE <<IF f \in multi THEN "first" ELSE "single", f>>
  ELSE IF p \in multi THEN <<"continuation", p>> ELSE <<None, None>>

-----------------------------------------------------------------------------
(* After the instruction.                                                  *)

\* explain_print_step_header: the legend comes with the first header.
Header(f) == [legend |-> ~f.legend, flags |-> [legend |-> TRUE, listing |-> TRUE]]

Nothing ==
  [told |-> FALSE, reads |-> {}, regs |-> {}, hl |-> {}, look |-> {}, mem |-> {},
   open |-> FALSE, tries |-> <<>>, taken |-> {}, mods |-> {}, same |-> FALSE,
   pseudo |-> <<None, None>>, legend |-> FALSE]

\* Mutant of Untouched: what an earlier template named still counts.
TouchedKept(t) == t
\* explain_after forgets what earlier templates have named.
Untouched(t) == [regs |-> {}, hl |-> {}]

\* What the template t names, and after it whatever else has changed.
Changes(s, r, t, mine) ==
  [regs |-> {<<n, s.g[n], r.g[n]>> : n \in (t.wrote \ {0}) \cup
               {n \in Regs \ {0} : r.g[n] # s.g[n] /\ n \notin mine.regs}},
   hl |-> {<<"hi", s.hi, r.hi>> : n \in {"hi"} \cap (t.hl \cup
             (IF r.hi # s.hi /\ "hi" \notin mine.hl THEN {"hi"} ELSE {}))}
          \cup
          {<<"lo", s.lo, r.lo>> : n \in {"lo"} \cap (t.hl \cup
             (IF r.lo # s.lo /\ "lo" \notin mine.hl THEN {"lo"} ELSE {}))}]

\* The memory a store is told to have written: its value of the snapshot, cut
\* to the width, and its value now.
say_wrote_mem(s, r, width) ==
  IF width = 0 \/ ~s.mem.has THEN {}
  ELSE {<<s.mem.addr, width, s.mem.val % ByteMod^width, Read(r, s.mem.addr, width)>>}

\* The addresses that explain_before and a template look at.
SnapshotLooks(r, i) == IF i.op \in {"SW", "SH", "SB"} THEN {<<Address(r, i), 4>>} ELSE {}
TemplateLooks(s, t) ==
  t.look \cup (IF t.mem # 0 /\ s.mem.has THEN {<<s.mem.addr, t.mem>>} ELSE {})

\* The machine after the looks of a template at memory: after one that is refused
\* another one, refused with the same exception, changes nothing more.
AfterLooks(w, s, t) ==
  LET bad == {a \in TemplateLooks(s, t) : Refused(a[1], a[2], "AdEL") # "none"}
  IN IF bad = {} THEN w
     ELSE LET a == CHOOSE a \in bad : TRUE IN peek(w, a[1], a[2])

\* explain_after at level 2 and above: what is said of the instruction.
Narration(s, r, i, mine, t) ==
  LET c == Changes(s, r, t, mine)
      tries == IF t.open THEN say_try_finish(t.tries) ELSE <<>>
  IN [Nothing EXCEPT
        !.told = TRUE, !.reads = t.reads \ {0}, !.regs = c.regs, !.hl = c.hl,
        !.look = {<<a[1], a[2], Read(r, a[1], a[2])>> : a \in t.look},
        !.mem = say_wrote_mem(s, r, t.mem), !.open = t.open, !.tries = tries,
        !.taken = t.taken, !.mods = lookup_classification(i.op),
        !.same = i.op \in {"LW", "LB", "LBU", "LH", "LHU"} /\ i.rt # 0
                   /\ s.g[i.rt] = r.g[i.rt]]

-----------------------------------------------------------------------------
(* The loop of run_spim around an instruction.                             *)

\* read_int, read_string and the other calls that answer: the word and whether
\* there was any input.  $a3 tells the program.
Answered(r, answer) == [r EXCEPT !.g[REG_V0] = answer.v, !.g[REG_A3] = IF answer.ok THEN 0 ELSE 1]
InMemory(addr) == addr < MemSize

\* do_syscall, by the number in $v0.  An address outside memory and an unknown
\* call are errors that end the run, as exit does; of what read_string and read
\* store, the first byte is modelled.
Call(r, answer) ==
  LET v0 == r.g[REG_V0]
      stored(addr) == IF answer.ok THEN Write(r, addr, 1, answer.v % ByteMod) ELSE r
  IN CASE v0 \in {1, 2, 3, 11} -> r
       [] v0 = 4 -> IF InMemory(r.g[REG_A0]) THEN r ELSE run_error(r)
       [] v0 = 5 -> Answered(r, IF answer.ok THEN answer ELSE [answer EXCEPT !.v = 0])
       [] v0 = 6 -> [r EXCEPT !.f[0] = answer.v]
       [] v0 = 7 -> [r EXCEPT !.f[0] = answer.v, !.f[1] = 0]
       [] v0 = 8 -> IF ~InMemory(r.g[REG_A0]) THEN run_error(r)
                    ELSE [stored(r.g[REG_A0]) EXCEPT !.g[REG_A3] = IF answer.ok THEN 0 ELSE 1]
       [] v0 \in {9, 16} -> [r EXCEPT !.g[REG_V0] = answer.v]
       [] v0 = 12 -> [r EXCEPT !.g[REG_V0] = IF answer.ok THEN answer.v % ByteMod ELSE Mod - 1]
       [] v0 \in {10, 17} -> [r EXCEPT !.end = TRUE]
       [] v0 = 13 -> IF InMemory(r.g[REG_A0]) THEN [r EXCEPT !.g[REG_V0] = answer.v]
                     ELSE run_error(r)
       [] v0 \in {14, 15} ->
            IF ~InMemory(r.g[REG_A1]) THEN run_error(r)
            ELSE [(IF v0 = 14 THEN stored(r.g[REG_A1]) ELSE r) EXCEPT !.g[REG_V0] = answer.v]
       [] OTHER -> run_error(r)

\* The switch, and PC: a run that ends leaves PC alone.
Dispatched(w, i, e) ==
  [r |-> Bumped(e),
   c |-> IF e.exc = "none" THEN w.c
         ELSE [raise_exception(w.c, w.r.pc, e.exc) EXCEPT !.bad = Address(w.r, i)]]
Effect(r, i, answer) == IF i.op = "SYSCALL" THEN Call(r, answer) ELSE Execute(r, i, FALSE)
Dispatch(w, i, answer) == Dispatched(w, i, Effect(w.r, i, answer))

\* handle_exception: on to the handler.
Handled(r) == IF r.exc = "none" \/ r.end THEN r ELSE [r EXCEPT !.pc = Handler]

Fetched == prog[(m.pc \div 4) + 1]
InText == (m.pc \div 4) + 1 \in DOMAIN prog

\* Control has come to f from the first instruction of its statement, through
\* that statement alone (a jump or a return may lead into the middle).
Entered(f) == f.src # NoSource \/ (old.entered /\ old.f.stmt = f.stmt)

\* explain_after, of the instruction f that has led from the snapshot s to the
\* machine w, with the template t: what is said, and the narrator's own state.
explain_after(f, s, w, t) ==
  LET mine == [regs |-> Untouched(touched).regs \cup (t.wrote \ {0}),
               hl |-> Untouched(touched).hl \cup t.hl]
  IN /\ said' = [(IF explain_level >= 2 THEN Narration(s, w.r, f.i, mine, t)
                  ELSE [Nothing EXCEPT !.told = TRUE])
                 EXCEPT !.pseudo = PseudoHeader(pending, f.src),
                        !.legend = Header(flags).legend]
     /\ touched' = IF explain_level >= 2 THEN mine ELSE Untouched(touched)
     /\ suggestions' = add_suggestions(explain_clear_suggestions(suggestions), said'.tries)
     /\ pending' = Pending(pending, f.src)
     /\ flags' = Header(flags).flags

\* A run that ends with the instruction is left before explain_after.
LeftUntold ==
  /\ said' = Nothing /\ suggestions' = explain_clear_suggestions(suggestions)
  /\ flags' = [flags EXCEPT !.listing = TRUE]
  /\ UNCHANGED <<touched, pending>>

\* An instruction that nobody narrates.
Unobserved(r, c, i, answer) ==
  \E w \in {Dispatch([r |-> Begun(r, FALSE), c |-> c], i, answer)} :
    plain' = Handled(w.r) /\ plain0' = w.c

\* The looks around an instruction that leaves w, and whether one of them has
\* been refused in another way than the instruction was.
Looks(before, s, w, t, i) ==
  IF explain_level = 0 THEN {}
  ELSE SnapshotLooks(before.r, i)
         \cup IF explain_level < 2 \/ w.r.end THEN {} ELSE TemplateLooks(s, t)
Strays(looks, w) == \E a \in looks : Refused(a[1], a[2], "AdEL") \notin {"none", w.r.exc}

Run(f, answer) ==
  \E before \in {[r |-> Begun(m, FALSE), c |-> cp0]} :
  \E s \in {Snapshot(before.r, f.i)} :
  \E w \in {Dispatch(IF explain_level = 0 THEN before ELSE AfterSnapshot(before, f.i),
                     f.i, answer)} :
  \E t \in {render_dispatch(s, w.r, f.i)} :
  \E v \in {IF explain_level < 2 \/ w.r.end THEN w ELSE AfterLooks(w, s, t)} :
    /\ old' = [r |-> before.r, f |-> f, entered |-> Entered(f)]
    /\ IF explain_level = 0 THEN UNCHANGED narrator
       ELSE /\ snap' = s
            /\ IF w.r.end THEN LeftUntold ELSE explain_after(f, s, w, t)
    /\ m' = Handled(v.r) /\ cp0' = v.c
    /\ strayed' = strayed \cup
         IF Strays(Looks(before, s, w, t, f.i), w) THEN {f.i.op} ELSE {}
    /\ Unobserved(plain, plain0, f.i, answer)

\* One instruction of the program.
StepOne ==
  /\ left > 0 /\ ~m.end /\ InText
  /\ \E answer \in Answers :
       /\ Fetched.i.op # "SYSCALL" => answer = CHOOSE a \in Answers : TRUE
       /\ Run(Fetched, answer)
  /\ left' = left - 1
  /\ UNCHANGED <<prog, explain_level>>

Finished == (left = 0 \/ m.end \/ ~InText) /\ UNCHANGED vars

NoFetch == [i |-> Inst("SYNC", 0, 0, 0, 0), src |-> NoSource, stmt |-> [n |-> 0, op |-> None, label |-> FALSE]]

Init ==
  \E s \in Starts :
    /\ prog \in Programs /\ explain_level \in Levels
    /\ m = [pc |-> 0, g |-> s.g, hi |-> s.hi, lo |-> s.lo, f |-> s.f,
            fcr |-> [n \in FCRs |-> 0], mem |-> s.mem,
            ld1 |-> <<>>, ld2 |-> <<>>, exc |-> "none", end |-> FALSE]
    /\ cp0 = [exl |-> FALSE, epc |-> 0, cause |-> "none", bad |-> 0, first |-> "none"]
    /\ plain = m /\ plain0 = cp0
    /\ old = [r |-> m, f |-> NoFetch, entered |-> FALSE]
    /\ snap = [g |-> [n \in Regs |-> 0], hi |-> 0, lo |-> 0, pc |-> 0, mem |-> NoMem]
    /\ touched = [regs |-> {}, hl |-> {}]
    /\ suggestions = <<>> /\ pending = None
    /\ flags = [legend |-> FALSE, listing |-> FALSE]
    /\ said = Nothing /\ left = MaxSteps /\ strayed = {}

Next == StepOne \/ Finished
Spec == Init /\ [][Next]_vars

-----------------------------------------------------------------------------
(* Properties.                                                             *)

\* The type invariant; only stores, whose word before is looked at, stray.
TypeOK ==
  /\ explain_level \in 0..4
  /\ \A r \in {m, plain} : r.pc \in Word /\ r.g \in [Regs -> Word]
  /\ Len(suggestions) <= MAX_SUGGESTIONS
  /\ pending \in single \cup multi \cup {None}
  /\ said.told \in BOOLEAN /\ said.reads \subseteq Regs
  /\ strayed \subseteq {"SW", "SH", "SB"}

\* The instruction that was told of, and the machine before it.
I == old.f.i
Was == old.r
Done == said.told /\ explain_level >= 2

\* "The narrator must not mutate exception_occurred / CP0 state out from under
\* the real dispatch" (explain.c 418-421).  It does not mutate what an instruction
\* without access to coprocessor 0 can see: registers, memory, PC and the exception
\* of the instruction are those of the unobserved program, at every level and
\* whatever addresses are looked at; and BadVAddr is.  EXL, EPC, the cause and the
\* first exception, from which the exit status is made, are the same until a store
\* strays: one to an address from which no word can be read, or that is refused as
\* a store (AdES) where the look is refused as a load (AdEL).  From then on they
\* may differ, against the comment, and a program that reads them, returns from a
\* handler or waits for interrupts, of which there is none here, would run
\* differently.
NarrationHarmless ==
  /\ m = plain
  /\ cp0.bad = plain0.bad
  /\ strayed = {} => cp0 = plain0

\* Every register and every half of HI/LO an instruction has changed is told,
\* once, with its value before and its value now, by the template or by the list
\* of side effects; and nothing that is told to have been written has another
\* value (explain.c, touched_reg and the fallback of explain_after).
ChangesTold ==
  Done =>
    /\ \A n \in Regs \ {0} : m.g[n] # Was.g[n] => <<n, Was.g[n], m.g[n]>> \in said.regs
    /\ \A c \in said.regs : c = <<c[1], Was.g[c[1]], m.g[c[1]]>>
    /\ m.hi # Was.hi => <<"hi", Was.hi, m.hi>> \in said.hl
    /\ m.lo # Was.lo => <<"lo", Was.lo, m.lo>> \in said.hl

\* A register that is not among the inputs told of an instruction has no
\* influence on what it does: with another value there, the instruction leaves
\* the same machine, but for that register if it leaves it alone (the templates
\* of explain.c; calls without an explanation are left out).
InputsTold ==
  Done /\ said.open /\ ~(I.op = "SYSCALL" /\ Was.g[REG_V0] \notin {1, 4, 5, 8, 11}) =>
    \A n \in Regs \ (said.reads \cup {0}), v \in {1, SignBit, Mod - 1} :
      LET same(x, y) == y = x \/ (x.g[n] = Was.g[n] /\ y = [x EXCEPT !.g[n] = v])
          answer == [v |-> 0, ok |-> TRUE]
      IN same(Effect(Was, I, answer), Effect([Was EXCEPT !.g[n] = v], I, answer))

\* The memory that is told is the memory that was used: the value told of a load
\* is the one it has loaded, also when it loads its own base register, and a
\* store is told with the value it has left and, at an address on a word, with the
\* one it has replaced (explain.c, tpl_load, tpl_store, snap_mem_val).  Left out,
\* because it goes wrong: an instruction that faults, whose store is told as
\* written; the value before of a byte or half off a word, told as 0.
AccessTold ==
  Done /\ m.exc = "none" =>
    /\ \A a \in said.look :
         /\ a[3] = Read(Was, a[1], a[2])
         /\ I.op \in LoadOps /\ I.rt # 0 => m.g[I.rt] % ByteMod^a[2] = a[3]
    /\ I.op \in {"SW", "SH", "SB"} =>
         \E a \in said.mem :
           /\ a[4] = Read(m, a[1], a[2]) /\ a[4] = Was.g[I.rt] % ByteMod^a[2]
           /\ a[1] % 4 = 0 => a[3] = Read(Was, a[1], a[2])
           /\ \A b \in 0..(MemSize - 1) :
                m.mem[b] # Was.mem[b] => b \in a[1]..(a[1] + a[2] - 1)

\* A branch told as taken is taken, and one told as not taken goes on (explain.c,
\* tpl_branch_2reg and tpl_branch_1reg, which make the comparison a second time).
\* The target told of it is not where a taken branch goes but the instruction after
\* that, always: it is counted as with delay slots, which are not there.
BranchTold ==
  Done => \A b \in said.taken :
    /\ m.pc = (Was.pc + (IF b[1] THEN BRANCH_OFFSET(I.imm) ELSE 4)) % Mod
    /\ b[1] => b[2] = (m.pc + 4) % Mod

\* What is told of a suffix holds of the step: `u` raises no overflow, a width
\* faults exactly off its alignment, an unsigned load leaves no more than its
\* width, `al` leaves the return address, a likely branch not taken skips an
\* instruction (explain.c, lookup_classification and modifier_descriptions).
ModifiersTrue ==
  Done =>
    LET width == IF "w" \in said.mods THEN 4 ELSE IF "h" \in said.mods THEN 2 ELSE 1
    IN /\ "u" \in said.mods => m.exc # "Ov"
       /\ {"w", "h", "b"} \cap said.mods # {} =>
            (m.exc \in {"AdEL", "AdES"}) = (Address(Was, I) % width # 0)
       /\ "zero" \in said.mods => m.g[I.rt] < ByteMod^width
       /\ "al" \in said.mods =>
            m.g[IF I.op = "JALR" THEN I.rd ELSE REG_RA] = (Was.pc + 4) % Mod
       /\ "l" \in said.mods =>
            m.pc \in {(Was.pc + 8) % Mod, (Was.pc + BRANCH_OFFSET(I.imm)) % Mod}

\* The commands that Tab offers are those printed for the last instruction, all
\* of them, three at least where a block was printed (explain.c,
\* explain_clear_suggestions, add_suggestion, say_try_finish).
HintsFresh ==
  said.told => /\ suggestions = said.tries
               /\ said.open => Len(suggestions) >= 3

\* An instruction told as the continuation of a pseudo-operation belongs to it,
\* when control came to it from the first instruction of its statement; and each
\* instruction of a statement that begins with a pseudo-operation of several is
\* then told as part of it (explain.c, pending_pseudo_name).
PseudoTold ==
  said.told /\ old.entered =>
    LET f == old.f
    IN /\ said.pseudo[1] = "continuation" => said.pseudo[2] = f.stmt.op
       /\ f.src = NoSource /\ f.stmt.op \in multi /\ ~f.stmt.label
            => said.pseudo = <<"continuation", f.stmt.op>>

\* What is told of a step against what the step did: the changes, the inputs, the
\* memory, the branch and the meaning of the suffixes, each with the exceptions its
\* part names (a faulting store, the value before off a word, the target of a
\* branch, which is told one instruction too far); and what is offered belongs to
\* the step (explain_before, explain_after and the templates).
TellsRight ==
  TypeOK /\ ChangesTold /\ InputsTold /\ AccessTold /\ BranchTold /\ ModifiersTrue /\ HintsFresh
============================================================================
