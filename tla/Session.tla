------------------------------ MODULE Session ------------------------------
(***************************************************************************)
(* A whole session of the simulator (spim.c, built with libedit): main     *)
(* reads its arguments and loads files; then it either runs the program    *)
(* and returns an exit status, or enters top_level, which reads lines and  *)
(* executes them as commands.  The commands call the debugger; ^C and      *)
(* run_error leave them by longjmp, from wherever they are.                *)
(*                                                                         *)
(* A line typed is a record: its command, the kind of its operand and, for *)
(* an address or a count, its value.  While it is executed the line is the *)
(* scanner's source, with the source it interrupts on a stack.             *)
(***************************************************************************)
EXTENDS Debugger

CONSTANTS Lines,       \* the lines a user may type
          ArgLists,    \* the command lines of main
          File,        \* per file: [opens, errs, refs, defs, code]
          Startup,     \* the part of Boot that follows the text counter
          HandlerText, \* the words of Boot at addresses of their own
          AsmLines,    \* what a line given to `asm' adds to the text
          Depth,       \* SCANNER_STACK_DEPTH
          MaxAddr,     \* bound on the address a repeated command advances to
          MaxSlips     \* bound on ^C between a push and the flag that tells it

VARIABLES argv,      \* arguments main has still to read
          opt,       \* options: mapped_io, print_ast_only, assemble or dump
          loads,     \* what the files loaded amount to
          repl,      \* top_level and the statics of parse_spim_command
          console,   \* console_state_saved
          status     \* exit status, -1 while the simulator lives

mainVars == <<argv, opt, loads>>
vars == <<dbg, PC, run, asked, lost, argv, opt, loads, repl, console, status>>

Commands ==
  {"blank", "exit", "read", "run", "continue", "step", "print", "breakpoint",
   "delete", "reinitialize", "asm", "args", "help", "list", "dump", "print_sym",
   "disasm", "nop", "print_all_regs", "unknown"}
Operands == {"none", "int", "id", "reg", "str"}

\* A line has the operand that its command reads; a file name is one of File.
ASSUME SessionAssumption ==
  /\ Depth \in Nat \ {0} /\ MaxAddr \in Nat /\ MaxSlips \in Nat
  /\ \A f \in DOMAIN File : /\ File[f].opens \in BOOLEAN /\ File[f].errs \in Nat
                             /\ File[f].code \in Seq(Kinds)
  /\ Startup \in Seq(Kinds) /\ HandlerText \subseteq Text /\ AsmLines \subseteq Seq(Kinds)
  /\ ArgLists \subseteq Seq({"mapped_io", "ast_only", "write_only"} \cup DOMAIN File)
  /\ \A l \in Lines :
       /\ l = [cmd |-> l.cmd, opnd |-> l.opnd, val |-> l.val]
       /\ l.cmd \in Commands /\ l.opnd \in Operands
       /\ IF l.cmd = "read" /\ l.opnd = "str" THEN l.val \in DOMAIN File
          ELSE l.val \in Nat
       /\ l.cmd = "run" => l.val \in Starts \cup {0}
       /\ l.cmd = "step" => l.val <= RunSteps

NoLine == [cmd |-> "blank", opnd |-> "none", val |-> 0]

Init ==
  /\ dbg = [text |-> BootText, data |-> 1, bkpts |-> {}]
  /\ PC = 0 /\ run = Idle /\ asked = {} /\ lost = {}
  /\ argv \in ArgLists
  /\ opt = [mapped_io |-> FALSE, ast_only |-> FALSE, write_only |-> FALSE]
  /\ loads = [loaded |-> FALSE, attempted |-> FALSE, errs |-> 0,
              refs |-> {}, defs |-> {}, next |-> Len(Boot) + 1,
              tree |-> Startup, boot |-> TRUE, bad |-> FALSE]
  /\ repl = [phase |-> "args", cur |-> "stdin", stack |-> <<>>,
             pushed |-> FALSE, line |-> NoLine, redo |-> FALSE,
             prev_cmd |-> "nop", prev_token |-> "none", addr |-> 0,
             loc |-> 0, start |-> 0, steps |-> 0, slips |-> 0]
  /\ console = FALSE
  /\ status = -1

-----------------------------------------------------------------------------
(* Loading.                                                                *)

Placed(code) ==
  [a \in Text |-> IF a - loads.next \in 0..(Len(code) - 1)
                  THEN code[a - loads.next + 1] ELSE dbg.text[a]]

\* The text pointer may not reach the end of the segment: run_error, with what
\* has been stored so far.  Beyond the end nothing is stored any more.
Overruns(code) == loads.next <= Size /\ loads.next + Len(code) > Size

Overflows(f) == File[f].opens /\ Overruns(File[f].code)

Reached(code) ==
  IF loads.next + Len(code) > Size THEN Size + 1 ELSE loads.next + Len(code)

\* The tree parsed last.  A tree that the text has no room for is not kept:
\* until the text is cleared no emission of it stores anything.
Grown(code) == IF Reached(code) > Size THEN <<>> ELSE code

\* parse_errors_seen starts again at 0 with every file.  Whatever the emit
\* phase wrote to a word that held break_inst is there now.
read_assembly_file(f) ==
  IF File[f].opens
  THEN /\ loads' = [loads EXCEPT !.errs = File[f].errs,
                                 !.refs = @ \cup File[f].refs,
                                 !.defs = @ \cup File[f].defs,
                                 !.next = Reached(File[f].code),
                                 !.tree = Grown(File[f].code),
                                 !.boot = FALSE]
       /\ dbg' = [dbg EXCEPT !.text = Placed(File[f].code)]
  ELSE UNCHANGED <<dbg, loads>>

\* parse_file outside a file: the lines it parses join the tree of the last
\* file opened (at first that of the exception handler), and emit_ast walks the
\* whole tree, so that what it has emitted before is emitted again after it.
\* The symbols and errors of it are not looked at after the arguments of main.
assemble(code) ==
  /\ loads' = [loads EXCEPT !.next = Reached(code), !.tree = Grown(code)]
  /\ dbg' = [dbg EXCEPT !.text = Placed(code)]
  /\ UNCHANGED <<PC, run, asked, lost, argv, opt, console, status>>

\* The handler's words are emitted again in their place.  (A break_inst there
\* would go with its record left behind: that case is left out.)
Reassembles == loads.boot => \A a \in HandlerText : dbg.text[a] # BREAK

-----------------------------------------------------------------------------
(* main.                                                                   *)

Flag ==
  /\ repl.phase = "args" /\ argv # <<>> /\ Head(argv) \in DOMAIN opt
  /\ opt' = [opt EXCEPT ![Head(argv)] = TRUE]
  /\ argv' = Tail(argv)
  /\ UNCHANGED <<dbg, PC, run, asked, lost, loads, repl, console, status>>

End(s) == status' = s /\ repl' = [repl EXCEPT !.phase = "ended"]

\* -f FILE.  The loop over the arguments ends at a file that does not open.
\* run_error jumps to where no setjmp has been yet: the process crashes.
FileArg ==
  /\ repl.phase = "args" /\ argv # <<>> /\ Head(argv) \in DOMAIN File
  /\ LET f == Head(argv) IN
     /\ loads' = IF File[f].opens
                 THEN [loads EXCEPT !.attempted = TRUE, !.loaded = TRUE,
                                    !.errs = File[f].errs,
                                    !.refs = @ \cup File[f].refs,
                                    !.defs = @ \cup File[f].defs,
                                    !.next = @ + Len(File[f].code),
                                    !.tree = File[f].code, !.boot = FALSE]
                 ELSE [loads EXCEPT !.attempted = TRUE]
     /\ argv' = IF File[f].opens THEN Tail(argv) ELSE <<>>
     /\ dbg' = IF File[f].opens THEN [dbg EXCEPT !.text = Placed(File[f].code)]
               ELSE dbg
     /\ IF Overflows(f) THEN End(139) ELSE UNCHANGED <<repl, status>>
  /\ UNCHANGED <<PC, run, asked, lost, opt, console>>

\* After the arguments: refuse, write files, run, or enter top_level.
Dispatch ==
  /\ repl.phase = "args" /\ argv = <<>>
  /\ \/ /\ ~loads.loaded /\ ~loads.attempted
        /\ repl' = [repl EXCEPT !.phase = "prompt"]
        /\ UNCHANGED <<debuggerVars, console, status>>
     \/ /\ ~loads.loaded /\ loads.attempted
        /\ End(2)
        /\ UNCHANGED <<debuggerVars, console>>
     \/ /\ loads.loaded /\ loads.errs > 0
        /\ End(2)
        /\ UNCHANGED <<debuggerVars, console>>
     \/ /\ loads.loaded /\ loads.errs = 0
        /\ opt.ast_only \/ opt.write_only
        /\ End(0)
        /\ UNCHANGED <<debuggerVars, console>>
     \/ /\ loads.loaded /\ loads.errs = 0
        /\ ~opt.ast_only /\ ~opt.write_only
        /\ IF loads.refs \subseteq loads.defs
           THEN /\ repl' = [repl EXCEPT !.phase = "batch"]
                /\ console' = opt.mapped_io
                /\ run_program(Entry, RunSteps, FALSE, FALSE)
                /\ UNCHANGED status
           ELSE End(1) /\ UNCHANGED <<debuggerVars, console>>
  /\ UNCHANGED mainVars

BatchEndsWell ==
  /\ repl.phase = "batch" /\ run = Idle
  /\ console' = FALSE
  /\ End(0)
  /\ UNCHANGED <<debuggerVars, mainVars>>

\* The run of main is over, one way or another.
BatchEnds ==
  /\ repl.phase = "batch" /\ run = Idle
  /\ console' = FALSE
  /\ End(IF loads.bad THEN 128 ELSE 0)
  /\ UNCHANGED <<debuggerVars, mainVars>>

-----------------------------------------------------------------------------
(* top_level.                                                              *)

Push(r, source) == [r EXCEPT !.stack = Append(@, r.cur), !.cur = source]

\* Nothing to pop: silently no effect.
Pop(r) ==
  IF r.stack = <<>> THEN r
  ELSE [r EXCEPT !.stack = Front(@), !.cur = Last(r.stack)]

\* readline returns a line, which becomes the scanner's source, and the flag
\* tells so.  On redo there is no new line.
Entered(l) ==
  IF repl.redo THEN repl
  ELSE [Push(repl, "line") EXCEPT !.pushed = TRUE, !.line = l]

\* parse_spim_command has returned.
Leave(r) ==
  [IF r.pushed THEN Pop(r) ELSE r
     EXCEPT !.pushed = FALSE, !.line = NoLine, !.phase = "prompt"]

\* scanner_push_source is fatal when the stack is full.
StackFull ==
  /\ repl.phase = "prompt" /\ ~repl.redo /\ Len(repl.stack) = Depth
  /\ End(255)
  /\ UNCHANGED <<debuggerVars, mainVars, console>>

\* End of input at the prompt.
Eof ==
  /\ repl.phase = "prompt" /\ ~repl.redo
  /\ repl' = [repl EXCEPT !.phase = "ended", !.line.cmd = "eof"]
  /\ status' = 0 /\ console' = FALSE
  /\ UNCHANGED <<debuggerVars, mainVars>>

UnwindNothing == [repl EXCEPT !.pushed = FALSE, !.line = NoLine,
                              !.redo = FALSE, !.phase = "prompt"]

\* The landing pad of setjmp.
Unwind == [Leave(repl) EXCEPT !.redo = FALSE]

ControlC ==
  /\ repl.phase \in {"prompt", "running", "args_stdin", "asm_stdin"}
  /\ repl' = Unwind
  /\ console' = FALSE
  /\ IF Running THEN control_c ELSE UNCHANGED debuggerVars
  /\ UNCHANGED <<mainVars, status>>

\* ^C after the line has been pushed and before the flag is set: the landing
\* pad does not know of the line.
ControlCSlips ==
  /\ repl.phase = "prompt" /\ ~repl.redo /\ repl.slips < MaxSlips
  /\ Len(repl.stack) < Depth
  /\ repl' = [Push(repl, "line") EXCEPT !.slips = @ + 1]
  /\ UNCHANGED <<debuggerVars, mainVars, console, status>>

RunFailsRaw ==
  /\ RunError
  /\ repl' = IF repl.phase = "batch" THEN repl ELSE Unwind
  /\ UNCHANGED <<mainVars, console, status>>

\* run_error in a command, or in the run of main.
RunFails ==
  /\ RunError
  /\ repl' = IF repl.phase = "batch" THEN repl ELSE Unwind
  /\ console' = FALSE
  /\ UNCHANGED <<mainVars, status>>

\* first_bad_exception remembers a fault (only main reads it).
Progress ==
  /\ repl.phase \in {"running", "batch"}
  /\ RunOn \/ Hit \/ ExitCall \/ StepsDone
  /\ loads' = [loads EXCEPT !.bad = @ \/ /\ repl.phase = "batch"
                                           /\ run.left > 0
                                           /\ Fetched = "fault"]
  /\ UNCHANGED <<argv, opt, repl, console, status>>

-----------------------------------------------------------------------------
(* parse_spim_command, in state r: the line just entered or, on redo, the   *)
(* previous command with the operands its statics hold.                    *)

Cmd(r) == IF r.redo THEN r.prev_cmd ELSE r.line.cmd

Operand(r) == IF r.redo THEN r.prev_token ELSE r.line.opnd

FlushAlways(r) == ~r.redo

\* The operand read was the end of the line: flush_to_newline then finds the
\* end of the source, and read_token exits.
FlushExits(r) == ~r.redo /\ r.line.opnd = "none"

\* The command returns; prev_cmd remembers it.  The statics that only a redo of
\* another command reads are cleared here: no later command finds them.
Returns(r, c) ==
  [Leave(r) EXCEPT !.redo = FALSE, !.prev_cmd = c,
                   !.loc = IF c = "print" THEN @ ELSE 0,
                   !.steps = IF c = "step" THEN @ ELSE 0,
                   !.start = IF c = "run" THEN @ ELSE 0]

Quits(r) ==
  /\ repl' = [r EXCEPT !.phase = "ended"]
  /\ status' = 0 /\ console' = FALSE
  /\ UNCHANGED <<debuggerVars, mainVars>>

Only(r) == repl' = r /\ UNCHANGED <<debuggerVars, mainVars, console, status>>

EXIT_CMD(r) == Cmd(r) = "exit" /\ Quits(r)

\* read_assembly_file makes the file the scanner's source; the pop restores the
\* source the line has interrupted.  On redo the token is that of the last print
\* and the name whatever the scanner's last value points to.
FileNames(r) == IF r.redo THEN DOMAIN File ELSE {r.line.val}

READ_CMD(r) ==
  /\ Cmd(r) = "read"
  /\ CASE FlushExits(r) -> Quits(r)
       [] ~FlushExits(r) /\ Operand(r) = "str" ->
            /\ \E f \in FileNames(r) :
                 /\ read_assembly_file(f)
                 /\ repl' = IF Overflows(f)
                            THEN [Leave([r EXCEPT !.cur = "file"]) EXCEPT !.redo = FALSE]
                            ELSE Returns(Pop([r EXCEPT !.cur = "file"]), "read")
            /\ UNCHANGED <<PC, run, asked, lost, argv, opt, console, status>>
       [] OTHER -> Only(Returns(r, "read"))

Runs(r, pc, steps, display, cont) ==
  /\ run_program(pc, steps, display, cont)
  /\ console' = opt.mapped_io
  /\ repl' = [r EXCEPT !.phase = "running", !.line.cmd = Cmd(r)]
  /\ UNCHANGED <<mainVars, status>>

RUN_CMD(r) ==
  /\ Cmd(r) = "run"
  /\ LET given == IF r.redo THEN r.start ELSE r.line.val
         addr  == IF given = 0 THEN Entry ELSE given
     IN Runs([r EXCEPT !.start = addr], addr, RunSteps, FALSE, FALSE)

CONTINUE_CMD(r) ==
  /\ Cmd(r) = "continue"
  /\ IF PC # 0 THEN Runs(r, PC, RunSteps, FALSE, TRUE)
     ELSE Only(Returns(r, "continue"))

STEP_CMD(r) ==
  /\ Cmd(r) = "step"
  /\ LET given == IF r.redo THEN r.steps ELSE r.line.val
         n == IF given = 0 THEN 1 ELSE given
     IN Runs([r EXCEPT !.steps = n], IF PC = 0 THEN Entry ELSE PC, n,
             TRUE, TRUE)

\* run_program has returned to its command.
RunReturns ==
  /\ repl.phase = "running" /\ run = Idle
  /\ console' = FALSE
  /\ repl' = Returns(repl, repl.line.cmd)
  /\ UNCHANGED <<debuggerVars, mainVars, status>>

\* Printing a word of text may lift a breakpoint and put it back.
PRINT_CMD(r) ==
  LET loc == IF r.redo THEN r.loc + 1 ELSE r.line.val IN
  /\ Cmd(r) = "print"
  /\ IF FlushExits(r) THEN Quits(r)
     ELSE /\ loc <= MaxAddr
          /\ IF Operand(r) \in {"int", "id"}
             THEN ~PrintHangs(dbg, loc) /\ dbg' = format_an_inst(dbg, loc)
             ELSE UNCHANGED dbg
          /\ repl' = Returns([r EXCEPT !.prev_token = Operand(r), !.loc = loc],
                             "print")
          /\ UNCHANGED <<PC, run, asked, lost, mainVars, console, status>>

\* prev_token is that of the last print, not of the last breakpoint: with
\* another operand than an address the command complains, and then works on
\* the address of the last time.
BreakAddr(r) ==
  IF Operand(r) \in {"int", "id"}
  THEN IF r.redo THEN r.addr + 1 ELSE r.line.val
  ELSE r.addr

BKPT_CMD(r) ==
  LET addr == BreakAddr(r) IN
  /\ Cmd(r) \in {"breakpoint", "delete"}
  /\ IF FlushExits(r) THEN Quits(r)
     ELSE /\ addr <= MaxAddr
          /\ IF Cmd(r) = "breakpoint"
             THEN /\ dbg' = add_breakpoint(dbg, addr)
                  /\ asked' = IF addr \in Recorded(dbg')
                              THEN asked \cup {addr} ELSE asked
             ELSE /\ dbg' = delete_breakpoint(dbg, addr)
                  /\ asked' = asked \ {addr}
          /\ lost' = lost \ {addr}
          /\ repl' = Returns([r EXCEPT !.addr = addr], Cmd(r))
          /\ UNCHANGED <<PC, run, mainVars, console, status>>

\* Everything is initialised, the source (standard input) too, but the statics
\* of the command loop stay.
REINITIALIZE_CMD(r) ==
  /\ Cmd(r) = "reinitialize"
  /\ initialize_world
  /\ loads' = [loads EXCEPT !.refs = {}, !.defs = {}, !.next = Len(Boot) + 1,
                            !.tree = Startup, !.boot = TRUE]
  /\ repl' = Returns([r EXCEPT !.cur = "stdin"], "nop")
  /\ UNCHANGED <<run, argv, opt, console, status>>

\* parse_file takes its tokens from the current source: the line or, on redo,
\* standard input up to its end.  An overflow leaves it by longjmp.
ASM_CMD(r) ==
  /\ Cmd(r) = "asm"
  /\ IF r.redo THEN Only([r EXCEPT !.phase = "asm_stdin"])
     ELSE /\ Reassembles
          /\ \E c \in AsmLines :
               LET code == loads.tree \o c IN
               /\ assemble(code)
               /\ repl' = IF Overruns(code) THEN [Leave(r) EXCEPT !.redo = FALSE]
                          ELSE Returns(r, "asm")

\* A line joins the tree.  One line more than fits makes no difference.
AsmLine ==
  /\ repl.phase = "asm_stdin" /\ loads.next + Len(loads.tree) <= Size
  /\ \E c \in AsmLines : loads' = [loads EXCEPT !.tree = @ \o c]
  /\ UNCHANGED <<debuggerVars, argv, opt, repl, console, status>>

\* The end of standard input: only now is the tree emitted.
AsmEnds ==
  /\ repl.phase = "asm_stdin" /\ Reassembles
  /\ assemble(loads.tree)
  /\ repl' = IF Overruns(loads.tree) THEN Unwind ELSE Returns(repl, "asm")

\* On redo the arguments too are read from standard input.
ARGS_CMD(r) ==
  /\ Cmd(r) = "args"
  /\ Only(IF r.redo THEN [r EXCEPT !.phase = "args_stdin"] ELSE Returns(r, "args"))

\* The arguments of a repeated `args' are the next line that is typed.
SwallowLine ==
  /\ repl.phase = "args_stdin"
  /\ Only(Returns(repl, "args"))

REDO_CMD(r) == Cmd(r) = "blank" /\ Only([Leave(r) EXCEPT !.redo = TRUE])

\* The commands that only show something.
SHOW_CMD(r) ==
  /\ Cmd(r) \in {"help", "list", "dump", "print_sym", "disasm", "nop",
                 "print_all_regs"}
  /\ IF Cmd(r) = "print_all_regs" /\ FlushExits(r) THEN Quits(r)
     ELSE Only(Returns(r, IF Cmd(r) \in {"help", "list", "dump"} THEN Cmd(r)
                          ELSE "nop"))

\* An unknown command, or a dump with a wrong operand: what is repeated by a
\* blank line stays as it was.
UNKNOWN_CMD(r) == Cmd(r) = "unknown" /\ Only([Leave(r) EXCEPT !.redo = FALSE])

parse_spim_command ==
  /\ repl.phase = "prompt" /\ (repl.redo \/ Len(repl.stack) < Depth)
  /\ \E l \in (IF repl.redo THEN {NoLine} ELSE Lines) :
       LET r == Entered(l) IN
         \/ EXIT_CMD(r) \/ READ_CMD(r) \/ RUN_CMD(r) \/ CONTINUE_CMD(r)
         \/ STEP_CMD(r) \/ PRINT_CMD(r) \/ BKPT_CMD(r) \/ REINITIALIZE_CMD(r)
         \/ ASM_CMD(r) \/ ARGS_CMD(r) \/ REDO_CMD(r) \/ SHOW_CMD(r) \/ UNKNOWN_CMD(r)

Ended == repl.phase = "ended" /\ UNCHANGED vars

Next ==
  \/ Flag \/ FileArg \/ Dispatch \/ BatchEnds
  \/ StackFull \/ Eof \/ ControlC \/ ControlCSlips
  \/ parse_spim_command \/ SwallowLine \/ AsmLine \/ AsmEnds
  \/ RunFails \/ Progress \/ RunReturns
  \/ Ended

Fairness == WF_vars(Progress \/ RunFails) /\ WF_vars(RunReturns)

Spec == Init /\ [][Next]_vars /\ Fairness

-----------------------------------------------------------------------------
(* Properties.                                                             *)

\* Every line has the operand that its command asks for: what the user is told
\* to type.  (Without one the flush to the end of the line ends the simulator,
\* and after `print "x"' a repeated read leaves its file as the source.)
FullOperands ==
  \A l \in Lines :
    /\ l.cmd \in {"read", "print", "breakpoint", "delete", "print_all_regs"}
         => l.opnd # "none"
    /\ l.cmd = "print" => l.opnd # "str"

\* The type invariant of the session.
TypeOK ==
  /\ DOMAIN dbg.text = Text
  /\ \A a \in Text : dbg.text[a] \in Kinds \cup {NoInst, BREAK}
  /\ Recorded(dbg) \subseteq Text
  /\ PC \in 0..(Size + 1)
  /\ run.phase \in {"idle", "over", "main"} /\ run.left \in 0..RunSteps
  /\ asked \subseteq Text /\ lost \subseteq Text
  /\ repl.stack \in Seq({"stdin", "line", "file"}) /\ Len(repl.stack) <= Depth
  /\ repl.pushed \in BOOLEAN /\ repl.redo \in BOOLEAN /\ console \in BOOLEAN
  /\ status \in {-1, 0, 1, 2, 128, 139, 255}

\* Wherever the program has an instruction, break_inst stands in the text
\* exactly where there is a record, there is one record for an address, and what
\* it saves is an instruction: deleting every breakpoint gives the program back.
BreaksRecorded ==
  /\ \A a \in Text : a < loads.next =>
                       ((dbg.text[a] = BREAK) <=> (a \in Recorded(dbg)))
  /\ \A b, c \in dbg.bkpts : b.addr = c.addr => b = c
  /\ \A b \in dbg.bkpts : b.inst \in Kinds /\ b.addr < loads.next

\* The terminal is never left in the program's mode: whatever way a command or
\* the simulator ends (also by ^C or an error in the middle of a run), the
\* console is SPIM's again.
ConsoleReturned == console => repl.phase \in {"running", "batch"}

\* However the last command ended, at the prompt the scanner reads from where
\* it read before it: no source is left on the stack and the file that `read'
\* opened is not the source.  Only a ^C between the push of a line and the flag
\* that records it leaves that line behind, once.
SourcesBalanced ==
  repl.phase = "prompt" =>
    /\ Len(repl.stack) <= repl.slips
    /\ ~repl.pushed
    /\ repl.cur \in {"stdin"} \cup (IF repl.slips > 0 THEN {"line"} ELSE {})

\* The prompt ends with the exit command or the end of the input, and with
\* nothing else that is typed: the stack of sources fills up only by lines that
\* ^C has left behind.
EndsOnRequest ==
  repl.phase = "ended" /\ ~loads.attempted =>
    repl.line.cmd \in {"exit", "eof"} \/ repl.slips >= Depth

\* Exit status 0 of a batch run says that the last file had no errors, that no
\* symbol was undefined, and that no exception was raised.
StatusTells ==
  repl.phase = "ended" /\ status = 0 /\ loads.attempted =>
    /\ loads.errs = 0
    /\ ~loads.bad
    /\ opt.ast_only \/ opt.write_only \/ loads.refs \subseteq loads.defs

\* Every run ends: by itself, or because its steps are used up.  A break_inst
\* without a record, left in an empty word by a refused breakpoint, is the one
\* thing that can keep `step' from returning (format_an_inst never gets past
\* it).
CommandEnds ==
  /\ run.phase # "idle"
  /\ \A a \in Text : dbg.text[a] = BREAK => a \in Recorded(dbg)
  ~> run.phase = "idle"

\* A breakpoint asked for is in force, planted and recorded, until it is deleted,
\* and deleting all of them gives the program back; stepping over one removes
\* it only for that step (run_program, add_breakpoint, delete_breakpoint).
BreakpointsIntact == TypeOK /\ BreaksRecorded /\ BreakpointKept

\* Whatever way a command has ended (by itself, by ^C or by run_error's longjmp
\* out of the middle of a run or of a file) the next prompt finds the terminal
\* and the scanner's sources as the command found them, and only exit or the
\* end of the input ends the session (top_level, console_to_spim,
\* scanner_pop_source).
PromptRestored == ConsoleReturned /\ SourcesBalanced /\ EndsOnRequest
=============================================================================
