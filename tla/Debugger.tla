------------------------------ MODULE Debugger ------------------------------
(***************************************************************************)
(* Breakpoints and the bounded runs of a program: set_breakpoint of        *)
(* instruction.c, add_breakpoint, delete_breakpoint and run_program of     *)
(* spim-utils.c, and the inner loop of run_spim reduced to where each kind *)
(* of instruction leaves the program counter.                              *)
(*                                                                         *)
(* A breakpoint is the instruction break_inst planted in the text, with a  *)
(* record of the instruction it replaced.  To go on from one, run_program  *)
(* deletes it, runs one instruction and adds it again; the instruction may *)
(* end the command (an error, ^C) before it is added.                      *)
(***************************************************************************)
EXTENDS Program, SequencesExt

CONSTANTS DataAddr,   \* a data address, outside the text
          BREAK,      \* break_inst
          RunSteps    \* DEFAULT_RUN_STEPS, bounded

VARIABLES dbg,     \* text, data and the breakpoint records
          PC,
          run,     \* the run_program call in progress
          asked,   \* history: where the user has put breakpoints
          lost     \* history: breakpoints removed when a step over was aborted

debuggerVars == <<dbg, PC, run, asked, lost>>

ASSUME DebuggerAssumption ==
  /\ Size \in Nat \ {0} /\ RunSteps \in Nat \ {0}
  /\ Boot \in Seq(Kinds) /\ Len(Boot) <= Size
  /\ Handler \in Text /\ Entry \in Starts /\ Starts \subseteq Text
  /\ DataAddr \in Nat \ Text
  /\ NoInst \notin Kinds /\ BREAK \notin Kinds /\ NoInst # BREAK

Idle == [phase |-> "idle", left |-> 0, from |-> 0, display |-> FALSE,
         count |-> 0, goal |-> 0]

Recorded(d) == {b.addr : b \in d.bkpts}
Saved(d, a) == CHOOSE b \in d.bkpts : b.addr = a

-----------------------------------------------------------------------------
(* The records.  The list they are kept in is a set here: its order only   *)
(* matters to what is displayed.                                           *)

\* A word that is not in the text: the read raises, and so does the write,
\* which then stores the (zero) encoding of break_inst as data.  An empty word
\* of text: break_inst is written and there is no record.
add_breakpoint(d, a) ==
  IF a \notin Text THEN [d EXCEPT !.data = IF a = DataAddr THEN 0 ELSE @]
  ELSE IF d.text[a] = BREAK THEN d
  ELSE [d EXCEPT !.text[a] = BREAK,
                 !.bkpts = IF d.text[a] = NoInst THEN @
                           ELSE @ \cup {[addr |-> a, inst |-> d.text[a]]}]

delete_keeping(d, a) ==
  [d EXCEPT !.bkpts = {b \in @ : b.addr # a}]

\* Every record for a is taken off the list and its instruction put back.
delete_breakpoint(d, a) ==
  IF a \notin Recorded(d) THEN d
  ELSE [d EXCEPT !.text[a] = Saved(d, a).inst,
                 !.bkpts = {b \in @ : b.addr # a}]

\* format_an_inst shows the instruction under a breakpoint by deleting the
\* breakpoint for the time being.
format_an_inst(d, a) ==
  IF a \in Text /\ d.text[a] = BREAK
  THEN add_breakpoint(delete_breakpoint(d, a), a)
  ELSE d

\* A break_inst without a record is never deleted: format_an_inst calls itself
\* on it for ever.
PrintHangs(d, a) == a \in Text /\ d.text[a] = BREAK /\ a \notin Recorded(d)

initialize_world ==
  /\ dbg' = [text |-> BootText, data |-> 1, bkpts |-> {}]
  /\ PC' = 0
  /\ asked' = {} /\ lost' = {}

-----------------------------------------------------------------------------
(* run_program and run_spim.                                               *)

Running == run.phase \in {"over", "main"}

RunLong(pc, steps, display, cont) ==
  /\ run' = [Idle EXCEPT !.phase = "main", !.left = steps + 1, !.from = pc,
                         !.display = display, !.goal = steps]
  /\ PC' = pc
  /\ UNCHANGED <<dbg, asked, lost>>

\* The call: a breakpoint at pc is stepped over first when cont is true.
run_program(pc, steps, display, cont) ==
  LET over == cont /\ pc \in Text /\ dbg.text[pc] = BREAK IN
  /\ run' = [phase |-> IF over THEN "over" ELSE "main", left |-> steps,
             from |-> pc, display |-> display, count |-> 0, goal |-> steps]
  /\ PC' = pc
  /\ dbg' = IF over THEN delete_breakpoint(dbg, pc) ELSE dbg
  /\ UNCHANGED <<asked, lost>>

AfterOverBare(d) ==
  /\ dbg' = d
  /\ run' = [run EXCEPT !.phase = "main", !.left = @ - 1, !.count = 1]

AfterOverFree(d) ==
  /\ dbg' = add_breakpoint(d, run.from)
  /\ run' = [run EXCEPT !.phase = "main", !.count = 1]

\* One instruction has been executed (or was found to be a breakpoint, or has
\* ended the run_spim call): after the step over the breakpoint is added again
\* and the second call of run_spim begins where the first one stopped.
AfterOver(d) ==
  /\ dbg' = add_breakpoint(d, run.from)
  /\ run' = [run EXCEPT !.phase = "main", !.left = @ - 1, !.count = 1]

Fetched == IF PC \in Text THEN dbg.text[PC] ELSE "fault"

RunOnForever ==
  /\ Running /\ run.left > 0
  /\ Fetched \in {"seq", "loop", "fault"}
  /\ PC' = CASE Fetched = "loop" -> Entry [] Fetched = "fault" -> Handler
              [] OTHER -> PC + 1
  /\ UNCHANGED <<dbg, run, asked, lost>>

\* An instruction that lets the run go on.  With display the next instruction
\* is printed, which also forgets a pending exception.
RunOn ==
  LET after == IF Fetched = "loop" THEN Entry ELSE PC + 1
      show  == run.display /\ PC \in Text
      shown == IF show THEN format_an_inst(dbg, after) ELSE dbg
  IN
  /\ Running /\ run.left > 0
  /\ Fetched \in {"seq", "loop", "fault"}
  /\ show => ~PrintHangs(dbg, after)
  /\ PC' = IF Fetched = "fault" /\ ~show THEN Handler ELSE after
  /\ IF run.phase = "over" THEN AfterOver(shown)
     ELSE /\ dbg' = shown
          /\ run' = [run EXCEPT !.left = @ - 1, !.count = @ + 1]
  /\ UNCHANGED <<asked, lost>>

HitThrough ==
  /\ Running /\ run.left > 0 /\ Fetched = BREAK
  /\ run' = [run EXCEPT !.left = @ - 1, !.count = @ + 1]
  /\ PC' = PC + 1
  /\ UNCHANGED <<dbg, asked, lost>>

HitPast ==
  /\ Running /\ run.left > 0 /\ Fetched = BREAK
  /\ run' = Idle
  /\ PC' = PC + 1
  /\ UNCHANGED <<dbg, asked, lost>>

\* break_inst: run_spim returns at once, with the program counter on it.
Hit ==
  /\ Running /\ run.left > 0 /\ Fetched = BREAK
  /\ IF run.phase = "over" THEN AfterOver(dbg)
     ELSE run' = Idle /\ UNCHANGED dbg
  /\ UNCHANGED <<PC, asked, lost>>

\* The exit system call: run_spim returns false.  run_program does not look at
\* what the call for the step over returned.
ExitCall ==
  /\ Running /\ run.left > 0 /\ Fetched = "exit"
  /\ IF run.phase = "over" THEN AfterOver(dbg)
     ELSE run' = Idle /\ UNCHANGED dbg
  /\ UNCHANGED <<PC, asked, lost>>

\* longjmp to the top level, from run_error or from the handler of ^C.
Abort ==
  /\ run' = Idle
  /\ lost' = IF run.phase = "over" THEN lost \cup {run.from} ELSE lost
  /\ UNCHANGED <<dbg, PC, asked>>

RunError == Running /\ run.left > 0 /\ Fetched \in {"error", NoInst} /\ Abort

control_c == Running /\ Abort

\* The steps have been run.
StepsDone ==
  /\ Running /\ run.left = 0
  /\ run' = Idle
  /\ UNCHANGED <<dbg, PC, asked, lost>>

-----------------------------------------------------------------------------
(* Properties.                                                             *)

\* A breakpoint that was asked for is in force until it is deleted, except
\* while it is stepped over; only an error or ^C in that step loses it.
BreakpointKept ==
  asked \subseteq Recorded(dbg) \cup lost
                  \cup (IF run.phase = "over" THEN {run.from} ELSE {})

\* `step N' executes N instructions whether or not it starts on a breakpoint.
StepsExact == run.phase = "main" => run.count + run.left = run.goal

\* No run executes an instruction with a breakpoint on it, but for the first
\* instruction of a command that goes on from there.
StopsAtBreakpoint ==
  [][run.phase = "main" /\ run'.count = run.count + 1
       => PC \notin asked \ lost]_debuggerVars

\* The debugger is invisible: with the saved instructions in the place of the
\* planted ones, text and program counter move as in a machine without it.
Plain(d) ==
  [a \in Text |->
     IF a \in Recorded(d) THEN Saved(d, a).inst
     ELSE IF d.text[a] = BREAK THEN NoInst ELSE d.text[a]]

Unplanted == Plain(dbg)

Undebugged == INSTANCE Machine WITH code <- Unplanted, pc <- PC

Transparent == Undebugged!Spec
=============================================================================
