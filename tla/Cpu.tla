-------------------------------- MODULE Cpu --------------------------------
(***************************************************************************)
(* The execution loop of spimulator: run_spim with its polls, delay slots, *)
(* exceptions and interrupts (run.c), handle_exception (syscall.c) and the *)
(* default exception handler that runs on the simulated machine            *)
(* (exceptions.s).                                                         *)
(*                                                                         *)
(* Addresses are word numbers.  The user's text is 1..NUser, an arbitrary  *)
(* program of Programs; address 0 is outside every segment; the handler    *)
(* starts at EXCEPTION_ADDR, in the kernel's text, whose addresses are     *)
(* negative as signed words; the other words hold no instruction.          *)
(* What an instruction computes is left out: it completes, faults, jumps,  *)
(* writes a CP0 register or ends the run.                                  *)
(*                                                                         *)
(* A jump taken with delayed branches runs its delay slot by a recursive   *)
(* call of run_spim, so frames is the stack of the jumps that wait for     *)
(* their slot, each with its target.  phase is the place in the innermost  *)
(* call:                                                                   *)
(*   poll    head of the outer loop (devices, interrupts)                  *)
(*   exec    body of the inner loop (timer, fetch, instruction)            *)
(*   after   what follows the instruction (PC, display, exception)         *)
(*   return  back in the jump whose delay slot has been run                *)
(*   ended   run_spim has returned, or run_error has left it by longjmp    *)
(***************************************************************************)
EXTENDS Integers, Sequences

CONSTANTS
  NUser,             \* length of the user's text
  EXCEPTION_ADDR,    \* where the handler starts
  Programs,          \* the user's programs
  DeviceLines,       \* interrupt levels of the memory-mapped devices
  IO_INTERVAL,       \* instructions between two polls
  MaxDepth,          \* bound on nested delay slots
  MaxEPC,            \* bound: no further run starts with EPC beyond it
  delayed_branches, mapped_io, display   \* the flags and run_spim's argument

TimerLine == 7
Lines == DeviceLines \cup {TimerLine}

UserText == 1..NUser
NoFault  == "none"
Codes    == {"Int", "Bp", "IBE", "Ov"}

\* The instructions of a user program.
UserInst ==
  [op : {"plain", "io", "exit", "empty"}] \cup
  [op : {"fault"}, code : {"Bp", "Ov"}] \cup
  [op : {"jump"}, target : 0..NUser] \cup
  [op : {"status"}, IE : BOOLEAN, EXL : BOOLEAN, IM : SUBSET Lines]

\* The default handler: save and print; step over the instruction at EPC;
\* clear Cause; enable interrupts; return.
Handler == <<"plain", "skip", "clear", "enable", "eret">>

ASSUME CpuAssumption ==
  /\ NUser \in Nat \ {0}
  /\ EXCEPTION_ADDR \in Int /\ EXCEPTION_ADDR + Len(Handler) < 0
  /\ Programs \subseteq [UserText -> UserInst]
  /\ DeviceLines \subseteq 0..6
  /\ IO_INTERVAL \in Nat \ {0} /\ MaxDepth \in Nat /\ MaxEPC \in Nat
  /\ delayed_branches \in BOOLEAN /\ mapped_io \in BOOLEAN /\ display \in BOOLEAN

VARIABLES
  code,                   \* the user's program
  PC,
  IE, EXL, IM,            \* CP0 Status
  IP, ExcCode, BD,        \* CP0 Cause
  EPC,
  exception_occurred, first_bad_exception,
  running_in_delay_slot,
  frames, phase,
  left,                   \* instructions left before the next poll
  \* History: the instruction the user's program has got to; whether an
  \* interrupt has kept it from executing; the exception level that the
  \* program has written itself.
  resume, interrupted, ownLevel

statusVars == <<IE, EXL, IM, ownLevel>>
causeVars  == <<IP, ExcCode, BD>>
runVars    == <<frames, phase, left>>
vars == <<code, PC, statusVars, causeVars, EPC, exception_occurred,
          first_bad_exception, running_in_delay_slot, runVars,
          resume, interrupted>>

Init ==
  /\ code \in Programs
  /\ PC = 1 /\ resume = 1 /\ interrupted = FALSE /\ ownLevel = FALSE
  /\ IE = FALSE /\ EXL = FALSE /\ IM = Lines
  /\ IP = {} /\ ExcCode = "Int" /\ BD = FALSE /\ EPC = 0
  /\ exception_occurred = FALSE /\ first_bad_exception = NoFault
  /\ running_in_delay_slot = FALSE
  /\ frames = <<>> /\ phase = "poll" /\ left = IO_INTERVAL

-----------------------------------------------------------------------------
(* Exceptions. *)

\* Mutant: EPC is taken after PC has moved on.
raise_exception_late(excode) ==
  /\ EPC' = PC + 1 /\ ExcCode' = excode /\ EXL' = TRUE
  /\ UNCHANGED <<first_bad_exception, BD>>

\* The flag exception_occurred, which it also sets, is left to the caller:
\* handle_exception clears it.  Interrupts are raised only where IE and ~EXL
\* have been tested.
raise_exception(excode) ==
  /\ first_bad_exception' =
       IF first_bad_exception = NoFault /\ excode \notin {"Int", "Bp"}
       THEN excode ELSE first_bad_exception
  /\ IF EXL
     THEN UNCHANGED <<EPC, BD>>
     ELSE IF running_in_delay_slot
          THEN EPC' = PC - 1 /\ BD' = TRUE
          ELSE EPC' = PC /\ UNCHANGED BD
  /\ ExcCode' = excode
  /\ EXL' = TRUE

\* Mutant: the exception is reported but control stays.
handle_exception_reports == PC' = PC + 1 /\ exception_occurred' = FALSE

\* Control goes to the handler whatever the exception.
handle_exception == PC' = EXCEPTION_ADDR /\ exception_occurred' = FALSE

-----------------------------------------------------------------------------
(* The outer loop. *)

InterruptPending == IE /\ ~EXL /\ IP' \cap IM # {}

\* check_memory_mapped_IO may raise the lines of the devices.
Poll ==
  /\ phase = "poll"
  /\ IF mapped_io
     THEN \E raised \in SUBSET DeviceLines : IP' = IP \cup raised
     ELSE UNCHANGED IP
  /\ IF InterruptPending
     THEN /\ raise_exception("Int") /\ handle_exception
          /\ resume' = PC /\ interrupted' = TRUE
     ELSE UNCHANGED <<PC, EXL, ExcCode, BD, EPC, exception_occurred,
                      first_bad_exception, resume, interrupted>>
  /\ phase' = "exec"
  /\ UNCHANGED <<code, IE, IM, ownLevel, running_in_delay_slot, frames, left>>

\* Mutants: one instruction too many between polls; no polls but the first.
NextIteration_late ==
  IF frames # <<>> THEN phase' = "return" /\ UNCHANGED left
  ELSE IF mapped_io /\ left = 0 THEN phase' = "poll" /\ left' = IO_INTERVAL
  ELSE phase' = "exec" /\ left' = IF mapped_io THEN left - 1 ELSE left
NextIteration_unpolled ==
  phase' = (IF frames # <<>> THEN "return" ELSE "exec") /\ UNCHANGED left

\* The end of one iteration of the inner loop.  A recursive call runs one
\* instruction.  Without mapped IO the loop runs to completion and the head
\* of the outer loop is not reached again.
NextIteration ==
  IF frames # <<>> THEN phase' = "return" /\ UNCHANGED left
  ELSE IF mapped_io /\ left = 1 THEN phase' = "poll" /\ left' = IO_INTERVAL
  ELSE phase' = "exec" /\ left' = IF mapped_io THEN left - 1 ELSE left

-----------------------------------------------------------------------------
(* The inner loop.  Every iteration polls the interval timer first. *)

bump_CP0_timer == \E match \in BOOLEAN : IP' = IF match THEN IP \cup {TimerLine} ELSE IP

InHandler(a) == a < 0

mem_read_inst(a) ==
  IF a \in UserText THEN code[a]
  ELSE IF a - EXCEPTION_ADDR + 1 \in 1..Len(Handler)
  THEN [op |-> Handler[a - EXCEPTION_ADDR + 1]]
  ELSE IF a = 0 THEN [op |-> "unmapped"] ELSE [op |-> "empty"]

inst == mem_read_inst(PC)

Executes(op) ==
  /\ phase = "exec" /\ inst.op = op
  /\ UNCHANGED code

\* The user's program goes on at next once the instruction is through or, if
\* the instruction is in a delay slot, at the target of the jump before it.
GoesOn(next) ==
  IF InHandler(PC) THEN UNCHANGED <<resume, interrupted>>
  ELSE /\ resume' = IF frames # <<>> THEN frames[Len(frames)] ELSE next
       /\ interrupted' = FALSE

\* Past the instruction that raises an exception.  At exception level, which
\* only the program's own mtc0 gives it, EPC is not set, and the handler
\* returns past the EPC of the exception before.
PastException == IF EXL THEN EPC + 1 ELSE PC + 1

\* Completion of an instruction that changes only what its action says.
Done(next) ==
  /\ phase' = "after" /\ exception_occurred' = FALSE
  /\ GoesOn(next)
  /\ UNCHANGED <<first_bad_exception, frames, left>>

Plain ==
  /\ Executes("plain")
  /\ bump_CP0_timer
  /\ Done(PC + 1)
  /\ UNCHANGED <<PC, statusVars, ExcCode, BD, EPC, running_in_delay_slot>>

\* An access to a device that clears its interrupt.
Io ==
  /\ Executes("io")
  /\ \E match \in BOOLEAN :
       IP' = (IF match THEN IP \cup {TimerLine} ELSE IP) \ DeviceLines
  /\ Done(PC + 1)
  /\ UNCHANGED <<PC, statusVars, ExcCode, BD, EPC, running_in_delay_slot>>

\* mtc0 to Status: the program may set and clear the exception level.
MTC0_Status ==
  /\ Executes("status")
  /\ bump_CP0_timer
  /\ IE' = inst.IE /\ IM' = inst.IM
  /\ EXL' = inst.EXL /\ ownLevel' = inst.EXL
  /\ Done(PC + 1)
  /\ UNCHANGED <<PC, ExcCode, BD, EPC, running_in_delay_slot>>

\* An instruction that raises an exception: it is not executed again.
Fault ==
  /\ Executes("fault")
  /\ bump_CP0_timer
  /\ raise_exception(inst.code)
  /\ exception_occurred' = TRUE
  /\ phase' = "after"
  /\ GoesOn(PastException)
  /\ UNCHANGED <<PC, IE, IM, ownLevel, running_in_delay_slot, frames, left>>

FetchFault ==
  /\ Executes("unmapped")
  /\ bump_CP0_timer
  /\ raise_exception("IBE")
  /\ handle_exception
  /\ GoesOn(PastException)
  /\ NextIteration
  /\ UNCHANGED <<IE, IM, ownLevel, running_in_delay_slot, frames>>

\* JUMP_INST.
Transfer(target) ==
  IF delayed_branches
  THEN /\ Len(frames) < MaxDepth
       /\ frames' = Append(frames, target)
       /\ running_in_delay_slot' = TRUE
       /\ PC' = PC + 1 /\ phase' = "poll"
  ELSE /\ PC' = target - 1 /\ phase' = "after"
       /\ UNCHANGED <<frames, running_in_delay_slot>>

Jump ==
  /\ Executes("jump")
  /\ bump_CP0_timer
  /\ Transfer(inst.target)
  /\ exception_occurred' = FALSE
  /\ IF delayed_branches
     THEN resume' = PC + 1 /\ interrupted' = FALSE
     ELSE GoesOn(inst.target)
  /\ UNCHANGED <<statusVars, ExcCode, BD, EPC, first_bad_exception, left>>

\* Mutant: eret jumps at exception level.
ERET_at_level ==
  /\ Executes("eret")
  /\ bump_CP0_timer
  /\ Transfer(EPC)
  /\ exception_occurred' = FALSE
  /\ ownLevel' = FALSE
  /\ UNCHANGED <<IE, EXL, IM, ExcCode, BD, EPC, first_bad_exception, left,
                 resume, interrupted>>

ERET ==
  /\ Executes("eret")
  /\ bump_CP0_timer
  /\ EXL' = FALSE /\ ownLevel' = FALSE
  /\ Transfer(EPC)
  /\ exception_occurred' = FALSE
  /\ UNCHANGED <<IE, IM, ExcCode, BD, EPC, first_bad_exception, left,
                 resume, interrupted>>

\* The exit system call: run_spim returns false, which the caller discards if
\* it is a jump waiting for its delay slot.
Exit ==
  /\ Executes("exit")
  /\ bump_CP0_timer
  /\ phase' = IF frames = <<>> THEN "ended" ELSE "return"
  /\ exception_occurred' = FALSE
  /\ GoesOn(PC + 1)
  /\ UNCHANGED <<PC, statusVars, ExcCode, BD, EPC, first_bad_exception,
                 running_in_delay_slot, frames, left>>

\* run_error: "Attempt to execute non-instruction".
run_error ==
  /\ Executes("empty")
  /\ bump_CP0_timer
  /\ phase' = "ended" /\ frames' = <<>>
  /\ exception_occurred' = FALSE
  /\ UNCHANGED <<PC, statusVars, ExcCode, BD, EPC, first_bad_exception,
                 running_in_delay_slot, left, resume, interrupted>>

\* The handler's own writes to CP0.  It steps over the instruction at EPC
\* whatever the exception.
HandlerSkip ==
  /\ Executes("skip")
  /\ bump_CP0_timer
  /\ EPC' = EPC + 1
  /\ Done(PC + 1)
  /\ UNCHANGED <<PC, statusVars, ExcCode, BD, running_in_delay_slot>>

HandlerClear ==
  /\ Executes("clear")
  /\ IP' = {} /\ ExcCode' = "Int" /\ BD' = FALSE
  /\ Done(PC + 1)
  /\ UNCHANGED <<PC, statusVars, EPC, running_in_delay_slot>>

HandlerEnable ==
  /\ Executes("enable")
  /\ bump_CP0_timer
  /\ IE' = TRUE
  /\ Done(PC + 1)
  /\ UNCHANGED <<PC, EXL, IM, ownLevel, ExcCode, BD, EPC, running_in_delay_slot>>

-----------------------------------------------------------------------------
\* After the instruction.  Displaying the next instruction (print_inst,
\* inst_to_string) clears exception_occurred on the way.
After ==
  /\ phase = "after"
  /\ IF exception_occurred /\ ~display
     THEN handle_exception
     ELSE PC' = PC + 1 /\ exception_occurred' = FALSE
  /\ NextIteration
  /\ UNCHANGED <<code, statusVars, causeVars, EPC, first_bad_exception,
                 running_in_delay_slot, frames, resume, interrupted>>

\* Mutants: the target is forgotten; the flag is not reset.
Return_lost ==
  /\ phase = "return"
  /\ running_in_delay_slot' = FALSE
  /\ frames' = SubSeq(frames, 1, Len(frames) - 1)
  /\ phase' = "after"
  /\ UNCHANGED <<code, PC, statusVars, causeVars, EPC, exception_occurred,
                 first_bad_exception, left, resume, interrupted>>
Return_in_slot ==
  /\ phase = "return"
  /\ PC' = frames[Len(frames)] - 1
  /\ frames' = SubSeq(frames, 1, Len(frames) - 1)
  /\ phase' = "after"
  /\ UNCHANGED <<code, statusVars, causeVars, EPC, exception_occurred,
                 first_bad_exception, running_in_delay_slot, left, resume,
                 interrupted>>

\* Back in JUMP_INST from the recursive call.
Return ==
  /\ phase = "return"
  /\ running_in_delay_slot' = FALSE
  /\ PC' = frames[Len(frames)] - 1
  /\ frames' = SubSeq(frames, 1, Len(frames) - 1)
  /\ phase' = "after"
  /\ UNCHANGED <<code, statusVars, causeVars, EPC, exception_occurred,
                 first_bad_exception, left, resume, interrupted>>

\* The run command, once more: nothing of CP0 is reset.
Rerun ==
  /\ phase = "ended" /\ EPC <= MaxEPC
  /\ PC' = 1 /\ resume' = 1 /\ interrupted' = FALSE
  /\ phase' = "poll" /\ left' = IO_INTERVAL
  /\ exception_occurred' = FALSE
  /\ UNCHANGED <<code, statusVars, causeVars, EPC, first_bad_exception,
                 running_in_delay_slot, frames>>

\* The reinitialize command (initialize_world), the program read again and
\* run.
Reinitialize ==
  /\ phase = "ended"
  /\ PC' = 1 /\ resume' = 1 /\ interrupted' = FALSE /\ ownLevel' = FALSE
  /\ IE' = FALSE /\ EXL' = FALSE /\ IM' = Lines
  /\ IP' = {} /\ ExcCode' = "Int" /\ BD' = FALSE /\ EPC' = 0
  /\ phase' = "poll" /\ left' = IO_INTERVAL
  /\ exception_occurred' = FALSE
  /\ UNCHANGED <<code, first_bad_exception, running_in_delay_slot, frames>>

Execute ==
  \/ Plain \/ Io \/ MTC0_Status \/ Fault \/ FetchFault \/ Jump \/ ERET \/ Exit
  \/ run_error \/ HandlerSkip \/ HandlerClear \/ HandlerEnable

Running == Poll \/ Execute \/ After \/ Return

Next == Running \/ Rerun \/ Reinitialize

Spec == Init /\ [][Next]_vars

\* The loop runs on its own until the run ends; nobody has to run again.
FairSpec == Spec /\ WF_vars(Running)

-----------------------------------------------------------------------------
(* The state the code can be in. *)
TypeOK ==
  /\ code \in Programs
  /\ PC \in Int /\ EPC \in Nat
  /\ IE \in BOOLEAN /\ EXL \in BOOLEAN /\ IM \in SUBSET Lines
  /\ IP \in SUBSET Lines /\ ExcCode \in Codes /\ BD \in BOOLEAN
  /\ exception_occurred \in BOOLEAN
  /\ first_bad_exception \in Codes \cup {NoFault}
  /\ running_in_delay_slot \in BOOLEAN
  /\ frames \in Seq(Int)
  /\ phase \in {"poll", "exec", "after", "return", "ended"}
  /\ left \in 1..IO_INTERVAL
  /\ resume \in Nat /\ interrupted \in BOOLEAN /\ ownLevel \in BOOLEAN

(* The user's program runs at exception level only when it has gone there  *)
(* itself, by mtc0 to Status and with no exception since: every exception  *)
(* that is raised gets to the handler, whose eret leaves the level, so     *)
(* that interrupts are not blocked for good and the next exception sets    *)
(* EPC.                                                                    *)
UserRunsWithEXLClear ==
  phase = "exec" /\ ~InHandler(PC) => (EXL <=> ownLevel)

(* Where the handler brings the user's program back to.                    *)
goesOnAt == IF interrupted THEN resume + 1 ELSE resume

(* After the handler the user's program goes on right behind the           *)
(* instruction that faulted (at exception level: behind the EPC of the     *)
(* exception before), and an interrupt costs it exactly one instruction:   *)
(* the one it kept from executing is skipped (exceptions.s 141-148), no    *)
(* other one is, and none is executed twice.                               *)
SkipsOnlyInterrupted ==
  phase = "exec" /\ ~InHandler(PC) => PC = goesOnAt

(* What run.c and exceptions.s say of interrupts: "EPC points to           *)
(* unexecuted instructions, which is the one to return to", "Don't skip    *)
(* instruction at EPC since it has not executed".  The handler skips it:   *)
(* the run cpu_skips shows this violated.  Where interrupts are disabled   *)
(* it holds, and says that no exception, jump or delay slot makes the      *)
(* program go on anywhere but where it has to.                             *)
ResumesExactly ==
  phase = "exec" /\ ~InHandler(PC) => PC = resume

(* A run never ends in the middle of the default handler. *)
HandlerNeverDies == phase = "ended" => ~InHandler(PC)

(* running_in_delay_slot is "true when ... instruction is executing in     *)
(* delay slot of another instruction".                                     *)
SlotFlagTells ==
  phase = "exec" => (running_in_delay_slot <=> frames # <<>>)

(* An exception or interrupt gets to the handler's eret: the program runs  *)
(* again, below exception level, unless the run ends.                      *)
HandlerReturns ==
  ((exception_occurred \/ InHandler(PC)) /\ phase # "ended") ~>
    ((~EXL /\ ~InHandler(PC)) \/ phase = "ended")

(* A timer match "causes an interrupt": if it is enabled and stays         *)
(* pending, the processor gets to exception level (an interrupt is taken,  *)
(* or the program has gone there itself), or the run ends.  This needs     *)
(* mapped_io, with which the outer loop is come back to every IO_INTERVAL  *)
(* instructions.  By default mapped_io is FALSE (spim.c 423) and           *)
(* interrupts are looked at once in a run: nothing of the kind holds then. *)
TimerInterruptTaken ==
  (TimerLine \in IP \cap IM /\ IE) ~>
    (EXL \/ TimerLine \notin IP \cap IM \/ ~IE \/ phase = "ended")

-----------------------------------------------------------------------------
(* The inductive invariant of a run without delayed branches and display,  *)
(* with or without mapped IO: exception level is entered and left with the *)
(* handler, which knows from EPC where to return to.                       *)

PlainMode == ~delayed_branches /\ ~display

\* The user's program is about to execute a.
AtUser(a) == a = goesOnAt /\ (EXL <=> ownLevel)

\* The handler is about to execute a: up to its second instruction EPC is
\* still that of the exception.
AtHandler(a) ==
  /\ EXL
  /\ a \in EXCEPTION_ADDR..(EXCEPTION_ADDR + 4)
  /\ EPC = IF a <= EXCEPTION_ADDR + 1 THEN goesOnAt - 1 ELSE goesOnAt

PreciseInv ==
  /\ frames = <<>> /\ ~running_in_delay_slot /\ phase # "return"
  /\ phase \in {"poll", "exec"} => AtUser(PC) \/ AtHandler(PC)
  /\ phase = "after" =>
       IF exception_occurred THEN AtHandler(EXCEPTION_ADDR)
       ELSE AtUser(PC + 1) \/ AtHandler(PC + 1)
  /\ phase = "ended" => (EXL <=> ownLevel) /\ ~InHandler(PC)

(* The inductive invariant with delayed branches, for programs that the    *)
(* MIPS architecture allows (no jump in the delay slot of another, nor the *)
(* end of the run) and that raise no exception.                            *)

SlotProgram(p) ==
  \A a \in UserText :
    /\ p[a].op # "fault" /\ (p[a].op = "status" => ~p[a].IE)
    /\ p[a].op = "jump" =>
         /\ p[a].target \in UserText /\ a + 1 \in UserText
         /\ p[a + 1].op \in {"plain", "io", "status"}

SlotMode == delayed_branches /\ \A p \in Programs : SlotProgram(p)

\* Either no jump waits, or the jump to t does, and the only instruction that
\* runs meanwhile is the one in its slot.
SlotInv ==
  /\ ~IE /\ ~exception_occurred /\ ~interrupted
  /\ PC \in 0..(NUser + 1) /\ resume \in 0..(NUser + 1)
  /\ running_in_delay_slot <=> frames # <<>>
  /\ \/ /\ frames = <<>> /\ phase # "return"
        /\ phase \in {"poll", "exec"} => PC = resume /\ PC # 0
        /\ phase = "after" => PC + 1 = resume
     \/ \E t \in UserText :
          /\ frames = <<t>> /\ phase # "ended"
          /\ phase \in {"poll", "exec"} =>
               /\ PC = resume /\ PC \in UserText
               /\ code[PC].op \in {"plain", "io", "status"}
          /\ phase \in {"after", "return"} => resume = t
          /\ phase = "after" => PC \in UserText

(* With delayed branches, for programs without exceptions and with         *)
(* interrupts disabled, the program goes on exactly where it should and    *)
(* the flag tells the recursive call apart: a delay slot is executed   *)
(* once, by the call for it (JUMP_INST).                                   *)
SlotsExact == TypeOK /\ ResumesExactly /\ SlotFlagTells
=============================================================================
