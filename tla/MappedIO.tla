------------------------------ MODULE MappedIO ------------------------------
(***************************************************************************)
(* The memory-mapped console of spimulator (memory.c, spim.c): a receiver  *)
(* and a transmitter, each with a control register (a set of bits), a      *)
(* one-character buffer and a timer counted down by the poll that run_spim *)
(* makes every IO_INTERVAL instructions.  The devices raise and clear      *)
(* their bits IP3 and IP2 of the CP0 Cause register.                       *)
(*                                                                         *)
(* Characters typed on the console are numbered 1, 2, 3, ... in the order  *)
(* they are typed; ctrl_c is the set of those that are ^C.  The program    *)
(* that drives the device is arbitrary: it reads and writes the four       *)
(* registers in any order.                                                 *)
(***************************************************************************)
EXTENDS Integers, FiniteSets

CONSTANTS RECV_INTERVAL,   \* polls a received character is kept for
          TRANS_LATENCY,   \* polls the transmitter is busy for
          MaxChars         \* bound on the number of characters typed

ASSUME DeviceAssumption ==
  /\ RECV_INTERVAL \in Nat \ {0}
  /\ TRANS_LATENCY \in Nat \ {0}
  /\ MaxChars \in Nat

RECV_INT_LEVEL  == 3
TRANS_INT_LEVEL == 2
Levels == 0..7

Bits == {"READY", "INT_ENABLE"}

\* A control register that asks for its interrupt.
Asking(control) == "READY" \in control /\ "INT_ENABLE" \in control

\* recv_buffer before anything is received, and what read() at end of file
\* leaves in get_console_char's uninitialised byte.
Junk == 0

VARIABLES
  recv_control, recv_buffer, recv_buffer_full_timer,
  trans_control, trans_buffer_full_timer,
  IP,             \* pending interrupt levels: the IP field of CP0_Cause
  typed,          \* how many characters the user has typed
  ctrl_c,         \* which of them are ^C
  taken,          \* how many of them get_console_char has read
  eof,            \* the console is at end of file after the typed characters
  running,        \* run_spim is executing (as opposed to the command loop)
  last_received,  \* history: last typed character the program has received
  since_recv,     \* history: polls since recv_buffer was loaded (capped)
  since_trans,    \* history: polls since a character was put (capped)
  cleared         \* history: levels whose bit software has wiped from Cause

recvVars  == <<recv_control, recv_buffer, recv_buffer_full_timer>>
transVars == <<trans_control, trans_buffer_full_timer>>
consVars  == <<typed, ctrl_c, taken, eof>>
vars == <<recvVars, transVars, consVars, IP, running, last_received,
          since_recv, since_trans, cleared>>

\* The caps of the history counters: beyond them nothing depends on the value.
RecvCap  == RECV_INTERVAL
TransCap == TRANS_LATENCY + 1

Init ==
  /\ recv_control = {} /\ recv_buffer = Junk /\ recv_buffer_full_timer = 0
  /\ trans_control = {"READY"} /\ trans_buffer_full_timer = 0
  /\ IP = {}
  /\ typed = 0 /\ ctrl_c = {} /\ taken = 0 /\ eof = FALSE
  /\ running = FALSE
  /\ last_received = 0
  /\ since_recv = RecvCap /\ since_trans = TransCap
  /\ cleared = {}

-----------------------------------------------------------------------------
RAISE_INTERRUPT(level) == IP' = IP \cup {level} /\ cleared' = cleared \ {level}

\* Mutant: the pending bit stays.
CLEAR_INTERRUPT_not(level) == UNCHANGED <<IP, cleared>>

CLEAR_INTERRUPT(level) == IP' = IP \ {level} /\ UNCHANGED cleared

-----------------------------------------------------------------------------
(* The user at the console and the command loop. *)

Type ==
  /\ ~eof /\ typed < MaxChars
  /\ typed' = typed + 1
  /\ \E c \in BOOLEAN : ctrl_c' = IF c THEN ctrl_c \cup {typed + 1} ELSE ctrl_c
  /\ UNCHANGED <<recvVars, transVars, IP, taken, eof, running, last_received,
                 since_recv, since_trans, cleared>>

Eof ==
  /\ ~eof
  /\ eof' = TRUE
  /\ UNCHANGED <<recvVars, transVars, IP, typed, ctrl_c, taken, running,
                 last_received, since_recv, since_trans, cleared>>

AtEof == taken = typed

\* The commands run, continue and step.  The command loop reads the same
\* console, so it consumes any number of the characters typed so far; at end
\* of file it exits and does not run anything.
Resume ==
  /\ ~running /\ ~(eof /\ AtEof)
  /\ \E n \in taken..typed : taken' = n
  /\ running' = TRUE
  /\ UNCHANGED <<recvVars, transVars, typed, ctrl_c, eof, IP, last_received,
                 since_recv, since_trans, cleared>>

\* The program exits, hits a breakpoint or fails: run_spim returns.
Stop ==
  /\ running
  /\ running' = FALSE
  /\ UNCHANGED <<recvVars, transVars, consVars, IP, last_received,
                 since_recv, since_trans, cleared>>

\* The registers of CP0 are zeroed; the device's statics are not.
initialize_registers ==
  /\ ~running /\ ~(eof /\ AtEof)
  /\ IP' = {} /\ cleared' = cleared \cup IP
  /\ UNCHANGED <<recvVars, transVars, consVars, running, last_received,
                 since_recv, since_trans>>

-----------------------------------------------------------------------------
(* check_memory_mapped_IO *)

console_input_available == taken < typed \/ eof

\* Mutants: a poll that does not wait for the interval to expire, and one that
\* waits until the program has read the buffer.
PollReads_impatient == console_input_available
PollReads_blocked ==
  /\ recv_buffer_full_timer = 0 /\ console_input_available
  /\ "READY" \notin recv_control

\* The polls whose first half reads the console.
PollReads == recv_buffer_full_timer = 0 /\ console_input_available

\* Mutant: the character is left in the console.
Take_peeks == taken' = taken

\* read() takes the next typed character or, at end of file, nothing at all,
\* and then the byte get_console_char returns is whatever was there.
Take == taken' = IF AtEof THEN taken ELSE taken + 1

RecvPoll(c) ==
  \/ /\ recv_buffer_full_timer > 0
     /\ recv_buffer_full_timer' = recv_buffer_full_timer - 1
     /\ since_recv' = IF since_recv < RecvCap THEN since_recv + 1 ELSE RecvCap
     /\ UNCHANGED <<recv_control, recv_buffer, taken>>
  \/ /\ PollReads
     /\ taken + 1 \notin ctrl_c
     /\ IF AtEof THEN c = Junk ELSE c = taken + 1
     /\ Take
     /\ recv_buffer' = c
     /\ recv_control' = recv_control \cup {"READY"}
     /\ recv_buffer_full_timer' = RECV_INTERVAL
     /\ since_recv' = 0
  \/ /\ recv_buffer_full_timer = 0 /\ ~console_input_available
     /\ since_recv' = IF since_recv < RecvCap THEN since_recv + 1 ELSE RecvCap
     /\ UNCHANGED <<recvVars, taken>>

\* Mutants: the timer is not tested, the transmitter comes back one poll too
\* early, or only if its interrupt is enabled.
TransPoll_untested ==
  /\ since_trans' = IF since_trans < TransCap THEN since_trans + 1 ELSE TransCap
  /\ trans_buffer_full_timer' = trans_buffer_full_timer - 1
  /\ UNCHANGED trans_control
TransPoll_early ==
  /\ since_trans' = IF since_trans < TransCap THEN since_trans + 1 ELSE TransCap
  /\ trans_buffer_full_timer' =
       IF trans_buffer_full_timer > 0 THEN trans_buffer_full_timer - 1 ELSE 0
  /\ trans_control' = IF trans_buffer_full_timer <= 1
                      THEN trans_control \cup {"READY"} ELSE trans_control
TransPoll_polite ==
  /\ since_trans' = IF since_trans < TransCap THEN since_trans + 1 ELSE TransCap
  /\ trans_buffer_full_timer' =
       IF trans_buffer_full_timer > 0 THEN trans_buffer_full_timer - 1 ELSE 0
  /\ trans_control' = IF trans_buffer_full_timer = 0 /\ "INT_ENABLE" \in trans_control
                      THEN trans_control \cup {"READY"} ELSE trans_control

TransPoll ==
  /\ since_trans' = IF since_trans < TransCap THEN since_trans + 1 ELSE TransCap
  /\ \/ /\ trans_buffer_full_timer > 0
        /\ trans_buffer_full_timer' = trans_buffer_full_timer - 1
        /\ UNCHANGED trans_control
     \/ /\ trans_buffer_full_timer = 0 /\ "READY" \notin trans_control
        /\ trans_control' = trans_control \cup {"READY"}
        /\ UNCHANGED trans_buffer_full_timer
     \/ /\ trans_buffer_full_timer = 0 /\ "READY" \in trans_control
        /\ UNCHANGED transVars

RaisedByRecv ==
  {l \in {RECV_INT_LEVEL} : PollReads /\ "INT_ENABLE" \in recv_control}

\* Mutant: the interrupt of the transmitter is forgotten.
RaisedByTrans_none == {}

RaisedByTrans ==
  {l \in {TRANS_INT_LEVEL} : /\ trans_buffer_full_timer = 0
                             /\ "READY" \notin trans_control
                             /\ "INT_ENABLE" \in trans_control}

check_memory_mapped_IO ==
  /\ running
  /\ \E c \in {Junk, taken + 1} : RecvPoll(c)
  /\ TransPoll
  /\ IP' = IP \cup RaisedByRecv \cup RaisedByTrans
  /\ cleared' = cleared \ (RaisedByRecv \cup RaisedByTrans)
  /\ UNCHANGED <<typed, ctrl_c, eof, running, last_received>>

\* get_console_char reads a ^C: control_c_seen jumps to the command loop, and
\* the rest of the poll does not happen.  The byte left uninitialised at end
\* of file may be a ^C too.
control_c_seen ==
  /\ running /\ PollReads
  /\ taken + 1 \in ctrl_c \/ AtEof
  /\ Take
  /\ running' = FALSE
  /\ UNCHANGED <<recvVars, transVars, IP, typed, ctrl_c, eof, last_received,
                 since_recv, since_trans, cleared>>

-----------------------------------------------------------------------------
(* The program's accesses: write_memory_mapped_IO, read_memory_mapped_IO.   *)
(* The accesses that change nothing are stuttering steps.                   *)

write_RECV_CTRL(enable) ==
  /\ running
  /\ IF enable
     THEN /\ recv_control' = recv_control \cup {"INT_ENABLE"}
          /\ IF "READY" \in recv_control
             THEN RAISE_INTERRUPT(RECV_INT_LEVEL)
             ELSE UNCHANGED <<IP, cleared>>
     ELSE /\ recv_control' = recv_control \ {"INT_ENABLE"}
          /\ CLEAR_INTERRUPT(RECV_INT_LEVEL)
  /\ UNCHANGED <<recv_buffer, recv_buffer_full_timer, transVars, consVars,
                 running, last_received, since_recv, since_trans>>

write_TRANS_CTRL(enable) ==
  /\ running
  /\ IF enable
     THEN /\ trans_control' = trans_control \cup {"INT_ENABLE"}
          /\ IF "READY" \in trans_control
             THEN RAISE_INTERRUPT(TRANS_INT_LEVEL)
             ELSE UNCHANGED <<IP, cleared>>
     ELSE /\ trans_control' = trans_control \ {"INT_ENABLE"}
          /\ CLEAR_INTERRUPT(TRANS_INT_LEVEL)
  /\ UNCHANGED <<trans_buffer_full_timer, recvVars, consVars,
                 running, last_received, since_recv, since_trans>>

\* The character goes to the console (put_console_char) at once.
write_TRANS_BUFFER ==
  /\ running
  /\ "READY" \in trans_control
  /\ trans_control' = trans_control \ {"READY"}
  /\ trans_buffer_full_timer' = TRANS_LATENCY
  /\ CLEAR_INTERRUPT(TRANS_INT_LEVEL)
  /\ since_trans' = 0
  /\ UNCHANGED <<recvVars, consVars, running, last_received, since_recv>>

\* Mutant: the buffer stays ready after it is read.
read_RECV_BUFFER_again ==
  /\ running
  /\ last_received' = IF "READY" \in recv_control /\ recv_buffer # Junk
                      THEN recv_buffer ELSE last_received
  /\ CLEAR_INTERRUPT(RECV_INT_LEVEL)
  /\ UNCHANGED <<recvVars, transVars, consVars, running, since_recv, since_trans>>

\* The program receives recv_buffer if the receiver was ready; otherwise it
\* reads the previous character again.
read_RECV_BUFFER ==
  /\ running
  /\ recv_control' = recv_control \ {"READY"}
  /\ recv_buffer_full_timer' = 0
  /\ CLEAR_INTERRUPT(RECV_INT_LEVEL)
  /\ last_received' = IF "READY" \in recv_control /\ recv_buffer # Junk
                      THEN recv_buffer ELSE last_received
  /\ UNCHANGED <<recv_buffer, transVars, consVars, running, since_recv,
                 since_trans>>

\* mtc0 $0 $13, as the default exception handler does before eret.
mtc0_Cause_zero ==
  /\ running
  /\ IP' = {} /\ cleared' = cleared \cup IP
  /\ UNCHANGED <<recvVars, transVars, consVars, running, last_received,
                 since_recv, since_trans>>

-----------------------------------------------------------------------------
Next ==
  \/ Type \/ Eof \/ Resume \/ Stop \/ initialize_registers
  \/ check_memory_mapped_IO \/ control_c_seen
  \/ \E e \in BOOLEAN : write_RECV_CTRL(e)
  \/ \E e \in BOOLEAN : write_TRANS_CTRL(e)
  \/ write_TRANS_BUFFER \/ read_RECV_BUFFER \/ mtc0_Cause_zero

Spec == Init /\ [][Next]_vars

\* run_spim polls at the head of its outer loop, so a running program is
\* polled again and again (a poll that reads ^C ends the run instead).
Fairness == WF_vars(check_memory_mapped_IO \/ control_c_seen)

FairSpec == Spec /\ Fairness

-----------------------------------------------------------------------------
(* The state the code can be in. *)
TypeOK ==
  /\ recv_control \in SUBSET Bits /\ trans_control \in SUBSET Bits
  /\ recv_buffer \in 0..typed
  /\ recv_buffer_full_timer \in 0..RECV_INTERVAL
  /\ trans_buffer_full_timer \in 0..TRANS_LATENCY
  /\ IP \in SUBSET Levels /\ cleared \in SUBSET Levels
  /\ typed \in 0..MaxChars /\ taken \in 0..typed
  /\ ctrl_c \in SUBSET (1..typed)
  /\ eof \in BOOLEAN /\ running \in BOOLEAN
  /\ last_received \in 0..typed
  /\ since_recv \in 0..RecvCap /\ since_trans \in 0..TransCap

(* A pending device interrupt always has its cause: IP3 is set only while  *)
(* the receiver holds a character and is enabled, IP2 only while the       *)
(* transmitter is ready and enabled.  Every path that takes the cause away *)
(* (reading or writing the buffer, disabling) must clear the bit.          *)
NoSpuriousInterrupt ==
  /\ RECV_INT_LEVEL \in IP => Asking(recv_control)
  /\ TRANS_INT_LEVEL \in IP => Asking(trans_control)

(* A device that is ready and enabled has its interrupt pending, unless    *)
(* software itself wiped the bit from Cause: neither the order of enabling *)
(* and becoming ready nor a poll loses it.                                 *)
NoLostInterrupt ==
  /\ Asking(recv_control) => RECV_INT_LEVEL \in IP \cup cleared
  /\ Asking(trans_control) => TRANS_INT_LEVEL \in IP \cup cleared

(* The timers bound what they should: an unread character has been kept    *)
(* exactly as long as its timer has counted down; the transmitter is not   *)
(* ready until its latency has passed.                                     *)
TimersTell ==
  /\ "READY" \in recv_control =>
       since_recv + recv_buffer_full_timer = RECV_INTERVAL
  /\ "READY" \in trans_control => since_trans = TransCap
  /\ "READY" \notin trans_control =>
       since_trans + trans_buffer_full_timer = TRANS_LATENCY

(* What is in the buffer unread is newer than everything received, and all *)
(* of it has been taken from the console.                                  *)
BufferIsFresh ==
  /\ recv_buffer <= taken /\ last_received <= taken
  /\ "READY" \in recv_control /\ recv_buffer # Junk =>
       recv_buffer > last_received

\* The inductive invariant.
DeviceInv ==
  TypeOK /\ NoSpuriousInterrupt /\ NoLostInterrupt /\ TimersTell /\ BufferIsFresh

(* An unread character is overwritten only when the program has left it in *)
(* the buffer for a full RECV_INTERVAL polls.                              *)
KeptForInterval ==
  [][ /\ "READY" \in recv_control
      /\ recv_buffer' # recv_buffer
      => since_recv = RECV_INTERVAL ]_vars

(* Two characters are never put on the console less than TRANS_LATENCY + 1 *)
(* polls apart: a write to a busy transmitter is ignored.                  *)
TransmitPaced ==
  [][ since_trans' = 0 /\ since_trans # 0 => since_trans = TransCap ]_vars

(* A busy transmitter becomes ready again, unless the run stops.           *)
TransmitterRecovers ==
  "READY" \notin trans_control ~> ("READY" \in trans_control \/ ~running)

(* What the user types gets to the receiver, or the run stops: an unread   *)
(* character in the buffer does not block the ones behind it.              *)
TypedIsTaken ==
  \A n \in 1..MaxChars : (typed >= n /\ running) ~> (taken >= n \/ ~running)

-----------------------------------------------------------------------------
(* What the receiver promises a program: ConsoleChannel. *)
Channel == INSTANCE ConsoleChannel
  WITH delivered <- last_received,
       slot <- IF "READY" \in recv_control THEN recv_buffer ELSE Junk

ImplementsChannel == Channel!Spec
=============================================================================
