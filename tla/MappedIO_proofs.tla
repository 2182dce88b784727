--------------------------- MODULE MappedIO_proofs ---------------------------
(***************************************************************************)
(* Proofs about the memory-mapped console, for every RECV_INTERVAL,        *)
(* TRANS_LATENCY and number of characters.  DeviceInv is inductive; the    *)
(* action properties and the refinement of ConsoleChannel follow from it.  *)
(***************************************************************************)
EXTENDS MappedIO, TLAPS

LEMMA InitInv == Init => DeviceInv
<1> SUFFICES ASSUME Init PROVE DeviceInv
  OBVIOUS
<1> USE DeviceAssumption
    DEF Init, Asking, Bits, Levels, Junk, RecvCap, TransCap, RECV_INT_LEVEL,
        TRANS_INT_LEVEL
<1>1. TypeOK
  <2>1. recv_control \in SUBSET Bits /\ trans_control \in SUBSET Bits
    OBVIOUS
  <2>2. /\ recv_buffer_full_timer \in 0..RECV_INTERVAL
        /\ trans_buffer_full_timer \in 0..TRANS_LATENCY
        /\ since_recv \in 0..RecvCap /\ since_trans \in 0..TransCap
    OBVIOUS
  <2>3. /\ typed \in 0..MaxChars /\ taken \in 0..typed
        /\ recv_buffer \in 0..typed /\ last_received \in 0..typed
    OBVIOUS
  <2>4. IP \in SUBSET Levels /\ cleared \in SUBSET Levels /\ ctrl_c \in SUBSET (1..typed)
    OBVIOUS
  <2> QED
    BY <2>1, <2>2, <2>3, <2>4 DEF TypeOK
<1>2. NoSpuriousInterrupt /\ NoLostInterrupt
  BY DEF NoSpuriousInterrupt, NoLostInterrupt
<1>3. TimersTell /\ BufferIsFresh
  BY DEF TimersTell, BufferIsFresh
<1> QED
  BY <1>1, <1>2, <1>3 DEF DeviceInv

LEMMA LevelSets ==
  ASSUME NEW S \in SUBSET Levels, NEW l \in {RECV_INT_LEVEL, TRANS_INT_LEVEL}
  PROVE  S \cup {l} \in SUBSET Levels /\ S \ {l} \in SUBSET Levels
  BY DEF Levels, RECV_INT_LEVEL, TRANS_INT_LEVEL

(* Each action preserves the invariant. *)
LEMMA StepInv == DeviceInv /\ [Next]_vars => DeviceInv'
<1> SUFFICES ASSUME DeviceInv, [Next]_vars PROVE DeviceInv'
  OBVIOUS
<1> USE DeviceAssumption
    DEF DeviceInv, TypeOK, NoSpuriousInterrupt, NoLostInterrupt, TimersTell,
        BufferIsFresh, Asking, Bits, Levels, Junk, RecvCap, TransCap,
        RECV_INT_LEVEL, TRANS_INT_LEVEL, recvVars, transVars, consVars,
        RAISE_INTERRUPT, CLEAR_INTERRUPT
<1>1. CASE Type
  BY <1>1 DEF Type
<1>2. CASE Eof
  BY <1>2 DEF Eof
<1>3. CASE Resume
  BY <1>3 DEF Resume, AtEof
<1>4. CASE Stop
  BY <1>4 DEF Stop
<1>5. CASE initialize_registers
  BY <1>5 DEF initialize_registers
<1>6. CASE check_memory_mapped_IO
  <2> USE <1>6 DEF check_memory_mapped_IO, RecvPoll, TransPoll, PollReads, AtEof,
                Take, RaisedByRecv, RaisedByTrans, console_input_available
  <2>1. TypeOK'
    <3>1. recv_control' \in SUBSET Bits /\ trans_control' \in SUBSET Bits
      OBVIOUS
    <3>2. /\ recv_buffer_full_timer' \in 0..RECV_INTERVAL
          /\ trans_buffer_full_timer' \in 0..TRANS_LATENCY
          /\ since_recv' \in 0..RecvCap /\ since_trans' \in 0..TransCap
      OBVIOUS
    <3>3. /\ typed' \in 0..MaxChars /\ taken' \in 0..typed'
          /\ recv_buffer' \in 0..typed' /\ last_received' \in 0..typed'
      OBVIOUS
    <3>4. IP' \in SUBSET Levels /\ cleared' \in SUBSET Levels
      <4>1. RaisedByRecv \in SUBSET Levels /\ RaisedByTrans \in SUBSET Levels
        BY DEF RaisedByRecv, RaisedByTrans
      <4> QED
        BY <4>1, Zenon DEF check_memory_mapped_IO
    <3>5. ctrl_c' \in SUBSET (1..typed') /\ eof' \in BOOLEAN /\ running' \in BOOLEAN
      OBVIOUS
    <3> QED
      BY <3>1, <3>2, <3>3, <3>4, <3>5
  <2>2. NoSpuriousInterrupt'
    OBVIOUS
  <2>3. NoLostInterrupt'
    OBVIOUS
  <2>4. TimersTell'
    OBVIOUS
  <2>5. BufferIsFresh'
    OBVIOUS
  <2> QED
    BY <2>1, <2>2, <2>3, <2>4, <2>5
<1>7. CASE control_c_seen
  <2>1. taken' \in taken..typed
    BY <1>7 DEF control_c_seen, AtEof, Take
  <2>2. running' = FALSE /\ UNCHANGED <<recvVars, transVars, IP, typed, ctrl_c, eof,
                 last_received, since_recv, since_trans, cleared>>
    BY <1>7 DEF control_c_seen
  <2>3. TypeOK'
    <3>1. taken' \in 0..typed'
      BY <2>1, <2>2
    <3>2. running' \in BOOLEAN
      BY <2>2
    <3> QED
      BY <2>2, <3>1, <3>2
  <2>4. BufferIsFresh'
    BY <2>1, <2>2
  <2>5. NoSpuriousInterrupt' /\ NoLostInterrupt' /\ TimersTell'
    BY <2>2
  <2> QED
    BY <2>3, <2>4, <2>5
<1>8. ASSUME NEW e \in BOOLEAN, write_RECV_CTRL(e) PROVE DeviceInv'
  <2> USE <1>8 DEF write_RECV_CTRL
  <2>1. IP' \in SUBSET Levels /\ cleared' \in SUBSET Levels
    BY LevelSets
  <2>2. TypeOK'
    BY <2>1
  <2>3. NoSpuriousInterrupt'
    OBVIOUS
  <2>4. NoLostInterrupt'
    OBVIOUS
  <2> QED
    BY <2>2, <2>3, <2>4
<1>9. ASSUME NEW e \in BOOLEAN, write_TRANS_CTRL(e) PROVE DeviceInv'
  <2> USE <1>9 DEF write_TRANS_CTRL
  <2>1. IP' \in SUBSET Levels /\ cleared' \in SUBSET Levels
    BY LevelSets
  <2>2. TypeOK'
    BY <2>1
  <2>3. NoSpuriousInterrupt'
    OBVIOUS
  <2>4. NoLostInterrupt'
    OBVIOUS
  <2> QED
    BY <2>2, <2>3, <2>4
<1>10. CASE write_TRANS_BUFFER
  <2> USE <1>10 DEF write_TRANS_BUFFER
  <2>1. IP' \in SUBSET Levels /\ cleared' \in SUBSET Levels
    BY LevelSets
  <2>2. TypeOK'
    BY <2>1
  <2>3. NoSpuriousInterrupt' /\ NoLostInterrupt'
    OBVIOUS
  <2>4. TimersTell' /\ BufferIsFresh'
    OBVIOUS
  <2> QED
    BY <2>2, <2>3, <2>4
<1>11. CASE read_RECV_BUFFER
  BY <1>11 DEF read_RECV_BUFFER
<1>12. CASE mtc0_Cause_zero
  BY <1>12 DEF mtc0_Cause_zero
<1>13. CASE UNCHANGED vars
  BY <1>13 DEF vars
<1> QED
  BY <1>1, <1>2, <1>3, <1>4, <1>5, <1>6, <1>7, <1>8, <1>9, <1>10, <1>11, <1>12,
     <1>13 DEF Next

-----------------------------------------------------------------------------
(* The device state stays consistent on every behaviour of an arbitrary      *)
(* program, user and command loop.                                           *)
THEOREM DeviceInvariant == Spec => []DeviceInv
  BY InitInv, StepInv, PTL DEF Spec

(* Typing of the device state (memory.c:486-492).                            *)
THEOREM TypeCorrect == Spec => []TypeOK
  BY DeviceInvariant, PTL DEF DeviceInv

(* A pending device interrupt always has its cause.                          *)
THEOREM NoSpurious == Spec => []NoSpuriousInterrupt
  BY DeviceInvariant, PTL DEF DeviceInv

(* A ready and enabled device has its interrupt pending unless software wiped *)
(* the bit.                                                                  *)
THEOREM NoLost == Spec => []NoLostInterrupt
  BY DeviceInvariant, PTL DEF DeviceInv

-----------------------------------------------------------------------------
(* An unread character stays in the receiver's buffer for RECV_INTERVAL polls. *)
THEOREM Kept == Spec => KeptForInterval
<1>1. DeviceInv /\ [Next]_vars =>
        [("READY" \in recv_control /\ recv_buffer' # recv_buffer)
           => since_recv = RECV_INTERVAL]_vars
  <2> SUFFICES ASSUME DeviceInv, Next, "READY" \in recv_control,
                      recv_buffer' # recv_buffer
               PROVE  since_recv = RECV_INTERVAL
    BY DEF vars
  <2>1. check_memory_mapped_IO
    BY DEF Next, Type, Eof, Resume, Stop, initialize_registers, control_c_seen,
           write_RECV_CTRL, write_TRANS_CTRL, write_TRANS_BUFFER, read_RECV_BUFFER,
           mtc0_Cause_zero, recvVars
  <2>2. recv_buffer_full_timer = 0
    BY <2>1 DEF check_memory_mapped_IO, RecvPoll, PollReads, recvVars
  <2> QED
    BY <2>2, DeviceAssumption DEF DeviceInv, TypeOK, TimersTell, RecvCap
<1> QED
  BY <1>1, DeviceInvariant, PTL DEF Spec, KeptForInterval

(* Transmitted characters are more than TRANS_LATENCY polls apart.           *)
THEOREM Paced == Spec => TransmitPaced
<1>1. DeviceInv /\ [Next]_vars =>
        [since_trans' = 0 /\ since_trans # 0 => since_trans = TransCap]_vars
  <2> SUFFICES ASSUME DeviceInv, Next, since_trans' = 0, since_trans # 0
               PROVE  since_trans = TransCap
    BY DEF vars
  <2>1. CASE write_TRANS_BUFFER
    BY <2>1 DEF write_TRANS_BUFFER, DeviceInv, TimersTell
  <2>2. CASE check_memory_mapped_IO
    BY <2>2, DeviceAssumption
    DEF check_memory_mapped_IO, TransPoll, DeviceInv, TypeOK, TransCap
  <2> QED
    BY <2>1, <2>2
    DEF Next, Type, Eof, Resume, Stop, initialize_registers, control_c_seen,
        write_RECV_CTRL, write_TRANS_CTRL, read_RECV_BUFFER, mtc0_Cause_zero
<1> QED
  BY <1>1, DeviceInvariant, PTL DEF Spec, TransmitPaced

-----------------------------------------------------------------------------
LEMMA ChannelInit == Init => Channel!Init
  BY DEF Init, Channel!Init, Junk

(* Every step of the device is a step of the abstract channel, or a stutter. *)
LEMMA ChannelStep == DeviceInv /\ [Next]_vars => [Channel!Next]_(Channel!chanVars)
<1> DEFINE slot == IF "READY" \in recv_control THEN recv_buffer ELSE Junk
<1> SUFFICES ASSUME DeviceInv, [Next]_vars
             PROVE  Channel!Next \/ UNCHANGED <<typed, slot, last_received>>
  BY DEF Channel!chanVars
<1> USE DEF DeviceInv, TypeOK, BufferIsFresh, Bits, Junk, recvVars, consVars
<1>1. CASE Type
  <2>1. Channel!Send
    BY <1>1 DEF Type, Channel!Send
  <2> QED
    BY <2>1 DEF Channel!Next
<1>2. CASE check_memory_mapped_IO
  <2>1. PICK c \in {Junk, taken + 1} : RecvPoll(c)
    BY <1>2 DEF check_memory_mapped_IO
  <2>2. typed' = typed /\ last_received' = last_received
    BY <1>2 DEF check_memory_mapped_IO
  <2>3. CASE PollReads /\ recv_buffer' = c /\ "READY" \in recv_control'
    <3>1. slot' = c
      BY <2>3
    <3>2. CASE AtEof /\ c = Junk
      <4>1. Channel!Lose
        BY <2>2, <3>1, <3>2 DEF Channel!Lose
      <4> QED
        BY <4>1 DEF Channel!Next
    <3>3. CASE ~AtEof /\ c = taken + 1
      <4>1. c \in 1..typed /\ c > last_received /\ c > slot
        BY <3>3 DEF AtEof
      <4>2. Channel!Load
        BY <2>2, <3>1, <4>1 DEF Channel!Load
      <4> QED
        BY <4>2 DEF Channel!Next
    <3> QED
      BY <2>1, <2>3, <3>2, <3>3, DeviceAssumption DEF RecvPoll, PollReads
  <2>4. CASE UNCHANGED <<recv_control, recv_buffer>>
    BY <2>2, <2>4
  <2> QED
    BY <2>1, <2>3, <2>4 DEF RecvPoll
<1>3. CASE read_RECV_BUFFER
  <2>1. slot' = Junk /\ typed' = typed
    BY <1>3 DEF read_RECV_BUFFER
  <2>2. CASE "READY" \in recv_control /\ recv_buffer # Junk
    <3>1. Channel!Deliver
      BY <1>3, <2>1, <2>2 DEF read_RECV_BUFFER, Channel!Deliver
    <3> QED
      BY <3>1 DEF Channel!Next
  <2>3. CASE ~("READY" \in recv_control /\ recv_buffer # Junk)
    BY <1>3, <2>1, <2>3 DEF read_RECV_BUFFER
  <2> QED
    BY <2>2, <2>3
<1>4. ASSUME NEW e \in BOOLEAN, write_RECV_CTRL(e)
      PROVE  UNCHANGED <<typed, slot, last_received>>
  BY <1>4 DEF write_RECV_CTRL
<1>5. CASE UNCHANGED <<typed, recv_control, recv_buffer, last_received>>
  BY <1>5
<1> QED
  BY <1>1, <1>2, <1>3, <1>4, <1>5
  DEF Next, vars, Eof, Resume, Stop, initialize_registers, control_c_seen,
      write_TRANS_CTRL, write_TRANS_BUFFER, mtc0_Cause_zero

(* The receiver implements the one-place lossy channel: a program receives a *)
(* subsequence of what is typed, in order and nothing twice.                 *)
THEOREM Refinement == Spec => ImplementsChannel
  BY ChannelInit, ChannelStep, DeviceInvariant, PTL
  DEF Spec, ImplementsChannel, Channel!Spec
=============================================================================
