----------------------------- MODULE Cpu_proofs -----------------------------
(***************************************************************************)
(* Proofs about the execution loop, for every user program, poll interval  *)
(* and set of devices, with the handler as shipped: without delayed        *)
(* branches and display every exception reaches the handler, which returns *)
(* past it and skips exactly what was interrupted; with delayed branches   *)
(* the slots are run as they should be.                                    *)
(***************************************************************************)
EXTENDS Cpu, TLAPS

CpuInv == TypeOK /\ PreciseInv

LEMMA HandlerText ==
  /\ Len(Handler) = 5
  /\ \A i \in 1..5 : Handler[i] \in {"plain", "skip", "clear", "enable", "eret"}
  /\ Handler[1] = "plain" /\ Handler[2] = "skip" /\ Handler[3] = "clear"
  /\ Handler[4] = "enable" /\ Handler[5] = "eret"
  BY DEF Handler

(* What is fetched, by address. *)
LEMMA Fetched ==
  ASSUME TypeOK
  PROVE  /\ PC \in UserText => inst \in UserInst
         /\ PC \in EXCEPTION_ADDR..(EXCEPTION_ADDR + 4) =>
              inst = [op |-> Handler[PC - EXCEPTION_ADDR + 1]]
         /\ PC = 0 => inst = [op |-> "unmapped"]
         /\ PC > NUser => inst = [op |-> "empty"]
<1> USE CpuAssumption, HandlerText DEF inst, mem_read_inst, UserText, TypeOK
<1>1. PC \in UserText => inst \in UserInst
  OBVIOUS
<1>2. PC \in EXCEPTION_ADDR..(EXCEPTION_ADDR + 4) =>
        inst = [op |-> Handler[PC - EXCEPTION_ADDR + 1]]
  OBVIOUS
<1>3. PC = 0 => inst = [op |-> "unmapped"]
  OBVIOUS
<1>4. PC > NUser => inst = [op |-> "empty"]
  OBVIOUS
<1> QED
  BY <1>1, <1>2, <1>3, <1>4

UserOps == {"plain", "io", "exit", "empty", "fault", "jump", "status"}

(* Where the machine is when it executes an instruction. *)
LEMMA UserOp ==
  ASSUME TypeOK, PC = goesOnAt
  PROVE  /\ ~InHandler(PC) /\ PC \in Nat
         /\ inst.op \in UserOps \cup {"unmapped"}
         /\ inst.op = "unmapped" => PC = 0
         /\ inst.op \in UserOps \ {"empty"} => PC \in UserText
         /\ inst.op = "fault" => inst.code \in {"Bp", "Ov"}
         /\ inst.op = "jump" => inst.target \in 0..NUser
         /\ inst.op = "status" =>
              inst.IE \in BOOLEAN /\ inst.EXL \in BOOLEAN /\ inst.IM \in SUBSET Lines
<1>1. PC \in Nat /\ ~InHandler(PC)
  BY CpuAssumption DEF TypeOK, InHandler, goesOnAt
<1>2. CASE PC \in UserText
  <2>1. inst \in UserInst
    BY <1>2, Fetched
  <2>2. CASE inst \in [op : {"plain", "io", "exit", "empty"}]
    BY <1>1, <1>2, <2>2 DEF UserOps
  <2>3. CASE inst \in [op : {"fault"}, code : {"Bp", "Ov"}]
    BY <1>1, <1>2, <2>3 DEF UserOps
  <2>4. CASE inst \in [op : {"jump"}, target : 0..NUser]
    BY <1>1, <1>2, <2>4 DEF UserOps
  <2>5. CASE inst \in [op : {"status"}, IE : BOOLEAN, EXL : BOOLEAN, IM : SUBSET Lines]
    BY <1>1, <1>2, <2>5 DEF UserOps
  <2> QED
    BY <2>1, <2>2, <2>3, <2>4, <2>5 DEF UserInst
<1>3. CASE PC = 0
  BY <1>1, <1>3, Fetched DEF UserOps
<1>4. CASE PC > NUser
  BY <1>1, <1>4, Fetched DEF UserOps
<1> QED
  BY <1>1, <1>2, <1>3, <1>4, CpuAssumption DEF UserText

LEMMA HandlerOp ==
  ASSUME TypeOK, AtHandler(PC)
  PROVE  /\ InHandler(PC)
         /\ inst.op \in {"plain", "skip", "clear", "enable", "eret"}
         /\ inst.op = "plain" => PC = EXCEPTION_ADDR
         /\ inst.op = "skip" => PC = EXCEPTION_ADDR + 1
         /\ inst.op = "clear" => PC = EXCEPTION_ADDR + 2
         /\ inst.op = "enable" => PC = EXCEPTION_ADDR + 3
         /\ inst.op = "eret" => PC = EXCEPTION_ADDR + 4
<1>1. PC \in EXCEPTION_ADDR..(EXCEPTION_ADDR + 4) /\ InHandler(PC)
  BY CpuAssumption, HandlerText DEF AtHandler, InHandler
<1>2. inst.op = Handler[PC - EXCEPTION_ADDR + 1]
  BY <1>1, Fetched
<1> QED
  BY <1>1, <1>2, HandlerText, CpuAssumption

LEMMA InitCpu == Init => CpuInv
<1> SUFFICES ASSUME Init PROVE CpuInv
  OBVIOUS
<1>1. TypeOK
  <2>1. /\ PC \in Int /\ EPC \in Nat
        /\ left \in 1..IO_INTERVAL /\ resume \in Nat
    BY CpuAssumption, HandlerText DEF Init
  <2>2. IM \in SUBSET Lines /\ IP \in SUBSET Lines /\ ExcCode \in Codes
    BY DEF Init, Codes
  <2>3. frames \in Seq(Int)
    BY DEF Init
  <2> QED
    BY <2>1, <2>2, <2>3 DEF Init, TypeOK, NoFault
<1>2. PreciseInv
  BY CpuAssumption DEF Init, PreciseInv, AtUser, goesOnAt, InHandler
<1> QED
  BY <1>1, <1>2 DEF CpuInv

(* One step of the loop without delayed branches, action by action. *)
LEMMA StepCpu ==
  ASSUME PlainMode, CpuInv, [Next]_vars
  PROVE  CpuInv'
<1> USE CpuAssumption, HandlerText DEF CpuInv
<1>t. TypeOK /\ frames = <<>> /\ ~running_in_delay_slot
  BY DEF PreciseInv
<1>l. TimerLine \in Lines /\ DeviceLines \in SUBSET Lines
  BY DEF Lines
<1>1. CASE Poll
  <2> USE <1>1, <1>t
  <2>2. /\ PC' \in Int /\ EPC' \in Nat
        /\ left' \in 1..IO_INTERVAL /\ resume' \in Nat
    BY <1>t
    DEF TypeOK, UserOps, PreciseInv, AtUser, AtHandler, goesOnAt, UserText, Poll,
        InterruptPending, raise_exception, handle_exception
  <2>3. /\ IP' \in SUBSET Lines /\ IM' \in SUBSET Lines
        /\ ExcCode' \in Codes /\ first_bad_exception' \in Codes \cup {NoFault}
        /\ code' \in Programs
    BY <1>l
    DEF TypeOK, Codes, Poll, InterruptPending, raise_exception,
        handle_exception
  <2>4. /\ IE' \in BOOLEAN /\ EXL' \in BOOLEAN /\ BD' \in BOOLEAN
        /\ exception_occurred' \in BOOLEAN /\ running_in_delay_slot' \in BOOLEAN
        /\ interrupted' \in BOOLEAN /\ ownLevel' \in BOOLEAN
    BY <1>t
    DEF TypeOK, Poll, InterruptPending, raise_exception, handle_exception
  <2>5. /\ frames' = <<>> /\ ~running_in_delay_slot'
        /\ phase' \in {"poll", "exec", "after", "ended"}
    BY DEF TypeOK, Poll, InterruptPending, raise_exception, handle_exception
  <2>6. TypeOK'
    BY <2>2, <2>3, <2>4, <2>5 DEF TypeOK
  <2>7. PreciseInv'
    BY <2>5
    DEF TypeOK, UserOps, PreciseInv, AtUser, AtHandler, goesOnAt, InHandler, UserText,
        Poll, InterruptPending, raise_exception, handle_exception
  <2> QED
    BY <2>6, <2>7
<1>2. CASE Plain
  <2> USE <1>2, <1>t
  <2>0. AtUser(PC) \/ AtHandler(PC)
    BY DEF Plain, Executes, PreciseInv
  <2>1. \/ AtUser(PC) /\ PC = goesOnAt /\ ~InHandler(PC) /\ (EXL <=> ownLevel) /\ PC \in UserText
        \/ AtHandler(PC) /\ InHandler(PC) /\ EXL /\ PC = EXCEPTION_ADDR
    BY <2>0, UserOp, HandlerOp DEF Plain, Executes, AtUser, AtHandler, UserOps
  <2>2. /\ PC' \in Int /\ EPC' \in Nat
        /\ left' \in 1..IO_INTERVAL /\ resume' \in Nat
    BY <2>1, <1>t
    DEF TypeOK, UserOps, PreciseInv, AtUser, AtHandler, goesOnAt, UserText, Plain,
        Executes, Done, GoesOn, bump_CP0_timer, statusVars
  <2>3. /\ IP' \in SUBSET Lines /\ IM' \in SUBSET Lines
        /\ ExcCode' \in Codes /\ first_bad_exception' \in Codes \cup {NoFault}
        /\ code' \in Programs
    BY <2>1, <1>l
    DEF TypeOK, Codes, Plain, Executes, Done, GoesOn, bump_CP0_timer,
        statusVars
  <2>4. /\ IE' \in BOOLEAN /\ EXL' \in BOOLEAN /\ BD' \in BOOLEAN
        /\ exception_occurred' \in BOOLEAN /\ running_in_delay_slot' \in BOOLEAN
        /\ interrupted' \in BOOLEAN /\ ownLevel' \in BOOLEAN
    BY <2>1, <1>t
    DEF TypeOK, Plain, Executes, Done, GoesOn, bump_CP0_timer, statusVars
  <2>5. /\ frames' = <<>> /\ ~running_in_delay_slot'
        /\ phase' \in {"poll", "exec", "after", "ended"}
    BY DEF TypeOK, Plain, Executes, Done, GoesOn, bump_CP0_timer, statusVars
  <2>6. TypeOK'
    BY <2>2, <2>3, <2>4, <2>5 DEF TypeOK
  <2>7. PreciseInv'
    BY <2>1, <2>5
    DEF TypeOK, UserOps, PreciseInv, AtUser, AtHandler, goesOnAt, InHandler, UserText,
        Plain, Executes, Done, GoesOn, bump_CP0_timer, statusVars
  <2> QED
    BY <2>6, <2>7
<1>3. CASE Io
  <2> USE <1>3, <1>t
  <2>0. AtUser(PC) \/ AtHandler(PC)
    BY DEF Io, Executes, PreciseInv
  <2>1. AtUser(PC) /\ PC = goesOnAt /\ ~InHandler(PC) /\ (EXL <=> ownLevel)
    BY <2>0, UserOp, HandlerOp DEF Io, Executes, AtUser, AtHandler
  <2>2. /\ PC' \in Int /\ EPC' \in Nat
        /\ left' \in 1..IO_INTERVAL /\ resume' \in Nat
    BY <2>1, UserOp, <1>t
    DEF TypeOK, UserOps, PreciseInv, AtUser, AtHandler, goesOnAt, UserText, Io,
        Executes, Done, GoesOn, bump_CP0_timer, statusVars
  <2>3. /\ IP' \in SUBSET Lines /\ IM' \in SUBSET Lines
        /\ ExcCode' \in Codes /\ first_bad_exception' \in Codes \cup {NoFault}
        /\ code' \in Programs
    BY <2>1, UserOp, <1>l
    DEF TypeOK, Codes, Io, Executes, Done, GoesOn, bump_CP0_timer, statusVars
  <2>4. /\ IE' \in BOOLEAN /\ EXL' \in BOOLEAN /\ BD' \in BOOLEAN
        /\ exception_occurred' \in BOOLEAN /\ running_in_delay_slot' \in BOOLEAN
        /\ interrupted' \in BOOLEAN /\ ownLevel' \in BOOLEAN
    BY <2>1, UserOp, <1>t
    DEF TypeOK, Io, Executes, Done, GoesOn, bump_CP0_timer, statusVars
  <2>5. /\ frames' = <<>> /\ ~running_in_delay_slot'
        /\ phase' \in {"poll", "exec", "after", "ended"}
    BY DEF TypeOK, Io, Executes, Done, GoesOn, bump_CP0_timer, statusVars
  <2>6. TypeOK'
    BY <2>2, <2>3, <2>4, <2>5 DEF TypeOK
  <2>7. PreciseInv'
    BY <2>1, UserOp, <2>5
    DEF TypeOK, UserOps, PreciseInv, AtUser, AtHandler, goesOnAt, InHandler, UserText,
        Io, Executes, Done, GoesOn, bump_CP0_timer, statusVars
  <2> QED
    BY <2>6, <2>7
<1>4. CASE MTC0_Status
  <2> USE <1>4, <1>t
  <2>0. AtUser(PC) \/ AtHandler(PC)
    BY DEF MTC0_Status, Executes, PreciseInv
  <2>1. AtUser(PC) /\ PC = goesOnAt /\ ~InHandler(PC) /\ (EXL <=> ownLevel)
    BY <2>0, UserOp, HandlerOp DEF MTC0_Status, Executes, AtUser, AtHandler
  <2>2. /\ PC' \in Int /\ EPC' \in Nat
        /\ left' \in 1..IO_INTERVAL /\ resume' \in Nat
    BY <2>1, UserOp, <1>t
    DEF TypeOK, UserOps, PreciseInv, AtUser, AtHandler, goesOnAt, UserText, MTC0_Status,
        Executes, Done, GoesOn, bump_CP0_timer, statusVars
  <2>3. /\ IP' \in SUBSET Lines /\ IM' \in SUBSET Lines
        /\ ExcCode' \in Codes /\ first_bad_exception' \in Codes \cup {NoFault}
        /\ code' \in Programs
    BY <2>1, UserOp, <1>l
    DEF TypeOK, Codes, MTC0_Status, Executes, Done, GoesOn, bump_CP0_timer,
        statusVars
  <2>4. /\ IE' \in BOOLEAN /\ EXL' \in BOOLEAN /\ BD' \in BOOLEAN
        /\ exception_occurred' \in BOOLEAN /\ running_in_delay_slot' \in BOOLEAN
        /\ interrupted' \in BOOLEAN /\ ownLevel' \in BOOLEAN
    BY <2>1, UserOp, <1>t
    DEF TypeOK, MTC0_Status, Executes, Done, GoesOn, bump_CP0_timer,
        statusVars
  <2>5. /\ frames' = <<>> /\ ~running_in_delay_slot'
        /\ phase' \in {"poll", "exec", "after", "ended"}
    BY
    DEF TypeOK, MTC0_Status, Executes, Done, GoesOn, bump_CP0_timer,
        statusVars
  <2>6. TypeOK'
    BY <2>2, <2>3, <2>4, <2>5 DEF TypeOK
  <2>7. PreciseInv'
    BY <2>1, UserOp, <2>5
    DEF TypeOK, UserOps, PreciseInv, AtUser, AtHandler, goesOnAt, InHandler, UserText,
        MTC0_Status, Executes, Done, GoesOn, bump_CP0_timer, statusVars
  <2> QED
    BY <2>6, <2>7
<1>5. CASE Fault
  <2> USE <1>5, <1>t
  <2>0. AtUser(PC) \/ AtHandler(PC)
    BY DEF Fault, Executes, PreciseInv
  <2>1. AtUser(PC) /\ PC = goesOnAt /\ ~InHandler(PC) /\ (EXL <=> ownLevel)
    BY <2>0, UserOp, HandlerOp DEF Fault, Executes, AtUser, AtHandler
  <2>2. /\ PC' \in Int /\ EPC' \in Nat
        /\ left' \in 1..IO_INTERVAL /\ resume' \in Nat
    <3>1. PC \in Nat /\ PastException \in Nat
      BY <2>1, UserOp, <1>t DEF TypeOK, PastException
    <3>2. resume' = PastException
      BY <2>1, <1>t DEF Fault, GoesOn
    <3>3. PC' = PC /\ EPC' \in {EPC, PC} /\ left' = left
      BY <1>t DEF Fault, raise_exception
    <3> QED
      BY <3>1, <3>2, <3>3, <1>t DEF TypeOK
  <2>3. /\ IP' \in SUBSET Lines /\ IM' \in SUBSET Lines
        /\ ExcCode' \in Codes /\ first_bad_exception' \in Codes \cup {NoFault}
        /\ code' \in Programs
    BY <2>1, UserOp, <1>l
    DEF TypeOK, Codes, Fault, raise_exception, PastException, Executes, Done, GoesOn,
        bump_CP0_timer, statusVars
  <2>4. /\ IE' \in BOOLEAN /\ EXL' \in BOOLEAN /\ BD' \in BOOLEAN
        /\ exception_occurred' \in BOOLEAN /\ running_in_delay_slot' \in BOOLEAN
        /\ interrupted' \in BOOLEAN /\ ownLevel' \in BOOLEAN
    BY <2>1, UserOp, <1>t
    DEF TypeOK, Fault, raise_exception, PastException, Executes, Done, GoesOn,
        bump_CP0_timer, statusVars
  <2>5. /\ frames' = <<>> /\ ~running_in_delay_slot'
        /\ phase' \in {"poll", "exec", "after", "ended"}
    BY
    DEF TypeOK, Fault, raise_exception, PastException, Executes, Done, GoesOn,
        bump_CP0_timer, statusVars
  <2>6. TypeOK'
    BY <2>2, <2>3, <2>4, <2>5 DEF TypeOK
  <2>7. PreciseInv'
    BY <2>1, UserOp, <2>5
    DEF TypeOK, UserOps, PreciseInv, AtUser, AtHandler, goesOnAt, InHandler, UserText,
        Fault, raise_exception, PastException, Executes, Done, GoesOn, bump_CP0_timer,
        statusVars
  <2> QED
    BY <2>6, <2>7
<1>6. CASE FetchFault
  <2> USE <1>6, <1>t
  <2>0. AtUser(PC) \/ AtHandler(PC)
    BY DEF FetchFault, Executes, PreciseInv
  <2>1. AtUser(PC) /\ PC = goesOnAt /\ ~InHandler(PC) /\ (EXL <=> ownLevel)
    BY <2>0, UserOp, HandlerOp DEF FetchFault, Executes, AtUser, AtHandler
  <2>2. /\ PC' \in Int /\ EPC' \in Nat
        /\ left' \in 1..IO_INTERVAL /\ resume' \in Nat
    BY <2>1, UserOp, <1>t
    DEF TypeOK, UserOps, PreciseInv, AtUser, AtHandler, goesOnAt, UserText, FetchFault,
        raise_exception, PastException, handle_exception, NextIteration, Executes, Done,
        GoesOn, bump_CP0_timer, statusVars
  <2>3. /\ IP' \in SUBSET Lines /\ IM' \in SUBSET Lines
        /\ ExcCode' \in Codes /\ first_bad_exception' \in Codes \cup {NoFault}
        /\ code' \in Programs
    BY <2>1, UserOp, <1>l
    DEF TypeOK, Codes, FetchFault, raise_exception, handle_exception,
        NextIteration, Executes, Done, GoesOn, bump_CP0_timer, statusVars
  <2>4. /\ IE' \in BOOLEAN /\ EXL' \in BOOLEAN /\ BD' \in BOOLEAN
        /\ exception_occurred' \in BOOLEAN /\ running_in_delay_slot' \in BOOLEAN
        /\ interrupted' \in BOOLEAN /\ ownLevel' \in BOOLEAN
    BY <2>1, UserOp, <1>t
    DEF TypeOK, FetchFault, raise_exception, PastException, handle_exception, NextIteration,
        Executes, Done, GoesOn, bump_CP0_timer, statusVars
  <2>5. /\ frames' = <<>> /\ ~running_in_delay_slot'
        /\ phase' \in {"poll", "exec", "after", "ended"}
    BY
    DEF TypeOK, FetchFault, raise_exception, PastException, handle_exception, NextIteration,
        Executes, Done, GoesOn, bump_CP0_timer, statusVars
  <2>6. TypeOK'
    BY <2>2, <2>3, <2>4, <2>5 DEF TypeOK
  <2>7. PreciseInv'
    BY <2>1, UserOp, <2>5
    DEF TypeOK, UserOps, PreciseInv, AtUser, AtHandler, goesOnAt, InHandler, UserText,
        FetchFault, raise_exception, PastException, handle_exception, NextIteration,
        Executes, Done, GoesOn, bump_CP0_timer, statusVars
  <2> QED
    BY <2>6, <2>7
<1>7. CASE Jump
  <2> USE <1>7, <1>t
  <2>0. AtUser(PC) \/ AtHandler(PC)
    BY DEF Jump, Executes, PreciseInv
  <2>1. AtUser(PC) /\ PC = goesOnAt /\ ~InHandler(PC) /\ (EXL <=> ownLevel)
    BY <2>0, UserOp, HandlerOp DEF Jump, Executes, AtUser, AtHandler
  <2>2. /\ PC' \in Int /\ EPC' \in Nat
        /\ left' \in 1..IO_INTERVAL /\ resume' \in Nat
    BY <2>1, UserOp, <1>t
    DEF TypeOK, UserOps, PreciseInv, AtUser, AtHandler, goesOnAt, UserText, Jump,
        Transfer, PlainMode, Executes, Done, GoesOn, bump_CP0_timer,
        statusVars
  <2>3. /\ IP' \in SUBSET Lines /\ IM' \in SUBSET Lines
        /\ ExcCode' \in Codes /\ first_bad_exception' \in Codes \cup {NoFault}
        /\ code' \in Programs
    BY <2>1, UserOp, <1>l
    DEF TypeOK, Codes, Jump, Transfer, PlainMode, Executes, Done, GoesOn,
        bump_CP0_timer, statusVars
  <2>4. /\ IE' \in BOOLEAN /\ EXL' \in BOOLEAN /\ BD' \in BOOLEAN
        /\ exception_occurred' \in BOOLEAN /\ running_in_delay_slot' \in BOOLEAN
        /\ interrupted' \in BOOLEAN /\ ownLevel' \in BOOLEAN
    BY <2>1, UserOp, <1>t
    DEF TypeOK, Jump, Transfer, PlainMode, Executes, Done, GoesOn,
        bump_CP0_timer, statusVars
  <2>5. /\ frames' = <<>> /\ ~running_in_delay_slot'
        /\ phase' \in {"poll", "exec", "after", "ended"}
    BY
    DEF TypeOK, Jump, Transfer, PlainMode, Executes, Done, GoesOn,
        bump_CP0_timer, statusVars
  <2>6. TypeOK'
    BY <2>2, <2>3, <2>4, <2>5 DEF TypeOK
  <2>7. PreciseInv'
    BY <2>1, UserOp, <2>5
    DEF TypeOK, UserOps, PreciseInv, AtUser, AtHandler, goesOnAt, InHandler, UserText,
        Jump, Transfer, PlainMode, Executes, Done, GoesOn, bump_CP0_timer,
        statusVars
  <2> QED
    BY <2>6, <2>7
<1>8. CASE ERET
  <2> USE <1>8, <1>t
  <2>0. AtUser(PC) \/ AtHandler(PC)
    BY DEF ERET, Executes, PreciseInv
  <2>1. AtHandler(PC) /\ InHandler(PC) /\ EXL /\ PC = EXCEPTION_ADDR + 4
    BY <2>0, UserOp, HandlerOp DEF ERET, Executes, AtUser, AtHandler, UserOps
  <2>2. /\ PC' \in Int /\ EPC' \in Nat
        /\ left' \in 1..IO_INTERVAL /\ resume' \in Nat
    BY <2>1, <1>t
    DEF TypeOK, UserOps, PreciseInv, AtUser, AtHandler, goesOnAt, UserText, ERET,
        Transfer, PlainMode, Executes, Done, GoesOn, bump_CP0_timer,
        statusVars
  <2>3. /\ IP' \in SUBSET Lines /\ IM' \in SUBSET Lines
        /\ ExcCode' \in Codes /\ first_bad_exception' \in Codes \cup {NoFault}
        /\ code' \in Programs
    BY <2>1, <1>l
    DEF TypeOK, Codes, ERET, Transfer, PlainMode, Executes, Done, GoesOn,
        bump_CP0_timer, statusVars
  <2>4. /\ IE' \in BOOLEAN /\ EXL' \in BOOLEAN /\ BD' \in BOOLEAN
        /\ exception_occurred' \in BOOLEAN /\ running_in_delay_slot' \in BOOLEAN
        /\ interrupted' \in BOOLEAN /\ ownLevel' \in BOOLEAN
    BY <2>1, <1>t
    DEF TypeOK, ERET, Transfer, PlainMode, Executes, Done, GoesOn,
        bump_CP0_timer, statusVars
  <2>5. /\ frames' = <<>> /\ ~running_in_delay_slot'
        /\ phase' \in {"poll", "exec", "after", "ended"}
    BY
    DEF TypeOK, ERET, Transfer, PlainMode, Executes, Done, GoesOn,
        bump_CP0_timer, statusVars
  <2>6. TypeOK'
    BY <2>2, <2>3, <2>4, <2>5 DEF TypeOK
  <2>7. PreciseInv'
    BY <2>1, <2>5
    DEF TypeOK, UserOps, PreciseInv, AtUser, AtHandler, goesOnAt, InHandler, UserText,
        ERET, Transfer, PlainMode, Executes, Done, GoesOn, bump_CP0_timer,
        statusVars
  <2> QED
    BY <2>6, <2>7
<1>9. CASE Exit
  <2> USE <1>9, <1>t
  <2>0. AtUser(PC) \/ AtHandler(PC)
    BY DEF Exit, Executes, PreciseInv
  <2>1. AtUser(PC) /\ PC = goesOnAt /\ ~InHandler(PC) /\ (EXL <=> ownLevel)
    BY <2>0, UserOp, HandlerOp DEF Exit, Executes, AtUser, AtHandler
  <2>2. /\ PC' \in Int /\ EPC' \in Nat
        /\ left' \in 1..IO_INTERVAL /\ resume' \in Nat
    BY <2>1, UserOp, <1>t
    DEF TypeOK, UserOps, PreciseInv, AtUser, AtHandler, goesOnAt, UserText, Exit,
        Executes, Done, GoesOn, bump_CP0_timer, statusVars
  <2>3. /\ IP' \in SUBSET Lines /\ IM' \in SUBSET Lines
        /\ ExcCode' \in Codes /\ first_bad_exception' \in Codes \cup {NoFault}
        /\ code' \in Programs
    BY <2>1, UserOp, <1>l
    DEF TypeOK, Codes, Exit, Executes, Done, GoesOn, bump_CP0_timer,
        statusVars
  <2>4. /\ IE' \in BOOLEAN /\ EXL' \in BOOLEAN /\ BD' \in BOOLEAN
        /\ exception_occurred' \in BOOLEAN /\ running_in_delay_slot' \in BOOLEAN
        /\ interrupted' \in BOOLEAN /\ ownLevel' \in BOOLEAN
    BY <2>1, UserOp, <1>t
    DEF TypeOK, Exit, Executes, Done, GoesOn, bump_CP0_timer, statusVars
  <2>5. /\ frames' = <<>> /\ ~running_in_delay_slot'
        /\ phase' \in {"poll", "exec", "after", "ended"}
    BY DEF TypeOK, Exit, Executes, Done, GoesOn, bump_CP0_timer, statusVars
  <2>6. TypeOK'
    BY <2>2, <2>3, <2>4, <2>5 DEF TypeOK
  <2>7. PreciseInv'
    BY <2>1, UserOp, <2>5
    DEF TypeOK, UserOps, PreciseInv, AtUser, AtHandler, goesOnAt, InHandler, UserText,
        Exit, Executes, Done, GoesOn, bump_CP0_timer, statusVars
  <2> QED
    BY <2>6, <2>7
<1>10. CASE run_error
  <2> USE <1>10, <1>t
  <2>0. AtUser(PC) \/ AtHandler(PC)
    BY DEF run_error, Executes, PreciseInv
  <2>1. AtUser(PC) /\ PC = goesOnAt /\ ~InHandler(PC) /\ (EXL <=> ownLevel)
    BY <2>0, UserOp, HandlerOp DEF run_error, Executes, AtUser, AtHandler
  <2>2. /\ PC' \in Int /\ EPC' \in Nat
        /\ left' \in 1..IO_INTERVAL /\ resume' \in Nat
    BY <2>1, UserOp, <1>t
    DEF TypeOK, UserOps, PreciseInv, AtUser, AtHandler, goesOnAt, UserText, run_error,
        Executes, Done, GoesOn, bump_CP0_timer, statusVars
  <2>3. /\ IP' \in SUBSET Lines /\ IM' \in SUBSET Lines
        /\ ExcCode' \in Codes /\ first_bad_exception' \in Codes \cup {NoFault}
        /\ code' \in Programs
    BY <2>1, UserOp, <1>l
    DEF TypeOK, Codes, run_error, Executes, Done, GoesOn, bump_CP0_timer,
        statusVars
  <2>4. /\ IE' \in BOOLEAN /\ EXL' \in BOOLEAN /\ BD' \in BOOLEAN
        /\ exception_occurred' \in BOOLEAN /\ running_in_delay_slot' \in BOOLEAN
        /\ interrupted' \in BOOLEAN /\ ownLevel' \in BOOLEAN
    BY <2>1, UserOp, <1>t
    DEF TypeOK, run_error, Executes, Done, GoesOn, bump_CP0_timer, statusVars
  <2>5. /\ frames' = <<>> /\ ~running_in_delay_slot'
        /\ phase' \in {"poll", "exec", "after", "ended"}
    BY DEF TypeOK, run_error, Executes, Done, GoesOn, bump_CP0_timer, statusVars
  <2>6. TypeOK'
    BY <2>2, <2>3, <2>4, <2>5 DEF TypeOK
  <2>7. PreciseInv'
    BY <2>1, UserOp, <2>5
    DEF TypeOK, UserOps, PreciseInv, AtUser, AtHandler, goesOnAt, InHandler, UserText,
        run_error, Executes, Done, GoesOn, bump_CP0_timer, statusVars
  <2> QED
    BY <2>6, <2>7
<1>11. CASE HandlerSkip
  <2> USE <1>11, <1>t
  <2>0. AtUser(PC) \/ AtHandler(PC)
    BY DEF HandlerSkip, Executes, PreciseInv
  <2>1. AtHandler(PC) /\ InHandler(PC) /\ EXL /\ PC = EXCEPTION_ADDR + 1
    BY <2>0, UserOp, HandlerOp
    DEF HandlerSkip, Executes, AtUser, AtHandler, UserOps
  <2>2. /\ PC' \in Int /\ EPC' \in Nat
        /\ left' \in 1..IO_INTERVAL /\ resume' \in Nat
    BY <2>1, <1>t
    DEF TypeOK, UserOps, PreciseInv, AtUser, AtHandler, goesOnAt, UserText, HandlerSkip,
        PlainMode, Executes, Done, GoesOn, bump_CP0_timer, statusVars
  <2>3. /\ IP' \in SUBSET Lines /\ IM' \in SUBSET Lines
        /\ ExcCode' \in Codes /\ first_bad_exception' \in Codes \cup {NoFault}
        /\ code' \in Programs
    BY <2>1, <1>l
    DEF TypeOK, Codes, HandlerSkip, PlainMode, Executes, Done, GoesOn,
        bump_CP0_timer, statusVars
  <2>4. /\ IE' \in BOOLEAN /\ EXL' \in BOOLEAN /\ BD' \in BOOLEAN
        /\ exception_occurred' \in BOOLEAN /\ running_in_delay_slot' \in BOOLEAN
        /\ interrupted' \in BOOLEAN /\ ownLevel' \in BOOLEAN
    BY <2>1, <1>t
    DEF TypeOK, HandlerSkip, PlainMode, Executes, Done, GoesOn,
        bump_CP0_timer, statusVars
  <2>5. /\ frames' = <<>> /\ ~running_in_delay_slot'
        /\ phase' \in {"poll", "exec", "after", "ended"}
    BY
    DEF TypeOK, HandlerSkip, PlainMode, Executes, Done, GoesOn,
        bump_CP0_timer, statusVars
  <2>6. TypeOK'
    BY <2>2, <2>3, <2>4, <2>5 DEF TypeOK
  <2>7. PreciseInv'
    BY <2>1, <2>5
    DEF TypeOK, UserOps, PreciseInv, AtUser, AtHandler, goesOnAt, InHandler, UserText,
        HandlerSkip, PlainMode, Executes, Done, GoesOn, bump_CP0_timer,
        statusVars
  <2> QED
    BY <2>6, <2>7
<1>12. CASE HandlerClear
  <2> USE <1>12, <1>t
  <2>0. AtUser(PC) \/ AtHandler(PC)
    BY DEF HandlerClear, Executes, PreciseInv
  <2>1. AtHandler(PC) /\ InHandler(PC) /\ EXL /\ PC = EXCEPTION_ADDR + 2
    BY <2>0, UserOp, HandlerOp
    DEF HandlerClear, Executes, AtUser, AtHandler, UserOps
  <2>2. /\ PC' \in Int /\ EPC' \in Nat
        /\ left' \in 1..IO_INTERVAL /\ resume' \in Nat
    BY <2>1, <1>t
    DEF TypeOK, UserOps, PreciseInv, AtUser, AtHandler, goesOnAt, UserText,
        HandlerClear, Executes, Done, GoesOn, bump_CP0_timer, statusVars
  <2>3. /\ IP' \in SUBSET Lines /\ IM' \in SUBSET Lines
        /\ ExcCode' \in Codes /\ first_bad_exception' \in Codes \cup {NoFault}
        /\ code' \in Programs
    BY <2>1, <1>l
    DEF TypeOK, Codes, HandlerClear, Executes, Done, GoesOn, bump_CP0_timer,
        statusVars
  <2>4. /\ IE' \in BOOLEAN /\ EXL' \in BOOLEAN /\ BD' \in BOOLEAN
        /\ exception_occurred' \in BOOLEAN /\ running_in_delay_slot' \in BOOLEAN
        /\ interrupted' \in BOOLEAN /\ ownLevel' \in BOOLEAN
    BY <2>1, <1>t
    DEF TypeOK, HandlerClear, Executes, Done, GoesOn, bump_CP0_timer,
        statusVars
  <2>5. /\ frames' = <<>> /\ ~running_in_delay_slot'
        /\ phase' \in {"poll", "exec", "after", "ended"}
    BY
    DEF TypeOK, HandlerClear, Executes, Done, GoesOn, bump_CP0_timer,
        statusVars
  <2>6. TypeOK'
    BY <2>2, <2>3, <2>4, <2>5 DEF TypeOK
  <2>7. PreciseInv'
    BY <2>1, <2>5
    DEF TypeOK, UserOps, PreciseInv, AtUser, AtHandler, goesOnAt, InHandler, UserText,
        HandlerClear, Executes, Done, GoesOn, bump_CP0_timer, statusVars
  <2> QED
    BY <2>6, <2>7
<1>13. CASE HandlerEnable
  <2> USE <1>13, <1>t
  <2>0. AtUser(PC) \/ AtHandler(PC)
    BY DEF HandlerEnable, Executes, PreciseInv
  <2>1. AtHandler(PC) /\ InHandler(PC) /\ EXL /\ PC = EXCEPTION_ADDR + 3
    BY <2>0, UserOp, HandlerOp
    DEF HandlerEnable, Executes, AtUser, AtHandler, UserOps
  <2>2. /\ PC' \in Int /\ EPC' \in Nat
        /\ left' \in 1..IO_INTERVAL /\ resume' \in Nat
    BY <2>1, <1>t
    DEF TypeOK, UserOps, PreciseInv, AtUser, AtHandler, goesOnAt, UserText,
        HandlerEnable, Executes, Done, GoesOn, bump_CP0_timer, statusVars
  <2>3. /\ IP' \in SUBSET Lines /\ IM' \in SUBSET Lines
        /\ ExcCode' \in Codes /\ first_bad_exception' \in Codes \cup {NoFault}
        /\ code' \in Programs
    BY <2>1, <1>l
    DEF TypeOK, Codes, HandlerEnable, Executes, Done, GoesOn, bump_CP0_timer,
        statusVars
  <2>4. /\ IE' \in BOOLEAN /\ EXL' \in BOOLEAN /\ BD' \in BOOLEAN
        /\ exception_occurred' \in BOOLEAN /\ running_in_delay_slot' \in BOOLEAN
        /\ interrupted' \in BOOLEAN /\ ownLevel' \in BOOLEAN
    BY <2>1, <1>t
    DEF TypeOK, HandlerEnable, Executes, Done, GoesOn, bump_CP0_timer,
        statusVars
  <2>5. /\ frames' = <<>> /\ ~running_in_delay_slot'
        /\ phase' \in {"poll", "exec", "after", "ended"}
    BY
    DEF TypeOK, HandlerEnable, Executes, Done, GoesOn, bump_CP0_timer,
        statusVars
  <2>6. TypeOK'
    BY <2>2, <2>3, <2>4, <2>5 DEF TypeOK
  <2>7. PreciseInv'
    BY <2>1, <2>5
    DEF TypeOK, UserOps, PreciseInv, AtUser, AtHandler, goesOnAt, InHandler, UserText,
        HandlerEnable, Executes, Done, GoesOn, bump_CP0_timer, statusVars
  <2> QED
    BY <2>6, <2>7
<1>14. CASE After
  <2> USE <1>14, <1>t
  <2>2. /\ PC' \in Int /\ EPC' \in Nat
        /\ left' \in 1..IO_INTERVAL /\ resume' \in Nat
    BY <1>t
    DEF TypeOK, UserOps, PreciseInv, AtUser, AtHandler, goesOnAt, UserText, After,
        PlainMode, handle_exception, NextIteration, statusVars, causeVars
  <2>3. /\ IP' \in SUBSET Lines /\ IM' \in SUBSET Lines
        /\ ExcCode' \in Codes /\ first_bad_exception' \in Codes \cup {NoFault}
        /\ code' \in Programs
    BY <1>l
    DEF TypeOK, Codes, After, PlainMode, handle_exception, NextIteration,
        statusVars, causeVars
  <2>4. /\ IE' \in BOOLEAN /\ EXL' \in BOOLEAN /\ BD' \in BOOLEAN
        /\ exception_occurred' \in BOOLEAN /\ running_in_delay_slot' \in BOOLEAN
        /\ interrupted' \in BOOLEAN /\ ownLevel' \in BOOLEAN
    BY <1>t
    DEF TypeOK, After, PlainMode, handle_exception, NextIteration,
        statusVars, causeVars
  <2>5. /\ frames' = <<>> /\ ~running_in_delay_slot'
        /\ phase' \in {"poll", "exec", "after", "ended"}
    BY
    DEF TypeOK, After, PlainMode, handle_exception, NextIteration,
        statusVars, causeVars
  <2>6. TypeOK'
    BY <2>2, <2>3, <2>4, <2>5 DEF TypeOK
  <2>7. PreciseInv'
    BY <2>5
    DEF TypeOK, UserOps, PreciseInv, AtUser, AtHandler, goesOnAt, InHandler, UserText,
        After, PlainMode, handle_exception, NextIteration, statusVars,
        causeVars
  <2> QED
    BY <2>6, <2>7
<1>15. CASE Rerun
  <2> USE <1>15, <1>t
  <2>2. /\ PC' \in Int /\ EPC' \in Nat
        /\ left' \in 1..IO_INTERVAL /\ resume' \in Nat
    BY <1>t
    DEF TypeOK, UserOps, PreciseInv, AtUser, AtHandler, goesOnAt, UserText, Rerun,
        statusVars, causeVars
  <2>3. /\ IP' \in SUBSET Lines /\ IM' \in SUBSET Lines
        /\ ExcCode' \in Codes /\ first_bad_exception' \in Codes \cup {NoFault}
        /\ code' \in Programs
    BY <1>l DEF TypeOK, Codes, Rerun, statusVars, causeVars
  <2>4. /\ IE' \in BOOLEAN /\ EXL' \in BOOLEAN /\ BD' \in BOOLEAN
        /\ exception_occurred' \in BOOLEAN /\ running_in_delay_slot' \in BOOLEAN
        /\ interrupted' \in BOOLEAN /\ ownLevel' \in BOOLEAN
    BY <1>t DEF TypeOK, Rerun, statusVars, causeVars
  <2>5. /\ frames' = <<>> /\ ~running_in_delay_slot'
        /\ phase' \in {"poll", "exec", "after", "ended"}
    BY DEF TypeOK, Rerun, statusVars, causeVars
  <2>6. TypeOK'
    BY <2>2, <2>3, <2>4, <2>5 DEF TypeOK
  <2>7. PreciseInv'
    BY <2>5
    DEF TypeOK, UserOps, PreciseInv, AtUser, AtHandler, goesOnAt, InHandler, UserText,
        Rerun, statusVars, causeVars
  <2> QED
    BY <2>6, <2>7
<1>16. CASE Return
  BY <1>16 DEF Return, PreciseInv
<1>17. CASE Reinitialize
  <2> USE <1>17, <1>t
  <2>2. /\ PC' \in Int /\ EPC' \in Nat
        /\ left' \in 1..IO_INTERVAL /\ resume' \in Nat
    BY <1>t
    DEF TypeOK, UserOps, PreciseInv, AtUser, AtHandler, goesOnAt, UserText, Reinitialize,
        statusVars, causeVars
  <2>3. /\ IP' \in SUBSET Lines /\ IM' \in SUBSET Lines
        /\ ExcCode' \in Codes /\ first_bad_exception' \in Codes \cup {NoFault}
        /\ code' \in Programs
    BY <1>l DEF TypeOK, Codes, Lines, Reinitialize, statusVars, causeVars
  <2>4. /\ IE' \in BOOLEAN /\ EXL' \in BOOLEAN /\ BD' \in BOOLEAN
        /\ exception_occurred' \in BOOLEAN /\ running_in_delay_slot' \in BOOLEAN
        /\ interrupted' \in BOOLEAN /\ ownLevel' \in BOOLEAN
    BY <1>t DEF TypeOK, Reinitialize, statusVars, causeVars
  <2>5. /\ frames' = <<>> /\ ~running_in_delay_slot'
        /\ phase' \in {"poll", "exec", "after", "ended"}
    BY DEF TypeOK, Reinitialize, statusVars, causeVars
  <2>6. TypeOK'
    BY <2>2, <2>3, <2>4, <2>5 DEF TypeOK
  <2>7. PreciseInv'
    BY <2>5
    DEF TypeOK, UserOps, PreciseInv, AtUser, AtHandler, goesOnAt, InHandler, UserText,
        Reinitialize, statusVars, causeVars
  <2> QED
    BY <2>6, <2>7
<1>18. CASE UNCHANGED vars
  BY <1>18 DEF vars, statusVars, causeVars, runVars, TypeOK, PreciseInv, AtUser,
              AtHandler, goesOnAt, InHandler, inst, mem_read_inst
<1> QED
  BY <1>1, <1>2, <1>3, <1>4, <1>5, <1>6, <1>7, <1>8, <1>9, <1>10, <1>11, <1>12, <1>13, <1>14, <1>15, <1>16, <1>17, <1>18
  DEF Next, Running, Execute

-----------------------------------------------------------------------------
(* Without delayed branches and display the state stays typed and the loop   *)
(* knows where it is, for every user program.                                *)
THEOREM CpuInvariant == ASSUME PlainMode PROVE Spec => []CpuInv
<1>1. Init => CpuInv
  BY InitCpu
<1>2. CpuInv /\ [Next]_vars => CpuInv'
  BY StepCpu
<1> QED
  BY <1>1, <1>2, PTL DEF Spec

(* Type correctness of the registers and of the loop's own state.            *)
THEOREM TypeCorrect == ASSUME PlainMode PROVE Spec => []TypeOK
  BY CpuInvariant, PTL DEF CpuInv

(* Exceptions are precise and an interrupt costs exactly one instruction:    *)
(* after the handler as shipped the program goes on behind the instruction   *)
(* that faulted or that the interrupt kept from executing, nowhere else.     *)
THEOREM Precise == ASSUME PlainMode PROVE Spec => []SkipsOnlyInterrupted
<1>1. CpuInv => SkipsOnlyInterrupted
  <2> SUFFICES ASSUME CpuInv, phase = "exec", ~InHandler(PC) PROVE PC = goesOnAt
    BY DEF SkipsOnlyInterrupted
  <2> QED
    BY CpuAssumption, HandlerText DEF CpuInv, PreciseInv, AtUser, AtHandler, InHandler
<1> QED
  BY <1>1, CpuInvariant, PTL

(* No run ends inside the handler: a later run starts outside it, at the     *)
(* exception level that the program has written itself.                      *)
THEOREM HandlerSurvives == ASSUME PlainMode PROVE Spec => []HandlerNeverDies
<1>1. CpuInv => HandlerNeverDies
  BY DEF CpuInv, PreciseInv, HandlerNeverDies
<1> QED
  BY <1>1, CpuInvariant, PTL

(* Every exception reaches the handler, which leaves the exception level     *)
(* again: the user's program runs at that level only where its own mtc0 has  *)
(* set it since.                                                             *)
THEOREM ExceptionsDelivered ==
  ASSUME PlainMode PROVE Spec => []UserRunsWithEXLClear
<1>1. CpuInv => UserRunsWithEXLClear
  <2> SUFFICES ASSUME CpuInv, phase = "exec", ~InHandler(PC) PROVE EXL <=> ownLevel
    BY DEF UserRunsWithEXLClear
  <2> QED
    BY CpuAssumption, HandlerText DEF CpuInv, PreciseInv, AtUser, AtHandler, InHandler
<1> QED
  BY <1>1, CpuInvariant, PTL

-----------------------------------------------------------------------------
(* Delayed branches: the recursive call of run_spim for a delay slot.       *)

SlotsInv == TypeOK /\ SlotInv

(* Where the machine is when it executes an instruction. *)
LEMMA SlotOp ==
  ASSUME SlotMode, SlotsInv, phase = "exec"
  PROVE  /\ PC = resume /\ PC \in 1..(NUser + 1) /\ ~InHandler(PC)
         /\ inst.op \in {"plain", "io", "exit", "empty", "jump", "status"}
         /\ inst.op # "empty" => PC \in UserText
         /\ frames # <<>> => inst.op \in {"plain", "io", "status"}
         /\ inst.op = "jump" =>
              /\ inst.target \in UserText /\ PC + 1 \in UserText
              /\ code[PC + 1].op \in {"plain", "io", "status"}
         /\ inst.op = "status" =>
              /\ ~inst.IE /\ inst.IE \in BOOLEAN /\ inst.EXL \in BOOLEAN
              /\ inst.IM \in SUBSET Lines
<1>1. PC = resume /\ PC \in 1..(NUser + 1)
  BY CpuAssumption DEF SlotsInv, SlotInv, UserText
<1>2. TypeOK
  BY DEF SlotsInv
<1>3. /\ ~InHandler(PC)
      /\ inst.op \in UserOps \cup {"unmapped"}
      /\ inst.op = "unmapped" => PC = 0
      /\ inst.op \in UserOps \ {"empty"} => PC \in UserText
      /\ inst.op = "status" =>
           inst.IE \in BOOLEAN /\ inst.EXL \in BOOLEAN /\ inst.IM \in SUBSET Lines
  BY <1>1, <1>2, UserOp DEF SlotsInv, SlotInv, goesOnAt
<1>4. inst.op # "unmapped"
  BY <1>1, <1>3
<1>5. PC \in UserText => inst = code[PC]
  BY DEF inst, mem_read_inst
<1>6. SlotProgram(code)
  BY <1>2 DEF SlotMode, TypeOK
<1>7. inst.op # "fault"
  <2> SUFFICES ASSUME inst.op = "fault" PROVE FALSE
    OBVIOUS
  <2>1. PC \in UserText
    BY <1>3 DEF UserOps
  <2> QED
    BY <2>1, <1>5, <1>6 DEF SlotProgram
<1>8. inst.op \in {"plain", "io", "exit", "empty", "jump", "status"}
  BY <1>3, <1>4, <1>7 DEF UserOps
<1>9. inst.op # "empty" => PC \in UserText
  BY <1>3, <1>4
<1>10. frames # <<>> => inst.op \in {"plain", "io", "status"}
  BY <1>5 DEF SlotsInv, SlotInv
<1>11. inst.op = "jump" =>
         /\ inst.target \in UserText /\ PC + 1 \in UserText
         /\ code[PC + 1].op \in {"plain", "io", "status"}
  BY <1>5, <1>6, <1>9 DEF SlotProgram
<1>12. inst.op = "status" => ~inst.IE
  BY <1>5, <1>6, <1>9 DEF SlotProgram
<1> QED
  BY <1>1, <1>3, <1>8, <1>9, <1>10, <1>11, <1>12

(* The stack of waiting jumps, pushed and popped. *)
LEMMA SlotStack ==
  ASSUME NEW t \in Int
  PROVE  /\ Append(<<>>, t) = <<t>> /\ <<t>> # <<>> /\ Len(<<t>>) = 1
         /\ <<t>>[1] = t /\ SubSeq(<<t>>, 1, 0) = <<>>
  OBVIOUS

LEMMA InitSlots == Init => SlotsInv
<1> SUFFICES ASSUME Init PROVE SlotsInv
  OBVIOUS
<1>1. TypeOK
  BY InitCpu DEF CpuInv
<1>2. SlotInv
  BY CpuAssumption DEF Init, SlotInv
<1> QED
  BY <1>1, <1>2 DEF SlotsInv

(* One step of the loop with delayed branches, action by action. *)
LEMMA StepSlots ==
  ASSUME SlotMode, SlotsInv, [Next]_vars
  PROVE  SlotsInv'
<1> USE CpuAssumption, HandlerText DEF SlotsInv
<1>t. TypeOK /\ SlotInv
  OBVIOUS
<1>l. TimerLine \in Lines /\ DeviceLines \in SUBSET Lines
  BY DEF Lines
<1>n. NUser \in Nat /\ EXCEPTION_ADDR \in Int
  OBVIOUS
<1>1. CASE Poll
  <2> USE <1>1, <1>t
  <2>2. /\ PC' \in 0..(NUser + 1) /\ EPC' \in Nat
        /\ left' \in 1..IO_INTERVAL /\ resume' \in 0..(NUser + 1)
    BY <1>t, SlotStack
    DEF TypeOK, SlotInv, UserText, Poll, InterruptPending
  <2>3. /\ IP' \in SUBSET Lines /\ IM' \in SUBSET Lines
        /\ ExcCode' = ExcCode /\ first_bad_exception' = first_bad_exception
        /\ code' = code
    BY <1>t, <1>l
    DEF TypeOK, SlotInv, Poll, InterruptPending
  <2>b. /\ IE' \in BOOLEAN /\ EXL' \in BOOLEAN /\ BD' \in BOOLEAN
        /\ exception_occurred' \in BOOLEAN
        /\ interrupted' \in BOOLEAN /\ ownLevel' \in BOOLEAN
    BY <1>t
    DEF TypeOK, SlotInv, Poll, InterruptPending
  <2>4. /\ ~IE' /\ ~interrupted'
        /\ ~exception_occurred' /\ running_in_delay_slot' \in BOOLEAN
    BY <1>t
    DEF TypeOK, SlotInv, Poll, InterruptPending
  <2>5. /\ frames' \in Seq(Int)
        /\ phase' \in {"poll", "exec", "after", "return", "ended"}
    BY <1>t, SlotStack
    DEF TypeOK, SlotInv, UserText, Poll, InterruptPending
  <2>6. TypeOK'
    BY <2>2, <2>3, <2>b, <2>4, <2>5, <1>n DEF TypeOK
  <2>7. SlotInv'
    <3>1. CASE frames = <<>>
      BY <1>t, <2>2, <2>4, <3>1, SlotStack
      DEF TypeOK, SlotInv, UserText, Poll, InterruptPending
    <3>2. CASE frames # <<>>
      <4>1. PICK t \in UserText : frames = <<t>>
        BY <3>2 DEF SlotInv
      <4> QED
        BY <1>t, <2>2, <2>4, <3>2, <4>1, SlotStack
        DEF TypeOK, SlotInv, UserText, Poll, InterruptPending
    <3> QED
      BY <3>1, <3>2
  <2> QED
    BY <2>6, <2>7
<1>2. CASE Plain
  <2> USE <1>2, <1>t
  <2>0. phase = "exec"
    BY DEF Plain, Executes
  <2>a. /\ PC = resume /\ PC \in 1..(NUser + 1) /\ ~InHandler(PC)
        /\ inst.op # "empty" => PC \in UserText
        /\ frames # <<>> => inst.op \in {"plain", "io", "status"}
    BY <2>0, SlotOp DEF Plain, Executes
  <2>2. /\ PC' \in 0..(NUser + 1) /\ EPC' \in Nat
        /\ left' \in 1..IO_INTERVAL /\ resume' \in 0..(NUser + 1)
    BY <1>t, <2>a, SlotStack
    DEF TypeOK, SlotInv, UserText, Plain, Executes, Done, GoesOn,
        bump_CP0_timer, statusVars
  <2>3. /\ IP' \in SUBSET Lines /\ IM' \in SUBSET Lines
        /\ ExcCode' = ExcCode /\ first_bad_exception' = first_bad_exception
        /\ code' = code
    BY <1>t, <2>a, <1>l
    DEF TypeOK, SlotInv, Plain, Executes, Done, GoesOn, bump_CP0_timer,
        statusVars
  <2>b. /\ IE' \in BOOLEAN /\ EXL' \in BOOLEAN /\ BD' \in BOOLEAN
        /\ exception_occurred' \in BOOLEAN
        /\ interrupted' \in BOOLEAN /\ ownLevel' \in BOOLEAN
    BY <1>t, <2>a
    DEF TypeOK, SlotInv, Plain, Executes, Done, GoesOn, bump_CP0_timer,
        statusVars
  <2>4. /\ ~IE' /\ ~interrupted'
        /\ ~exception_occurred' /\ running_in_delay_slot' \in BOOLEAN
    BY <1>t, <2>a
    DEF TypeOK, SlotInv, Plain, Executes, Done, GoesOn, bump_CP0_timer,
        statusVars
  <2>5. /\ frames' \in Seq(Int)
        /\ phase' \in {"poll", "exec", "after", "return", "ended"}
    BY <1>t, <2>a, SlotStack
    DEF TypeOK, SlotInv, UserText, Plain, Executes, Done, GoesOn,
        bump_CP0_timer, statusVars
  <2>6. TypeOK'
    BY <2>2, <2>3, <2>b, <2>4, <2>5, <1>n DEF TypeOK
  <2>7. SlotInv'
    <3>1. CASE frames = <<>>
      BY <1>t, <2>a, <2>2, <2>4, <3>1, SlotStack
      DEF TypeOK, SlotInv, UserText, Plain, Executes, Done, GoesOn,
          bump_CP0_timer, statusVars
    <3>2. CASE frames # <<>>
      <4>1. PICK t \in UserText : frames = <<t>>
        BY <3>2 DEF SlotInv
      <4> QED
        BY <1>t, <2>a, <2>2, <2>4, <3>2, <4>1, SlotStack
        DEF TypeOK, SlotInv, UserText, Plain, Executes, Done, GoesOn,
            bump_CP0_timer, statusVars
    <3> QED
      BY <3>1, <3>2
  <2> QED
    BY <2>6, <2>7
<1>3. CASE Io
  <2> USE <1>3, <1>t
  <2>0. phase = "exec"
    BY DEF Io, Executes
  <2>a. /\ PC = resume /\ PC \in 1..(NUser + 1) /\ ~InHandler(PC)
        /\ inst.op # "empty" => PC \in UserText
        /\ frames # <<>> => inst.op \in {"plain", "io", "status"}
    BY <2>0, SlotOp DEF Io, Executes
  <2>2. /\ PC' \in 0..(NUser + 1) /\ EPC' \in Nat
        /\ left' \in 1..IO_INTERVAL /\ resume' \in 0..(NUser + 1)
    BY <1>t, <2>a, SlotStack
    DEF TypeOK, SlotInv, UserText, Io, Executes, Done, GoesOn, bump_CP0_timer,
        statusVars
  <2>3. /\ IP' \in SUBSET Lines /\ IM' \in SUBSET Lines
        /\ ExcCode' = ExcCode /\ first_bad_exception' = first_bad_exception
        /\ code' = code
    BY <1>t, <2>a, <1>l
    DEF TypeOK, SlotInv, Io, Executes, Done, GoesOn, bump_CP0_timer,
        statusVars
  <2>b. /\ IE' \in BOOLEAN /\ EXL' \in BOOLEAN /\ BD' \in BOOLEAN
        /\ exception_occurred' \in BOOLEAN
        /\ interrupted' \in BOOLEAN /\ ownLevel' \in BOOLEAN
    BY <1>t, <2>a
    DEF TypeOK, SlotInv, Io, Executes, Done, GoesOn, bump_CP0_timer,
        statusVars
  <2>4. /\ ~IE' /\ ~interrupted'
        /\ ~exception_occurred' /\ running_in_delay_slot' \in BOOLEAN
    BY <1>t, <2>a
    DEF TypeOK, SlotInv, Io, Executes, Done, GoesOn, bump_CP0_timer,
        statusVars
  <2>5. /\ frames' \in Seq(Int)
        /\ phase' \in {"poll", "exec", "after", "return", "ended"}
    BY <1>t, <2>a, SlotStack
    DEF TypeOK, SlotInv, UserText, Io, Executes, Done, GoesOn, bump_CP0_timer,
        statusVars
  <2>6. TypeOK'
    BY <2>2, <2>3, <2>b, <2>4, <2>5, <1>n DEF TypeOK
  <2>7. SlotInv'
    <3>1. CASE frames = <<>>
      BY <1>t, <2>a, <2>2, <2>4, <3>1, SlotStack
      DEF TypeOK, SlotInv, UserText, Io, Executes, Done, GoesOn,
          bump_CP0_timer, statusVars
    <3>2. CASE frames # <<>>
      <4>1. PICK t \in UserText : frames = <<t>>
        BY <3>2 DEF SlotInv
      <4> QED
        BY <1>t, <2>a, <2>2, <2>4, <3>2, <4>1, SlotStack
        DEF TypeOK, SlotInv, UserText, Io, Executes, Done, GoesOn,
            bump_CP0_timer, statusVars
    <3> QED
      BY <3>1, <3>2
  <2> QED
    BY <2>6, <2>7
<1>4. CASE MTC0_Status
  <2> USE <1>4, <1>t
  <2>0. phase = "exec"
    BY DEF MTC0_Status, Executes
  <2>a. /\ PC = resume /\ PC \in 1..(NUser + 1) /\ ~InHandler(PC)
        /\ inst.op # "empty" => PC \in UserText
        /\ frames # <<>> => inst.op \in {"plain", "io", "status"}
        /\ ~inst.IE /\ inst.IE \in BOOLEAN /\ inst.EXL \in BOOLEAN
        /\ inst.IM \in SUBSET Lines
    BY <2>0, SlotOp DEF MTC0_Status, Executes
  <2>2. /\ PC' \in 0..(NUser + 1) /\ EPC' \in Nat
        /\ left' \in 1..IO_INTERVAL /\ resume' \in 0..(NUser + 1)
    BY <1>t, <2>a, SlotStack
    DEF TypeOK, SlotInv, UserText, MTC0_Status, Executes, Done, GoesOn,
        bump_CP0_timer, statusVars
  <2>3. /\ IP' \in SUBSET Lines /\ IM' \in SUBSET Lines
        /\ ExcCode' = ExcCode /\ first_bad_exception' = first_bad_exception
        /\ code' = code
    BY <1>t, <2>a, <1>l
    DEF TypeOK, SlotInv, MTC0_Status, Executes, Done, GoesOn, bump_CP0_timer,
        statusVars
  <2>b. /\ IE' \in BOOLEAN /\ EXL' \in BOOLEAN /\ BD' \in BOOLEAN
        /\ exception_occurred' \in BOOLEAN
        /\ interrupted' \in BOOLEAN /\ ownLevel' \in BOOLEAN
    BY <1>t, <2>a
    DEF TypeOK, SlotInv, MTC0_Status, Executes, Done, GoesOn, bump_CP0_timer,
        statusVars
  <2>4. /\ ~IE' /\ ~interrupted'
        /\ ~exception_occurred' /\ running_in_delay_slot' \in BOOLEAN
    BY <1>t, <2>a
    DEF TypeOK, SlotInv, MTC0_Status, Executes, Done, GoesOn, bump_CP0_timer,
        statusVars
  <2>5. /\ frames' \in Seq(Int)
        /\ phase' \in {"poll", "exec", "after", "return", "ended"}
    BY <1>t, <2>a, SlotStack
    DEF TypeOK, SlotInv, UserText, MTC0_Status, Executes, Done, GoesOn,
        bump_CP0_timer, statusVars
  <2>6. TypeOK'
    BY <2>2, <2>3, <2>b, <2>4, <2>5, <1>n DEF TypeOK
  <2>7. SlotInv'
    <3>1. CASE frames = <<>>
      BY <1>t, <2>a, <2>2, <2>4, <3>1, SlotStack
      DEF TypeOK, SlotInv, UserText, MTC0_Status, Executes, Done, GoesOn,
          bump_CP0_timer, statusVars
    <3>2. CASE frames # <<>>
      <4>1. PICK t \in UserText : frames = <<t>>
        BY <3>2 DEF SlotInv
      <4> QED
        BY <1>t, <2>a, <2>2, <2>4, <3>2, <4>1, SlotStack
        DEF TypeOK, SlotInv, UserText, MTC0_Status, Executes, Done, GoesOn,
            bump_CP0_timer, statusVars
    <3> QED
      BY <3>1, <3>2
  <2> QED
    BY <2>6, <2>7
<1>5. CASE Jump
  <2> USE <1>5, <1>t
  <2>0. phase = "exec"
    BY DEF Jump, Executes
  <2>a. /\ PC = resume /\ PC \in 1..(NUser + 1) /\ ~InHandler(PC)
        /\ inst.op # "empty" => PC \in UserText
        /\ frames # <<>> => inst.op \in {"plain", "io", "status"}
        /\ inst.target \in UserText /\ PC + 1 \in UserText
        /\ code[PC + 1].op \in {"plain", "io", "status"}
    BY <2>0, SlotOp DEF Jump, Executes
  <2>c. frames = <<>> /\ frames' = <<inst.target>>
    BY <1>t, <2>a, SlotStack
    DEF SlotInv, UserText, Jump, Transfer, SlotMode, Executes, Done, GoesOn,
        bump_CP0_timer, statusVars
  <2>2. /\ PC' \in 0..(NUser + 1) /\ EPC' \in Nat
        /\ left' \in 1..IO_INTERVAL /\ resume' \in 0..(NUser + 1)
    BY <1>t, <2>a, <2>c, SlotStack
    DEF TypeOK, SlotInv, UserText, Jump, Transfer, SlotMode, Executes, Done,
        GoesOn, bump_CP0_timer, statusVars
  <2>3. /\ IP' \in SUBSET Lines /\ IM' \in SUBSET Lines
        /\ ExcCode' = ExcCode /\ first_bad_exception' = first_bad_exception
        /\ code' = code
    BY <1>t, <2>a, <2>c, <1>l
    DEF TypeOK, SlotInv, Jump, Transfer, SlotMode, Executes, Done, GoesOn,
        bump_CP0_timer, statusVars
  <2>b. /\ IE' \in BOOLEAN /\ EXL' \in BOOLEAN /\ BD' \in BOOLEAN
        /\ exception_occurred' \in BOOLEAN
        /\ interrupted' \in BOOLEAN /\ ownLevel' \in BOOLEAN
    BY <1>t, <2>a, <2>c
    DEF TypeOK, SlotInv, Jump, Transfer, SlotMode, Executes, Done, GoesOn,
        bump_CP0_timer, statusVars
  <2>4. /\ ~IE' /\ ~interrupted'
        /\ ~exception_occurred' /\ running_in_delay_slot' \in BOOLEAN
    BY <1>t, <2>a, <2>c
    DEF TypeOK, SlotInv, Jump, Transfer, SlotMode, Executes, Done, GoesOn,
        bump_CP0_timer, statusVars
  <2>5. /\ frames' \in Seq(Int)
        /\ phase' \in {"poll", "exec", "after", "return", "ended"}
    BY <1>t, <2>a, <2>c, SlotStack
    DEF TypeOK, SlotInv, UserText, Jump, Transfer, SlotMode, Executes, Done,
        GoesOn, bump_CP0_timer, statusVars
  <2>6. TypeOK'
    BY <2>2, <2>3, <2>b, <2>4, <2>5, <1>n DEF TypeOK
  <2>7. SlotInv'
    <3>1. CASE frames = <<>>
      BY <1>t, <2>a, <2>c, <2>2, <2>4, <3>1, SlotStack
      DEF TypeOK, SlotInv, UserText, Jump, Transfer, SlotMode, Executes, Done,
          GoesOn, bump_CP0_timer, statusVars
    <3>2. CASE frames # <<>>
      <4>1. PICK t \in UserText : frames = <<t>>
        BY <3>2 DEF SlotInv
      <4> QED
        BY <1>t, <2>a, <2>c, <2>2, <2>4, <3>2, <4>1, SlotStack
        DEF TypeOK, SlotInv, UserText, Jump, Transfer, SlotMode, Executes,
            Done, GoesOn, bump_CP0_timer, statusVars
    <3> QED
      BY <3>1, <3>2
  <2> QED
    BY <2>6, <2>7
<1>6. CASE Exit
  <2> USE <1>6, <1>t
  <2>0. phase = "exec"
    BY DEF Exit, Executes
  <2>a. /\ PC = resume /\ PC \in 1..(NUser + 1) /\ ~InHandler(PC)
        /\ inst.op # "empty" => PC \in UserText
        /\ frames # <<>> => inst.op \in {"plain", "io", "status"}
    BY <2>0, SlotOp DEF Exit, Executes
  <2>2. /\ PC' \in 0..(NUser + 1) /\ EPC' \in Nat
        /\ left' \in 1..IO_INTERVAL /\ resume' \in 0..(NUser + 1)
    BY <1>t, <2>a, SlotStack
    DEF TypeOK, SlotInv, UserText, Exit, Executes, Done, GoesOn,
        bump_CP0_timer, statusVars
  <2>3. /\ IP' \in SUBSET Lines /\ IM' \in SUBSET Lines
        /\ ExcCode' = ExcCode /\ first_bad_exception' = first_bad_exception
        /\ code' = code
    BY <1>t, <2>a, <1>l
    DEF TypeOK, SlotInv, Exit, Executes, Done, GoesOn, bump_CP0_timer,
        statusVars
  <2>b. /\ IE' \in BOOLEAN /\ EXL' \in BOOLEAN /\ BD' \in BOOLEAN
        /\ exception_occurred' \in BOOLEAN
        /\ interrupted' \in BOOLEAN /\ ownLevel' \in BOOLEAN
    BY <1>t, <2>a
    DEF TypeOK, SlotInv, Exit, Executes, Done, GoesOn, bump_CP0_timer,
        statusVars
  <2>4. /\ ~IE' /\ ~interrupted'
        /\ ~exception_occurred' /\ running_in_delay_slot' \in BOOLEAN
    BY <1>t, <2>a
    DEF TypeOK, SlotInv, Exit, Executes, Done, GoesOn, bump_CP0_timer,
        statusVars
  <2>5. /\ frames' \in Seq(Int)
        /\ phase' \in {"poll", "exec", "after", "return", "ended"}
    BY <1>t, <2>a, SlotStack
    DEF TypeOK, SlotInv, UserText, Exit, Executes, Done, GoesOn,
        bump_CP0_timer, statusVars
  <2>6. TypeOK'
    BY <2>2, <2>3, <2>b, <2>4, <2>5, <1>n DEF TypeOK
  <2>7. SlotInv'
    <3>1. CASE frames = <<>>
      BY <1>t, <2>a, <2>2, <2>4, <3>1, SlotStack
      DEF TypeOK, SlotInv, UserText, Exit, Executes, Done, GoesOn,
          bump_CP0_timer, statusVars
    <3>2. CASE frames # <<>>
      <4>1. PICK t \in UserText : frames = <<t>>
        BY <3>2 DEF SlotInv
      <4> QED
        BY <1>t, <2>a, <2>2, <2>4, <3>2, <4>1, SlotStack
        DEF TypeOK, SlotInv, UserText, Exit, Executes, Done, GoesOn,
            bump_CP0_timer, statusVars
    <3> QED
      BY <3>1, <3>2
  <2> QED
    BY <2>6, <2>7
<1>7. CASE run_error
  <2> USE <1>7, <1>t
  <2>0. phase = "exec"
    BY DEF run_error, Executes
  <2>a. /\ PC = resume /\ PC \in 1..(NUser + 1) /\ ~InHandler(PC)
        /\ inst.op # "empty" => PC \in UserText
        /\ frames # <<>> => inst.op \in {"plain", "io", "status"}
    BY <2>0, SlotOp DEF run_error, Executes
  <2>2. /\ PC' \in 0..(NUser + 1) /\ EPC' \in Nat
        /\ left' \in 1..IO_INTERVAL /\ resume' \in 0..(NUser + 1)
    BY <1>t, <2>a, SlotStack
    DEF TypeOK, SlotInv, UserText, run_error, Executes, Done, GoesOn,
        bump_CP0_timer, statusVars
  <2>3. /\ IP' \in SUBSET Lines /\ IM' \in SUBSET Lines
        /\ ExcCode' = ExcCode /\ first_bad_exception' = first_bad_exception
        /\ code' = code
    BY <1>t, <2>a, <1>l
    DEF TypeOK, SlotInv, run_error, Executes, Done, GoesOn, bump_CP0_timer,
        statusVars
  <2>b. /\ IE' \in BOOLEAN /\ EXL' \in BOOLEAN /\ BD' \in BOOLEAN
        /\ exception_occurred' \in BOOLEAN
        /\ interrupted' \in BOOLEAN /\ ownLevel' \in BOOLEAN
    BY <1>t, <2>a
    DEF TypeOK, SlotInv, run_error, Executes, Done, GoesOn, bump_CP0_timer,
        statusVars
  <2>4. /\ ~IE' /\ ~interrupted'
        /\ ~exception_occurred' /\ running_in_delay_slot' \in BOOLEAN
    BY <1>t, <2>a
    DEF TypeOK, SlotInv, run_error, Executes, Done, GoesOn, bump_CP0_timer,
        statusVars
  <2>5. /\ frames' \in Seq(Int)
        /\ phase' \in {"poll", "exec", "after", "return", "ended"}
    BY <1>t, <2>a, SlotStack
    DEF TypeOK, SlotInv, UserText, run_error, Executes, Done, GoesOn,
        bump_CP0_timer, statusVars
  <2>6. TypeOK'
    BY <2>2, <2>3, <2>b, <2>4, <2>5, <1>n DEF TypeOK
  <2>7. SlotInv'
    <3>1. CASE frames = <<>>
      BY <1>t, <2>a, <2>2, <2>4, <3>1, SlotStack
      DEF TypeOK, SlotInv, UserText, run_error, Executes, Done, GoesOn,
          bump_CP0_timer, statusVars
    <3>2. CASE frames # <<>>
      <4>1. PICK t \in UserText : frames = <<t>>
        BY <3>2 DEF SlotInv
      <4> QED
        BY <1>t, <2>a, <2>2, <2>4, <3>2, <4>1, SlotStack
        DEF TypeOK, SlotInv, UserText, run_error, Executes, Done, GoesOn,
            bump_CP0_timer, statusVars
    <3> QED
      BY <3>1, <3>2
  <2> QED
    BY <2>6, <2>7
<1>8. CASE After
  <2> USE <1>8, <1>t
  <2>2. /\ PC' \in 0..(NUser + 1) /\ EPC' \in Nat
        /\ left' \in 1..IO_INTERVAL /\ resume' \in 0..(NUser + 1)
    BY <1>t, SlotStack
    DEF TypeOK, SlotInv, UserText, After, handle_exception, NextIteration,
        statusVars, causeVars
  <2>3. /\ IP' \in SUBSET Lines /\ IM' \in SUBSET Lines
        /\ ExcCode' = ExcCode /\ first_bad_exception' = first_bad_exception
        /\ code' = code
    BY <1>t, <1>l
    DEF TypeOK, SlotInv, After, handle_exception, NextIteration, statusVars,
        causeVars
  <2>b. /\ IE' \in BOOLEAN /\ EXL' \in BOOLEAN /\ BD' \in BOOLEAN
        /\ exception_occurred' \in BOOLEAN
        /\ interrupted' \in BOOLEAN /\ ownLevel' \in BOOLEAN
    BY <1>t
    DEF TypeOK, SlotInv, After, handle_exception, NextIteration, statusVars,
        causeVars
  <2>4. /\ ~IE' /\ ~interrupted'
        /\ ~exception_occurred' /\ running_in_delay_slot' \in BOOLEAN
    BY <1>t
    DEF TypeOK, SlotInv, After, handle_exception, NextIteration, statusVars,
        causeVars
  <2>5. /\ frames' \in Seq(Int)
        /\ phase' \in {"poll", "exec", "after", "return", "ended"}
    BY <1>t, SlotStack
    DEF TypeOK, SlotInv, UserText, After, handle_exception, NextIteration,
        statusVars, causeVars
  <2>6. TypeOK'
    BY <2>2, <2>3, <2>b, <2>4, <2>5, <1>n DEF TypeOK
  <2>7. SlotInv'
    <3>1. CASE frames = <<>>
      BY <1>t, <2>2, <2>4, <3>1, SlotStack
      DEF TypeOK, SlotInv, UserText, After, handle_exception, NextIteration,
          statusVars, causeVars
    <3>2. CASE frames # <<>>
      <4>1. PICK t \in UserText : frames = <<t>>
        BY <3>2 DEF SlotInv
      <4> QED
        BY <1>t, <2>2, <2>4, <3>2, <4>1, SlotStack
        DEF TypeOK, SlotInv, UserText, After, handle_exception, NextIteration,
            statusVars, causeVars
    <3> QED
      BY <3>1, <3>2
  <2> QED
    BY <2>6, <2>7
<1>9. CASE Return
  <2> USE <1>9, <1>t
  <2>a. PICK t \in UserText : frames = <<t>> /\ frames[Len(frames)] = t
    <3>1. PICK t \in UserText : frames = <<t>>
      BY DEF SlotInv, Return
    <3>2. frames[Len(frames)] = t
      BY <3>1, SlotStack DEF UserText
    <3> QED
      BY <3>1, <3>2
  <2>2. /\ PC' \in 0..(NUser + 1) /\ EPC' \in Nat
        /\ left' \in 1..IO_INTERVAL /\ resume' \in 0..(NUser + 1)
    BY <1>t, <2>a, SlotStack
    DEF TypeOK, SlotInv, UserText, Return, statusVars, causeVars
  <2>3. /\ IP' \in SUBSET Lines /\ IM' \in SUBSET Lines
        /\ ExcCode' = ExcCode /\ first_bad_exception' = first_bad_exception
        /\ code' = code
    BY <1>t, <2>a, <1>l
    DEF TypeOK, SlotInv, Return, statusVars, causeVars
  <2>b. /\ IE' \in BOOLEAN /\ EXL' \in BOOLEAN /\ BD' \in BOOLEAN
        /\ exception_occurred' \in BOOLEAN
        /\ interrupted' \in BOOLEAN /\ ownLevel' \in BOOLEAN
    BY <1>t, <2>a
    DEF TypeOK, SlotInv, Return, statusVars, causeVars
  <2>4. /\ ~IE' /\ ~interrupted'
        /\ ~exception_occurred' /\ running_in_delay_slot' \in BOOLEAN
    BY <1>t, <2>a
    DEF TypeOK, SlotInv, Return, statusVars, causeVars
  <2>5. /\ frames' \in Seq(Int)
        /\ phase' \in {"poll", "exec", "after", "return", "ended"}
    BY <1>t, <2>a, SlotStack
    DEF TypeOK, SlotInv, UserText, Return, statusVars, causeVars
  <2>6. TypeOK'
    BY <2>2, <2>3, <2>b, <2>4, <2>5, <1>n DEF TypeOK
  <2>7. SlotInv'
    BY <1>t, <2>a, <2>2, <2>4, SlotStack
    DEF TypeOK, SlotInv, UserText, Return, statusVars, causeVars
  <2> QED
    BY <2>6, <2>7
<1>10. CASE Rerun
  <2> USE <1>10, <1>t
  <2>2. /\ PC' \in 0..(NUser + 1) /\ EPC' \in Nat
        /\ left' \in 1..IO_INTERVAL /\ resume' \in 0..(NUser + 1)
    BY <1>t, SlotStack
    DEF TypeOK, SlotInv, UserText, Rerun, statusVars, causeVars
  <2>3. /\ IP' \in SUBSET Lines /\ IM' \in SUBSET Lines
        /\ ExcCode' = ExcCode /\ first_bad_exception' = first_bad_exception
        /\ code' = code
    BY <1>t, <1>l
    DEF TypeOK, SlotInv, Rerun, statusVars, causeVars
  <2>b. /\ IE' \in BOOLEAN /\ EXL' \in BOOLEAN /\ BD' \in BOOLEAN
        /\ exception_occurred' \in BOOLEAN
        /\ interrupted' \in BOOLEAN /\ ownLevel' \in BOOLEAN
    BY <1>t
    DEF TypeOK, SlotInv, Rerun, statusVars, causeVars
  <2>4. /\ ~IE' /\ ~interrupted'
        /\ ~exception_occurred' /\ running_in_delay_slot' \in BOOLEAN
    BY <1>t
    DEF TypeOK, SlotInv, Rerun, statusVars, causeVars
  <2>5. /\ frames' \in Seq(Int)
        /\ phase' \in {"poll", "exec", "after", "return", "ended"}
    BY <1>t, SlotStack
    DEF TypeOK, SlotInv, UserText, Rerun, statusVars, causeVars
  <2>6. TypeOK'
    BY <2>2, <2>3, <2>b, <2>4, <2>5, <1>n DEF TypeOK
  <2>7. SlotInv'
    <3>1. CASE frames = <<>>
      BY <1>t, <2>2, <2>4, <3>1, SlotStack
      DEF TypeOK, SlotInv, UserText, Rerun, statusVars, causeVars
    <3>2. CASE frames # <<>>
      <4>1. PICK t \in UserText : frames = <<t>>
        BY <3>2 DEF SlotInv
      <4> QED
        BY <1>t, <2>2, <2>4, <3>2, <4>1, SlotStack
        DEF TypeOK, SlotInv, UserText, Rerun, statusVars, causeVars
    <3> QED
      BY <3>1, <3>2
  <2> QED
    BY <2>6, <2>7
<1>11. CASE Fault \/ FetchFault \/ ERET \/ HandlerSkip \/ HandlerClear \/ HandlerEnable
  <2>1. phase = "exec"
    BY <1>11 DEF Fault, FetchFault, ERET, HandlerSkip, HandlerClear, HandlerEnable,
               Executes
  <2> QED
    BY <1>11, <2>1, SlotOp
    DEF Fault, FetchFault, ERET, HandlerSkip, HandlerClear, HandlerEnable, Executes
<1>12. CASE Reinitialize
  <2> USE <1>12, <1>t
  <2>2. /\ PC' \in 0..(NUser + 1) /\ EPC' \in Nat
        /\ left' \in 1..IO_INTERVAL /\ resume' \in 0..(NUser + 1)
    BY <1>t, SlotStack
    DEF TypeOK, SlotInv, UserText, Reinitialize, statusVars, causeVars
  <2>3. /\ IP' \in SUBSET Lines /\ IM' \in SUBSET Lines
        /\ ExcCode' \in Codes /\ first_bad_exception' = first_bad_exception
        /\ code' = code
    BY <1>t, <1>l
    DEF TypeOK, SlotInv, Codes, Lines, Reinitialize, statusVars, causeVars
  <2>b. /\ IE' \in BOOLEAN /\ EXL' \in BOOLEAN /\ BD' \in BOOLEAN
        /\ exception_occurred' \in BOOLEAN
        /\ interrupted' \in BOOLEAN /\ ownLevel' \in BOOLEAN
    BY <1>t
    DEF TypeOK, SlotInv, Codes, Lines, Reinitialize, statusVars, causeVars
  <2>4. /\ ~IE' /\ ~interrupted'
        /\ ~exception_occurred' /\ running_in_delay_slot' \in BOOLEAN
    BY <1>t
    DEF TypeOK, SlotInv, Codes, Lines, Reinitialize, statusVars, causeVars
  <2>5. /\ frames' \in Seq(Int)
        /\ phase' \in {"poll", "exec", "after", "return", "ended"}
    BY <1>t, SlotStack
    DEF TypeOK, SlotInv, UserText, Reinitialize, statusVars, causeVars
  <2>6. TypeOK'
    BY <2>2, <2>3, <2>b, <2>4, <2>5, <1>n DEF TypeOK
  <2>7. SlotInv'
    <3>1. CASE frames = <<>>
      BY <1>t, <2>2, <2>4, <3>1, SlotStack
      DEF TypeOK, SlotInv, UserText, Reinitialize, statusVars, causeVars
    <3>2. CASE frames # <<>>
      <4>1. PICK t \in UserText : frames = <<t>>
        BY <3>2 DEF SlotInv
      <4> QED
        BY <1>t, <2>2, <2>4, <3>2, <4>1, SlotStack
        DEF TypeOK, SlotInv, UserText, Reinitialize, statusVars, causeVars
    <3> QED
      BY <3>1, <3>2
  <2> QED
    BY <2>6, <2>7
<1>13. CASE UNCHANGED vars
  BY <1>13 DEF vars, statusVars, causeVars, runVars, TypeOK, SlotInv
<1> QED
  BY <1>1, <1>2, <1>3, <1>4, <1>5, <1>6, <1>7, <1>8, <1>9, <1>10, <1>11, <1>12, <1>13
  DEF Next, Running, Execute

(* With delayed branches, every program that the architecture allows and    *)
(* that raises no exception goes on exactly where it has to: the delay slot *)
(* is executed once, in the recursive call, with running_in_delay_slot set  *)
(* exactly there, and then the jump is made.                                *)
THEOREM DelaySlotsExact == ASSUME SlotMode PROVE Spec => []SlotsExact
<1>1. Init => SlotsInv
  BY InitSlots
<1>2. SlotsInv /\ [Next]_vars => SlotsInv'
  BY StepSlots
<1>3. SlotsInv => SlotsExact
  BY DEF SlotsInv, SlotInv, SlotsExact, ResumesExactly, SlotFlagTells
<1> QED
  BY <1>1, <1>2, <1>3, PTL DEF Spec
=============================================================================
