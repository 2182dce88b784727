------------------------------- MODULE Memory -------------------------------
(***************************************************************************)
(* The segments of the simulated memory (memory.c): loads and stores of 1, *)
(* 2 and 4 bytes, what happens outside the segments, and how the segments  *)
(* grow: the data segment by sbrk and by the assembler, the stack by an    *)
(* access below it, the kernel data by the assembler.                      *)
(*                                                                         *)
(* A segment is the sequence of its bytes; the text holds instructions,    *)
(* each with the word it encodes.  An int is as wide as Wrap says.      *)
(***************************************************************************)
EXTENDS Integers, Sequences

CONSTANTS TEXT_BOT, TextWords, DATA_BOT, DataSize, DataLimit,
          STACK_TOP, StackSize, StackLimit, K_DATA_BOT, KDataSize, KDataLimit,
          MM_IO_BOT, MM_IO_TOP,
          Reach,     \* 16 mega: how far below the stack an access makes it grow
          Chunk,     \* 64 kilo: by how much the assembler makes a segment grow
          IntMax,    \* the largest int
          Null,      \* no instruction
          Garbage,   \* what memory fresh from realloc may hold
          Addrs,     \* the addresses accessed
          Words,     \* the words stored
          Amounts,   \* arguments of sbrk
          ArgVectors, \* argument vectors of the program
          MaxOps     \* bound on the operations

VARIABLES mem,    \* the segments
          dpc,    \* next_data_pc and next_k_data_pc
          out,    \* what the last operation has returned
          ops     \* operations so far

vars == <<mem, dpc, out, ops>>

WORD == 4
RoundUp(v, b) == ((v + b - 1) \div b) * b
Wrap(v) == IF v > IntMax THEN v - 2 * (IntMax + 1) ELSE v
Zeros(n) == [i \in 1..n |-> 0]
WordOf(n) == <<n, 0, 0, 0>>

\* The segments lie one above the other, with room for the stack to come down
\* on the data; the operations are too few for the counters of the assembler
\* to leave the range of an int.
ASSUME MemoryAssumption ==
  /\ \A n \in {DataSize, StackSize, KDataSize, TEXT_BOT, DATA_BOT, STACK_TOP,
               K_DATA_BOT, IntMax + 1} : n \in Nat /\ n % WORD = 0
  /\ \A n \in {TextWords, DataLimit, StackLimit, KDataLimit, MM_IO_BOT, MM_IO_TOP,
               Reach, IntMax, MaxOps} : n \in Nat
  /\ Chunk \in Nat \ {0}
  /\ DataSize <= DataLimit /\ StackSize <= StackLimit /\ KDataSize <= KDataLimit
  /\ TEXT_BOT + WORD * TextWords <= DATA_BOT
  /\ DATA_BOT + DataLimit <= STACK_TOP - StackLimit
  /\ STACK_TOP <= K_DATA_BOT /\ K_DATA_BOT + KDataLimit <= MM_IO_BOT
  /\ DataLimit <= IntMax
  /\ WORD * MaxOps + Chunk + WORD <= IntMax
  /\ Garbage \subseteq Nat /\ Addrs \subseteq Nat /\ Words \subseteq [1..WORD -> Nat]
  /\ Amounts \subseteq -(IntMax + 1)..IntMax
  /\ \A v \in ArgVectors : v.argv \in Seq(Seq(Nat)) /\ v.env \in Seq(Seq(Nat))

data_top(m) == DATA_BOT + Len(m.data)
stack_bot(m) == STACK_TOP - Len(m.stack)
k_data_top(m) == K_DATA_BOT + Len(m.kdata)

InText(a) == a \in TEXT_BOT..(TEXT_BOT + WORD * TextWords - 1)

make_memory == [text |-> [i \in 1..TextWords |-> Null], data |-> Zeros(DataSize),
                stack |-> Zeros(StackSize), kdata |-> Zeros(KDataSize)]

\* The segment an address belongs to.
InData(m, a)  == a \in DATA_BOT..(data_top(m) - 1)
InStack(m, a) == a \in stack_bot(m)..(STACK_TOP - 1)
InKData(m, a) == a \in K_DATA_BOT..(k_data_top(m) - 1)

InSegment(m, a) == InData(m, a) \/ InStack(m, a) \/ InKData(m, a)

Init ==
  /\ mem = make_memory
  /\ dpc = [data |-> DATA_BOT, kdata |-> K_DATA_BOT]
  /\ out = [op |-> "reset"]
  /\ ops = 0

-----------------------------------------------------------------------------
(* Growing.                                                                *)

expand_data_on(m, n) ==
  [how |-> "grown", m |-> [m EXCEPT !.data = @ \o Zeros(RoundUp(n, WORD))]]

expand_data_dirty(m, n) ==
  IF n < 0 \/ Len(m.data) + RoundUp(n, WORD) > DataLimit
  THEN [how |-> "error", m |-> m]
  ELSE [how |-> "grown",
        m |-> [m EXCEPT !.data = @ \o [i \in 1..RoundUp(n, WORD) |-> 9]]]

expand_data_short(m, n) ==
  IF n < 0 \/ Len(m.data) + n > DataLimit THEN [how |-> "error", m |-> m]
  ELSE [how |-> "grown", m |-> [m EXCEPT !.data = @ \o Zeros((n \div WORD) * WORD)]]

\* A size that has wrapped to a negative int passes the test of the limit;
\* realloc refuses it, which is fatal.
expand_data(m, n) ==
  LET delta == Wrap(RoundUp(n, WORD))
      new   == Wrap(Len(m.data) + delta)
  IN  CASE n < 0 \/ new > DataLimit -> [how |-> "error", m |-> m]
        [] n >= 0 /\ new < 0        -> [how |-> "died", m |-> m]
        [] OTHER -> [how |-> "grown", m |-> [m EXCEPT !.data = @ \o Zeros(delta)]]

expand_stack_double(m, n) ==
  LET old == Len(m.stack) IN
  IF 2 * old > StackLimit THEN [how |-> "error", m |-> m]
  ELSE [how |-> "grown", m |-> [m EXCEPT !.stack = Zeros(old) \o @]]

\* The stack grows to twice its size at least.
expand_stack(m, n) ==
  LET old == Len(m.stack)
      delta == RoundUp(n, WORD)
      new == old + (IF delta > old THEN delta ELSE old)
  IN  IF n < 0 \/ new > StackLimit THEN [how |-> "error", m |-> m]
      ELSE [how |-> "grown",
            m |-> [m EXCEPT !.stack = Zeros(new - old) \o @]]

\* What is cleared is not what was added: byte numbers were divided by 4.
expand_k_data(m, n, g) ==
  LET old == Len(m.kdata)
      new == old + RoundUp(n, WORD)
      bare == m.kdata \o [i \in 1..(new - old) |-> g]
  IN  IF n < 0 \/ new > KDataLimit THEN [how |-> "error", m |-> m]
      ELSE [how |-> "grown",
            m |-> [m EXCEPT !.kdata = [i \in 1..new |->
                     IF i - 1 \in (old \div WORD)..(new \div WORD - 1)
                     THEN 0 ELSE bare[i]]]]

\* An access below the stack, not too far below, makes the stack grow.
Grows(m, a) == a > data_top(m) /\ a < stack_bot(m) /\ a > stack_bot(m) - Reach

-----------------------------------------------------------------------------
(* Accesses of n bytes at address a.                                       *)

Bytes(m, a, n) ==
  LET from(b, bottom) == SubSeq(b, a - bottom + 1, a - bottom + n) IN
  CASE InData(m, a)  -> from(m.data, DATA_BOT)
    [] InStack(m, a) -> from(m.stack, stack_bot(m))
    [] InKData(m, a) -> from(m.kdata, K_DATA_BOT)

Overwritten(b, i, val) ==
  [j \in 1..Len(b) |-> IF j - i \in 1..Len(val) THEN val[j - i] ELSE b[j]]

Put(m, a, val) ==
  CASE InData(m, a)  -> [m EXCEPT !.data = Overwritten(@, a - DATA_BOT, val)]
    [] InStack(m, a) -> [m EXCEPT !.stack = Overwritten(@, a - stack_bot(m), val)]
    [] InKData(m, a) -> [m EXCEPT !.kdata = Overwritten(@, a - K_DATA_BOT, val)]

TextWord(a) == ((a - TEXT_BOT) \div WORD) + 1
Offset(a) == a % WORD

Fault(m, code, a) == [m |-> m, out |-> [op |-> "fault", code |-> code, a |-> a]]

Loaded(m, a, val, signed) ==
  [m |-> m, out |-> [op |-> "load", a |-> a, val |-> val, signed |-> signed]]

\* mem_read_byte, _half and _word.  A byte or half of a word of text that holds
\* no instruction is read through a null pointer.
mem_read(m, a, n) ==
  IF a % n # 0 THEN Fault(m, "AdEL", a)
  ELSE
  CASE InSegment(m, a) -> Loaded(m, a, Bytes(m, a, n), TRUE)
    [] InText(a) ->
         LET w == m.text[TextWord(a)] IN
         IF w = Null
         THEN IF n = WORD THEN Loaded(m, a, Zeros(WORD), TRUE)
              ELSE [m |-> m, out |-> [op |-> "died"]]
         ELSE Loaded(m, a, SubSeq(w, 1 + Offset(a), n + Offset(a)), n = WORD)
    [] Grows(m, a) ->
         LET e == expand_stack(m, stack_bot(m) - a + 4) IN
         IF e.how = "error" THEN [m |-> m, out |-> [op |-> "error"]]
         ELSE Loaded(e.m, a, Zeros(n), TRUE)
    [] a \in MM_IO_BOT..MM_IO_TOP -> [m |-> m, out |-> [op |-> "io"]]
    [] OTHER -> Fault(m, "DBE", a)

Stored(m, a, val) == [m |-> m, out |-> [op |-> "store", a |-> a, val |-> val]]

\* mem_write_byte, _half and _word.  A word of text without an instruction
\* takes whole words only; anything shorter makes it the instruction 0.
mem_write(m, a, n, w) ==
  LET val == SubSeq(w, 1, n) IN
  IF a % n # 0 THEN Fault(m, "AdES", a)
  ELSE
  CASE InSegment(m, a) -> Stored(Put(m, a, val), a, val)
    [] InText(a) ->
         LET old == m.text[TextWord(a)]
             new == IF old = Null THEN (IF n = WORD THEN w ELSE Zeros(WORD))
                    ELSE [i \in 1..WORD |-> IF i - Offset(a) \in 1..n
                                            THEN val[i - Offset(a)] ELSE old[i]]
         IN  [m |-> [m EXCEPT !.text[TextWord(a)] = new], out |-> [op |-> "inst"]]
    [] Grows(m, a) ->
         LET e == expand_stack(m, stack_bot(m) - a + 4) IN
         IF e.how = "error" THEN [m |-> m, out |-> [op |-> "error"]]
         ELSE IF a >= stack_bot(e.m) THEN Stored(Put(e.m, a, val), a, val)
         ELSE [m |-> e.m, out |-> [op |-> "fault", code |-> "short", a |-> a]]
    [] a \in MM_IO_BOT..MM_IO_TOP -> [m |-> m, out |-> [op |-> "io"]]
    [] OTHER -> Fault(m, "DBE", a)

\* An instruction that does not go into the text raises, and its encoding is
\* stored as data all the same.
mem_write_inst(m, a, w) ==
  IF InText(a) /\ a % WORD = 0
  THEN [m |-> [m EXCEPT !.text[TextWord(a)] = w], out |-> [op |-> "inst"]]
  ELSE mem_write(m, a, WORD, w)

\* A pointer into a segment for a system call: nothing grows.
mem_reference(m, a) ==
  IF InText(a) \/ InSegment(m, a) THEN [op |-> "pointer", a |-> a]
  ELSE [op |-> "error"]

-----------------------------------------------------------------------------
(* The arguments of the program on the stack.                              *)

\* One store; once a store has failed (run_error) nothing more is stored.
Push(st, a, n, w) ==
  LET r == mem_write(st.m, a, n, w) IN
  IF st.ok THEN [st EXCEPT !.m = r.m, !.ok = r.out.op = "store"] ELSE st

\* The stores one after the other.
Pushed(st, stores) ==
  LET done[i \in 0..Len(stores)] ==
        IF i = 0 THEN st
        ELSE Push(done[i - 1], stores[i].a, stores[i].n, stores[i].w)
  IN  done[Len(stores)]

\* The characters downwards from sp, the null first.
copy_str_to_stack(st, s) ==
  LET n == Len(s) + 1
      stores == [i \in 1..n |-> [a |-> st.sp - (i - 1), n |-> 1,
                                 w |-> <<IF i = 1 THEN 0 ELSE s[n - i + 1]>>]]
  IN  [Pushed(st, stores) EXCEPT !.sp = @ - n, !.at = <<st.sp - n + 1>> \o @]

copy_strs_to_stack(st, strs) ==
  LET done[i \in 0..Len(strs)] ==
        IF i = 0 THEN st ELSE copy_str_to_stack(done[i - 1], strs[i])
  IN  done[Len(strs)]

\* copy_int_to_stack for the null word, then for each of the integers.
copy_ints_to_stack(st, ints) ==
  LET n == Len(ints) + 1
      stores == [i \in 1..n |-> [a |-> st.sp - WORD * (i - 1), n |-> WORD,
                                 w |-> WordOf(IF i = 1 THEN 0 ELSE ints[i - 1])]]
  IN  [Pushed(st, stores) EXCEPT !.sp = @ - WORD * n]

VectorUpwards(st, at) ==
  copy_ints_to_stack(st, [i \in 1..Len(at) |-> at[Len(at) - i + 1]])

\* A vector of addresses downwards from sp: the null word, then the last first.
Vector(st, at) == copy_ints_to_stack(st, at)

\* The strings of the environment and the arguments, the two vectors, argc.
\* main calls it before its setjmp, so an error on the way is a crash.
initialize_run_stack(m, v) ==
  LET strs == copy_strs_to_stack(
                [m |-> m, sp |-> STACK_TOP - 1, at |-> <<>>, ok |-> TRUE],
                v.env \o v.argv)
      argc == Len(v.argv)
      sp0  == ((((strs.sp \div 4) * 4) - WORD) \div 8) * 8
      env  == Vector([strs EXCEPT !.sp = sp0],
                     SubSeq(strs.at, argc + 1, Len(strs.at)))
      vec  == Vector(env, SubSeq(strs.at, 1, argc))
      last == Push(vec, vec.sp, WORD, WordOf(argc))
  IN  IF last.ok
      THEN [m |-> last.m,
            out |-> [op |-> "args", sp |-> vec.sp, a1 |-> vec.sp + WORD,
                     a2 |-> env.sp + WORD, v |-> v]]
      ELSE [m |-> m, out |-> [op |-> "died"]]

-----------------------------------------------------------------------------
(* Operations.                                                             *)

Does(r) == /\ mem' = r.m /\ out' = r.out /\ ops' = ops + 1
           /\ UNCHANGED dpc

Ready == ops < MaxOps /\ out.op # "died"

Load == Ready /\ \E a \in Addrs, n \in {1, 2, 4} : Does(mem_read(mem, a, n))

Store == Ready /\ \E a \in Addrs, n \in {1, 2, 4}, w \in Words :
                    Does(mem_write(mem, a, n, w))

StoreInst == Ready /\ \E a \in Addrs, w \in Words : Does(mem_write_inst(mem, a, w))

Reference == Ready /\ \E a \in Addrs : Does([m |-> mem, out |-> mem_reference(mem, a)])

\* The sbrk system call.
Sbrk ==
  /\ Ready
  /\ \E n \in Amounts :
       LET e == expand_data(mem, n) IN
       Does([m |-> e.m, out |-> IF e.how = "grown"
                                THEN [op |-> "sbrk", a |-> data_top(mem), n |-> n]
                                ELSE [op |-> e.how]])

LateGrowth(kernel, pc) ==
  LET top == IF kernel THEN k_data_top(mem) ELSE data_top(mem)
      n   == RoundUp(pc - top + 1, Chunk)
  IN  IF top >= pc THEN {[how |-> "grown", m |-> mem]}
      ELSE {IF kernel THEN expand_k_data(mem, n, g) ELSE expand_data(mem, n)
              : g \in Garbage}

\* The counter has come to pc: the segment grows when it has no more room.
Growth(kernel, pc) ==
  LET top == IF kernel THEN k_data_top(mem) ELSE data_top(mem)
      n   == RoundUp(pc - top + 1, Chunk)
  IN  IF top > pc THEN {[how |-> "grown", m |-> mem]}
      ELSE {IF kernel THEN expand_k_data(mem, n, g) ELSE expand_data(mem, n)
              : g \in Garbage}

\* increment_data_pc, after the assembler has placed a word: the counter moves
\* first, and stays where it is when the segment cannot grow.
EmitData(kernel) ==
  LET s  == IF kernel THEN "kdata" ELSE "data"
      pc == dpc[s] + WORD
  IN
  /\ Ready
  /\ dpc' = [dpc EXCEPT ![s] = pc]
  /\ \E e \in Growth(kernel, pc) :
       mem' = e.m /\ out' = [op |-> IF e.how = "grown" THEN "emit" ELSE e.how]
  /\ ops' = ops + 1

InitStack ==
  /\ Ready /\ \E v \in ArgVectors : Does(initialize_run_stack(mem, v))

\* initialize_world.
Reinitialize ==
  /\ out.op # "died"
  /\ mem' = make_memory /\ out' = [op |-> "reset"]
  /\ dpc' = [data |-> DATA_BOT, kdata |-> K_DATA_BOT]
  /\ ops' = 0

Finished == (ops = MaxOps \/ out.op = "died") /\ UNCHANGED vars

Next ==
  \/ Load \/ Store \/ StoreInst \/ Reference \/ Sbrk
  \/ EmitData(TRUE) \/ EmitData(FALSE) \/ InitStack \/ Reinitialize \/ Finished

Spec == Init /\ [][Next]_vars

-----------------------------------------------------------------------------
(* Properties.                                                             *)

\* Segments are whole words and within their limits.
Memories ==
  {m \in [text : [1..TextWords -> {Null} \cup [1..WORD -> Nat]],
          data : Seq(Nat), stack : Seq(Nat), kdata : Seq(Nat)] :
     /\ Len(m.data) % WORD = 0 /\ Len(m.data) <= DataLimit
     /\ Len(m.stack) % WORD = 0 /\ Len(m.stack) <= StackLimit
     /\ Len(m.kdata) % WORD = 0 /\ Len(m.kdata) <= KDataLimit}

\* The type invariant.
TypeOK ==
  /\ mem \in Memories
  /\ dpc \in [data : Nat, kdata : Nat]
  /\ ops \in 0..MaxOps

\* Growth cannot be seen: loads and stores of data and stack, between segments
\* that grow on either side of them, are those of one flat memory that was
\* zero to begin with.
Region == DATA_BOT..(STACK_TOP - 1)

FlatBytes(m) ==
  [a \in Region |-> IF a < data_top(m) THEN m.data[a - DATA_BOT + 1]
                    ELSE IF a >= stack_bot(m) THEN m.stack[a - stack_bot(m) + 1]
                    ELSE 0]

Flat == INSTANCE FlatMemory WITH bytes <- FlatBytes(mem), seen <- out

ImplementsFlat == Flat!Spec

\* When a store makes the stack grow, it grows far enough for the store (the
\* code raises an exception if not) whatever the alignment of the address.
GrowthReaches == out.op = "fault" => out.code # "short"

\* What sbrk returns is a block of the size asked for, aligned, that lies inside
\* the segment now and outside before; a refused sbrk changes nothing.
SbrkStep ==
  /\ out'.op = "sbrk" =>
       /\ out'.a % WORD = 0 /\ out'.a >= data_top(mem)
       /\ out'.a + out'.n <= data_top(mem')
  /\ out'.op \in {"error", "died"} => mem' = mem

SbrkUsable == [][SbrkStep]_vars

\* The assembler places the next datum inside the segment, unless it has just
\* been told that the segment cannot grow.
DatumStep ==
  \/ out'.op \in {"error", "died", "reset"}
  \/ /\ dpc'.data # dpc.data => dpc'.data < data_top(mem')
     /\ dpc'.kdata # dpc.kdata => dpc'.kdata < k_data_top(mem')

NextDatumInside == [][DatumStep]_vars

\* What main receives: at sp the number of arguments, at a1 and a2 the addresses
\* of the arguments and of the environment in order and a null word, and at each
\* address its string, null terminated, wherever the stack has grown meanwhile.
ArgumentsReadable ==
  LET word(a) == Bytes(mem, a, WORD)
      vector(p, strings) ==
        /\ word(p + WORD * Len(strings)) = Zeros(WORD)
        /\ \A i \in DOMAIN strings :
             LET at == word(p + WORD * (i - 1))[1] IN
             Bytes(mem, at, Len(strings[i]) + 1) = Append(strings[i], 0)
  IN  out.op = "args" =>
        /\ out.sp % WORD = 0 /\ word(out.sp) = WordOf(Len(out.v.argv))
        /\ vector(out.a1, out.v.argv) /\ vector(out.a2, out.v.env)

\* The data and the stack cannot meet: no string is split between the two.
SegmentsApart == DATA_BOT + DataLimit < STACK_TOP - StackLimit

\* The counters of the assembler move by a word at a time.
CountersBounded ==
  /\ dpc.data \in DATA_BOT..(DATA_BOT + WORD * ops)
  /\ dpc.kdata \in K_DATA_BOT..(K_DATA_BOT + WORD * ops)

MemInv == TypeOK /\ CountersBounded

\* Growth stays within the limits and gives what it was asked for: a store
\* below the stack finds room for itself, sbrk returns a new block inside the
\* segment, and the assembler's next datum is inside (expand_stack, expand_data,
\* increment_data_pc).
GrowthUsable == [](TypeOK /\ GrowthReaches) /\ SbrkUsable /\ NextDatumInside
=============================================================================
