--------------------------- MODULE Memory_proofs ---------------------------
(***************************************************************************)
(* Proofs about the segments of the simulated memory, for every layout,    *)
(* size and limit: growth cannot be seen by the program and is always      *)
(* enough.                                                                 *)
(***************************************************************************)
EXTENDS Memory, Iteration, SequenceTheorems

-----------------------------------------------------------------------------
(* The layout and the operators.                                            *)

LEMMA Layout ==
  /\ DataSize \in Nat /\ StackSize \in Nat /\ KDataSize \in Nat
  /\ DataSize % 4 = 0 /\ StackSize % 4 = 0 /\ KDataSize % 4 = 0
  /\ TEXT_BOT \in Nat /\ DATA_BOT \in Nat /\ STACK_TOP \in Nat /\ K_DATA_BOT \in Nat
  /\ TEXT_BOT % 4 = 0 /\ DATA_BOT % 4 = 0 /\ STACK_TOP % 4 = 0 /\ K_DATA_BOT % 4 = 0
  /\ IntMax \in Nat /\ (IntMax + 1) % 4 = 0
  /\ TextWords \in Nat /\ DataLimit \in Nat /\ StackLimit \in Nat
  /\ KDataLimit \in Nat /\ MM_IO_BOT \in Nat /\ MM_IO_TOP \in Nat
  /\ Reach \in Nat /\ Chunk \in Nat \ {0} /\ MaxOps \in Nat
  /\ DataSize <= DataLimit /\ StackSize <= StackLimit /\ KDataSize <= KDataLimit
  /\ TEXT_BOT + 4 * TextWords <= DATA_BOT
  /\ DATA_BOT + DataLimit <= STACK_TOP - StackLimit
  /\ STACK_TOP <= K_DATA_BOT /\ K_DATA_BOT + KDataLimit <= MM_IO_BOT
  /\ DataLimit <= IntMax
  /\ 4 * MaxOps + Chunk + 4 <= IntMax
  BY MemoryAssumption DEF WORD

LEMMA ZerosSeq ==
  ASSUME NEW n \in Nat
  PROVE  /\ Zeros(n) \in Seq(Nat) /\ Len(Zeros(n)) = n
         /\ \A i \in 1..n : Zeros(n)[i] = 0
  BY DEF Zeros

LEMMA Joined ==
  ASSUME NEW s \in Seq(Nat), NEW t \in Seq(Nat)
  PROVE  /\ s \o t \in Seq(Nat) /\ Len(s \o t) = Len(s) + Len(t)
         /\ \A i \in 1..(Len(s) + Len(t)) :
              (s \o t)[i] = IF i <= Len(s) THEN s[i] ELSE t[i - Len(s)]
  BY ConcatProperties

LEMMA Rounded ==
  ASSUME NEW v \in Int
  PROVE  /\ RoundUp(v, WORD) \in Int /\ RoundUp(v, WORD) % 4 = 0
         /\ RoundUp(v, WORD) >= v /\ RoundUp(v, WORD) < v + 4
         /\ RoundUp(v, Chunk) \in Int
         /\ RoundUp(v, Chunk) >= v /\ RoundUp(v, Chunk) < v + Chunk
<1>1. /\ RoundUp(v, WORD) \in Int /\ RoundUp(v, WORD) % 4 = 0
      /\ RoundUp(v, WORD) >= v /\ RoundUp(v, WORD) < v + 4
  BY DEF RoundUp, WORD
<1>2. Chunk \in Nat \ {0}
  BY Layout
<1>3. /\ RoundUp(v, Chunk) \in Int
      /\ RoundUp(v, Chunk) >= v /\ RoundUp(v, Chunk) < v + Chunk
  BY <1>2 DEF RoundUp
<1> QED
  BY <1>1, <1>3

-----------------------------------------------------------------------------
(* Memories.                                                                *)

LEMMA Typed ==
  ASSUME NEW m \in Memories
  PROVE  /\ m.text \in [1..TextWords -> {Null} \cup [1..WORD -> Nat]]
         /\ m.data \in Seq(Nat) /\ m.stack \in Seq(Nat) /\ m.kdata \in Seq(Nat)
         /\ m = [text |-> m.text, data |-> m.data, stack |-> m.stack,
                 kdata |-> m.kdata]
  BY DEF Memories

(* Where the segments end: the data below the stack, the stack below the    *)
(* kernel's data, all at whole words.                                       *)
LEMMA Tops ==
  ASSUME NEW m \in Memories
  PROVE  /\ Len(m.data) \in Nat /\ Len(m.stack) \in Nat /\ Len(m.kdata) \in Nat
         /\ Len(m.data) % 4 = 0 /\ Len(m.stack) % 4 = 0 /\ Len(m.kdata) % 4 = 0
         /\ Len(m.data) <= DataLimit /\ Len(m.stack) <= StackLimit
         /\ Len(m.kdata) <= KDataLimit
         /\ data_top(m) \in Nat /\ stack_bot(m) \in Nat /\ k_data_top(m) \in Nat
         /\ data_top(m) % 4 = 0 /\ stack_bot(m) % 4 = 0 /\ k_data_top(m) % 4 = 0
         /\ DATA_BOT <= data_top(m) /\ data_top(m) <= stack_bot(m)
         /\ stack_bot(m) <= STACK_TOP /\ k_data_top(m) <= MM_IO_BOT
<1>1. Len(m.data) \in Nat /\ Len(m.stack) \in Nat /\ Len(m.kdata) \in Nat
  BY Typed, LenProperties
<1>2. /\ Len(m.data) % 4 = 0 /\ Len(m.stack) % 4 = 0 /\ Len(m.kdata) % 4 = 0
      /\ Len(m.data) <= DataLimit /\ Len(m.stack) <= StackLimit
      /\ Len(m.kdata) <= KDataLimit
  BY DEF Memories, WORD
<1> DEFINE d == Len(m.data)
           s == Len(m.stack)
           k == Len(m.kdata)
<1>3. /\ d \in Nat /\ s \in Nat /\ k \in Nat /\ d % 4 = 0 /\ s % 4 = 0 /\ k % 4 = 0
      /\ d <= DataLimit /\ s <= StackLimit /\ k <= KDataLimit
  BY <1>1, <1>2
<1> HIDE DEF d, s, k
<1>4. /\ DATA_BOT + d \in Nat /\ STACK_TOP - s \in Nat /\ K_DATA_BOT + k \in Nat
      /\ DATA_BOT <= DATA_BOT + d /\ STACK_TOP - s <= STACK_TOP
      /\ DATA_BOT + d <= STACK_TOP - s /\ K_DATA_BOT + k <= MM_IO_BOT
  BY <1>3, Layout
<1>5. (DATA_BOT + d) % 4 = 0 /\ (STACK_TOP - s) % 4 = 0 /\ (K_DATA_BOT + k) % 4 = 0
  <2>1. /\ DATA_BOT \in Nat /\ STACK_TOP \in Nat /\ K_DATA_BOT \in Nat
        /\ DATA_BOT % 4 = 0 /\ STACK_TOP % 4 = 0 /\ K_DATA_BOT % 4 = 0
    BY Layout
  <2> QED
    BY <1>3, <2>1
<1> QED
  BY <1>1, <1>2, <1>4, <1>5 DEF data_top, stack_bot, k_data_top, d, s, k

Records ==
  [text : [1..TextWords -> {Null} \cup [1..WORD -> Nat]],
   data : Seq(Nat), stack : Seq(Nat), kdata : Seq(Nat)]

(* One segment replaced. *)
WithData(m, d) == [m EXCEPT !.data = d]
WithStack(m, s) == [m EXCEPT !.stack = s]
WithKData(m, k) == [m EXCEPT !.kdata = k]
WithText(m, i, w) == [m EXCEPT !.text[i] = w]

LEMMA NewData ==
  ASSUME NEW m \in Memories, NEW d \in Seq(Nat), Len(d) % 4 = 0, Len(d) <= DataLimit,
         NEW r, r = WithData(m, d)
  PROVE  /\ r \in Memories /\ r.data = d /\ r.stack = m.stack /\ r.kdata = m.kdata
         /\ stack_bot(r) = stack_bot(m) /\ k_data_top(r) = k_data_top(m)
         /\ data_top(r) = DATA_BOT + Len(d)
<1>1. r \in Records /\ r.data = d /\ r.stack = m.stack /\ r.kdata = m.kdata
  BY DEF Memories, Records, WithData
<1>2. r \in Memories
  BY <1>1, Tops DEF Memories, Records, WORD
<1> QED
  BY <1>1, <1>2 DEF data_top, stack_bot, k_data_top

LEMMA NewStack ==
  ASSUME NEW m \in Memories, NEW s \in Seq(Nat), Len(s) % 4 = 0, Len(s) <= StackLimit,
         NEW r, r = WithStack(m, s)
  PROVE  /\ r \in Memories /\ r.data = m.data /\ r.stack = s /\ r.kdata = m.kdata
         /\ data_top(r) = data_top(m) /\ k_data_top(r) = k_data_top(m)
         /\ stack_bot(r) = STACK_TOP - Len(s)
<1>1. r \in Records /\ r.data = m.data /\ r.stack = s /\ r.kdata = m.kdata
  BY DEF Memories, Records, WithStack
<1>2. r \in Memories
  BY <1>1, Tops DEF Memories, Records, WORD
<1> QED
  BY <1>1, <1>2 DEF data_top, stack_bot, k_data_top

LEMMA NewKData ==
  ASSUME NEW m \in Memories, NEW k \in Seq(Nat), Len(k) % 4 = 0, Len(k) <= KDataLimit,
         NEW r, r = WithKData(m, k)
  PROVE  /\ r \in Memories /\ r.data = m.data /\ r.stack = m.stack /\ r.kdata = k
         /\ data_top(r) = data_top(m) /\ stack_bot(r) = stack_bot(m)
         /\ k_data_top(r) = K_DATA_BOT + Len(k)
<1>1. r \in Records /\ r.data = m.data /\ r.stack = m.stack /\ r.kdata = k
  BY DEF Memories, Records, WithKData
<1>2. r \in Memories
  BY <1>1, Tops DEF Memories, Records, WORD
<1> QED
  BY <1>1, <1>2 DEF data_top, stack_bot, k_data_top

LEMMA NewText ==
  ASSUME NEW m \in Memories, NEW i \in 1..TextWords, NEW w \in [1..WORD -> Nat],
         NEW r, r = WithText(m, i, w)
  PROVE  /\ r \in Memories /\ r.data = m.data /\ r.stack = m.stack
         /\ r.kdata = m.kdata
<1> DEFINE x == [m.text EXCEPT ![i] = w]
<1>1. x \in [1..TextWords -> {Null} \cup [1..WORD -> Nat]]
  BY Typed
<1>2. r = [m EXCEPT !.text = x]
  BY DEF Memories, WithText
<1> HIDE DEF x
<1>3. /\ r \in Records /\ r.data = m.data /\ r.stack = m.stack
      /\ r.kdata = m.kdata
  BY <1>1, <1>2 DEF Memories, Records
<1>4. r \in Memories
  BY <1>3, Tops DEF Memories, Records, WORD
<1> QED
  BY <1>3, <1>4



-----------------------------------------------------------------------------
(* Growth.                                                                  *)

LEMMA FlatSame ==
  ASSUME NEW m, NEW r, r.data = m.data, r.stack = m.stack
  PROVE  FlatBytes(r) = FlatBytes(m)
  BY DEF FlatBytes, data_top, stack_bot

(* A stack that has come down by k bytes of zeros holds the same bytes. *)
LEMMA FlatStack ==
  ASSUME NEW m \in Memories, NEW r \in Memories, NEW k \in Nat, r.data = m.data,
         Len(r.stack) = k + Len(m.stack),
         \A i \in 1..Len(r.stack) : r.stack[i] = IF i <= k THEN 0 ELSE m.stack[i - k]
  PROVE  stack_bot(r) = stack_bot(m) - k /\ FlatBytes(r) = FlatBytes(m)
<1> DEFINE n == Len(m.stack)
<1>1. /\ n \in Nat /\ STACK_TOP \in Nat /\ DATA_BOT \in Nat
      /\ data_top(m) \in Nat /\ stack_bot(m) \in Nat /\ stack_bot(r) \in Nat
      /\ data_top(r) <= stack_bot(r)
  BY Tops, Layout
<1>2. stack_bot(m) = STACK_TOP - n /\ stack_bot(r) = STACK_TOP - (k + n)
  BY DEF stack_bot
<1>3. data_top(r) = data_top(m)
  BY DEF data_top
<1>4. stack_bot(r) = stack_bot(m) - k
  BY <1>1, <1>2
<1>5. \A i \in 1..(k + n) : r.stack[i] = IF i <= k THEN 0 ELSE m.stack[i - k]
  OBVIOUS
<1> HIDE DEF n
<1>6. ASSUME NEW a \in Region
      PROVE  FlatBytes(r)[a] = FlatBytes(m)[a]
  <2>1. a \in Int /\ a < STACK_TOP /\ a >= DATA_BOT
    BY <1>1 DEF Region
  <2>2. CASE a < data_top(m)
    BY <2>2, <1>3 DEF FlatBytes
  <2>3. CASE ~(a < data_top(m)) /\ a >= stack_bot(r)
    <3> DEFINE i == a - stack_bot(r) + 1
    <3>1. i \in 1..(k + n)
      BY <2>1, <2>3, <1>1, <1>2
    <3>2. i <= k <=> ~(a >= stack_bot(m))
      BY <2>1, <1>1, <1>4
    <3>3. i - k = a - stack_bot(m) + 1
      BY <2>1, <1>1, <1>4
    <3> HIDE DEF i
    <3>4. r.stack[i] = IF i <= k THEN 0 ELSE m.stack[i - k]
      BY <3>1, <1>5
    <3>5. r.stack[i] = IF a >= stack_bot(m) THEN m.stack[a - stack_bot(m) + 1] ELSE 0
      BY <3>2, <3>3, <3>4
    <3> QED
      BY <2>3, <3>5, <1>3 DEF FlatBytes, i
  <2>4. CASE ~(a < data_top(m)) /\ ~(a >= stack_bot(r))
    <3>1. ~(a >= stack_bot(m))
      BY <2>1, <2>4, <1>1, <1>4
    <3> QED
      BY <2>4, <3>1, <1>3 DEF FlatBytes
  <2> QED
    BY <2>2, <2>3, <2>4
<1>7. FlatBytes(r) = FlatBytes(m)
  BY <1>6 DEF FlatBytes
<1> QED
  BY <1>4, <1>7

(* Data that have grown by k bytes of zeros hold the same bytes. *)
LEMMA FlatData ==
  ASSUME NEW m \in Memories, NEW r \in Memories, NEW k \in Nat, r.stack = m.stack,
         Len(r.data) = Len(m.data) + k,
         \A i \in 1..Len(r.data) : r.data[i] = IF i <= Len(m.data) THEN m.data[i] ELSE 0
  PROVE  data_top(r) = data_top(m) + k /\ FlatBytes(r) = FlatBytes(m)
<1> DEFINE n == Len(m.data)
<1>1. /\ n \in Nat /\ STACK_TOP \in Nat /\ DATA_BOT \in Nat
      /\ data_top(m) \in Nat /\ data_top(r) \in Nat /\ stack_bot(m) \in Nat
      /\ data_top(r) <= stack_bot(r)
  BY Tops, Layout
<1>2. data_top(m) = DATA_BOT + n /\ data_top(r) = DATA_BOT + (n + k)
  BY DEF data_top
<1>3. stack_bot(r) = stack_bot(m)
  BY DEF stack_bot
<1>4. data_top(r) = data_top(m) + k
  BY <1>1, <1>2
<1>5. \A i \in 1..(n + k) : r.data[i] = IF i <= n THEN m.data[i] ELSE 0
  OBVIOUS
<1> HIDE DEF n
<1>6. ASSUME NEW a \in Region
      PROVE  FlatBytes(r)[a] = FlatBytes(m)[a]
  <2>1. a \in Int /\ a < STACK_TOP /\ a >= DATA_BOT
    BY <1>1 DEF Region
  <2>2. CASE ~(a < data_top(r))
    <3>1. ~(a < data_top(m))
      BY <2>1, <2>2, <1>1, <1>4
    <3> QED
      BY <2>2, <3>1, <1>3 DEF FlatBytes
  <2>3. CASE a < data_top(r)
    <3>1. a - DATA_BOT + 1 \in 1..(n + k)
      BY <2>1, <2>3, <1>1, <1>2
    <3>2. r.data[a - DATA_BOT + 1] =
            IF a - DATA_BOT + 1 <= n THEN m.data[a - DATA_BOT + 1] ELSE 0
      BY <3>1, <1>5
    <3>3. a - DATA_BOT + 1 <= n <=> a < data_top(m)
      BY <2>1, <1>1, <1>2
    <3>4. ~(a >= stack_bot(m))
      BY <2>1, <2>3, <1>1, <1>3
    <3>5. r.data[a - DATA_BOT + 1] =
            IF a < data_top(m) THEN m.data[a - DATA_BOT + 1] ELSE 0
      BY <3>2, <3>3
    <3> QED
      BY <2>3, <3>4, <3>5, <1>3 DEF FlatBytes
  <2> QED
    BY <2>2, <2>3
<1>7. FlatBytes(r) = FlatBytes(m)
  BY <1>6 DEF FlatBytes
<1> QED
  BY <1>4, <1>7

(* Zeros before and after a segment. *)
LEMMA ZerosBefore ==
  ASSUME NEW s \in Seq(Nat), NEW k \in Nat
  PROVE  /\ Zeros(k) \o s \in Seq(Nat) /\ Len(Zeros(k) \o s) = k + Len(s)
         /\ \A i \in 1..(k + Len(s)) :
              (Zeros(k) \o s)[i] = IF i <= k THEN 0 ELSE s[i - k]
<1> DEFINE z == Zeros(k)
           t == z \o s
<1>1. z \in Seq(Nat) /\ Len(z) = k /\ \A i \in 1..k : z[i] = 0
  BY ZerosSeq
<1>2. Len(s) \in Nat
  BY LenProperties
<1> HIDE DEF z
<1>3. /\ t \in Seq(Nat) /\ Len(t) = Len(z) + Len(s)
      /\ \A i \in 1..(Len(z) + Len(s)) : t[i] = IF i <= Len(z) THEN z[i] ELSE s[i - Len(z)]
  BY <1>1, Joined
<1> HIDE DEF t
<1>4. \A i \in 1..(k + Len(s)) : t[i] = IF i <= k THEN 0 ELSE s[i - k]
  BY <1>1, <1>2, <1>3
<1> QED
  BY <1>1, <1>3, <1>4 DEF t, z

LEMMA ZerosAfter ==
  ASSUME NEW s \in Seq(Nat), NEW k \in Nat
  PROVE  /\ s \o Zeros(k) \in Seq(Nat) /\ Len(s \o Zeros(k)) = Len(s) + k
         /\ \A i \in 1..(Len(s) + k) :
              (s \o Zeros(k))[i] = IF i <= Len(s) THEN s[i] ELSE 0
<1> DEFINE z == Zeros(k)
           t == s \o z
<1>1. z \in Seq(Nat) /\ Len(z) = k /\ \A i \in 1..k : z[i] = 0
  BY ZerosSeq
<1>2. Len(s) \in Nat
  BY LenProperties
<1> HIDE DEF z
<1>3. /\ t \in Seq(Nat) /\ Len(t) = Len(s) + Len(z)
      /\ \A i \in 1..(Len(s) + Len(z)) : t[i] = IF i <= Len(s) THEN s[i] ELSE z[i - Len(s)]
  BY <1>1, Joined
<1> HIDE DEF t
<1>4. ASSUME NEW i \in 1..(Len(s) + k), ~(i <= Len(s)) PROVE z[i - Len(s)] = 0
  <2>1. i - Len(s) \in 1..k
    BY <1>2, <1>4
  <2> QED
    BY <1>1, <2>1
<1>5. \A i \in 1..(Len(s) + k) : t[i] = IF i <= Len(s) THEN s[i] ELSE 0
  BY <1>1, <1>3, <1>4
<1> QED
  BY <1>1, <1>3, <1>5 DEF t, z

MoreStack(m, k) == [m EXCEPT !.stack = Zeros(k) \o m.stack]
MoreData(m, k) == [m EXCEPT !.data = m.data \o Zeros(k)]

LEMMA GrownStack ==
  ASSUME NEW m \in Memories, NEW k \in Nat, k % 4 = 0, Len(m.stack) + k <= StackLimit
  PROVE  /\ MoreStack(m, k) \in Memories
         /\ MoreStack(m, k).data = m.data /\ MoreStack(m, k).kdata = m.kdata
         /\ data_top(MoreStack(m, k)) = data_top(m)
         /\ stack_bot(MoreStack(m, k)) = stack_bot(m) - k
         /\ FlatBytes(MoreStack(m, k)) = FlatBytes(m)
<1> DEFINE s == Zeros(k) \o m.stack
           r == WithStack(m, s)
           n == Len(m.stack)
<1>0. m.stack \in Seq(Nat) /\ n \in Nat /\ n % 4 = 0 /\ n + k <= StackLimit
  BY Typed, Tops
<1>1. /\ s \in Seq(Nat) /\ Len(s) = k + n
      /\ \A i \in 1..(k + n) : s[i] = IF i <= k THEN 0 ELSE m.stack[i - k]
  BY <1>0, ZerosBefore
<1>2. r = MoreStack(m, k)
  BY DEF MoreStack, WithStack
<1> HIDE DEF s, n
<1>3. Len(s) % 4 = 0 /\ Len(s) <= StackLimit
  <2>1. (k + n) % 4 = 0 /\ k + n <= StackLimit
    BY <1>0, Layout
  <2> QED
    BY <1>1, <2>1
<1>4. /\ r \in Memories /\ r.data = m.data /\ r.stack = s /\ r.kdata = m.kdata
      /\ data_top(r) = data_top(m)
  BY <1>1, <1>3, NewStack
<1> HIDE DEF r
<1>5. /\ Len(r.stack) = k + Len(m.stack)
      /\ \A i \in 1..Len(r.stack) : r.stack[i] = IF i <= k THEN 0 ELSE m.stack[i - k]
  BY <1>1, <1>4 DEF n
<1>6. stack_bot(r) = stack_bot(m) - k /\ FlatBytes(r) = FlatBytes(m)
  BY <1>4, <1>5, FlatStack
<1> QED
  BY <1>2, <1>4, <1>6

LEMMA GrownData ==
  ASSUME NEW m \in Memories, NEW k \in Nat, k % 4 = 0, Len(m.data) + k <= DataLimit
  PROVE  /\ MoreData(m, k) \in Memories
         /\ MoreData(m, k).stack = m.stack /\ MoreData(m, k).kdata = m.kdata
         /\ data_top(MoreData(m, k)) = data_top(m) + k
         /\ FlatBytes(MoreData(m, k)) = FlatBytes(m)
<1> DEFINE d == m.data \o Zeros(k)
           r == WithData(m, d)
           n == Len(m.data)
<1>0. m.data \in Seq(Nat) /\ n \in Nat /\ n % 4 = 0 /\ n + k <= DataLimit
  BY Typed, Tops
<1>1. /\ d \in Seq(Nat) /\ Len(d) = n + k
      /\ \A i \in 1..(n + k) : d[i] = IF i <= n THEN m.data[i] ELSE 0
  BY <1>0, ZerosAfter
<1>2. r = MoreData(m, k)
  BY DEF MoreData, WithData
<1> HIDE DEF d, n
<1>3. Len(d) % 4 = 0 /\ Len(d) <= DataLimit
  <2>1. (n + k) % 4 = 0 /\ n + k <= DataLimit
    BY <1>0, Layout
  <2> QED
    BY <1>1, <2>1
<1>4. r \in Memories /\ r.data = d /\ r.stack = m.stack /\ r.kdata = m.kdata
  BY <1>1, <1>3, NewData
<1> HIDE DEF r
<1>5. /\ Len(r.data) = Len(m.data) + k
      /\ \A i \in 1..Len(r.data) : r.data[i] = IF i <= Len(m.data) THEN m.data[i] ELSE 0
  BY <1>1, <1>4 DEF n
<1>6. data_top(r) = data_top(m) + k /\ FlatBytes(r) = FlatBytes(m)
  BY <1>4, <1>5, FlatData
<1> QED
  BY <1>2, <1>4, <1>6

(* expand_stack makes room for the n bytes it was asked for, or fails. *)
LEMMA ExpandStack ==
  ASSUME NEW m \in Memories, NEW n \in Int, NEW e, e = expand_stack(m, n)
  PROVE  \/ e.how = "error" /\ e.m = m
         \/ /\ e.how = "grown" /\ e.m \in Memories
            /\ e.m.data = m.data /\ e.m.kdata = m.kdata
            /\ data_top(e.m) = data_top(m) /\ stack_bot(e.m) <= stack_bot(m) - n
            /\ FlatBytes(e.m) = FlatBytes(m)
<1> DEFINE old == Len(m.stack)
           delta == RoundUp(n, WORD)
           new == old + (IF delta > old THEN delta ELSE old)
<1>1. old \in Nat /\ old % 4 = 0
  BY Tops
<1>2. delta \in Int /\ delta % 4 = 0 /\ delta >= n
  BY Rounded
<1>3. CASE n < 0 \/ new > StackLimit
  BY <1>3 DEF expand_stack
<1>4. CASE ~(n < 0 \/ new > StackLimit)
  <2> DEFINE k == new - old
  <2> HIDE DEF old, delta
  <2>1. k \in Nat /\ k % 4 = 0 /\ k >= n /\ old + k <= StackLimit
    BY <1>1, <1>2, <1>4, Layout
  <2> USE DEF old, delta
  <2>2. e = [how |-> "grown", m |-> MoreStack(m, k)]
    BY <1>4 DEF expand_stack, MoreStack
  <2> HIDE DEF new
  <2> HIDE DEF k
  <2> DEFINE r == MoreStack(m, k)
  <2>3. /\ r \in Memories /\ r.data = m.data /\ r.kdata = m.kdata
        /\ data_top(r) = data_top(m) /\ stack_bot(r) = stack_bot(m) - k
        /\ FlatBytes(r) = FlatBytes(m)
    BY <2>1, GrownStack DEF old
  <2>4. e.how = "grown" /\ e.m = r
    BY <2>2
  <2> HIDE DEF r
  <2>5. stack_bot(r) <= stack_bot(m) - n
    <3>1. stack_bot(m) \in Nat /\ k \in Nat /\ n \in Int /\ k >= n
      BY <2>1, Tops
    <3> QED
      BY <3>1, <2>3
  <2> QED
    BY <2>3, <2>4, <2>5
<1> QED
  BY <1>3, <1>4

(* expand_data adds the n bytes it was asked for, or fails and leaves the   *)
(* memory as it was; an int that wraps on the way cannot make it succeed.   *)
LEMMA ExpandData ==
  ASSUME NEW m \in Memories, NEW n \in -(IntMax + 1)..IntMax,
         NEW e, e = expand_data(m, n)
  PROVE  \/ e.how \in {"error", "died"} /\ e.m = m
         \/ /\ e.how = "grown" /\ e.m \in Memories
            /\ e.m.stack = m.stack /\ e.m.kdata = m.kdata
            /\ data_top(e.m) >= data_top(m) + n
            /\ FlatBytes(e.m) = FlatBytes(m)
<1> DEFINE old == Len(m.data)
           up == RoundUp(n, WORD)
           delta == Wrap(up)
           new == Wrap(old + delta)
<1>0. n \in Int
  BY Layout
<1>1. old \in Nat /\ old % 4 = 0 /\ old <= DataLimit
  BY Tops
<1>2. up \in Int /\ up % 4 = 0 /\ up >= n /\ up < n + 4
  BY <1>0, Rounded
<1>3. CASE n < 0 \/ new > DataLimit
  BY <1>3 DEF expand_data
<1>4. CASE n >= 0 /\ new < 0 /\ ~(new > DataLimit)
  <2>1. ~(n < 0)
    BY <1>0, <1>4
  <2> QED
    BY <1>4, <2>1 DEF expand_data
<1>5. CASE n >= 0 /\ ~(new < 0) /\ ~(new > DataLimit)
  <2> HIDE DEF old, up
  <2>0. IntMax \in Nat /\ (IntMax + 1) % 4 = 0 /\ DataLimit \in Nat /\ DataLimit <= IntMax
    BY Layout
  <2>1. up <= IntMax
    <3>1. up <= IntMax + 1
      BY <2>0, <1>0, <1>2, Layout
    <3>2. CASE up = IntMax + 1
      <4>1. delta = -(IntMax + 1)
        BY <2>0, <3>2 DEF Wrap
      <4>2. new < 0
        BY <2>0, <4>1, <1>1 DEF Wrap
      <4> QED
        BY <4>2, <1>5
    <3> QED
      BY <3>1, <3>2, <2>0, <1>2
  <2>2. delta = up
    BY <2>0, <2>1, <1>2 DEF Wrap
  <2>3. new = old + up
    <3>1. CASE old + up > IntMax
      <4>1. new = old + up - 2 * (IntMax + 1)
        BY <2>0, <2>2, <3>1, <1>1, <1>2 DEF Wrap
      <4>2. new < 0
        BY <4>1, <2>0, <2>1, <1>1, <1>2
      <4> QED
        BY <4>2, <1>5
    <3>2. CASE ~(old + up > IntMax)
      BY <2>2, <3>2 DEF Wrap
    <3> QED
      BY <3>1, <3>2
  <2>4. up \in Nat /\ old + up <= DataLimit
    BY <1>0, <1>1, <1>2, <1>5, <2>0, <2>3
  <2>5. e = [how |-> "grown", m |-> MoreData(m, up)]
    <3>1. ~(n < 0)
      BY <1>0, <1>5
    <3>2. ~(n < 0 \/ new > DataLimit) /\ ~(n >= 0 /\ new < 0)
      BY <1>5, <3>1
    <3>3. e = [how |-> "grown", m |-> MoreData(m, delta)]
      BY <3>2 DEF expand_data, MoreData, old, up
    <3> QED
      BY <3>3, <2>2
  <2> DEFINE r == MoreData(m, up)
  <2>6. /\ r \in Memories /\ r.stack = m.stack /\ r.kdata = m.kdata
        /\ data_top(r) = data_top(m) + up /\ FlatBytes(r) = FlatBytes(m)
    BY <2>4, <1>2, GrownData DEF old
  <2>7. e.how = "grown" /\ e.m = r
    BY <2>5
  <2> HIDE DEF r
  <2>8. data_top(r) >= data_top(m) + n
    <3>1. data_top(m) \in Nat /\ up \in Int /\ up >= n
      BY <1>2, Tops
    <3> QED
      BY <3>1, <2>6, <1>0
  <2> QED
    BY <2>6, <2>7, <2>8
<1>6. new \in Int
  <2> HIDE DEF old, up
  <2> QED
    BY <1>1, <1>2, Layout DEF Wrap
<1> QED
  BY <1>0, <1>3, <1>4, <1>5, <1>6, Layout

(* expand_k_data likewise, whatever realloc leaves in what it does not      *)
(* clear.                                                                   *)
LEMMA ExpandKData ==
  ASSUME NEW m \in Memories, NEW n \in Int, NEW g \in Nat,
         NEW e, e = expand_k_data(m, n, g)
  PROVE  \/ e.how = "error" /\ e.m = m
         \/ /\ e.how = "grown" /\ e.m \in Memories
            /\ e.m.data = m.data /\ e.m.stack = m.stack
            /\ k_data_top(e.m) >= k_data_top(m) + n
            /\ FlatBytes(e.m) = FlatBytes(m)
<1> DEFINE old == Len(m.kdata)
           up == RoundUp(n, WORD)
           new == old + up
           more == [i \in 1..(new - old) |-> g]
           bare == m.kdata \o more
           k == [i \in 1..new |-> IF i - 1 \in (old \div WORD)..(new \div WORD - 1)
                                  THEN 0 ELSE bare[i]]
<1>1. old \in Nat /\ old % 4 = 0 /\ m.kdata \in Seq(Nat)
  BY Tops, Typed
<1>2. up \in Int /\ up % 4 = 0 /\ up >= n
  BY Rounded
<1>3. CASE n < 0 \/ new > KDataLimit
  BY <1>3 DEF expand_k_data
<1>4. CASE ~(n < 0 \/ new > KDataLimit)
  <2>1. e = [how |-> "grown", m |-> [m EXCEPT !.kdata = k]]
    BY <1>4 DEF expand_k_data
  <2> HIDE DEF old, up
  <2>2. new \in Nat /\ new - old \in Nat /\ new % 4 = 0 /\ new <= KDataLimit
        /\ old + (new - old) = new
    BY <1>1, <1>2, <1>4, Layout
  <2>3. bare \in Seq(Nat) /\ Len(bare) = new
    <3> HIDE DEF new
    <3>1. more \in Seq(Nat) /\ Len(more) = new - old
      BY <2>2
    <3> HIDE DEF more
    <3> QED
      BY <3>1, <1>1, <2>2, Joined DEF old
  <2> HIDE DEF bare, new
  <2>4. \A i \in 1..new : bare[i] \in Nat
    BY <2>2, <2>3, ElementOfSeq
  <2>5. k \in Seq(Nat) /\ Len(k) = new
    BY <2>2, <2>4
  <2> HIDE DEF k
  <2> DEFINE r == WithKData(m, k)
  <2>6. /\ r \in Memories /\ r.data = m.data /\ r.stack = m.stack
        /\ k_data_top(r) = K_DATA_BOT + new
    BY <2>2, <2>5, NewKData
  <2>7. e.how = "grown" /\ e.m = r
    BY <2>1 DEF WithKData
  <2> HIDE DEF r
  <2>8. FlatBytes(r) = FlatBytes(m)
    BY <2>6, FlatSame
  <2>9. K_DATA_BOT + new >= k_data_top(m) + n
    <3>1. k_data_top(m) = K_DATA_BOT + old /\ new = old + up /\ K_DATA_BOT \in Nat
      BY Layout DEF k_data_top, old, new
    <3> QED
      BY <3>1, <1>1, <1>2
  <2> QED
    BY <2>6, <2>7, <2>8, <2>9
<1> QED
  BY <1>3, <1>4

-----------------------------------------------------------------------------
(* Accesses.                                                                *)

(* The effect of a store on the flat memory. *)
Written(b, a, val) ==
  [x \in Region |-> IF x - a \in 0..(Len(val) - 1) THEN val[x - a + 1] ELSE b[x]]

LEMMA OverwrittenSeq ==
  ASSUME NEW b \in Seq(Nat), NEW i \in Int, NEW val \in Seq(Nat)
  PROVE  /\ Overwritten(b, i, val) \in Seq(Nat)
         /\ Len(Overwritten(b, i, val)) = Len(b)
         /\ \A j \in 1..Len(b) : Overwritten(b, i, val)[j] =
              IF j - i \in 1..Len(val) THEN val[j - i] ELSE b[j]
<1>1. Len(b) \in Nat /\ Len(val) \in Nat
  BY LenProperties
<1>2. ASSUME NEW j \in 1..Len(b)
      PROVE  (IF j - i \in 1..Len(val) THEN val[j - i] ELSE b[j]) \in Nat
  BY <1>1, ElementOfSeq
<1> QED
  BY <1>1, <1>2 DEF Overwritten

(* An aligned access that begins in a segment lies inside it. *)
Whole(a, n) == n \in {1, 2, 4} /\ a % n = 0

LEMMA Aligned ==
  ASSUME NEW a \in Int, NEW n \in Nat, Whole(a, n), NEW top \in Int, top % 4 = 0,
         a < top
  PROVE  a + n <= top
<1>1. CASE n = 1
  BY <1>1
<1>2. CASE n = 2
  BY <1>2 DEF Whole
<1>3. CASE n = 4
  BY <1>3 DEF Whole
<1> QED
  BY <1>1, <1>2, <1>3 DEF Whole

LEMMA OneSegment ==
  ASSUME NEW m \in Memories, NEW a \in Int
  PROVE  /\ InData(m, a) => ~InStack(m, a) /\ ~InKData(m, a)
         /\ InStack(m, a) => ~InData(m, a) /\ ~InKData(m, a)
         /\ InKData(m, a) => ~InData(m, a) /\ ~InStack(m, a)
         /\ InSegment(m, a) => a >= DATA_BOT /\ a \in Nat
<1>1. /\ DATA_BOT \in Nat /\ STACK_TOP \in Nat /\ K_DATA_BOT \in Nat
      /\ STACK_TOP <= K_DATA_BOT
      /\ data_top(m) \in Nat /\ stack_bot(m) \in Nat /\ k_data_top(m) \in Nat
      /\ DATA_BOT <= data_top(m) /\ data_top(m) <= stack_bot(m)
      /\ stack_bot(m) <= STACK_TOP
  BY Tops, Layout
<1> QED
  BY <1>1 DEF InData, InStack, InKData, InSegment

LEMMA PutData ==
  ASSUME NEW m \in Memories, NEW a \in Int, NEW n \in Nat, Whole(a, n),
         InData(m, a), NEW val \in Seq(Nat), Len(val) = n
  PROVE  /\ Put(m, a, val) \in Memories
         /\ FlatBytes(Put(m, a, val)) = Written(FlatBytes(m), a, val)
<1> DEFINE i == a - DATA_BOT
           d == Overwritten(m.data, i, val)
           r == WithData(m, d)
<1>1. r = Put(m, a, val)
  BY OneSegment DEF Put, WithData, WithStack, WithKData
<1>2. /\ DATA_BOT \in Nat /\ STACK_TOP \in Nat /\ data_top(m) \in Nat
      /\ stack_bot(m) \in Nat /\ data_top(m) <= stack_bot(m)
      /\ Len(m.data) \in Nat
  BY Tops, Layout
<1>b. m.data \in Seq(Nat)
  BY Typed
<1>n. n \in Nat
  OBVIOUS
<1>3. data_top(m) = DATA_BOT + Len(m.data) /\ a >= DATA_BOT /\ a < data_top(m)
  BY <1>2 DEF InData, data_top
<1>4. a + n <= data_top(m)
  <2>1. data_top(m) \in Int /\ data_top(m) % 4 = 0 /\ a < data_top(m)
    <3>1. data_top(m) \in Nat /\ data_top(m) % 4 = 0
      BY Tops
    <3> QED
      BY <3>1, <1>3
  <2> QED
    BY <2>1, Aligned
<1>5. i \in Int
  BY <1>2
<1> HIDE DEF i
<1>6. /\ d \in Seq(Nat) /\ Len(d) = Len(m.data)
      /\ \A j \in 1..Len(m.data) : d[j] =
           IF j - i \in 1..n THEN val[j - i] ELSE m.data[j]
  <2> DEFINE b == m.data
  <2>1. b \in Seq(Nat)
    BY <1>b
  <2> HIDE DEF b
  <2>2. /\ Overwritten(b, i, val) \in Seq(Nat) /\ Len(Overwritten(b, i, val)) = Len(b)
        /\ \A j \in 1..Len(b) : Overwritten(b, i, val)[j] =
             IF j - i \in 1..Len(val) THEN val[j - i] ELSE b[j]
    BY <2>1, <1>5, OverwrittenSeq
  <2> QED
    BY <2>2 DEF b
<1> HIDE DEF d
<1>a. Len(d) % 4 = 0 /\ Len(d) <= DataLimit
  BY <1>6, Tops
<1>7. /\ r \in Memories /\ r.data = d /\ r.stack = m.stack
      /\ stack_bot(r) = stack_bot(m) /\ data_top(r) = data_top(m)
  <2>1. /\ r \in Memories /\ r.data = d /\ r.stack = m.stack
        /\ stack_bot(r) = stack_bot(m) /\ data_top(r) = DATA_BOT + Len(d)
    <3>1. d \in Seq(Nat)
      BY <1>6
    <3> QED
      BY <3>1, <1>a, NewData
  <2> QED
    BY <2>1, <1>3, <1>6
<1> HIDE DEF r
<1>8. ASSUME NEW x \in Region
      PROVE  FlatBytes(r)[x] = Written(FlatBytes(m), a, val)[x]
  <2>1. x \in Int /\ x >= DATA_BOT /\ x < STACK_TOP
    BY <1>2 DEF Region
  <2>2. CASE x < data_top(m)
    <3> DEFINE j == x - DATA_BOT + 1
    <3>1. j \in 1..Len(m.data) /\ j - i = x - a + 1
      BY <1>2, <1>3, <2>1, <2>2 DEF i
    <3>2. j - i \in 1..n <=> x - a \in 0..(n - 1)
      BY <1>n, <2>1, <3>1
    <3> HIDE DEF j
    <3>3. d[j] = IF x - a \in 0..(n - 1) THEN val[x - a + 1] ELSE m.data[j]
      BY <1>6, <3>1, <3>2
    <3> QED
      BY <2>2, <3>3, <1>7 DEF FlatBytes, Written, j
  <2>3. CASE ~(x < data_top(m))
    <3>1. ~(x - a \in 0..(n - 1))
      BY <1>n, <1>2, <1>4, <2>1, <2>3
    <3> QED
      BY <2>3, <3>1, <1>7 DEF FlatBytes, Written
  <2> QED
    BY <2>2, <2>3
<1>9. FlatBytes(r) = Written(FlatBytes(m), a, val)
  BY <1>8 DEF FlatBytes, Written
<1> QED
  BY <1>1, <1>7, <1>9

LEMMA PutStack ==
  ASSUME NEW m \in Memories, NEW a \in Int, NEW n \in Nat, Whole(a, n),
         InStack(m, a), NEW val \in Seq(Nat), Len(val) = n
  PROVE  /\ Put(m, a, val) \in Memories
         /\ FlatBytes(Put(m, a, val)) = Written(FlatBytes(m), a, val)
<1> DEFINE i == a - stack_bot(m)
           s == Overwritten(m.stack, i, val)
           r == WithStack(m, s)
<1>1. r = Put(m, a, val)
  BY OneSegment DEF Put, WithData, WithStack, WithKData
<1>2. /\ DATA_BOT \in Nat /\ STACK_TOP \in Nat /\ data_top(m) \in Nat
      /\ stack_bot(m) \in Nat /\ data_top(m) <= stack_bot(m)
      /\ Len(m.stack) \in Nat
  BY Tops, Layout
<1>b. m.stack \in Seq(Nat)
  BY Typed
<1>n. n \in Nat
  OBVIOUS
<1>3. stack_bot(m) = STACK_TOP - Len(m.stack) /\ a >= stack_bot(m) /\ a < STACK_TOP
  BY <1>2 DEF InStack, stack_bot
<1>5. i \in Int
  BY <1>2
<1> HIDE DEF i
<1>6. /\ s \in Seq(Nat) /\ Len(s) = Len(m.stack)
      /\ \A j \in 1..Len(m.stack) : s[j] =
           IF j - i \in 1..n THEN val[j - i]
           ELSE m.stack[j]
  <2> DEFINE b == m.stack
  <2>1. b \in Seq(Nat)
    BY <1>b
  <2> HIDE DEF b
  <2>2. /\ Overwritten(b, i, val) \in Seq(Nat) /\ Len(Overwritten(b, i, val)) = Len(b)
        /\ \A j \in 1..Len(b) : Overwritten(b, i, val)[j] =
             IF j - i \in 1..Len(val) THEN val[j - i] ELSE b[j]
    BY <2>1, <1>5, OverwrittenSeq
  <2> QED
    BY <2>2 DEF b
<1> HIDE DEF s
<1>a. Len(s) % 4 = 0 /\ Len(s) <= StackLimit
  BY <1>6, Tops
<1>7. /\ r \in Memories /\ r.stack = s /\ r.data = m.data
      /\ stack_bot(r) = stack_bot(m) /\ data_top(r) = data_top(m)
  <2>1. /\ r \in Memories /\ r.stack = s /\ r.data = m.data
        /\ data_top(r) = data_top(m) /\ stack_bot(r) = STACK_TOP - Len(s)
    <3>1. s \in Seq(Nat)
      BY <1>6
    <3> QED
      BY <3>1, <1>a, NewStack
  <2> QED
    BY <2>1, <1>3, <1>6
<1> HIDE DEF r
<1>8. ASSUME NEW x \in Region
      PROVE  FlatBytes(r)[x] = Written(FlatBytes(m), a, val)[x]
  <2>1. x \in Int /\ x >= DATA_BOT /\ x < STACK_TOP
    BY <1>2 DEF Region
  <2>2. CASE x >= stack_bot(m)
    <3> DEFINE j == x - stack_bot(m) + 1
    <3>0. ~(x < data_top(m))
      BY <1>2, <2>1, <2>2
    <3>1. j \in 1..Len(m.stack) /\ j - i = x - a + 1
      <4>1. /\ STACK_TOP \in Nat /\ stack_bot(m) \in Nat /\ Len(m.stack) \in Nat
            /\ stack_bot(m) = STACK_TOP - Len(m.stack)
        BY <1>2, <1>3
      <4>2. j - i = x - a + 1
        <5>1. stack_bot(m) \in Nat
          BY <1>2
        <5> QED
          BY <5>1, <2>1 DEF i
      <4> QED
        BY <4>1, <4>2, <2>1, <2>2
    <3>2. j - i \in 1..n <=> x - a \in 0..(n - 1)
      BY <1>n, <2>1, <3>1
    <3> HIDE DEF j
    <3>3. s[j] = IF x - a \in 0..(n - 1) THEN val[x - a + 1] ELSE m.stack[j]
      BY <1>6, <3>1, <3>2
    <3> QED
      BY <2>2, <3>0, <3>3, <1>7 DEF FlatBytes, Written, j
  <2>3. CASE ~(x >= stack_bot(m))
    <3>1. ~(x - a \in 0..(n - 1))
      BY <1>n, <1>2, <1>3, <2>1, <2>3
    <3> QED
      BY <2>3, <3>1, <1>7 DEF FlatBytes, Written
  <2> QED
    BY <2>2, <2>3
<1>9. FlatBytes(r) = Written(FlatBytes(m), a, val)
  BY <1>8 DEF FlatBytes, Written
<1> QED
  BY <1>1, <1>7, <1>9

LEMMA PutKData ==
  ASSUME NEW m \in Memories, NEW a \in Int, NEW n \in Nat,
         InKData(m, a), NEW val \in Seq(Nat), Len(val) = n
  PROVE  /\ Put(m, a, val) \in Memories
         /\ FlatBytes(Put(m, a, val)) = Written(FlatBytes(m), a, val)
<1> DEFINE k == Overwritten(m.kdata, a - K_DATA_BOT, val)
           r == WithKData(m, k)
<1>1. r = Put(m, a, val)
  BY OneSegment DEF Put, WithData, WithStack, WithKData
<1>2. /\ DATA_BOT \in Nat /\ STACK_TOP \in Nat /\ K_DATA_BOT \in Nat
      /\ STACK_TOP <= K_DATA_BOT /\ k_data_top(m) \in Nat
      /\ m.kdata \in Seq(Nat) /\ Len(m.kdata) \in Nat
      /\ Len(m.kdata) % 4 = 0 /\ Len(m.kdata) <= KDataLimit
  BY Tops, Typed, Layout
<1>3. a - K_DATA_BOT \in Int /\ a >= K_DATA_BOT
  BY <1>2 DEF InKData
<1>4. k \in Seq(Nat) /\ Len(k) = Len(m.kdata)
  BY <1>2, <1>3, OverwrittenSeq
<1> HIDE DEF k
<1>a. Len(k) % 4 = 0 /\ Len(k) <= KDataLimit
  BY <1>2, <1>4
<1>5. r \in Memories /\ r.stack = m.stack /\ r.data = m.data
  BY <1>4, <1>a, NewKData
<1> HIDE DEF r
<1>6. FlatBytes(r) = FlatBytes(m)
  BY <1>5, FlatSame
<1>7. ASSUME NEW x \in Region PROVE ~(x - a \in 0..(Len(val) - 1))
  BY <1>2, <1>3 DEF Region
<1>8. Written(FlatBytes(m), a, val) = FlatBytes(m)
  BY <1>7 DEF FlatBytes, Written
<1> QED
  BY <1>1, <1>5, <1>6, <1>8

(* A store in a segment. *)
LEMMA PutRight ==
  ASSUME NEW m \in Memories, NEW a \in Int, NEW n \in Nat, Whole(a, n),
         InSegment(m, a), NEW val \in Seq(Nat), Len(val) = n
  PROVE  /\ Put(m, a, val) \in Memories
         /\ FlatBytes(Put(m, a, val)) = Written(FlatBytes(m), a, val)
<1>1. CASE InData(m, a)
  BY <1>1, PutData
<1>2. CASE InStack(m, a)
  BY <1>2, PutStack
<1>3. CASE InKData(m, a)
  BY <1>3, PutKData
<1> QED
  BY <1>1, <1>2, <1>3 DEF InSegment

LEMMA Piece ==
  ASSUME NEW b \in Seq(Nat), NEW p \in Nat, NEW n \in Nat, p + n <= Len(b)
  PROVE  SubSeq(b, p + 1, p + n) = [i \in 1..n |-> b[p + i]]
<1>1. Len(b) \in Nat
  BY LenProperties
<1> DEFINE t == SubSeq(b, p + 1, p + n)
<1>2. /\ t \in Seq(Nat) /\ Len(t) = n
      /\ \A i \in 1..n : t[i] = b[p + i]
  BY <1>1, SubSeqProperties
<1> HIDE DEF t
<1>3. t = [i \in 1..n |-> b[p + i]]
  BY <1>2
<1> QED
  BY <1>3 DEF t

(* A load from a segment of the flat memory. *)
LEMMA BytesRight ==
  ASSUME NEW m \in Memories, NEW a \in Int, NEW n \in Nat, Whole(a, n),
         InSegment(m, a), a \in Region
  PROVE  Bytes(m, a, n) = [i \in 1..n |-> FlatBytes(m)[a + i - 1]]
<1>1. /\ DATA_BOT \in Nat /\ STACK_TOP \in Nat /\ K_DATA_BOT \in Nat
      /\ STACK_TOP <= K_DATA_BOT
  BY Layout
<1>2. a >= DATA_BOT /\ a < STACK_TOP
  BY <1>1 DEF Region
<1>3. CASE InData(m, a)
  <2> DEFINE p == a - DATA_BOT
  <2>1. data_top(m) \in Nat /\ data_top(m) % 4 = 0 /\ Len(m.data) \in Nat
    BY Tops
  <2>2. data_top(m) = DATA_BOT + Len(m.data)
    BY DEF data_top
  <2>3. a < data_top(m)
    BY <1>3, <2>1, <1>1 DEF InData
  <2>4. a + n <= data_top(m)
    BY <2>1, <2>3, Aligned
  <2>5. p \in Nat /\ p + n <= Len(m.data)
    BY <1>1, <1>2, <2>1, <2>2, <2>4
  <2>6. Bytes(m, a, n) = SubSeq(m.data, p + 1, p + n)
    BY <1>3, OneSegment DEF Bytes
  <2>7. m.data \in Seq(Nat)
    BY Typed
  <2>8. Bytes(m, a, n) = [i \in 1..n |-> m.data[p + i]]
    BY <2>5, <2>6, <2>7, Piece
  <2>9. data_top(m) <= stack_bot(m) /\ stack_bot(m) <= STACK_TOP /\ stack_bot(m) \in Nat
    BY Tops
  <2>10. ASSUME NEW i \in 1..n PROVE m.data[p + i] = FlatBytes(m)[a + i - 1]
    <3>1. a + i - 1 \in Region /\ a + i - 1 < data_top(m)
      BY <1>1, <1>2, <2>1, <2>4, <2>9 DEF Region
    <3>2. (a + i - 1) - DATA_BOT + 1 = p + i
      BY <1>1
    <3> QED
      BY <3>1, <3>2 DEF FlatBytes
  <2> QED
    BY <2>8, <2>10
<1>4. CASE InStack(m, a)
  <2> DEFINE p == a - stack_bot(m)
  <2>1. /\ data_top(m) \in Nat /\ stack_bot(m) \in Nat /\ Len(m.stack) \in Nat
        /\ data_top(m) <= stack_bot(m)
    BY Tops
  <2>2. stack_bot(m) = STACK_TOP - Len(m.stack)
    BY DEF stack_bot
  <2>3. a >= stack_bot(m)
    BY <1>4, <2>1, <1>1 DEF InStack
  <2>4. a + n <= STACK_TOP
    <3>1. STACK_TOP \in Int /\ STACK_TOP % 4 = 0
      BY Layout
    <3> QED
      BY <3>1, <1>2, Aligned
  <2>5. p \in Nat /\ p + n <= Len(m.stack)
    BY <1>1, <2>1, <2>2, <2>3, <2>4
  <2>6. Bytes(m, a, n) = SubSeq(m.stack, p + 1, p + n)
    BY <1>4, OneSegment DEF Bytes
  <2>7. m.stack \in Seq(Nat)
    BY Typed
  <2>8. Bytes(m, a, n) = [i \in 1..n |-> m.stack[p + i]]
    BY <2>5, <2>6, <2>7, Piece
  <2>10. ASSUME NEW i \in 1..n PROVE m.stack[p + i] = FlatBytes(m)[a + i - 1]
    <3>1. /\ a + i - 1 \in Region /\ ~(a + i - 1 < data_top(m))
          /\ a + i - 1 >= stack_bot(m)
      BY <1>1, <1>2, <2>1, <2>3, <2>4 DEF Region
    <3>2. (a + i - 1) - stack_bot(m) + 1 = p + i
      BY <2>1
    <3> QED
      BY <3>1, <3>2 DEF FlatBytes
  <2> QED
    BY <2>8, <2>10
<1>5. ~InKData(m, a)
  <2>1. k_data_top(m) \in Nat
    BY Tops
  <2> QED
    BY <1>1, <1>2, <2>1 DEF InKData
<1> QED
  BY <1>3, <1>4, <1>5 DEF InSegment

(* At most one of the arms of an access applies. *)
LEMMA OneArm ==
  ASSUME NEW m \in Memories, NEW a \in Int
  PROVE  /\ InSegment(m, a) => ~InText(a) /\ ~Grows(m, a) /\ a \notin MM_IO_BOT..MM_IO_TOP
         /\ InText(a) => ~InSegment(m, a) /\ ~Grows(m, a) /\ a \notin MM_IO_BOT..MM_IO_TOP
                         /\ a \notin Region /\ TextWord(a) \in 1..TextWords
         /\ Grows(m, a) => ~InSegment(m, a) /\ ~InText(a) /\ a \notin MM_IO_BOT..MM_IO_TOP
                           /\ a \in Region
<1>1. /\ TEXT_BOT \in Nat /\ TextWords \in Nat /\ DATA_BOT \in Nat /\ STACK_TOP \in Nat
      /\ K_DATA_BOT \in Nat /\ MM_IO_BOT \in Nat /\ MM_IO_TOP \in Nat
      /\ TEXT_BOT + 4 * TextWords <= DATA_BOT /\ STACK_TOP <= K_DATA_BOT
      /\ K_DATA_BOT <= MM_IO_BOT
  BY Layout
<1>2. /\ data_top(m) \in Nat /\ stack_bot(m) \in Nat /\ k_data_top(m) \in Nat
      /\ DATA_BOT <= data_top(m) /\ data_top(m) <= stack_bot(m)
      /\ stack_bot(m) <= STACK_TOP /\ k_data_top(m) <= MM_IO_BOT
  BY Tops
<1>3. ASSUME InSegment(m, a)
      PROVE  ~InText(a) /\ ~Grows(m, a) /\ a \notin MM_IO_BOT..MM_IO_TOP
  <2>1. DATA_BOT <= a /\ a < MM_IO_BOT
    BY <1>1, <1>2, <1>3 DEF InSegment, InData, InStack, InKData
  <2>2. ~Grows(m, a)
    BY <1>1, <1>2, <1>3 DEF InSegment, InData, InStack, InKData, Grows
  <2> QED
    BY <1>1, <2>1, <2>2 DEF InText, WORD
<1>4. ASSUME InText(a)
      PROVE  /\ ~InSegment(m, a) /\ ~Grows(m, a) /\ a \notin MM_IO_BOT..MM_IO_TOP
             /\ a \notin Region /\ TextWord(a) \in 1..TextWords
  <2>1. a >= TEXT_BOT /\ a < TEXT_BOT + 4 * TextWords /\ a < DATA_BOT
    BY <1>1, <1>4 DEF InText, WORD
  <2>2. TextWord(a) \in 1..TextWords
    BY <1>1, <2>1 DEF TextWord, WORD
  <2>3. ~Grows(m, a) /\ a \notin MM_IO_BOT..MM_IO_TOP /\ a \notin Region
    BY <1>1, <1>2, <2>1 DEF Grows, Region
  <2> QED
    BY <1>3, <1>4, <2>2, <2>3
<1>5. ASSUME Grows(m, a)
      PROVE  /\ ~InSegment(m, a) /\ ~InText(a) /\ a \notin MM_IO_BOT..MM_IO_TOP
             /\ a \in Region
  <2>1. a > data_top(m) /\ a < stack_bot(m)
    BY <1>5 DEF Grows
  <2> QED
    BY <1>1, <1>2, <1>3, <1>4, <1>5, <2>1 DEF Region
<1> QED
  BY <1>3, <1>4, <1>5

-----------------------------------------------------------------------------
(* Loads and stores.                                                        *)

(* An access that is refused, or is no access to data. *)
Refused(m, r) ==
  /\ r.m \in Memories /\ FlatBytes(r.m) = FlatBytes(m)
  /\ r.out.op \in {"fault", "error", "inst", "io", "died"}
  /\ r.out.op = "fault" => r.out.code # "short"
  /\ r.out.op \in {"error", "died"} => r.m = m

LoadedRight(m, r) ==
  /\ r.m \in Memories /\ FlatBytes(r.m) = FlatBytes(m)
  /\ r.out.op = "load"
  /\ r.out.a \in Region =>
       /\ r.out.val = [i \in 1..Len(r.out.val) |-> FlatBytes(m)[r.out.a + i - 1]]
       /\ r.out.signed

LEMMA LoadFields ==
  ASSUME NEW m, NEW a, NEW val, NEW signed, NEW r, r = Loaded(m, a, val, signed)
  PROVE  /\ r.m = m /\ r.out.op = "load" /\ r.out.a = a /\ r.out.val = val
         /\ r.out.signed = signed
  BY DEF Loaded

LEMMA Grown ==
  ASSUME NEW m \in Memories, NEW a \in Int, NEW n \in Nat, Whole(a, n), Grows(m, a),
         NEW e, e = expand_stack(m, stack_bot(m) - a + 4)
  PROVE  \/ e.how = "error" /\ e.m = m
         \/ /\ e.how = "grown" /\ e.m \in Memories /\ FlatBytes(e.m) = FlatBytes(m)
            /\ a >= stack_bot(e.m) /\ InStack(e.m, a)
<1>1. /\ stack_bot(m) \in Nat /\ STACK_TOP \in Nat /\ a < stack_bot(m)
      /\ stack_bot(m) <= STACK_TOP
  BY Tops, Layout DEF Grows
<1> DEFINE k == stack_bot(m) - a + 4
<1>2. k \in Int /\ stack_bot(m) - k = a - 4
  BY <1>1
<1> HIDE DEF k
<1>3. e = expand_stack(m, k)
  BY DEF k
<1>4. CASE e.how = "error" /\ e.m = m
  BY <1>4
<1>5. CASE /\ e.how = "grown" /\ e.m \in Memories
           /\ stack_bot(e.m) <= stack_bot(m) - k
           /\ FlatBytes(e.m) = FlatBytes(m)
  <2>1. stack_bot(e.m) \in Nat
    BY <1>5, Tops
  <2>2. a >= stack_bot(e.m) /\ a < STACK_TOP
    BY <1>1, <1>2, <1>5, <2>1
  <2> QED
    BY <1>1, <1>5, <2>1, <2>2 DEF InStack
<1> QED
  BY <1>2, <1>3, <1>4, <1>5, ExpandStack

(* What lies between the segments reads as zero. *)
LEMMA GrowsZero ==
  ASSUME NEW m \in Memories, NEW a \in Int, NEW n \in Nat, Whole(a, n), Grows(m, a)
  PROVE  Zeros(n) = [i \in 1..n |-> FlatBytes(m)[a + i - 1]]
<1>1. /\ DATA_BOT \in Nat /\ STACK_TOP \in Nat /\ data_top(m) \in Nat
      /\ stack_bot(m) \in Nat /\ DATA_BOT <= data_top(m)
      /\ stack_bot(m) <= STACK_TOP /\ stack_bot(m) % 4 = 0
  BY Tops, Layout
<1>2. a > data_top(m) /\ a < stack_bot(m)
  BY DEF Grows
<1>3. a + n <= stack_bot(m)
  BY <1>1, <1>2, Aligned
<1>4. ASSUME NEW i \in 1..n PROVE FlatBytes(m)[a + i - 1] = 0
  <2>1. /\ a + i - 1 \in Region /\ ~(a + i - 1 < data_top(m))
        /\ ~(a + i - 1 >= stack_bot(m))
    <3>1. a + i - 1 \in Int /\ a + i - 1 >= a /\ a + i - 1 < a + n
      OBVIOUS
    <3> QED
      BY <3>1, <1>1, <1>2, <1>3 DEF Region
  <2> QED
    BY <2>1 DEF FlatBytes
<1> QED
  BY <1>4 DEF Zeros

LEMMA ReadResult ==
  ASSUME NEW m \in Memories, NEW a \in Int, NEW n \in {1, 2, 4},
         NEW r, r = mem_read(m, a, n)
  PROVE  LoadedRight(m, r) \/ Refused(m, r)
<1>0. n \in Nat /\ Len(Zeros(n)) = n
  BY ZerosSeq
<1>1. CASE ~Whole(a, n)
  <2>1. r = Fault(m, "AdEL", a)
    BY <1>1 DEF mem_read, Whole
  <2> QED
    BY <2>1 DEF Fault, Refused
<1>2. CASE Whole(a, n) /\ InSegment(m, a)
  <2>1. r = Loaded(m, a, Bytes(m, a, n), TRUE)
    BY <1>2, OneArm DEF mem_read, Whole
  <2> DEFINE val == Bytes(m, a, n)
  <2>2. a \in Region => val = [i \in 1..n |-> FlatBytes(m)[a + i - 1]]
    BY <1>0, <1>2, BytesRight
  <2>3. r = Loaded(m, a, val, TRUE)
    BY <2>1
  <2> HIDE DEF val
  <2>4. a \in Region => Len(val) = n
    BY <2>2, <1>0
  <2>5. r.m = m /\ r.out.op = "load" /\ r.out.a = a /\ r.out.val = val
    BY <2>3 DEF Loaded
  <2>6. r.out.signed
    BY <2>3 DEF Loaded
  <2> QED
    BY <2>2, <2>4, <2>5, <2>6 DEF LoadedRight
<1>3. CASE Whole(a, n) /\ InText(a)
  <2>1. a \notin Region
    BY <1>3, OneArm
  <2>2. \/ r = [m |-> m, out |-> [op |-> "died"]]
        \/ \E val, signed : r = Loaded(m, a, val, signed)
    BY <1>3, OneArm DEF mem_read, Whole
  <2>3. CASE r = [m |-> m, out |-> [op |-> "died"]]
    BY <2>3 DEF Refused
  <2>4. CASE \E val, signed : r = Loaded(m, a, val, signed)
    BY <2>1, <2>4, LoadFields DEF LoadedRight
  <2> QED
    BY <2>2, <2>3, <2>4
<1>4. CASE Whole(a, n) /\ Grows(m, a)
  <2> DEFINE e == expand_stack(m, stack_bot(m) - a + 4)
  <2>1. r = IF e.how = "error" THEN [m |-> m, out |-> [op |-> "error"]]
            ELSE Loaded(e.m, a, Zeros(n), TRUE)
    BY <1>4, OneArm DEF mem_read, Whole
  <2>2. \/ e.how = "error" /\ e.m = m
        \/ /\ e.how = "grown" /\ e.m \in Memories /\ FlatBytes(e.m) = FlatBytes(m)
    BY <1>0, <1>4, Grown
  <2>3. Zeros(n) = [i \in 1..n |-> FlatBytes(m)[a + i - 1]]
    BY <1>0, <1>4, GrowsZero
  <2> HIDE DEF e
  <2>4. CASE e.how = "error"
    BY <2>1, <2>4 DEF Refused
  <2>5. CASE e.how = "grown" /\ e.m \in Memories /\ FlatBytes(e.m) = FlatBytes(m)
    <3>1. r = Loaded(e.m, a, Zeros(n), TRUE)
      BY <2>1, <2>5
    <3>2. r.m = e.m /\ r.out.op = "load" /\ r.out.a = a /\ r.out.val = Zeros(n)
      BY <3>1 DEF Loaded
    <3>3. r.out.signed
      BY <3>1 DEF Loaded
    <3> QED
      BY <3>2, <3>3, <2>3, <2>5, <1>0 DEF LoadedRight
  <2> QED
    BY <2>2, <2>4, <2>5
<1>5. CASE Whole(a, n) /\ ~InSegment(m, a) /\ ~InText(a) /\ ~Grows(m, a)
  <2>1. \/ r = [m |-> m, out |-> [op |-> "io"]]
        \/ r = Fault(m, "DBE", a)
    BY <1>5 DEF mem_read, Whole
  <2> QED
    BY <2>1 DEF Fault, Refused
<1> QED
  BY <1>1, <1>2, <1>3, <1>4, <1>5

StoredRight(m, r) ==
  /\ r.m \in Memories /\ r.out.op = "store"
  /\ FlatBytes(r.m) = Written(FlatBytes(m), r.out.a, r.out.val)

LEMMA PutStored ==
  ASSUME NEW m \in Memories, NEW g \in Memories, FlatBytes(g) = FlatBytes(m),
         NEW a \in Int, NEW n \in Nat, Whole(a, n), InSegment(g, a),
         NEW val \in Seq(Nat), Len(val) = n, NEW r, r = Stored(Put(g, a, val), a, val)
  PROVE  StoredRight(m, r)
<1> DEFINE p == Put(g, a, val)
<1>1. p \in Memories /\ FlatBytes(p) = Written(FlatBytes(g), a, val)
  BY PutRight
<1> HIDE DEF p
<1>2. r.m = p /\ r.out.op = "store" /\ r.out.a = a /\ r.out.val = val
  BY DEF Stored, p
<1> QED
  BY <1>1, <1>2 DEF StoredRight

(* The words the text holds after a store. *)
LEMMA TextResult ==
  ASSUME NEW m \in Memories, NEW a \in Int, NEW n \in {1, 2, 4}, NEW w \in Seq(Nat),
         n <= Len(w), n = WORD => w \in [1..WORD -> Nat], Whole(a, n), InText(a),
         NEW r, r = mem_write(m, a, n, w)
  PROVE  Refused(m, r)
<1> DEFINE i == TextWord(a)
           o == Offset(a)
           val == SubSeq(w, 1, n)
           old == m.text[i]
           new == IF old = Null THEN (IF n = WORD THEN w ELSE Zeros(WORD))
                  ELSE [j \in 1..WORD |-> IF j - o \in 1..n THEN val[j - o] ELSE old[j]]
<1>1. r = [m |-> [m EXCEPT !.text[i] = new], out |-> [op |-> "inst"]]
  BY OneArm DEF mem_write, Whole
<1>2. i \in 1..TextWords
  BY OneArm
<1>3. old \in {Null} \cup [1..WORD -> Nat]
  BY <1>2, Typed
<1>4. o \in Int
  BY DEF Offset, WORD
<1>5. \A j \in 1..n : val[j] \in Nat
  <2>1. Len(w) \in Nat
    BY LenProperties
  <2>2. \A j \in 1..n : val[j] = w[j] /\ j \in 1..Len(w)
    BY <2>1, SubSeqProperties
  <2> QED
    BY <2>2, ElementOfSeq
<1>6. Zeros(WORD) \in [1..WORD -> Nat]
  BY DEF Zeros
<1> HIDE DEF i, o, val, old
<1>7. new \in [1..WORD -> Nat]
  <2>1. CASE old = Null
    BY <2>1, <1>6
  <2>2. CASE old # Null
    <3>1. old \in [1..WORD -> Nat]
      BY <2>2, <1>3
    <3>2. ASSUME NEW j \in 1..WORD
          PROVE (IF j - o \in 1..n THEN val[j - o] ELSE old[j]) \in Nat
      BY <3>1, <1>5
    <3> QED
      BY <2>2, <3>2
  <2> QED
    BY <2>1, <2>2
<1> HIDE DEF new
<1>8. r.m = WithText(m, i, new) /\ r.out.op = "inst"
  BY <1>1 DEF WithText
<1>9. r.m \in Memories /\ r.m.data = m.data /\ r.m.stack = m.stack
  BY <1>2, <1>7, <1>8, NewText
<1> QED
  BY <1>8, <1>9, FlatSame DEF Refused

LEMMA WriteResult ==
  ASSUME NEW m \in Memories, NEW a \in Int, NEW n \in {1, 2, 4}, NEW w \in Seq(Nat),
         n <= Len(w), n = WORD => w \in [1..WORD -> Nat],
         NEW r, r = mem_write(m, a, n, w)
  PROVE  StoredRight(m, r) \/ (Refused(m, r) /\ r.out.op # "died")
<1> DEFINE val == SubSeq(w, 1, n)
<1>0. n \in Nat
  OBVIOUS
<1>1. val \in Seq(Nat) /\ Len(val) = n
  <2>1. Len(w) \in Nat
    BY LenProperties
  <2> QED
    BY <1>0, <2>1, SubSeqProperties
<1>2. CASE ~Whole(a, n)
  <2>1. r = Fault(m, "AdES", a)
    BY <1>2 DEF mem_write, Whole
  <2> QED
    BY <2>1 DEF Fault, Refused
<1>3. CASE Whole(a, n) /\ InSegment(m, a)
  <2>1. r = Stored(Put(m, a, val), a, val)
    BY <1>3, OneArm DEF mem_write, Whole
  <2> HIDE DEF val
  <2> QED
    BY <1>0, <1>1, <1>3, <2>1, PutStored
<1>4. CASE Whole(a, n) /\ InText(a)
  <2>1. r.out = [op |-> "inst"]
    BY <1>4, OneArm DEF mem_write, Whole
  <2> QED
    BY <1>4, <2>1, TextResult
<1>5. CASE Whole(a, n) /\ Grows(m, a)
  <2> DEFINE e == expand_stack(m, stack_bot(m) - a + 4)
  <2>1. r = IF e.how = "error" THEN [m |-> m, out |-> [op |-> "error"]]
            ELSE IF a >= stack_bot(e.m) THEN Stored(Put(e.m, a, val), a, val)
            ELSE [m |-> e.m, out |-> [op |-> "fault", code |-> "short", a |-> a]]
    BY <1>5, OneArm DEF mem_write, Whole
  <2>2. \/ e.how = "error" /\ e.m = m
        \/ /\ e.how = "grown" /\ e.m \in Memories /\ FlatBytes(e.m) = FlatBytes(m)
           /\ a >= stack_bot(e.m) /\ InStack(e.m, a)
    BY <1>0, <1>5, Grown
  <2> HIDE DEF e, val
  <2>3. CASE e.how = "error"
    BY <2>1, <2>3 DEF Refused
  <2>4. CASE /\ e.how = "grown" /\ e.m \in Memories /\ FlatBytes(e.m) = FlatBytes(m)
             /\ a >= stack_bot(e.m) /\ InStack(e.m, a)
    <3>1. r = Stored(Put(e.m, a, val), a, val) /\ InSegment(e.m, a)
      BY <2>1, <2>4 DEF InSegment
    <3> QED
      BY <1>0, <1>1, <1>5, <2>4, <3>1, PutStored
  <2> QED
    BY <2>2, <2>3, <2>4
<1>6. CASE Whole(a, n) /\ ~InSegment(m, a) /\ ~InText(a) /\ ~Grows(m, a)
  <2>1. \/ r = [m |-> m, out |-> [op |-> "io"]]
        \/ r = Fault(m, "DBE", a)
    BY <1>6 DEF mem_write, Whole
  <2> QED
    BY <2>1 DEF Fault, Refused
<1> QED
  BY <1>2, <1>3, <1>4, <1>5, <1>6

LEMMA ArrowSeq ==
  ASSUME NEW n \in Nat, NEW w \in [1..n -> Nat]
  PROVE  w \in Seq(Nat) /\ Len(w) = n
<1>1. w \in Seq(Nat)
  BY SeqDef
<1>2. Len(w) \in Nat /\ DOMAIN w = 1..Len(w)
  BY <1>1, LenProperties
<1>3. 1..Len(w) = 1..n
  BY <1>2
<1>4. Len(w) = n
  <2> DEFINE k == Len(w)
  <2>1. k \in Nat /\ 1..k = 1..n
    BY <1>2, <1>3
  <2> HIDE DEF k
  <2>2. ~(k < n)
    <3> SUFFICES ASSUME k < n PROVE FALSE
      OBVIOUS
    <3>1. n \in 1..n /\ n \notin 1..k
      BY <2>1
    <3> QED
      BY <2>1, <3>1
  <2>3. ~(n < k)
    <3> SUFFICES ASSUME n < k PROVE FALSE
      OBVIOUS
    <3>1. k \in 1..k /\ k \notin 1..n
      BY <2>1
    <3> QED
      BY <2>1, <3>1
  <2> QED
    BY <2>1, <2>2, <2>3 DEF k
<1> QED
  BY <1>1, <1>4

LEMMA WriteInstResult ==
  ASSUME NEW m \in Memories, NEW a \in Int, NEW w \in [1..WORD -> Nat],
         NEW r, r = mem_write_inst(m, a, w)
  PROVE  StoredRight(m, r) \/ (Refused(m, r) /\ r.out.op # "died")
<1>1. w \in Seq(Nat) /\ Len(w) = WORD /\ WORD \in {1, 2, 4}
  <2>1. WORD \in Nat /\ WORD \in {1, 2, 4}
    BY DEF WORD
  <2> QED
    BY <2>1, ArrowSeq
<1>2. CASE InText(a) /\ a % WORD = 0
  <2>1. r.m = WithText(m, TextWord(a), w) /\ r.out = [op |-> "inst"]
    BY <1>2 DEF mem_write_inst, WithText
  <2>2. TextWord(a) \in 1..TextWords
    BY <1>2, OneArm
  <2>3. r.m \in Memories /\ r.m.data = m.data /\ r.m.stack = m.stack
    BY <2>1, <2>2, NewText
  <2> QED
    BY <2>1, <2>3, FlatSame DEF Refused
<1>3. CASE ~(InText(a) /\ a % WORD = 0)
  <2>1. r = mem_write(m, a, WORD, w)
    BY <1>3 DEF mem_write_inst
  <2>2. WORD <= Len(w)
    BY <1>1 DEF WORD
  <2> QED
    BY <1>1, <2>1, <2>2, WriteResult
<1> QED
  BY <1>2, <1>3

-----------------------------------------------------------------------------
(* The arguments of the program.                                            *)

(* g is what the stores make of st, one after the other. *)
StoreByStore(S, st, stores, g) ==
  /\ g \in [0..Len(stores) -> S]
  /\ g[0] = st /\ Pushed(st, stores) = g[Len(stores)]
  /\ \A i \in 1..Len(stores) :
       g[i] = Push(g[i - 1], stores[i].a, stores[i].n, stores[i].w)

(* Stores one after the other stay in any set that every store stays in. *)
LEMMA PushedSteps ==
  ASSUME NEW S, NEW st \in S, NEW stores, Len(stores) \in Nat,
         \A x \in S, i \in 1..Len(stores) :
            Push(x, stores[i].a, stores[i].n, stores[i].w) \in S
  PROVE  \E g : StoreByStore(S, st, stores, g)
<1> DEFINE n == Len(stores)
           D(x, i) == Push(x, stores[i].a, stores[i].n, stores[i].w)
           P(f) == [i \in 0..n |-> IF i = 0 THEN st ELSE D(f[i - 1], i)]
           F == [i \in Nat |-> [x \in S |-> IF i \in 1..n THEN D(x, i) ELSE x]]
           done == CHOOSE f : f = P(f)
<1>0. n \in Nat /\ \A x \in S, i \in 1..n : D(x, i) \in S
  OBVIOUS
<1>1. Pushed(st, stores) = done[n]
  BY DEF Pushed
<1> HIDE DEF D, n
<1>a. F \in [Nat -> [S -> S]]
  BY <1>0
<1>2. \A i \in 1..n, x \in S : F[i][x] = D(x, i)
  BY <1>0
<1> HIDE DEF F
<1>b. PICK g : Runs(S, F, st, n, g)
  BY <1>0, <1>a, Iterates
<1>3. g \in [0..n -> S] /\ g[0] = st /\ \A i \in 1..n : g[i] = F[i][g[i - 1]]
  BY <1>b DEF Runs
<1>4. ASSUME NEW i \in 1..n PROVE g[i] = D(g[i - 1], i)
  <2>1. i - 1 \in 0..n
    BY <1>0
  <2>2. g[i - 1] \in S
    BY <1>3, <2>1
  <2> QED
    BY <1>2, <1>3, <2>2
<1>5. g = P(g)
  BY <1>0, <1>3, <1>4
<1>6. done = P(done)
  <2> HIDE DEF P
  <2> QED
    BY <1>5
<1> HIDE DEF done
<1>7. done[0] = st /\ \A i \in 1..n : done[i] = D(done[i - 1], i)
  BY <1>0, <1>6
<1> DEFINE A == {i \in 0..n : done[i] \in S}
<1>8. \A i \in 0..n : i \in A
  <2>1. 0 \in A
    BY <1>0, <1>7
  <2>2. ASSUME NEW i \in 1..n, i - 1 \in A PROVE i \in A
    BY <1>0, <1>7, <2>2
  <2> HIDE DEF A
  <2> QED
    BY <1>0, <2>1, <2>2, BoundedInduction
<1>9. done \in [0..n -> S]
  <2>1. \A i \in 0..n : done[i] \in S
    BY <1>8
  <2>2. done = [i \in 0..n |-> done[i]]
    BY <1>6
  <2> QED
    BY <2>1, <2>2
<1> QED
  <2>1. StoreByStore(S, st, stores, done)
    BY <1>1, <1>7, <1>9 DEF D, n, StoreByStore
  <2> QED
    BY <2>1

(* Only an address of a segment takes a store. *)
LEMMA StoreAddress ==
  ASSUME NEW m \in Memories, NEW a \in Int, NEW n \in {1, 2, 4}, NEW w,
         mem_write(m, a, n, w).out.op = "store"
  PROVE  a \in Nat
<1> DEFINE r == mem_write(m, a, n, w)
<1>0. data_top(m) \in Nat
  BY Tops
<1>1. CASE ~Whole(a, n)
  <2>1. r = Fault(m, "AdES", a)
    BY <1>1 DEF mem_write, Whole
  <2> QED
    BY <2>1 DEF Fault
<1>2. CASE InSegment(m, a)
  BY <1>2, OneSegment
<1>3. CASE Whole(a, n) /\ InText(a)
  <2>1. r.out = [op |-> "inst"]
    BY <1>3, OneArm DEF mem_write, Whole
  <2> QED
    BY <2>1
<1>4. CASE Grows(m, a)
  BY <1>0, <1>4 DEF Grows
<1>5. CASE Whole(a, n) /\ ~InSegment(m, a) /\ ~InText(a) /\ ~Grows(m, a)
  <2>1. r = [m |-> m, out |-> [op |-> "io"]] \/ r = Fault(m, "DBE", a)
    BY <1>5 DEF mem_write, Whole
  <2> QED
    BY <2>1 DEF Fault
<1> QED
  BY <1>1, <1>2, <1>3, <1>4, <1>5

(* The states of the stack being filled, and those with a given pointer and *)
(* addresses.                                                               *)
Held(sp, at) == [m : Memories, sp : {sp}, at : {at}, ok : BOOLEAN]

Filled == {x \in [m : Memories, sp : Int, at : Seq(Int), ok : BOOLEAN] :
             x.ok => x.at \in Seq(Nat)}

Storable(n, w) ==
  n \in {1, 2, 4} /\ w \in Seq(Nat) /\ n <= Len(w) /\ (n = WORD => w \in [1..WORD -> Nat])

LEMMA PushHeld ==
  ASSUME NEW sp, NEW at, NEW x \in Held(sp, at), NEW a \in Int, NEW n, NEW w,
         Storable(n, w), NEW y, y = Push(x, a, n, w)
  PROVE  y \in Held(sp, at) /\ (y.ok => a \in Nat /\ x.ok)
<1>1. x.m \in Memories /\ x.ok \in BOOLEAN
  BY DEF Held
<1> DEFINE r == mem_write(x.m, a, n, w)
<1>2. r.m \in Memories
  <2>1. StoredRight(x.m, r) \/ Refused(x.m, r)
    BY <1>1, WriteResult DEF Storable
  <2> QED
    BY <2>1 DEF StoredRight, Refused
<1>3. r.out.op = "store" => a \in Nat
  BY <1>1, StoreAddress DEF Storable
<1>4. y = IF x.ok THEN [x EXCEPT !.m = r.m, !.ok = r.out.op = "store"] ELSE x
  BY DEF Push
<1> HIDE DEF r
<1>5. CASE ~x.ok
  BY <1>4, <1>5
<1>6. CASE x.ok
  <2>1. y = [x EXCEPT !.m = r.m, !.ok = r.out.op = "store"]
    BY <1>4, <1>6
  <2> QED
    BY <2>1, <1>2, <1>3, <1>6 DEF Held
<1> QED
  BY <1>1, <1>5, <1>6

LEMMA PushedHeld ==
  ASSUME NEW sp, NEW at, NEW st \in Held(sp, at), NEW stores, Len(stores) \in Nat \ {0},
         \A i \in 1..Len(stores) :
            stores[i].a \in Int /\ Storable(stores[i].n, stores[i].w)
  PROVE  /\ Pushed(st, stores) \in Held(sp, at)
         /\ Pushed(st, stores).ok => stores[Len(stores)].a \in Nat /\ st.ok
<1> DEFINE S == Held(sp, at)
           n == Len(stores)
<1>1. \A x \in S, i \in 1..n :
         LET y == Push(x, stores[i].a, stores[i].n, stores[i].w) IN
         y \in S /\ (y.ok => stores[i].a \in Nat /\ x.ok)
  BY PushHeld
<1>2. st \in S /\ n \in Nat \ {0}
  OBVIOUS
<1> HIDE DEF S
<1>a. PICK g : StoreByStore(S, st, stores, g)
  <2>1. /\ Len(stores) \in Nat
        /\ \A x \in S, i \in 1..Len(stores) :
              Push(x, stores[i].a, stores[i].n, stores[i].w) \in S
    BY <1>1, <1>2
  <2> QED
    BY <2>1, <1>2, PushedSteps
<1>3. /\ g \in [0..n -> S] /\ g[0] = st /\ Pushed(st, stores) = g[n]
      /\ \A i \in 1..n : g[i] = Push(g[i - 1], stores[i].a, stores[i].n, stores[i].w)
  BY <1>a DEF StoreByStore
<1> HIDE DEF n
<1>4. ASSUME NEW i \in 1..n
      PROVE  g[i].ok => stores[i].a \in Nat /\ g[i - 1].ok
  <2>1. g[i - 1] \in S
    BY <1>2, <1>3
  <2> QED
    BY <1>1, <1>3, <2>1
<1> DEFINE A == {i \in 0..n : g[i].ok => st.ok}
<1>5. \A i \in 0..n : i \in A
  <2>1. 0 \in A
    BY <1>2, <1>3
  <2>2. ASSUME NEW i \in 1..n, i - 1 \in A PROVE i \in A
    <3>1. i \in 0..n
      BY <1>2
    <3> QED
      BY <1>4, <2>2, <3>1
  <2> HIDE DEF A
  <2> QED
    BY <1>2, <2>1, <2>2, BoundedInduction
<1>6. n \in 1..n /\ n \in 0..n
  BY <1>2
<1>7. g[n] \in S /\ (g[n].ok => stores[n].a \in Nat /\ st.ok)
  BY <1>3, <1>4, <1>5, <1>6
<1> QED
  BY <1>3, <1>7 DEF S, n

(* After a failure nothing more is stored. *)
LEMMA PushedFailed ==
  ASSUME NEW st, ~st.ok, NEW stores, Len(stores) \in Nat
  PROVE  Pushed(st, stores) = st
<1> DEFINE S == {st}
<1>1. \A x \in S, i \in 1..Len(stores) :
         Push(x, stores[i].a, stores[i].n, stores[i].w) \in S
  BY DEF Push
<1>2. st \in S
  OBVIOUS
<1>3. PICK g : StoreByStore(S, st, stores, g)
  <2> HIDE DEF S
  <2> QED
    BY <1>1, <1>2, PushedSteps
<1> QED
  BY <1>3 DEF StoreByStore

LEMMA StringCopied ==
  ASSUME NEW x \in Filled, NEW s \in Seq(Nat), NEW y, y = copy_str_to_stack(x, s)
  PROVE  y \in Filled /\ Len(y.at) = Len(x.at) + 1 /\ (y.ok => x.ok)
<1> DEFINE n == Len(s) + 1
           c(i) == IF i = 1 THEN 0 ELSE s[n - i + 1]
           stores == [i \in 1..n |-> [a |-> x.sp - (i - 1), n |-> 1, w |-> <<c(i)>>]]
           p == Pushed(x, stores)
           low == x.sp - n + 1
<1>1. /\ x.m \in Memories /\ x.sp \in Int /\ x.at \in Seq(Int) /\ x.ok \in BOOLEAN
      /\ x.ok => x.at \in Seq(Nat)
      /\ x = [m |-> x.m, sp |-> x.sp, at |-> x.at, ok |-> x.ok]
  BY DEF Filled
<1>2. x \in Held(x.sp, x.at)
  BY <1>1 DEF Held
<1>3. Len(s) \in Nat /\ Len(x.at) \in Nat
  BY <1>1, LenProperties
<1>4. Len(stores) = n /\ n \in Nat \ {0}
  BY <1>3
<1>5. ASSUME NEW i \in 1..n PROVE c(i) \in Nat
  <2>1. CASE i = 1
    BY <2>1
  <2>2. CASE i # 1
    <3>1. n - i + 1 \in 1..Len(s)
      BY <1>3, <2>2
    <3>2. s[n - i + 1] \in Nat
      BY <3>1, ElementOfSeq
    <3> QED
      BY <2>2, <3>2
  <2> QED
    BY <2>1, <2>2
<1>6. \A i \in 1..n : stores[i].a \in Int /\ Storable(stores[i].n, stores[i].w)
  <2> SUFFICES ASSUME NEW i \in 1..n
               PROVE  stores[i].a \in Int /\ Storable(stores[i].n, stores[i].w)
    OBVIOUS
  <2>1. stores[i].a = x.sp - (i - 1) /\ stores[i].n = 1 /\ stores[i].w = <<c(i)>>
    OBVIOUS
  <2>2. c(i) \in Nat
    BY <1>5
  <2> HIDE DEF c, stores
  <2>3. <<c(i)>> \in Seq(Nat) /\ Len(<<c(i)>>) = 1
    BY <2>2
  <2> QED
    BY <1>1, <1>3, <2>1, <2>3 DEF Storable, WORD
<1>7. stores[n].a = low
  BY <1>1, <1>3
<1>8. y = [p EXCEPT !.sp = @ - n, !.at = <<low>> \o @]
  BY DEF copy_str_to_stack
<1>9. p \in Held(x.sp, x.at) /\ (p.ok => low \in Nat /\ x.ok)
  <2> HIDE DEF stores, n, low
  <2> QED
    BY <1>2, <1>4, <1>6, <1>7, PushedHeld
<1>10. low \in Int /\ x.sp - n \in Int
  BY <1>1, <1>3
<1> HIDE DEF p, low, n
<1>11. y = [m |-> p.m, sp |-> x.sp - n, at |-> <<low>> \o x.at, ok |-> p.ok]
  BY <1>8, <1>9 DEF Held
<1>12. p.m \in Memories /\ p.ok \in BOOLEAN
  BY <1>9 DEF Held
<1>13. <<low>> \o x.at \in Seq(Int) /\ Len(<<low>> \o x.at) = Len(x.at) + 1
  BY <1>1, <1>3, <1>10
<1>14. p.ok => <<low>> \o x.at \in Seq(Nat)
  BY <1>1, <1>9
<1> DEFINE at == <<low>> \o x.at
<1>15. /\ at \in Seq(Int) /\ Len(at) = Len(x.at) + 1 /\ (p.ok => at \in Seq(Nat))
       /\ y = [m |-> p.m, sp |-> x.sp - n, at |-> at, ok |-> p.ok]
  BY <1>11, <1>13, <1>14
<1> HIDE DEF at
<1> QED
  BY <1>9, <1>10, <1>12, <1>15 DEF Filled

(* copy_strs_to_stack, string by string. *)
LEMMA StringByString ==
  ASSUME NEW x \in Filled, NEW strs \in Seq(Seq(Nat)), NEW y, y = copy_strs_to_stack(x, strs)
  PROVE  \E g \in [0..Len(strs) -> Filled] :
           /\ g[0] = x /\ y = g[Len(strs)]
           /\ \A i \in 1..Len(strs) : g[i] = copy_str_to_stack(g[i - 1], strs[i])
<1> DEFINE n == Len(strs)
           D(z, i) == copy_str_to_stack(z, strs[i])
           P(f) == [i \in 0..n |-> IF i = 0 THEN x ELSE D(f[i - 1], i)]
           F == [i \in Nat |-> [z \in Filled |-> IF i \in 1..n THEN D(z, i) ELSE z]]
           done == CHOOSE f : f = P(f)
<1>0. n \in Nat
  BY LenProperties
<1>1. \A z \in Filled, i \in 1..n : D(z, i) \in Filled
  <2>1. \A i \in 1..n : strs[i] \in Seq(Nat)
    BY ElementOfSeq
  <2> QED
    BY <2>1, StringCopied
<1>2. y = done[n]
  BY DEF copy_strs_to_stack
<1> HIDE DEF D, n
<1>3. F \in [Nat -> [Filled -> Filled]]
  BY <1>0, <1>1
<1>4. \A i \in 1..n, z \in Filled : F[i][z] = D(z, i)
  BY <1>0, <1>1
<1> HIDE DEF F
<1>5. PICK g : Runs(Filled, F, x, n, g)
  BY <1>0, <1>3, Iterates
<1>6. g \in [0..n -> Filled] /\ g[0] = x /\ \A i \in 1..n : g[i] = F[i][g[i - 1]]
  BY <1>5 DEF Runs
<1>7. ASSUME NEW i \in 1..n PROVE g[i] = D(g[i - 1], i)
  <2>1. i - 1 \in 0..n
    BY <1>0
  <2>2. g[i - 1] \in Filled
    BY <1>6, <2>1
  <2> QED
    BY <1>4, <1>6, <2>2
<1>8. g = P(g)
  BY <1>0, <1>6, <1>7
<1>9. done = P(done)
  <2> HIDE DEF P
  <2> QED
    BY <1>8
<1> HIDE DEF done
<1>10. done[0] = x /\ \A i \in 1..n : done[i] = D(done[i - 1], i)
  BY <1>0, <1>9
<1> DEFINE A == {i \in 0..n : done[i] \in Filled}
<1>11. \A i \in 0..n : i \in A
  <2>1. 0 \in A
    BY <1>0, <1>10
  <2>2. ASSUME NEW i \in 1..n, i - 1 \in A PROVE i \in A
    BY <1>0, <1>1, <1>10, <2>2
  <2> HIDE DEF A
  <2> QED
    BY <1>0, <2>1, <2>2, BoundedInduction
<1>12. done \in [0..n -> Filled]
  <2>1. \A i \in 0..n : done[i] \in Filled
    BY <1>11
  <2>2. done = [i \in 0..n |-> done[i]]
    BY <1>9
  <2> QED
    BY <2>1, <2>2
<1> QED
  BY <1>2, <1>10, <1>12 DEF n, D

LEMMA StringsCopied ==
  ASSUME NEW x \in Filled, x.at = <<>>, NEW strs \in Seq(Seq(Nat)),
         NEW y, y = copy_strs_to_stack(x, strs)
  PROVE  y \in Filled /\ Len(y.at) = Len(strs)
<1> DEFINE n == Len(strs)
<1>0. n \in Nat /\ \A i \in 1..n : strs[i] \in Seq(Nat)
  BY LenProperties, ElementOfSeq
<1>1. PICK g \in [0..n -> Filled] :
         /\ g[0] = x /\ y = g[n]
         /\ \A i \in 1..n : g[i] = copy_str_to_stack(g[i - 1], strs[i])
  BY StringByString
<1> HIDE DEF n
<1> DEFINE A == {i \in 0..n : Len(g[i].at) = i}
<1>2. \A i \in 0..n : i \in A
  <2>1. 0 \in A
    BY <1>0, <1>1
  <2>2. ASSUME NEW i \in 1..n, i - 1 \in A PROVE i \in A
    <3>1. i - 1 \in 0..n /\ i \in 0..n
      BY <1>0
    <3>2. Len(g[i].at) = Len(g[i - 1].at) + 1
      <4>1. /\ g[i - 1] \in Filled /\ strs[i] \in Seq(Nat)
            /\ g[i] = copy_str_to_stack(g[i - 1], strs[i])
        BY <1>0, <1>1, <3>1
      <4> QED
        BY <4>1, StringCopied
    <3> QED
      BY <2>2, <3>1, <3>2
  <2> HIDE DEF A
  <2> QED
    BY <1>0, <2>1, <2>2, BoundedInduction
<1>3. n \in 0..n
  BY <1>0
<1> QED
  BY <1>1, <1>2, <1>3 DEF n

LEMMA VectorCopied ==
  ASSUME NEW x \in Filled, NEW ints, Len(ints) \in Nat, x.ok => ints \in Seq(Nat),
         NEW y, y = copy_ints_to_stack(x, ints)
  PROVE  y \in Filled /\ y.at = x.at /\ (y.ok => x.ok)
<1> DEFINE n == Len(ints) + 1
           c(i) == IF i = 1 THEN 0 ELSE ints[i - 1]
           stores == [i \in 1..n |-> [a |-> x.sp - WORD * (i - 1), n |-> WORD,
                                      w |-> WordOf(c(i))]]
           p == Pushed(x, stores)
<1>1. /\ x.m \in Memories /\ x.sp \in Int /\ x.at \in Seq(Int) /\ x.ok \in BOOLEAN
      /\ x.ok => x.at \in Seq(Nat)
      /\ x = [m |-> x.m, sp |-> x.sp, at |-> x.at, ok |-> x.ok]
  BY DEF Filled
<1>2. x \in Held(x.sp, x.at)
  BY <1>1 DEF Held
<1>3. Len(stores) = n /\ n \in Nat \ {0}
  OBVIOUS
<1>4. y = [p EXCEPT !.sp = @ - WORD * n]
  BY DEF copy_ints_to_stack
<1>5. x.sp - WORD * n \in Int
  BY <1>1, <1>3 DEF WORD
<1>6. p \in Held(x.sp, x.at) /\ (p.ok => x.ok)
  <2>1. CASE ~x.ok
    <3>1. p = x
      BY <2>1, <1>3, PushedFailed
    <3> QED
      BY <3>1, <2>1, <1>2
  <2>2. CASE x.ok
    <3>1. ASSUME NEW i \in 1..n PROVE c(i) \in Nat
      <4>1. CASE i = 1
        BY <4>1
      <4>2. CASE i # 1
        <5>1. i - 1 \in 1..Len(ints)
          BY <4>2
        <5>2. ints[i - 1] \in Nat
          BY <2>2, <5>1, ElementOfSeq
        <5> QED
          BY <4>2, <5>2
      <4> QED
        BY <4>1, <4>2
    <3>2. \A i \in 1..n : stores[i].a \in Int /\ Storable(stores[i].n, stores[i].w)
      <4> SUFFICES ASSUME NEW i \in 1..n
                   PROVE  stores[i].a \in Int /\ Storable(stores[i].n, stores[i].w)
        OBVIOUS
      <4>1. /\ stores[i].a = x.sp - WORD * (i - 1) /\ stores[i].n = WORD
            /\ stores[i].w = WordOf(c(i))
        OBVIOUS
      <4>2. c(i) \in Nat
        BY <3>1
      <4> HIDE DEF c, stores
      <4>3. WordOf(c(i)) \in [1..WORD -> Nat]
        BY <4>2 DEF WordOf, WORD
      <4>4. WORD \in Nat /\ WORD \in {1, 2, 4}
        BY DEF WORD
      <4>5. WordOf(c(i)) \in Seq(Nat) /\ Len(WordOf(c(i))) = WORD
        BY <4>3, <4>4, ArrowSeq
      <4>6. x.sp - WORD * (i - 1) \in Int
        BY <1>1, <1>3 DEF WORD
      <4> QED
        BY <4>1, <4>3, <4>4, <4>5, <4>6 DEF Storable
    <3> HIDE DEF stores, n
    <3> QED
      BY <1>2, <1>3, <3>2, PushedHeld
  <2> QED
    BY <1>1, <2>1, <2>2
<1> HIDE DEF p, n
<1>7. p.m \in Memories /\ p.ok \in BOOLEAN
  BY <1>6 DEF Held
<1>8. y = [m |-> p.m, sp |-> x.sp - WORD * n, at |-> x.at, ok |-> p.ok]
  BY <1>4, <1>6 DEF Held
<1> QED
  BY <1>1, <1>5, <1>6, <1>7, <1>8 DEF Filled

LEMMA PointerMoved ==
  ASSUME NEW x \in Filled, NEW sp \in Int
  PROVE  [x EXCEPT !.sp = sp] \in Filled /\ [x EXCEPT !.sp = sp].ok = x.ok
  BY DEF Filled

(* Either the arguments are on the stack, or the program has died. *)
LEMMA ArgumentsResult ==
  ASSUME NEW m \in Memories, NEW v, v.argv \in Seq(Seq(Nat)), v.env \in Seq(Seq(Nat)),
         NEW r, r = initialize_run_stack(m, v)
  PROVE  /\ r.m \in Memories
         /\ r.out.op = "args" \/ (r.out.op = "died" /\ r.m = m)
<1> DEFINE st == [m |-> m, sp |-> STACK_TOP - 1, at |-> <<>>, ok |-> TRUE]
           all == v.env \o v.argv
           strs == copy_strs_to_stack(st, all)
           argc == Len(v.argv)
           sp0 == ((((strs.sp \div 4) * 4) - WORD) \div 8) * 8
           s0 == [strs EXCEPT !.sp = sp0]
           ae == SubSeq(strs.at, argc + 1, Len(strs.at))
           aa == SubSeq(strs.at, 1, argc)
           env == Vector(s0, ae)
           vec == Vector(env, aa)
           last == Push(vec, vec.sp, WORD, WordOf(argc))
<1>1. r = IF last.ok
          THEN [m |-> last.m,
                out |-> [op |-> "args", sp |-> vec.sp, a1 |-> vec.sp + WORD,
                         a2 |-> env.sp + WORD, v |-> v]]
          ELSE [m |-> m, out |-> [op |-> "died"]]
  BY DEF initialize_run_stack
<1>2. /\ argc \in Nat /\ all \in Seq(Seq(Nat)) /\ Len(v.env) \in Nat
      /\ Len(all) = Len(v.env) + argc
  BY LenProperties, ConcatProperties
<1>3. st \in Filled /\ st.at = <<>>
  <2>1. STACK_TOP - 1 \in Int
    BY Layout
  <2>2. <<>> \in Seq(Int) /\ <<>> \in Seq(Nat)
    OBVIOUS
  <2> DEFINE e == <<>>
  <2>3. e \in Seq(Int) /\ e \in Seq(Nat) /\ st.at = e
    BY <2>2
  <2>4. st = [m |-> m, sp |-> STACK_TOP - 1, at |-> e, ok |-> TRUE]
    OBVIOUS
  <2> HIDE DEF e, st
  <2>5. st \in Filled
    BY <2>1, <2>3, <2>4 DEF Filled
  <2> QED
    BY <2>3, <2>5 DEF e
<1> HIDE DEF st, all, argc
<1>4. strs \in Filled /\ Len(strs.at) = Len(all)
  BY <1>2, <1>3, StringsCopied
<1> HIDE DEF strs
<1>5. /\ strs.m \in Memories /\ strs.sp \in Int /\ strs.at \in Seq(Int)
      /\ strs.ok \in BOOLEAN /\ (strs.ok => strs.at \in Seq(Nat))
      /\ strs = [m |-> strs.m, sp |-> strs.sp, at |-> strs.at, ok |-> strs.ok]
  BY <1>4 DEF Filled
<1>6. sp0 \in Int
  BY <1>5 DEF WORD
<1> HIDE DEF sp0
<1>7. s0 \in Filled /\ s0.ok = strs.ok
  BY <1>4, <1>6, PointerMoved
<1> HIDE DEF s0
<1>9. /\ Len(ae) \in Nat /\ Len(aa) \in Nat
      /\ strs.ok => ae \in Seq(Nat) /\ aa \in Seq(Nat)
  <2>1. argc <= Len(strs.at) /\ Len(strs.at) \in Nat /\ argc + 1 \in Nat
    BY <1>2, <1>4
  <2>2. ae \in Seq(Int) /\ aa \in Seq(Int)
    BY <1>2, <1>5, <2>1, SubSeqProperties
  <2>3. ASSUME strs.ok PROVE ae \in Seq(Nat) /\ aa \in Seq(Nat)
    BY <1>2, <1>5, <2>1, <2>3, SubSeqProperties
  <2> QED
    BY <2>2, <2>3, LenProperties
<1> HIDE DEF ae, aa
<1>10. env \in Filled /\ (env.ok => strs.ok)
  BY <1>7, <1>9, VectorCopied DEF Vector
<1> HIDE DEF env
<1>11. vec \in Filled /\ (vec.ok => env.ok)
  BY <1>9, <1>10, VectorCopied DEF Vector
<1> HIDE DEF vec
<1>12. last.m \in Memories
  <2>1. vec \in Held(vec.sp, vec.at) /\ vec.sp \in Int
    BY <1>11 DEF Filled, Held
  <2>2. WordOf(argc) \in [1..WORD -> Nat]
    BY <1>2 DEF WordOf, WORD
  <2>3. WORD \in Nat /\ WORD \in {1, 2, 4}
    BY DEF WORD
  <2>4. WordOf(argc) \in Seq(Nat) /\ Len(WordOf(argc)) = WORD
    BY <2>2, <2>3, ArrowSeq
  <2>5. Storable(WORD, WordOf(argc))
    BY <2>2, <2>3, <2>4 DEF Storable
  <2>6. last \in Held(vec.sp, vec.at)
    BY <2>1, <2>5, PushHeld
  <2> QED
    BY <2>6 DEF Held
<1> HIDE DEF last
<1>13. CASE last.ok
  BY <1>1, <1>12, <1>13
<1>14. CASE ~last.ok
  BY <1>1, <1>14
<1> QED
  BY <1>13, <1>14

-----------------------------------------------------------------------------
(* Steps.                                                                   *)

(* What a program sees of an operation on its memory. *)
Seen(m, r) ==
  \/ LoadedRight(m, r) \/ StoredRight(m, r) \/ Refused(m, r)
  \/ r.out.op = "pointer" /\ r.m = m
  \/ r.out.op = "args" /\ r.m \in Memories

StepRight ==
  /\ MemInv' /\ GrowthReaches' /\ SbrkStep /\ DatumStep
  /\ Flat!Next

LEMMA FreshMemory == make_memory \in Memories /\ FlatBytes(make_memory) = [a \in Region |-> 0]
<1>1. /\ DataSize \in Nat /\ StackSize \in Nat /\ KDataSize \in Nat
      /\ DataSize % 4 = 0 /\ StackSize % 4 = 0 /\ KDataSize % 4 = 0
      /\ DataSize <= DataLimit /\ StackSize <= StackLimit /\ KDataSize <= KDataLimit
      /\ DATA_BOT \in Nat /\ STACK_TOP \in Nat /\ TextWords \in Nat
  BY Layout
<1> DEFINE d == Zeros(DataSize)
           s == Zeros(StackSize)
           k == Zeros(KDataSize)
           t == [i \in 1..TextWords |-> Null]
<1>2. /\ d \in Seq(Nat) /\ Len(d) = DataSize /\ \A i \in 1..DataSize : d[i] = 0
      /\ s \in Seq(Nat) /\ Len(s) = StackSize /\ \A i \in 1..StackSize : s[i] = 0
      /\ k \in Seq(Nat) /\ Len(k) = KDataSize
  BY <1>1, ZerosSeq
<1>3. t \in [1..TextWords -> {Null} \cup [1..WORD -> Nat]]
  OBVIOUS
<1>4. make_memory = [text |-> t, data |-> d, stack |-> s, kdata |-> k]
  BY DEF make_memory
<1> HIDE DEF d, s, k, t
<1>5. make_memory \in Records
  BY <1>2, <1>3, <1>4 DEF Records
<1>6. make_memory.data = d /\ make_memory.stack = s /\ make_memory.kdata = k
  BY <1>4
<1>7. make_memory \in Memories
  BY <1>1, <1>2, <1>5, <1>6 DEF Memories, Records, WORD
<1>8. ASSUME NEW a \in Region PROVE FlatBytes(make_memory)[a] = 0
  <2>1. a \in Int /\ a >= DATA_BOT /\ a < STACK_TOP
    BY <1>1 DEF Region
  <2>2. /\ data_top(make_memory) = DATA_BOT + DataSize
        /\ stack_bot(make_memory) = STACK_TOP - StackSize
    BY <1>2, <1>6 DEF data_top, stack_bot
  <2>3. CASE a < data_top(make_memory)
    <3>1. a - DATA_BOT + 1 \in 1..DataSize
      BY <1>1, <2>1, <2>2, <2>3
    <3> QED
      BY <1>2, <1>6, <2>3, <3>1 DEF FlatBytes
  <2>4. CASE ~(a < data_top(make_memory)) /\ a >= stack_bot(make_memory)
    <3>1. a - stack_bot(make_memory) + 1 \in 1..StackSize
      BY <1>1, <2>1, <2>2, <2>4
    <3> QED
      BY <1>2, <1>6, <2>4, <3>1 DEF FlatBytes
  <2>5. CASE ~(a < data_top(make_memory)) /\ ~(a >= stack_bot(make_memory))
    BY <2>5 DEF FlatBytes
  <2> QED
    BY <2>3, <2>4, <2>5
<1> QED
  BY <1>7, <1>8 DEF FlatBytes

LEMMA InitRight == Init => MemInv /\ GrowthReaches /\ Flat!Init
<1> SUFFICES ASSUME Init PROVE MemInv /\ GrowthReaches /\ Flat!Init
  OBVIOUS
<1>1. /\ DATA_BOT \in Nat /\ K_DATA_BOT \in Nat /\ MaxOps \in Nat
  BY Layout
<1>2. /\ mem \in Memories /\ FlatBytes(mem) = [a \in Region |-> 0]
      /\ dpc = [data |-> DATA_BOT, kdata |-> K_DATA_BOT]
      /\ out.op = "reset" /\ ops = 0
  BY FreshMemory DEF Init
<1>3. MemInv
  BY <1>1, <1>2 DEF MemInv, TypeOK, CountersBounded, WORD
<1>4. Flat!Init
  BY <1>2 DEF Flat!Init, Flat!Zeroed
<1> QED
  BY <1>2, <1>3, <1>4 DEF GrowthReaches

LEMMA DoesRight ==
  ASSUME MemInv, ops < MaxOps, NEW r, Does(r), Seen(mem, r)
  PROVE  StepRight
<1>1. mem \in Memories /\ mem' = r.m /\ out' = r.out /\ ops' = ops + 1 /\ dpc' = dpc
  BY DEF MemInv, TypeOK, Does
<1>2. /\ DATA_BOT \in Nat /\ K_DATA_BOT \in Nat /\ MaxOps \in Nat
      /\ ops \in 0..MaxOps /\ dpc \in [data : Nat, kdata : Nat]
      /\ dpc.data \in DATA_BOT..(DATA_BOT + 4 * ops)
      /\ dpc.kdata \in K_DATA_BOT..(K_DATA_BOT + 4 * ops)
  BY Layout DEF MemInv, TypeOK, CountersBounded, WORD
<1>3. mem' \in Memories
  BY <1>1 DEF Seen, LoadedRight, StoredRight, Refused
<1>4. MemInv'
  <2>1. ops' \in 0..MaxOps
    BY <1>1, <1>2
  <2>2. /\ dpc'.data \in DATA_BOT..(DATA_BOT + 4 * ops')
        /\ dpc'.kdata \in K_DATA_BOT..(K_DATA_BOT + 4 * ops')
    BY <1>1, <1>2
  <2> QED
    BY <1>1, <1>2, <1>3, <2>1, <2>2 DEF MemInv, TypeOK, CountersBounded, WORD
<1>5. GrowthReaches' /\ SbrkStep /\ DatumStep
  BY <1>1 DEF Seen, LoadedRight, StoredRight, Refused, GrowthReaches, SbrkStep, DatumStep
<1>6. Flat!Next
  <2>1. CASE LoadedRight(mem, r)
    BY <1>1, <2>1 DEF LoadedRight, Flat!Next, Flat!Load
  <2>2. CASE StoredRight(mem, r)
    BY <1>1, <2>2 DEF StoredRight, Written, Flat!Next, Flat!Store
  <2>3. CASE Refused(mem, r)
    BY <1>1, <2>3 DEF Refused, Flat!Next, Flat!Other
  <2>4. CASE r.out.op = "pointer" /\ r.m = mem
    BY <1>1, <2>4 DEF Flat!Next, Flat!Other
  <2>5. CASE r.out.op = "args"
    BY <1>1, <2>5 DEF Flat!Next, Flat!Arguments
  <2> QED
    BY <2>1, <2>2, <2>3, <2>4, <2>5 DEF Seen
<1> QED
  BY <1>4, <1>5, <1>6 DEF StepRight

LEMMA SbrkRight == MemInv /\ Sbrk => StepRight
<1> SUFFICES ASSUME MemInv, Sbrk PROVE StepRight
  OBVIOUS
<1>1. PICK n \in Amounts :
        LET e == expand_data(mem, n) IN
        Does([m |-> e.m, out |-> IF e.how = "grown"
                                 THEN [op |-> "sbrk", a |-> data_top(mem), n |-> n]
                                 ELSE [op |-> e.how]])
  BY DEF Sbrk
<1> DEFINE e == expand_data(mem, n)
           o == IF e.how = "grown" THEN [op |-> "sbrk", a |-> data_top(mem), n |-> n]
                ELSE [op |-> e.how]
           r == [m |-> e.m, out |-> o]
<1>2. Does(r)
  BY <1>1
<1>3. n \in -(IntMax + 1)..IntMax /\ IntMax \in Nat
  BY MemoryAssumption
<1>4. mem \in Memories /\ ops < MaxOps
  BY DEF MemInv, TypeOK, Sbrk, Ready
<1>5. \/ e.how \in {"error", "died"} /\ e.m = mem
      \/ /\ e.how = "grown" /\ e.m \in Memories
         /\ data_top(e.m) >= data_top(mem) + n
         /\ FlatBytes(e.m) = FlatBytes(mem)
  BY <1>3, <1>4, ExpandData
<1> HIDE DEF e
<1>6. CASE e.how \in {"error", "died"} /\ e.m = mem
  <2>1. r.m = mem /\ r.out.op = e.how
    BY <1>6
  <2>2. Seen(mem, r)
    BY <1>4, <1>6, <2>1 DEF Seen, Refused
  <2> HIDE DEF r
  <2> QED
    BY <1>2, <1>4, <2>2, DoesRight
<1>7. CASE /\ e.how = "grown" /\ e.m \in Memories
           /\ data_top(e.m) >= data_top(mem) + n
           /\ FlatBytes(e.m) = FlatBytes(mem)
  <2>1. /\ mem' = e.m /\ out' = [op |-> "sbrk", a |-> data_top(mem), n |-> n]
        /\ ops' = ops + 1 /\ dpc' = dpc
    BY <1>2, <1>7 DEF Does
  <2>2. /\ DATA_BOT \in Nat /\ K_DATA_BOT \in Nat /\ MaxOps \in Nat
        /\ ops \in 0..MaxOps /\ dpc \in [data : Nat, kdata : Nat]
        /\ dpc.data \in DATA_BOT..(DATA_BOT + 4 * ops)
        /\ dpc.kdata \in K_DATA_BOT..(K_DATA_BOT + 4 * ops)
    BY Layout DEF MemInv, TypeOK, CountersBounded, WORD
  <2>3. MemInv'
    <3>1. ops' \in 0..MaxOps
      BY <1>4, <2>1, <2>2
    <3>2. /\ dpc'.data \in DATA_BOT..(DATA_BOT + 4 * ops')
          /\ dpc'.kdata \in K_DATA_BOT..(K_DATA_BOT + 4 * ops')
      BY <2>1, <2>2
    <3> QED
      BY <1>7, <2>1, <2>2, <3>1, <3>2 DEF MemInv, TypeOK, CountersBounded, WORD
  <2>4. SbrkStep
    <3>1. data_top(mem) \in Nat /\ data_top(mem) % 4 = 0 /\ data_top(mem') \in Nat
      BY <1>4, <1>7, <2>1, Tops
    <3>2. data_top(mem) + n <= data_top(mem')
      BY <1>3, <1>7, <2>1, <3>1
    <3> QED
      BY <2>1, <3>1, <3>2 DEF SbrkStep, WORD
  <2>5. GrowthReaches' /\ DatumStep
    BY <2>1 DEF GrowthReaches, DatumStep
  <2>6. Flat!Next
    BY <1>7, <2>1 DEF Flat!Next, Flat!Other
  <2> QED
    BY <2>3, <2>4, <2>5, <2>6 DEF StepRight
<1> QED
  BY <1>5, <1>6, <1>7

(* The assembler's counter of data, or of the kernel's data, moves on. *)
LEMMA GrowthRight ==
  ASSUME MemInv, ops < MaxOps, NEW kernel \in BOOLEAN, NEW pc \in Int,
         pc >= (IF kernel THEN K_DATA_BOT ELSE DATA_BOT),
         pc <= (IF kernel THEN K_DATA_BOT ELSE DATA_BOT) + 4 * MaxOps,
         NEW e \in Growth(kernel, pc)
  PROVE  \/ e.how \in {"error", "died"} /\ e.m = mem
         \/ /\ e.how = "grown" /\ e.m \in Memories /\ FlatBytes(e.m) = FlatBytes(mem)
            /\ pc < (IF kernel THEN k_data_top(e.m) ELSE data_top(e.m))
<1>1. /\ DATA_BOT \in Nat /\ K_DATA_BOT \in Nat /\ MaxOps \in Nat /\ IntMax \in Nat
      /\ Chunk \in Nat \ {0} /\ 4 * MaxOps + Chunk + 4 <= IntMax
  BY Layout
<1>2. mem \in Memories
  BY DEF MemInv, TypeOK
<1>3. /\ data_top(mem) \in Nat /\ k_data_top(mem) \in Nat
      /\ data_top(mem) >= DATA_BOT /\ k_data_top(mem) >= K_DATA_BOT
  <2>1. /\ data_top(mem) \in Nat /\ k_data_top(mem) \in Nat
        /\ data_top(mem) >= DATA_BOT /\ Len(mem.kdata) \in Nat
    BY <1>2, Tops
  <2>2. k_data_top(mem) >= K_DATA_BOT
    BY <1>1, <2>1 DEF k_data_top
  <2> QED
    BY <2>1, <2>2
<1> DEFINE top == IF kernel THEN k_data_top(mem) ELSE data_top(mem)
           n == RoundUp(pc - top + 1, Chunk)
<1>4. /\ top \in Nat /\ pc - top <= 4 * MaxOps
  BY <1>1, <1>3
<1>5. CASE top > pc
  <2>1. e = [how |-> "grown", m |-> mem]
    BY <1>5 DEF Growth
  <2> QED
    BY <1>2, <1>4, <1>5, <2>1
<1>6. CASE ~(top > pc)
  <2>1. PICK g \in Garbage :
          e = IF kernel THEN expand_k_data(mem, n, g) ELSE expand_data(mem, n)
    BY <1>6 DEF Growth
  <2>2. n \in Int /\ n >= pc - top + 1 /\ n < pc - top + 1 + Chunk
    <3>1. pc - top + 1 \in Int
      BY <1>4
    <3> HIDE DEF top
    <3> QED
      BY <3>1, Rounded
  <2> HIDE DEF n
  <2>3. g \in Nat
    BY MemoryAssumption
  <2>4. CASE kernel
    <3>1. e = expand_k_data(mem, n, g) /\ top = k_data_top(mem)
      BY <2>1, <2>4
    <3>2. \/ e.how = "error" /\ e.m = mem
          \/ /\ e.how = "grown" /\ e.m \in Memories
             /\ k_data_top(e.m) >= k_data_top(mem) + n
             /\ FlatBytes(e.m) = FlatBytes(mem)
      BY <1>2, <2>2, <2>3, <3>1, ExpandKData
    <3>3. CASE e.how = "error" /\ e.m = mem
      BY <3>3
    <3>4. CASE /\ e.how = "grown" /\ e.m \in Memories
               /\ k_data_top(e.m) >= k_data_top(mem) + n
               /\ FlatBytes(e.m) = FlatBytes(mem)
      <4>1. k_data_top(e.m) \in Nat
        BY <3>4, Tops
      <4>2. pc < k_data_top(e.m)
        BY <1>4, <2>2, <3>1, <3>4, <4>1
      <4> QED
        BY <2>4, <3>4, <4>2
    <3> QED
      BY <3>2, <3>3, <3>4
  <2>5. CASE ~kernel
    <3>1. e = expand_data(mem, n) /\ top = data_top(mem)
      BY <2>1, <2>5
    <3>2. n \in -(IntMax + 1)..IntMax
      <4> HIDE DEF top
      <4>1. n <= IntMax /\ n >= 0
        BY <1>1, <1>4, <1>6, <2>2
      <4> QED
        BY <1>1, <2>2, <4>1
    <3>3. \/ e.how \in {"error", "died"} /\ e.m = mem
          \/ /\ e.how = "grown" /\ e.m \in Memories
             /\ data_top(e.m) >= data_top(mem) + n
             /\ FlatBytes(e.m) = FlatBytes(mem)
      BY <1>2, <3>1, <3>2, ExpandData
    <3>4. CASE e.how \in {"error", "died"} /\ e.m = mem
      BY <3>4
    <3>5. CASE /\ e.how = "grown" /\ e.m \in Memories
               /\ data_top(e.m) >= data_top(mem) + n
               /\ FlatBytes(e.m) = FlatBytes(mem)
      <4>1. data_top(e.m) \in Nat
        BY <3>5, Tops
      <4>2. pc < data_top(e.m)
        BY <1>4, <2>2, <3>1, <3>5, <4>1
      <4> QED
        BY <2>5, <3>5, <4>2
    <3> QED
      BY <3>3, <3>4, <3>5
  <2> QED
    BY <2>4, <2>5
<1> QED
  BY <1>5, <1>6

LEMMA EmitRight ==
  ASSUME MemInv, NEW kernel \in BOOLEAN, EmitData(kernel)
  PROVE  StepRight
<1> DEFINE s == IF kernel THEN "kdata" ELSE "data"
           pc == dpc[s] + WORD
<1>1. /\ ops < MaxOps /\ dpc' = [dpc EXCEPT ![s] = pc] /\ ops' = ops + 1
      /\ \E e \in Growth(kernel, pc) :
           mem' = e.m /\ out' = [op |-> IF e.how = "grown" THEN "emit" ELSE e.how]
  BY DEF EmitData, Ready
<1>2. PICK e \in Growth(kernel, pc) :
        mem' = e.m /\ out' = [op |-> IF e.how = "grown" THEN "emit" ELSE e.how]
  BY <1>1
<1>3. /\ DATA_BOT \in Nat /\ K_DATA_BOT \in Nat /\ MaxOps \in Nat
      /\ ops \in 0..MaxOps /\ dpc \in [data : Nat, kdata : Nat]
      /\ dpc.data \in DATA_BOT..(DATA_BOT + 4 * ops)
      /\ dpc.kdata \in K_DATA_BOT..(K_DATA_BOT + 4 * ops)
      /\ mem \in Memories
  BY Layout DEF MemInv, TypeOK, CountersBounded, WORD
<1>4. IF kernel THEN pc = dpc.kdata + 4 /\ dpc' = [dpc EXCEPT !.kdata = pc]
      ELSE pc = dpc.data + 4 /\ dpc' = [dpc EXCEPT !.data = pc]
  BY <1>1, <1>3 DEF WORD
<1> HIDE DEF pc, s
<1>5. /\ pc \in Int /\ pc >= (IF kernel THEN K_DATA_BOT ELSE DATA_BOT)
      /\ pc <= (IF kernel THEN K_DATA_BOT ELSE DATA_BOT) + 4 * MaxOps
  BY <1>1, <1>3, <1>4
<1>6. \/ e.how \in {"error", "died"} /\ e.m = mem
      \/ /\ e.how = "grown" /\ e.m \in Memories /\ FlatBytes(e.m) = FlatBytes(mem)
         /\ pc < (IF kernel THEN k_data_top(e.m) ELSE data_top(e.m))
  BY <1>1, <1>2, <1>5, GrowthRight
<1>7. /\ dpc' \in [data : Nat, kdata : Nat] /\ ops' \in 0..MaxOps
      /\ dpc'.data \in DATA_BOT..(DATA_BOT + 4 * ops')
      /\ dpc'.kdata \in K_DATA_BOT..(K_DATA_BOT + 4 * ops')
      /\ IF kernel THEN dpc'.data = dpc.data /\ dpc'.kdata = pc
         ELSE dpc'.data = pc /\ dpc'.kdata = dpc.kdata
  <2>1. CASE kernel
    <3>1. pc = dpc.kdata + 4 /\ dpc' = [data |-> dpc.data, kdata |-> pc]
      BY <1>3, <1>4, <2>1
    <3> QED
      BY <1>1, <1>3, <2>1, <3>1
  <2>2. CASE ~kernel
    <3>1. pc = dpc.data + 4 /\ dpc' = [data |-> pc, kdata |-> dpc.kdata]
      BY <1>3, <1>4, <2>2
    <3> QED
      BY <1>1, <1>3, <2>2, <3>1
  <2> QED
    BY <2>1, <2>2
<1>8. mem' \in Memories
  BY <1>2, <1>3, <1>6
<1>9. MemInv'
  BY <1>7, <1>8 DEF MemInv, TypeOK, CountersBounded, WORD
<1>10. out'.op \in {"emit", "error", "died"} /\ FlatBytes(mem') = FlatBytes(mem)
  BY <1>2, <1>6
<1>11. GrowthReaches'
  BY <1>10 DEF GrowthReaches
<1>12. SbrkStep
  BY <1>2, <1>6 DEF SbrkStep
<1>13. DatumStep
  <2>1. CASE e.how \in {"error", "died"}
    BY <1>2, <2>1 DEF DatumStep
  <2>2. CASE pc < (IF kernel THEN k_data_top(e.m) ELSE data_top(e.m))
    BY <1>2, <1>7, <2>2 DEF DatumStep
  <2> QED
    BY <1>6, <2>1, <2>2
<1>14. Flat!Next
  BY <1>10 DEF Flat!Next, Flat!Other
<1> QED
  BY <1>9, <1>11, <1>12, <1>13, <1>14 DEF StepRight

LEMMA StepsRight == MemInv /\ Next => StepRight \/ UNCHANGED vars
<1> SUFFICES ASSUME MemInv, Next PROVE StepRight \/ UNCHANGED vars
  OBVIOUS
<1>1. mem \in Memories
  BY DEF MemInv, TypeOK
<1>2. Addrs \subseteq Nat /\ Words \subseteq [1..WORD -> Nat]
  BY MemoryAssumption
<1>3. CASE Load
  <2>1. PICK a \in Addrs, n \in {1, 2, 4} : Does(mem_read(mem, a, n))
    BY <1>3 DEF Load
  <2> DEFINE r == mem_read(mem, a, n)
  <2>2. Seen(mem, r)
    BY <1>1, <1>2, ReadResult DEF Seen
  <2>3. Does(r) /\ ops < MaxOps
    BY <1>3, <2>1 DEF Load, Ready
  <2> HIDE DEF r
  <2> QED
    BY <2>2, <2>3, DoesRight
<1>4. CASE Store
  <2>1. PICK a \in Addrs, n \in {1, 2, 4}, w \in Words : Does(mem_write(mem, a, n, w))
    BY <1>4 DEF Store
  <2> DEFINE r == mem_write(mem, a, n, w)
  <2>2. WORD \in Nat /\ WORD = 4
    BY DEF WORD
  <2>3. w \in [1..WORD -> Nat]
    BY <1>2
  <2>4. w \in Seq(Nat) /\ Len(w) = 4
    BY <2>2, <2>3, ArrowSeq
  <2>5. a \in Int /\ n <= Len(w)
    BY <1>2, <2>4
  <2>6. Seen(mem, r)
    BY <1>1, <2>3, <2>4, <2>5, WriteResult DEF Seen
  <2>7. Does(r) /\ ops < MaxOps
    BY <1>4, <2>1 DEF Store, Ready
  <2> HIDE DEF r
  <2> QED
    BY <2>6, <2>7, DoesRight
<1>5. CASE StoreInst
  <2>1. PICK a \in Addrs, w \in Words : Does(mem_write_inst(mem, a, w))
    BY <1>5 DEF StoreInst
  <2> DEFINE r == mem_write_inst(mem, a, w)
  <2>2. a \in Int /\ w \in [1..WORD -> Nat]
    BY <1>2
  <2>3. Seen(mem, r)
    BY <1>1, <2>2, WriteInstResult DEF Seen
  <2>4. Does(r) /\ ops < MaxOps
    BY <1>5, <2>1 DEF StoreInst, Ready
  <2> HIDE DEF r
  <2> QED
    BY <2>3, <2>4, DoesRight
<1>6. CASE Reference
  <2>1. PICK a \in Addrs : Does([m |-> mem, out |-> mem_reference(mem, a)])
    BY <1>6 DEF Reference
  <2> DEFINE r == [m |-> mem, out |-> mem_reference(mem, a)]
  <2>2. r.m = mem /\ r.out.op \in {"pointer", "error"}
    BY DEF mem_reference
  <2>3. Does(r) /\ ops < MaxOps
    BY <1>6, <2>1 DEF Reference, Ready
  <2> HIDE DEF r
  <2>4. Seen(mem, r)
    BY <1>1, <2>2 DEF Seen, Refused
  <2> QED
    BY <2>3, <2>4, DoesRight
<1>7. CASE InitStack
  <2>1. PICK v \in ArgVectors : Does(initialize_run_stack(mem, v))
    BY <1>7 DEF InitStack
  <2> DEFINE r == initialize_run_stack(mem, v)
  <2>2. v.argv \in Seq(Seq(Nat)) /\ v.env \in Seq(Seq(Nat))
    BY MemoryAssumption
  <2>3. r.m \in Memories /\ (r.out.op = "args" \/ (r.out.op = "died" /\ r.m = mem))
    BY <1>1, <2>2, ArgumentsResult
  <2>4. Does(r) /\ ops < MaxOps
    BY <1>7, <2>1 DEF InitStack, Ready
  <2> HIDE DEF r
  <2>5. Seen(mem, r)
    BY <2>3 DEF Seen, Refused
  <2> QED
    BY <2>4, <2>5, DoesRight
<1>8. CASE Reinitialize
  <2>1. /\ DATA_BOT \in Nat /\ K_DATA_BOT \in Nat /\ MaxOps \in Nat
    BY Layout
  <2>2. /\ mem' \in Memories /\ FlatBytes(mem') = [a \in Region |-> 0]
        /\ dpc' = [data |-> DATA_BOT, kdata |-> K_DATA_BOT]
        /\ out' = [op |-> "reset"] /\ ops' = 0
    BY <1>8, FreshMemory DEF Reinitialize
  <2>3. MemInv'
    BY <2>1, <2>2 DEF MemInv, TypeOK, CountersBounded, WORD
  <2>4. GrowthReaches' /\ SbrkStep /\ DatumStep
    BY <2>2 DEF GrowthReaches, SbrkStep, DatumStep
  <2>5. Flat!Next
    BY <2>2 DEF Flat!Next, Flat!Reset, Flat!Zeroed
  <2> QED
    BY <2>3, <2>4, <2>5 DEF StepRight
<1> QED
  BY <1>3, <1>4, <1>5, <1>6, <1>7, <1>8, SbrkRight, EmitRight DEF Next, Finished

(* MemInv is an invariant, for every layout of the segments: the segments   *)
(* are whole words within their limits (make_memory, expand_data,           *)
(* expand_stack, expand_k_data) and next_data_pc moves a word at a time.    *)
THEOREM MemoryInvariant == Spec => []MemInv
<1>1. Init => MemInv
  BY InitRight
<1>2. MemInv /\ [Next]_vars => MemInv'
  <2> SUFFICES ASSUME MemInv, [Next]_vars PROVE MemInv'
    OBVIOUS
  <2>1. CASE Next /\ StepRight
    BY <2>1 DEF StepRight
  <2>2. CASE UNCHANGED vars
    BY <2>2 DEF vars, MemInv, TypeOK, CountersBounded
  <2> QED
    BY <2>1, <2>2, StepsRight
<1> QED
  BY <1>1, <1>2, PTL DEF Spec

(* Growth is within the limits and enough: a store below the stack finds    *)
(* room for itself (mem_write_byte and its fellows), sbrk returns a new     *)
(* block of the size asked for inside the segment, and the next datum of    *)
(* the assembler lies inside (increment_data_pc).                           *)
THEOREM GrowthAlwaysUsable == Spec => GrowthUsable
<1>1. Init => GrowthReaches
  BY InitRight
<1>2. MemInv /\ GrowthReaches /\ [Next]_vars => GrowthReaches'
  <2> SUFFICES ASSUME MemInv, GrowthReaches, [Next]_vars PROVE GrowthReaches'
    OBVIOUS
  <2>1. CASE Next /\ StepRight
    BY <2>1 DEF StepRight
  <2>2. CASE UNCHANGED vars
    BY <2>2 DEF vars, GrowthReaches
  <2> QED
    BY <2>1, <2>2, StepsRight
<1>3. MemInv /\ [Next]_vars => [SbrkStep]_vars /\ [DatumStep]_vars
  BY StepsRight DEF StepRight
<1>4. MemInv => TypeOK
  BY DEF MemInv
<1> QED
  BY <1>1, <1>2, <1>3, <1>4, MemoryInvariant, PTL
     DEF Spec, GrowthUsable, SbrkUsable, NextDatumInside

(* Growth cannot be seen: the data and the stack of memory.c, with all      *)
(* their segments, implement one flat memory that was zero to begin with.   *)
THEOREM SegmentsInvisible == Spec => ImplementsFlat
<1>1. Init => Flat!Init
  BY InitRight
<1>2. MemInv /\ [Next]_vars => [Flat!Next]_<<FlatBytes(mem), out>>
  <2> SUFFICES ASSUME MemInv, [Next]_vars PROVE [Flat!Next]_<<FlatBytes(mem), out>>
    OBVIOUS
  <2>1. CASE Next /\ StepRight
    BY <2>1 DEF StepRight
  <2>2. CASE UNCHANGED vars
    BY <2>2 DEF vars
  <2> QED
    BY <2>1, <2>2, StepsRight
<1> QED
  BY <1>1, <1>2, MemoryInvariant, PTL DEF Spec, ImplementsFlat, Flat!Spec


-----------------------------------------------------------------------------
(* What main finds on its stack.                                            *)

(* The segments of n are those of m, with a longer stack perhaps. *)
Lower(m, n) == data_top(n) = data_top(m) /\ stack_bot(n) <= stack_bot(m)

LEMMA PutTops ==
  ASSUME NEW m \in Memories, NEW a \in Int, InSegment(m, a), NEW val \in Seq(Nat),
         NEW p, p = Put(m, a, val)
  PROVE  data_top(p) = data_top(m) /\ stack_bot(p) = stack_bot(m)
         /\ k_data_top(p) = k_data_top(m)
<1>1. /\ m.data \in Seq(Nat) /\ m.stack \in Seq(Nat) /\ m.kdata \in Seq(Nat)
      /\ m = [text |-> m.text, data |-> m.data, stack |-> m.stack, kdata |-> m.kdata]
  BY Typed
<1>2. DATA_BOT \in Int /\ K_DATA_BOT \in Int /\ stack_bot(m) \in Int
  <2>1. DATA_BOT \in Nat /\ K_DATA_BOT \in Nat
    BY Layout
  <2>2. stack_bot(m) \in Nat
    BY Tops
  <2> QED
    BY <2>1, <2>2
<1>3. CASE InData(m, a)
  <2> DEFINE b == Overwritten(m.data, a - DATA_BOT, val)
  <2>1. p = [m EXCEPT !.data = b]
    BY <1>3, OneSegment DEF Put
  <2>2. Len(b) = Len(m.data)
    <3>1. a - DATA_BOT \in Int
      BY <1>2
    <3> QED
      BY <1>1, <3>1, OverwrittenSeq
  <2> HIDE DEF b
  <2>3. p.data = b /\ p.stack = m.stack /\ p.kdata = m.kdata
    BY <1>1, <2>1
  <2> QED
    BY <2>2, <2>3 DEF data_top, stack_bot, k_data_top
<1>4. CASE InStack(m, a)
  <2> DEFINE b == Overwritten(m.stack, a - stack_bot(m), val)
  <2>1. p = [m EXCEPT !.stack = b]
    BY <1>4, OneSegment DEF Put
  <2>2. Len(b) = Len(m.stack)
    <3>1. a - stack_bot(m) \in Int
      BY <1>2
    <3> QED
      BY <1>1, <3>1, OverwrittenSeq
  <2> HIDE DEF b
  <2>3. p.data = m.data /\ p.stack = b /\ p.kdata = m.kdata
    BY <1>1, <2>1
  <2> QED
    BY <2>2, <2>3 DEF data_top, stack_bot, k_data_top
<1>5. CASE InKData(m, a)
  <2> DEFINE b == Overwritten(m.kdata, a - K_DATA_BOT, val)
  <2>1. p = [m EXCEPT !.kdata = b]
    BY <1>5, OneSegment DEF Put
  <2>2. Len(b) = Len(m.kdata)
    <3>1. a - K_DATA_BOT \in Int
      BY <1>2
    <3> QED
      BY <1>1, <3>1, OverwrittenSeq
  <2> HIDE DEF b
  <2>3. p.data = m.data /\ p.stack = m.stack /\ p.kdata = b
    BY <1>1, <2>1
  <2> QED
    BY <2>2, <2>3 DEF data_top, stack_bot, k_data_top
<1> QED
  BY <1>3, <1>4, <1>5 DEF InSegment

LEMMA Apart ==
  ASSUME SegmentsApart, NEW m \in Memories
  PROVE  data_top(m) < stack_bot(m)
<1> DEFINE d == Len(m.data)
           s == Len(m.stack)
<1>1. d \in Nat /\ s \in Nat /\ d <= DataLimit /\ s <= StackLimit
  BY Tops
<1>2. DATA_BOT \in Nat /\ STACK_TOP \in Nat /\ DataLimit \in Nat /\ StackLimit \in Nat
  BY Layout
<1> HIDE DEF d, s
<1>3. DATA_BOT + d < STACK_TOP - s
  BY <1>1, <1>2 DEF SegmentsApart
<1> QED
  BY <1>3 DEF data_top, stack_bot, d, s

(* Growth moves the bottom of the stack only. *)
LEMMA GrownLower ==
  ASSUME NEW m \in Memories, NEW k \in Int,
         NEW e, e = expand_stack(m, k), e.how = "grown", e.m \in Memories,
         stack_bot(e.m) <= stack_bot(m)
  PROVE  Lower(m, e.m)
<1>1. m = [text |-> m.text, data |-> m.data, stack |-> m.stack, kdata |-> m.kdata]
  BY Typed
<1>2. \E z : e.m = [m EXCEPT !.stack = z]
  BY DEF expand_stack
<1>3. e.m.data = m.data
  BY <1>1, <1>2
<1> QED
  BY <1>3 DEF Lower, data_top

(* A store that is made is at its address, and nowhere else. *)
LEMMA WriteMade ==
  ASSUME NEW m \in Memories, NEW a \in Int, NEW n, NEW w, Storable(n, w),
         NEW r, r = mem_write(m, a, n, w), r.out.op = "store"
  PROVE  /\ r.m \in Memories /\ Whole(a, n) /\ InSegment(r.m, a) /\ Lower(m, r.m)
         /\ FlatBytes(r.m) = Written(FlatBytes(m), a, SubSeq(w, 1, n))
<1> DEFINE val == SubSeq(w, 1, n)
<1>0. n \in Nat /\ n \in {1, 2, 4}
  BY DEF Storable
<1>1. val \in Seq(Nat) /\ Len(val) = n
  <2>1. Len(w) \in Nat /\ w \in Seq(Nat) /\ n <= Len(w)
    BY LenProperties DEF Storable
  <2> QED
    BY <1>0, <2>1, SubSeqProperties
<1>s. ASSUME NEW g \in Memories, FlatBytes(g) = FlatBytes(m), Lower(m, g), Whole(a, n),
             InSegment(g, a), r = Stored(Put(g, a, val), a, val)
      PROVE  /\ r.m \in Memories /\ Whole(a, n) /\ InSegment(r.m, a) /\ Lower(m, r.m)
             /\ FlatBytes(r.m) = Written(FlatBytes(m), a, val)
  <2> DEFINE p == Put(g, a, val)
  <2> HIDE DEF val
  <2>1. p \in Memories /\ FlatBytes(p) = Written(FlatBytes(g), a, val)
    BY <1>0, <1>1, <1>s, PutRight
  <2>2. data_top(p) = data_top(g) /\ stack_bot(p) = stack_bot(g)
        /\ k_data_top(p) = k_data_top(g)
    BY <1>1, <1>s, PutTops
  <2>3. r.m = p
    BY <1>s DEF Stored
  <2> HIDE DEF p
  <2>4. InSegment(p, a)
    BY <1>s, <2>2 DEF InSegment, InData, InStack, InKData
  <2>5. Lower(m, p)
    BY <1>s, <2>2 DEF Lower
  <2> QED
    BY <1>s, <2>1, <2>3, <2>4, <2>5
<1>2. CASE ~Whole(a, n)
  <2>1. r = Fault(m, "AdES", a)
    BY <1>0, <1>2 DEF mem_write, Whole
  <2> QED
    BY <2>1 DEF Fault
<1>3. CASE Whole(a, n) /\ InSegment(m, a)
  <2>1. r = Stored(Put(m, a, val), a, val)
    BY <1>3, OneArm DEF mem_write, Whole
  <2>2. Lower(m, m)
    <3>1. stack_bot(m) \in Nat
      BY Tops
    <3> QED
      BY <3>1 DEF Lower
  <2> QED
    BY <1>3, <1>s, <2>1, <2>2
<1>4. CASE Whole(a, n) /\ InText(a)
  <2>1. r.out = [op |-> "inst"]
    BY <1>4, OneArm DEF mem_write, Whole
  <2> QED
    BY <2>1
<1>5. CASE Whole(a, n) /\ Grows(m, a)
  <2> DEFINE k == stack_bot(m) - a + 4
             e == expand_stack(m, k)
  <2>1. r = IF e.how = "error" THEN [m |-> m, out |-> [op |-> "error"]]
            ELSE IF a >= stack_bot(e.m) THEN Stored(Put(e.m, a, val), a, val)
            ELSE [m |-> e.m, out |-> [op |-> "fault", code |-> "short", a |-> a]]
    BY <1>5, OneArm DEF mem_write, Whole
  <2>2. \/ e.how = "error" /\ e.m = m
        \/ /\ e.how = "grown" /\ e.m \in Memories /\ FlatBytes(e.m) = FlatBytes(m)
           /\ a >= stack_bot(e.m) /\ InStack(e.m, a)
    BY <1>0, <1>5, Grown
  <2>k. k \in Int /\ stack_bot(m) \in Nat /\ a < stack_bot(m)
    <3>1. stack_bot(m) \in Nat
      BY Tops
    <3> QED
      BY <1>5, <3>1 DEF Grows
  <2>e. \A f : f = e /\ f.how = "grown" /\ f.m \in Memories /\ stack_bot(f.m) <= stack_bot(m)
               => Lower(m, f.m)
    <3> HIDE DEF k
    <3> QED
      BY <2>k, GrownLower
  <2> HIDE DEF e, val, k
  <2>3. CASE e.how = "error"
    BY <2>1, <2>3
  <2>4. CASE /\ e.how = "grown" /\ e.m \in Memories /\ FlatBytes(e.m) = FlatBytes(m)
             /\ a >= stack_bot(e.m) /\ InStack(e.m, a)
    <3>1. r = Stored(Put(e.m, a, val), a, val) /\ InSegment(e.m, a)
      BY <2>1, <2>4 DEF InSegment
    <3>2. stack_bot(e.m) \in Nat
      BY <2>4, Tops
    <3>3. Lower(m, e.m)
      BY <2>4, <2>k, <2>e, <3>2
    <3> QED
      BY <1>5, <1>s, <2>4, <3>1, <3>3 DEF val
  <2> QED
    BY <2>2, <2>3, <2>4
<1>6. CASE Whole(a, n) /\ ~InSegment(m, a) /\ ~InText(a) /\ ~Grows(m, a)
  <2>1. \/ r = [m |-> m, out |-> [op |-> "io"]]
        \/ r = Fault(m, "DBE", a)
    BY <1>6 DEF mem_write, Whole
  <2> QED
    BY <2>1 DEF Fault
<1> QED
  BY <1>2, <1>3, <1>4, <1>5, <1>6

(* The bytes of the program from b upwards are the same in m and n. *)
Kept(m, n, b) == \A x \in Region : x >= b => FlatBytes(n)[x] = FlatBytes(m)[x]

(* The n bytes of val are at a. *)
Lies(m, a, n, val) ==
  /\ Whole(a, n) /\ InSegment(m, a)
  /\ \A k \in 1..n : FlatBytes(m)[a + k - 1] = val[k]

LEMMA LiesInside ==
  ASSUME NEW m \in Memories, NEW a \in Int, a < STACK_TOP, NEW n \in {1, 2, 4},
         Whole(a, n), InSegment(m, a)
  PROVE  a \in Region /\ a + n <= STACK_TOP /\ \A k \in 1..n : a + k - 1 \in Region
<1>1. DATA_BOT \in Nat /\ STACK_TOP \in Int /\ STACK_TOP % 4 = 0 /\ n \in Nat
  BY Layout
<1>2. a >= DATA_BOT
  BY OneSegment
<1>3. a + n <= STACK_TOP
  BY <1>1, Aligned
<1> QED
  BY <1>1, <1>2, <1>3 DEF Region

(* What lies above the stores that are made stays. *)
LEMMA LiesStill ==
  ASSUME NEW m \in Memories, NEW p \in Memories, NEW a \in Int, a < STACK_TOP,
         NEW n \in {1, 2, 4}, NEW val, Lies(m, a, n, val),
         Lower(m, p), NEW b \in Int, b <= a, Kept(m, p, b)
  PROVE  Lies(p, a, n, val)
<1>1. Whole(a, n) /\ InSegment(m, a) /\ \A k \in 1..n : FlatBytes(m)[a + k - 1] = val[k]
  BY DEF Lies
<1>2. \A k \in 1..n : a + k - 1 \in Region /\ a + k - 1 >= b
  BY <1>1, LiesInside
<1>3. \A k \in 1..n : FlatBytes(p)[a + k - 1] = val[k]
  BY <1>1, <1>2 DEF Kept
<1>4. InSegment(p, a)
  <2>1. /\ stack_bot(m) \in Nat /\ stack_bot(p) \in Nat /\ STACK_TOP \in Nat
        /\ K_DATA_BOT \in Nat /\ STACK_TOP <= K_DATA_BOT
        /\ k_data_top(m) \in Nat
    BY Tops, Layout
  <2>2. ~InKData(m, a)
    BY <2>1 DEF InKData
  <2>3. CASE InData(m, a)
    BY <2>3 DEF Lower, InData, InSegment
  <2>4. CASE InStack(m, a)
    BY <2>1, <2>4 DEF Lower, InStack, InSegment
  <2> QED
    BY <1>1, <2>2, <2>3, <2>4 DEF InSegment
<1> QED
  BY <1>1, <1>3, <1>4 DEF Lies

LEMMA LowerFurther ==
  ASSUME NEW l \in Memories, NEW m \in Memories, NEW n \in Memories,
         Lower(l, m), Lower(m, n)
  PROVE  Lower(l, n)
<1>1. stack_bot(l) \in Nat /\ stack_bot(m) \in Nat /\ stack_bot(n) \in Nat
  BY Tops
<1> QED
  BY <1>1 DEF Lower

LEMMA KeptFurther ==
  ASSUME NEW l, NEW m, NEW n, NEW b \in Int, NEW c \in Int, c <= b,
         Kept(l, m, b), Kept(m, n, c)
  PROVE  Kept(l, n, b)
<1>1. \A x \in Region : x \in Int
  BY DEF Region
<1> QED
  BY <1>1 DEF Kept

LEMMA PushMade ==
  ASSUME NEW sp, NEW at, NEW x \in Held(sp, at), NEW a \in Int, a < STACK_TOP,
         NEW n, NEW w, Storable(n, w), NEW y, y = Push(x, a, n, w), y.ok
  PROVE  /\ x.ok /\ y \in Held(sp, at) /\ Lower(x.m, y.m)
         /\ Kept(x.m, y.m, a + n) /\ Lies(y.m, a, n, w)
<1>1. x.m \in Memories /\ x.ok \in BOOLEAN
  BY DEF Held
<1>2. y \in Held(sp, at) /\ x.ok
  BY PushHeld
<1> DEFINE r == mem_write(x.m, a, n, w)
<1>3. y = [x EXCEPT !.m = r.m, !.ok = r.out.op = "store"]
  BY <1>2 DEF Push
<1> HIDE DEF r
<1>4. y.m = r.m /\ r.out.op = "store"
  BY <1>3 DEF Held
<1>5. /\ r.m \in Memories /\ Whole(a, n) /\ InSegment(r.m, a) /\ Lower(x.m, r.m)
      /\ FlatBytes(r.m) = Written(FlatBytes(x.m), a, SubSeq(w, 1, n))
  BY <1>1, <1>4, WriteMade DEF r
<1> DEFINE val == SubSeq(w, 1, n)
<1>6. n \in {1, 2, 4} /\ n \in Nat /\ Len(val) = n /\ \A k \in 1..n : val[k] = w[k]
  <2>1. n \in Nat /\ Len(w) \in Nat /\ w \in Seq(Nat) /\ n <= Len(w)
    BY LenProperties DEF Storable
  <2> QED
    BY <2>1, SubSeqProperties DEF Storable
<1> HIDE DEF val
<1>7. FlatBytes(r.m) = Written(FlatBytes(x.m), a, val)
  BY <1>5 DEF val
<1>8. \A b \in Region : b \in Int
  BY DEF Region
<1>9. \A b \in Region : FlatBytes(r.m)[b] =
         IF b - a \in 0..(n - 1) THEN val[b - a + 1] ELSE FlatBytes(x.m)[b]
  BY <1>6, <1>7 DEF Written
<1>10. Kept(x.m, r.m, a + n)
  <2> SUFFICES ASSUME NEW b \in Region, b >= a + n
               PROVE  FlatBytes(r.m)[b] = FlatBytes(x.m)[b]
    BY DEF Kept
  <2>1. ~(b - a \in 0..(n - 1))
    BY <1>6, <1>8
  <2> QED
    BY <1>9, <2>1
<1>11. \A k \in 1..n : FlatBytes(r.m)[a + k - 1] = w[k]
  <2> SUFFICES ASSUME NEW k \in 1..n PROVE FlatBytes(r.m)[a + k - 1] = w[k]
    OBVIOUS
  <2>1. a + k - 1 \in Region
    BY <1>5, <1>6, LiesInside
  <2>2. (a + k - 1) - a \in 0..(n - 1) /\ (a + k - 1) - a + 1 = k
    BY <1>6
  <2> QED
    BY <1>6, <1>9, <2>1, <2>2
<1> QED
  BY <1>2, <1>4, <1>5, <1>10, <1>11 DEF Lies

(* Stores of w bytes each, downwards from top. *)
Descending(stores, top, w) ==
  \A i \in 1..Len(stores) :
    /\ stores[i].a = top - w * (i - 1) /\ stores[i].n = w
    /\ Storable(w, stores[i].w)

(* If all of them are made, each is found at its place, and above nothing   *)
(* has changed.                                                             *)
LEMMA Descends ==
  ASSUME NEW sp, NEW at, NEW st \in Held(sp, at), NEW w \in {1, 4}, NEW top \in Int,
         top < STACK_TOP, NEW stores, Len(stores) \in Nat \ {0},
         Descending(stores, top, w), NEW p, p = Pushed(st, stores), p.ok
  PROVE  /\ st.ok /\ p \in Held(sp, at) /\ Lower(st.m, p.m) /\ Kept(st.m, p.m, top + w)
         /\ \A i \in 1..Len(stores) : Lies(p.m, top - w * (i - 1), w, stores[i].w)
         /\ SegmentsApart /\ w = 1 /\ top + 1 >= stack_bot(st.m) =>
              top - Len(stores) + 1 >= stack_bot(p.m)
<1> DEFINE S == Held(sp, at)
           n == Len(stores)
           a(i) == top - w * (i - 1)
<1>0. n \in Nat \ {0} /\ w \in Nat /\ w \in {1, 2, 4} /\ STACK_TOP \in Nat
  BY Layout
<1>1. \A i \in 1..n : /\ stores[i].a = a(i) /\ stores[i].n = w
                      /\ Storable(w, stores[i].w)
  BY DEF Descending
<1>2. /\ \A i \in 1..n : a(i) \in Int /\ a(i) < STACK_TOP /\ a(i) + w <= top + w
      /\ \A i \in 1..n, j \in 1..n : j < i => a(i) + w <= a(j)
  <2>1. CASE w = 1
    BY <1>0, <2>1
  <2>2. CASE w = 4
    BY <1>0, <2>2
  <2> QED
    BY <2>1, <2>2
<1>w. w = 1 => \A i \in 1..n : a(i) = top - i + 1
  BY <1>0
<1> HIDE DEF a
<1>3. \A x \in S, i \in 1..n :
         Push(x, stores[i].a, stores[i].n, stores[i].w) \in S
  BY <1>1, <1>2, PushHeld
<1>4. PICK g : StoreByStore(S, st, stores, g)
  <2> HIDE DEF S
  <2> QED
    BY <1>0, <1>3, PushedSteps DEF S
<1>5. /\ g \in [0..n -> S] /\ g[0] = st /\ p = g[n]
      /\ \A i \in 1..n : g[i] = Push(g[i - 1], a(i), w, stores[i].w)
  BY <1>1, <1>4 DEF StoreByStore
<1> HIDE DEF S, n
<1>6. ASSUME NEW i \in 1..n, g[i].ok
      PROVE  /\ i - 1 \in 0..n /\ g[i - 1] \in S /\ g[i] \in S
             /\ g[i - 1].ok /\ Lower(g[i - 1].m, g[i].m)
             /\ Kept(g[i - 1].m, g[i].m, a(i) + w) /\ Lies(g[i].m, a(i), w, stores[i].w)
             /\ g[i - 1].m \in Memories /\ g[i].m \in Memories
  <2>1. i - 1 \in 0..n /\ i \in 0..n
    BY <1>0
  <2>2. g[i - 1] \in S /\ g[i] \in S /\ g[i] = Push(g[i - 1], a(i), w, stores[i].w)
    BY <1>5, <2>1
  <2>3. /\ g[i - 1].ok /\ Lower(g[i - 1].m, g[i].m)
        /\ Kept(g[i - 1].m, g[i].m, a(i) + w) /\ Lies(g[i].m, a(i), w, stores[i].w)
    BY <1>1, <1>2, <1>6, <2>2, PushMade DEF S
  <2>4. g[i - 1].m \in Memories /\ g[i].m \in Memories
    BY <2>2 DEF S, Held
  <2> QED
    BY <2>1, <2>2, <2>3, <2>4
<1>s. st.m \in Memories
  BY DEF Held
<1> DEFINE Made(i) == /\ st.ok /\ Lower(st.m, g[i].m) /\ Kept(st.m, g[i].m, top + w)
                      /\ \A j \in 1..i : Lies(g[i].m, a(j), w, stores[j].w)
           A == {i \in 0..n : g[i].ok => Made(i)}
<1>7. \A i \in 0..n : i \in A
  <2>1. 0 \in A
    <3>1. stack_bot(st.m) \in Nat
      BY <1>s, Tops
    <3>2. Lower(st.m, st.m) /\ Kept(st.m, st.m, top + w)
      BY <3>1 DEF Lower, Kept
    <3> QED
      BY <1>0, <1>5, <3>2
  <2>2. ASSUME NEW i \in 1..n, i - 1 \in A PROVE i \in A
    <3> SUFFICES ASSUME g[i].ok PROVE Made(i)
      BY <1>0
    <3>1. /\ g[i - 1].ok /\ Lower(g[i - 1].m, g[i].m)
          /\ Kept(g[i - 1].m, g[i].m, a(i) + w) /\ Lies(g[i].m, a(i), w, stores[i].w)
          /\ g[i - 1].m \in Memories /\ g[i].m \in Memories
      BY <1>6
    <3>2. Made(i - 1)
      BY <2>2, <3>1
    <3>3. a(i) \in Int /\ a(i) + w \in Int /\ top + w \in Int /\ a(i) + w <= top + w
      BY <1>0, <1>2
    <3>4. Lower(st.m, g[i].m)
      BY <1>s, <3>1, <3>2, LowerFurther
    <3>5. Kept(st.m, g[i].m, top + w)
      BY <3>1, <3>2, <3>3, KeptFurther
    <3>6. ASSUME NEW j \in 1..i PROVE Lies(g[i].m, a(j), w, stores[j].w)
      <4>1. CASE j = i
        BY <3>1, <4>1
      <4>2. CASE j # i
        <5>1. j \in 1..n /\ j \in 1..(i - 1) /\ j < i
          BY <1>0, <4>2
        <5>2. a(j) \in Int /\ a(j) < STACK_TOP /\ a(i) + w <= a(j)
          BY <1>2, <5>1
        <5>3. Lies(g[i - 1].m, a(j), w, stores[j].w)
          BY <3>2, <5>1
        <5> QED
          BY <1>0, <3>1, <3>3, <5>2, <5>3, LiesStill
      <4> QED
        BY <4>1, <4>2
    <3> QED
      BY <3>2, <3>4, <3>5, <3>6
  <2> HIDE DEF A
  <2> QED
    BY <1>0, <2>1, <2>2, BoundedInduction
<1>8. ASSUME SegmentsApart, w = 1, top + 1 >= stack_bot(st.m)
      PROVE  top - n + 1 >= stack_bot(g[n].m)
  <2> DEFINE B == {i \in 0..n : g[i].ok => top - i + 1 >= stack_bot(g[i].m)}
  <2>1. 0 \in B
    BY <1>0, <1>5, <1>8
  <2>2. ASSUME NEW i \in 1..n, i - 1 \in B PROVE i \in B
    <3> SUFFICES ASSUME g[i].ok PROVE top - i + 1 >= stack_bot(g[i].m)
      BY <1>0
    <3>1. /\ g[i - 1].ok /\ Lower(g[i - 1].m, g[i].m)
          /\ InSegment(g[i].m, a(i))
          /\ g[i - 1].m \in Memories /\ g[i].m \in Memories
      BY <1>6 DEF Lies
    <3>2. top - (i - 1) + 1 >= stack_bot(g[i - 1].m)
      BY <2>2, <3>1
    <3>3. a(i) = top - i + 1 /\ a(i) \in Int /\ a(i) < STACK_TOP
      BY <1>w, <1>2, <1>8
    <3>4. CASE a(i) >= stack_bot(g[i - 1].m)
      <4>1. stack_bot(g[i].m) \in Nat /\ stack_bot(g[i - 1].m) \in Nat
        BY <3>1, Tops
      <4> QED
        BY <3>1, <3>3, <3>4, <4>1 DEF Lower
    <3>5. CASE ~(a(i) >= stack_bot(g[i - 1].m))
      <4>1. /\ stack_bot(g[i].m) \in Nat /\ stack_bot(g[i - 1].m) \in Nat
            /\ data_top(g[i - 1].m) \in Nat /\ k_data_top(g[i].m) \in Nat
            /\ K_DATA_BOT \in Nat /\ STACK_TOP <= K_DATA_BOT
        BY <3>1, Tops, Layout
      <4>2. data_top(g[i - 1].m) < stack_bot(g[i - 1].m)
        BY <1>8, <3>1, Apart
      <4>3. ~InData(g[i].m, a(i))
        <5>1. a(i) >= data_top(g[i - 1].m)
          BY <3>2, <3>3, <4>1, <4>2
        <5>2. data_top(g[i].m) = data_top(g[i - 1].m)
          BY <3>1 DEF Lower
        <5> QED
          BY <3>3, <4>1, <5>1, <5>2 DEF InData
      <4>4. ~InKData(g[i].m, a(i))
        BY <1>0, <3>3, <4>1 DEF InKData
      <4>5. InStack(g[i].m, a(i))
        BY <3>1, <4>3, <4>4 DEF InSegment
      <4> QED
        BY <1>0, <3>3, <4>1, <4>5 DEF InStack
    <3> QED
      BY <3>4, <3>5
  <2> HIDE DEF B
  <2>3. \A i \in 0..n : i \in B
    BY <1>0, <2>1, <2>2, BoundedInduction
  <2> QED
    BY <1>0, <1>5, <2>3 DEF B
<1>9. n \in 0..n /\ n \in 1..n
  BY <1>0
<1>10. Made(n)
  BY <1>5, <1>7, <1>9
<1>11. p \in Held(sp, at)
  BY <1>5, <1>9 DEF S
<1> QED
  BY <1>5, <1>8, <1>10, <1>11 DEF n, a

(* The string s, null terminated, is on the stack at a. *)
StringAt(m, a, s) ==
  /\ a \in Nat /\ a >= stack_bot(m) /\ a + Len(s) < STACK_TOP
  /\ \A k \in 1..(Len(s) + 1) : FlatBytes(m)[a + k - 1] = Append(s, 0)[k]

LEMMA StringInside ==
  ASSUME NEW m \in Memories, NEW a, NEW s \in Seq(Nat), StringAt(m, a, s)
  PROVE  \A k \in 1..(Len(s) + 1) : a + k - 1 \in Region /\ a + k - 1 >= a
<1>1. /\ DATA_BOT \in Nat /\ STACK_TOP \in Nat /\ data_top(m) \in Nat
      /\ stack_bot(m) \in Nat /\ DATA_BOT <= data_top(m) /\ data_top(m) <= stack_bot(m)
  BY Tops, Layout
<1>2. Len(s) \in Nat
  BY LenProperties
<1> QED
  BY <1>1, <1>2 DEF StringAt, Region

LEMMA StringStill ==
  ASSUME NEW m \in Memories, NEW p \in Memories, NEW a, NEW s \in Seq(Nat),
         StringAt(m, a, s), Lower(m, p), NEW b \in Int, b <= a, Kept(m, p, b)
  PROVE  StringAt(p, a, s)
<1>1. stack_bot(m) \in Nat /\ stack_bot(p) \in Nat /\ a \in Nat
  BY Tops DEF StringAt
<1>2. a >= stack_bot(p)
  BY <1>1 DEF Lower, StringAt
<1>3. ASSUME NEW k \in 1..(Len(s) + 1)
      PROVE  FlatBytes(p)[a + k - 1] = Append(s, 0)[k]
  <2>1. a + k - 1 \in Region /\ a + k - 1 >= a
    BY StringInside
  <2>2. a + k - 1 >= b
    BY <1>1, <2>1 DEF Region
  <2>3. FlatBytes(p)[a + k - 1] = FlatBytes(m)[a + k - 1]
    BY <2>1, <2>2 DEF Kept
  <2> QED
    BY <2>3 DEF StringAt
<1> QED
  BY <1>2, <1>3 DEF StringAt

LEMMA StringMade ==
  ASSUME SegmentsApart, NEW x \in Filled, NEW s \in Seq(Nat),
         x.sp < STACK_TOP, x.sp + 1 >= stack_bot(x.m),
         NEW y, y = copy_str_to_stack(x, s), y.ok
  PROVE  /\ x.ok /\ y.sp = x.sp - (Len(s) + 1) /\ y.at = <<y.sp + 1>> \o x.at
         /\ Lower(x.m, y.m) /\ Kept(x.m, y.m, x.sp + 1)
         /\ y.sp + 1 >= stack_bot(y.m) /\ StringAt(y.m, y.sp + 1, s)
<1> DEFINE n == Len(s) + 1
           c(i) == IF i = 1 THEN 0 ELSE s[n - i + 1]
           stores == [i \in 1..n |-> [a |-> x.sp - (i - 1), n |-> 1, w |-> <<c(i)>>]]
           p == Pushed(x, stores)
           low == x.sp - n + 1
<1>1. /\ x.m \in Memories /\ x.sp \in Int /\ x.at \in Seq(Int) /\ x.ok \in BOOLEAN
      /\ x = [m |-> x.m, sp |-> x.sp, at |-> x.at, ok |-> x.ok]
  BY DEF Filled
<1>2. x \in Held(x.sp, x.at)
  BY <1>1 DEF Held
<1>3. Len(s) \in Nat /\ STACK_TOP \in Nat
  BY LenProperties, Layout
<1>4. Len(stores) = n /\ n \in Nat \ {0}
  BY <1>3
<1>5. ASSUME NEW i \in 1..n PROVE c(i) \in Nat
  <2>1. CASE i = 1
    BY <2>1
  <2>2. CASE i # 1
    <3>1. n - i + 1 \in 1..Len(s)
      BY <1>3, <2>2
    <3>2. s[n - i + 1] \in Nat
      BY <3>1, ElementOfSeq
    <3> QED
      BY <2>2, <3>2
  <2> QED
    BY <2>1, <2>2
<1>6. Descending(stores, x.sp, 1) /\ \A i \in 1..n : stores[i].w = <<c(i)>>
  <2>1. ASSUME NEW i \in 1..n
        PROVE  /\ stores[i].a = x.sp - 1 * (i - 1) /\ stores[i].n = 1
               /\ stores[i].w = <<c(i)>> /\ Storable(1, stores[i].w)
    <3>1. stores[i].a = x.sp - (i - 1) /\ stores[i].n = 1 /\ stores[i].w = <<c(i)>>
      OBVIOUS
    <3>2. c(i) \in Nat
      BY <1>5
    <3> HIDE DEF c, stores
    <3>3. <<c(i)>> \in Seq(Nat) /\ Len(<<c(i)>>) = 1
      BY <3>2
    <3> QED
      BY <1>1, <1>3, <3>1, <3>3 DEF Storable, WORD
  <2> HIDE DEF c, stores, n
  <2> QED
    BY <1>4, <2>1 DEF Descending
<1>7. y = [p EXCEPT !.sp = @ - n, !.at = <<low>> \o @]
  BY DEF copy_str_to_stack
<1> HIDE DEF stores, p
<1>8. p \in Held(x.sp, x.at)
  <2>1. \A i \in 1..n : stores[i].a \in Int /\ Storable(stores[i].n, stores[i].w)
    BY <1>1, <1>3, <1>4, <1>6 DEF Descending
  <2> HIDE DEF n, low
  <2> QED
    BY <1>2, <1>4, <2>1, PushedHeld DEF p
<1>9. /\ y.m = p.m /\ y.ok = p.ok /\ y.sp = x.sp - n /\ y.at = <<low>> \o x.at
  BY <1>7, <1>8 DEF Held
<1>10. /\ x.ok /\ Lower(x.m, p.m) /\ Kept(x.m, p.m, x.sp + 1)
       /\ \A i \in 1..n : Lies(p.m, x.sp - 1 * (i - 1), 1, stores[i].w)
       /\ low >= stack_bot(p.m)
  <2>1. p.ok /\ 1 \in {1, 4}
    BY <1>9
  <2> HIDE DEF n
  <2> QED
    BY <1>1, <1>2, <1>4, <1>6, <2>1, Descends DEF p, low
<1>11. p.m \in Memories /\ stack_bot(p.m) \in Nat
  BY <1>8, Tops DEF Held
<1>12. low \in Int /\ low = y.sp + 1 /\ low + Len(s) = x.sp /\ low \in Nat
  BY <1>1, <1>3, <1>9, <1>10, <1>11
<1>13. ASSUME NEW k \in 1..(Len(s) + 1)
       PROVE  FlatBytes(p.m)[low + k - 1] = Append(s, 0)[k]
  <2> DEFINE i == n - k + 1
  <2>1. i \in 1..n /\ x.sp - 1 * (i - 1) = low + k - 1 /\ n - i + 1 = k
        /\ (x.sp - 1 * (i - 1)) + 1 - 1 = low + k - 1
    BY <1>1, <1>3
  <2>2. stores[i].w[1] = c(i)
    BY <1>6, <2>1
  <2>3. FlatBytes(p.m)[low + k - 1] = c(i)
    <3>1. Lies(p.m, x.sp - 1 * (i - 1), 1, stores[i].w)
      BY <1>10, <2>1
    <3>2. FlatBytes(p.m)[(x.sp - 1 * (i - 1)) + 1 - 1] = stores[i].w[1]
      BY <3>1 DEF Lies
    <3> HIDE DEF i
    <3> QED
      BY <3>2, <2>1, <2>2
  <2>4. c(i) = Append(s, 0)[k]
    <3>1. CASE k = Len(s) + 1
      <4>1. i = 1
        BY <1>3, <3>1
      <4> QED
        BY <1>3, <3>1, <4>1
    <3>2. CASE k # Len(s) + 1
      <4>1. i # 1 /\ k \in 1..Len(s)
        BY <1>3, <3>2
      <4>2. c(i) = s[k]
        BY <2>1, <4>1
      <4> QED
        BY <4>1, <4>2
    <3> QED
      BY <3>1, <3>2
  <2> QED
    BY <2>3, <2>4
<1>14. StringAt(p.m, low, s)
  BY <1>3, <1>10, <1>12, <1>13 DEF StringAt
<1> QED
  BY <1>9, <1>10, <1>12, <1>14

(* The strings are on the stack one below the other, the last one lowest. *)
StringsAt(x, strs, i) ==
  /\ x.sp < STACK_TOP /\ x.sp + 1 >= stack_bot(x.m) /\ Len(x.at) = i
  /\ \A k \in 1..i : x.at[k] > x.sp /\ StringAt(x.m, x.at[k], strs[i - k + 1])

LEMMA StringsMade ==
  ASSUME SegmentsApart, NEW x \in Filled, x.at = <<>>, x.sp = STACK_TOP - 1,
         NEW strs \in Seq(Seq(Nat)), NEW y, y = copy_strs_to_stack(x, strs), y.ok
  PROVE  StringsAt(y, strs, Len(strs))
<1> DEFINE n == Len(strs)
<1>0. n \in Nat /\ \A i \in 1..n : strs[i] \in Seq(Nat)
  BY LenProperties, ElementOfSeq
<1>1. PICK g \in [0..n -> Filled] :
         /\ g[0] = x /\ y = g[n]
         /\ \A i \in 1..n : g[i] = copy_str_to_stack(g[i - 1], strs[i])
  BY StringByString
<1> DEFINE A == {i \in 0..n : g[i].ok => StringsAt(g[i], strs, i)}
<1> HIDE DEF n
<1>2. 0 \in A
  <2>1. x.m \in Memories /\ STACK_TOP \in Nat
    BY Layout DEF Filled
  <2>2. stack_bot(x.m) \in Nat /\ stack_bot(x.m) <= STACK_TOP
    BY <2>1, Tops
  <2>3. StringsAt(x, strs, 0)
    BY <2>1, <2>2 DEF StringsAt
  <2> QED
    BY <1>0, <1>1, <2>3
<1>3. ASSUME NEW i \in 1..n, i - 1 \in A PROVE i \in A
  <2> SUFFICES ASSUME g[i].ok PROVE StringsAt(g[i], strs, i)
    BY <1>0
  <2> DEFINE u == g[i - 1]
             z == g[i]
             s == strs[i]
  <2>1. /\ u \in Filled /\ z \in Filled /\ z = copy_str_to_stack(u, s) /\ s \in Seq(Nat)
        /\ z.ok /\ (u.ok => StringsAt(u, strs, i - 1))
    BY <1>0, <1>1, <1>3
  <2> HIDE DEF u, z, s
  <2>2. /\ u.m \in Memories /\ u.sp \in Int /\ u.at \in Seq(Int)
        /\ z.m \in Memories /\ z.sp \in Int /\ z.at \in Seq(Int)
        /\ Len(s) \in Nat /\ i \in Nat /\ STACK_TOP \in Nat
    BY <1>0, <2>1, LenProperties, Layout DEF Filled
  <2>3. u.ok
    BY <2>1, StringCopied
  <2>4. /\ u.sp < STACK_TOP /\ u.sp + 1 >= stack_bot(u.m) /\ Len(u.at) = i - 1
        /\ \A k \in 1..(i - 1) :
             u.at[k] > u.sp /\ StringAt(u.m, u.at[k], strs[(i - 1) - k + 1])
    BY <2>1, <2>3 DEF StringsAt
  <2>5. /\ z.sp = u.sp - (Len(s) + 1) /\ z.at = <<z.sp + 1>> \o u.at
        /\ Lower(u.m, z.m) /\ Kept(u.m, z.m, u.sp + 1)
        /\ z.sp + 1 >= stack_bot(z.m) /\ StringAt(z.m, z.sp + 1, s)
    BY <2>1, <2>4, StringMade
  <2>6. z.sp < u.sp /\ z.sp < STACK_TOP
    BY <2>2, <2>4, <2>5
  <2>7. /\ Len(z.at) = i /\ z.at[1] = z.sp + 1
        /\ \A k \in 2..i : z.at[k] = u.at[k - 1]
    BY <2>2, <2>4, <2>5
  <2>8. ASSUME NEW k \in 1..i
        PROVE  z.at[k] > z.sp /\ StringAt(z.m, z.at[k], strs[i - k + 1])
    <3>1. CASE k = 1
      <4>1. i - k + 1 = i
        BY <2>2, <3>1
      <4> QED
        BY <2>2, <2>5, <2>7, <3>1, <4>1 DEF s
    <3>2. CASE k # 1
      <4> DEFINE a == u.at[k - 1]
                 t == strs[i - k + 1]
      <4>1. k - 1 \in 1..(i - 1) /\ (i - 1) - (k - 1) + 1 = i - k + 1 /\ k \in 2..i
            /\ i - k + 1 \in 1..n
        BY <1>0, <2>2, <3>2
      <4>2. a > u.sp /\ StringAt(u.m, a, t) /\ z.at[k] = a /\ t \in Seq(Nat)
        BY <1>0, <2>4, <2>7, <4>1
      <4> HIDE DEF a, t
      <4>3. a \in Nat /\ u.sp + 1 \in Int /\ u.sp + 1 <= a /\ a > z.sp
        <5>1. a \in Nat /\ u.sp \in Int /\ z.sp \in Int /\ z.sp < u.sp /\ a > u.sp
          BY <2>2, <2>6, <4>2 DEF StringAt
        <5> QED
          BY <5>1
      <4>4. StringAt(z.m, a, t)
        BY <2>2, <2>5, <4>2, <4>3, StringStill
      <4> QED
        BY <4>2, <4>3, <4>4 DEF t
    <3> QED
      BY <3>1, <3>2
  <2>9. StringsAt(z, strs, i)
    BY <2>5, <2>6, <2>7, <2>8 DEF StringsAt
  <2> QED
    BY <2>9 DEF z
<1> HIDE DEF A
<1>4. \A i \in 0..n : i \in A
  BY <1>0, <1>2, <1>3, BoundedInduction
<1>5. n \in 0..n
  BY <1>0
<1> QED
  BY <1>1, <1>4, <1>5 DEF A, n

LEMMA VectorMade ==
  ASSUME NEW x \in Filled, x.sp < STACK_TOP, NEW ints, Len(ints) \in Nat,
         x.ok => ints \in Seq(Nat), NEW y, y = copy_ints_to_stack(x, ints), y.ok
  PROVE  /\ x.ok /\ y.sp = x.sp - 4 * (Len(ints) + 1) /\ Lower(x.m, y.m)
         /\ Kept(x.m, y.m, x.sp + 4) /\ Lies(y.m, x.sp, 4, WordOf(0))
         /\ \A i \in 1..Len(ints) : Lies(y.m, x.sp - 4 * i, 4, WordOf(ints[i]))
<1> DEFINE n == Len(ints) + 1
           c(i) == IF i = 1 THEN 0 ELSE ints[i - 1]
           stores == [i \in 1..n |-> [a |-> x.sp - WORD * (i - 1), n |-> WORD,
                                      w |-> WordOf(c(i))]]
           p == Pushed(x, stores)
<1>1. /\ x.m \in Memories /\ x.sp \in Int /\ x.at \in Seq(Int) /\ x.ok \in BOOLEAN
      /\ x = [m |-> x.m, sp |-> x.sp, at |-> x.at, ok |-> x.ok]
  BY DEF Filled
<1>2. x \in Held(x.sp, x.at)
  BY <1>1 DEF Held
<1>3. Len(stores) = n /\ n \in Nat \ {0} /\ WORD = 4
  BY DEF WORD
<1>4. y = [p EXCEPT !.sp = @ - WORD * n]
  BY DEF copy_ints_to_stack
<1>5. x.ok
  BY VectorCopied
<1>6. ASSUME NEW i \in 1..n PROVE c(i) \in Nat
  <2>1. CASE i = 1
    BY <2>1
  <2>2. CASE i # 1
    <3>1. i - 1 \in 1..Len(ints)
      BY <2>2
    <3>2. ints[i - 1] \in Nat
      BY <1>5, <3>1, ElementOfSeq
    <3> QED
      BY <2>2, <3>2
  <2> QED
    BY <2>1, <2>2
<1>7. Descending(stores, x.sp, 4) /\ \A i \in 1..n : stores[i].w = WordOf(c(i))
  <2>1. ASSUME NEW i \in 1..n
        PROVE  /\ stores[i].a = x.sp - 4 * (i - 1) /\ stores[i].n = 4
               /\ stores[i].w = WordOf(c(i)) /\ Storable(4, stores[i].w)
    <3>1. /\ stores[i].a = x.sp - WORD * (i - 1) /\ stores[i].n = WORD
          /\ stores[i].w = WordOf(c(i))
      OBVIOUS
    <3>2. c(i) \in Nat
      BY <1>6
    <3> HIDE DEF c, stores
    <3>3. WordOf(c(i)) \in [1..WORD -> Nat]
      BY <3>2 DEF WordOf, WORD
    <3>4. WordOf(c(i)) \in Seq(Nat) /\ Len(WordOf(c(i))) = WORD
      BY <1>3, <3>3, ArrowSeq
    <3> QED
      BY <1>3, <3>1, <3>3, <3>4 DEF Storable
  <2> HIDE DEF c, stores, n
  <2> QED
    BY <1>3, <2>1 DEF Descending
<1> HIDE DEF stores, p
<1>8. p \in Held(x.sp, x.at)
  <2>1. \A i \in 1..n : stores[i].a \in Int /\ Storable(stores[i].n, stores[i].w)
    BY <1>1, <1>3, <1>7 DEF Descending
  <2> HIDE DEF n
  <2> QED
    BY <1>2, <1>3, <2>1, PushedHeld DEF p
<1>9. y.m = p.m /\ y.ok = p.ok /\ y.sp = x.sp - 4 * n
  BY <1>3, <1>4, <1>8 DEF Held
<1>10. /\ Lower(x.m, p.m) /\ Kept(x.m, p.m, x.sp + 4)
       /\ \A i \in 1..n : Lies(p.m, x.sp - 4 * (i - 1), 4, stores[i].w)
  <2>1. p.ok /\ 4 \in {1, 4}
    BY <1>9
  <2> HIDE DEF n
  <2> QED
    BY <1>1, <1>2, <1>3, <1>7, <2>1, Descends DEF p
<1>11. Lies(p.m, x.sp, 4, WordOf(0))
  <2>1. 1 \in 1..n /\ x.sp - 4 * (1 - 1) = x.sp /\ c(1) = 0
    BY <1>1, <1>3
  <2> HIDE DEF n, c
  <2> QED
    BY <1>7, <1>10, <2>1
<1>12. ASSUME NEW i \in 1..Len(ints) PROVE Lies(p.m, x.sp - 4 * i, 4, WordOf(ints[i]))
  <2>1. i + 1 \in 1..n /\ (i + 1) - 1 = i /\ c(i + 1) = ints[i]
    OBVIOUS
  <2> HIDE DEF n, c
  <2> QED
    BY <1>7, <1>10, <2>1
<1> QED
  BY <1>5, <1>9, <1>10, <1>11, <1>12

(* What is read of a word and of a string. *)
LEMMA WordRead ==
  ASSUME NEW m \in Memories, NEW a \in Int, a < STACK_TOP, NEW c \in Nat,
         Lies(m, a, 4, WordOf(c))
  PROVE  Bytes(m, a, WORD) = WordOf(c) /\ Bytes(m, a, WORD)[1] = c
<1>1. /\ Whole(a, 4) /\ InSegment(m, a)
      /\ \A k \in 1..4 : FlatBytes(m)[a + k - 1] = WordOf(c)[k]
  BY DEF Lies
<1>2. a \in Region
  BY <1>1, LiesInside
<1>3. Bytes(m, a, 4) = [i \in 1..4 |-> FlatBytes(m)[a + i - 1]]
  BY <1>1, <1>2, BytesRight
<1>4. Bytes(m, a, 4) = [i \in 1..4 |-> WordOf(c)[i]]
  BY <1>1, <1>3
<1>5. [i \in 1..4 |-> WordOf(c)[i]] = WordOf(c) /\ WordOf(c)[1] = c
  BY DEF WordOf
<1> QED
  BY <1>4, <1>5 DEF WORD

LEMMA StringRead ==
  ASSUME NEW m \in Memories, NEW a, NEW s \in Seq(Nat), StringAt(m, a, s)
  PROVE  Bytes(m, a, Len(s) + 1) = Append(s, 0)
<1> DEFINE n == Len(s) + 1
           p == a - stack_bot(m)
           t == Append(s, 0)
<1>1. /\ STACK_TOP \in Nat /\ data_top(m) \in Nat /\ stack_bot(m) \in Nat
      /\ Len(m.stack) \in Nat /\ data_top(m) <= stack_bot(m)
      /\ stack_bot(m) = STACK_TOP - Len(m.stack)
  BY Tops, Layout DEF stack_bot
<1>2. Len(s) \in Nat /\ n \in Nat
  BY LenProperties
<1>3. /\ a \in Nat /\ a >= stack_bot(m) /\ a + Len(s) < STACK_TOP
      /\ \A k \in 1..n : FlatBytes(m)[a + k - 1] = t[k]
  BY DEF StringAt
<1>4. InStack(m, a) /\ p \in Nat /\ p + n <= Len(m.stack)
  <2> DEFINE b == stack_bot(m)
             k == Len(m.stack)
  <2>1. /\ b \in Nat /\ k \in Nat /\ STACK_TOP \in Nat /\ b = STACK_TOP - k
        /\ a \in Nat /\ a >= b /\ a + Len(s) < STACK_TOP
    BY <1>1, <1>3
  <2>2. p = a - b
    OBVIOUS
  <2> HIDE DEF b, k, p
  <2>3. a \in b..(STACK_TOP - 1) /\ p \in Nat /\ p + n <= k
    BY <1>2, <2>1, <2>2
  <2> QED
    BY <2>3 DEF InStack, b, k
<1>5. t \in Seq(Nat) /\ Len(t) = n
  BY <1>2
<1>6. \A k \in 1..n : a + k - 1 \in Region
  BY StringInside
<1> HIDE DEF n, p, t
<1>7. Bytes(m, a, n) = SubSeq(m.stack, p + 1, p + n)
  <2>1. a \in Int
    BY <1>3
  <2>2. ~InData(m, a) /\ ~InKData(m, a)
    BY <1>4, <2>1, OneSegment
  <2> QED
    BY <1>4, <2>2 DEF Bytes, p
<1>8. m.stack \in Seq(Nat)
  BY Typed
<1>9. Bytes(m, a, n) = [i \in 1..n |-> m.stack[p + i]]
  BY <1>2, <1>4, <1>7, <1>8, Piece
<1>10. ASSUME NEW i \in 1..n PROVE m.stack[p + i] = t[i]
  <2>1. /\ a + i - 1 \in Region /\ ~(a + i - 1 < data_top(m))
        /\ a + i - 1 >= stack_bot(m) /\ (a + i - 1) - stack_bot(m) + 1 = p + i
    <3>1. a + i - 1 \in Region
      BY <1>6
    <3>2. /\ data_top(m) \in Nat /\ stack_bot(m) \in Nat /\ data_top(m) <= stack_bot(m)
          /\ a \in Nat /\ a >= stack_bot(m) /\ i \in Nat /\ i >= 1
      BY <1>1, <1>2, <1>3
    <3> QED
      BY <3>1, <3>2 DEF p
  <2>2. FlatBytes(m)[a + i - 1] = m.stack[p + i]
    BY <2>1 DEF FlatBytes
  <2> QED
    BY <1>3, <2>2
<1>11. t = [i \in 1..n |-> t[i]]
  BY <1>5
<1>12. Bytes(m, a, n) = t
  BY <1>9, <1>10, <1>11
<1> QED
  BY <1>12 DEF n, t

(* The parts of ArgumentsReadable, for a memory. *)
VectorAt(m, p, strings) ==
  /\ Bytes(m, p + WORD * Len(strings), WORD) = Zeros(WORD)
  /\ \A i \in DOMAIN strings :
       Bytes(m, Bytes(m, p + WORD * (i - 1), WORD)[1], Len(strings[i]) + 1)
         = Append(strings[i], 0)

Readable(m, o) ==
  o.op = "args" =>
    /\ o.sp % WORD = 0 /\ Bytes(m, o.sp, WORD) = WordOf(Len(o.v.argv))
    /\ VectorAt(m, o.a1, o.v.argv) /\ VectorAt(m, o.a2, o.v.env)

LEMMA VectorFound ==
  ASSUME NEW m \in Memories, NEW strings \in Seq(Seq(Nat)), NEW p \in Int,
         p + 4 * Len(strings) < STACK_TOP,
         Lies(m, p + 4 * Len(strings), 4, WordOf(0)),
         NEW at, \A i \in 1..Len(strings) :
                   /\ Lies(m, p + 4 * (i - 1), 4, WordOf(at[i]))
                   /\ StringAt(m, at[i], strings[i])
  PROVE  VectorAt(m, p, strings)
<1>1. Len(strings) \in Nat /\ STACK_TOP \in Nat
  BY LenProperties, Layout
<1>2. Bytes(m, p + WORD * Len(strings), WORD) = Zeros(WORD)
  <2>1. p + 4 * Len(strings) \in Int
    BY <1>1
  <2>2. Bytes(m, p + 4 * Len(strings), WORD) = WordOf(0)
    BY <2>1, WordRead
  <2>3. WordOf(0) = Zeros(WORD) /\ WORD = 4
    BY DEF WordOf, Zeros, WORD
  <2> QED
    BY <2>2, <2>3
<1>3. ASSUME NEW i \in 1..Len(strings)
      PROVE  Bytes(m, Bytes(m, p + WORD * (i - 1), WORD)[1], Len(strings[i]) + 1)
               = Append(strings[i], 0)
  <2> DEFINE a == p + 4 * (i - 1)
             s == strings[i]
             c == at[i]
  <2>1. a \in Int /\ a < STACK_TOP
    BY <1>1
  <2>2. s \in Seq(Nat)
    BY ElementOfSeq
  <2>3. Lies(m, a, 4, WordOf(c)) /\ StringAt(m, c, s)
    OBVIOUS
  <2>w. p + WORD * (i - 1) = a
    BY DEF WORD
  <2> HIDE DEF a, s, c
  <2>4. c \in Nat
    BY <2>3 DEF StringAt
  <2>5. Bytes(m, a, WORD)[1] = c
    BY <2>1, <2>3, <2>4, WordRead
  <2>6. Bytes(m, c, Len(s) + 1) = Append(s, 0)
    BY <2>2, <2>3, StringRead
  <2>7. Bytes(m, Bytes(m, a, WORD)[1], Len(s) + 1) = Append(s, 0)
    BY <2>5, <2>6
  <2> QED
    BY <2>7, <2>w DEF s
<1>4. DOMAIN strings = 1..Len(strings)
  BY LenProperties
<1> QED
  BY <1>2, <1>3, <1>4 DEF VectorAt

LEMMA ArgumentsMade ==
  ASSUME SegmentsApart, NEW m \in Memories, NEW v,
         v.argv \in Seq(Seq(Nat)), v.env \in Seq(Seq(Nat)),
         NEW r, r = initialize_run_stack(m, v)
  PROVE  Readable(r.m, r.out)
<1> DEFINE st == [m |-> m, sp |-> STACK_TOP - 1, at |-> <<>>, ok |-> TRUE]
           all == v.env \o v.argv
           strs == copy_strs_to_stack(st, all)
           argc == Len(v.argv)
           envc == Len(v.env)
           sp0 == ((((strs.sp \div 4) * 4) - WORD) \div 8) * 8
           s0 == [strs EXCEPT !.sp = sp0]
           ae == SubSeq(strs.at, argc + 1, Len(strs.at))
           aa == SubSeq(strs.at, 1, argc)
           env == Vector(s0, ae)
           vec == Vector(env, aa)
           last == Push(vec, vec.sp, WORD, WordOf(argc))
<1>1. r = IF last.ok
          THEN [m |-> last.m,
                out |-> [op |-> "args", sp |-> vec.sp, a1 |-> vec.sp + WORD,
                         a2 |-> env.sp + WORD, v |-> v]]
          ELSE [m |-> m, out |-> [op |-> "died"]]
  BY DEF initialize_run_stack
<1>2. /\ argc \in Nat /\ all \in Seq(Seq(Nat)) /\ envc \in Nat /\ STACK_TOP \in Nat
      /\ Len(all) = envc + argc /\ WORD = 4
      /\ \A i \in 1..envc : all[i] = v.env[i]
      /\ \A i \in 1..argc : all[envc + i] = v.argv[i]
  <2>1. argc \in Nat /\ envc \in Nat /\ STACK_TOP \in Nat /\ WORD = 4
    BY LenProperties, Layout DEF WORD
  <2>2. /\ all \in Seq(Seq(Nat)) /\ Len(all) = envc + argc
        /\ \A i \in 1..(envc + argc) :
             all[i] = IF i <= envc THEN v.env[i] ELSE v.argv[i - envc]
    BY ConcatProperties
  <2> HIDE DEF argc, envc, all
  <2>3. \A i \in 1..envc : i \in 1..(envc + argc) /\ i <= envc
    BY <2>1
  <2>4. \A i \in 1..argc : /\ envc + i \in 1..(envc + argc) /\ ~(envc + i <= envc)
                            /\ (envc + i) - envc = i
    BY <2>1
  <2> QED
    BY <2>1, <2>2, <2>3, <2>4
<1>3. st \in Filled /\ st.at = <<>> /\ st.sp = STACK_TOP - 1
  <2>1. STACK_TOP - 1 \in Int
    BY <1>2
  <2> DEFINE e == <<>>
  <2>3. e \in Seq(Int) /\ e \in Seq(Nat) /\ st.at = e
    OBVIOUS
  <2>4. st = [m |-> m, sp |-> STACK_TOP - 1, at |-> e, ok |-> TRUE]
    OBVIOUS
  <2> HIDE DEF e, st
  <2>5. st \in Filled /\ st.sp = STACK_TOP - 1
    BY <2>1, <2>3, <2>4 DEF Filled
  <2> QED
    BY <2>3, <2>5 DEF e
<1> SUFFICES ASSUME last.ok PROVE Readable(r.m, r.out)
  <2>1. CASE ~last.ok
    <3> HIDE DEF last, vec, env
    <3>1. r.out = [op |-> "died"]
      BY <1>1, <2>1
    <3>2. r.out.op # "args"
      BY <3>1
    <3> QED
      BY <3>2 DEF Readable
  <2> QED
    BY <2>1
<1> HIDE DEF st, all, argc, envc
<1>4. strs \in Filled /\ Len(strs.at) = Len(all)
  BY <1>2, <1>3, StringsCopied
<1>a. strs.ok => StringsAt(strs, all, Len(all))
  BY <1>2, <1>3, StringsMade
<1> HIDE DEF strs
<1>5. /\ strs.m \in Memories /\ strs.sp \in Int /\ strs.at \in Seq(Int)
      /\ strs.ok \in BOOLEAN /\ (strs.ok => strs.at \in Seq(Nat))
      /\ strs = [m |-> strs.m, sp |-> strs.sp, at |-> strs.at, ok |-> strs.ok]
  BY <1>4 DEF Filled
<1>6. sp0 \in Int /\ sp0 + 4 <= strs.sp
  BY <1>5 DEF WORD
<1> HIDE DEF sp0
<1>7. s0 \in Filled /\ s0.ok = strs.ok /\ s0.m = strs.m /\ s0.sp = sp0
  BY <1>4, <1>5, <1>6, PointerMoved
<1> HIDE DEF s0
<1>9. /\ Len(ae) = envc /\ Len(aa) = argc
      /\ strs.ok => ae \in Seq(Nat) /\ aa \in Seq(Nat)
      /\ \A i \in 1..argc : aa[i] = strs.at[i]
      /\ \A i \in 1..envc : ae[i] = strs.at[argc + i]
  <2>1. argc <= Len(strs.at) /\ Len(strs.at) = argc + envc /\ argc + 1 \in Nat
    BY <1>2, <1>4
  <2>2. ASSUME NEW S, strs.at \in Seq(S)
        PROVE  /\ ae \in Seq(S) /\ aa \in Seq(S) /\ Len(ae) = envc /\ Len(aa) = argc
               /\ \A i \in 1..argc : aa[i] = strs.at[i]
               /\ \A i \in 1..envc : ae[i] = strs.at[argc + i]
    <3> DEFINE t == strs.at
               k == argc + envc
    <3>1. t \in Seq(S) /\ Len(t) = k /\ k \in Nat /\ argc \in Nat /\ envc \in Nat
      BY <1>2, <2>1, <2>2
    <3>2. aa = SubSeq(t, 1, argc) /\ ae = SubSeq(t, argc + 1, k)
      BY <2>1
    <3> HIDE DEF t, k, aa, ae
    <3>3. /\ aa \in Seq(S) /\ Len(aa) = argc
          /\ \A i \in 1..argc : aa[i] = t[1 + i - 1]
      BY <3>1, <3>2, SubSeqProperties DEF k
    <3>4. /\ ae \in Seq(S) /\ Len(ae) = envc
          /\ \A i \in 1..envc : ae[i] = t[argc + 1 + i - 1]
      BY <3>1, <3>2, SubSeqProperties DEF k
    <3>5. /\ \A i \in 1..argc : 1 + i - 1 = i
          /\ \A i \in 1..envc : argc + 1 + i - 1 = argc + i
      BY <3>1
    <3> QED
      BY <3>3, <3>4, <3>5 DEF t
  <2> HIDE DEF ae, aa
  <2> QED
    BY <1>5, <2>2
<1> HIDE DEF ae, aa
<1>10. env \in Filled /\ (env.ok => strs.ok)
  BY <1>2, <1>7, <1>9, VectorCopied DEF Vector
<1>b. ASSUME env.ok, sp0 < STACK_TOP
      PROVE
        /\ env.sp = sp0 - 4 * (envc + 1) /\ Lower(strs.m, env.m)
        /\ Kept(strs.m, env.m, sp0 + 4) /\ Lies(env.m, sp0, 4, WordOf(0))
        /\ \A i \in 1..envc : Lies(env.m, sp0 - 4 * i, 4, WordOf(ae[i]))
  <2>1. /\ env = copy_ints_to_stack(s0, ae) /\ Len(ae) = envc /\ Len(ae) \in Nat
        /\ s0.ok => ae \in Seq(Nat)
    BY <1>2, <1>7, <1>9 DEF Vector
  <2> HIDE DEF env
  <2>2. /\ env.sp = s0.sp - 4 * (envc + 1) /\ Lower(s0.m, env.m)
        /\ Kept(s0.m, env.m, s0.sp + 4) /\ Lies(env.m, s0.sp, 4, WordOf(0))
        /\ \A i \in 1..envc : Lies(env.m, s0.sp - 4 * i, 4, WordOf(ae[i]))
    BY <1>7, <1>b, <2>1, VectorMade
  <2> QED
    BY <1>7, <2>2
<1> HIDE DEF env
<1>11. vec \in Filled /\ (vec.ok => env.ok)
  BY <1>2, <1>9, <1>10, VectorCopied DEF Vector
<1>c. ASSUME vec.ok, env.sp < STACK_TOP
      PROVE
        /\ vec.sp = env.sp - 4 * (argc + 1) /\ Lower(env.m, vec.m)
        /\ Kept(env.m, vec.m, env.sp + 4) /\ Lies(vec.m, env.sp, 4, WordOf(0))
        /\ \A i \in 1..argc : Lies(vec.m, env.sp - 4 * i, 4, WordOf(aa[i]))
  <2>1. /\ vec = copy_ints_to_stack(env, aa) /\ Len(aa) = argc /\ Len(aa) \in Nat
        /\ env.ok => aa \in Seq(Nat)
    BY <1>2, <1>9, <1>10 DEF Vector
  <2> HIDE DEF vec
  <2> QED
    BY <1>10, <1>c, <2>1, VectorMade
<1> HIDE DEF vec
<1>12. /\ env.m \in Memories /\ env.sp \in Int /\ vec.m \in Memories /\ vec.sp \in Int
       /\ vec \in Held(vec.sp, vec.at)
  BY <1>10, <1>11 DEF Filled, Held
<1>13. Storable(WORD, WordOf(argc))
  <2>1. WordOf(argc) \in [1..WORD -> Nat]
    BY <1>2 DEF WordOf, WORD
  <2>2. WORD \in Nat /\ WORD \in {1, 2, 4}
    BY DEF WORD
  <2>3. WordOf(argc) \in Seq(Nat) /\ Len(WordOf(argc)) = WORD
    BY <2>1, <2>2, ArrowSeq
  <2> QED
    BY <2>1, <2>2, <2>3 DEF Storable
<1>d. last.ok => vec.ok /\ last \in Held(vec.sp, vec.at)
  BY <1>12, <1>13, PushHeld
<1>e. last.ok /\ vec.sp < STACK_TOP =>
        /\ Lower(vec.m, last.m) /\ Kept(vec.m, last.m, vec.sp + 4)
        /\ Lies(last.m, vec.sp, 4, WordOf(argc))
  BY <1>2, <1>12, <1>13, PushMade
<1> HIDE DEF last
<1>14. /\ vec.ok /\ env.ok /\ strs.ok /\ last.m \in Memories
  BY <1>d, <1>10, <1>11 DEF Held
<1>15. StringsAt(strs, all, envc + argc) /\ sp0 < STACK_TOP
  <2>1. StringsAt(strs, all, envc + argc) /\ strs.sp < STACK_TOP
    BY <1>2, <1>14, <1>a DEF StringsAt
  <2> QED
    BY <2>1, <1>2, <1>5, <1>6
<1>16. /\ env.sp = sp0 - 4 * (envc + 1) /\ Lower(strs.m, env.m)
       /\ Kept(strs.m, env.m, sp0 + 4) /\ Lies(env.m, sp0, 4, WordOf(0))
       /\ \A i \in 1..envc : Lies(env.m, sp0 - 4 * i, 4, WordOf(ae[i]))
  BY <1>14, <1>15, <1>b
<1>17. env.sp < STACK_TOP
  BY <1>2, <1>6, <1>15, <1>16
<1>18. /\ vec.sp = env.sp - 4 * (argc + 1) /\ Lower(env.m, vec.m)
       /\ Kept(env.m, vec.m, env.sp + 4) /\ Lies(vec.m, env.sp, 4, WordOf(0))
       /\ \A i \in 1..argc : Lies(vec.m, env.sp - 4 * i, 4, WordOf(aa[i]))
  BY <1>14, <1>17, <1>c
<1>19. vec.sp < STACK_TOP
  BY <1>2, <1>12, <1>17, <1>18
<1>20. /\ Lower(vec.m, last.m) /\ Kept(vec.m, last.m, vec.sp + 4)
       /\ Lies(last.m, vec.sp, 4, WordOf(argc))
  BY <1>19, <1>e
<1>21. /\ vec.sp + 4 \in Int /\ env.sp + 4 \in Int /\ sp0 + 4 \in Int
       /\ vec.sp + 4 <= env.sp + 4 /\ env.sp + 4 <= sp0 + 4
  <2>1. /\ vec.sp \in Int /\ env.sp \in Int /\ sp0 \in Int /\ argc \in Nat /\ envc \in Nat
        /\ vec.sp = env.sp - 4 * (argc + 1) /\ env.sp = sp0 - 4 * (envc + 1)
    BY <1>2, <1>6, <1>12, <1>16, <1>18
  <2> QED
    BY <2>1
<1>22. Lower(env.m, last.m) /\ Kept(env.m, last.m, env.sp + 4)
  BY <1>12, <1>14, <1>18, <1>20, <1>21, LowerFurther, KeptFurther
<1>23. Lower(strs.m, last.m) /\ Kept(strs.m, last.m, sp0 + 4)
  BY <1>5, <1>12, <1>14, <1>16, <1>21, <1>22, LowerFurther, KeptFurther
<1> DEFINE at == strs.at
           N == envc + argc
           l == last.m
<1>24. \A k \in 1..N : StringAt(l, at[k], all[N - k + 1])
  <2> SUFFICES ASSUME NEW k \in 1..N PROVE StringAt(l, at[k], all[N - k + 1])
    OBVIOUS
  <2> DEFINE a == at[k]
             s == all[N - k + 1]
  <2>1. a > strs.sp /\ StringAt(strs.m, a, s)
    BY <1>15 DEF StringsAt
  <2>2. s \in Seq(Nat)
    <3>1. N - k + 1 \in 1..Len(all)
      BY <1>2
    <3> QED
      BY <1>2, <3>1, ElementOfSeq
  <2> HIDE DEF a, s
  <2>3. sp0 + 4 <= a
    BY <1>5, <1>6, <2>1 DEF StringAt
  <2>4. StringAt(l, a, s)
    BY <1>5, <1>14, <1>21, <1>23, <2>1, <2>2, <2>3, StringStill
  <2> QED
    BY <2>4 DEF a, s
<1> HIDE DEF at, N, l
<1>25. N = envc + argc /\ N \in Nat /\ l \in Memories /\ l = last.m
  BY <1>2, <1>14 DEF N, l
<1>26. VectorAt(l, env.sp + WORD, v.env)
  <2> DEFINE p == env.sp + 4
             ad == [i \in 1..envc |-> ae[envc - i + 1]]
  <2>1. p \in Int /\ p + 4 * envc = sp0 /\ sp0 < STACK_TOP
    BY <1>2, <1>6, <1>15, <1>16, <1>21
  <2>2. Lies(l, sp0, 4, WordOf(0))
    <3>1. sp0 \in Int /\ env.sp + 4 <= sp0 /\ 4 \in {1, 2, 4}
      BY <1>2, <1>6, <1>16
    <3> QED
      BY <1>12, <1>15, <1>16, <1>21, <1>22, <1>25, <3>1, LiesStill
  <2>3. ASSUME NEW i \in 1..envc
        PROVE  Lies(l, p + 4 * (i - 1), 4, WordOf(ad[i])) /\ StringAt(l, ad[i], v.env[i])
    <3> DEFINE j == envc - i + 1
    <3>1. /\ j \in 1..envc /\ ad[i] = ae[j] /\ p + 4 * (i - 1) = sp0 - 4 * j
          /\ sp0 - 4 * j \in Int /\ sp0 - 4 * j < STACK_TOP /\ env.sp + 4 <= sp0 - 4 * j
      BY <1>2, <1>6, <1>15, <1>16
    <3>2. /\ argc + j \in 1..N /\ N - (argc + j) + 1 = i /\ ae[j] = at[argc + j]
          /\ all[i] = v.env[i]
      <4>1. argc \in Nat /\ envc \in Nat /\ N = envc + argc /\ j = envc - i + 1
        BY <1>2, <1>25
      <4>2. argc + j \in 1..N /\ N - (argc + j) + 1 = i
        BY <4>1
      <4>3. ae[j] = at[argc + j] /\ all[i] = v.env[i]
        BY <1>2, <1>9, <3>1 DEF at
      <4> QED
        BY <4>2, <4>3
    <3>3. StringAt(l, ad[i], v.env[i])
      BY <1>24, <3>1, <3>2
    <3> HIDE DEF j
    <3>4. Lies(env.m, sp0 - 4 * j, 4, WordOf(ae[j])) /\ 4 \in {1, 2, 4}
      BY <1>16, <3>1
    <3>5. Lies(l, sp0 - 4 * j, 4, WordOf(ae[j]))
      BY <1>12, <1>21, <1>22, <1>25, <3>1, <3>4, LiesStill
    <3> QED
      BY <3>1, <3>3, <3>5
  <2> HIDE DEF ad, p
  <2>4. VectorAt(l, p, v.env)
    BY <1>25, <2>1, <2>2, <2>3, VectorFound DEF envc
  <2> QED
    BY <1>2, <2>4 DEF p
<1>27. VectorAt(l, vec.sp + WORD, v.argv)
  <2> DEFINE p == vec.sp + 4
             ad == [i \in 1..argc |-> aa[argc - i + 1]]
  <2>1. p \in Int /\ p + 4 * argc = env.sp
    BY <1>2, <1>12, <1>18, <1>21
  <2>2. Lies(l, env.sp, 4, WordOf(0))
    <3>1. vec.sp + 4 <= env.sp /\ 4 \in {1, 2, 4}
      BY <1>2, <1>12, <1>18
    <3> QED
      BY <1>12, <1>17, <1>18, <1>20, <1>21, <1>25, <3>1, LiesStill
  <2>3. ASSUME NEW i \in 1..argc
        PROVE  Lies(l, p + 4 * (i - 1), 4, WordOf(ad[i])) /\ StringAt(l, ad[i], v.argv[i])
    <3> DEFINE j == argc - i + 1
    <3>1. /\ j \in 1..argc /\ ad[i] = aa[j] /\ p + 4 * (i - 1) = env.sp - 4 * j
          /\ env.sp - 4 * j \in Int /\ env.sp - 4 * j < STACK_TOP
          /\ vec.sp + 4 <= env.sp - 4 * j
      <4>1. /\ vec.sp \in Int /\ env.sp \in Int /\ argc \in Nat /\ STACK_TOP \in Nat
            /\ vec.sp = env.sp - 4 * (argc + 1) /\ env.sp < STACK_TOP
        BY <1>2, <1>12, <1>17, <1>18
      <4> QED
        BY <4>1
    <3>2. /\ j \in 1..N /\ N - j + 1 = envc + i /\ aa[j] = at[j]
          /\ all[envc + i] = v.argv[i]
      <4>1. argc \in Nat /\ envc \in Nat /\ N = envc + argc /\ j = argc - i + 1
        BY <1>2, <1>25
      <4>2. j \in 1..N /\ N - j + 1 = envc + i
        BY <4>1
      <4>3. aa[j] = at[j] /\ all[envc + i] = v.argv[i]
        BY <1>2, <1>9, <3>1 DEF at
      <4> QED
        BY <4>2, <4>3
    <3>3. StringAt(l, ad[i], v.argv[i])
      BY <1>24, <3>1, <3>2
    <3> HIDE DEF j
    <3>4. Lies(vec.m, env.sp - 4 * j, 4, WordOf(aa[j])) /\ 4 \in {1, 2, 4}
      BY <1>18, <3>1
    <3>5. Lies(l, env.sp - 4 * j, 4, WordOf(aa[j]))
      BY <1>12, <1>20, <1>21, <1>25, <3>1, <3>4, LiesStill
    <3> QED
      BY <3>1, <3>3, <3>5
  <2> HIDE DEF ad, p
  <2>4. VectorAt(l, p, v.argv)
    BY <1>17, <1>25, <2>1, <2>2, <2>3, VectorFound DEF argc
  <2> QED
    BY <1>2, <2>4 DEF p
<1>28. vec.sp % WORD = 0 /\ Bytes(l, vec.sp, WORD) = WordOf(argc)
  <2>1. Bytes(l, vec.sp, WORD) = WordOf(argc)
    BY <1>2, <1>12, <1>19, <1>20, <1>25, WordRead
  <2>2. vec.sp % 4 = 0
    BY <1>20 DEF Lies, Whole
  <2> QED
    BY <1>2, <2>1, <2>2
<1>29. /\ r.m = l /\ r.out.sp = vec.sp /\ r.out.a1 = vec.sp + WORD
       /\ r.out.a2 = env.sp + WORD /\ r.out.v = v
  BY <1>1, <1>25
<1> QED
  BY <1>26, <1>27, <1>28, <1>29 DEF Readable, argc

(* Only initialize_run_stack leaves arguments. *)
LEMMA OtherSteps ==
  ASSUME MemInv, Next, ~InitStack, ~Finished
  PROVE  out'.op # "args"
<1>1. mem \in Memories /\ Addrs \subseteq Nat /\ Words \subseteq [1..WORD -> Nat]
  BY MemoryAssumption DEF MemInv, TypeOK
<1>2. CASE Load
  <2>1. PICK a \in Addrs, n \in {1, 2, 4} : Does(mem_read(mem, a, n))
    BY <1>2 DEF Load
  <2> DEFINE r == mem_read(mem, a, n)
  <2>2. LoadedRight(mem, r) \/ Refused(mem, r)
    BY <1>1, ReadResult
  <2>3. out' = r.out
    BY <2>1 DEF Does
  <2> HIDE DEF r
  <2> QED
    BY <2>2, <2>3 DEF LoadedRight, Refused
<1>3. CASE Store
  <2>1. PICK a \in Addrs, n \in {1, 2, 4}, w \in Words : Does(mem_write(mem, a, n, w))
    BY <1>3 DEF Store
  <2> DEFINE r == mem_write(mem, a, n, w)
  <2>2. w \in [1..WORD -> Nat] /\ WORD \in Nat /\ WORD = 4
    BY <1>1 DEF WORD
  <2>3. w \in Seq(Nat) /\ Len(w) = 4
    BY <2>2, ArrowSeq
  <2>4. a \in Int /\ n <= Len(w)
    BY <1>1, <2>3
  <2>5. StoredRight(mem, r) \/ Refused(mem, r)
    BY <1>1, <2>2, <2>3, <2>4, WriteResult
  <2>6. out' = r.out
    BY <2>1 DEF Does
  <2> HIDE DEF r
  <2> QED
    BY <2>5, <2>6 DEF StoredRight, Refused
<1>4. CASE StoreInst
  <2>1. PICK a \in Addrs, w \in Words : Does(mem_write_inst(mem, a, w))
    BY <1>4 DEF StoreInst
  <2> DEFINE r == mem_write_inst(mem, a, w)
  <2>2. a \in Int /\ w \in [1..WORD -> Nat]
    BY <1>1
  <2>3. StoredRight(mem, r) \/ Refused(mem, r)
    BY <1>1, <2>2, WriteInstResult
  <2>4. out' = r.out
    BY <2>1 DEF Does
  <2> HIDE DEF r
  <2> QED
    BY <2>3, <2>4 DEF StoredRight, Refused
<1>5. CASE Reference
  <2>1. PICK a \in Addrs : Does([m |-> mem, out |-> mem_reference(mem, a)])
    BY <1>5 DEF Reference
  <2> QED
    BY <2>1 DEF Does, mem_reference
<1>6. CASE Sbrk
  <2>1. PICK n \in Amounts :
          out' = IF expand_data(mem, n).how = "grown"
                 THEN [op |-> "sbrk", a |-> data_top(mem), n |-> n]
                 ELSE [op |-> expand_data(mem, n).how]
    BY <1>6 DEF Sbrk, Does
  <2>2. expand_data(mem, n).how \in {"error", "died", "grown"}
    BY DEF expand_data
  <2> QED
    BY <2>1, <2>2
<1>7. ASSUME NEW b \in BOOLEAN, EmitData(b) PROVE out'.op # "args"
  <2>1. PICK pc : \E e \in Growth(b, pc) :
           out' = [op |-> IF e.how = "grown" THEN "emit" ELSE e.how]
    BY <1>7 DEF EmitData
  <2>2. PICK e \in Growth(b, pc) : out' = [op |-> IF e.how = "grown" THEN "emit" ELSE e.how]
    BY <2>1
  <2>3. e.how \in {"error", "died", "grown"}
    <3>1. \A n : expand_data(mem, n).how \in {"error", "died", "grown"}
      BY DEF expand_data
    <3>2. \A n, g : expand_k_data(mem, n, g).how \in {"error", "grown"}
      BY DEF expand_k_data
    <3>3. \/ e.how = "grown"
          \/ \E n, g : e = expand_k_data(mem, n, g) \/ e = expand_data(mem, n)
      BY <2>2 DEF Growth
    <3> QED
      BY <3>1, <3>2, <3>3
  <2> QED
    BY <2>2, <2>3
<1>8. CASE Reinitialize
  BY <1>8 DEF Reinitialize
<1> QED
  BY <1>2, <1>3, <1>4, <1>5, <1>6, <1>7, <1>8 DEF Next

(* When initialize_run_stack returns, main finds its arguments: a word      *)
(* aligned pointer to argc, the two vectors in order and each string whole, *)
(* for every layout in which data and stack cannot meet and for arguments   *)
(* of any number and length, however the stack has grown under the copies.  *)
THEOREM ArgumentsFound == ASSUME SegmentsApart PROVE Spec => []ArgumentsReadable
<1>1. Init => ArgumentsReadable
  BY DEF Init, ArgumentsReadable
<1>2. MemInv /\ ArgumentsReadable /\ [Next]_vars => ArgumentsReadable'
  <2> SUFFICES ASSUME MemInv, ArgumentsReadable, [Next]_vars PROVE ArgumentsReadable'
    OBVIOUS
  <2>1. CASE UNCHANGED vars
    <3>1. Readable(mem, out)
      BY DEF ArgumentsReadable, Readable, VectorAt
    <3>2. mem' = mem /\ out' = out
      BY <2>1 DEF vars
    <3>3. Readable(mem', out')
      BY <3>1, <3>2
    <3> QED
      BY <3>3 DEF ArgumentsReadable, Readable, VectorAt
  <2>2. CASE InitStack
    <3>1. PICK v \in ArgVectors : Does(initialize_run_stack(mem, v))
      BY <2>2 DEF InitStack
    <3>2. v.argv \in Seq(Seq(Nat)) /\ v.env \in Seq(Seq(Nat)) /\ mem \in Memories
      BY MemoryAssumption DEF MemInv, TypeOK
    <3>3. PICK r : r = initialize_run_stack(mem, v)
      OBVIOUS
    <3>4. Readable(r.m, r.out) /\ mem' = r.m /\ out' = r.out
      BY <3>1, <3>2, <3>3, ArgumentsMade DEF Does
    <3>5. Readable(mem', out')
      BY <3>4
    <3> QED
      BY <3>5 DEF ArgumentsReadable, Readable, VectorAt
  <2>3. CASE Next /\ ~InitStack /\ ~Finished
    <3>1. out'.op # "args"
      BY <2>3, OtherSteps
    <3> QED
      BY <3>1 DEF ArgumentsReadable
  <2> QED
    BY <2>1, <2>2, <2>3 DEF Finished
<1> QED
  BY <1>1, <1>2, MemoryInvariant, PTL DEF Spec
=============================================================================
