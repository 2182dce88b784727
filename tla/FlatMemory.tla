----------------------------- MODULE FlatMemory -----------------------------
(***************************************************************************)
(* What a program may believe about its data and its stack: every address  *)
(* of the region holds a byte, zero to begin with; a load returns what was *)
(* last stored; an access that is refused changes nothing.  Segments, and  *)
(* how they grow, are not part of it.                                      *)
(***************************************************************************)
EXTENDS Naturals, Sequences

CONSTANT Region

VARIABLES bytes,   \* the byte at every address of the region
          seen     \* the last operation: [op, a, val, ...]

Zeroed == [a \in Region |-> 0]

Init == bytes = Zeroed /\ seen.op = "reset"

Load ==
  /\ seen'.op = "load"
  /\ seen'.a \in Region =>
       /\ seen'.val = [i \in 1..Len(seen'.val) |-> bytes[seen'.a + i - 1]]
       /\ seen'.signed
  /\ UNCHANGED bytes

Store ==
  /\ seen'.op = "store"
  /\ bytes' = [a \in Region |->
                 IF a - seen'.a \in 0..(Len(seen'.val) - 1)
                 THEN seen'.val[a - seen'.a + 1] ELSE bytes[a]]

\* Refused accesses, growth of a segment, accesses to instructions.
Other ==
  /\ seen'.op \in {"fault", "error", "sbrk", "inst", "emit", "io",
                 "pointer", "died"}
  /\ UNCHANGED bytes

Reset == seen'.op = "reset" /\ bytes' = Zeroed

\* The arguments of the program are put on the stack.
Arguments == seen'.op = "args"

Next == Load \/ Store \/ Other \/ Reset \/ Arguments

Spec == Init /\ [][Next]_<<bytes, seen>>
=============================================================================
