--------------------------- MODULE ConsoleChannel ---------------------------
(***************************************************************************)
(* What the memory-mapped receiver promises a program: a one-place lossy   *)
(* channel.  The characters typed are numbered in order; the program       *)
(* receives a subsequence of them, in order and each at most once.         *)
(***************************************************************************)
EXTENDS Integers

CONSTANT MaxChars

VARIABLES typed,      \* number of characters typed
          slot,       \* the character waiting for the program, 0 if none
          delivered   \* the last character the program received, 0 if none

chanVars == <<typed, slot, delivered>>

Init == typed = 0 /\ slot = 0 /\ delivered = 0

Send ==
  /\ typed < MaxChars
  /\ typed' = typed + 1
  /\ UNCHANGED <<slot, delivered>>

\* A newer character takes the place of the waiting one, if any.
Load ==
  /\ \E c \in 1..typed :
       /\ c > delivered /\ c > slot
       /\ slot' = c
  /\ UNCHANGED <<typed, delivered>>

Deliver ==
  /\ slot # 0
  /\ delivered' = slot
  /\ slot' = 0
  /\ UNCHANGED typed

\* The waiting character is lost.
Lose ==
  /\ slot' = 0
  /\ UNCHANGED <<typed, delivered>>

Next == Send \/ Load \/ Deliver \/ Lose

Spec == Init /\ [][Next]_chanVars
=============================================================================
