------------------------------ MODULE Machine ------------------------------
(***************************************************************************)
(* The machine a program sees when nobody debugs it: its text, and a       *)
(* program counter that follows the instructions.  The debugger promises   *)
(* to be invisible to it.                                                  *)
(***************************************************************************)
EXTENDS Program

VARIABLES code, pc

\* Where an instruction of kind k at address a may leave the program counter.
\* A fault enters the handler; it falls through when the exception is lost,
\* which happens to a program that is stepped with its instructions displayed.
Successors(k, a) ==
  CASE k = "seq"   -> {a + 1}
    [] k = "loop"  -> {Entry}
    [] k = "fault" -> {Handler, a + 1}
    [] OTHER       -> {a}

Init == code = BootText /\ pc = 0

\* A fetch beyond the text raises an exception too.
Execute ==
  /\ pc # 0
  /\ pc' \in IF pc \in Text THEN Successors(code[pc], pc) ELSE {Handler}
  /\ UNCHANGED code

Start == pc' \in Starts /\ UNCHANGED code

\* A file is assembled into the empty words.
Load ==
  /\ \A a \in Text : code[a] # NoInst => code'[a] = code[a]
  /\ UNCHANGED pc

Reset == code' = BootText /\ pc' = 0

Next == Execute \/ Start \/ Load \/ Reset

Spec == Init /\ [][Next]_<<code, pc>>
=============================================================================
