------------------------------ MODULE Program ------------------------------
(***************************************************************************)
(* The text a program is made of, as far as running and debugging tell its *)
(* instructions apart.                                                     *)
(***************************************************************************)
EXTENDS Naturals, Sequences

CONSTANTS Size,      \* words of text; addresses are 1..Size, 0 is none
          Boot,      \* the instructions that initialize_world loads
          Handler,   \* address of the exception handler
          Entry,     \* address of __start
          Starts,    \* the addresses a user may start the program at
          NoInst     \* what an empty word of text holds

Text == 1..Size

Kinds == {"seq", "loop", "fault", "exit", "error"}

BootText == [a \in Text |-> IF a <= Len(Boot) THEN Boot[a] ELSE NoInst]
=============================================================================
