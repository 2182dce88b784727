------------------------------- MODULE MCCpu -------------------------------
(* Instances of Cpu for TLC. *)
EXTENDS Cpu

\* The handler: five words before address 0, 0x80000180 in small.
KernelText == -10

\* All programs over every kind of user instruction.
AllPrograms ==
  [UserText ->
    [op : {"plain", "io", "exit", "empty"}] \cup
    [op : {"fault"}, code : {"Bp", "Ov"}] \cup
    [op : {"jump"}, target : {0, 1, 3}] \cup
    [op : {"status"}, IE : BOOLEAN, EXL : BOOLEAN, IM : {Lines}]]

\* Programs for delayed branches as the MIPS architecture allows them.
SlotPrograms ==
  {p \in [UserText -> [op : {"plain", "io", "exit", "empty"}] \cup
                      [op : {"jump"}, target : UserText] \cup
                      [op : {"status"}, IE : {FALSE}, EXL : BOOLEAN, IM : {{}}]] :
     SlotProgram(p)}
=============================================================================
