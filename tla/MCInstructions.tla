-------------------------- MODULE MCInstructions --------------------------
EXTENDS Instructions

\* Words at the edges of the halves and of the signed range, and some between.
Edges == {0, 1, 2, 3, 15, 16, 17, 31, 85, 127, 128, 129, 170, 240, 241, 254, 255}
Memories == {[a \in 0..7 |-> (a * 3 + 1) % 4], [a \in 0..7 |-> IF a < 4 THEN 2 ELSE 1]}
Memory1 == [a \in 0..7 |-> (a * 3 + 1) % 4]

\* Operands only evaluated, and machines that run programs.
MCStarts ==
  [pc : {8}, g : {<<0, a, b, 7, 0>> : a \in Edges, b \in Edges}, hi : {0, 127}, lo : {0, 200},
   f : {<<0, 0, 0, 0>>}, mem : {Memory1}, steps : {FALSE}]
  \cup
  [pc : {8}, g : {<<0, 0, 0, 0, 0>>}, hi : {0}, lo : {0},
   f : {<<a, b, c, d>> : a \in {2, 7, 127, 128, 249}, b \in {0, 1, 128, 255},
                        c \in {0, 7, 128, 250}, d \in {0, 128}},
   mem : {Memory1}, steps : {FALSE}]
  \cup
  [pc : {8}, g : {<<0, 0, 4, 255, 0>>}, hi : {0}, lo : {0},
   f : {<<5, 0, 0, 0>>}, mem : Memories, steps : {TRUE}]

MCRegisters(s) == [s EXCEPT !.g = [n \in Regs |-> s.g[n + 1]],
                            !.f = [n \in FRegs |-> s.f[n + 1]]]
MCInit == {MCRegisters(s) : s \in MCStarts}

MCInsts ==
  {Inst("ADD", 1, 2, 1, 0), Inst("ADDU", 2, 3, 3, 0), Inst("ADDI", 1, 1, 0, 9),
   Inst("ORI", 0, 0, 0, 5), Inst("SLTU", 1, 2, 0, 0), Inst("MULT", 1, 2, 0, 0),
   Inst("TNE", 1, 2, 0, 0), Inst("COP2", 0, 0, 0, 0),
   Inst("LW", 0, 1, 0, 4), Inst("LBU", 2, 2, 0, 1), Inst("LH", 1, 1, 0, 0),
   Inst("LWR", 0, 2, 0, 1), Inst("SW", 0, 1, 0, 4), Inst("SWL", 2, 2, 0, 1),
   Inst("LW", 0, 0, 0, 0), Inst("LWC1", 2, 1, 0, 0), Inst("LDC1", 0, 2, 0, 0),
   Inst("SDC1", 2, 2, 0, 0),
   Inst("BLTZAL", 1, 0, 0, 2), Inst("BEQL", 1, 2, 0, 14), Inst("JALR", 1, 0, 3, 0),
   Inst("BC1", 0, 1, 0, 2), Inst("MTC1", 0, 1, 1, 0), Inst("CTC1", 0, 2, 31, 0),
   [Inst("C", 12, 0, 1, 0) EXCEPT !.fmt = "s"],
   [Inst("FP", 0, 0, 1, 0) EXCEPT !.fn = "add", !.sh = 3],
   [Inst("FP", 0, 1, 2, 0) EXCEPT !.fn = "neg", !.fmt = "d", !.sh = 1]}
===========================================================================
