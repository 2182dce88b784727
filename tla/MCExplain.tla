---------------------------- MODULE MCExplain ----------------------------
EXTENDS Explain

\* A line of one instruction, and a line with its expansion.
Line(n, i) == <<[i |-> i, src |-> [label |-> FALSE, op |-> "real"],
                 stmt |-> [n |-> n, op |-> "real", label |-> FALSE]]>>
Expanded(n, op, label, is) ==
  [k \in 1..Len(is) |->
    [i |-> is[k], src |-> IF k = 1 THEN [label |-> label, op |-> op] ELSE NoSource,
     stmt |-> [n |-> n, op |-> op, label |-> label]]]

\* Every instruction of the templates, with registers that coincide or not and
\* addresses on and off a word and outside memory.
Pool ==
  {Inst(op, 1, 2, 3, 0) : op \in {"ADD", "SUBU", "NOR", "SLTU", "MUL", "MOVZ"}}
  \cup {Inst(op, 1, 1, 1, 9) : op \in {"ADD", "ADDI", "SLTIU"}}
  \cup {Inst("ADDU", 2, 3, 0, 0), Inst("SUB", 0, 3, 3, 0), Inst("ADDI", 1, 2, 0, 5), Inst("ORI", 0, 2, 0, 5),
        Inst("LUI", 0, 1, 0, 9), [Inst("SLL", 0, 0, 0, 0) EXCEPT !.sh = 0],
        [Inst("SRA", 0, 3, 1, 0) EXCEPT !.sh = 1], Inst("SLLV", 1, 2, 3, 0)}
  \cup {Inst(op, 1, 1, 0, 0) : op \in {"LW", "LBU", "LH"}}
  \cup {Inst(op, 2, 1, 0, 1) : op \in {"LB", "LHU", "LWL", "LWR", "SB", "SH", "SW", "SWR"}}
  \cup {Inst(op, 0, 3, 0, 4) : op \in {"LL", "SC", "SW", "SH", "SB", "LWC1", "SWC1", "LBU"}}
  \cup {Inst("LDC1", 2, 0, 0, 0), Inst("SDC1", 0, 0, 0, 0), Inst("LW", 3, 1, 0, 0),
        Inst("SWL", 3, 2, 0, 0), Inst("SDC1", 0, 1, 0, 0)}
  \cup {Inst(op, 1, 2, 0, 2) : op \in {"BEQ", "BNE", "BEQL", "BGEZALL", "BLTZAL"}}
  \cup {Inst(op, r, 0, 0, 2) : op \in {"BGEZ", "BGTZ", "BLEZ", "BLTZ"}, r \in {1, 3}}
  \cup {Inst("J", 0, 0, 0, 2), Inst("JAL", 0, 0, 0, 2), Inst("JR", 2, 0, 0, 0),
        Inst("JALR", 2, 0, 2, 0), Inst("MFHI", 0, 0, 1, 0), Inst("MTLO", 1, 0, 0, 0),
        Inst("MULT", 1, 3, 0, 0), Inst("DIVU", 3, 2, 0, 0), Inst("MADD", 1, 2, 0, 0),
        Inst("TNE", 1, 2, 0, 0), Inst("BREAK", 0, 0, 0, 0)}

Follow ==
  {Inst("ADDI", 1, 1, 0, 9), Inst("MFLO", 0, 0, 2, 0), Inst("SYNC", 0, 0, 0, 0),
   Inst("SLLV", 2, 3, 1, 0), Inst("SB", 2, 1, 0, 1), Inst("MULT", 3, 3, 0, 0),
   Inst("MTHI", 3, 0, 0, 0), Inst("LW", 0, 3, 0, 4)}

Pairs == {Line(1, a) \o Line(2, b) \o Line(3, c) \o Line(4, Inst("OR", 1, 2, 4, 0)) :
            a \in Pool, b \in Follow, c \in {Inst("SW", 0, 3, 0, 0)}}

Calls == {Line(1, Inst("ORI", 0, REG_V0, 0, n)) \o Line(2, Inst("SYSCALL", 0, 0, 0, 0))
            \o Line(3, Inst("ADDU", 2, 3, 1, 0)) : n \in 0..15}
         \cup {Line(1, Inst("ORI", 0, REG_V0, 0, 15)) \o Line(2, Inst("ADDI", REG_V0, REG_V0, 0, n))
                 \o Line(3, Inst("SYSCALL", 0, 0, 0, 0)) : n \in {1, 2}}

\* Statements of one and of several instructions, with and without a label, in
\* every order; blt may branch over what follows it and into the middle of rol.
Statement(n, k) ==
  CASE k = 1 -> Expanded(n, "li", FALSE, <<Inst("LUI", 0, 1, 0, 1), Inst("ORI", 1, 1, 0, 2)>>)
    [] k = 2 -> Expanded(n, "la", TRUE, <<Inst("LUI", 0, 3, 0, 1), Inst("ORI", 3, 3, 0, 2)>>)
    [] k = 3 -> Expanded(n, "move", FALSE, <<Inst("ADDU", 0, 1, 3, 0)>>)
    [] k = 4 -> Expanded(n, "lw", FALSE, <<Inst("LUI", 0, 3, 0, 0), Inst("LW", 3, 3, 0, 1)>>)
    [] k = 5 -> Expanded(n, "blt", FALSE, <<Inst("SLT", 1, 2, 3, 0), Inst("BNE", 3, 0, 0, 3)>>)
    [] k = 6 -> Line(n, Inst("SUB", 0, 2, 1, 0))
    [] k = 7 -> Expanded(n, "rol", FALSE, <<Inst("SUBU", 0, 1, 4, 0), Inst("SRLV", 4, 2, 4, 0),
                                             Inst("SLLV", 1, 2, 3, 0), Inst("OR", 3, 4, 3, 0)>>)
Texts == {Statement(1, a) \o Statement(2, b) \o Statement(3, c) \o Statement(4, d) :
            a \in 1..7, b \in 1..7, c \in 1..7, d \in {1, 2, 5}}

MCAnswers == {[v |-> 9, ok |-> TRUE], [v |-> 0, ok |-> FALSE]}
MCPrograms == Pairs \cup Calls \cup Texts

Registers(a, b, c) == <<0, a, b, c, 0>>
MCStarts ==
  {[g |-> [n \in Regs |-> g[n + 1]], hi |-> 7, lo |-> 0, f |-> [n \in FRegs |-> 5 * n],
    mem |-> [a \in 0..7 |-> (a * 3 + 1) % 4]] :
     g \in {Registers(0, 0, 0), Registers(4, 4, 200), Registers(127, 3, 128)}}
==========================================================================
