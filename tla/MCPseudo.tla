----------------------------- MODULE MCPseudo -----------------------------
EXTENDS Pseudo

\* Operands and immediates at the edges of a word and of a half.
Edges == {0, 1, 5, 255, 256, 32767, 32768, 65535}
Immediates == {0, 1, 127, 128, 255, 256, 300, 32767, 32768, 65408, 65535}


\* $2 and $3 are operands; $4 holds 16.
Memory1 == [a \in 0..(MemSize - 1) |-> (7 * a + 3) % 16]
Case(st, a, b) ==
  [s |-> st, g |-> [n \in Regs |-> IF n = 2 THEN a ELSE IF n = 3 THEN b ELSE 4 * n],
   f |-> [n \in FRegs |-> 11 * n], mem |-> Memory1]

Stmt(op, rd, rs, rt) == [op |-> op, rd |-> rd, rs |-> rs, rt |-> rt, imm |-> FALSE, v |-> 0,
                         w |-> 0]
StmtI(op, rd, rs, v) == [op |-> op, rd |-> rd, rs |-> rs, rt |-> 0, imm |-> TRUE, v |-> v,
                         w |-> 40000]

Binary == {"ROR", "ROL", "MUL", "MULO", "MULOU"} \cup SetOps \cup Divisions
            \cup DOMAIN op_to_imm_op \cup {"SUB", "SUBU"}
OnTwo ==
  {Stmt(op, rd, 2, 3) : op \in Binary, rd \in {2, 3}}
  \cup {Stmt(op, 0, 2, 3) : op \in BrOps}
OnOne ==
  {StmtI(op, rd, 2, v) : op \in Binary \ Divisions, rd \in {2, 3}, v \in Immediates}
  \cup {StmtI(op, 3, 2, v) : op \in Divisions, v \in Immediates \ {0}}
  \cup {StmtI(op, 0, 2, v) : op \in BrOps, v \in Immediates}
  \cup {Stmt(op, rd, 2, 3) : op \in UnaryOps \ {"LI"}, rd \in {2, 3}}
  \cup {StmtI("LI", 3, 0, v) : v \in Immediates}
  \cup {StmtI("LA", 3, rs, v) : rs \in {0, 2}, v \in Immediates}
  \cup {Stmt(op, 0, 2, 3) : op \in {"BEQZ", "BNEZ", "B", "BAL"}}
  \cup {Stmt(op, 2, 2, 0) : op \in {"MFC1.D", "MTC1.D"}}
  \cup {StmtI(op, 2, 0, v) : op \in {"LI.S", "LI.D"}, v \in Immediates}
Accesses ==
  {StmtI(op, 2, 3, v) : op \in DOMAIN FpMemory, v \in {0, 4, 128}}
  \cup {StmtI(op, 2, rs, v) : op \in MemOps \ {"LA"}, rs \in {0, 3, 4}, v \in {0, 1, 2, 3, 4, 130}}

MCCases ==
  {Case(st, a, b) : st \in OnTwo, a \in Edges, b \in Edges}
  \cup {Case(st, a, 5) : st \in OnOne, a \in Edges}
  \cup {Case(st, a, b) : st \in Accesses, a \in {0, 43981}, b \in {0, 4, 65408, 65409}}
===========================================================================
