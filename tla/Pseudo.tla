------------------------------- MODULE Pseudo -------------------------------
(***************************************************************************)
(* Pseudo-operations: the instructions the parser emits for one statement  *)
(* (do_parse_pseudo and the immediate forms of parse_r3, parse_b2 and      *)
(* div in parser.c, the expanders of pseudo-op.c), the instructions the    *)
(* emit phase makes of one whose immediate does not fit (i_type_inst and   *)
(* its helpers in instruction.c), and their execution on the machine of    *)
(* Execution without delay slots.                                          *)
(*                                                                         *)
(* A statement s is [op, rd, rs, rt, imm, v, w]: three registers, or imm   *)
(* and the value v of an immediate operand (w is the second word of a      *)
(* double).  Its code is laid out at Base, and the label of a branch is at *)
(* Target.                                                                 *)
(***************************************************************************)
EXTENDS Execution, TLC

CONSTANT Cases      \* the statements, with the registers and memory each runs on

AT     == 1
Base   == 64
Target == 128
Label  == -1        \* stands for the offset to Target

VARIABLES s, code, start, r
vars == <<s, code, start, r>>

-----------------------------------------------------------------------------
(* Instructions with immediates of a whole word (instruction.c).           *)

R(op, rd, rs, rt) == <<Inst(op, rs, rt, rd, 0)>>
Raw(op, rt, rs, v) == <<Inst(op, rs, rt, 0, v)>>
Sh(op, rd, rt, shamt) == <<[Inst(op, 0, rt, rd, 0) EXCEPT !.sh = shamt % Bits]>>
nop_inst  == Sh("SLL", 0, 0, 0)

\* Mutant of trap_inst: an instruction the machine does not have.
trap_reserved == R("TLB", 0, 0, 0)

trap_inst == R("BREAK", 0, 0, 0)

FpMemory == ("L.S" :> "LWC1") @@ ("L.D" :> "LDC1") @@ ("S.S" :> "SWC1") @@ ("S.D" :> "SDC1")
LoadStoreOps == LoadOps \cup StoreOps \cup {"LWL", "LWR", "SWL", "SWR"}
                  \cup {FpMemory[op] : op \in DOMAIN FpMemory}
SignedImmOps == LoadStoreOps \cup {"ADDI", "ADDIU", "SLTI", "SLTIU"} \cup TrapImmOps
imm_op_to_op == RegisterForm @@ [LUI |-> "ADDU"]

\* produce_immediate: v in rt, through $at when both halves count.
produce_immediate(rt, v) ==
  LET high == v \div HalfMod  low == v % HalfMod IN
  IF low = 0 THEN Raw("LUI", rt, 0, high)
  ELSE IF high = 0 THEN Raw("ORI", rt, 0, low)
  ELSE Raw("LUI", AT, 0, high) \o Raw("ORI", rt, AT, low)

\* Mutant: the high half of a load's address is not adjusted.
FullWordUnadjusted(op, rt, rs, v) ==
  IF op \in LoadStoreOps
  THEN Raw("LUI", AT, 0, v \div HalfMod)
         \o (IF rs # 0 THEN R("ADDU", AT, AT, rs) ELSE <<>>)
         \o Raw(op, rt, AT, v % HalfMod)
  ELSE IF op \in {"ORI", "ADDI", "ADDIU", "LUI"} /\ rs = 0
  THEN produce_immediate(rt, v)
  ELSE produce_immediate(AT, v) \o R(imm_op_to_op[op], rt, rs, AT)

\* i_type_inst_full_word for a known value.  A load adds its low half with the
\* sign, so the high half is one more when that is negative.
i_type_inst_full_word(op, rt, rs, v) ==
  IF op \in LoadStoreOps
  THEN LET low == v % HalfMod
           high == (v \div HalfMod) + Truth(low >= HalfMod \div 2)
       IN Raw("LUI", AT, 0, high) \o (IF rs # 0 THEN R("ADDU", AT, AT, rs) ELSE <<>>)
            \o Raw(op, rt, AT, low)
  ELSE IF op \in {"ORI", "ADDI", "ADDIU", "LUI"} /\ rs = 0
  THEN produce_immediate(rt, v)
  ELSE produce_immediate(AT, v) \o R(imm_op_to_op[op], rt, rs, AT)

\* i_type_inst for a known value: one instruction if the immediate fits as the
\* instruction will read it.
i_type_inst(op, rt, rs, v) ==
  LET fits == IF op \in SignedImmOps
              THEN v < HalfMod \div 2 \/ v >= Mod - HalfMod \div 2 ELSE v < HalfMod
  IN IF fits THEN Raw(op, rt, rs, v % HalfMod) ELSE i_type_inst_full_word(op, rt, rs, v)

\* Mutant of Skip: the distance is counted from the end of the sequence.
SkipFromEnd(op, rt, rs, n) == Raw(op, rt, rs, n - 3)

\* Branches: by n instructions, and to the label.
Skip(op, rt, rs, n) == Raw(op, rt, rs, n)
Goto(op, rt, rs)    == Raw(op, rt, rs, Label)
Plus(v, n) == (v + n) % Mod            \* incr_expr_offset

-----------------------------------------------------------------------------
(* Expanders (pseudo-op.c).                                                *)

div_inst(op, rd, rs, rt, const_divisor) ==
  (IF rd # 0 /\ ~const_divisor
   THEN Skip("BNE", 0, rt, 3) \o nop_inst \o trap_inst ELSE <<>>)
  \o R(IF op \in {"DIV", "REM"} THEN "DIV" ELSE "DIVU", 0, rs, rt)
  \o (IF rd = 0 THEN <<>>
      ELSE R(IF op \in {"DIV", "DIVU"} THEN "MFLO" ELSE "MFHI", rd, 0, 0))

mult_inst(op, rd, rs, rt) ==
  R(IF op = "MULOU" THEN "MULTU" ELSE "MULT", 0, rs, rt)
  \o (IF rd = 0 THEN <<>>
      ELSE IF op = "MULOU"
      THEN R("MFHI", AT, 0, 0) \o Skip("BEQ", 0, AT, 3) \o nop_inst \o trap_inst
      ELSE R("MFHI", AT, 0, 0) \o R("MFLO", rd, 0, 0) \o Sh("SRA", rd, rd, Bits - 1)
             \o Skip("BEQ", rd, AT, 3) \o nop_inst \o trap_inst)
  \o (IF rd = 0 THEN <<>> ELSE R("MFLO", rd, 0, 0))

\* What follows when rs and rt are equal is 1, else a comparison.
set_or_equal(rd, rs, rt, compare) ==
  Skip("BNE", rs, rt, 3) \o Raw("ORI", rd, 0, 1) \o Skip("BEQ", 0, 0, 3)
  \o nop_inst \o compare
set_le_inst(op, rd, rs, rt) ==
  set_or_equal(rd, rs, rt, R(IF op = "SLE" THEN "SLT" ELSE "SLTU", rd, rs, rt))
set_ge_inst(op, rd, rs, rt) ==
  set_or_equal(rd, rs, rt, R(IF op = "SGE" THEN "SLT" ELSE "SLTU", rd, rt, rs))
set_gt_inst(op, rd, rs, rt) == R(IF op = "SGT" THEN "SLT" ELSE "SLTU", rd, rt, rs)
set_eq_inst(op, rd, rs, rt) ==
  LET if_eq == Truth(op = "SEQ") IN
  Skip("BEQ", rs, rt, 3) \o Raw("ORI", rd, 0, 1 - if_eq) \o Skip("BEQ", 0, 0, 3)
  \o nop_inst \o Raw("ORI", rd, 0, if_eq)

-----------------------------------------------------------------------------
(* Statements (parser.c).                                                  *)

\* The operand of a statement as a register: the immediate goes to $at first.
InReg(t)   == IF t.imm THEN AT ELSE t.rt
Loaded(t)  == IF t.imm THEN i_type_inst("ORI", AT, 0, t.v) ELSE <<>>

UnaryOps == {"LI", "MOVE", "NEG", "NEGU", "NOT", "ABS"}
Unary(t) ==
  CASE t.op = "LI"   -> i_type_inst("ORI", t.rd, 0, t.v)
    [] t.op = "MOVE" -> R("ADDU", t.rd, 0, t.rs)
    [] t.op = "NEG"  -> R("SUB", t.rd, 0, t.rs)
    [] t.op = "NEGU" -> R("SUBU", t.rd, 0, t.rs)
    [] t.op = "NOT"  -> R("NOR", t.rd, t.rs, 0)
    [] t.op = "ABS"  ->
         (IF t.rd # t.rs THEN R("ADDU", t.rd, 0, t.rs) ELSE <<>>)
         \o Skip("BGEZ", 0, t.rs, 3) \o nop_inst \o R("SUB", t.rd, 0, t.rs)

\* Rotations, by a register or by a constant.
Rotate(t) ==
  LET away == IF t.op = "ROR" THEN "SLL" ELSE "SRL"
      back == IF t.op = "ROR" THEN "SRL" ELSE "SLL"
      v(op) == IF op = "SLL" THEN "SLLV" ELSE "SRLV"
  IN (IF t.imm
      THEN Sh(away, AT, t.rs, -t.v) \o Sh(back, t.rd, t.rs, t.v)
      ELSE R("SUBU", AT, 0, t.rt) \o R(v(away), AT, AT, t.rs)
             \o R(v(back), t.rd, t.rt, t.rs))
     \o R("OR", t.rd, t.rd, AT)

\* Comparisons; zero is read from $0.
SetOps == {"SLE", "SLEU", "SGT", "SGTU", "SGE", "SGEU", "SEQ", "SNE"}
Set(t) ==
  LET rt == IF t.imm /\ t.v = 0 THEN 0 ELSE InReg(t)
  IN (IF rt = AT THEN Loaded(t) ELSE <<>>)
     \o CASE t.op \in {"SLE", "SLEU"} -> set_le_inst(t.op, t.rd, t.rs, rt)
          [] t.op \in {"SGT", "SGTU"} -> set_gt_inst(t.op, t.rd, t.rs, rt)
          [] t.op \in {"SGE", "SGEU"} -> set_ge_inst(t.op, t.rd, t.rs, rt)
          [] t.op \in {"SEQ", "SNE"}  -> set_eq_inst(t.op, t.rd, t.rs, rt)

\* Division with three operands, remainders, checked products.
Divisions == {"DIV", "DIVU", "REM", "REMU"}
DivRem(t) == Loaded(t) \o div_inst(t.op, t.rd, t.rs, InReg(t), t.imm)
Mul(t) ==
  IF t.op = "MUL" THEN Loaded(t) \o R("MUL", t.rd, t.rs, InReg(t))
  ELSE IF t.imm /\ t.v = 0 THEN Raw("ORI", t.rd, 0, 0)
  ELSE Loaded(t) \o mult_inst(t.op, t.rd, t.rs, InReg(t))

\* The operations that have an immediate form; SUB adds the negated value.
op_to_imm_op ==
  [ADD |-> "ADDI", ADDU |-> "ADDIU", AND |-> "ANDI", OR |-> "ORI", XOR |-> "XORI",
   SLT |-> "SLTI", SLTU |-> "SLTIU"]
\* Mutant: the value is not negated.
ArithSame(t) ==
  IF ~t.imm THEN R(t.op, t.rd, t.rs, t.rt)
  ELSE IF t.op = "SUBU" THEN i_type_inst("ADDIU", t.rd, t.rs, t.v)
  ELSE i_type_inst((op_to_imm_op @@ [SUB |-> "ADDI"])[t.op], t.rd, t.rs, t.v)

Arith(t) ==
  IF ~t.imm THEN R(t.op, t.rd, t.rs, t.rt)
  ELSE IF t.op = "SUB" THEN i_type_inst("ADDI", t.rd, t.rs, (-t.v) % Mod)
  ELSE IF t.op = "SUBU" THEN i_type_inst("ADDIU", t.rd, t.rs, (-t.v) % Mod)
  ELSE i_type_inst(op_to_imm_op[t.op], t.rd, t.rs, t.v)

\* Accesses to two words, to unaligned words and halves, at v(rs); LA.
MemOps == {"LD", "SD", "ULW", "ULH", "ULHU", "USW", "USH", "LA"}
Memory(t) ==
  LET at(op, rt, n) == i_type_inst(op, rt, t.rs, Plus(t.v, n))
      byte == Bits \div 4
      last == Bits - byte
  IN CASE t.op = "LD"  -> at("LW", t.rd, 0) \o at("LW", t.rd + 1, 4)
       [] t.op = "SD"  -> at("SW", t.rd, 0) \o at("SW", t.rd + 1, 4)
       [] t.op = "ULW" -> at("LWL", t.rd, 3) \o at("LWR", t.rd, 0)
       [] t.op = "USW" -> at("SWL", t.rd, 3) \o at("SWR", t.rd, 0)
       [] t.op \in {"ULH", "ULHU"} ->
            at(IF t.op = "ULH" THEN "LB" ELSE "LBU", t.rd, 1) \o at("LBU", AT, 0)
            \o Sh("SLL", t.rd, t.rd, byte) \o R("OR", t.rd, t.rd, AT)
       [] t.op = "USH" ->
            at("SB", t.rd, 0)
            \o Sh("SLL", AT, t.rd, last) \o Sh("SRL", t.rd, t.rd, byte)
            \o R("OR", t.rd, t.rd, AT) \o at("SB", t.rd, 1)
            \o Sh("SRL", AT, t.rd, last) \o Sh("SLL", t.rd, t.rd, byte)
            \o R("OR", t.rd, t.rd, AT)
       [] t.op = "LA" ->
            IF t.rs # 0 THEN i_type_inst("ADDI", t.rd, t.rs, t.v)
            ELSE i_type_inst("ORI", t.rd, 0, t.v)

\* Conditional branches on two operands.
BrOps == {"BEQ", "BNE", "BGT", "BGTU", "BGE", "BGEU", "BLT", "BLTU", "BLE", "BLEU"}
parse_b2(t) ==
  IF ~t.imm THEN Goto(t.op, t.rt, t.rs)
  ELSE IF t.v = 0 THEN Goto(t.op, t.rs, 0)
  ELSE Loaded(t) \o Goto(t.op, t.rs, AT)
slt(op) == IF op \in {"BGT", "BGE", "BLT", "BLE"} THEN "SLT" ELSE "SLTU"
slti(op) == IF slt(op) = "SLT" THEN "SLTI" ELSE "SLTIU"
BranchReg(t) ==
  CASE t.op \in {"BGT", "BGTU"} -> R(slt(t.op), AT, t.rt, t.rs) \o Goto("BNE", 0, AT)
    [] t.op \in {"BLE", "BLEU"} -> R(slt(t.op), AT, t.rt, t.rs) \o Goto("BEQ", 0, AT)
    [] t.op \in {"BGE", "BGEU"} -> R(slt(t.op), AT, t.rs, t.rt) \o Goto("BEQ", 0, AT)
    [] t.op \in {"BLT", "BLTU"} -> R(slt(t.op), AT, t.rs, t.rt) \o Goto("BNE", 0, AT)

\* Mutant: unsigned branches compare without the case of equality.
BranchImmShort(t) ==
  IF t.op = "BGTU" THEN Loaded(t) \o R("SLTU", AT, t.rs, AT) \o Goto("BEQ", 0, AT)
  ELSE i_type_inst(slti(t.op), AT, t.rs, t.v)
         \o Goto(IF t.op \in {"BGE", "BGEU", "BGT"} THEN "BEQ" ELSE "BNE", 0, AT)

BranchImm(t) ==
  CASE t.op = "BGT" -> i_type_inst("SLTI", AT, t.rs, Plus(t.v, 1)) \o Goto("BEQ", 0, AT)
    [] t.op = "BLE" -> i_type_inst("SLTI", AT, t.rs, Plus(t.v, 1)) \o Goto("BNE", 0, AT)
    [] t.op = "BGTU" ->
         Loaded(t) \o Skip("BEQ", t.rs, AT, 3) \o R("SLTU", AT, t.rs, AT)
         \o Goto("BEQ", 0, AT)
    [] t.op = "BLEU" ->
         Loaded(t) \o Goto("BEQ", t.rs, AT) \o R("SLTU", AT, t.rs, AT)
         \o Goto("BNE", 0, AT)
    [] t.op \in {"BGE", "BGEU"} -> i_type_inst(slti(t.op), AT, t.rs, t.v) \o Goto("BEQ", 0, AT)
    [] t.op \in {"BLT", "BLTU"} -> i_type_inst(slti(t.op), AT, t.rs, t.v) \o Goto("BNE", 0, AT)

BranchZero(t) ==
  CASE t.op = "BEQZ" -> Goto("BEQ", 0, t.rs)
    [] t.op = "BNEZ" -> Goto("BNE", 0, t.rs)
    [] t.op = "B"    -> Goto("BGEZ", 0, 0)
    [] t.op = "BAL"  -> Goto("BGEZAL", 0, 0)

\* Mutant of FpPair: the second move takes the first register of the pair.
FpPairLow(t) ==
  LET one(n) == <<Inst(IF t.op = "MFC1.D" THEN "MFC1" ELSE "MTC1", 0, t.rd + n, t.rs, 0)>>
  IN one(0) \o one(1)

\* Pairs of words between the register files.
FpPair(t) ==
  LET one(n) == <<Inst(IF t.op = "MFC1.D" THEN "MFC1" ELSE "MTC1",
                       0, t.rd + n, t.rs + n, 0)>>
  IN one(0) \o one(1)

\* Constants for the floating point registers, and its loads and stores.
LiFp(t) ==
  LET one(n, v) == i_type_inst("ORI", AT, 0, v) \o <<Inst("MTC1", 0, AT, t.rd + n, 0)>>
  IN one(0, t.v) \o (IF t.op = "LI.D" THEN one(1, t.w) ELSE <<>>)
FpMem(t) == i_type_inst(FpMemory[t.op], t.rd, t.rs, t.v)

Expand(t) ==
  CASE t.op \in UnaryOps       -> Unary(t)
    [] t.op \in {"ROR", "ROL"} -> Rotate(t)
    [] t.op \in SetOps         -> Set(t)
    [] t.op \in Divisions      -> DivRem(t)
    [] t.op \in {"MUL", "MULO", "MULOU"} -> Mul(t)
    [] t.op \in DOMAIN op_to_imm_op \cup {"SUB", "SUBU"} -> Arith(t)
    [] t.op \in MemOps         -> Memory(t)
    [] t.op \in {"BEQ", "BNE"} -> parse_b2(t)
    [] t.op \in BrOps \ {"BEQ", "BNE"} -> IF t.imm THEN BranchImm(t) ELSE BranchReg(t)
    [] t.op \in {"BEQZ", "BNEZ", "B", "BAL"} -> BranchZero(t)
    [] t.op \in {"MFC1.D", "MTC1.D"} -> FpPair(t)
    [] t.op \in {"LI.S", "LI.D"}     -> LiFp(t)
    [] t.op \in DOMAIN FpMemory      -> FpMem(t)

-----------------------------------------------------------------------------
(* Execution.                                                              *)

Code(t) ==
  LET e == Expand(t) IN
  [k \in DOMAIN e |->
     IF e[k].imm = Label
     THEN [e[k] EXCEPT !.imm = ((Target - (Base + 4 * (k - 1))) \div 4) % HalfMod]
     ELSE e[k]]
Place(pc) == ((pc - Base) \div 4) + 1
Running == r.exc = "none" /\ Place(r.pc) \in DOMAIN code

Init ==
  \E c \in Cases :
    /\ s = c.s
    /\ code = Code(c.s)
    /\ start = [pc |-> Base, g |-> c.g, hi |-> 0, lo |-> 0, f |-> c.f,
                fcr |-> [k \in FCRs |-> 0], mem |-> c.mem,
                ld1 |-> <<>>, ld2 |-> <<>>, exc |-> "none", end |-> FALSE]
    /\ r = start

Run ==
  /\ Running
  /\ r' = Step(r, code[Place(r.pc)], FALSE)
  /\ UNCHANGED <<s, code, start>>
Done == ~Running /\ UNCHANGED vars

Next == Run \/ Done
Spec == Init /\ [][Next]_vars /\ WF_vars(Run)

-----------------------------------------------------------------------------
(* What the statements mean.                                               *)

Finished == ~Running
Operand(t) == IF t.imm THEN t.v ELSE start.g[t.rt]
A == start.g[s.rs]
B == Operand(s)
Magnitude(n) == IF n < 0 THEN -n ELSE n
Fits(n) == n \in -SignBit..(SignBit - 1)

\* Quotient and remainder as the languages define them: towards zero.
TrueQuotient(a, b)  == IF (a < 0) = (b < 0) THEN Magnitude(a) \div Magnitude(b)
                   ELSE -(Magnitude(a) \div Magnitude(b))
TrueRemainder(a, b) == a - b * TrueQuotient(a, b)
RotatedRight(a, k) == (a \div 2^k) + ((a % 2^k) * 2^(Bits - k))

Holds(op, a, b) ==
  CASE op \in {"SEQ", "BEQ"}   -> a = b
    [] op \in {"SNE", "BNE"}   -> a # b
    [] op \in {"SLT", "BLT"}   -> Signed(a) < Signed(b)
    [] op \in {"SLE", "BLE"}   -> Signed(a) <= Signed(b)
    [] op \in {"SGT", "BGT"}   -> Signed(a) > Signed(b)
    [] op \in {"SGE", "BGE"}   -> Signed(a) >= Signed(b)
    [] op \in {"SLTU", "BLTU"} -> a < b
    [] op \in {"SLEU", "BLEU"} -> a <= b
    [] op \in {"SGTU", "BGTU"} -> a > b
    [] op \in {"SGEU", "BGEU"} -> a >= b
    [] op = "BEQZ" -> a = 0
    [] op = "BNEZ" -> a # 0
    [] op \in {"B", "BAL"} -> TRUE

\* The value of a computation as an integer, before it is cut to a word.
Exact(op, a, b) ==
  CASE op = "LI"   -> b
    [] op = "MOVE" -> a
    [] op \in {"NEG", "NEGU"} -> -Signed(a)
    [] op = "NOT"  -> Mod - 1 - a
    [] op = "ABS"  -> Magnitude(Signed(a))
    [] op = "ROR"  -> RotatedRight(a, b % Bits)
    [] op = "ROL"  -> RotatedRight(a, (-b) % Bits)
    [] op \in SetOps \cup {"SLT", "SLTU"} -> Truth(Holds(op, a, b))
    [] op = "DIV"  -> TrueQuotient(Signed(a), Signed(b))
    [] op = "REM"  -> TrueRemainder(Signed(a), Signed(b))
    [] op = "DIVU" -> a \div b
    [] op = "REMU" -> a % b
    [] op \in {"MUL", "MULO"} -> Signed(a) * Signed(b)
    [] op = "MULOU" -> a * b
    [] op \in {"ADD", "ADDU"} -> Signed(a) + Signed(b)
    [] op \in {"SUB", "SUBU"} -> Signed(a) - Signed(b)
    [] op = "LA"   -> IF s.rs = 0 THEN s.v ELSE Signed(a) + Signed(s.v)
    [] op \in {"AND", "OR", "XOR"} -> Value(op, a, b)

Computations == UnaryOps \cup {"ROR", "ROL"} \cup SetOps \cup Divisions
                  \cup {"MUL", "MULO", "MULOU", "LA"}
                  \cup DOMAIN op_to_imm_op \cup {"SUB", "SUBU"}

\* The exception a statement ends with, or "none".
Outcome(op, a, b) ==
  CASE op \in Divisions /\ b = 0 -> "Bp"
    [] op = "MULO"  -> IF Fits(Exact(op, a, b)) THEN "none" ELSE "Bp"
    [] op = "MULOU" -> IF a = 0 \/ b <= (Mod - 1) \div a THEN "none" ELSE "Bp"
    [] op \in {"ADD", "SUB", "NEG", "ABS"} \/ (op = "LA" /\ s.rs # 0) ->
         IF Fits(Exact(op, a, b)) THEN "none" ELSE "Ov"
    [] OTHER -> "none"

Others(written) == \A n \in Regs \ ({0, AT} \cup written) : r.g[n] = start.g[n]

\* The registers of two files hold words, and the code of a statement is short.
TypeOK ==
  /\ r.g \in [Regs -> Word] /\ r.f \in [FRegs -> Word]
  /\ r.mem \in [0..(MemSize - 1) -> 0..(ByteMod - 1)]
  /\ r.exc \in {"none", "Ov", "Bp", "AdEL", "AdES", "DBE"}
  /\ Len(code) \in 1..12

\* A computation written as a pseudo-operation (li, abs, ror, seq, div, mulo,
\* or add with an immediate of any size) leaves in its destination what the
\* statement means, raises the exception it should and touches no register but
\* its destination and $at.  Two cases the expansion gets wrong are left out:
\* sub of the smallest word, whose negation is itself, and the division of the
\* smallest word by -1, which the machine does not do, as unsigned words either.
ComputesRight ==
  Finished /\ s.op \in Computations
    /\ ~(s.op = "SUB" /\ s.imm /\ s.v = SignBit)
    /\ ~(s.op \in Divisions /\ A = SignBit /\ B = Mod - 1)
  => /\ r.exc = Outcome(s.op, A, B)
     /\ Others({s.rd}) /\ r.mem = start.mem
     /\ r.exc = "none" /\ s.rd # 0 =>
          r.g[s.rd] = IF s.op = "MULOU" THEN unsigned_multiply(A, B).lo
                      ELSE Exact(s.op, A, B) % Mod

\* A branch written as a pseudo-operation goes to its label exactly when its
\* condition holds of the operands, and otherwise to the next statement; it
\* changes no register but $at, and the link register if it links.  Left out:
\* bgt and ble with the largest immediate, to which the expansion adds 1.
BranchesRight ==
  Finished /\ s.op \in BrOps \cup {"BEQZ", "BNEZ", "B", "BAL"}
    /\ ~(s.op \in {"BGT", "BLE"} /\ s.imm /\ s.v = SignBit - 1)
  => /\ r.exc = "none"
     /\ r.pc = IF Holds(s.op, A, B) THEN Target ELSE Base + 4 * Len(code)
     /\ Others(IF s.op = "BAL" THEN {REG_RA} ELSE {}) /\ r.mem = start.mem

\* The word and the half at an address, aligned or not.
Fetched(mem, addr, size) ==
  LET b(k) == mem[addr + k] * ByteMod^k IN
  IF size = 2 THEN b(0) + b(1) ELSE b(0) + b(1) + b(2) + b(3)
Extended(h) == IF 2 * h >= HalfMod THEN h + Mod - HalfMod ELSE h

\* An access to two words or to an unaligned word or half, with an offset of
\* any size, reads or writes the bytes it names and no others, and leaves the
\* registers it does not load as they were: ush restores the register it
\* shifts.  A destination that is also the base is left out: the first of the
\* two loads destroys the address of the second.
AccessesRight ==
  LET addr == (A + s.v) % Mod
      size == IF s.op \in {"ULH", "ULHU", "USH"} THEN 2 ELSE 4
      covers(k) == k \in addr..(addr + (IF s.op \in {"LD", "SD"} THEN 8 ELSE size) - 1)
  IN Finished /\ s.op \in MemOps \ {"LA"}
       /\ (\A k \in 0..7 : addr + k < MemSize) /\ (s.op \in {"LD", "SD"} => addr % 4 = 0)
       /\ (s.op \in {"LD", "ULW", "ULH", "ULHU", "USH"} => s.rd # s.rs)
     => /\ r.exc = "none"
        /\ s.op = "LD" => /\ r.g[s.rd] = Fetched(start.mem, addr, 4)
                          /\ r.g[s.rd + 1] = Fetched(start.mem, addr + 4, 4)
        /\ s.op = "SD" => /\ Fetched(r.mem, addr, 4) = start.g[s.rd]
                          /\ Fetched(r.mem, addr + 4, 4) = start.g[s.rd + 1]
        /\ s.op = "ULW" => r.g[s.rd] = Fetched(start.mem, addr, 4)
        /\ s.op = "ULH" => r.g[s.rd] = Extended(Fetched(start.mem, addr, 2))
        /\ s.op = "ULHU" => r.g[s.rd] = Fetched(start.mem, addr, 2)
        /\ s.op = "USW" => Fetched(r.mem, addr, 4) = start.g[s.rd]
        /\ s.op = "USH" => Fetched(r.mem, addr, 2) = start.g[s.rd] % HalfMod
        /\ \A k \in DOMAIN r.mem : ~(s.op \in {"SD", "USW", "USH"} /\ covers(k))
                                     => r.mem[k] = start.mem[k]
        /\ Others(IF s.op = "LD" THEN {s.rd, s.rd + 1}
                  ELSE IF s.op \in {"ULW", "ULH", "ULHU"} THEN {s.rd} ELSE {})

\* The floating point forms (mfc1.d, mtc1.d, li.s, li.d, l.s, l.d, s.s, s.d)
\* move one word, or both words of a double with the low one first, between the
\* registers or memory they name, whatever the size of the offset or constant.
PairsMoved ==
  LET words == IF s.op \in {"LI.S", "L.S", "S.S"} THEN {0} ELSE {0, 1}
      addr == (A + s.v) % Mod
      word(mem, n) == Fetched(mem, addr + 4 * n, 4)
  IN Finished /\ s.op \in {"MFC1.D", "MTC1.D", "LI.S", "LI.D"} \cup DOMAIN FpMemory
       /\ (s.op \in DOMAIN FpMemory => addr % 4 = 0 /\ addr + 8 <= MemSize)
     => \A n \in words :
         CASE s.op = "MFC1.D" -> r.g[s.rd + n] = start.f[s.rs + n]
           [] s.op = "MTC1.D" -> r.f[s.rs + n] = start.g[s.rd + n]
           [] s.op \in {"LI.S", "LI.D"} -> r.f[s.rd + n] = IF n = 0 THEN s.v ELSE s.w
           [] s.op \in {"L.S", "L.D"} -> r.f[s.rd + n] = word(start.mem, n)
           [] s.op \in {"S.S", "S.D"} -> word(r.mem, n) = start.f[s.rd + n]

\* The code of a statement ends: none of its branches goes back into it.
StatementEnds == <>Finished

\* The code of a pseudo-operation does what the statement means, for operands and
\* immediates of any size, and leaves every other register but $at alone
\* (do_parse_pseudo, i_type_inst_full_word).
ExpansionRight == TypeOK /\ ComputesRight /\ BranchesRight /\ AccessesRight /\ PairsMoved
============================================================================
