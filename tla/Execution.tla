---------------------------- MODULE Execution ----------------------------
(***************************************************************************)
(* The instructions of the simulated machine as steps: what the switch of  *)
(* run_spim (run.c) reads and writes in the registers, the pair HI/LO, the *)
(* floating point registers and memory, with the shift register that       *)
(* delays the result of a load by an instruction.  What they compute is in *)
(* Alu.  Branches are those of a machine without delay slots (module Cpu   *)
(* has the slots), and an instruction that raises an exception is          *)
(* abandoned where the code abandons it.                                   *)
(***************************************************************************)
EXTENDS Alu, Sequences

CONSTANT MemSize          \* bytes of memory

Regs   == 0..4
REG_RA == 4                          \* stands for $31
FRegs  == 0..3
FCRs   == {0, 31}                    \* FIR and FCSR
FCSR_REG == 31
\* CC_mask: codes 0 and 1 are bits with a hole between them.
CC_mask(n) == IF n = 1 THEN SignBit ELSE SignBit \div 4
FCSR_MASK  == CC_mask(0) + CC_mask(1)

\* An instruction with its fields, the others 0.
Inst(op, rs, rt, rd, imm) ==
  [op |-> op, fn |-> "", fmt |-> "s", rs |-> rs, rt |-> rt, rd |-> rd, sh |-> 0,
   imm |-> imm]

-----------------------------------------------------------------------------
(* Registers, loads in flight, memory.                                     *)

Put(r, d) ==
  IF d.file = "g" THEN [r EXCEPT !.g[d.n] = d.v] ELSE [r EXCEPT !.f[d.n] = d.v]

\* Mutant of LOAD_INST: loads queue up.
LoadQueues(r, file, n, v, delayed) ==
  LET d == [file |-> file, n |-> n, v |-> v] IN
  IF delayed THEN [r EXCEPT !.ld1 = Append(@, d)] ELSE Put(r, d)

\* LOAD_INST: the value arrives now, or waits in the first place of the shift
\* register (in place of what it holds).
LOAD_INST(r, file, n, v, delayed) ==
  LET d == [file |-> file, n |-> n, v |-> v] IN
  IF delayed THEN [r EXCEPT !.ld1 = <<d>>] ELSE Put(r, d)

\* Mutant of DO_DELAYED_UPDATE: a load is lost when another follows it.
UpdateDrops(r) ==
  LET s == IF r.ld2 = <<>> \/ r.ld1 # <<>> THEN r ELSE Put(r, r.ld2[1])
  IN [s EXCEPT !.ld2 = r.ld1, !.ld1 = <<>>]

\* DO_DELAYED_UPDATE: the older load arrives, the younger one moves up.
DO_DELAYED_UPDATE(r) ==
  LET s == IF r.ld2 = <<>> THEN r ELSE Put(r, r.ld2[1])
  IN [s EXCEPT !.ld2 = r.ld1, !.ld1 = <<>>]

Raise(r, code) == [r EXCEPT !.exc = code]

\* The exception of an access, or "none": alignment is tested first.
Refused(addr, size, unaligned) ==
  IF addr % size # 0 THEN unaligned
  ELSE IF addr + size > MemSize THEN "DBE" ELSE "none"

\* mem_read_byte, _half and _word: a refused read returns 0.
Read(r, addr, size) ==
  IF Refused(addr, size, "AdEL") # "none" THEN 0
  ELSE LET b(k) == r.mem[addr + k] * ByteMod^k
       IN IF size = 1 THEN b(0) ELSE IF size = 2 THEN b(0) + b(1)
          ELSE b(0) + b(1) + b(2) + b(3)
ReadRaises(r, addr, size) ==
  LET e == Refused(addr, size, "AdEL") IN IF e = "none" THEN r ELSE Raise(r, e)

\* mem_write_byte, _half and _word.
Write(r, addr, size, v) ==
  LET e == Refused(addr, size, "AdES") IN
  IF e # "none" THEN Raise(r, e)
  ELSE [r EXCEPT !.mem = [a \in DOMAIN @ |->
          IF a \in addr..(addr + size - 1)
          THEN (v \div ByteMod^(a - addr)) % ByteMod ELSE @[a]]]

Address(r, i) == (r.g[i.rs] + sign_ex(i.imm)) % Mod
Aligned(addr) == addr - (addr % 4)

-----------------------------------------------------------------------------
(* Integer instructions.                                                   *)

AluOps == {"ADD", "ADDU", "SUB", "SUBU", "AND", "OR", "XOR", "NOR",
           "SLT", "SLTU", "CLO", "CLZ", "MOVN", "MOVZ"}
\* Mutant of AluInst: the result is written before it is tested.
AluWritesFirst(r, i) ==
  LET a == r.g[i.rs]  b == r.g[i.rt]
      s == [r EXCEPT !.g[i.rd] = Value(i.op, a, b)]
  IN IF Overflows(i.op, a, b) THEN Raise(s, "Ov")
     ELSE IF (i.op = "MOVN" /\ b = 0) \/ (i.op = "MOVZ" /\ b # 0) THEN r ELSE s

AluInst(r, i) ==
  LET a == r.g[i.rs]  b == r.g[i.rt] IN
  IF Overflows(i.op, a, b) THEN Raise(r, "Ov")
  ELSE IF (i.op = "MOVN" /\ b = 0) \/ (i.op = "MOVZ" /\ b # 0) THEN r
  ELSE [r EXCEPT !.g[i.rd] = Value(i.op, a, b)]

ImmInst(r, i) ==
  LET a == r.g[i.rs]  b == Immediate(i.op, i.imm) IN
  IF i.op = "LUI" THEN [r EXCEPT !.g[i.rt] = LUI(i.imm)]
  ELSE IF Overflows(RegisterForm[i.op], a, b) THEN Raise(r, "Ov")
  ELSE [r EXCEPT !.g[i.rt] = Value(RegisterForm[i.op], a, b)]

ShiftOps == {"SLL", "SLLV", "SRL", "SRLV", "SRA", "SRAV"}
ShiftInst(r, i) ==
  LET amount == IF i.op \in {"SLL", "SRL", "SRA"} THEN i.sh ELSE r.g[i.rs]
  IN [r EXCEPT !.g[i.rd] = Shifted(i.op, amount, r.g[i.rt])]

\* HI/LO: multiplication, accumulation, division and moves.
HiLo(r) == [hi |-> r.hi, lo |-> r.lo]
SetHiLo(r, q) == [r EXCEPT !.hi = q.hi, !.lo = q.lo]
Product(op, a, b) ==
  IF op \in {"MULTU", "MADDU", "MSUBU"} THEN unsigned_multiply(a, b)
  ELSE signed_multiply(a, b)
MulOps == {"MUL", "MULT", "MULTU", "MADD", "MADDU", "MSUB", "MSUBU"}
MulEffect(r, i, p) ==
  IF i.op \in {"MADD", "MADDU"} THEN SetHiLo(r, Accumulate(HiLo(r), p))
  ELSE IF i.op \in {"MSUB", "MSUBU"} THEN SetHiLo(r, Deduct(HiLo(r), p))
  ELSE IF i.op = "MUL" THEN [SetHiLo(r, p) EXCEPT !.g[i.rd] = p.lo]
  ELSE SetHiLo(r, p)
MulInst(r, i) == MulEffect(r, i, Product(i.op, r.g[i.rs], r.g[i.rt]))
DivInst(r, i) == SetHiLo(r, Divide(i.op, r.g[i.rs], r.g[i.rt], HiLo(r)))
HiLoOps == {"MFHI", "MFLO", "MTHI", "MTLO"}
HiLoInst(r, i) ==
  CASE i.op = "MFHI" -> [r EXCEPT !.g[i.rd] = r.hi]
    [] i.op = "MFLO" -> [r EXCEPT !.g[i.rd] = r.lo]
    [] i.op = "MTHI" -> [r EXCEPT !.hi = r.g[i.rs]]
    [] i.op = "MTLO" -> [r EXCEPT !.lo = r.g[i.rs]]

\* Branches: PC is bumped after the instruction, so a target is set 4 short;
\* a likely branch that is not taken skips an instruction.  Linking forms write
\* the link before they test.
BranchOps == {"BEQ", "BNE", "BGEZ", "BLTZ", "BGTZ", "BLEZ", "BGEZAL", "BLTZAL"}
LikelyOps == {"BEQL", "BNEL", "BGEZL", "BLTZL", "BGTZL", "BLEZL",
              "BGEZALL", "BLTZALL"}
BRANCH_INST(r, test, imm, nullify) ==
  IF test THEN [r EXCEPT !.pc = (@ + BRANCH_OFFSET(imm) - 4) % Mod]
  ELSE IF nullify THEN [r EXCEPT !.pc = (@ + 4) % Mod] ELSE r
BranchInst(r, i) ==
  LET s == IF i.op \in {"BGEZAL", "BLTZAL", "BGEZALL", "BLTZALL"}
           THEN [r EXCEPT !.g[REG_RA] = (r.pc + 4) % Mod] ELSE r
  IN BRANCH_INST(s, Test(i.op, s.g[i.rs], s.g[i.rt]), i.imm, i.op \in LikelyOps)

\* Jumps: within the region of PC, or to a register read before the link.
JumpOps == {"J", "JAL", "JR", "JALR"}
JumpInst(r, i) ==
  LET target == IF i.op \in {"J", "JAL"}
                THEN (r.pc & SignBit) + ((i.imm * 4) % SignBit) ELSE r.g[i.rs]
      link == IF i.op = "JAL" THEN {REG_RA} ELSE IF i.op = "JALR" THEN {i.rd} ELSE {}
  IN [r EXCEPT !.g = [n \in Regs |-> IF n \in link THEN (r.pc + 4) % Mod ELSE @[n]],
               !.pc = (target - 4) % Mod]

TrapOps    == {"TEQ", "TNE", "TGE", "TLT", "TGEU", "TLTU"}
TrapImmOps == {"TEQI", "TNEI", "TGEI", "TLTI", "TGEIU", "TLTIU"}
TrapInst(r, i) ==
  LET b == IF i.op \in TrapOps THEN r.g[i.rt] ELSE sign_ex(i.imm)
  IN IF Traps(i.op, r.g[i.rs], b) THEN Raise(r, "Tr") ELSE r

\* What the machine does not have, a BREAK that is not the debugger's, and what
\* it takes for no operation.
AbsentInst(r, i) ==
  CASE i.op = "COP2" -> Raise(r, "CpU")
    [] i.op \in {"RFE", "TLB"} -> Raise(r, "RI")
    [] i.op = "BREAK" -> Raise(r, "Bp")
    [] i.op = "SYNC" -> r

-----------------------------------------------------------------------------
(* Loads and stores.                                                       *)

Size == [LB |-> 1, LBU |-> 1, LH |-> 2, LHU |-> 2, LW |-> 4, LL |-> 4,
         SB |-> 1, SH |-> 2, SW |-> 4, SC |-> 4]
LoadOps == {"LB", "LBU", "LH", "LHU", "LW", "LL"}

\* A load writes its register even when the read is refused.
LoadInst(r, i, delayed) ==
  LET addr == Address(r, i)
      v == Read(r, addr, Size[i.op])
      top == ByteMod^Size[i.op]
      extended == IF i.op \in {"LB", "LH"} /\ 2 * v >= top THEN v + Mod - top ELSE v
  IN LOAD_INST(ReadRaises(r, addr, Size[i.op]), "g", i.rt, extended, delayed)

\* LWL and LWR merge with the register as it is, a load in flight not arrived.
MergeInst(r, i, delayed) ==
  LET addr == Address(r, i)
      word == Read(r, Aligned(addr), 4)
      s == ReadRaises(r, Aligned(addr), 4)
      v == IF s.exc # "none" THEN word
           ELSE IF i.op = "LWL" THEN LWL(word, r.g[i.rt], addr % 4)
           ELSE LWR(word, r.g[i.rt], addr % 4)
  IN LOAD_INST(s, "g", i.rt, v, delayed)

StoreOps == {"SB", "SH", "SW", "SC"}
StoreInst(r, i) == Write(r, Address(r, i), Size[i.op], r.g[i.rt])

\* SWL and SWR read the word, change some bytes and write it back.
SplitInst(r, i) ==
  LET addr == Address(r, i)
      s == ReadRaises(r, Aligned(addr), 4)
      data == Read(r, Aligned(addr), 4)
      v == IF i.op = "SWL" THEN SWL(data, r.g[i.rt], addr % 4)
           ELSE SWR(data, r.g[i.rt], addr % 4)
  IN Write(s, Aligned(addr), 4, v)

-----------------------------------------------------------------------------
(* Floating point.  fs, ft and fd are the fields rd, rt and sh; a double   *)
(* register of odd number ends the run.                                    *)

Width(fmt) == IF fmt = "d" THEN 2 ELSE 1
Odd(fmt, regs) == fmt = "d" /\ \E n \in regs : n % 2 = 1
run_error(r) == [r EXCEPT !.end = TRUE]
FPR(r, n, fmt) ==
  IF fmt = "d" THEN Number(r.f[n] + Mod * r.f[n + 1], 2) ELSE Number(r.f[n], 1)
SET_FPR(r, n, fmt, v) ==
  LET p == Pattern(v, Width(fmt)) IN
  IF fmt = "d" THEN [r EXCEPT !.f[n] = p % Mod, !.f[n + 1] = p \div Mod]
  ELSE [r EXCEPT !.f[n] = p]

FpInst(r, i) ==
  IF Odd(i.fmt, {i.rd, i.sh} \cup (IF i.fn \in {"add", "sub", "mul", "div"}
                                   THEN {i.rt} ELSE {}))
  THEN run_error(r)
  ELSE LET y == IF i.fn \in {"add", "sub", "mul", "div"}
                THEN FPR(r, i.rt, i.fmt) ELSE 0
       IN SET_FPR(r, i.sh, i.fmt, Arithmetic(i.fn, FPR(r, i.rd, i.fmt), y))

\* Conversions between formats (fn is the destination), and to a word.
CvtInst(r, i) ==
  IF Odd(i.fmt, {i.rd}) \/ Odd(i.fn, {i.sh}) THEN run_error(r)
  ELSE LET v == IF i.fmt = "w" THEN 4 * Signed(r.f[i.rd]) ELSE FPR(r, i.rd, i.fmt)
       IN SET_FPR(r, i.sh, i.fn, v)
ToWordInst(r, i) ==
  IF Odd(i.fmt, {i.rd}) THEN run_error(r)
  ELSE [r EXCEPT !.f[i.sh] = ToWord(i.fn, FPR(r, i.rd, i.fmt))]

\* Condition codes.
FCC(r, n) == (r.fcr[FCSR_REG] & CC_mask(n)) # 0
SET_FCC(r, n, v) ==
  LET without == r.fcr[FCSR_REG] - (r.fcr[FCSR_REG] & CC_mask(n)) IN
  [r EXCEPT !.fcr[FCSR_REG] = IF v THEN without + CC_mask(n) ELSE without]
CompareInst(r, i) ==
  IF Odd(i.fmt, {i.rd, i.rt}) THEN run_error(r)
  ELSE LET x == FPR(r, i.rd, i.fmt)  y == FPR(r, i.rt, i.fmt) IN
       IF Refuses(i.rs, x, y) THEN Raise(r, "FPE")
       ELSE SET_FCC(r, i.sh \div 4, Compare(i.rs, x, y))
BC1Inst(r, i) ==
  BRANCH_INST(r, FCC(r, i.rt \div 4) = (i.rt % 2 = 1), i.imm, (i.rt \div 2) % 2 = 1)

\* CTC1 writes the register first: the read-only one as well, and the mode it
\* then refuses.
ControlInst(r, i) ==
  IF i.op = "CFC1" THEN [r EXCEPT !.g[i.rt] = r.fcr[i.rd]]
  ELSE LET v == r.g[i.rt]
           s == [r EXCEPT !.fcr[i.rd] = v]
       IN IF i.rd = FCSR_REG /\ (v & (Mod - 1 - FCSR_MASK)) # 0
          THEN Raise(s, "FPE") ELSE s

\* Moves between the files, and the conditional ones (cc is in rt).
MoveOps == {"MFC1", "MTC1", "MOVF", "MOVT"}
MoveInst(r, i) ==
  CASE i.op = "MFC1" -> [r EXCEPT !.g[i.rt] = r.f[i.rd]]
    [] i.op = "MTC1" -> [r EXCEPT !.f[i.rd] = r.g[i.rt]]
    [] i.op \in {"MOVF", "MOVT"} ->
         IF FCC(r, i.rt \div 4) = (i.op = "MOVT")
         THEN [r EXCEPT !.g[i.rd] = r.g[i.rs]] ELSE r
FpMoveIf(r, i) ==
  LET holds == CASE i.op = "MOVF.F" -> ~FCC(r, i.rt \div 4)
                 [] i.op = "MOVT.F" -> FCC(r, i.rt \div 4)
                 [] i.op = "MOVN.F" -> r.g[i.rt] # 0
                 [] i.op = "MOVZ.F" -> r.g[i.rt] = 0
  IN IF ~holds THEN r
     ELSE IF Odd(i.fmt, {i.rd, i.sh}) THEN run_error(r)
     ELSE SET_FPR(r, i.sh, i.fmt, FPR(r, i.rd, i.fmt))

\* LWC1, LDC1, SWC1 and SDC1.  LDC1 makes two loads, and a misaligned address
\* only adds an exception to those its accesses raise.
FpLoadInst(r, i, delayed) ==
  LET addr == Address(r, i)
      one(s, a, n) == LOAD_INST(ReadRaises(s, a, 4), "f", n, Read(s, a, 4), delayed)
  IN IF i.op = "LWC1" THEN one(r, addr, i.rt)
     ELSE one(one(r, addr, i.rt), (addr + 4) % Mod, i.rt + 1)
FpStoreInst(r, i) ==
  LET addr == Address(r, i) IN
  IF i.op = "SWC1" THEN Write(r, addr, 4, r.f[i.rt])
  ELSE IF Odd("d", {i.rt}) THEN run_error(r)
  ELSE Write(Write(r, addr, 4, r.f[i.rt]), (addr + 4) % Mod, 4, r.f[i.rt + 1])

-----------------------------------------------------------------------------
(* A step of the loop.                                                     *)

ImmOps == (DOMAIN RegisterForm) \cup {"LUI"}
\* The instructions of the switch, by kind.
ComputeOps == AluOps \cup ImmOps \cup ShiftOps \cup MulOps \cup {"DIV", "DIVU"}
                \cup HiLoOps \cup TrapOps \cup TrapImmOps
                \cup {"COP2", "RFE", "TLB", "BREAK", "SYNC"}
GotoOps    == BranchOps \cup LikelyOps \cup JumpOps \cup {"BC1"}
AccessOps  == LoadOps \cup StoreOps \cup {"LWL", "LWR", "SWL", "SWR",
                                          "LWC1", "LDC1", "SWC1", "SDC1"}
FloatOps   == {"FP", "CVT", "TOW", "C", "CFC1", "CTC1", "MOVF.F", "MOVT.F",
               "MOVN.F", "MOVZ.F"} \cup MoveOps

Execute(r, i, delayed) ==
  CASE i.op \in AluOps                 -> AluInst(r, i)
    [] i.op \in ImmOps                 -> ImmInst(r, i)
    [] i.op \in ShiftOps               -> ShiftInst(r, i)
    [] i.op \in MulOps                 -> MulInst(r, i)
    [] i.op \in {"DIV", "DIVU"}        -> DivInst(r, i)
    [] i.op \in HiLoOps                -> HiLoInst(r, i)
    [] i.op \in BranchOps \cup LikelyOps -> BranchInst(r, i)
    [] i.op \in JumpOps                -> JumpInst(r, i)
    [] i.op \in TrapOps \cup TrapImmOps -> TrapInst(r, i)
    [] i.op \in {"COP2", "RFE", "TLB", "BREAK", "SYNC"} -> AbsentInst(r, i)
    [] i.op \in LoadOps                -> LoadInst(r, i, delayed)
    [] i.op \in {"LWL", "LWR"}         -> MergeInst(r, i, delayed)
    [] i.op \in StoreOps               -> StoreInst(r, i)
    [] i.op \in {"SWL", "SWR"}         -> SplitInst(r, i)
    [] i.op = "FP"                     -> FpInst(r, i)
    [] i.op = "CVT"                    -> CvtInst(r, i)
    [] i.op = "TOW"                    -> ToWordInst(r, i)
    [] i.op = "C"                      -> CompareInst(r, i)
    [] i.op = "BC1"                    -> BC1Inst(r, i)
    [] i.op \in {"CFC1", "CTC1"}       -> ControlInst(r, i)
    [] i.op \in MoveOps                -> MoveInst(r, i)
    [] i.op \in {"MOVF.F", "MOVT.F", "MOVN.F", "MOVZ.F"} -> FpMoveIf(r, i)
    [] i.op \in {"LWC1", "LDC1"}       -> FpLoadInst(r, i, delayed)
    [] i.op \in {"SWC1", "SDC1"}       -> FpStoreInst(r, i)

\* Mutant of Begun: what is written to $0 stays.
BegunKeepsZero(r, delayed) ==
  LET s == [r EXCEPT !.exc = "none"] IN
  IF delayed THEN DO_DELAYED_UPDATE(s) ELSE s

\* The head of the inner loop: $0 is cleared, then a load arrives.
Begun(r, delayed) ==
  LET s == [r EXCEPT !.g[0] = 0, !.exc = "none"] IN
  IF delayed THEN DO_DELAYED_UPDATE(s) ELSE s

Bumped(r) == IF r.end THEN r ELSE [r EXCEPT !.pc = (@ + 4) % Mod]
Step(r, i, delayed) == Bumped(Execute(Begun(r, delayed), i, delayed))
============================================================================
