------------------------- MODULE Instructions_proofs -------------------------
(***************************************************************************)
(* Delayed loads cannot be told by a program that leaves the register of a *)
(* load alone for one instruction, whatever the program, the registers and *)
(* the memory are; $0 reads 0; and an instruction that raises an exception *)
(* has changed nothing.                                                    *)
(*                                                                         *)
(* The machine m and the machine plain run in step.  Between instructions  *)
(* plain is m with the loads in flight arrived; while an instruction runs  *)
(* the two differ in at most one register, the one of the load that the    *)
(* next instruction delivers, and an instruction that does not touch a     *)
(* register neither depends on it nor changes it.  What the instructions   *)
(* compute (module Alu) does not matter: they compute the same from the    *)
(* same operands.                                                          *)
(***************************************************************************)
EXTENDS Instructions, TLAPS

Fields == {"pc", "g", "hi", "lo", "f", "fcr", "mem", "ld1", "ld2", "exc", "end"}

\* The shape of a machine: its fields and its two register files.
Shaped(x) ==
  /\ DOMAIN x = Fields
  /\ x.g = [n \in Regs |-> x.g[n]]
  /\ x.f = [n \in FRegs |-> x.f[n]]

NoLoad == [file |-> "none", n |-> 0, v |-> 0]
Hits(d, file, n) == d.file = file /\ d.n = n
Unused(d, i) == <<d.file, d.n>> \notin Touches(i)

\* The parts of two machines outside their register files.
SameRest(x, y) ==
  /\ x.pc = y.pc /\ x.hi = y.hi /\ x.lo = y.lo /\ x.fcr = y.fcr /\ x.mem = y.mem
  /\ x.exc = y.exc /\ x.end = y.end

\* y is x but for the register of the load d, which has arrived in y.
Agree(x, y, d) ==
  /\ SameRest(x, y)
  /\ \A n \in Regs : y.g[n] = IF Hits(d, "g", n) THEN d.v ELSE x.g[n]
  /\ \A n \in FRegs : y.f[n] = IF Hits(d, "f", n) THEN d.v ELSE x.f[n]

\* y is x with the loads d and then e arrived, $0 left aside.
InStep(x, y, d, e) ==
  /\ SameRest(x, y)
  /\ \A n \in Regs \ {0} :
       y.g[n] = IF Hits(e, "g", n) THEN e.v
                ELSE IF Hits(d, "g", n) THEN d.v ELSE x.g[n]
  /\ \A n \in FRegs :
       y.f[n] = IF Hits(e, "f", n) THEN e.v
                ELSE IF Hits(d, "f", n) THEN d.v ELSE x.f[n]

\* z is a machine with the same loads in flight as x.
Keeps(x, z) == Shaped(z) /\ z.ld1 = x.ld1 /\ z.ld2 = x.ld2

-----------------------------------------------------------------------------
(* The parts instructions are made of.                                     *)

LEMMA RaiseKeeps ==
  ASSUME NEW x, NEW c, Shaped(x) PROVE Keeps(x, Raise(x, c))
BY DEF Shaped, Fields, Keeps, Raise

LEMMA RaiseAgrees ==
  ASSUME NEW x, NEW y, NEW c, NEW d, Shaped(x), Shaped(y), Agree(x, y, d)
  PROVE Agree(Raise(x, c), Raise(y, c), d)
BY DEF Shaped, Fields, Raise, Agree, SameRest

LEMMA SelfKeeps ==
  ASSUME NEW x, Shaped(x) PROVE Keeps(x, x)
BY DEF Keeps

LEMMA KeepsChain ==
  ASSUME NEW x, NEW y, NEW z, Keeps(x, y), Keeps(y, z) PROVE Keeps(x, z)
BY DEF Keeps

\* An access to memory depends on memory only.
LEMMA ReadSame ==
  ASSUME NEW x, NEW y, NEW d, NEW a, NEW s, Agree(x, y, d)
  PROVE Read(x, a, s) = Read(y, a, s)
BY DEF Read, Agree, SameRest

LEMMA ReadRaisesKeeps ==
  ASSUME NEW x, NEW a, NEW s, Shaped(x) PROVE Keeps(x, ReadRaises(x, a, s))
<1>1. ReadRaises(x, a, s) = x \/ \E c : ReadRaises(x, a, s) = Raise(x, c)
  BY DEF ReadRaises
<1> QED BY <1>1, RaiseKeeps DEF Keeps

LEMMA ReadRaisesAgrees ==
  ASSUME NEW x, NEW y, NEW d, NEW a, NEW s, Shaped(x), Shaped(y), Agree(x, y, d)
  PROVE Agree(ReadRaises(x, a, s), ReadRaises(y, a, s), d)
BY RaiseAgrees DEF ReadRaises

LEMMA WriteKeeps ==
  ASSUME NEW x, NEW a, NEW s, NEW v, Shaped(x) PROVE Keeps(x, Write(x, a, s, v))
<1>1. CASE Refused(a, s, "AdES") # "none"
  BY <1>1, RaiseKeeps DEF Write
<1>2. CASE Refused(a, s, "AdES") = "none"
  BY <1>2 DEF Write, Shaped, Fields, Keeps
<1> QED BY <1>1, <1>2

LEMMA WriteAgrees ==
  ASSUME NEW x, NEW y, NEW d, NEW a, NEW s, NEW v, Shaped(x), Shaped(y), Agree(x, y, d)
  PROVE Agree(Write(x, a, s, v), Write(y, a, s, v), d)
<1>1. CASE Refused(a, s, "AdES") # "none"
  BY <1>1, RaiseAgrees DEF Write
<1>2. CASE Refused(a, s, "AdES") = "none"
  BY <1>2 DEF Write, Shaped, Fields, Agree, SameRest
<1> QED BY <1>1, <1>2

\* A register an instruction touches is the same in both machines.
LEMMA OperandSame ==
  ASSUME NEW x, NEW y, NEW d, NEW i, Agree(x, y, d), Unused(d, i)
  PROVE /\ \A n \in Regs \cap {i.rs, i.rt, i.rd, REG_RA} : y.g[n] = x.g[n] /\ ~Hits(d, "g", n)
        /\ \A n \in FRegs \cap {i.rd, i.rt, i.sh, i.rd + 1, i.rt + 1, i.sh + 1} :
             y.f[n] = x.f[n] /\ ~Hits(d, "f", n)
BY DEF Agree, Unused, Touches, Hits, REG_RA

\* Writing a register of either file, the pair HI/LO and PC.
LEMMA PutGKeeps ==
  ASSUME NEW x, NEW n, NEW v, Shaped(x) PROVE Keeps(x, [x EXCEPT !.g[n] = v])
BY DEF Shaped, Fields, Keeps

LEMMA PutFKeeps ==
  ASSUME NEW x, NEW n, NEW v, Shaped(x) PROVE Keeps(x, [x EXCEPT !.f[n] = v])
BY DEF Shaped, Fields, Keeps

LEMMA PutGAgrees ==
  ASSUME NEW x, NEW y, NEW d, NEW n, NEW v, Shaped(x), Shaped(y), Agree(x, y, d),
         ~Hits(d, "g", n)
  PROVE Agree([x EXCEPT !.g[n] = v], [y EXCEPT !.g[n] = v], d)
BY DEF Shaped, Fields, Agree, SameRest, Hits

LEMMA PutFAgrees ==
  ASSUME NEW x, NEW y, NEW d, NEW n, NEW v, Shaped(x), Shaped(y), Agree(x, y, d),
         ~Hits(d, "f", n)
  PROVE Agree([x EXCEPT !.f[n] = v], [y EXCEPT !.f[n] = v], d)
BY DEF Shaped, Fields, Agree, SameRest, Hits

LEMMA SetHiLoKeeps ==
  ASSUME NEW x, NEW q, Shaped(x) PROVE Keeps(x, SetHiLo(x, q))
BY DEF Shaped, Fields, Keeps, SetHiLo

LEMMA SetHiLoAgrees ==
  ASSUME NEW x, NEW y, NEW d, NEW q, Shaped(x), Shaped(y), Agree(x, y, d)
  PROVE Agree(SetHiLo(x, q), SetHiLo(y, q), d) /\ HiLo(x) = HiLo(y)
BY DEF Shaped, Fields, Agree, SameRest, SetHiLo, HiLo

LEMMA BranchKeeps ==
  ASSUME NEW x, NEW t, NEW o, NEW u, Shaped(x) PROVE Keeps(x, BRANCH_INST(x, t, o, u))
BY DEF Shaped, Fields, Keeps, BRANCH_INST

LEMMA BranchAgrees ==
  ASSUME NEW x, NEW y, NEW d, NEW t, NEW o, NEW u, Shaped(x), Shaped(y), Agree(x, y, d)
  PROVE Agree(BRANCH_INST(x, t, o, u), BRANCH_INST(y, t, o, u), d)
BY DEF Shaped, Fields, Agree, SameRest, BRANCH_INST

LEMMA RunErrorKeeps ==
  ASSUME NEW x, Shaped(x) PROVE Keeps(x, run_error(x))
BY DEF Shaped, Fields, Keeps, run_error

LEMMA RunErrorAgrees ==
  ASSUME NEW x, NEW y, NEW d, Shaped(x), Shaped(y), Agree(x, y, d)
  PROVE Agree(run_error(x), run_error(y), d)
BY DEF Shaped, Fields, Agree, SameRest, run_error

\* A floating point register, or the pair a double takes.
LEMMA EvenPair ==
  ASSUME NEW n \in FRegs, n % 2 # 1 PROVE n + 1 \in FRegs
BY DEF FRegs

LEMMA FprSame ==
  ASSUME NEW x, NEW y, NEW n, NEW fmt, y.f[n] = x.f[n], fmt = "d" => y.f[n + 1] = x.f[n + 1]
  PROVE FPR(x, n, fmt) = FPR(y, n, fmt)
BY DEF FPR

LEMMA SetFprKeeps ==
  ASSUME NEW x, NEW n, NEW fmt, NEW v, Shaped(x) PROVE Keeps(x, SET_FPR(x, n, fmt, v))
BY DEF Shaped, Fields, Keeps, SET_FPR

LEMMA SetFprAgrees ==
  ASSUME NEW x, NEW y, NEW d, NEW n, NEW fmt, NEW v, Shaped(x), Shaped(y), Agree(x, y, d),
         ~Hits(d, "f", n), fmt = "d" => ~Hits(d, "f", n + 1)
  PROVE Agree(SET_FPR(x, n, fmt, v), SET_FPR(y, n, fmt, v), d)
BY DEF Shaped, Fields, Agree, SameRest, Hits, SET_FPR

LEMMA FccSame ==
  ASSUME NEW x, NEW y, NEW d, NEW n, Agree(x, y, d) PROVE FCC(x, n) = FCC(y, n)
BY DEF FCC, Agree, SameRest

LEMMA SetFccKeeps ==
  ASSUME NEW x, NEW n, NEW v, Shaped(x) PROVE Keeps(x, SET_FCC(x, n, v))
BY DEF Shaped, Fields, Keeps, SET_FCC

LEMMA SetFccAgrees ==
  ASSUME NEW x, NEW y, NEW d, NEW n, NEW v, Shaped(x), Shaped(y), Agree(x, y, d)
  PROVE Agree(SET_FCC(x, n, v), SET_FCC(y, n, v), d)
BY DEF Shaped, Fields, Agree, SameRest, SET_FCC

-----------------------------------------------------------------------------
(* The instructions that are not loads keep the loads in flight...         *)

LEMMA AluKeeps ==
  ASSUME NEW x, NEW i, Shaped(x) PROVE Keeps(x, AluInst(x, i))
BY PutGKeeps, RaiseKeeps, SelfKeeps DEF AluInst

LEMMA ImmKeeps ==
  ASSUME NEW x, NEW i, Shaped(x) PROVE Keeps(x, ImmInst(x, i))
BY PutGKeeps, RaiseKeeps DEF ImmInst

LEMMA ShiftKeeps ==
  ASSUME NEW x, NEW i, Shaped(x) PROVE Keeps(x, ShiftInst(x, i))
BY PutGKeeps DEF ShiftInst

LEMMA MulKeeps ==
  ASSUME NEW x, NEW i, Shaped(x) PROVE Keeps(x, MulInst(x, i))
<1>1. ASSUME NEW p, NEW n, NEW v
      PROVE Keeps(x, [SetHiLo(x, p) EXCEPT !.g[n] = v])
  BY SetHiLoKeeps, PutGKeeps DEF Keeps
<1> QED BY <1>1, SetHiLoKeeps DEF MulInst, MulEffect

LEMMA DivKeeps ==
  ASSUME NEW x, NEW i, Shaped(x) PROVE Keeps(x, DivInst(x, i))
BY SetHiLoKeeps DEF DivInst

LEMMA HiLoKeeps ==
  ASSUME NEW x, NEW i, i.op \in HiLoOps, Shaped(x) PROVE Keeps(x, HiLoInst(x, i))
BY DEF HiLoInst, HiLoOps, Shaped, Fields, Keeps

LEMMA BranchInstKeeps ==
  ASSUME NEW x, NEW i, Shaped(x) PROVE Keeps(x, BranchInst(x, i))
<1> DEFINE s == IF i.op \in {"BGEZAL", "BLTZAL", "BGEZALL", "BLTZALL"}
                THEN [x EXCEPT !.g[REG_RA] = (x.pc + 4) % Mod] ELSE x
<1>1. Keeps(x, s)
  <2>1. ASSUME NEW v PROVE Keeps(x, [x EXCEPT !.g[REG_RA] = v])
    BY PutGKeeps
  <2>2. Keeps(x, x)
    BY DEF Keeps
  <2> QED
    BY <2>1, <2>2
<1>2. BranchInst(x, i)
        = BRANCH_INST(s, Test(i.op, s.g[i.rs], s.g[i.rt]), i.imm, i.op \in LikelyOps)
  BY DEF BranchInst
<1> HIDE DEF s
<1> QED BY <1>1, <1>2, BranchKeeps DEF Keeps

LEMMA JumpKeeps ==
  ASSUME NEW x, NEW i, Shaped(x) PROVE Keeps(x, JumpInst(x, i))
BY DEF JumpInst, Shaped, Fields, Keeps

LEMMA TrapKeeps ==
  ASSUME NEW x, NEW i, Shaped(x) PROVE Keeps(x, TrapInst(x, i))
BY RaiseKeeps, SelfKeeps DEF TrapInst

LEMMA AbsentKeeps ==
  ASSUME NEW x, NEW i, i.op \in {"COP2", "RFE", "TLB", "BREAK", "SYNC"}, Shaped(x)
  PROVE Keeps(x, AbsentInst(x, i))
BY RaiseKeeps, SelfKeeps DEF AbsentInst

LEMMA StoreKeeps ==
  ASSUME NEW x, NEW i, Shaped(x) PROVE Keeps(x, StoreInst(x, i))
BY WriteKeeps DEF StoreInst

LEMMA SplitKeeps ==
  ASSUME NEW x, NEW i, Shaped(x) PROVE Keeps(x, SplitInst(x, i))
<1>1. \E a, v : SplitInst(x, i) = Write(ReadRaises(x, a, 4), a, 4, v)
  BY DEF SplitInst
<1> QED BY <1>1, ReadRaisesKeeps, WriteKeeps DEF Keeps

LEMMA FpKeeps ==
  ASSUME NEW x, NEW i, Shaped(x) PROVE Keeps(x, FpInst(x, i))
BY RunErrorKeeps, SetFprKeeps DEF FpInst

LEMMA CvtKeeps ==
  ASSUME NEW x, NEW i, Shaped(x) PROVE Keeps(x, CvtInst(x, i))
BY RunErrorKeeps, SetFprKeeps DEF CvtInst

LEMMA ToWordKeeps ==
  ASSUME NEW x, NEW i, Shaped(x) PROVE Keeps(x, ToWordInst(x, i))
BY RunErrorKeeps, PutFKeeps DEF ToWordInst

LEMMA CompareKeeps ==
  ASSUME NEW x, NEW i, Shaped(x) PROVE Keeps(x, CompareInst(x, i))
BY RunErrorKeeps, RaiseKeeps, SetFccKeeps DEF CompareInst

LEMMA BC1Keeps ==
  ASSUME NEW x, NEW i, Shaped(x) PROVE Keeps(x, BC1Inst(x, i))
BY BranchKeeps DEF BC1Inst

LEMMA ControlKeeps ==
  ASSUME NEW x, NEW i, Shaped(x) PROVE Keeps(x, ControlInst(x, i))
BY DEF ControlInst, Raise, Shaped, Fields, Keeps

LEMMA MoveKeeps ==
  ASSUME NEW x, NEW i, i.op \in MoveOps, Shaped(x) PROVE Keeps(x, MoveInst(x, i))
BY PutGKeeps, PutFKeeps, SelfKeeps DEF MoveInst, MoveOps

LEMMA FpMoveIfKeeps ==
  ASSUME NEW x, NEW i, Shaped(x) PROVE Keeps(x, FpMoveIf(x, i))
BY RunErrorKeeps, SetFprKeeps, SelfKeeps DEF FpMoveIf

LEMMA FpStoreKeeps ==
  ASSUME NEW x, NEW i, Shaped(x) PROVE Keeps(x, FpStoreInst(x, i))
<1>1. ASSUME NEW a, NEW v, NEW b, NEW w
      PROVE Keeps(x, Write(Write(x, a, 4, v), b, 4, w))
  BY WriteKeeps DEF Keeps
<1> QED BY <1>1, WriteKeeps, RunErrorKeeps DEF FpStoreInst

-----------------------------------------------------------------------------
(* ... and from two machines that agree but for a register they do not     *)
(* touch they lead to two that do.                                         *)

Twins(x, y, d, i) == Shaped(x) /\ Shaped(y) /\ Agree(x, y, d) /\ Unused(d, i)

\* The operands of an instruction with general registers.
LEMMA GeneralOperands ==
  ASSUME NEW x, NEW y, NEW d, NEW i, Twins(x, y, d, i), Legal(i)
  PROVE /\ i.rs \in Regs => y.g[i.rs] = x.g[i.rs]
        /\ i.rt \in Regs => y.g[i.rt] = x.g[i.rt] /\ ~Hits(d, "g", i.rt)
        /\ i.rd \in Regs => y.g[i.rd] = x.g[i.rd] /\ ~Hits(d, "g", i.rd)
        /\ ~Hits(d, "g", REG_RA)
<1>1. REG_RA \in Regs BY DEF REG_RA, Regs
<1> QED BY <1>1, OperandSame DEF Twins

\* The operands of an instruction with floating point registers.
LEMMA FloatOperands ==
  ASSUME NEW x, NEW y, NEW d, NEW i, Twins(x, y, d, i), NEW n \in {i.rd, i.rt, i.sh}, n \in FRegs
  PROVE /\ y.f[n] = x.f[n] /\ ~Hits(d, "f", n)
        /\ n % 2 # 1 => y.f[n + 1] = x.f[n + 1] /\ ~Hits(d, "f", n + 1)
<1>1. n % 2 # 1 => n + 1 \in FRegs BY EvenPair
<1>2. n + 1 \in {i.rd + 1, i.rt + 1, i.sh + 1} OBVIOUS
<1> QED BY <1>1, <1>2, OperandSame DEF Twins

LEMMA AddressSame ==
  ASSUME NEW x, NEW y, NEW d, NEW i, Twins(x, y, d, i), Legal(i), i.rs \in Regs
  PROVE Address(x, i) = Address(y, i)
BY GeneralOperands DEF Address

LEMMA AluAgrees ==
  ASSUME NEW x, NEW y, NEW d, NEW i, Twins(x, y, d, i), Legal(i), i.op \in AluOps
  PROVE Agree(AluInst(x, i), AluInst(y, i), d)
<1>1. i.rs \in Regs /\ i.rt \in Regs /\ i.rd \in Regs BY DEF Legal, AluOps
<1>2. x.g[i.rs] = y.g[i.rs] /\ x.g[i.rt] = y.g[i.rt] /\ ~Hits(d, "g", i.rd)
  BY <1>1, GeneralOperands
<1> QED BY <1>2, PutGAgrees, RaiseAgrees DEF AluInst, Twins

LEMMA ImmAgrees ==
  ASSUME NEW x, NEW y, NEW d, NEW i, Twins(x, y, d, i), Legal(i), i.op \in ImmOps
  PROVE Agree(ImmInst(x, i), ImmInst(y, i), d)
<1>1. i.rs \in Regs /\ i.rt \in Regs BY DEF Legal, ImmOps, RegisterForm
<1>2. x.g[i.rs] = y.g[i.rs] /\ ~Hits(d, "g", i.rt)
  BY <1>1, GeneralOperands
<1> QED BY <1>2, PutGAgrees, RaiseAgrees DEF ImmInst, Twins

LEMMA ShiftAgrees ==
  ASSUME NEW x, NEW y, NEW d, NEW i, Twins(x, y, d, i), Legal(i), i.op \in ShiftOps
  PROVE Agree(ShiftInst(x, i), ShiftInst(y, i), d)
<1>1. i.rs \in Regs /\ i.rt \in Regs /\ i.rd \in Regs BY DEF Legal, ShiftOps
<1>2. x.g[i.rs] = y.g[i.rs] /\ x.g[i.rt] = y.g[i.rt] /\ ~Hits(d, "g", i.rd)
  BY <1>1, GeneralOperands
<1> QED BY <1>2, PutGAgrees DEF ShiftInst, Twins

LEMMA MulAgrees ==
  ASSUME NEW x, NEW y, NEW d, NEW i, Twins(x, y, d, i), Legal(i), i.op \in MulOps
  PROVE Agree(MulInst(x, i), MulInst(y, i), d)
<1>1. i.rs \in Regs /\ i.rt \in Regs /\ i.rd \in Regs BY DEF Legal, MulOps
<1>2. x.g[i.rs] = y.g[i.rs] /\ x.g[i.rt] = y.g[i.rt] /\ ~Hits(d, "g", i.rd)
  BY <1>1, GeneralOperands
<1>3. PICK p : p = Product(i.op, x.g[i.rs], x.g[i.rt]) OBVIOUS
<1>4. MulInst(x, i) = MulEffect(x, i, p) /\ MulInst(y, i) = MulEffect(y, i, p)
  BY <1>2, <1>3 DEF MulInst
<1>5. HiLo(x) = HiLo(y) BY SetHiLoAgrees DEF Twins
<1>6. ASSUME NEW q
      PROVE /\ Agree(SetHiLo(x, q), SetHiLo(y, q), d)
            /\ Shaped(SetHiLo(x, q)) /\ Shaped(SetHiLo(y, q))
  BY SetHiLoAgrees, SetHiLoKeeps DEF Twins, Keeps
<1>7. Agree([SetHiLo(x, p) EXCEPT !.g[i.rd] = p.lo], [SetHiLo(y, p) EXCEPT !.g[i.rd] = p.lo], d)
  BY <1>6, <1>2, PutGAgrees
<1> QED BY <1>4, <1>5, <1>6, <1>7 DEF MulEffect

LEMMA DivAgrees ==
  ASSUME NEW x, NEW y, NEW d, NEW i, Twins(x, y, d, i), Legal(i), i.op \in {"DIV", "DIVU"}
  PROVE Agree(DivInst(x, i), DivInst(y, i), d)
<1>1. i.rs \in Regs /\ i.rt \in Regs BY DEF Legal
<1>2. x.g[i.rs] = y.g[i.rs] /\ x.g[i.rt] = y.g[i.rt]
  BY <1>1, GeneralOperands
<1> QED BY <1>2, SetHiLoAgrees DEF DivInst, Twins

LEMMA HiLoAgrees ==
  ASSUME NEW x, NEW y, NEW d, NEW i, Twins(x, y, d, i), Legal(i), i.op \in HiLoOps
  PROVE Agree(HiLoInst(x, i), HiLoInst(y, i), d)
<1>1. i.rs \in Regs /\ i.rd \in Regs BY DEF Legal, HiLoOps
<1>2. x.g[i.rs] = y.g[i.rs] /\ ~Hits(d, "g", i.rd) /\ x.hi = y.hi /\ x.lo = y.lo
  BY <1>1, GeneralOperands DEF Twins, Agree, SameRest
<1>3. ASSUME NEW v
      PROVE /\ Agree([x EXCEPT !.hi = v], [y EXCEPT !.hi = v], d)
            /\ Agree([x EXCEPT !.lo = v], [y EXCEPT !.lo = v], d)
  BY DEF Twins, Shaped, Fields, Agree, SameRest
<1> QED BY <1>2, <1>3, PutGAgrees DEF HiLoInst, HiLoOps, Twins

LEMMA BranchInstAgrees ==
  ASSUME NEW x, NEW y, NEW d, NEW i, Twins(x, y, d, i), Legal(i), i.op \in BranchOps \cup LikelyOps
  PROVE Agree(BranchInst(x, i), BranchInst(y, i), d)
<1> DEFINE link == i.op \in {"BGEZAL", "BLTZAL", "BGEZALL", "BLTZALL"}
           s == IF link THEN [x EXCEPT !.g[REG_RA] = (x.pc + 4) % Mod] ELSE x
           t == IF link THEN [y EXCEPT !.g[REG_RA] = (y.pc + 4) % Mod] ELSE y
<1>1. i.rs \in Regs /\ i.rt \in Regs BY DEF Legal, BranchOps, LikelyOps
<1>2. ~Hits(d, "g", REG_RA) /\ x.pc = y.pc
  BY GeneralOperands DEF Twins, Agree, SameRest
<1>3. Twins(s, t, d, i)
  BY <1>2, PutGAgrees, PutGKeeps DEF Twins, Keeps
<1>4. /\ BranchInst(x, i)
           = BRANCH_INST(s, Test(i.op, s.g[i.rs], s.g[i.rt]), i.imm, i.op \in LikelyOps)
      /\ BranchInst(y, i)
           = BRANCH_INST(t, Test(i.op, t.g[i.rs], t.g[i.rt]), i.imm, i.op \in LikelyOps)
  BY DEF BranchInst
<1> HIDE DEF s, t
<1>5. s.g[i.rs] = t.g[i.rs] /\ s.g[i.rt] = t.g[i.rt]
  BY <1>1, <1>3, GeneralOperands
<1> QED BY <1>3, <1>4, <1>5, BranchAgrees DEF Twins

LEMMA JumpAgrees ==
  ASSUME NEW x, NEW y, NEW d, NEW i, Twins(x, y, d, i), Legal(i), i.op \in JumpOps
  PROVE Agree(JumpInst(x, i), JumpInst(y, i), d)
<1>1. i.rs \in Regs /\ i.rd \in Regs BY DEF Legal, JumpOps
<1>2. x.g[i.rs] = y.g[i.rs] /\ ~Hits(d, "g", i.rd) /\ ~Hits(d, "g", REG_RA)
  BY <1>1, GeneralOperands
<1> DEFINE target == IF i.op \in {"J", "JAL"}
                     THEN (x.pc & SignBit) + ((i.imm * 4) % SignBit) ELSE x.g[i.rs]
           link == IF i.op = "JAL" THEN {REG_RA} ELSE IF i.op = "JALR" THEN {i.rd} ELSE {}
           jump(z) == [z EXCEPT !.g = [n \in Regs |-> IF n \in link THEN (x.pc + 4) % Mod ELSE z.g[n]],
                                !.pc = (target - 4) % Mod]
<1>3. JumpInst(x, i) = jump(x) BY DEF JumpInst
<1>4. x.pc = y.pc BY DEF Twins, Agree, SameRest
<1>5. JumpInst(y, i) = jump(y) BY <1>2, <1>4 DEF JumpInst
<1>6. \A n \in link : ~Hits(d, "g", n) BY <1>2
<1> HIDE DEF target, link
<1>7. Agree(jump(x), jump(y), d)
  BY <1>6 DEF Twins, Shaped, Fields, Agree, SameRest, Hits
<1> QED BY <1>3, <1>5, <1>7

LEMMA TrapAgrees ==
  ASSUME NEW x, NEW y, NEW d, NEW i, Twins(x, y, d, i), Legal(i), i.op \in TrapOps \cup TrapImmOps
  PROVE Agree(TrapInst(x, i), TrapInst(y, i), d)
<1>1. i.rs \in Regs /\ i.rt \in Regs BY DEF Legal, TrapOps, TrapImmOps
<1>2. x.g[i.rs] = y.g[i.rs] /\ x.g[i.rt] = y.g[i.rt]
  BY <1>1, GeneralOperands
<1> QED BY <1>2, RaiseAgrees DEF TrapInst, Twins

LEMMA AbsentAgrees ==
  ASSUME NEW x, NEW y, NEW d, NEW i, Twins(x, y, d, i), Legal(i), i.op \in {"COP2", "RFE", "TLB", "BREAK", "SYNC"}
  PROVE Agree(AbsentInst(x, i), AbsentInst(y, i), d)
BY RaiseAgrees DEF AbsentInst, Twins

LEMMA StoreAgrees ==
  ASSUME NEW x, NEW y, NEW d, NEW i, Twins(x, y, d, i), Legal(i), i.op \in StoreOps
  PROVE Agree(StoreInst(x, i), StoreInst(y, i), d)
<1>1. i.rs \in Regs /\ i.rt \in Regs BY DEF Legal, StoreOps
<1>2. x.g[i.rt] = y.g[i.rt] /\ Address(x, i) = Address(y, i)
  BY <1>1, GeneralOperands, AddressSame
<1> QED BY <1>2, WriteAgrees DEF StoreInst, Twins

LEMMA SplitAgrees ==
  ASSUME NEW x, NEW y, NEW d, NEW i, Twins(x, y, d, i), Legal(i), i.op \in {"SWL", "SWR"}
  PROVE Agree(SplitInst(x, i), SplitInst(y, i), d)
<1>1. i.rs \in Regs /\ i.rt \in Regs BY DEF Legal
<1>2. x.g[i.rt] = y.g[i.rt] /\ Address(x, i) = Address(y, i)
  BY <1>1, GeneralOperands, AddressSame
<1>3. PICK a : a = Aligned(Address(x, i)) OBVIOUS
<1>4. Read(x, a, 4) = Read(y, a, 4) BY ReadSame DEF Twins
<1>5. \E v : /\ SplitInst(x, i) = Write(ReadRaises(x, a, 4), a, 4, v)
             /\ SplitInst(y, i) = Write(ReadRaises(y, a, 4), a, 4, v)
  BY <1>2, <1>3, <1>4 DEF SplitInst
<1>6. /\ Agree(ReadRaises(x, a, 4), ReadRaises(y, a, 4), d)
      /\ Shaped(ReadRaises(x, a, 4)) /\ Shaped(ReadRaises(y, a, 4))
  BY ReadRaisesAgrees, ReadRaisesKeeps DEF Twins, Keeps
<1> QED BY <1>5, <1>6, WriteAgrees

\* What a floating point instruction reads is the same, and what it writes is
\* not the register in flight.
LEMMA FloatReads ==
  ASSUME NEW x, NEW y, NEW d, NEW i, Twins(x, y, d, i), NEW fmt, NEW n,
         n = i.rd \/ n = i.rt \/ n = i.sh, n \in FRegs, ~Odd(fmt, {n})
  PROVE FPR(x, n, fmt) = FPR(y, n, fmt)
<1>1. fmt = "d" => n % 2 # 1 BY DEF Odd
<1> QED BY <1>1, FloatOperands, FprSame

LEMMA FloatWrites ==
  ASSUME NEW x, NEW y, NEW d, NEW i, Twins(x, y, d, i), NEW fmt, NEW v,
         NEW n \in {i.rd, i.rt, i.sh}, n \in FRegs, ~Odd(fmt, {n})
  PROVE Agree(SET_FPR(x, n, fmt, v), SET_FPR(y, n, fmt, v), d)
<1>1. fmt = "d" => n % 2 # 1 BY DEF Odd
<1>2. ~Hits(d, "f", n) /\ (fmt = "d" => ~Hits(d, "f", n + 1))
  BY <1>1, FloatOperands
<1> QED BY <1>2, SetFprAgrees DEF Twins

LEMMA OddParts ==
  ASSUME NEW fmt, NEW S, ~Odd(fmt, S) PROVE \A n \in S : ~Odd(fmt, {n})
BY DEF Odd

LEMMA FpAgrees ==
  ASSUME NEW x, NEW y, NEW d, NEW i, Twins(x, y, d, i), Legal(i), i.op = "FP"
  PROVE Agree(FpInst(x, i), FpInst(y, i), d)
<1>1. i.rd \in FRegs /\ i.rt \in FRegs /\ i.sh \in FRegs BY DEF Legal, FloatOps
<1> DEFINE two == i.fn \in {"add", "sub", "mul", "div"}
           S == {i.rd, i.sh} \cup (IF two THEN {i.rt} ELSE {})
<1>2. CASE Odd(i.fmt, S)
  BY <1>2, RunErrorAgrees DEF FpInst, Twins
<1>3. CASE ~Odd(i.fmt, S)
  <2>1. /\ ~Odd(i.fmt, {i.rd}) /\ ~Odd(i.fmt, {i.sh})
        /\ two => ~Odd(i.fmt, {i.rt})
    BY <1>3, OddParts
  <2>2. /\ FPR(x, i.rd, i.fmt) = FPR(y, i.rd, i.fmt)
        /\ two => FPR(x, i.rt, i.fmt) = FPR(y, i.rt, i.fmt)
    BY <2>1, <1>1, FloatReads
  <2>3. \A v : Agree(SET_FPR(x, i.sh, i.fmt, v), SET_FPR(y, i.sh, i.fmt, v), d)
    BY <2>1, <1>1, FloatWrites
  <2> QED BY <1>3, <2>2, <2>3 DEF FpInst
<1> QED BY <1>2, <1>3

LEMMA CvtAgrees ==
  ASSUME NEW x, NEW y, NEW d, NEW i, Twins(x, y, d, i), Legal(i), i.op = "CVT"
  PROVE Agree(CvtInst(x, i), CvtInst(y, i), d)
<1>1. i.rd \in FRegs /\ i.sh \in FRegs BY DEF Legal, FloatOps
<1>2. CASE Odd(i.fmt, {i.rd}) \/ Odd(i.fn, {i.sh})
  BY <1>2, RunErrorAgrees DEF CvtInst, Twins
<1>3. CASE ~(Odd(i.fmt, {i.rd}) \/ Odd(i.fn, {i.sh}))
  <2>1. FPR(x, i.rd, i.fmt) = FPR(y, i.rd, i.fmt)
    <3>1. ~Odd(i.fmt, {i.rd}) BY <1>3
    <3> QED BY <3>1, <1>1, FloatReads
  <2>3. x.f[i.rd] = y.f[i.rd]
    BY <1>1, FloatOperands
  <2>2. \A v : Agree(SET_FPR(x, i.sh, i.fn, v), SET_FPR(y, i.sh, i.fn, v), d)
    BY <1>3, <1>1, FloatWrites
  <2> QED BY <1>3, <2>1, <2>2, <2>3 DEF CvtInst
<1> QED BY <1>2, <1>3

LEMMA ToWordAgrees ==
  ASSUME NEW x, NEW y, NEW d, NEW i, Twins(x, y, d, i), Legal(i), i.op = "TOW"
  PROVE Agree(ToWordInst(x, i), ToWordInst(y, i), d)
<1>1. i.rd \in FRegs /\ i.sh \in FRegs BY DEF Legal, FloatOps
<1>2. CASE Odd(i.fmt, {i.rd})
  BY <1>2, RunErrorAgrees DEF ToWordInst, Twins
<1>3. CASE ~Odd(i.fmt, {i.rd})
  <2>1. FPR(x, i.rd, i.fmt) = FPR(y, i.rd, i.fmt)
    <3>1. ~Odd(i.fmt, {i.rd}) BY <1>3
    <3> QED BY <3>1, <1>1, FloatReads
  <2>2. ~Hits(d, "f", i.sh)
    BY <1>1, FloatOperands
  <2> QED BY <1>3, <2>1, <2>2, PutFAgrees DEF ToWordInst, Twins
<1> QED BY <1>2, <1>3

LEMMA CompareAgrees ==
  ASSUME NEW x, NEW y, NEW d, NEW i, Twins(x, y, d, i), Legal(i), i.op = "C"
  PROVE Agree(CompareInst(x, i), CompareInst(y, i), d)
<1>1. i.rd \in FRegs /\ i.rt \in FRegs BY DEF Legal, FloatOps
<1>2. CASE Odd(i.fmt, {i.rd, i.rt})
  BY <1>2, RunErrorAgrees DEF CompareInst, Twins
<1>3. CASE ~Odd(i.fmt, {i.rd, i.rt})
  <2>1. ~Odd(i.fmt, {i.rd}) /\ ~Odd(i.fmt, {i.rt})
    BY <1>3, OddParts
  <2>2. FPR(x, i.rd, i.fmt) = FPR(y, i.rd, i.fmt)
    BY <2>1, <1>1, FloatReads
  <2>3. FPR(x, i.rt, i.fmt) = FPR(y, i.rt, i.fmt)
    BY <2>1, <1>1, FloatReads
  <2> QED BY <1>3, <2>2, <2>3, RaiseAgrees, SetFccAgrees DEF CompareInst, Twins
<1> QED BY <1>2, <1>3

LEMMA BC1Agrees ==
  ASSUME NEW x, NEW y, NEW d, NEW i, Twins(x, y, d, i), Legal(i), i.op = "BC1"
  PROVE Agree(BC1Inst(x, i), BC1Inst(y, i), d)
<1>1. FCC(x, i.rt \div 4) = FCC(y, i.rt \div 4) BY FccSame DEF Twins
<1> QED BY <1>1, BranchAgrees DEF BC1Inst, Twins

LEMMA ControlAgrees ==
  ASSUME NEW x, NEW y, NEW d, NEW i, Twins(x, y, d, i), Legal(i), i.op \in {"CFC1", "CTC1"}
  PROVE Agree(ControlInst(x, i), ControlInst(y, i), d)
<1>1. i.rt \in Regs BY DEF Legal
<1>2. x.g[i.rt] = y.g[i.rt] /\ ~Hits(d, "g", i.rt) /\ x.fcr = y.fcr
  BY <1>1, GeneralOperands DEF Twins, Agree, SameRest
<1>3. CASE i.op = "CFC1"
  BY <1>2, <1>3, PutGAgrees DEF ControlInst, Twins
<1>4. CASE i.op = "CTC1"
  <2>1. ASSUME NEW v
        PROVE /\ Agree([x EXCEPT !.fcr[i.rd] = v], [y EXCEPT !.fcr[i.rd] = v], d)
              /\ Shaped([x EXCEPT !.fcr[i.rd] = v]) /\ Shaped([y EXCEPT !.fcr[i.rd] = v])
    BY DEF Twins, Shaped, Fields, Agree, SameRest
  <2> QED BY <1>2, <1>4, <2>1, RaiseAgrees DEF ControlInst
<1> QED BY <1>3, <1>4

LEMMA MoveAgrees ==
  ASSUME NEW x, NEW y, NEW d, NEW i, Twins(x, y, d, i), Legal(i), i.op \in MoveOps
  PROVE Agree(MoveInst(x, i), MoveInst(y, i), d)
<1>1. CASE i.op \in {"MFC1", "MTC1"}
  <2>1. i.rt \in Regs /\ i.rd \in FRegs BY <1>1 DEF Legal, FloatOps, MoveOps
  <2>2. x.g[i.rt] = y.g[i.rt] /\ ~Hits(d, "g", i.rt) BY <2>1, GeneralOperands
  <2>3. x.f[i.rd] = y.f[i.rd] /\ ~Hits(d, "f", i.rd) BY <2>1, FloatOperands
  <2> QED BY <1>1, <2>2, <2>3, PutGAgrees, PutFAgrees DEF MoveInst, Twins
<1>2. CASE i.op \in {"MOVF", "MOVT"}
  <2>1. i.rs \in Regs /\ i.rd \in Regs BY <1>2 DEF Legal
  <2>2. x.g[i.rs] = y.g[i.rs] /\ ~Hits(d, "g", i.rd) BY <2>1, GeneralOperands
  <2>3. FCC(x, i.rt \div 4) = FCC(y, i.rt \div 4) BY FccSame DEF Twins
  <2> QED BY <1>2, <2>2, <2>3, PutGAgrees DEF MoveInst, Twins
<1> QED BY <1>1, <1>2 DEF MoveOps

LEMMA FpMoveIfAgrees ==
  ASSUME NEW x, NEW y, NEW d, NEW i, Twins(x, y, d, i), Legal(i), i.op \in {"MOVF.F", "MOVT.F", "MOVN.F", "MOVZ.F"}
  PROVE Agree(FpMoveIf(x, i), FpMoveIf(y, i), d)
<1> DEFINE holds(z) ==
      CASE i.op = "MOVF.F" -> ~FCC(z, i.rt \div 4)
        [] i.op = "MOVT.F" -> FCC(z, i.rt \div 4)
        [] i.op = "MOVN.F" -> z.g[i.rt] # 0
        [] i.op = "MOVZ.F" -> z.g[i.rt] = 0
<1>1. i.rd \in FRegs /\ i.sh \in FRegs BY DEF Legal, FloatOps
<1>2. i.op \in {"MOVN.F", "MOVZ.F"} => x.g[i.rt] = y.g[i.rt]
  <2>1. i.op \in {"MOVN.F", "MOVZ.F"} => i.rt \in Regs BY DEF Legal
  <2> QED BY <2>1, GeneralOperands
<1>3. FCC(x, i.rt \div 4) = FCC(y, i.rt \div 4) BY FccSame DEF Twins
<1>4. holds(x) = holds(y) BY <1>2, <1>3
<1>5. ASSUME NEW z
      PROVE FpMoveIf(z, i) = IF ~holds(z) THEN z
                             ELSE IF Odd(i.fmt, {i.rd, i.sh}) THEN run_error(z)
                             ELSE SET_FPR(z, i.sh, i.fmt, FPR(z, i.rd, i.fmt))
  BY DEF FpMoveIf
<1> HIDE DEF holds
<1>6. CASE ~holds(x)
  BY <1>4, <1>5, <1>6 DEF Twins
<1>7. CASE holds(x) /\ Odd(i.fmt, {i.rd, i.sh})
  BY <1>4, <1>5, <1>7, RunErrorAgrees DEF Twins
<1>8. CASE holds(x) /\ ~Odd(i.fmt, {i.rd, i.sh})
  <2>1. ~Odd(i.fmt, {i.rd}) /\ ~Odd(i.fmt, {i.sh})
    BY <1>8, OddParts
  <2>2. FPR(x, i.rd, i.fmt) = FPR(y, i.rd, i.fmt)
    BY <2>1, <1>1, FloatReads
  <2>3. \A v : Agree(SET_FPR(x, i.sh, i.fmt, v), SET_FPR(y, i.sh, i.fmt, v), d)
    BY <2>1, <1>1, FloatWrites
  <2> QED BY <1>4, <1>5, <1>8, <2>2, <2>3
<1> QED BY <1>6, <1>7, <1>8

LEMMA FpStoreAgrees ==
  ASSUME NEW x, NEW y, NEW d, NEW i, Twins(x, y, d, i), Legal(i), i.op \in {"SWC1", "SDC1"}
  PROVE Agree(FpStoreInst(x, i), FpStoreInst(y, i), d)
<1>1. i.rs \in Regs /\ i.rt \in FRegs BY DEF Legal
<1>2. Address(x, i) = Address(y, i) BY <1>1, AddressSame
<1>3. x.f[i.rt] = y.f[i.rt] BY <1>1, FloatOperands
<1>4. CASE i.op = "SWC1"
  BY <1>2, <1>3, <1>4, WriteAgrees DEF FpStoreInst, Twins
<1>5. CASE i.op = "SDC1" /\ Odd("d", {i.rt})
  BY <1>5, RunErrorAgrees DEF FpStoreInst, Twins
<1>6. CASE i.op = "SDC1" /\ ~Odd("d", {i.rt})
  <2>1. x.f[i.rt + 1] = y.f[i.rt + 1] BY <1>1, <1>6, FloatOperands DEF Odd
  <2>2. ASSUME NEW a, NEW v, NEW b, NEW w
        PROVE Agree(Write(Write(x, a, 4, v), b, 4, w), Write(Write(y, a, 4, v), b, 4, w), d)
    BY WriteAgrees, WriteKeeps DEF Twins, Keeps
  <2> QED BY <1>2, <1>3, <1>6, <2>1, <2>2 DEF FpStoreInst
<1> QED BY <1>4, <1>5, <1>6

-----------------------------------------------------------------------------
(* Loads.                                                                  *)

\* A load leaves its value in flight, or in its register.
LEMMA LoadWaits ==
  ASSUME NEW x, NEW file \in {"g", "f"}, NEW n, NEW v, Shaped(x)
  PROVE /\ Shaped(LOAD_INST(x, file, n, v, TRUE))
        /\ LOAD_INST(x, file, n, v, TRUE).ld1 = <<[file |-> file, n |-> n, v |-> v]>>
        /\ LOAD_INST(x, file, n, v, TRUE).ld2 = x.ld2
BY DEF LOAD_INST, Shaped, Fields

LEMMA LoadArrives ==
  ASSUME NEW x, NEW file \in {"g", "f"}, NEW n, NEW v, Shaped(x)
  PROVE /\ Shaped(LOAD_INST(x, file, n, v, FALSE))
        /\ LOAD_INST(x, file, n, v, FALSE).ld1 = x.ld1
        /\ LOAD_INST(x, file, n, v, FALSE).ld2 = x.ld2
BY DEF LOAD_INST, Put, Shaped, Fields

\* The machine that delays the load and the one that does not agree afterwards
\* but for the two loads in flight.
LEMMA LoadInStep ==
  ASSUME NEW x, NEW y, NEW d, NEW file \in {"g", "f"}, NEW n, NEW v, Shaped(x), Shaped(y),
         Agree(x, y, d), ~Hits(d, file, n), n \in IF file = "g" THEN Regs ELSE FRegs
  PROVE /\ InStep(LOAD_INST(x, file, n, v, TRUE), LOAD_INST(y, file, n, v, FALSE), d,
                  [file |-> file, n |-> n, v |-> v])
        /\ Agree(LOAD_INST(x, file, n, v, FALSE), LOAD_INST(y, file, n, v, FALSE), d)
<1>1. CASE file = "g"
  BY <1>1 DEF LOAD_INST, Put, Shaped, Fields, Agree, InStep, SameRest, Hits
<1>2. CASE file = "f"
  BY <1>2 DEF LOAD_INST, Put, Shaped, Fields, Agree, InStep, SameRest, Hits
<1> QED BY <1>1, <1>2

\* An instruction that loads one register is a load of the same value in both.
LEMMA LoadForm ==
  ASSUME NEW x, NEW y, NEW d, NEW i, Twins(x, y, d, i), Legal(i), i.op \in LoadOps
  PROVE \E s, t, v : /\ Keeps(x, s) /\ Keeps(y, t) /\ Agree(s, t, d)
                     /\ \A b : /\ LoadInst(x, i, b) = LOAD_INST(s, "g", i.rt, v, b)
                               /\ LoadInst(y, i, b) = LOAD_INST(t, "g", i.rt, v, b)
<1>1. i.rs \in Regs BY DEF Legal, LoadOps
<1>2. PICK a : a = Address(x, i) /\ a = Address(y, i) BY <1>1, AddressSame
<1>3. PICK n : n = Size[i.op] OBVIOUS
<1>4. Read(x, a, n) = Read(y, a, n) BY ReadSame DEF Twins
<1>5. \E v : \A b :
        /\ LoadInst(x, i, b) = LOAD_INST(ReadRaises(x, a, n), "g", i.rt, v, b)
        /\ LoadInst(y, i, b) = LOAD_INST(ReadRaises(y, a, n), "g", i.rt, v, b)
  <2>1. PICK v : v = Read(x, a, n) OBVIOUS
  <2>2. PICK top : top = ByteMod^n OBVIOUS
  <2>3. PICK e : e = IF i.op \in {"LB", "LH"} /\ 2 * v >= top THEN v + Mod - top ELSE v
    OBVIOUS
  <2>4. ASSUME NEW b
        PROVE /\ LoadInst(x, i, b) = LOAD_INST(ReadRaises(x, a, n), "g", i.rt, e, b)
              /\ LoadInst(y, i, b) = LOAD_INST(ReadRaises(y, a, n), "g", i.rt, e, b)
    BY <1>2, <1>3, <1>4, <2>1, <2>2, <2>3 DEF LoadInst
  <2> QED BY <2>4
<1>6. /\ Keeps(x, ReadRaises(x, a, n)) /\ Keeps(y, ReadRaises(y, a, n))
      /\ Agree(ReadRaises(x, a, n), ReadRaises(y, a, n), d)
  BY ReadRaisesKeeps, ReadRaisesAgrees DEF Twins
<1> QED BY <1>5, <1>6

LEMMA MergeForm ==
  ASSUME NEW x, NEW y, NEW d, NEW i, Twins(x, y, d, i), Legal(i), i.op \in {"LWL", "LWR"}
  PROVE \E s, t, v : /\ Keeps(x, s) /\ Keeps(y, t) /\ Agree(s, t, d)
                     /\ \A b : /\ MergeInst(x, i, b) = LOAD_INST(s, "g", i.rt, v, b)
                               /\ MergeInst(y, i, b) = LOAD_INST(t, "g", i.rt, v, b)
<1>1. i.rs \in Regs /\ i.rt \in Regs BY DEF Legal
<1>2. PICK a : a = Address(x, i) /\ a = Address(y, i) BY <1>1, AddressSame
<1>3. PICK n : n = Aligned(a) OBVIOUS
<1>4. Read(x, n, 4) = Read(y, n, 4) BY ReadSame DEF Twins
<1>5. x.g[i.rt] = y.g[i.rt] BY <1>1, GeneralOperands
<1>6. /\ Keeps(x, ReadRaises(x, n, 4)) /\ Keeps(y, ReadRaises(y, n, 4))
      /\ Agree(ReadRaises(x, n, 4), ReadRaises(y, n, 4), d)
  BY ReadRaisesKeeps, ReadRaisesAgrees DEF Twins
<1>7. ReadRaises(x, n, 4).exc = ReadRaises(y, n, 4).exc BY <1>6 DEF Agree, SameRest
<1>8. PICK v : v = IF ReadRaises(x, n, 4).exc # "none" THEN Read(x, n, 4)
                   ELSE IF i.op = "LWL" THEN LWL(Read(x, n, 4), x.g[i.rt], a % 4)
                   ELSE LWR(Read(x, n, 4), x.g[i.rt], a % 4)
  OBVIOUS
<1>9. ASSUME NEW b
      PROVE /\ MergeInst(x, i, b) = LOAD_INST(ReadRaises(x, n, 4), "g", i.rt, v, b)
            /\ MergeInst(y, i, b) = LOAD_INST(ReadRaises(y, n, 4), "g", i.rt, v, b)
  BY <1>2, <1>3, <1>4, <1>5, <1>7, <1>8 DEF MergeInst
<1> QED BY <1>6, <1>9

LEMMA FpLoadForm ==
  ASSUME NEW x, NEW y, NEW d, NEW i, Twins(x, y, d, i), Legal(i), i.op = "LWC1"
  PROVE \E s, t, v : /\ Keeps(x, s) /\ Keeps(y, t) /\ Agree(s, t, d)
                     /\ \A b : /\ FpLoadInst(x, i, b) = LOAD_INST(s, "f", i.rt, v, b)
                               /\ FpLoadInst(y, i, b) = LOAD_INST(t, "f", i.rt, v, b)
<1>1. i.rs \in Regs BY DEF Legal
<1>2. PICK a : a = Address(x, i) /\ a = Address(y, i) BY <1>1, AddressSame
<1>3. PICK v : v = Read(x, a, 4) /\ v = Read(y, a, 4) BY ReadSame DEF Twins
<1>4. ASSUME NEW b
      PROVE /\ FpLoadInst(x, i, b) = LOAD_INST(ReadRaises(x, a, 4), "f", i.rt, v, b)
            /\ FpLoadInst(y, i, b) = LOAD_INST(ReadRaises(y, a, 4), "f", i.rt, v, b)
  BY <1>2, <1>3 DEF FpLoadInst
<1>5. /\ Keeps(x, ReadRaises(x, a, 4)) /\ Keeps(y, ReadRaises(y, a, 4))
      /\ Agree(ReadRaises(x, a, 4), ReadRaises(y, a, 4), d)
  BY ReadRaisesKeeps, ReadRaisesAgrees DEF Twins
<1> QED BY <1>4, <1>5

-----------------------------------------------------------------------------
(* The switch.                                                             *)

\* The instruction's own part of the switch is performed.
LEMMA Switch ==
  ASSUME NEW x, NEW i, NEW b
  PROVE /\ i.op \in AluOps => Execute(x, i, b) = AluInst(x, i)
        /\ i.op \in ImmOps => Execute(x, i, b) = ImmInst(x, i)
        /\ i.op \in ShiftOps => Execute(x, i, b) = ShiftInst(x, i)
        /\ i.op \in MulOps => Execute(x, i, b) = MulInst(x, i)
        /\ i.op \in {"DIV", "DIVU"} => Execute(x, i, b) = DivInst(x, i)
        /\ i.op \in HiLoOps => Execute(x, i, b) = HiLoInst(x, i)
        /\ i.op \in BranchOps \cup LikelyOps => Execute(x, i, b) = BranchInst(x, i)
        /\ i.op \in JumpOps => Execute(x, i, b) = JumpInst(x, i)
        /\ i.op \in TrapOps \cup TrapImmOps => Execute(x, i, b) = TrapInst(x, i)
        /\ i.op \in {"COP2", "RFE", "TLB", "BREAK", "SYNC"} => Execute(x, i, b) = AbsentInst(x, i)
        /\ i.op \in LoadOps => Execute(x, i, b) = LoadInst(x, i, b)
        /\ i.op \in {"LWL", "LWR"} => Execute(x, i, b) = MergeInst(x, i, b)
        /\ i.op \in StoreOps => Execute(x, i, b) = StoreInst(x, i)
        /\ i.op \in {"SWL", "SWR"} => Execute(x, i, b) = SplitInst(x, i)
        /\ i.op = "FP" => Execute(x, i, b) = FpInst(x, i)
        /\ i.op = "CVT" => Execute(x, i, b) = CvtInst(x, i)
        /\ i.op = "TOW" => Execute(x, i, b) = ToWordInst(x, i)
        /\ i.op = "C" => Execute(x, i, b) = CompareInst(x, i)
        /\ i.op = "BC1" => Execute(x, i, b) = BC1Inst(x, i)
        /\ i.op \in {"CFC1", "CTC1"} => Execute(x, i, b) = ControlInst(x, i)
        /\ i.op \in MoveOps => Execute(x, i, b) = MoveInst(x, i)
        /\ i.op \in {"MOVF.F", "MOVT.F", "MOVN.F", "MOVZ.F"} => Execute(x, i, b) = FpMoveIf(x, i)
        /\ i.op \in {"LWC1", "LDC1"} => Execute(x, i, b) = FpLoadInst(x, i, b)
        /\ i.op \in {"SWC1", "SDC1"} => Execute(x, i, b) = FpStoreInst(x, i)
<1> USE DEF AluOps, ImmOps, RegisterForm, ShiftOps, MulOps, HiLoOps, BranchOps, LikelyOps,
            JumpOps, TrapOps, TrapImmOps, LoadOps, StoreOps, MoveOps
<1>1. i.op \in AluOps => Execute(x, i, b) = AluInst(x, i) BY DEF Execute
<1>2. i.op \in ImmOps => Execute(x, i, b) = ImmInst(x, i) BY DEF Execute
<1>3. i.op \in ShiftOps => Execute(x, i, b) = ShiftInst(x, i) BY DEF Execute
<1>4. i.op \in MulOps => Execute(x, i, b) = MulInst(x, i) BY DEF Execute
<1>5. i.op \in {"DIV", "DIVU"} => Execute(x, i, b) = DivInst(x, i) BY DEF Execute
<1>6. i.op \in HiLoOps => Execute(x, i, b) = HiLoInst(x, i) BY DEF Execute
<1>7. i.op \in BranchOps \cup LikelyOps => Execute(x, i, b) = BranchInst(x, i) BY DEF Execute
<1>8. i.op \in JumpOps => Execute(x, i, b) = JumpInst(x, i) BY DEF Execute
<1>9. i.op \in TrapOps \cup TrapImmOps => Execute(x, i, b) = TrapInst(x, i) BY DEF Execute
<1>10. i.op \in {"COP2", "RFE", "TLB", "BREAK", "SYNC"} => Execute(x, i, b) = AbsentInst(x, i) BY DEF Execute
<1>11. i.op \in LoadOps => Execute(x, i, b) = LoadInst(x, i, b) BY DEF Execute
<1>12. i.op \in {"LWL", "LWR"} => Execute(x, i, b) = MergeInst(x, i, b) BY DEF Execute
<1>13. i.op \in StoreOps => Execute(x, i, b) = StoreInst(x, i) BY DEF Execute
<1>14. i.op \in {"SWL", "SWR"} => Execute(x, i, b) = SplitInst(x, i) BY DEF Execute
<1>15. i.op = "FP" => Execute(x, i, b) = FpInst(x, i) BY DEF Execute
<1>16. i.op = "CVT" => Execute(x, i, b) = CvtInst(x, i) BY DEF Execute
<1>17. i.op = "TOW" => Execute(x, i, b) = ToWordInst(x, i) BY DEF Execute
<1>18. i.op = "C" => Execute(x, i, b) = CompareInst(x, i) BY DEF Execute
<1>19. i.op = "BC1" => Execute(x, i, b) = BC1Inst(x, i) BY DEF Execute
<1>20. i.op \in {"CFC1", "CTC1"} => Execute(x, i, b) = ControlInst(x, i) BY DEF Execute
<1>21. i.op \in MoveOps => Execute(x, i, b) = MoveInst(x, i) BY DEF Execute
<1>22. i.op \in {"MOVF.F", "MOVT.F", "MOVN.F", "MOVZ.F"} => Execute(x, i, b) = FpMoveIf(x, i) BY DEF Execute
<1>23. i.op \in {"LWC1", "LDC1"} => Execute(x, i, b) = FpLoadInst(x, i, b) BY DEF Execute
<1>24. i.op \in {"SWC1", "SDC1"} => Execute(x, i, b) = FpStoreInst(x, i) BY DEF Execute
<1> HIDE DEF AluOps, ImmOps, ShiftOps, MulOps, HiLoOps, BranchOps, LikelyOps, JumpOps,
             TrapOps, TrapImmOps, LoadOps, StoreOps, MoveOps
<1> QED
  BY <1>1, <1>2, <1>3, <1>4, <1>5, <1>6, <1>7, <1>8, <1>9, <1>10, <1>11, <1>12,
     <1>13, <1>14, <1>15, <1>16, <1>17, <1>18, <1>19, <1>20, <1>21, <1>22, <1>23, <1>24

Loading(i) == i.op \in LoadOps \cup {"LWL", "LWR", "LWC1", "LDC1"}

\* Every instruction has its part of the switch.
LEMMA Parts ==
  ASSUME NEW i, Legal(i), ~Loading(i)
  PROVE \/ i.op \in AluOps
        \/ i.op \in ImmOps
        \/ i.op \in ShiftOps
        \/ i.op \in MulOps
        \/ i.op \in {"DIV", "DIVU"}
        \/ i.op \in HiLoOps
        \/ i.op \in BranchOps \cup LikelyOps
        \/ i.op \in JumpOps
        \/ i.op \in TrapOps \cup TrapImmOps
        \/ i.op \in {"COP2", "RFE", "TLB", "BREAK", "SYNC"}
        \/ i.op \in StoreOps
        \/ i.op \in {"SWL", "SWR"}
        \/ i.op = "FP"
        \/ i.op = "CVT"
        \/ i.op = "TOW"
        \/ i.op = "C"
        \/ i.op = "BC1"
        \/ i.op \in {"CFC1", "CTC1"}
        \/ i.op \in MoveOps
        \/ i.op \in {"MOVF.F", "MOVT.F", "MOVN.F", "MOVZ.F"}
        \/ i.op \in {"SWC1", "SDC1"}
BY DEF Legal, ComputeOps, GotoOps, AccessOps, FloatOps, Loading

LEMMA OthersKeep ==
  ASSUME NEW x, NEW i, NEW b, Legal(i), ~Loading(i), Shaped(x)
  PROVE Keeps(x, Execute(x, i, b))
<1>1. CASE i.op \in AluOps
  BY <1>1, Switch, AluKeeps
<1>2. CASE i.op \in ImmOps
  BY <1>2, Switch, ImmKeeps
<1>3. CASE i.op \in ShiftOps
  BY <1>3, Switch, ShiftKeeps
<1>4. CASE i.op \in MulOps
  BY <1>4, Switch, MulKeeps
<1>5. CASE i.op \in {"DIV", "DIVU"}
  BY <1>5, Switch, DivKeeps
<1>6. CASE i.op \in HiLoOps
  BY <1>6, Switch, HiLoKeeps
<1>7. CASE i.op \in BranchOps \cup LikelyOps
  BY <1>7, Switch, BranchInstKeeps
<1>8. CASE i.op \in JumpOps
  BY <1>8, Switch, JumpKeeps
<1>9. CASE i.op \in TrapOps \cup TrapImmOps
  BY <1>9, Switch, TrapKeeps
<1>10. CASE i.op \in {"COP2", "RFE", "TLB", "BREAK", "SYNC"}
  BY <1>10, Switch, AbsentKeeps
<1>11. CASE i.op \in StoreOps
  BY <1>11, Switch, StoreKeeps
<1>12. CASE i.op \in {"SWL", "SWR"}
  BY <1>12, Switch, SplitKeeps
<1>13. CASE i.op = "FP"
  BY <1>13, Switch, FpKeeps
<1>14. CASE i.op = "CVT"
  BY <1>14, Switch, CvtKeeps
<1>15. CASE i.op = "TOW"
  BY <1>15, Switch, ToWordKeeps
<1>16. CASE i.op = "C"
  BY <1>16, Switch, CompareKeeps
<1>17. CASE i.op = "BC1"
  BY <1>17, Switch, BC1Keeps
<1>18. CASE i.op \in {"CFC1", "CTC1"}
  BY <1>18, Switch, ControlKeeps
<1>19. CASE i.op \in MoveOps
  BY <1>19, Switch, MoveKeeps
<1>20. CASE i.op \in {"MOVF.F", "MOVT.F", "MOVN.F", "MOVZ.F"}
  BY <1>20, Switch, FpMoveIfKeeps
<1>21. CASE i.op \in {"SWC1", "SDC1"}
  BY <1>21, Switch, FpStoreKeeps
<1> QED
  BY Parts, <1>1, <1>2, <1>3, <1>4, <1>5, <1>6, <1>7, <1>8, <1>9, <1>10, <1>11,
     <1>12, <1>13, <1>14, <1>15, <1>16, <1>17, <1>18, <1>19, <1>20, <1>21

LEMMA OthersAgree ==
  ASSUME NEW x, NEW y, NEW d, NEW i, NEW b, NEW c, Twins(x, y, d, i), Legal(i), ~Loading(i)
  PROVE Agree(Execute(x, i, b), Execute(y, i, c), d)
<1>1. CASE i.op \in AluOps
  <2>1. Execute(x, i, b) = AluInst(x, i) /\ Execute(y, i, c) = AluInst(y, i) BY <1>1, Switch
  <2> QED BY <1>1, <2>1, AluAgrees
<1>2. CASE i.op \in ImmOps
  <2>1. Execute(x, i, b) = ImmInst(x, i) /\ Execute(y, i, c) = ImmInst(y, i) BY <1>2, Switch
  <2> QED BY <1>2, <2>1, ImmAgrees
<1>3. CASE i.op \in ShiftOps
  <2>1. Execute(x, i, b) = ShiftInst(x, i) /\ Execute(y, i, c) = ShiftInst(y, i) BY <1>3, Switch
  <2> QED BY <1>3, <2>1, ShiftAgrees
<1>4. CASE i.op \in MulOps
  <2>1. Execute(x, i, b) = MulInst(x, i) /\ Execute(y, i, c) = MulInst(y, i) BY <1>4, Switch
  <2> QED BY <1>4, <2>1, MulAgrees
<1>5. CASE i.op \in {"DIV", "DIVU"}
  <2>1. Execute(x, i, b) = DivInst(x, i) /\ Execute(y, i, c) = DivInst(y, i) BY <1>5, Switch
  <2> QED BY <1>5, <2>1, DivAgrees
<1>6. CASE i.op \in HiLoOps
  <2>1. Execute(x, i, b) = HiLoInst(x, i) /\ Execute(y, i, c) = HiLoInst(y, i) BY <1>6, Switch
  <2> QED BY <1>6, <2>1, HiLoAgrees
<1>7. CASE i.op \in BranchOps \cup LikelyOps
  <2>1. Execute(x, i, b) = BranchInst(x, i) /\ Execute(y, i, c) = BranchInst(y, i) BY <1>7, Switch
  <2> QED BY <1>7, <2>1, BranchInstAgrees
<1>8. CASE i.op \in JumpOps
  <2>1. Execute(x, i, b) = JumpInst(x, i) /\ Execute(y, i, c) = JumpInst(y, i) BY <1>8, Switch
  <2> QED BY <1>8, <2>1, JumpAgrees
<1>9. CASE i.op \in TrapOps \cup TrapImmOps
  <2>1. Execute(x, i, b) = TrapInst(x, i) /\ Execute(y, i, c) = TrapInst(y, i) BY <1>9, Switch
  <2> QED BY <1>9, <2>1, TrapAgrees
<1>10. CASE i.op \in {"COP2", "RFE", "TLB", "BREAK", "SYNC"}
  <2>1. Execute(x, i, b) = AbsentInst(x, i) /\ Execute(y, i, c) = AbsentInst(y, i) BY <1>10, Switch
  <2> QED BY <1>10, <2>1, AbsentAgrees
<1>11. CASE i.op \in StoreOps
  <2>1. Execute(x, i, b) = StoreInst(x, i) /\ Execute(y, i, c) = StoreInst(y, i) BY <1>11, Switch
  <2> QED BY <1>11, <2>1, StoreAgrees
<1>12. CASE i.op \in {"SWL", "SWR"}
  <2>1. Execute(x, i, b) = SplitInst(x, i) /\ Execute(y, i, c) = SplitInst(y, i) BY <1>12, Switch
  <2> QED BY <1>12, <2>1, SplitAgrees
<1>13. CASE i.op = "FP"
  <2>1. Execute(x, i, b) = FpInst(x, i) /\ Execute(y, i, c) = FpInst(y, i) BY <1>13, Switch
  <2> QED BY <1>13, <2>1, FpAgrees
<1>14. CASE i.op = "CVT"
  <2>1. Execute(x, i, b) = CvtInst(x, i) /\ Execute(y, i, c) = CvtInst(y, i) BY <1>14, Switch
  <2> QED BY <1>14, <2>1, CvtAgrees
<1>15. CASE i.op = "TOW"
  <2>1. Execute(x, i, b) = ToWordInst(x, i) /\ Execute(y, i, c) = ToWordInst(y, i) BY <1>15, Switch
  <2> QED BY <1>15, <2>1, ToWordAgrees
<1>16. CASE i.op = "C"
  <2>1. Execute(x, i, b) = CompareInst(x, i) /\ Execute(y, i, c) = CompareInst(y, i) BY <1>16, Switch
  <2> QED BY <1>16, <2>1, CompareAgrees
<1>17. CASE i.op = "BC1"
  <2>1. Execute(x, i, b) = BC1Inst(x, i) /\ Execute(y, i, c) = BC1Inst(y, i) BY <1>17, Switch
  <2> QED BY <1>17, <2>1, BC1Agrees
<1>18. CASE i.op \in {"CFC1", "CTC1"}
  <2>1. Execute(x, i, b) = ControlInst(x, i) /\ Execute(y, i, c) = ControlInst(y, i) BY <1>18, Switch
  <2> QED BY <1>18, <2>1, ControlAgrees
<1>19. CASE i.op \in MoveOps
  <2>1. Execute(x, i, b) = MoveInst(x, i) /\ Execute(y, i, c) = MoveInst(y, i) BY <1>19, Switch
  <2> QED BY <1>19, <2>1, MoveAgrees
<1>20. CASE i.op \in {"MOVF.F", "MOVT.F", "MOVN.F", "MOVZ.F"}
  <2>1. Execute(x, i, b) = FpMoveIf(x, i) /\ Execute(y, i, c) = FpMoveIf(y, i) BY <1>20, Switch
  <2> QED BY <1>20, <2>1, FpMoveIfAgrees
<1>21. CASE i.op \in {"SWC1", "SDC1"}
  <2>1. Execute(x, i, b) = FpStoreInst(x, i) /\ Execute(y, i, c) = FpStoreInst(y, i) BY <1>21, Switch
  <2> QED BY <1>21, <2>1, FpStoreAgrees
<1> QED
  BY Parts, <1>1, <1>2, <1>3, <1>4, <1>5, <1>6, <1>7, <1>8, <1>9, <1>10, <1>11,
     <1>12, <1>13, <1>14, <1>15, <1>16, <1>17, <1>18, <1>19, <1>20, <1>21

-----------------------------------------------------------------------------
(* A step of both machines.                                                *)

\* The load in a place of the shift register.
Load(l) == IF l = <<>> THEN NoLoad ELSE l[1]
AtMostOne(l) == l = <<>> \/ \E e : e.file \in {"g", "f"} /\ l = <<e>>

\* A load for $0, which arrives after $0 has been cleared.
ForZero(i) == i.op \in LoadOps \cup {"LWL", "LWR"} /\ i.rt = 0

\* What a load of one register does to the machine and to the shift register.
LEMMA OneLoad ==
  ASSUME NEW x, NEW s, NEW file \in {"g", "f"}, NEW n, NEW v, NEW b \in BOOLEAN,
         Keeps(x, s), x.ld1 = <<>>
  PROVE LET z == LOAD_INST(s, file, n, v, b)
        IN /\ Shaped(z) /\ z.ld2 = x.ld2 /\ AtMostOne(z.ld1) /\ (~b => z.ld1 = <<>>)
           /\ Hits(Load(z.ld1), "g", 0) => file = "g" /\ n = 0
<1>0. Shaped(s) /\ s.ld1 = <<>> /\ s.ld2 = x.ld2 BY DEF Keeps
<1> DEFINE z == LOAD_INST(s, file, n, v, b)
           e == [file |-> file, n |-> n, v |-> v]
<1>1. CASE b = TRUE
  <2>0. z = LOAD_INST(s, file, n, v, TRUE) BY <1>1, Zenon
  <2> HIDE DEF z
  <2>1. Shaped(z) /\ z.ld1 = <<e>> /\ z.ld2 = x.ld2
    BY <2>0, <1>0 DEF LOAD_INST, Shaped, Fields
  <2>2. <<e>> # <<>> OBVIOUS
  <2>3. Load(z.ld1) = e BY <2>1, <2>2 DEF Load
  <2>4. Hits(Load(z.ld1), "g", 0) => file = "g" /\ n = 0
    BY <2>3 DEF Hits
  <2>5. AtMostOne(z.ld1)
    <3>1. e.file \in {"g", "f"} OBVIOUS
    <3> HIDE DEF e
    <3> QED BY <2>1, <3>1 DEF AtMostOne
  <2> QED BY <1>1, <2>1, <2>4, <2>5, Zenon DEF z
<1>2. CASE b = FALSE
  <2>0. z = LOAD_INST(s, file, n, v, FALSE) BY <1>2, Zenon
  <2> HIDE DEF z
  <2>1. Shaped(z) /\ z.ld1 = <<>> /\ z.ld2 = x.ld2
    BY <2>0, <1>0 DEF LOAD_INST, Put, Shaped, Fields
  <2>2. AtMostOne(z.ld1) /\ ~Hits(Load(z.ld1), "g", 0)
    BY <2>1 DEF AtMostOne, Hits, Load, NoLoad
  <2> QED BY <2>1, <2>2 DEF z
<1> QED BY <1>1, <1>2, Zenon

LEMMA TwoLoads ==
  ASSUME NEW x, NEW i, NEW b \in BOOLEAN, Shaped(x), x.ld1 = <<>>, i.op = "LDC1"
  PROVE LET z == FpLoadInst(x, i, b)
        IN /\ Shaped(z) /\ z.ld2 = x.ld2 /\ AtMostOne(z.ld1) /\ (~b => z.ld1 = <<>>)
           /\ ~Hits(Load(z.ld1), "g", 0)
<1>1. PICK a, c, v, w, s :
        /\ s = LOAD_INST(ReadRaises(x, a, 4), "f", i.rt, v, b)
        /\ FpLoadInst(x, i, b) = LOAD_INST(ReadRaises(s, c, 4), "f", i.rt + 1, w, b)
  BY DEF FpLoadInst
<1>2. Keeps(x, ReadRaises(x, a, 4)) BY ReadRaisesKeeps
<1>3. Shaped(s) /\ s.ld2 = x.ld2 /\ (~b => s.ld1 = <<>>)
  BY <1>1, <1>2, OneLoad
<1>4. Keeps(s, ReadRaises(s, c, 4)) BY <1>3, ReadRaisesKeeps
<1> DEFINE t == ReadRaises(s, c, 4)
           z == LOAD_INST(t, "f", i.rt + 1, w, b)
           e == [file |-> "f", n |-> i.rt + 1, v |-> w]
           right == /\ Shaped(z) /\ z.ld2 = x.ld2 /\ AtMostOne(z.ld1) /\ (~b => z.ld1 = <<>>)
                    /\ ~Hits(Load(z.ld1), "g", 0)
<1>7. Shaped(t) /\ t.ld1 = s.ld1 /\ t.ld2 = s.ld2 BY <1>4 DEF Keeps
<1>5. ASSUME b = TRUE PROVE right
  <2>0. z = LOAD_INST(t, "f", i.rt + 1, w, TRUE) BY <1>5, Zenon
  <2> HIDE DEF z, t
  <2>1. Shaped(z) /\ z.ld1 = <<e>> /\ z.ld2 = x.ld2
    BY <2>0, <1>3, <1>7 DEF LOAD_INST, Shaped, Fields
  <2>2. <<e>> # <<>> OBVIOUS
  <2>3. Load(z.ld1) = e BY <2>1, <2>2 DEF Load
  <2>4. ~Hits(Load(z.ld1), "g", 0)
    BY <2>3 DEF Hits
  <2>5. AtMostOne(z.ld1)
    <3>1. e.file \in {"g", "f"} OBVIOUS
    <3> HIDE DEF e
    <3> QED BY <2>1, <3>1 DEF AtMostOne
  <2> QED BY <1>5, <2>1, <2>4, <2>5, Zenon
<1>6. ASSUME b = FALSE PROVE right
  <2>0. z = LOAD_INST(t, "f", i.rt + 1, w, FALSE) BY <1>6, Zenon
  <2>3. s.ld1 = <<>> BY <1>3, <1>6, Zenon
  <2> HIDE DEF z, t
  <2>1. Shaped(z) /\ z.ld1 = <<>> /\ z.ld2 = x.ld2
    BY <2>0, <2>3, <1>3, <1>7 DEF LOAD_INST, Put, Shaped, Fields
  <2>2. AtMostOne(z.ld1) /\ ~Hits(Load(z.ld1), "g", 0)
    BY <2>1 DEF AtMostOne, Hits, Load, NoLoad
  <2> QED BY <2>1, <2>2
<1>8. FpLoadInst(x, i, b) = z BY <1>1
<1> HIDE DEF z
<1> QED BY <1>5, <1>6, <1>8, Zenon

LEMMA SelfTwins ==
  ASSUME NEW x, NEW i, Shaped(x) PROVE Twins(x, x, NoLoad, i)
BY DEF Twins, Agree, SameRest, Hits, NoLoad, Unused, Touches

\* Any instruction keeps the shape of the machine and the load that is about to
\* arrive, and leaves at most one more in flight, for $0 only if it is for $0.
LEMMA ExecuteShape ==
  ASSUME NEW x, NEW i, NEW b \in BOOLEAN, Legal(i), Shaped(x), x.ld1 = <<>>
  PROVE LET z == Execute(x, i, b)
        IN /\ Shaped(z) /\ z.ld2 = x.ld2 /\ AtMostOne(z.ld1) /\ (~b => z.ld1 = <<>>)
           /\ Hits(Load(z.ld1), "g", 0) => ForZero(i)
<1>0. Twins(x, x, NoLoad, i) BY SelfTwins
<1>1. CASE ~Loading(i)
  <2>1. Keeps(x, Execute(x, i, b)) BY <1>1, OthersKeep
  <2> QED BY <2>1 DEF Keeps, AtMostOne, Hits, Load, NoLoad
<1>2. CASE i.op \in LoadOps
  <2>1. PICK s, v : Keeps(x, s) /\ LoadInst(x, i, b) = LOAD_INST(s, "g", i.rt, v, b)
    BY <1>0, <1>2, LoadForm
  <2>2. Execute(x, i, b) = LOAD_INST(s, "g", i.rt, v, b) BY <2>1, <1>2, Switch
  <2> QED BY <1>2, <2>1, <2>2, OneLoad DEF ForZero
<1>3. CASE i.op \in {"LWL", "LWR"}
  <2>1. PICK s, v : Keeps(x, s) /\ MergeInst(x, i, b) = LOAD_INST(s, "g", i.rt, v, b)
    BY <1>0, <1>3, MergeForm
  <2>2. Execute(x, i, b) = LOAD_INST(s, "g", i.rt, v, b) BY <2>1, <1>3, Switch
  <2> QED BY <1>3, <2>1, <2>2, OneLoad DEF ForZero
<1>4. CASE i.op = "LWC1"
  <2>1. PICK s, v : Keeps(x, s) /\ FpLoadInst(x, i, b) = LOAD_INST(s, "f", i.rt, v, b)
    BY <1>0, <1>4, FpLoadForm
  <2>2. Execute(x, i, b) = LOAD_INST(s, "f", i.rt, v, b) BY <2>1, <1>4, Switch
  <2> QED BY <2>1, <2>2, OneLoad
<1>5. CASE i.op = "LDC1"
  <2>1. Execute(x, i, b) = FpLoadInst(x, i, b) BY <1>5, Switch
  <2> QED BY <1>5, <2>1, TwoLoads
<1> QED BY <1>1, <1>2, <1>3, <1>4, <1>5 DEF Loading

\* The two machines before the next load arrives.
LEMMA AgreeInStep ==
  ASSUME NEW x, NEW y, NEW d, Agree(x, y, d) PROVE InStep(x, y, d, NoLoad)
BY DEF Agree, InStep, Hits, NoLoad

LEMMA LoadTogether ==
  ASSUME NEW s, NEW t, NEW d, NEW file \in {"g", "f"}, NEW n, NEW v, NEW b \in BOOLEAN,
         Shaped(s), Shaped(t), s.ld1 = <<>>, Agree(s, t, d), ~Hits(d, file, n),
         n \in IF file = "g" THEN Regs ELSE FRegs
  PROVE LET z == LOAD_INST(s, file, n, v, b)
        IN InStep(z, LOAD_INST(t, file, n, v, FALSE), d, Load(z.ld1))
<1> DEFINE z == LOAD_INST(s, file, n, v, b)
           e == [file |-> file, n |-> n, v |-> v]
<1>1. CASE b = TRUE
  <2>0. z = LOAD_INST(s, file, n, v, TRUE) BY <1>1, Zenon
  <2> HIDE DEF z
  <2>1. z.ld1 = <<e>> BY <2>0, LoadWaits
  <2>2. <<e>> # <<>> OBVIOUS
  <2>3. Load(z.ld1) = e BY <2>1, <2>2 DEF Load
  <2>4. InStep(z, LOAD_INST(t, file, n, v, FALSE), d, e) BY <2>0, LoadInStep
  <2> QED BY <2>3, <2>4 DEF z
<1>2. CASE b = FALSE
  <2>0. z = LOAD_INST(s, file, n, v, FALSE) BY <1>2, Zenon
  <2> HIDE DEF z
  <2>1. z.ld1 = <<>> BY <2>0, LoadArrives
  <2>2. Load(z.ld1) = NoLoad BY <2>1 DEF Load
  <2>3. Agree(z, LOAD_INST(t, file, n, v, FALSE), d) BY <2>0, LoadInStep
  <2> QED BY <2>2, <2>3, AgreeInStep DEF z
<1> QED BY <1>1, <1>2, Zenon

\* An instruction, other than LDC1, keeps the machines in step.
LEMMA ExecuteTogether ==
  ASSUME NEW x, NEW y, NEW d, NEW i, NEW b \in BOOLEAN, Twins(x, y, d, i), Legal(i),
         x.ld1 = <<>>, i.op # "LDC1"
  PROVE InStep(Execute(x, i, b), Execute(y, i, FALSE), d, Load(Execute(x, i, b).ld1))
<1>1. CASE ~Loading(i)
  <2>1. Agree(Execute(x, i, b), Execute(y, i, FALSE), d) BY <1>1, OthersAgree
  <2>2. Execute(x, i, b).ld1 = <<>> BY <1>1, OthersKeep DEF Keeps, Twins
  <2>3. Load(Execute(x, i, b).ld1) = NoLoad BY <2>2 DEF Load
  <2> QED BY <2>1, <2>3, AgreeInStep
<1>2. CASE i.op \in LoadOps
  <2>0. i.rt \in Regs BY <1>2 DEF Legal, LoadOps
  <2>1. PICK s, t, v : /\ Keeps(x, s) /\ Keeps(y, t) /\ Agree(s, t, d)
                       /\ \A c : /\ LoadInst(x, i, c) = LOAD_INST(s, "g", i.rt, v, c)
                                 /\ LoadInst(y, i, c) = LOAD_INST(t, "g", i.rt, v, c)
    BY <1>2, LoadForm
  <2>2. /\ Execute(x, i, b) = LOAD_INST(s, "g", i.rt, v, b)
        /\ Execute(y, i, FALSE) = LOAD_INST(t, "g", i.rt, v, FALSE)
    <3>1. Execute(x, i, b) = LoadInst(x, i, b) /\ Execute(y, i, FALSE) = LoadInst(y, i, FALSE)
      BY <1>2, Switch
    <3> QED BY <2>1, <3>1, Zenon
  <2>3. ~Hits(d, "g", i.rt) BY <2>0, GeneralOperands
  <2>4. Shaped(s) /\ Shaped(t) /\ s.ld1 = <<>> BY <2>1 DEF Keeps
  <2> QED BY <2>0, <2>1, <2>2, <2>3, <2>4, LoadTogether
<1>3. CASE i.op \in {"LWL", "LWR"}
  <2>0. i.rt \in Regs BY <1>3 DEF Legal
  <2>1. PICK s, t, v : /\ Keeps(x, s) /\ Keeps(y, t) /\ Agree(s, t, d)
                       /\ \A c : /\ MergeInst(x, i, c) = LOAD_INST(s, "g", i.rt, v, c)
                                 /\ MergeInst(y, i, c) = LOAD_INST(t, "g", i.rt, v, c)
    BY <1>3, MergeForm
  <2>2. /\ Execute(x, i, b) = LOAD_INST(s, "g", i.rt, v, b)
        /\ Execute(y, i, FALSE) = LOAD_INST(t, "g", i.rt, v, FALSE)
    <3>1. Execute(x, i, b) = MergeInst(x, i, b) /\ Execute(y, i, FALSE) = MergeInst(y, i, FALSE)
      BY <1>3, Switch
    <3> QED BY <2>1, <3>1, Zenon
  <2>3. ~Hits(d, "g", i.rt) BY <2>0, GeneralOperands
  <2>4. Shaped(s) /\ Shaped(t) /\ s.ld1 = <<>> BY <2>1 DEF Keeps
  <2> QED BY <2>0, <2>1, <2>2, <2>3, <2>4, LoadTogether
<1>4. CASE i.op = "LWC1"
  <2>0. i.rt \in FRegs BY <1>4 DEF Legal
  <2>1. PICK s, t, v : /\ Keeps(x, s) /\ Keeps(y, t) /\ Agree(s, t, d)
                       /\ \A c : /\ FpLoadInst(x, i, c) = LOAD_INST(s, "f", i.rt, v, c)
                                 /\ FpLoadInst(y, i, c) = LOAD_INST(t, "f", i.rt, v, c)
    BY <1>4, FpLoadForm
  <2>2. /\ Execute(x, i, b) = LOAD_INST(s, "f", i.rt, v, b)
        /\ Execute(y, i, FALSE) = LOAD_INST(t, "f", i.rt, v, FALSE)
    <3>1. i.op \in {"LWC1", "LDC1"} BY <1>4
    <3>2. Execute(x, i, b) = FpLoadInst(x, i, b) /\ Execute(y, i, FALSE) = FpLoadInst(y, i, FALSE)
      BY <3>1, Switch
    <3> QED BY <2>1, <3>2
  <2>3. ~Hits(d, "f", i.rt) BY <2>0, FloatOperands
  <2>4. Shaped(s) /\ Shaped(t) /\ s.ld1 = <<>> BY <2>1 DEF Keeps
  <2> QED BY <2>0, <2>1, <2>2, <2>3, <2>4, LoadTogether
<1> QED BY <1>1, <1>2, <1>3, <1>4 DEF Loading

\* The head of the loop: $0 is cleared and the older load arrives.
LEMMA UpdateFields ==
  ASSUME NEW x, Shaped(x), AtMostOne(x.ld2)
  PROVE LET z == DO_DELAYED_UPDATE(x)
        IN /\ Shaped(z) /\ z.ld1 = <<>> /\ z.ld2 = x.ld1 /\ SameRest(x, z)
           /\ \A n \in Regs : z.g[n] = IF Hits(Load(x.ld2), "g", n) THEN Load(x.ld2).v ELSE x.g[n]
           /\ \A n \in FRegs : z.f[n] = IF Hits(Load(x.ld2), "f", n) THEN Load(x.ld2).v ELSE x.f[n]
<1>1. CASE x.ld2 = <<>>
  <2>1. Load(x.ld2) = NoLoad BY <1>1 DEF Load
  <2>2. DO_DELAYED_UPDATE(x) = [x EXCEPT !.ld2 = x.ld1, !.ld1 = <<>>]
    BY <1>1 DEF DO_DELAYED_UPDATE
  <2> QED BY <2>1, <2>2 DEF Shaped, Fields, SameRest, Hits, NoLoad
<1>2. CASE x.ld2 # <<>>
  <2>0. PICK e : e.file \in {"g", "f"} /\ x.ld2 = <<e>> BY <1>2 DEF AtMostOne
  <2>2. Load(x.ld2) = e BY <1>2, <2>0 DEF Load
  <2>3. DO_DELAYED_UPDATE(x) = [Put(x, e) EXCEPT !.ld2 = x.ld1, !.ld1 = <<>>]
    BY <1>2, <2>0 DEF DO_DELAYED_UPDATE
  <2>4. CASE e.file = "g"
    BY <2>2, <2>3, <2>4 DEF Put, Shaped, Fields, SameRest, Hits
  <2>5. CASE e.file = "f"
    BY <2>2, <2>3, <2>5 DEF Put, Shaped, Fields, SameRest, Hits
  <2> QED BY <2>0, <2>4, <2>5
<1> QED BY <1>1, <1>2

\* Clearing $0 and the exception.
Cleared(x) == [x EXCEPT !.g[0] = 0, !.exc = "none"]

LEMMA ClearedFields ==
  ASSUME NEW x, Shaped(x)
  PROVE LET z == Cleared(x)
        IN /\ Shaped(z) /\ z.ld1 = x.ld1 /\ z.ld2 = x.ld2 /\ z.f = x.f
           /\ z.exc = "none" /\ z.pc = x.pc /\ z.hi = x.hi /\ z.lo = x.lo
           /\ z.fcr = x.fcr /\ z.mem = x.mem /\ z.end = x.end
           /\ z.g[0] = 0 /\ \A n \in Regs \ {0} : z.g[n] = x.g[n]
BY DEF Cleared, Shaped, Fields, Regs

\* What is in flight when the flag is off: nothing.
Quiet(x, b) == b = FALSE => x.ld1 = <<>> /\ x.ld2 = <<>>

LEMMA BegunFields ==
  ASSUME NEW x, NEW b \in BOOLEAN, Shaped(x), AtMostOne(x.ld2), Quiet(x, b)
  PROVE LET z == Begun(x, b)
        IN /\ Shaped(z) /\ z.ld1 = <<>> /\ z.ld2 = x.ld1
           /\ SameRest(Cleared(x), z)
           /\ \A n \in Regs : z.g[n] = IF Hits(Load(x.ld2), "g", n) THEN Load(x.ld2).v
                                       ELSE Cleared(x).g[n]
           /\ \A n \in FRegs : z.f[n] = IF Hits(Load(x.ld2), "f", n) THEN Load(x.ld2).v
                                        ELSE x.f[n]
<1>0. PICK c : c = Cleared(x) OBVIOUS
<1>1. /\ Shaped(c) /\ c.ld1 = x.ld1 /\ c.ld2 = x.ld2 /\ c.f = x.f
  BY <1>0, ClearedFields
<1>2. CASE b = TRUE
  <2>1. Begun(x, b) = DO_DELAYED_UPDATE(c) BY <1>0, <1>2 DEF Begun, Cleared
  <2> QED BY <1>0, <1>1, <2>1, UpdateFields
<1>3. CASE b = FALSE
  <2>1. Begun(x, b) = c BY <1>0, <1>3 DEF Begun, Cleared
  <2>2. x.ld1 = <<>> /\ x.ld2 = <<>> BY <1>3, Zenon DEF Quiet
  <2>3. Load(x.ld2) = NoLoad BY <2>2 DEF Load
  <2> QED BY <1>0, <1>1, <2>1, <2>2, <2>3 DEF SameRest, Hits, NoLoad
<1> QED BY <1>2, <1>3, Zenon

LEMMA BegunAgree ==
  ASSUME NEW x, NEW y, NEW b \in BOOLEAN, Shaped(x), Shaped(y), AtMostOne(x.ld2), Quiet(x, b),
         y.ld1 = <<>>, y.ld2 = <<>>,
         InStep(x, y, Load(x.ld2), Load(x.ld1)),
         ~Hits(Load(x.ld1), "g", 0), ~Hits(Load(x.ld2), "g", 0)
  PROVE Agree(Begun(x, b), Begun(y, FALSE), Load(x.ld1))
<1>1. PICK z, w, d, e : /\ z = Begun(x, b) /\ w = Begun(y, FALSE)
                        /\ d = Load(x.ld2) /\ e = Load(x.ld1)
  OBVIOUS
<1>2. /\ SameRest(Cleared(x), z)
      /\ \A n \in Regs : z.g[n] = IF Hits(d, "g", n) THEN d.v ELSE Cleared(x).g[n]
      /\ \A n \in FRegs : z.f[n] = IF Hits(d, "f", n) THEN d.v ELSE x.f[n]
  BY <1>1, BegunFields
<1>3. w = Cleared(y) BY <1>1 DEF Begun, Cleared
<1>4. /\ SameRest(x, y)
      /\ \A n \in Regs \ {0} :
           y.g[n] = IF Hits(e, "g", n) THEN e.v ELSE IF Hits(d, "g", n) THEN d.v ELSE x.g[n]
      /\ \A n \in FRegs :
           y.f[n] = IF Hits(e, "f", n) THEN e.v ELSE IF Hits(d, "f", n) THEN d.v ELSE x.f[n]
      /\ ~Hits(e, "g", 0) /\ ~Hits(d, "g", 0)
  BY <1>1 DEF InStep
<1>5. SameRest(z, w)
  BY <1>2, <1>3, <1>4, ClearedFields DEF SameRest
<1>6. ASSUME NEW n \in Regs PROVE w.g[n] = IF Hits(e, "g", n) THEN e.v ELSE z.g[n]
  <2>1. CASE n = 0
    BY <1>2, <1>3, <1>4, <2>1, ClearedFields
  <2>2. CASE n # 0
    <3>1. Cleared(x).g[n] = x.g[n] /\ Cleared(y).g[n] = y.g[n]
      BY <2>2, ClearedFields
    <3> QED BY <1>2, <1>3, <1>4, <2>2, <3>1
  <2> QED BY <2>1, <2>2
<1>7. ASSUME NEW n \in FRegs PROVE w.f[n] = IF Hits(e, "f", n) THEN e.v ELSE z.f[n]
  <2>1. Cleared(y).f = y.f BY ClearedFields
  <2> QED BY <1>2, <1>3, <1>4, <2>1
<1>8. Agree(z, w, e) BY <1>5, <1>6, <1>7 DEF Agree
<1> QED BY <1>1, <1>8

LEMMA BumpedFields ==
  ASSUME NEW x, Shaped(x) PROVE Keeps(x, Bumped(x)) /\ Bumped(x).exc = x.exc
BY DEF Bumped, Keeps, Shaped, Fields

LEMMA BumpedInStep ==
  ASSUME NEW x, NEW y, NEW d, NEW e, Shaped(x), Shaped(y), InStep(x, y, d, e)
  PROVE InStep(Bumped(x), Bumped(y), d, e)
BY DEF Bumped, InStep, SameRest, Shaped, Fields

-----------------------------------------------------------------------------
(* The invariant: plain is m with the loads in flight arrived, as long as  *)
(* the program is clean, and no load in flight is for $0.                  *)

StepInv ==
  /\ Shaped(m) /\ Shaped(plain) /\ plain.ld1 = <<>> /\ plain.ld2 = <<>>
  /\ AtMostOne(m.ld1) /\ AtMostOne(m.ld2) /\ Quiet(m, delayed_loads)
  /\ zeroed => ~Hits(Load(m.ld1), "g", 0) /\ ~Hits(Load(m.ld2), "g", 0)
  /\ clean => zeroed /\ InStep(m, plain, Load(m.ld2), Load(m.ld1))

LEMMA InitStepInv == Init => StepInv
<1> SUFFICES ASSUME Init PROVE StepInv
  OBVIOUS
<1>1. PICK s \in Starts :
        m = [pc |-> s.pc, g |-> s.g, hi |-> s.hi, lo |-> s.lo, f |-> s.f,
             fcr |-> [n \in FCRs |-> 0], mem |-> s.mem,
             ld1 |-> <<>>, ld2 |-> <<>>, exc |-> "none", end |-> FALSE]
  BY DEF Init
<1>2. s.g \in [Regs -> Word] /\ s.f \in [FRegs -> Word]
  BY InstructionsAssumption
<1>3. Shaped(m) /\ m.ld1 = <<>> /\ m.ld2 = <<>>
  BY <1>1, <1>2 DEF Shaped, Fields
<1>4. plain = m BY DEF Init
<1>5. Load(m.ld1) = NoLoad /\ Load(m.ld2) = NoLoad BY <1>3 DEF Load
<1>6. InStep(m, plain, Load(m.ld2), Load(m.ld1)) /\ ~Hits(NoLoad, "g", 0)
  BY <1>4, <1>5 DEF InStep, SameRest, Hits, NoLoad
<1>7. zeroed BY DEF Init
<1> QED BY <1>3, <1>4, <1>5, <1>6, <1>7 DEF StepInv, AtMostOne, Quiet

\* A program that leaves the slot alone does not touch the register in flight.
LEMMA SlotUnused ==
  ASSUME NEW x, NEW i, AtMostOne(x.ld1), LeavesSlot(x, i)
  PROVE Unused(Load(x.ld1), i)
<1>1. CASE x.ld1 = <<>>
  <2>1. Load(x.ld1) = NoLoad BY <1>1 DEF Load
  <2> QED BY <2>1 DEF Unused, Touches, NoLoad
<1>2. CASE x.ld1 # <<>>
  <2>1. Load(x.ld1) = x.ld1[1] BY <1>2 DEF Load
  <2>2. <<x.ld1[1].file, x.ld1[1].n>> \notin Touches(i) BY <1>2 DEF LeavesSlot
  <2> QED BY <2>1, <2>2 DEF Unused
<1> QED BY <1>1, <1>2

\* The machine m and the machine plain after the same instruction.
LEMMA StepShape ==
  ASSUME NEW x, NEW i, NEW b \in BOOLEAN, Legal(i), Shaped(x), AtMostOne(x.ld2), Quiet(x, b)
  PROVE LET z == Step(x, i, b)
        IN /\ Shaped(z) /\ z.ld2 = x.ld1 /\ AtMostOne(z.ld1) /\ (~b => z.ld1 = <<>>)
           /\ Hits(Load(z.ld1), "g", 0) => ForZero(i)
<1>1. PICK y : y = Begun(x, b) OBVIOUS
<1>2. Shaped(y) /\ y.ld1 = <<>> /\ y.ld2 = x.ld1 BY <1>1, BegunFields
<1>3. PICK w : w = Execute(y, i, b) OBVIOUS
<1>4. /\ Shaped(w) /\ w.ld2 = x.ld1 /\ AtMostOne(w.ld1) /\ (~b => w.ld1 = <<>>)
      /\ Hits(Load(w.ld1), "g", 0) => ForZero(i)
  BY <1>2, <1>3, ExecuteShape
<1>5. Step(x, i, b) = Bumped(w) BY <1>1, <1>3 DEF Step
<1>6. Shaped(Bumped(w)) /\ Bumped(w).ld1 = w.ld1 /\ Bumped(w).ld2 = w.ld2
  BY <1>4, BumpedFields DEF Keeps
<1> QED BY <1>4, <1>5, <1>6

LEMMA StepTogether ==
  ASSUME NEW x, NEW y, NEW i, NEW b \in BOOLEAN, Legal(i), Shaped(x), Shaped(y),
         AtMostOne(x.ld1), AtMostOne(x.ld2), Quiet(x, b), y.ld1 = <<>>, y.ld2 = <<>>,
         InStep(x, y, Load(x.ld2), Load(x.ld1)),
         ~Hits(Load(x.ld1), "g", 0), ~Hits(Load(x.ld2), "g", 0), LeavesSlot(x, i)
  PROVE InStep(Step(x, i, b), Step(y, i, FALSE), Load(x.ld1), Load(Step(x, i, b).ld1))
<1>1. PICK z, w, d : z = Begun(x, b) /\ w = Begun(y, FALSE) /\ d = Load(x.ld1) OBVIOUS
<1>2. Shaped(z) /\ z.ld1 = <<>> BY <1>1, BegunFields
<1>3. Shaped(w) /\ w.ld1 = <<>>
  <2>1. AtMostOne(y.ld2) /\ Quiet(y, FALSE) BY DEF AtMostOne, Quiet
  <2>2. FALSE \in BOOLEAN OBVIOUS
  <2> QED BY <1>1, <2>1, <2>2, BegunFields
<1>4. Agree(z, w, d) BY <1>1, BegunAgree
<1>5. Unused(d, i) BY <1>1, SlotUnused
<1>6. Twins(z, w, d, i) BY <1>2, <1>3, <1>4, <1>5 DEF Twins
<1>7. i.op # "LDC1" BY DEF LeavesSlot
<1>8. PICK p, q : p = Execute(z, i, b) /\ q = Execute(w, i, FALSE) OBVIOUS
<1>9. InStep(p, q, d, Load(p.ld1)) BY <1>2, <1>6, <1>7, <1>8, ExecuteTogether
<1>10. Shaped(p) BY <1>2, <1>8, ExecuteShape
<1>11. Shaped(q)
  <2>1. FALSE \in BOOLEAN OBVIOUS
  <2> QED BY <1>3, <1>8, <2>1, ExecuteShape
<1>12. InStep(Bumped(p), Bumped(q), d, Load(p.ld1)) BY <1>9, <1>10, <1>11, BumpedInStep
<1>13. Bumped(p).ld1 = p.ld1 BY <1>10, BumpedFields DEF Keeps
<1>14. Step(x, i, b) = Bumped(p) /\ Step(y, i, FALSE) = Bumped(q) BY <1>1, <1>8 DEF Step
<1> QED BY <1>1, <1>12, <1>13, <1>14

LEMMA NextStepInv == StepInv /\ [Next]_vars => StepInv'
<1> SUFFICES ASSUME StepInv, [Next]_vars PROVE StepInv'
  OBVIOUS
<1>1. CASE UNCHANGED vars
  BY <1>1 DEF StepInv, vars
<1>2. ASSUME NEW ops, Perform(ops) PROVE StepInv'
  <2>0. PICK i \in Insts :
          /\ m' = Step(m, i, delayed_loads)
          /\ plain' = Step(plain, i, FALSE)
          /\ clean' = (clean /\ LeavesSlot(m, i))
          /\ zeroed' = (zeroed /\ (i.op \in LoadOps \cup {"LWL", "LWR"} => i.rt # 0))
    BY <1>2 DEF Perform
  <2>1. Legal(i) /\ delayed_loads \in BOOLEAN /\ FALSE \in BOOLEAN BY InstructionsAssumption
  <2>2. /\ Shaped(m') /\ m'.ld2 = m.ld1 /\ AtMostOne(m'.ld1)
        /\ (~delayed_loads => m'.ld1 = <<>>)
        /\ Hits(Load(m'.ld1), "g", 0) => ForZero(i)
    BY <2>0, <2>1, StepShape DEF StepInv
  <2>3. Shaped(plain') /\ plain'.ld1 = <<>> /\ plain'.ld2 = <<>>
    <3>1. AtMostOne(plain.ld2) /\ Quiet(plain, FALSE) BY DEF StepInv, AtMostOne, Quiet
    <3> QED BY <2>0, <2>1, <3>1, StepShape DEF StepInv
  <2>4. Quiet(m', delayed_loads)
    <3>1. ~delayed_loads => m.ld1 = <<>> BY <2>1, Zenon DEF StepInv, Quiet
    <3> QED BY <2>2, <3>1, <2>1, Zenon DEF Quiet
  <2>5. zeroed' => ~Hits(Load(m'.ld1), "g", 0) /\ ~Hits(Load(m'.ld2), "g", 0)
    <3>1. zeroed' => zeroed /\ ~ForZero(i) BY <2>0 DEF ForZero
    <3> QED BY <2>2, <3>1 DEF StepInv
  <2>6. clean' => zeroed' BY <2>0 DEF StepInv, LeavesSlot
  <2>7. ASSUME clean' PROVE InStep(m', plain', Load(m'.ld2), Load(m'.ld1))
    <3>1. clean /\ LeavesSlot(m, i) BY <2>0, <2>7
    <3>2. zeroed /\ InStep(m, plain, Load(m.ld2), Load(m.ld1)) BY <3>1 DEF StepInv
    <3>3. ~Hits(Load(m.ld1), "g", 0) /\ ~Hits(Load(m.ld2), "g", 0) BY <3>2 DEF StepInv
    <3>4. InStep(Step(m, i, delayed_loads), Step(plain, i, FALSE), Load(m.ld1),
                 Load(Step(m, i, delayed_loads).ld1))
      BY <2>1, <3>1, <3>2, <3>3, StepTogether DEF StepInv
    <3> QED BY <2>0, <2>2, <3>4
  <2>8. AtMostOne(m'.ld2) BY <2>2 DEF StepInv
  <2> QED BY <2>2, <2>3, <2>4, <2>5, <2>6, <2>7, <2>8 DEF StepInv
<1>3. CASE Compute BY <1>2, <1>3 DEF Compute
<1>4. CASE Goto BY <1>2, <1>4 DEF Goto
<1>5. CASE Access BY <1>2, <1>5 DEF Access
<1>6. CASE Float BY <1>2, <1>6 DEF Float
<1>7. CASE Finished BY <1>1, <1>7 DEF Finished
<1> QED BY <1>1, <1>3, <1>4, <1>5, <1>6, <1>7 DEF Next

LEMMA StepInvAlways == Spec => []StepInv
BY InitStepInv, NextStepInv, PTL DEF Spec

\* The settled machine.
LEMMA SettledInStep ==
  ASSUME StepInv, InStep(m, plain, Load(m.ld2), Load(m.ld1))
  PROVE LET s == Settled(m)
        IN /\ SameRest(s, plain) /\ Shaped(s)
           /\ \A n \in Regs \ {0} : s.g[n] = plain.g[n]
           /\ \A n \in FRegs : s.f[n] = plain.f[n]
<1>1. PICK t, s, d, e : /\ t = DO_DELAYED_UPDATE(m) /\ s = DO_DELAYED_UPDATE(t)
                        /\ d = Load(m.ld2) /\ e = Load(m.ld1)
  OBVIOUS
<1>2. /\ Shaped(t) /\ t.ld1 = <<>> /\ t.ld2 = m.ld1 /\ SameRest(m, t)
      /\ \A n \in Regs : t.g[n] = IF Hits(d, "g", n) THEN d.v ELSE m.g[n]
      /\ \A n \in FRegs : t.f[n] = IF Hits(d, "f", n) THEN d.v ELSE m.f[n]
  BY <1>1, UpdateFields DEF StepInv
<1>3. AtMostOne(t.ld2) BY <1>2 DEF StepInv
<1>4. /\ Shaped(s) /\ SameRest(t, s)
      /\ \A n \in Regs : s.g[n] = IF Hits(e, "g", n) THEN e.v ELSE t.g[n]
      /\ \A n \in FRegs : s.f[n] = IF Hits(e, "f", n) THEN e.v ELSE t.f[n]
  BY <1>1, <1>2, <1>3, UpdateFields
<1>5. /\ SameRest(m, plain)
      /\ \A n \in Regs \ {0} :
           plain.g[n] = IF Hits(e, "g", n) THEN e.v ELSE IF Hits(d, "g", n) THEN d.v ELSE m.g[n]
      /\ \A n \in FRegs :
           plain.f[n] = IF Hits(e, "f", n) THEN e.v ELSE IF Hits(d, "f", n) THEN d.v ELSE m.f[n]
  BY <1>1 DEF InStep
<1>6. SameRest(s, plain) BY <1>2, <1>4, <1>5 DEF SameRest
<1>7. ASSUME NEW n \in Regs \ {0} PROVE s.g[n] = plain.g[n] BY <1>2, <1>4, <1>5
<1>8. ASSUME NEW n \in FRegs PROVE s.f[n] = plain.f[n] BY <1>2, <1>4, <1>5
<1>9. Settled(m) = s BY <1>1 DEF Settled
<1> QED BY <1>4, <1>6, <1>7, <1>8, <1>9

\* A program that leaves the register of a load alone for one instruction cannot
\* tell that loads are delayed, and $0 reads 0 whatever was written to it, for
\* every program, register file and memory (run.c, LOAD_INST, DO_DELAYED_UPDATE).
THEOREM DelaysHiddenAlways == Spec => []DelaysHidden
<1>1. ASSUME StepInv PROVE LoadsInvisible
  <2> SUFFICES ASSUME clean PROVE
        LET s == Settled(m) IN
          /\ [n \in Regs \ {0} |-> s.g[n]] = [n \in Regs \ {0} |-> plain.g[n]]
          /\ s.f = plain.f /\ s.mem = plain.mem /\ s.fcr = plain.fcr
          /\ <<s.pc, s.hi, s.lo, s.exc, s.end>>
               = <<plain.pc, plain.hi, plain.lo, plain.exc, plain.end>>
    BY DEF LoadsInvisible
  <2>1. PICK s : s = Settled(m) OBVIOUS
  <2>2. /\ SameRest(s, plain) /\ Shaped(s)
        /\ \A n \in Regs \ {0} : s.g[n] = plain.g[n]
        /\ \A n \in FRegs : s.f[n] = plain.f[n]
    BY <1>1, <2>1, SettledInStep DEF StepInv
  <2>3. s.f = plain.f BY <1>1, <2>2 DEF Shaped, StepInv
  <2>4. [n \in Regs \ {0} |-> s.g[n]] = [n \in Regs \ {0} |-> plain.g[n]] BY <2>2
  <2> QED BY <2>1, <2>2, <2>3, <2>4 DEF SameRest
<1>2. ASSUME StepInv PROVE ZeroReadsZero
  <2> SUFFICES ASSUME zeroed PROVE Begun(m, delayed_loads).g[0] = 0
    BY DEF ZeroReadsZero
  <2>1. ~Hits(Load(m.ld2), "g", 0) BY <1>2 DEF StepInv
  <2>2. delayed_loads \in BOOLEAN BY InstructionsAssumption
  <2>3. 0 \in Regs BY DEF Regs
  <2>4. Begun(m, delayed_loads).g[0] = Cleared(m).g[0]
    BY <1>2, <2>1, <2>2, <2>3, BegunFields DEF StepInv
  <2>5. Cleared(m).g[0] = 0 BY <1>2, ClearedFields DEF StepInv
  <2> QED BY <2>4, <2>5
<1>3. StepInv => DelaysHidden BY <1>1, <1>2 DEF DelaysHidden
<1> QED BY <1>3, StepInvAlways, PTL

-----------------------------------------------------------------------------
(* An exception leaves the machine as it was.                              *)

\* z raised nothing, or is x with an exception and nothing else.
Whole(x, z) == z.exc = x.exc \/ \E c : z = Raise(x, c)

LEMMA QuietParts ==
  ASSUME NEW x, Shaped(x)
  PROVE /\ \A n, v : [x EXCEPT !.g[n] = v].exc = x.exc
        /\ \A n, v : [x EXCEPT !.f[n] = v].exc = x.exc
        /\ \A q : SetHiLo(x, q).exc = x.exc
        /\ \A t, o, u : BRANCH_INST(x, t, o, u).exc = x.exc
        /\ run_error(x).exc = x.exc
        /\ \A n, fmt, v : SET_FPR(x, n, fmt, v).exc = x.exc
        /\ \A n, v : SET_FCC(x, n, v).exc = x.exc
<1>1. \A n, v : [x EXCEPT !.g[n] = v].exc = x.exc BY DEF Shaped, Fields
<1>2. \A n, v : [x EXCEPT !.f[n] = v].exc = x.exc BY DEF Shaped, Fields
<1>3. \A q : SetHiLo(x, q).exc = x.exc BY DEF Shaped, Fields, SetHiLo
<1>4. \A t, o, u : BRANCH_INST(x, t, o, u).exc = x.exc BY DEF Shaped, Fields, BRANCH_INST
<1>5. run_error(x).exc = x.exc BY DEF Shaped, Fields, run_error
<1>6. \A n, fmt, v : SET_FPR(x, n, fmt, v).exc = x.exc BY DEF Shaped, Fields, SET_FPR
<1>7. \A n, v : SET_FCC(x, n, v).exc = x.exc BY DEF Shaped, Fields, SET_FCC
<1> QED BY <1>1, <1>2, <1>3, <1>4, <1>5, <1>6, <1>7

LEMMA WriteWhole ==
  ASSUME NEW x, NEW a, NEW s, NEW v, Shaped(x) PROVE Whole(x, Write(x, a, s, v))
<1>1. CASE Refused(a, s, "AdES") # "none"
  BY <1>1 DEF Write, Whole
<1>2. CASE Refused(a, s, "AdES") = "none"
  BY <1>2 DEF Write, Shaped, Fields, Whole
<1> QED BY <1>1, <1>2

\* SWL and SWR: the read raises exactly if the write does.
LEMMA SplitWhole ==
  ASSUME NEW x, NEW i, Shaped(x) PROVE Whole(x, SplitInst(x, i))
<1>1. PICK a, v : SplitInst(x, i) = Write(ReadRaises(x, a, 4), a, 4, v)
  BY DEF SplitInst
<1>2. CASE Refused(a, 4, "AdEL") = "none"
  <2>1. ReadRaises(x, a, 4) = x BY <1>2 DEF ReadRaises
  <2> QED BY <1>1, <2>1, WriteWhole
<1>3. CASE Refused(a, 4, "AdEL") # "none"
  <2>1. Refused(a, 4, "AdES") # "none" BY <1>3 DEF Refused
  <2>2. PICK c, e : SplitInst(x, i) = Raise(Raise(x, c), e)
    BY <1>1, <1>3, <2>1 DEF ReadRaises, Write
  <2>3. Raise(Raise(x, c), e) = Raise(x, e) BY DEF Raise, Shaped, Fields
  <2> QED BY <2>2, <2>3 DEF Whole
<1> QED BY <1>2, <1>3

LEMMA MulWhole ==
  ASSUME NEW x, NEW i, Shaped(x) PROVE MulInst(x, i).exc = x.exc
<1>1. ASSUME NEW q, NEW n, NEW v
      PROVE /\ SetHiLo(x, q).exc = x.exc
            /\ [SetHiLo(x, q) EXCEPT !.g[n] = v].exc = x.exc
  BY DEF SetHiLo, Shaped, Fields
<1> QED BY <1>1 DEF MulInst, MulEffect

LEMMA BranchWhole ==
  ASSUME NEW x, NEW i, Shaped(x) PROVE BranchInst(x, i).exc = x.exc
<1> DEFINE s == IF i.op \in {"BGEZAL", "BLTZAL", "BGEZALL", "BLTZALL"}
                THEN [x EXCEPT !.g[REG_RA] = (x.pc + 4) % Mod] ELSE x
<1>1. Shaped(s) /\ s.exc = x.exc
  <2>1. Shaped([x EXCEPT !.g[REG_RA] = (x.pc + 4) % Mod]) BY PutGKeeps DEF Keeps
  <2>2. [x EXCEPT !.g[REG_RA] = (x.pc + 4) % Mod].exc = x.exc BY DEF Shaped, Fields
  <2> QED BY <2>1, <2>2
<1>2. BranchInst(x, i)
        = BRANCH_INST(s, Test(i.op, s.g[i.rs], s.g[i.rt]), i.imm, i.op \in LikelyOps)
  BY DEF BranchInst
<1> HIDE DEF s
<1> QED BY <1>1, <1>2, QuietParts

LEMMA OthersWhole ==
  ASSUME NEW x, NEW i, NEW b, Legal(i), ~Loading(i), i.op \notin {"SDC1", "CTC1"}, Shaped(x)
  PROVE Whole(x, Execute(x, i, b))
<1>1. CASE i.op \in AluOps
  <2>1. Execute(x, i, b) = AluInst(x, i) BY <1>1, Switch
  <2>2. Whole(x, AluInst(x, i)) BY <1>1, QuietParts DEF AluInst, Whole
  <2> QED BY <2>1, <2>2
<1>2. CASE i.op \in ImmOps
  <2>1. Execute(x, i, b) = ImmInst(x, i) BY <1>2, Switch
  <2>2. Whole(x, ImmInst(x, i)) BY <1>2, QuietParts DEF ImmInst, Whole
  <2> QED BY <2>1, <2>2
<1>3. CASE i.op \in ShiftOps
  <2>1. Execute(x, i, b) = ShiftInst(x, i) BY <1>3, Switch
  <2>2. Whole(x, ShiftInst(x, i)) BY <1>3, QuietParts DEF ShiftInst, Whole
  <2> QED BY <2>1, <2>2
<1>4. CASE i.op \in MulOps
  <2>1. Execute(x, i, b) = MulInst(x, i) BY <1>4, Switch
  <2>2. Whole(x, MulInst(x, i)) BY <1>4, MulWhole DEF Whole
  <2> QED BY <2>1, <2>2
<1>5. CASE i.op \in {"DIV", "DIVU"}
  <2>1. Execute(x, i, b) = DivInst(x, i) BY <1>5, Switch
  <2>2. Whole(x, DivInst(x, i)) BY <1>5, QuietParts DEF DivInst, Whole
  <2> QED BY <2>1, <2>2
<1>6. CASE i.op \in HiLoOps
  <2>1. Execute(x, i, b) = HiLoInst(x, i) BY <1>6, Switch
  <2>2. Whole(x, HiLoInst(x, i)) BY <1>6 DEF HiLoInst, HiLoOps, Shaped, Fields, Whole
  <2> QED BY <2>1, <2>2
<1>7. CASE i.op \in BranchOps \cup LikelyOps
  <2>1. Execute(x, i, b) = BranchInst(x, i) BY <1>7, Switch
  <2>2. Whole(x, BranchInst(x, i)) BY <1>7, BranchWhole DEF Whole
  <2> QED BY <2>1, <2>2
<1>8. CASE i.op \in JumpOps
  <2>1. Execute(x, i, b) = JumpInst(x, i) BY <1>8, Switch
  <2>2. Whole(x, JumpInst(x, i)) BY <1>8 DEF JumpInst, Shaped, Fields, Whole
  <2> QED BY <2>1, <2>2
<1>9. CASE i.op \in TrapOps \cup TrapImmOps
  <2>1. Execute(x, i, b) = TrapInst(x, i) BY <1>9, Switch
  <2>2. Whole(x, TrapInst(x, i)) BY <1>9 DEF TrapInst, Whole
  <2> QED BY <2>1, <2>2
<1>10. CASE i.op \in {"COP2", "RFE", "TLB", "BREAK", "SYNC"}
  <2>1. Execute(x, i, b) = AbsentInst(x, i) BY <1>10, Switch
  <2>2. Whole(x, AbsentInst(x, i)) BY <1>10 DEF AbsentInst, Whole
  <2> QED BY <2>1, <2>2
<1>11. CASE i.op \in StoreOps
  <2>1. Execute(x, i, b) = StoreInst(x, i) BY <1>11, Switch
  <2>2. Whole(x, StoreInst(x, i)) BY <1>11, WriteWhole DEF StoreInst
  <2> QED BY <2>1, <2>2
<1>12. CASE i.op \in {"SWL", "SWR"}
  <2>1. Execute(x, i, b) = SplitInst(x, i) BY <1>12, Switch
  <2>2. Whole(x, SplitInst(x, i)) BY <1>12, SplitWhole
  <2> QED BY <2>1, <2>2
<1>13. CASE i.op = "FP"
  <2>1. Execute(x, i, b) = FpInst(x, i) BY <1>13, Switch
  <2>2. Whole(x, FpInst(x, i)) BY <1>13, QuietParts DEF FpInst, Whole
  <2> QED BY <2>1, <2>2
<1>14. CASE i.op = "CVT"
  <2>1. Execute(x, i, b) = CvtInst(x, i) BY <1>14, Switch
  <2>2. Whole(x, CvtInst(x, i)) BY <1>14, QuietParts DEF CvtInst, Whole
  <2> QED BY <2>1, <2>2
<1>15. CASE i.op = "TOW"
  <2>1. Execute(x, i, b) = ToWordInst(x, i) BY <1>15, Switch
  <2>2. Whole(x, ToWordInst(x, i)) BY <1>15, QuietParts DEF ToWordInst, Whole
  <2> QED BY <2>1, <2>2
<1>16. CASE i.op = "C"
  <2>1. Execute(x, i, b) = CompareInst(x, i) BY <1>16, Switch
  <2>2. Whole(x, CompareInst(x, i))
    <3>1. \/ CompareInst(x, i) = run_error(x)
          \/ \E c : CompareInst(x, i) = Raise(x, c)
          \/ \E n, v : CompareInst(x, i) = SET_FCC(x, n, v)
      BY DEF CompareInst
    <3> QED BY <3>1, QuietParts DEF Whole
  <2> QED BY <2>1, <2>2
<1>17. CASE i.op = "BC1"
  <2>1. Execute(x, i, b) = BC1Inst(x, i) BY <1>17, Switch
  <2>2. Whole(x, BC1Inst(x, i)) BY <1>17, QuietParts DEF BC1Inst, Whole
  <2> QED BY <2>1, <2>2
<1>18. CASE i.op \in {"CFC1", "CTC1"}
  <2>1. Execute(x, i, b) = ControlInst(x, i) BY <1>18, Switch
  <2>2. Whole(x, ControlInst(x, i)) BY <1>18, QuietParts DEF ControlInst, Whole
  <2> QED BY <2>1, <2>2
<1>19. CASE i.op \in MoveOps
  <2>1. Execute(x, i, b) = MoveInst(x, i) BY <1>19, Switch
  <2>2. Whole(x, MoveInst(x, i)) BY <1>19, QuietParts DEF MoveInst, MoveOps, Whole
  <2> QED BY <2>1, <2>2
<1>20. CASE i.op \in {"MOVF.F", "MOVT.F", "MOVN.F", "MOVZ.F"}
  <2>1. Execute(x, i, b) = FpMoveIf(x, i) BY <1>20, Switch
  <2>2. Whole(x, FpMoveIf(x, i))
    <3>1. \/ FpMoveIf(x, i) = x
          \/ FpMoveIf(x, i) = run_error(x)
          \/ \E n, fmt, v : FpMoveIf(x, i) = SET_FPR(x, n, fmt, v)
      BY DEF FpMoveIf
    <3> QED BY <3>1, QuietParts DEF Whole
  <2> QED BY <2>1, <2>2
<1>21. CASE i.op \in {"SWC1", "SDC1"}
  <2>1. Execute(x, i, b) = FpStoreInst(x, i) BY <1>21, Switch
  <2>2. Whole(x, FpStoreInst(x, i)) BY <1>21, WriteWhole DEF FpStoreInst
  <2> QED BY <2>1, <2>2
<1> QED
  BY Parts, <1>1, <1>2, <1>3, <1>4, <1>5, <1>6, <1>7, <1>8, <1>9, <1>10, <1>11,
     <1>12, <1>13, <1>14, <1>15, <1>16, <1>17, <1>18, <1>19, <1>20, <1>21

\* An instruction that raises an exception has changed nothing, whatever the
\* program and the machine, but for loads, SDC1 and CTC1 (run.c).
THEOREM FaultsChangeNothingAlways == Spec => []FaultsChangeNothing
<1>1. ASSUME StepInv PROVE FaultsChangeNothing
  <2> SUFFICES ASSUME NEW i \in Insts,
                      i.op \notin LoadOps \cup {"LWL", "LWR", "LWC1", "LDC1", "SDC1", "CTC1"},
                      Execute(Now, i, delayed_loads).exc # "none"
               PROVE Execute(Now, i, delayed_loads)
                       = [Now EXCEPT !.exc = Execute(Now, i, delayed_loads).exc]
    BY DEF FaultsChangeNothing
  <2>1. Legal(i) BY InstructionsAssumption
  <2>2. PICK x : x = Now OBVIOUS
  <2>3. Shaped(x) /\ x.exc = "none"
    <3>1. x = Cleared(m) BY <2>2 DEF Now, Cleared
    <3> QED BY <1>1, <3>1, ClearedFields DEF StepInv
  <2>4. Whole(x, Execute(x, i, delayed_loads))
    BY <2>1, <2>3, OthersWhole DEF Loading
  <2>5. PICK c : Execute(x, i, delayed_loads) = Raise(x, c)
    BY <2>2, <2>3, <2>4 DEF Whole
  <2>6. Raise(x, c).exc = c BY <2>3 DEF Raise, Shaped, Fields
  <2>7. Execute(x, i, delayed_loads) = [x EXCEPT !.exc = Execute(x, i, delayed_loads).exc]
    BY <2>5, <2>6 DEF Raise
  <2> QED BY <2>2, <2>7
<1> QED BY <1>1, StepInvAlways, PTL
=============================================================================
