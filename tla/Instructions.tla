---------------------------- MODULE Instructions ----------------------------
(***************************************************************************)
(* Programs of a few instructions on the machine of Execution, and the     *)
(* properties of its instructions.  What follows an instruction is any     *)
(* instruction: the next one, a target or the exception handler's.         *)
(*                                                                         *)
(* m is the machine as it runs, with or without delayed loads; plain is    *)
(* the machine that runs the same instructions without.                    *)
(***************************************************************************)
EXTENDS Execution, FiniteSets

CONSTANTS
  Insts,            \* the instructions programs are made of
  Starts,           \* initial register files, HI/LO, and memories
  MaxSteps,         \* length of a program
  delayed_loads     \* the flag

\* Fields that name a register name one of its file; the others hold a condition
\* (rs of C), a condition code (rt of BC1 and of the moves on it) or a shift.
Legal(i) ==
  /\ i.op \in ComputeOps \cup GotoOps \cup AccessOps \cup FloatOps
  /\ i.op # "C" => i.rs \in Regs
  /\ i.op \notin {"BC1", "MOVF", "MOVT", "MOVF.F", "MOVT.F"} => i.rt \in Regs
  /\ i.op \in {"FP", "C", "LWC1", "LDC1", "SWC1", "SDC1"} => i.rt \in FRegs
  /\ i.op \notin {"CFC1", "CTC1"} => i.rd \in Regs
  /\ i.op \in FloatOps \ {"CFC1", "CTC1", "MOVF", "MOVT"} => i.rd \in FRegs
  /\ i.op \in FloatOps => i.sh \in FRegs \/ i.op = "C"

ASSUME InstructionsAssumption ==
  /\ \A i \in Insts : Legal(i)
  /\ \A s \in Starts : s.g \in [Regs -> Word] /\ s.f \in [FRegs -> Word]
  /\ delayed_loads \in BOOLEAN

VARIABLES m, plain, clean, zeroed, left
vars == <<m, plain, clean, zeroed, left>>

\* Every load in flight arrives.
Settled(r) == DO_DELAYED_UPDATE(DO_DELAYED_UPDATE(r))

\* The registers an instruction reads or writes.
Touches(i) ==
  ({"g"} \X (({i.rs, i.rt, i.rd} \cap Regs) \cup {REG_RA})) \cup
  ({"f"} \X {i.rd, i.rt, i.sh, i.rd + 1, i.rt + 1, i.sh + 1})

\* A program leaves the instruction after a load alone when it neither reads
\* nor writes the register the load is for.  Loads for $0 and LDC1, which the
\* delay changes by itself, are taken out here.
LeavesSlot(r, i) ==
  /\ r.ld1 = <<>> \/ <<r.ld1[1].file, r.ld1[1].n>> \notin Touches(i)
  /\ i.op # "LDC1"
  /\ i.op \in LoadOps \cup {"LWL", "LWR"} => i.rt # 0

Perform(ops) ==
  /\ left > 0 /\ ~m.end
  /\ \E i \in Insts :
       /\ i.op \in ops
       /\ m' = Step(m, i, delayed_loads)
       /\ plain' = Step(plain, i, FALSE)
       /\ clean' = (clean /\ LeavesSlot(m, i))
       /\ zeroed' = (zeroed /\ (i.op \in LoadOps \cup {"LWL", "LWR"} => i.rt # 0))
  /\ left' = left - 1

Compute == Perform(ComputeOps)
Goto    == Perform(GotoOps)
Access  == Perform(AccessOps)
Float   == Perform(FloatOps)
Finished == (left = 0 \/ m.end) /\ UNCHANGED vars

Init ==
  \E s \in Starts :
    /\ m = [pc |-> s.pc, g |-> s.g, hi |-> s.hi, lo |-> s.lo, f |-> s.f,
            fcr |-> [n \in FCRs |-> 0], mem |-> s.mem,
            ld1 |-> <<>>, ld2 |-> <<>>, exc |-> "none", end |-> FALSE]
    /\ plain = m /\ clean = TRUE /\ zeroed = TRUE
    /\ left = IF s.steps THEN MaxSteps ELSE 0

Next == Compute \/ Goto \/ Access \/ Float \/ Finished

Spec == Init /\ [][Next]_vars

-----------------------------------------------------------------------------
(* Properties.                                                             *)

\* The type invariant.
TypeOK ==
  \A r \in {m, plain} :
    /\ r.pc \in Word /\ r.hi \in Word /\ r.lo \in Word
    /\ r.g \in [Regs -> Word] /\ r.f \in [FRegs -> Word]
    /\ r.fcr \in [FCRs -> Word] /\ r.mem \in [0..(MemSize - 1) -> 0..(ByteMod - 1)]
    /\ Len(r.ld1) <= 1 /\ Len(r.ld2) <= 1

\* The machine as it begins an instruction, no load in flight to arrive.
Now == [m EXCEPT !.g[0] = 0, !.exc = "none"]

\* The instructions whose results are looked at, by what they are asked for: two
\* registers into $3, an immediate, a conversion or a comparison.
Binary(op, x, y) == Inst(op, x, y, 3, 0)
Against(op, imm) == Inst(op, 1, 3, 0, imm)
Jumping(op) == Inst(op, 1, 2, 0, 3)
Convert(fn, fmt) == [Inst("TOW", 0, 0, 0, 0) EXCEPT !.fn = fn, !.fmt = fmt, !.sh = 3]
Comparing(cond, a, b, fmt) == [Inst("C", cond, b, a, 0) EXCEPT !.fmt = fmt, !.sh = 4]
Offsets == {0, 1, HalfMod \div 2, HalfMod - 1}
Probes ==
  {Binary(op, 1, 2) : op \in MulOps \cup {"DIV", "DIVU"} \cup TrapOps}
  \cup {Binary(op, x, y) : op \in {"SLT", "SLTU"}, x \in 0..2, y \in 0..2}
  \cup {Against(op, imm) : op \in TrapImmOps \cup {"SLTI", "SLTIU"}, imm \in Offsets}
  \cup {Jumping(op) : op \in BranchOps}
  \cup {Convert(fn, fmt) : fn \in {"floor", "ceil", "trunc", "cvt", "round"},
                           fmt \in {"s", "d"}}
  \cup {Comparing(cond, a, 2 - a, fmt) : cond \in 0..15, a \in {0, 2}, fmt \in {"s", "d"}}

\* HI and LO as one number of two words.
Pair(q, signed) == (IF signed THEN Signed(q.hi) ELSE q.hi) * Mod + q.lo

\* Below, done[i] is the machine after the instruction i.

\* The multiplications leave in HI/LO the double-word product of the operands,
\* signed or not, and the accumulating ones add it to or take it from HI/LO,
\* whatever carries the words of the school method make (run.c,
\* unsigned_multiply, signed_multiply, MADD, MSUB).
ProductsRight(done) ==
  LET a == m.g[1]  b == m.g[2]  sa == Signed(a)  sb == Signed(b)
      after(op) == HiLo(done[Binary(op, 1, 2)])
      same(q, n) == (Pair(q, FALSE) - n) % (Mod * Mod) = 0
      before == Pair(HiLo(m), FALSE)
  IN /\ Pair(after("MULTU"), FALSE) = a * b
     /\ Pair(after("MULT"), TRUE) = sa * sb
     /\ same(after("MADDU"), before + a * b) /\ same(after("MADD"), before + sa * sb)
     /\ same(after("MSUBU"), before - a * b) /\ same(after("MSUB"), before - sa * sb)
     /\ done[Binary("MUL", 1, 2)].g[3] = (sa * sb) % Mod

\* A division leaves a quotient and a remainder of the dividend's sign, smaller
\* than the divisor, that give the dividend back; DIVU of the one pair that its
\* guard, which is DIV's, refuses is left out (run.c, DIV and DIVU).
DivisionRight(done) ==
  LET abs(n) == IF n < 0 THEN -n ELSE n
      right(x, y, lo, hi) ==
        /\ x = y * lo + hi
        /\ abs(hi) < abs(y)
        /\ (hi < 0 => x < 0) /\ (hi > 0 => x > 0)
      after(op) == done[Binary(op, 1, 2)]
  IN \/ m.g[2] = 0
     \/ m.g[1] = SignBit /\ m.g[2] = Mod - 1
     \/ /\ right(Signed(m.g[1]), Signed(m.g[2]), Signed(after("DIV").lo), Signed(after("DIV").hi))
        /\ right(m.g[1], m.g[2], after("DIVU").lo, after("DIVU").hi)

\* The branches, the comparisons and the traps, each with a test of its own,
\* agree on the order of two words: a branch on the sign is taken as SLT with $0
\* says, a trap is raised as SLT and SLTU of the same operands say, and a trap
\* and its opposite exclude each other (run.c, SIGN_BIT and the casts).
TestsAgree(done) ==
  LET less(op, x, y) == done[Binary(op, x, y)].g[3] = 1
      goes(op) == done[Jumping(op)].pc # m.pc
      traps(op) == done[Binary(op, 1, 2)].exc = "Tr"
      trapsAt(op, imm) == done[Against(op, imm)].exc = "Tr"
      lessThan(op, imm) == done[Against(op, imm)].g[3] = 1
  IN /\ goes("BLTZ") = less("SLT", 1, 0) /\ goes("BGEZ") = ~goes("BLTZ")
     /\ goes("BGTZ") = less("SLT", 0, 1) /\ goes("BLEZ") = ~goes("BGTZ")
     /\ goes("BEQ") = ~(less("SLTU", 1, 2) \/ less("SLTU", 2, 1))
     /\ goes("BNE") = (less("SLT", 1, 2) \/ less("SLT", 2, 1))
     /\ traps("TLT") = less("SLT", 1, 2) /\ traps("TGE") = ~traps("TLT")
     /\ traps("TLTU") = less("SLTU", 1, 2) /\ traps("TGEU") = ~traps("TLTU")
     /\ traps("TEQ") = goes("BEQ") /\ traps("TNE") = goes("BNE")
     /\ \A imm \in Offsets :
          /\ trapsAt("TLTI", imm) = lessThan("SLTI", imm)
          /\ trapsAt("TLTIU", imm) = lessThan("SLTIU", imm)
          /\ trapsAt("TGEI", imm) = ~trapsAt("TLTI", imm)
          /\ trapsAt("TGEIU", imm) = ~trapsAt("TLTIU", imm)

\* The pair of instructions that loads an unaligned word loads the four bytes
\* at the address, and the pair that stores one changes these bytes and no other
\* (run.c, LWL, LWR, SWL and SWR, without delayed loads).
UnalignedRight ==
  \A at \in 0..(MemSize - 4) :
    LET pair == [second \in {"LWL", "SWL"} |->
          Step(Step([m EXCEPT !.g[1] = at],
                    Inst(IF second = "LWL" THEN "LWR" ELSE "SWR", 1, 2, 0, 0), FALSE),
               Inst(second, 1, 2, 0, 3), FALSE)]
        right(done) ==
          /\ done["LWL"].g[2]
               = m.mem[at] + ByteMod * (m.mem[at + 1]
                   + ByteMod * (m.mem[at + 2] + ByteMod * m.mem[at + 3]))
          /\ done["SWL"].mem
               = [x \in DOMAIN m.mem |->
                    IF x \in at..(at + 3)
                    THEN (m.g[2] \div ByteMod^(x - at)) % ByteMod ELSE m.mem[x]]
    IN right(pair)

\* The conversions to an integer: floor and ceil are the nearest integers below
\* and above, trunc and cvt the nearer to zero of the two, round for numbers that
\* are not negative the nearest, wherever the value fits (run.c, CEIL_W to
\* TRUNC_W; (int)(val + 0.5) of a negative number is not the nearest).
ConversionsRight(done) ==
  \A fmt \in {"s", "d"} :
    LET v == FPR(m, 0, fmt)
        to(fn) == Signed(done[Convert(fn, fmt)].f[3])
    IN v # NaN /\ -4 * SignBit < v /\ v < 4 * (SignBit - 1) =>
         /\ 4 * to("floor") <= v /\ v < 4 * to("floor") + 4
         /\ 4 * to("ceil") >= v /\ v > 4 * to("ceil") - 4
         /\ to("trunc") = (IF v < 0 THEN to("ceil") ELSE to("floor"))
         /\ to("cvt") = to("trunc")
         /\ v >= 0 => 4 * to("round") - 2 <= v /\ v < 4 * to("round") + 2

\* The sixteen conditions of c.cond: of two numbers exactly one of less, equal,
\* greater and unordered holds, every condition is a union of these, a condition
\* that is not signalling never faults, and a signalling one faults for NaN and
\* leaves the code as it was (run.c, C_F_S to C_NGT_D, set_fpu_cc).
ConditionsRight(done) ==
  \A fmt \in {"s", "d"} :
    LET after(cond) == done[Comparing(cond, 0, 2, fmt)]
        holds(cond) == FCC(after(cond), 1)
        greater == FCC(done[Comparing(LT, 2, 0, fmt)], 1)
    IN \A relations \in {<<holds(LT), holds(EQ), greater, holds(UN)>>} :
         /\ Cardinality({k \in 1..4 : relations[k]}) = 1
         /\ relations[4] = (NaN \in {FPR(m, 0, fmt), FPR(m, 2, fmt)})
         /\ \A cond \in 0..7 :
              /\ after(cond).exc = "none"
              /\ holds(cond) =
                   \/ (cond & LT) # 0 /\ relations[1]
                   \/ (cond & EQ) # 0 /\ relations[2]
                   \/ (cond & UN) # 0 /\ relations[4]
              /\ IF relations[4]
                 THEN after(cond + IN_).exc = "FPE" /\ after(cond + IN_).fcr = m.fcr
                 ELSE holds(cond + IN_) = holds(cond)

\* An instruction that raises an exception has changed nothing, so that the
\* handler may run it again: all but loads, whose register becomes 0, SDC1, whose
\* first word may be stored, and CTC1, which writes first (run.c).
FaultsChangeNothing ==
  \A i \in {x \in Insts : x.op \notin LoadOps \cup {"LWL", "LWR", "LWC1", "LDC1",
                                                  "SDC1", "CTC1"}} :
    \A r \in {Execute(Now, i, delayed_loads)} :
      r.exc # "none" => r = [Now EXCEPT !.exc = r.exc]

\* A program that leaves the register of a load alone for one instruction cannot
\* tell that loads are delayed: memory, PC, HI/LO and exceptions are at every
\* instruction those of the machine without delays, and the registers are once
\* the loads in flight have arrived (run.c, LOAD_INST and DO_DELAYED_UPDATE).
LoadsInvisible ==
  LET s == Settled(m) IN
  clean => /\ [n \in Regs \ {0} |-> s.g[n]] = [n \in Regs \ {0} |-> plain.g[n]]
           /\ s.f = plain.f /\ s.mem = plain.mem /\ s.fcr = plain.fcr
           /\ <<s.pc, s.hi, s.lo, s.exc, s.end>>
                = <<plain.pc, plain.hi, plain.lo, plain.exc, plain.end>>

\* An instruction reads 0 from $0, whatever was written to it before, unless a
\* delayed load is for $0: that one arrives after $0 has been cleared (run.c,
\* "Maintain invariant value").
ZeroReadsZero == zeroed => Begun(m, delayed_loads).g[0] = 0

\* Every instruction computes what its name says, over all pairs of edge operands:
\* products, quotients, comparisons, unaligned words, conversions, conditions
\* (the switch of run_spim).
ResultsRight ==
  LET right(done) ==
        /\ ProductsRight(done) /\ DivisionRight(done) /\ TestsAgree(done)
        /\ ConversionsRight(done) /\ ConditionsRight(done)
  IN TypeOK /\ UnalignedRight /\ right([i \in Probes |-> Execute(Now, i, FALSE)])

\* Delayed loads are invisible to a program that respects their slot, and $0 stays
\* 0 in spite of what is written to it (DO_DELAYED_UPDATE).
DelaysHidden == LoadsInvisible /\ ZeroReadsZero
=============================================================================
