-------------------------------- MODULE Alu --------------------------------
(***************************************************************************)
(* What the instructions of the simulated machine compute (the switch of   *)
(* run_spim, unsigned_multiply, signed_multiply and set_fpu_cc of run.c),  *)
(* for a word of Bits bits made of two halves and four bytes, as the       *)
(* program's word of 32.  A word is its unsigned value, 0..Mod-1, and      *)
(* Signed reads it as the program's reg_word.                              *)
(*                                                                         *)
(* The host's floating point is external.  A single is a word and a double *)
(* is two, read as a fixed-point number of quarters; the one pattern with  *)
(* only the sign bit set is NaN, and so is a result that does not fit.     *)
(***************************************************************************)
EXTENDS Integers

CONSTANTS Bits, NaN
ASSUME AluAssumption == Bits \in {8, 16}

Mod      == 2^Bits
Word     == 0..(Mod - 1)
HalfMod  == 2^(Bits \div 2)
ByteMod  == 2^(Bits \div 4)
SignBit  == 2^(Bits - 1)
Signed(w) == IF w >= SignBit THEN w - Mod ELSE w
Truth(b)  == IF b THEN 1 ELSE 0

\* C's &, | and ^ of two words, by the places of their bits that are set.
Places(w) == {k \in 0..(Bits - 1) : (w \div 2^k) % 2 = 1}
OfPlaces(S) ==
  LET low[n \in 0..Bits] ==
        IF n = 0 THEN 0
        ELSE low[n - 1] + (IF n - 1 \in S THEN 2^(n - 1) ELSE 0)
  IN low[Bits]
a & b  == OfPlaces(Places(a) \cap Places(b))
a | b  == OfPlaces(Places(a) \cup Places(b))
a ^^ b == OfPlaces((Places(a) \cup Places(b)) \ (Places(a) \cap Places(b)))

\* (short)IMM and (int16_t): the low half of x, its sign extended.
sign_ex(x) ==
  LET h == x % HalfMod IN
  IF h >= HalfMod \div 2 THEN h + Mod - HalfMod ELSE h

\* BRANCH_OFFSET: the offset shifted left by two, then its low half.
BRANCH_OFFSET(imm) == sign_ex(imm * 4)

-----------------------------------------------------------------------------
(* Integer instructions.                                                   *)

\* ckd_add and ckd_sub: the signed result does not fit.
Overflows(op, a, b) ==
  LET r == IF op = "ADD" THEN Signed(a) + Signed(b) ELSE Signed(a) - Signed(b)
  IN op \in {"ADD", "SUB"} /\ (r < -SignBit \/ r >= SignBit)

\* stdc_leading_zeros and stdc_leading_ones.
Leading(w, one) ==
  CHOOSE n \in 0..Bits :
    /\ \A k \in 1..n : ((w \div 2^(Bits - k)) % 2) = one
    /\ n < Bits => ((w \div 2^(Bits - n - 1)) % 2) # one

\* The value a register-to-register instruction writes; a is rs, b is rt.
Value(op, a, b) ==
  CASE op \in {"ADD", "ADDU"} -> (a + b) % Mod
    [] op \in {"SUB", "SUBU"} -> (a - b) % Mod
    [] op = "AND"  -> a & b
    [] op = "OR"   -> a | b
    [] op = "XOR"  -> a ^^ b
    [] op = "NOR"  -> Mod - 1 - (a | b)
    [] op = "SLT"  -> Truth(Signed(a) < Signed(b))
    [] op = "SLTU" -> Truth(a < b)
    [] op = "CLO"  -> Leading(a, 1)
    [] op = "CLZ"  -> Leading(a, 0)
    [] op \in {"MOVN", "MOVZ"} -> a

\* Shifts of b; only the low bits of the amount count.
Shifted(op, amount, b) ==
  LET s == amount % Bits IN
  CASE op \in {"SLL", "SLLV"} -> (b * 2^s) % Mod
    [] op \in {"SRL", "SRLV"} -> b \div 2^s
    [] op \in {"SRA", "SRAV"} -> (Signed(b) \div 2^s) % Mod

\* Mutant of Immediate: no immediate has its sign extended.
ImmediateUnsigned(op, imm) == imm % HalfMod

\* The immediate forms: the register form they compute, and their operand.
RegisterForm ==
  [ADDI |-> "ADD", ADDIU |-> "ADDU", SLTI |-> "SLT", SLTIU |-> "SLTU",
   ANDI |-> "AND", ORI |-> "OR", XORI |-> "XOR"]
Immediate(op, imm) ==
  IF op \in {"ANDI", "ORI", "XORI"} THEN imm % HalfMod ELSE sign_ex(imm)
LUI(imm) == (imm * HalfMod) % Mod

\* The test of a branch; likely and linking forms make the same one.
Test(op, a, b) ==
  LET sign == (a & SignBit) # 0 IN
  CASE op \in {"BEQ", "BEQL"} -> a = b
    [] op \in {"BNE", "BNEL"} -> a # b
    [] op \in {"BGEZ", "BGEZL", "BGEZAL", "BGEZALL"} -> ~sign
    [] op \in {"BLTZ", "BLTZL", "BLTZAL", "BLTZALL"} -> sign
    [] op \in {"BGTZ", "BGTZL"} -> a # 0 /\ ~sign
    [] op \in {"BLEZ", "BLEZL"} -> a = 0 \/ sign

\* The conditional traps; b is rt or the immediate, its sign extended.
Traps(op, a, b) ==
  CASE op \in {"TEQ", "TEQI"}   -> a = b
    [] op \in {"TNE", "TNEI"}   -> a # b
    [] op \in {"TGE", "TGEI"}   -> Signed(a) >= Signed(b)
    [] op \in {"TLT", "TLTI"}   -> Signed(a) < Signed(b)
    [] op \in {"TGEU", "TGEIU"} -> a >= b
    [] op \in {"TLTU", "TLTIU"} -> a < b

-----------------------------------------------------------------------------
(* Multiplication and division; a result is a pair [hi, lo].               *)

\* The school method on halves, with the carries of the middle sum.
unsigned_multiply(v1, v2) ==
  LET a == v1 \div HalfMod    b == v1 % HalfMod
      c == v2 \div HalfMod    d == v2 % HalfMod
      bd == b * d   ad == a * d   cb == c * b   ac == a * c
      mid   == (ad + cb) % Mod
      mid2  == (mid + (bd \div HalfMod)) % Mod
      carry == Truth(mid < ad \/ mid < cb)
                 + Truth(mid2 < mid \/ mid2 < bd \div HalfMod)
  IN [lo |-> (bd % HalfMod) + (mid2 % HalfMod) * HalfMod,
      hi |-> (ac + carry * HalfMod + (mid2 \div HalfMod)) % Mod]

\* Magnitudes are multiplied and the pair is negated by complement and add.
signed_multiply(v1, v2) ==
  LET neg(v) == Signed(v) < 0
      mag(v) == IF neg(v) THEN (-v) % Mod ELSE v
      p  == unsigned_multiply(mag(v1), mag(v2))
      lo == (Mod - 1 - p.lo + 1) % Mod
  IN IF neg(v1) = neg(v2) THEN p
     ELSE [lo |-> lo, hi |-> (Mod - 1 - p.hi + Truth(lo = 0)) % Mod]

\* Mutant of Accumulate: the low words' carry is lost.
AccumulateNoCarry(q, p) ==
  [lo |-> (q.lo + p.lo) % Mod, hi |-> (q.hi + p.hi) % Mod]

\* MADD and MADDU: the product p added to the pair q.
Accumulate(q, p) ==
  LET tmp == (q.lo + p.lo) % Mod IN
  [lo |-> tmp,
   hi |-> (q.hi + Truth(tmp < p.lo \/ tmp < q.lo) + p.hi) % Mod]

\* MSUB and MSUBU: the product p taken from the pair q.
Deduct(q, p) ==
  [lo |-> (q.lo - p.lo) % Mod,
   hi |-> (q.hi - Truth(p.lo > q.lo) - p.hi) % Mod]

\* C's division of integers truncates; TLA+'s rounds down.
Quotient(x, y) ==
  LET abs(z) == IF z < 0 THEN -z ELSE z
      q == abs(x) \div abs(y)
  IN IF (x < 0) = (y < 0) THEN q ELSE -q

\* Mutant of Divide: DIVU without its casts.
DivideSigned(op, a, b, q) ==
  LET x == Signed(a)  y == Signed(b) IN
  IF b = 0 \/ (a = SignBit /\ b = Mod - 1) THEN q
  ELSE [lo |-> Quotient(x, y) % Mod, hi |-> (x - y * Quotient(x, y)) % Mod]

\* DIV and DIVU, whose guard is the same: HI and LO are kept when the divisor
\* is zero and for the pair whose signed quotient does not fit.
Divide(op, a, b, q) ==
  LET x == IF op = "DIV" THEN Signed(a) ELSE a
      y == IF op = "DIV" THEN Signed(b) ELSE b
  IN IF b = 0 \/ (a = SignBit /\ b = Mod - 1) THEN q
     ELSE [lo |-> Quotient(x, y) % Mod,
           hi |-> (x - y * Quotient(x, y)) % Mod]

-----------------------------------------------------------------------------
(* Unaligned words: byte is the place of the address in its word.          *)

\* LWL: the register's low bytes are kept under the word's low bytes.
LWL(word, reg, byte) ==
  LET keep == ByteMod^(3 - byte) IN
  ((word % ByteMod^(byte + 1)) * keep) + (reg % keep)

\* LWR: the register's high bytes are kept over the word's high bytes.
LWR(word, reg, byte) ==
  LET low == ByteMod^(4 - byte) IN
  ((reg \div low) * low) + (word \div ByteMod^byte)

\* Mutant of SWR: the bytes below are not kept.
SWRDrops(data, reg, byte) == (reg * ByteMod^byte) % Mod

\* SWL and SWR: what is stored in place of data.
SWL(data, reg, byte) ==
  LET put == ByteMod^(byte + 1) IN
  ((data \div put) * put) + (reg \div ByteMod^(3 - byte))
SWR(data, reg, byte) ==
  LET keep == ByteMod^byte IN ((reg * keep) % Mod) + (data % keep)

-----------------------------------------------------------------------------
(* Floating point: numbers of quarters, or NaN.                            *)

\* The number in n words, and the pattern of a number.
Number(w, n) ==
  LET top == 2^(n * Bits - 1) IN
  IF w = top THEN NaN ELSE IF w > top THEN w - 2 * top ELSE w
Pattern(v, n) ==
  LET top == 2^(n * Bits - 1) IN
  IF v = NaN THEN top
  ELSE IF v >= top \/ v <= -top THEN top ELSE v % (2 * top)

\* add, sub, mul, div, neg, abs and sqrt of the host.
Arithmetic(op, x, y) ==
  IF x = NaN \/ (y = NaN /\ op \in {"add", "sub", "mul", "div"}) THEN NaN
  ELSE CASE op = "add" -> x + y
         [] op = "sub" -> x - y
         [] op = "mul" -> Quotient(x * y, 4)
         [] op = "div" -> IF y = 0 THEN NaN ELSE Quotient(4 * x, y)
         [] op = "neg" -> -x
         [] op = "abs" -> IF x < 0 THEN -x ELSE x
         [] op = "sqrt" -> IF x < 0 THEN NaN
                           ELSE CHOOSE r \in 0..(4 * x) :
                                  r * r <= 4 * x /\ (r + 1) * (r + 1) > 4 * x
         [] op = "mov" -> x

\* The cast of a number to int32_t: truncation, and the build's indefinite
\* integer (only the sign bit) when the value does not fit.
ToInt(v) ==
  IF v = NaN THEN SignBit
  ELSE LET n == Quotient(v, 4) IN
       IF n < -SignBit \/ n >= SignBit THEN SignBit ELSE n % Mod

\* Mutant of ToWord: only the cast.
ToWordTruncates(op, v) == ToInt(v)

\* CEIL, FLOOR, ROUND, TRUNC and CVT to a word.
ToWord(op, v) ==
  IF v = NaN THEN ToInt(NaN)
  ELSE CASE op = "ceil"  -> ToInt(4 * (-((-v) \div 4)))
         [] op = "floor" -> ToInt(4 * (v \div 4))
         [] op = "round" -> ToInt(v + 2)
         [] op \in {"trunc", "cvt"} -> ToInt(v)

\* Condition bits of c.cond, and set_fpu_cc's result.
UN == 1
EQ == 2
LT == 4
IN_ == 8
CompareOrdered(cond, less, equal, unordered) ==   \* mutant: NaN is less
  \/ (cond & LT) # 0 /\ (less \/ unordered)
  \/ (cond & EQ) # 0 /\ equal
CompareResult(cond, less, equal, unordered) ==
  \/ (cond & LT) # 0 /\ less
  \/ (cond & EQ) # 0 /\ equal
  \/ (cond & UN) # 0 /\ unordered

\* C.cond: NaN is refused by the signalling predicates, else the condition.
Refuses(cond, x, y) == (x = NaN \/ y = NaN) /\ (cond & IN_) # 0
Compare(cond, x, y) ==
  IF x = NaN \/ y = NaN THEN CompareResult(cond, FALSE, FALSE, TRUE)
  ELSE CompareResult(cond, x < y, x = y, FALSE)
=============================================================================
