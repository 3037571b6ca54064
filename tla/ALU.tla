-------------------------------- MODULE ALU --------------------------------
(***************************************************************************)
(* The arithmetic of the KB11 (kb11.h, kb11.cc): what each instruction     *)
(* does to the registers and the condition codes, its operands once        *)
(* fetched.  The destination is a register; module Operand has the rest.   *)
(*                                                                         *)
(* An operator stands for an instruction.  Its parameters: l is the length *)
(* (1 byte, 2 word), s the source value, d the destination register, and c *)
(* the state before, [R |-> registers, cc |-> the condition codes set].    *)
(* Its value is the state after.                                           *)
(***************************************************************************)
EXTENDS Integers, FiniteSetsExt

CONSTANTS
  ByteMSB,      \* msb<1>(), 0x80 in the source
  WordMSB,      \* msb<2>(), 0x8000 in the source
  Registers     \* an even register and the next, or several such pairs

ASSUME ALUAssumption ==
  /\ ByteMSB \in {2, 4, 8, 16, 32, 64, 128}
  /\ WordMSB = 2 * ByteMSB * ByteMSB
  /\ Registers \subseteq 0 .. 7 /\ 0 \in Registers
  /\ \A r \in Registers : r + 1 - (r % 2) \in Registers

Lengths == {1, 2}
Flags == {"N", "Z", "V", "C"}

msb(l) == IF l = 1 THEN ByteMSB ELSE WordMSB

\* How many values there are, max<l>() + 1.
Values(l) == 2 * msb(l)

Value(l) == 0 .. Values(l) - 1
Word == Value(2)

\* v & max<l>(), of a negative v too
Cut(l, v) == v % Values(l)

\* v & msb<l>()
Sign(l, v) == Cut(l, v) >= msb(l)

Carry(c) == IF "C" \in c.cc THEN 1 ELSE 0

When(b, f) == IF b THEN {f} ELSE {}

-----------------------------------------------------------------------------
(* Bitwise operations, a word being the sum of the weights of its bits. *)

Weights == {1, 2, 4, 8, 16, 32, 64, 128, 256, 512, 1024, 2048, 4096, 8192, 16384, 32768}
Bits(v) == {w \in Weights : (v \div w) % 2 = 1}

\* The word whose bits are S.
Part(w, S) == IF w \in S THEN w ELSE 0
Nibble(w, S) == Part(w, S) + Part(2 * w, S) + Part(4 * w, S) + Part(8 * w, S)
WordOfBits(S) == Nibble(1, S) + Nibble(16, S) + Nibble(256, S) + Nibble(4096, S)

Or(v, w) == WordOfBits(Bits(v) \cup Bits(w))
And(v, w) == WordOfBits(Bits(v) \cap Bits(w))
Xor(v, w) == WordOfBits((Bits(v) \ Bits(w)) \cup (Bits(w) \ Bits(v)))

-----------------------------------------------------------------------------
(* Reading and writing a register. *)

read(l, d, c) == Cut(l, c.R[d])

\* Faulty variant: a byte replaces the word.
WrittenWhole(l, old, v) == v % Values(2)

\* write<l>() to register d: a byte is or-ed in under the high byte, and
\* bits of v beyond the byte with it.
Written(l, old, v) ==
  IF l = 2 THEN Cut(2, v) ELSE Or(old - Cut(1, old), Cut(2, v))

Put(l, d, v, c, cc) ==
  [R |-> [c.R EXCEPT ![d] = Written(l, @, v)], cc |-> cc]

Test(c, cc) == [R |-> c.R, cc |-> cc]

\* Faulty variant: Z looks at bits beyond the value.
NZNoMask(l, v) == When(Sign(l, v), "N") \cup When(v = 0, "Z")

NZ(l, v) == When(Sign(l, v), "N") \cup When(Cut(l, v) = 0, "Z")

\* setNZ<l>(v): C is kept.
NZKeepC(l, v, c) == NZ(l, v) \cup (c.cc \cap {"C"})

\* setNZV<l>(v)
NZVKeepC(l, v, c) == NZKeepC(l, v, c) \cup When(v = msb(l), "V")

-----------------------------------------------------------------------------
(* Double operand instructions. *)

\* To a register, MOVB extends the sign.
MOV(l, s, d, c) ==
  LET v == IF l = 1 /\ Sign(1, s) THEN Values(2) - Values(1) + s ELSE s
  IN  Put(2, d, v, c, NZKeepC(l, s, c))

\* Faulty variant: no overflow.
CMPNoOverflow(l, s, d, c) ==
  LET v == read(l, d, c)
  IN  Test(c, NZ(l, s - v) \cup When(s < v, "C"))

CMP(l, s, d, c) ==
  LET v == read(l, d, c)
      diff == Cut(l, s - v)
  IN  Test(c, NZ(l, diff)
              \cup When(Sign(l, s) # Sign(l, v) /\ Sign(l, v) = Sign(l, diff), "V")
              \cup When(s < v, "C"))

BIT(l, s, d, c) == Test(c, NZKeepC(l, And(s, read(l, d, c)), c))

BIC(l, s, d, c) ==
  LET v == And(Values(l) - 1 - s, read(l, d, c))
  IN  Put(l, d, v, c, NZKeepC(l, v, c))

BIS(l, s, d, c) ==
  LET v == Or(s, read(l, d, c))
  IN  Put(l, d, v, c, NZKeepC(l, v, c))

\* Faulty variant: no carry out.
ADDNoCarry(s, d, c) ==
  Put(2, d, s + c.R[d], c, NZ(2, s + c.R[d]))

\* C is set from 0xFFFF on.
ADD(s, d, c) ==
  LET v == read(2, d, c)
      sum == s + v
  IN  Put(2, d, sum, c,
        NZ(2, sum)
        \cup When(Sign(2, s) = Sign(2, v) /\ Sign(2, v) # Sign(2, sum), "V")
        \cup When(sum >= Values(2) - 1, "C"))

\* Faulty variant: the borrow of the opposite difference.
SUBSwapped(s, d, c) ==
  LET v == read(2, d, c)
  IN  Put(2, d, v - s, c, NZ(2, v - s) \cup When(v > s, "C"))

\* V compares the result with the minuend, as CMP does with its subtrahend.
SUB(s, d, c) ==
  LET v == read(2, d, c)
      diff == Cut(2, v - s)
  IN  Put(2, d, diff, c,
        NZ(2, diff)
        \cup When(Sign(2, s) # Sign(2, v) /\ Sign(2, v) = Sign(2, diff), "V")
        \cup When(s > v, "C"))

\* XOR reads its source from a register.
XOR(r, d, c) ==
  LET v == Xor(c.R[r], read(2, d, c))
  IN  Put(2, d, v, c, NZKeepC(2, v, c))

-----------------------------------------------------------------------------
(* Single operand instructions. *)

CLR(l, d, c) == Put(l, d, 0, c, {"Z"})

\* ~ makes a word of a byte; N is set when the sign bit is 0.
COM(l, d, c) ==
  LET v == Values(2) - 1 - read(l, d, c)
  IN  Put(l, d, v, c,
        When(~Sign(l, v), "N") \cup When(Cut(l, v) = 0, "Z") \cup {"C"})

\* A byte of all ones becomes 0x100.
INC(l, d, c) ==
  LET v == Cut(2, read(l, d, c) + 1)
  IN  Put(l, d, v, c, NZVKeepC(l, v, c))

DEC(l, d, c) ==
  LET v == Cut(l, read(l, d, c) - 1)
  IN  Put(l, d, v, c, NZVKeepC(l, v, c))

NEG(l, d, c) ==
  LET v == Cut(l, -read(l, d, c))
  IN  Put(l, d, v, c, NZ(l, v) \cup When(v = msb(l), "V") \cup When(v # 0, "C"))

\* V and C are those of a word, even of a byte.
ADC(l, d, c) ==
  LET v == read(l, d, c)
  IN  IF "C" \in c.cc
      THEN Put(l, d, Cut(l, v + 1), c,
             NZ(l, v + 1) \cup When(v = WordMSB - 1, "V")
                          \cup When(v = Values(2) - 1, "C"))
      ELSE Test(c, NZ(l, v))

\* C is set unless a borrow is taken from 0.
SBC(l, d, c) ==
  LET v == read(l, d, c)
      V == When(v = WordMSB, "V")
  IN  IF "C" \in c.cc
      THEN Put(l, d, Cut(l, v - 1), c, NZ(l, v - 1) \cup V \cup When(v # 0, "C"))
      ELSE Test(c, NZ(l, v) \cup V \cup {"C"})

TST(l, d, c) == Test(c, NZ(l, read(l, d, c)))

\* The carry comes in above the sign bit.
ROR(l, d, c) ==
  LET v == read(l, d, c)
      w == (v \div 2) + Values(l) * Carry(c)
      lost == v % 2 = 1
  IN  Put(l, d, w, c,
        NZ(l, w) \cup When(lost, "C") \cup When(Sign(l, w) # lost, "V"))

\* ROL and ASL share their flags; the bit shifted out goes to C.
ShiftedLeft(l, d, in, c) ==
  LET v == read(l, d, c)
      w == 2 * v + in
  IN  Put(l, d, Cut(l, w), c,
        NZ(l, w) \cup When(Sign(l, v), "C")
                 \cup When(Sign(l, w) # Sign(l, v), "V"))

ROL(l, d, c) == ShiftedLeft(l, d, Carry(c), c)
ASL(l, d, c) == ShiftedLeft(l, d, 0, c)

\* The two bits compared for V are at different places: either sets it.
ASR(l, d, c) ==
  LET v == read(l, d, c)
      w == (v \div 2) + (IF Sign(l, v) THEN msb(l) ELSE 0)
      lost == v % 2 = 1
  IN  Put(l, d, w, c,
        NZ(l, w) \cup When(lost, "C") \cup When(Sign(l, v) \/ lost, "V"))

\* Z tells the high byte.
SWAB(d, c) ==
  LET v == read(2, d, c)
      w == Values(1) * (v % Values(1)) + (v \div Values(1))
  IN  Put(2, d, w, c, When(w < Values(1), "Z") \cup When(Sign(1, w), "N"))

SXT(d, c) ==
  IF "N" \in c.cc
  THEN Put(2, d, Values(2) - 1, c, c.cc \ {"Z", "V"})
  ELSE Put(2, d, 0, c, (c.cc \ {"V"}) \cup {"Z"})

-----------------------------------------------------------------------------
(* Instructions on a register and the odd one beside it. *)

Beside(d) == d + 1 - (d % 2)

\* The value of v as a two's complement number.
Signed(l, v) == IF v >= msb(l) THEN v - Values(l) ELSE v

\* Faulty variant: the low word is not cut to 16 bits.
PutPairUncut(d, high, low, c, cc) ==
  [R |-> [c.R EXCEPT ![d] = Cut(2, high), ![Beside(d)] = low], cc |-> cc]

\* high goes to d first: with d odd, low replaces it.
PutPair(d, high, low, c, cc) ==
  [R |-> [c.R EXCEPT ![d] = Cut(2, high), ![Beside(d)] = Cut(2, low)], cc |-> cc]

\* N is set of 0 too; the condition of C holds of every number.
MUL(s, d, c) ==
  LET p == Signed(2, c.R[d]) * Signed(2, s)
  IN  PutPair(d, p \div Values(2), p, c,
        When(p < 1, "N") \cup When(p = 0, "Z")
                         \cup When(p < WordMSB \/ p >= WordMSB - 1, "C"))

\* Faulty variant: the sign of the pair is lost.
PairUnsigned(d, c) == c.R[d] * Values(2) + c.R[Beside(d)]

\* The pair as one signed number.
Pair(d, c) == Signed(2, c.R[d]) * Values(2) + c.R[Beside(d)]

\* C++'s division, towards 0.
Quotient(p, q) == IF p >= 0 THEN p \div q ELSE -((-p) \div q)

\* The divisor is read as unsigned.
DIV(s, d, c) ==
  LET p == Pair(d, c)
      q == Quotient(p, s)
      new == PutPair(d, q, p - q * s, c, {})
  IN  IF s = 0 THEN Test(c, {"C"})
      ELSE IF q >= Values(2) THEN Test(c, {"V"})
      ELSE [new EXCEPT !.cc = NZ(2, new.R[d]) \cup When(p = 0, "V")]

\* Shift counts: 077 is 2 * ShiftSign - 1.
WordBits == CHOOSE k \in 4 .. 16 : 2^k = Values(2)
ShiftSign == 2 * WordBits

\* v shifted right by k, the sign filling in; n is how many values there are.
ShiftedRight(v, k, n) ==
  (v \div 2^k) + (IF v >= n \div 2 THEN (n - 1) - ((n - 1) \div 2^k) ELSE 0)

Bit(v, k) == (v \div 2^k) % 2 = 1

\* What ASH and ASHC make of v, bits wide, and of the count in s; old are the
\* registers.  A shift of 1 by a negative count is undefined, and so is one to
\* the right by 32: u chooses C, or whether the count counts modulo 32.
Shifted(v, bits, s, u) ==
  LET n == 2^bits
      count == s % (2 * ShiftSign)
      right == count >= ShiftSign
      k == IF right THEN 2 * ShiftSign - count ELSE count
      by == IF right /\ k = ShiftSign /\ u THEN 0 ELSE k
      w == IF right THEN ShiftedRight(v, by, n) ELSE (v * 2^k) % n
      lost == IF right THEN Bit(v, k - 1)
              ELSE IF k <= bits /\ ~(k = 0 /\ bits = ShiftSign) THEN Bit(v, bits - k)
              ELSE u
  IN  [v |-> w,
       cc |-> When(w >= n \div 2, "N") \cup When(w = 0, "Z") \cup When(lost, "C")
              \cup When((w >= n \div 2) # (v >= n \div 2), "V")]

ASH(s, d, c, u) ==
  LET new == Shifted(c.R[d], WordBits, s, u)
  IN  Put(2, d, new.v, c, new.cc)

ASHC(s, d, c, u) ==
  LET v == c.R[d] * Values(2) + c.R[Beside(d)]
      new == Shifted(v, ShiftSign, s, u)
  IN  PutPair(d, new.v \div Values(2), new.v, c, new.cc)

-----------------------------------------------------------------------------
(* The conditional branches: which are taken when the codes are cc. *)

\* Faulty variant: BLT and the others look at N alone.
BranchesBySignBit(cc) ==
  LET less == "N" \in cc
  IN  [BNE |-> "Z" \notin cc,  BEQ |-> "Z" \in cc,
       BGE |-> ~less,          BLT |-> less,
       BGT |-> ~less /\ "Z" \notin cc,  BLE |-> less \/ "Z" \in cc]

SignedBranches(cc) ==
  LET less == ("N" \in cc) # ("V" \in cc)
  IN  [BNE |-> "Z" \notin cc,  BEQ |-> "Z" \in cc,
       BGE |-> ~less,          BLT |-> less,
       BGT |-> ~less /\ "Z" \notin cc,  BLE |-> less \/ "Z" \in cc]

\* BHI, BLOS, BCC and BCS are the unsigned comparisons.
FlagBranches(cc) ==
  [BPL |-> "N" \notin cc,  BMI |-> "N" \in cc,
   BHI |-> "C" \notin cc /\ "Z" \notin cc,  BLOS |-> "C" \in cc \/ "Z" \in cc,
   BVC |-> "V" \notin cc,  BVS |-> "V" \in cc,
   BCC |-> "C" \notin cc,  BCS |-> "C" \in cc]

=============================================================================
