----------------------------- MODULE Arithmetic -----------------------------
(***************************************************************************)
(* A program of arithmetic instructions: any of them, in any order, on any *)
(* registers and with any source values.                                   *)
(*                                                                         *)
(* Its invariants ask, of every state such a program can reach, what one   *)
(* more instruction, or the short sequences compilers emit, would do.      *)
(***************************************************************************)
EXTENDS ALU

VARIABLES
  R,    \* R, the registers of one pair
  cc    \* the condition codes of PSW that are 1

vars == <<R, cc>>

now == [R |-> R, cc |-> cc]

Becomes(c) == R' = c.R /\ cc' = c.cc

Init == R = [r \in Registers |-> 0] /\ cc = {}

DoubleOperand(l, s, d) ==
  \/ Becomes(MOV(l, s, d, now))
  \/ Becomes(CMP(l, s, d, now))
  \/ Becomes(BIT(l, s, d, now))
  \/ Becomes(BIC(l, s, d, now))
  \/ Becomes(BIS(l, s, d, now))

WordOperand(s, d) ==
  \/ Becomes(ADD(s, d, now))
  \/ Becomes(SUB(s, d, now))
  \/ Becomes(MUL(s, d, now))
  \/ Becomes(DIV(s, d, now))
  \/ \E u \in BOOLEAN : Becomes(ASH(s, d, now, u))
  \/ \E u \in BOOLEAN : Becomes(ASHC(s, d, now, u))
  \/ \E r \in Registers : Becomes(XOR(r, d, now))

SingleOperand(l, d) ==
  \/ Becomes(CLR(l, d, now))
  \/ Becomes(COM(l, d, now))
  \/ Becomes(INC(l, d, now))
  \/ Becomes(DEC(l, d, now))
  \/ Becomes(NEG(l, d, now))
  \/ Becomes(ADC(l, d, now))
  \/ Becomes(SBC(l, d, now))
  \/ Becomes(TST(l, d, now))
  \/ Becomes(ROR(l, d, now))
  \/ Becomes(ROL(l, d, now))
  \/ Becomes(ASR(l, d, now))
  \/ Becomes(ASL(l, d, now))

SwapBytes(d) == Becomes(SWAB(d, now))

SignExtend(d) == Becomes(SXT(d, now))

Next ==
  \E d \in Registers :
    \/ \E l \in Lengths : \E s \in Value(l) : DoubleOperand(l, s, d)
    \/ \E s \in Word : WordOperand(s, d)
    \/ \E l \in Lengths : SingleOperand(l, d)
    \/ SwapBytes(d)
    \/ SignExtend(d)

Spec == Init /\ [][Next]_vars

-----------------------------------------------------------------------------

\* Registers hold words: nothing wider is ever left in one.
TypeOK == R \in [Registers -> Word] /\ cc \subseteq Flags

\* The codes of an operation of length l whose exact result is x.
Exact(l, x, carry) ==
  NZ(l, x) \cup When(x \notin -msb(l) .. msb(l) - 1, "V") \cup When(carry, "C")

(***************************************************************************)
(* What the processor handbook says of the instructions that follow it:    *)
(* flags describe the exact signed result, V says that it does not fit,    *)
(* and C is the carry or the borrow, or the bit shifted out.               *)
(***************************************************************************)
AgreesWithHandbook ==
  \A l \in Lengths, d \in Registers :
    LET v == read(l, d, now)
        x == Signed(l, v)
        lsb == Carry(now)
        rolled == ROL(l, d, now)
        added == ADC(2, d, now)
    IN  /\ \A s \in Value(l) :
             CMP(l, s, d, now).cc = Exact(l, Signed(l, s) - x, s < v)
        /\ TST(l, d, now).cc = Exact(l, x, FALSE)
        /\ NEG(l, d, now).cc = Exact(l, -x, v # 0)
        /\ ASL(l, d, now).cc = Exact(l, 2 * x, v >= msb(l))
        /\ rolled.cc = Exact(l, 2 * x + lsb, v >= msb(l))
        /\ read(l, d, rolled) = Cut(l, 2 * v + lsb)
        /\ l = 2 => /\ added.cc = Exact(2, x + lsb, v + lsb = Values(2))
                    /\ added.R[d] = Cut(2, v + lsb)
                    /\ INC(2, d, now).cc = Exact(2, x + 1, "C" \in cc)

(***************************************************************************)
(* A conditional branch after CMP compares: the signed branches the signed *)
(* numbers, the unsigned ones the unsigned, over the whole range of both.  *)
(***************************************************************************)
BranchesDecide ==
  \A l \in Lengths, d \in Registers : \A s \in Value(l) :
    LET v == read(l, d, now)
        x == Signed(l, s)
        y == Signed(l, v)
        b == SignedBranches(CMP(l, s, d, now).cc)
        ub == FlagBranches(CMP(l, s, d, now).cc)
    IN  /\ b.BEQ = (s = v) /\ b.BNE = (s # v)
        /\ b.BLT = (x < y) /\ b.BGE = (x >= y)
        /\ b.BLE = (x <= y) /\ b.BGT = (x > y)
        /\ ub.BCS = (s < v) /\ ub.BCC = (s >= v)
        /\ ub.BLOS = (s <= v) /\ ub.BHI = (s > v)

(***************************************************************************)
(* After an instruction that stores a result, Z says that it is 0 and N    *)
(* that it is negative.  COM, SWAB and MUL are the ones that do not.       *)
(***************************************************************************)
FlagsTellResult ==
  \A l \in Lengths, d \in Registers : \A s \in Value(l) :
    LET Tells(c) == /\ ("Z" \in c.cc) = (read(l, d, c) = 0)
                    /\ ("N" \in c.cc) = (read(l, d, c) >= msb(l))
    IN  /\ \A c \in {MOV(l, s, d, now), BIC(l, s, d, now), BIS(l, s, d, now),
                     CLR(l, d, now), INC(l, d, now), DEC(l, d, now),
                     NEG(l, d, now), ADC(l, d, now), SBC(l, d, now),
                     ROR(l, d, now), ROL(l, d, now), ASR(l, d, now),
                     ASL(l, d, now)} : Tells(c)
        /\ l = 2 => \A c \in {ADD(s, d, now), SUB(s, d, now), SXT(d, now),
                              XOR(d, d, now)} \cup
                             {ASH(s, d, now, u) : u \in BOOLEAN} : Tells(c)

(***************************************************************************)
(* An instruction on the low byte of a register leaves the high byte.      *)
(* MOVB is meant to change it; COMB, INCB of all ones, and RORB with C set *)
(* or bits into it.                                                        *)
(***************************************************************************)
HighByteStays ==
  \A d \in Registers : \A s \in Value(1) :
    \A c \in {BIC(1, s, d, now), BIS(1, s, d, now), CLR(1, d, now),
              DEC(1, d, now), NEG(1, d, now), ADC(1, d, now), SBC(1, d, now),
              ROL(1, d, now), ASR(1, d, now), ASL(1, d, now)}
             \cup (IF read(1, d, now) = Values(1) - 1 THEN {} ELSE {INC(1, d, now)})
             \cup (IF "C" \in cc THEN {} ELSE {ROR(1, d, now)}) :
      c.R[d] \div Values(1) = R[d] \div Values(1)

-----------------------------------------------------------------------------
(* Numbers of two words: the low one in register 0, the high one in 1. *)

Wide(c) == c.R[1] * Values(2) + c.R[0]
WideCut(x) == x % (Values(2) * Values(2))

(***************************************************************************)
(* ADD of the low words, ADC and ADD to the high one add numbers of two    *)
(* words, but for low words that add up to all ones: the carry that ADD    *)
(* reports then (kb11.cc:70) makes the sum too high by one high word.      *)
(***************************************************************************)
SumsCarry ==
  \A low, high \in Word :
    LET false == IF low + R[0] = Values(2) - 1 THEN Values(2) ELSE 0
    IN  Wide(ADD(high, 1, ADC(2, 1, ADD(low, 0, now))))
          = WideCut(Wide(now) + high * Values(2) + low + false)

(***************************************************************************)
(* SUB, SBC, SUB subtract numbers of two words, and NEG, NEG, SBC negate   *)
(* one, although the C that SBC leaves is the opposite of a borrow.        *)
(***************************************************************************)
DifferencesBorrow ==
  /\ \A low, high \in Word :
       Wide(SUB(high, 1, SBC(2, 1, SUB(low, 0, now))))
         = WideCut(Wide(now) - high * Values(2) - low)
  /\ Wide(SBC(2, 1, NEG(2, 0, NEG(2, 1, now)))) = WideCut(-Wide(now))

(***************************************************************************)
(* DIV undoes MUL: by any positive number, of a product of either sign.    *)
(* Of a dividend that is not negative, when it sets neither C nor V, DIV   *)
(* leaves the quotient and the remainder by the divisor taken without a    *)
(* sign; of a negative one, by a positive divisor and if the quotient fits *)
(* in a word, the quotient and a remainder that is not positive either.    *)
(***************************************************************************)
ProductsDivide ==
  \A s \in Word \ {0} :
    LET p == Pair(0, now)
        c == DIV(s, 0, now)
        quot == Signed(2, c.R[0])
        rest == Signed(2, c.R[1])
    IN  /\ s < WordMSB =>
             LET m == DIV(s, 0, MUL(s, 0, now)) IN m.R[0] = R[0] /\ m.R[1] = 0
        /\ p >= 0 /\ "V" \notin c.cc => c.R[0] * s + c.R[1] = p /\ c.R[1] < s
        /\ p < 0 /\ s < WordMSB /\ -p < (WordMSB + 1) * s =>
             quot * s + rest = p /\ rest \in -(s - 1) .. 0

=============================================================================
