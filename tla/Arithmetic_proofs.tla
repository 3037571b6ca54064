-------------------------- MODULE Arithmetic_proofs --------------------------
(***************************************************************************)
(* Proofs about module Arithmetic, for bytes and words of every width.     *)
(* What a state promises of the next instructions follows from its type,   *)
(* whatever program led there: TypeOK is the only invariant needed.        *)
(***************************************************************************)
EXTENDS Arithmetic, ALU_proofs

LEMMA NowFits == TypeOK <=> Fits(Registers, now)
BY DEF TypeOK, Fits, now

LEMMA BesideIsRegister ==
  ASSUME NEW d \in Registers
  PROVE  Beside(d) \in Registers
BY ALUAssumption DEF Beside

(***************************************************************************)
(* Registers hold words and the codes are flags, whatever instructions are *)
(* executed: what write<l>() stores is masked for every width, the results *)
(* of the shifts and of the products and quotients of pairs included.      *)
(***************************************************************************)
THEOREM ArithmeticTypeCorrect == Spec => []TypeOK
<1>1. Init => TypeOK
  <2>1. 0 \in Word
    BY ByteInWord DEF Lengths, Word
  <2> QED
    BY <2>1 DEF Init, TypeOK
<1>2. TypeOK /\ [Next]_vars => TypeOK'
  <2> SUFFICES ASSUME TypeOK, [Next]_vars
               PROVE  TypeOK'
    OBVIOUS
  <2>1. Fits(Registers, now)
    BY NowFits
  <2>2. ASSUME NEW c, Fits(Registers, c), Becomes(c)
        PROVE  TypeOK'
    BY <2>2 DEF Fits, Becomes, TypeOK
  <2>3. ASSUME NEW d \in Registers, NEW l \in Lengths, NEW s \in Value(l),
               DoubleOperand(l, s, d)
        PROVE  TypeOK'
    BY <2>1, <2>2, <2>3, DoubleFits DEF DoubleOperand
  <2>4. ASSUME NEW d \in Registers, NEW s \in Word, WordOperand(s, d)
        PROVE  TypeOK'
    <3>1. Beside(d) \in Registers
      BY BesideIsRegister
    <3>2. CASE \/ Becomes(ADD(s, d, now)) \/ Becomes(SUB(s, d, now))
               \/ Becomes(MUL(s, d, now))
      BY <2>1, <2>2, <3>2, WordFits
    <3>3. CASE Becomes(DIV(s, d, now))
      BY <2>1, <2>2, <3>1, <3>3, DIVFits
    <3>4. CASE \E u \in BOOLEAN : Becomes(ASH(s, d, now, u)) \/ Becomes(ASHC(s, d, now, u))
      BY <2>1, <2>2, <3>1, <3>4, ShiftFits
    <3>5. CASE \E r \in Registers : Becomes(XOR(r, d, now))
      BY <2>1, <2>2, <3>5, WordFits
    <3> QED
      BY <2>4, <3>2, <3>3, <3>4, <3>5 DEF WordOperand
  <2>5. ASSUME NEW d \in Registers, NEW l \in Lengths, SingleOperand(l, d)
        PROVE  TypeOK'
    BY <2>1, <2>2, <2>5, SingleFits DEF SingleOperand
  <2>6. ASSUME NEW d \in Registers, SwapBytes(d) \/ SignExtend(d)
        PROVE  TypeOK'
    <3>1. 0 \in Word
      BY ByteInWord DEF Lengths, Word
    <3> QED
      BY <2>1, <2>2, <2>6, <3>1, WordFits DEF SwapBytes, SignExtend
  <2>7. CASE UNCHANGED vars
    BY <2>7 DEF vars, TypeOK
  <2> QED
    BY <2>3, <2>4, <2>5, <2>6, <2>7 DEF Next
<1> QED
  BY <1>1, <1>2, PTL DEF Spec

-----------------------------------------------------------------------------
(* What is stored. *)

\* HighByteStays at one register and source.
LEMMA HighByteStaysOne ==
  ASSUME TypeOK, NEW d \in Registers, NEW s \in Value(1),
         NEW c \in {BIC(1, s, d, now), BIS(1, s, d, now), CLR(1, d, now),
                    DEC(1, d, now), NEG(1, d, now), ADC(1, d, now), SBC(1, d, now),
                    ROL(1, d, now), ASR(1, d, now), ASL(1, d, now)}
                   \cup (IF read(1, d, now) = Values(1) - 1 THEN {} ELSE {INC(1, d, now)})
                   \cup (IF "C" \in cc THEN {} ELSE {ROR(1, d, now)})
  PROVE  c.R[d] \div Values(1) = R[d] \div Values(1)
<1>1. Fits(Registers, now) /\ now.R = R /\ now.cc = cc /\ 1 \in Lengths
  BY NowFits DEF now, Lengths
<1>2. Looks(1, d, now, c) \/ \E w \in Value(1) : StoresValue(1, d, w, now, c)
  <2>1. CASE c \in {BIC(1, s, d, now), BIS(1, s, d, now)}
    BY <1>1, <2>1, DoubleStores
  <2>2. CASE c \in {CLR(1, d, now), DEC(1, d, now), NEG(1, d, now), ADC(1, d, now),
                    SBC(1, d, now), ROL(1, d, now), ASR(1, d, now), ASL(1, d, now)}
    BY <1>1, <2>2, SingleStores
  <2>3. CASE read(1, d, now) # Values(1) - 1 /\ c = INC(1, d, now)
    BY <1>1, <2>3, SingleStores
  <2>4. CASE "C" \notin cc /\ c = ROR(1, d, now)
    BY <1>1, <2>4, SingleStores
  <2> QED
    BY <2>1, <2>2, <2>3, <2>4
<1>3. CASE Looks(1, d, now, c)
  BY <1>1, <1>3 DEF Looks
<1>4. CASE \E w \in Value(1) : StoresValue(1, d, w, now, c)
  BY <1>1, <1>4, StoresUnder
<1> QED
  BY <1>2, <1>3, <1>4

(***************************************************************************)
(* The byte instructions on a register leave its high byte, for every      *)
(* width: what write<1>() or-es under it has no bit beyond the byte.       *)
(***************************************************************************)
THEOREM ByteKeepsHighByte == Spec => []HighByteStays
<1>1. TypeOK => HighByteStays
  BY HighByteStaysOne DEF HighByteStays
<1> QED
  BY <1>1, ArithmeticTypeCorrect, PTL

\* MOV stores its source, a byte with its sign extended.
LEMMA MOVTells ==
  ASSUME NEW D, NEW c, Fits(D, c), NEW l \in Lengths, NEW s \in Value(l), NEW d \in D
  PROVE  Tells(l, d, MOV(l, s, d, c))
<1> DEFINE n == Values(l)
           w == IF l = 1 /\ Sign(1, s) THEN Values(2) - Values(1) + s ELSE s
           new == MOV(l, s, d, c)
<1>1. /\ n \in Nat \ {0} /\ s \in 0 .. n - 1 /\ Values(1) \in Nat \ {0}
      /\ Values(2) \in Nat \ {0} /\ Values(2) = Values(1) * Values(1)
  BY Widths, ByteInWord DEF Lengths, Value
<1>2. new = Put(2, d, w, c, NZKeepC(l, s, c))
  BY DEF MOV
<1>3. Cut(l, s) = s
  BY ValueStores
<1>4. w \in Word /\ Cut(l, w) = s
  <2>1. CASE l = 1 /\ Sign(1, s)
    <3> DEFINE m == Values(1)
    <3>1. w = (m - 1) * m + s
      BY <1>1, <2>1
    <3>2. m \in Nat \ {0} /\ m - 1 \in Nat /\ m - 1 \in Int /\ s \in 0 .. m - 1
      BY <1>1, <2>1
    <3>3. (m - 1) * m <= m * m - m /\ (m - 1) * m \in Nat
      BY <1>1, <3>2
    <3>4. w \in 0 .. Values(2) - 1
      BY <1>1, <3>1, <3>2, <3>3
    <3> HIDE DEF m, w
    <3>5. w % m = s
      BY <3>1, <3>2, ModUnique
    <3> QED
      BY <2>1, <3>4, <3>5 DEF Cut, m, Word, Value
  <2>2. CASE ~(l = 1 /\ Sign(1, s))
    BY <1>3, <2>2, ByteInWord
  <2> QED
    BY <2>1, <2>2
<1> HIDE DEF w
<1>5. read(l, d, new) = s
  <2>1. w \in Int /\ Cut(2, w) = w
    BY <1>4, CutFits, ByteInWord DEF Lengths, Word
  <2>2. new.R[d] = w
    BY <1>2, <2>1 DEF Put, Written, Fits
  <2> QED
    BY <1>4, <2>2 DEF read
<1>6. new.cc = NZ(l, s) \cup (c.cc \cap {"C"})
  BY <1>2 DEF Put, NZKeepC
<1>7. ("Z" \in new.cc) = (s = 0) /\ ("N" \in new.cc) = (s >= msb(l))
  <2>1. "N" \notin c.cc \cap {"C"} /\ "Z" \notin c.cc \cap {"C"}
    OBVIOUS
  <2>2. ("Z" \in new.cc) = (Cut(l, s) = 0) /\ ("N" \in new.cc) = Sign(l, s)
    BY <1>6, <2>1, NZTells
  <2> HIDE DEF new
  <2> QED
    BY <1>3, <2>2 DEF Sign
<1> QED
  BY <1>5, <1>7 DEF Tells

\* The instructions that are on words alone.
LEMMA WordTells ==
  ASSUME NEW D, NEW c, Fits(D, c), NEW s \in Word, NEW d \in D, NEW u
  PROVE  /\ Tells(2, d, ADD(s, d, c)) /\ Tells(2, d, SUB(s, d, c))
         /\ Tells(2, d, SXT(d, c)) /\ Tells(2, d, XOR(d, d, c))
         /\ Tells(2, d, ASH(s, d, c, u))
<1> DEFINE v == read(2, d, c)
           n == Values(2)
           h == msb(2)
<1>1. /\ v \in 0 .. n - 1 /\ v = c.R[d] /\ s \in 0 .. n - 1 /\ h \in Nat \ {0}
      /\ n = 2 * h /\ Value(2) = 0 .. n - 1 /\ Word = Value(2) /\ 2 \in Lengths
  BY ReadFits, Widths DEF Value, Word, Lengths
<1>2. ASSUME NEW f \in {"V", "C"}, NEW b
      PROVE  "N" \notin When(b, f) /\ "Z" \notin When(b, f)
  BY DEF When
<1>3. \A w, new : StoresValue(2, d, w, c, new) => Tells(2, d, new)
  BY <1>1, StoresTells
<1> HIDE DEF v, n, h
<1>4. Tells(2, d, ADD(s, d, c))
  <2> DEFINE w == s + v
             more == When(Sign(2, s) = Sign(2, v) /\ Sign(2, v) # Sign(2, w), "V")
                       \cup When(w >= n - 1, "C")
  <2>1. ADD(s, d, c) = Put(2, d, w, c, NZ(2, w) \cup more)
    BY DEF ADD, v, n
  <2>2. w \in 0 .. 2 * Values(2) - 1
    BY <1>1 DEF n
  <2>3. "N" \notin more /\ "Z" \notin more
    BY <1>2
  <2> HIDE DEF w, more
  <2> QED
    BY <1>1, <1>3, <2>1, <2>2, <2>3, PutStores
<1>5. Tells(2, d, SUB(s, d, c))
  <2> DEFINE w == Cut(2, v - s)
             more == When(Sign(2, s) # Sign(2, v) /\ Sign(2, v) = Sign(2, w), "V")
                       \cup When(s > v, "C")
  <2>1. SUB(s, d, c) = Put(2, d, w, c, NZ(2, w) \cup more)
    BY DEF SUB, v
  <2>2. w \in Value(2)
    BY <1>1, CutFits
  <2>3. "N" \notin more /\ "Z" \notin more
    BY <1>2
  <2> HIDE DEF w, more
  <2> QED
    BY <1>1, <1>3, <2>1, <2>2, <2>3, PutStores, ValueStores
<1>6. Tells(2, d, SXT(d, c))
  <2>1. n - 1 \in Value(2) /\ 0 \in Value(2)
    BY <1>1
  <2>2. /\ Cut(2, n - 1) = n - 1 /\ Cut(2, 0) = 0
        /\ n - 1 \in 0 .. 2 * Values(2) - 1 /\ 0 \in 0 .. 2 * Values(2) - 1
    BY <1>1, <2>1, ValueStores
  <2>3. Sign(2, n - 1) /\ ~Sign(2, 0) /\ n - 1 # 0
    BY <1>1, <2>2 DEF Sign, h
  <2>4. CASE "N" \in c.cc
    <3>1. SXT(d, c) = Put(2, d, n - 1, c, c.cc \ {"Z", "V"})
      BY <2>4 DEF SXT, n
    <3>2. StoresValue(2, d, n - 1, c, SXT(d, c))
      BY <2>2, <2>3, <2>4, <3>1 DEF StoresValue, Put, Sign
    <3> QED
      BY <1>3, <3>2
  <2>5. CASE "N" \notin c.cc
    <3>1. SXT(d, c) = Put(2, d, 0, c, (c.cc \ {"V"}) \cup {"Z"})
      BY <2>5 DEF SXT
    <3>2. StoresValue(2, d, 0, c, SXT(d, c))
      BY <2>2, <2>3, <2>5, <3>1 DEF StoresValue, Put, Sign
    <3> QED
      BY <1>3, <3>2
  <2> QED
    BY <2>4, <2>5
<1>7. Tells(2, d, XOR(d, d, c))
  <2> DEFINE w == Xor(c.R[d], v)
             more == c.cc \cap {"C"}
  <2>1. XOR(d, d, c) = Put(2, d, w, c, NZ(2, w) \cup more)
    BY DEF XOR, NZKeepC, v
  <2>2. w \in Value(2)
    BY <1>1, LogicFits
  <2>3. "N" \notin more /\ "Z" \notin more
    OBVIOUS
  <2> HIDE DEF w, more
  <2> QED
    BY <1>1, <1>3, <2>1, <2>2, <2>3, PutStores, ValueStores
<1>8. Tells(2, d, ASH(s, d, c, u))
  <2> DEFINE new == Shifted(v, WordBits, s, u)
  <2>1. /\ new.v \in Value(2)
        /\ "Z" \in new.cc <=> new.v = 0
        /\ "N" \in new.cc <=> new.v >= h
    <3>1. WordBits \in {WordBits, ShiftSign} /\ v \in 0 .. 2^WordBits - 1 /\ s \in Int
          /\ 2^WordBits = n
      BY <1>1, WordBitsFit DEF n
    <3>2. n \div 2 = h
      BY <1>1
    <3> QED
      BY <1>1, <3>1, <3>2, ShiftedFits
  <2>2. ASH(s, d, c, u) = Put(2, d, new.v, c, new.cc)
    BY <1>1 DEF ASH
  <2> HIDE DEF new
  <2>3. Cut(2, new.v) = new.v /\ new.v \in 0 .. 2 * Values(2) - 1
    BY <1>1, <2>1, ValueStores
  <2>4. ("Z" \in new.cc) = (Cut(2, new.v) = 0) /\ ("N" \in new.cc) = Sign(2, new.v)
    BY <2>1, <2>3 DEF Sign, h
  <2>5. StoresValue(2, d, new.v, c, ASH(s, d, c, u))
    BY <2>2, <2>3, <2>4 DEF StoresValue, Put
  <2> QED
    BY <1>3, <2>5
<1> QED
  BY <1>4, <1>5, <1>6, <1>7, <1>8

(***************************************************************************)
(* Z and N tell the value that is stored, byte or word of any width, also  *)
(* where INCB and RORB compute one that has a bit beyond the byte.         *)
(***************************************************************************)
THEOREM FlagsTellWhatIsStored == Spec => []FlagsTellResult
<1>1. ASSUME TypeOK, NEW l \in Lengths, NEW d \in Registers, NEW s \in Value(l)
      PROVE  /\ \A c \in {MOV(l, s, d, now), BIC(l, s, d, now), BIS(l, s, d, now),
                          CLR(l, d, now), INC(l, d, now), DEC(l, d, now),
                          NEG(l, d, now), ADC(l, d, now), SBC(l, d, now),
                          ROR(l, d, now), ROL(l, d, now), ASR(l, d, now),
                          ASL(l, d, now)} : Tells(l, d, c)
             /\ l = 2 => \A c \in {ADD(s, d, now), SUB(s, d, now), SXT(d, now),
                                   XOR(d, d, now)} \cup
                                  {ASH(s, d, now, u) : u \in BOOLEAN} : Tells(l, d, c)
  <2>1. Fits(Registers, now)
    BY <1>1, NowFits
  <2>2. \A w, new : StoresValue(l, d, w, now, new) => Tells(l, d, new)
    BY <2>1, StoresTells
  <2>3. \A new : Looks(l, d, now, new) => Tells(l, d, new)
    BY LooksTells
  <2>4. Tells(l, d, MOV(l, s, d, now))
    BY <2>1, MOVTells
  <2>5. Tells(l, d, BIC(l, s, d, now)) /\ Tells(l, d, BIS(l, s, d, now))
    BY <2>1, <2>2, DoubleStores
  <2>6. /\ Tells(l, d, CLR(l, d, now)) /\ Tells(l, d, INC(l, d, now))
        /\ Tells(l, d, DEC(l, d, now)) /\ Tells(l, d, NEG(l, d, now))
        /\ Tells(l, d, ADC(l, d, now)) /\ Tells(l, d, SBC(l, d, now))
        /\ Tells(l, d, ROR(l, d, now)) /\ Tells(l, d, ROL(l, d, now))
        /\ Tells(l, d, ASR(l, d, now)) /\ Tells(l, d, ASL(l, d, now))
    BY <2>1, <2>2, <2>3, SingleStores
  <2>7. l = 2 => \A c \in {ADD(s, d, now), SUB(s, d, now), SXT(d, now),
                           XOR(d, d, now)} \cup
                          {ASH(s, d, now, u) : u \in BOOLEAN} : Tells(l, d, c)
    BY <2>1, WordTells DEF Word
  <2> QED
    BY <2>4, <2>5, <2>6, <2>7
<1>2. TypeOK => FlagsTellResult
  BY <1>1 DEF FlagsTellResult, Tells
<1> QED
  BY <1>2, ArithmeticTypeCorrect, PTL
-----------------------------------------------------------------------------
(* Comparisons. *)

\* BranchesDecide at one comparison.
LEMMA BranchesDecideOne ==
  ASSUME TypeOK, NEW l \in Lengths, NEW d \in Registers, NEW s \in Value(l)
  PROVE  LET v == read(l, d, now)
             x == Signed(l, s)
             y == Signed(l, v)
             b == SignedBranches(CMP(l, s, d, now).cc)
             ub == FlagBranches(CMP(l, s, d, now).cc)
         IN  /\ b.BEQ = (s = v) /\ b.BNE = (s # v)
             /\ b.BLT = (x < y) /\ b.BGE = (x >= y)
             /\ b.BLE = (x <= y) /\ b.BGT = (x > y)
             /\ ub.BCS = (s < v) /\ ub.BCC = (s >= v)
             /\ ub.BLOS = (s <= v) /\ ub.BHI = (s > v)
<1> DEFINE h == msb(l)
           v == read(l, d, now)
           diff == IF s >= v THEN s - v ELSE s - v + 2 * h
           x == Signed(l, s)
           y == Signed(l, v)
           codes == CMP(l, s, d, now).cc
<1>1. h \in Nat \ {0} /\ Values(l) = 2 * h
  BY Widths
<1>2. v \in Value(l)
  <2>1. R[d] \in Nat
    BY Widths DEF TypeOK, Word, Value, Lengths
  <2> QED
    BY <1>1, <2>1 DEF read, Cut, now, Value
<1>3. s \in 0 .. 2 * h - 1 /\ v \in 0 .. 2 * h - 1
  BY <1>1, <1>2 DEF Value
<1>4. /\ x = IF s >= h THEN s - 2 * h ELSE s
      /\ y = IF v >= h THEN v - 2 * h ELSE v
  BY <1>1 DEF Signed
<1>5. /\ ("Z" \in codes) <=> (s = v)
      /\ ("N" \in codes) <=> (diff >= h)
      /\ ("V" \in codes) <=> (s >= h) # (v >= h) /\ (v >= h) = (diff >= h)
      /\ ("C" \in codes) <=> (s < v)
  BY <1>2, CompareFlags
<1> HIDE DEF h, v, x, y, codes
<1>6. x = y <=> s = v
  BY <1>1, <1>3, <1>4
\* N and V differ just when the signed difference is negative.
<1>7. (("N" \in codes) # ("V" \in codes)) <=> x < y
  BY <1>1, <1>3, <1>4, <1>5
<1>8. x \in Int /\ y \in Int
  BY <1>1, <1>3, <1>4
<1>9. /\ SignedBranches(codes).BEQ = (s = v)
      /\ SignedBranches(codes).BNE = (s # v)
  BY <1>5 DEF SignedBranches
<1>10. /\ SignedBranches(codes).BLT = (x < y)
       /\ SignedBranches(codes).BGE = (x >= y)
  BY <1>7, <1>8 DEF SignedBranches
<1>11. /\ SignedBranches(codes).BLE = (x <= y)
       /\ SignedBranches(codes).BGT = (x > y)
  BY <1>5, <1>6, <1>7, <1>8 DEF SignedBranches
<1>12. /\ FlagBranches(codes).BCS = (s < v)
       /\ FlagBranches(codes).BCC = (s >= v)
       /\ FlagBranches(codes).BLOS = (s <= v)
       /\ FlagBranches(codes).BHI = (s > v)
  BY <1>3, <1>5 DEF FlagBranches
<1> QED
  BY <1>9, <1>10, <1>11, <1>12 DEF v, x, y, codes

(***************************************************************************)
(* After a comparison every conditional branch tells how the two values    *)
(* compare, for every width of bytes and words (the branches of            *)
(* KB11::step() and KB11::CMP()).                                          *)
(***************************************************************************)
THEOREM CompareAndBranch == Spec => []BranchesDecide
<1>1. TypeOK => BranchesDecide
  BY BranchesDecideOne DEF BranchesDecide
<1> QED
  BY <1>1, ArithmeticTypeCorrect, PTL
-----------------------------------------------------------------------------
(* Numbers of two words. *)

\* Storing a word in one of the two registers.
LEMMA PutWord ==
  ASSUME NEW c, c.R \in [Registers -> Word], NEW d \in {0, 1}, NEW v \in Int,
         NEW codes
  PROVE  LET new == Put(2, d, v, c, codes)
         IN  /\ new.R \in [Registers -> Word] /\ new.cc = codes
             /\ new.R[d] = v % Values(2) /\ new.R[1 - d] = c.R[1 - d]
<1>1. 0 \in Registers /\ 1 \in Registers
  BY ALUAssumption
<1>2. v % Values(2) \in Word
  BY Widths DEF Word, Value, Lengths
<1> QED
  BY <1>1, <1>2 DEF Put, Written, Cut

\* The words of the registers.
LEMMA WordsOf ==
  ASSUME NEW c, c.R \in [Registers -> Word]
  PROVE  /\ c.R[0] \in 0 .. Values(2) - 1 /\ c.R[1] \in 0 .. Values(2) - 1
         /\ read(2, 0, c) = c.R[0] /\ read(2, 1, c) = c.R[1]
         /\ Values(2) \in Nat \ {0}
<1>1. 0 \in Registers /\ 1 \in Registers
  BY ALUAssumption
<1>2. Values(2) \in Nat \ {0}
  BY Widths DEF Lengths
<1> QED
  BY <1>1, <1>2 DEF Word, Value, read, Cut

\* SumsCarry at one pair of source words.
LEMMA SumsCarryOne ==
  ASSUME TypeOK, NEW low \in Word, NEW high \in Word
  PROVE  LET false == IF low + R[0] = Values(2) - 1 THEN Values(2) ELSE 0
         IN  Wide(ADD(high, 1, ADC(2, 1, ADD(low, 0, now))))
               = WideCut(Wide(now) + high * Values(2) + low + false)
<1> DEFINE n == Values(2)
           r0 == R[0]
           r1 == R[1]
           t == low + r0
           k == IF t >= n - 1 THEN 1 ELSE 0
           a == ADD(low, 0, now)
           b == ADC(2, 1, a)
           e == ADD(high, 1, b)
           false == IF t = n - 1 THEN n ELSE 0
<1>1. /\ n \in Nat \ {0} /\ r0 \in 0 .. n - 1 /\ r1 \in 0 .. n - 1
      /\ low \in 0 .. n - 1 /\ high \in 0 .. n - 1
      /\ now.R \in [Registers -> Word] /\ now.R = R
      /\ read(2, 0, now) = r0
  BY WordsOf DEF TypeOK, now, Word, Value
<1>2. /\ a.R \in [Registers -> Word] /\ a.R[0] = t % n /\ a.R[1] = r1
      /\ ("C" \in a.cc) <=> t >= n - 1
  <2> DEFINE codes == NZ(2, t)
               \cup When(Sign(2, low) = Sign(2, r0) /\ Sign(2, r0) # Sign(2, t), "V")
               \cup When(t >= n - 1, "C")
  <2>1. a = Put(2, 0, t, now, codes)
    BY <1>1 DEF ADD
  <2>2. ("C" \in codes) <=> t >= n - 1
    BY DEF NZ, When
  <2> HIDE DEF codes
  <2> QED
    BY <1>1, <2>1, <2>2, PutWord
<1> HIDE DEF a
<1>3. /\ b.R \in [Registers -> Word] /\ b.R[0] = t % n /\ b.R[1] = (r1 + k) % n
  <2>1. read(2, 1, a) = r1
    BY <1>2, WordsOf
  <2>2. CASE "C" \in a.cc
    <3>1. k = 1
      BY <1>2, <2>2
    <3>2. b = Put(2, 1, Cut(2, r1 + 1), a,
                NZ(2, r1 + 1) \cup When(r1 = WordMSB - 1, "V")
                             \cup When(r1 = Values(2) - 1, "C"))
      BY <2>1, <2>2 DEF ADC
    <3>3. Cut(2, r1 + 1) \in Int /\ Cut(2, r1 + 1) % n = (r1 + 1) % n
      BY <1>1 DEF Cut
    <3>4. PICK w, codes : /\ w \in Int /\ b = Put(2, 1, w, a, codes)
                          /\ w % n = (r1 + 1) % n
      BY <3>2, <3>3
    <3> HIDE DEF b, k
    <3>5. /\ b.R \in [Registers -> Word] /\ b.R[1] = w % n
          /\ b.R[1 - 1] = a.R[1 - 1]
      BY <1>2, <3>4, PutWord
    <3> QED
      BY <1>2, <3>1, <3>4, <3>5
  <2>3. CASE "C" \notin a.cc
    <3>1. k = 0
      BY <1>1, <1>2, <2>3
    <3>2. b.R = a.R
      BY <2>3 DEF ADC, Test
    <3>3. r1 % n = r1
      BY <1>1
    <3> HIDE DEF b
    <3> QED
      BY <1>1, <1>2, <3>1, <3>2, <3>3
  <2> QED
    BY <2>2, <2>3
<1> HIDE DEF b
<1>4. /\ e.R[0] = t % n /\ e.R[1] = (high + ((r1 + k) % n)) % n
  <2>1. read(2, 1, b) = (r1 + k) % n
    BY <1>3, WordsOf
  <2>2. PICK codes : e = Put(2, 1, high + ((r1 + k) % n), b, codes)
    BY <2>1 DEF ADD
  <2>3. high + ((r1 + k) % n) \in Int
    BY <1>1
  <2> HIDE DEF e
  <2> QED
    BY <1>3, <2>2, <2>3, PutWord
<1> HIDE DEF e
<1> DEFINE u == high + r1 + k
<1>5. u \in Int /\ (high + ((r1 + k) % n)) % n = u % n
  <2>1. r1 + k \in Int /\ u = high + (r1 + k) /\ u \in Int
    BY <1>1
  <2> HIDE DEF u, k
  <2> QED
    BY <1>1, <2>1, ModAdd
<1>6. t % n \in 0 .. n - 1 /\ t % n = IF t >= n THEN t - n ELSE t
  <2>1. /\ n \in Nat \ {0} /\ low \in 0 .. n - 1 /\ r0 \in 0 .. n - 1
        /\ t = low + r0
    BY <1>1
  <2> HIDE DEF n, t, r0, r1, k, false, u
  <2> QED
    BY <2>1, Total
<1>7. r1 * n + r0 + high * n + low + false = u * n + (t % n)
  <2>1. /\ u * n = r1 * n + high * n + k * n
        /\ r1 * n \in Int /\ high * n \in Int /\ k * n \in Int
    BY <1>1
  <2>2. k * n = IF t >= n - 1 THEN n ELSE 0
    BY <1>1
  <2>3. /\ low + r0 + false = k * n + (t % n)
        /\ low \in Int /\ r0 \in Int /\ false \in Int /\ t % n \in Int
    <3>1. t + false = k * n + (t % n)
      BY <1>1, <1>6, <2>2
    <3>2. low \in Int /\ r0 \in Int /\ false \in Int /\ t % n \in Int
      BY <1>1, <1>6
    <3> QED
      BY <3>1, <3>2
  <2> HIDE DEF u, k, t, n, false, r0, r1
  <2> QED
    BY <2>1, <2>3
<1>8. (u * n + (t % n)) % (n * n) = (u % n) * n + (t % n)
  BY <1>1, <1>5, <1>6, WideMod
<1>9. Wide(e) = (u % n) * n + (t % n)
  BY <1>4, <1>5 DEF Wide
<1>10. Wide(now) = r1 * n + r0
  BY <1>1 DEF Wide
<1> QED
  BY <1>7, <1>8, <1>9, <1>10 DEF WideCut, a, b, e

(***************************************************************************)
(* ADD, ADC, ADD add numbers of two words of any width, and are one high   *)
(* word too high just when the low words add up to all ones (KB11::ADD()   *)
(* takes that for a carry).                                                *)
(***************************************************************************)
THEOREM TwoWordSums == Spec => []SumsCarry
<1>1. TypeOK => SumsCarry
  BY SumsCarryOne DEF SumsCarry
<1> QED
  BY <1>1, ArithmeticTypeCorrect, PTL

\* What SUB does to one of the two registers.
LEMMA SUBWord ==
  ASSUME NEW c, c.R \in [Registers -> Word], NEW d \in {0, 1}, NEW s \in Word
  PROVE  LET new == SUB(s, d, c)
         IN  /\ new.R \in [Registers -> Word]
             /\ new.R[d] = (c.R[d] - s) % Values(2) /\ new.R[1 - d] = c.R[1 - d]
             /\ ("C" \in new.cc) <=> s > c.R[d]
<1> DEFINE n == Values(2)
           v == c.R[d]
           diff == Cut(2, v - s)
           codes == NZ(2, diff)
             \cup When(Sign(2, s) # Sign(2, v) /\ Sign(2, v) = Sign(2, diff), "V")
             \cup When(s > v, "C")
<1>1. /\ n \in Nat \ {0} /\ v \in 0 .. n - 1 /\ s \in 0 .. n - 1
      /\ read(2, d, c) = v
  BY WordsOf DEF Word, Value
<1>2. SUB(s, d, c) = Put(2, d, diff, c, codes)
  BY <1>1 DEF SUB
<1>3. diff \in Int /\ diff % n = (v - s) % n
  BY <1>1 DEF Cut
<1>4. ("C" \in codes) <=> s > v
  BY DEF NZ, When
<1> HIDE DEF codes, diff
<1> QED
  BY <1>2, <1>3, <1>4, PutWord

\* What SBC does to the high word.
LEMMA SBCWord ==
  ASSUME NEW c, c.R \in [Registers -> Word]
  PROVE  LET new == SBC(2, 1, c)
             k == IF "C" \in c.cc THEN 1 ELSE 0
         IN  /\ new.R \in [Registers -> Word]
             /\ new.R[1] = (c.R[1] - k) % Values(2) /\ new.R[0] = c.R[0]
<1> DEFINE n == Values(2)
           v == c.R[1]
           k == IF "C" \in c.cc THEN 1 ELSE 0
           new == SBC(2, 1, c)
<1>1. n \in Nat \ {0} /\ v \in 0 .. n - 1 /\ read(2, 1, c) = v
  BY WordsOf
<1>2. CASE "C" \in c.cc
  <2>1. PICK codes : new = Put(2, 1, Cut(2, v - 1), c, codes)
    BY <1>1, <1>2 DEF SBC
  <2>2. Cut(2, v - 1) \in Int /\ Cut(2, v - 1) % n = (v - 1) % n
    BY <1>1 DEF Cut
  <2>3. PICK w, flags : /\ w \in Int /\ new = Put(2, 1, w, c, flags)
                       /\ w % n = (v - 1) % n
    BY <2>1, <2>2
  <2> HIDE DEF new
  <2>4. /\ new.R \in [Registers -> Word] /\ new.R[1] = w % n
        /\ new.R[1 - 1] = c.R[1 - 1]
    BY <2>3, PutWord
  <2> QED
    BY <1>2, <2>3, <2>4 DEF new
<1>3. CASE "C" \notin c.cc
  <2>1. new.R = c.R
    BY <1>3 DEF SBC, Test
  <2>2. v % n = v /\ v - 0 = v
    BY <1>1
  <2> QED
    BY <1>3, <2>1, <2>2
<1> QED
  BY <1>2, <1>3

\* The difference of DifferencesBorrow.
LEMMA DifferencesOne ==
  ASSUME TypeOK, NEW low \in Word, NEW high \in Word
  PROVE  Wide(SUB(high, 1, SBC(2, 1, SUB(low, 0, now))))
           = WideCut(Wide(now) - high * Values(2) - low)
<1> DEFINE n == Values(2)
           r0 == R[0]
           r1 == R[1]
           k == IF low > r0 THEN 1 ELSE 0
           a == SUB(low, 0, now)
           b == SBC(2, 1, a)
           e == SUB(high, 1, b)
           t == (r0 - low) % n
           u == (-high) + (r1 - k)
<1>1. /\ n \in Nat \ {0} /\ r0 \in 0 .. n - 1 /\ r1 \in 0 .. n - 1
      /\ low \in 0 .. n - 1 /\ high \in 0 .. n - 1
      /\ now.R \in [Registers -> Word] /\ now.R = R
  <2>1. now.R \in [Registers -> Word] /\ now.R = R
    BY DEF TypeOK, now
  <2>2. low \in 0 .. n - 1 /\ high \in 0 .. n - 1
    BY DEF Word, Value
  <2> QED
    BY <2>1, <2>2, WordsOf
<1>2. /\ a.R \in [Registers -> Word] /\ a.R[0] = t /\ a.R[1] = r1
      /\ ("C" \in a.cc) <=> low > r0
  BY <1>1, SUBWord, 1 - 0 = 1
<1> HIDE DEF a
<1>3. /\ b.R \in [Registers -> Word] /\ b.R[0] = t /\ b.R[1] = (r1 - k) % n
  BY <1>2, SBCWord
<1> HIDE DEF b
<1>4. e.R[0] = t /\ e.R[1] = (((r1 - k) % n) - high) % n
  BY <1>3, SUBWord, 1 - 1 = 0
<1> HIDE DEF e
<1>5. u \in Int /\ e.R[1] = u % n
  <2> DEFINE x == r1 - k
             h == -high
  <2>1. x \in Int /\ h \in Int /\ x % n \in Int /\ h + x \in Int
    BY <1>1
  <2>2. (x % n) - high = h + (x % n)
    BY <1>1, <2>1
  <2>3. e.R[1] = (h + (x % n)) % n
    BY <1>4, <2>2
  <2> HIDE DEF x, h
  <2>4. e.R[1] = (h + x) % n
    BY <1>1, <2>1, <2>3, ModAdd
  <2> QED
    BY <2>1, <2>4 DEF x, h
<1>6. t \in 0 .. n - 1 /\ r0 - low = t - (k * n)
  <2>1. t = IF r0 >= low THEN r0 - low ELSE r0 - low + n
    BY <1>1, Difference
  <2>2. k * n = IF low > r0 THEN n ELSE 0
    BY <1>1
  <2> QED
    BY <1>1, <2>1, <2>2
<1>7. r1 * n + r0 - high * n - low = u * n + t
  <2>1. /\ u * n = r1 * n - high * n - k * n
        /\ r1 * n \in Int /\ high * n \in Int /\ k * n \in Int
    BY <1>1
  <2>2. r0 \in Int /\ low \in Int /\ t \in Int
    BY <1>1, <1>6
  <2> HIDE DEF u, k, t, n, r0, r1
  <2> QED
    BY <1>6, <2>1, <2>2
<1> HIDE DEF u, t
<1>8. (u * n + t) % (n * n) = (u % n) * n + t
  BY <1>1, <1>5, <1>6, WideMod
<1> QED
  BY <1>1, <1>4, <1>5, <1>7, <1>8 DEF Wide, WideCut, a, b, e

\* What NEG does to one of the two registers.
LEMMA NEGWord ==
  ASSUME NEW c, c.R \in [Registers -> Word], NEW d \in {0, 1}
  PROVE  LET new == NEG(2, d, c)
         IN  /\ new.R \in [Registers -> Word]
             /\ new.R[d] = (-c.R[d]) % Values(2) /\ new.R[1 - d] = c.R[1 - d]
             /\ ("C" \in new.cc) <=> c.R[d] # 0
<1> DEFINE n == Values(2)
           v == c.R[d]
           w == Cut(2, -v)
           codes == NZ(2, w) \cup When(w = msb(2), "V") \cup When(w # 0, "C")
<1>1. n \in Nat \ {0} /\ v \in 0 .. n - 1 /\ read(2, d, c) = v
  BY WordsOf
<1>2. NEG(2, d, c) = Put(2, d, w, c, codes)
  BY <1>1 DEF NEG
<1>3. w = IF v = 0 THEN 0 ELSE n - v
  BY <1>1, Difference, 0 - v = -v DEF Cut
<1>4. w \in Int /\ w % n = (-v) % n /\ (w # 0 <=> v # 0)
  BY <1>1, <1>3 DEF Cut
<1>5. ("C" \in codes) <=> w # 0
  BY DEF NZ, When
<1> HIDE DEF codes, w
<1> QED
  BY <1>2, <1>4, <1>5, PutWord

\* The negation of DifferencesBorrow.
LEMMA NegationOne ==
  ASSUME TypeOK
  PROVE  Wide(SBC(2, 1, NEG(2, 0, NEG(2, 1, now)))) = WideCut(-Wide(now))
<1> DEFINE n == Values(2)
           r0 == R[0]
           r1 == R[1]
           k == IF r0 # 0 THEN 1 ELSE 0
           a == NEG(2, 1, now)
           b == NEG(2, 0, a)
           e == SBC(2, 1, b)
           t == (-r0) % n
           u == (-k) + (-r1)
<1>1. /\ n \in Nat \ {0} /\ r0 \in 0 .. n - 1 /\ r1 \in 0 .. n - 1
      /\ now.R \in [Registers -> Word] /\ now.R = R
  <2>1. now.R \in [Registers -> Word] /\ now.R = R
    BY DEF TypeOK, now
  <2> QED
    BY <2>1, WordsOf
<1>2. a.R \in [Registers -> Word] /\ a.R[0] = r0 /\ a.R[1] = (-r1) % n
  BY <1>1, NEGWord, 1 - 1 = 0
<1> HIDE DEF a
<1>3. /\ b.R \in [Registers -> Word] /\ b.R[0] = t /\ b.R[1] = (-r1) % n
      /\ ("C" \in b.cc) <=> r0 # 0
  BY <1>2, NEGWord, 1 - 0 = 1
<1> HIDE DEF b
<1>4. e.R[0] = t /\ e.R[1] = (((-r1) % n) - k) % n
  BY <1>3, SBCWord
<1> HIDE DEF e
<1>5. u \in Int /\ e.R[1] = u % n
  <2> DEFINE x == -r1
             h == -k
  <2>1. x \in Int /\ h \in Int /\ x % n \in Int /\ h + x \in Int
    BY <1>1
  <2>2. (x % n) - k = h + (x % n)
    BY <1>1, <2>1
  <2>3. e.R[1] = (h + (x % n)) % n
    BY <1>4, <2>2
  <2> HIDE DEF x, h
  <2>4. e.R[1] = (h + x) % n
    BY <1>1, <2>1, <2>3, ModAdd
  <2> QED
    BY <2>1, <2>4 DEF x, h
<1>6. t \in 0 .. n - 1 /\ -r0 = t - (k * n)
  <2>1. t = IF r0 = 0 THEN 0 ELSE n - r0
    <3>1. 0 - r0 = -r0 /\ 0 \in 0 .. n - 1
      BY <1>1
    <3>2. (0 - r0) % n = IF 0 >= r0 THEN 0 - r0 ELSE 0 - r0 + n
      BY <1>1, <3>1, Difference
    <3> QED
      BY <1>1, <3>1, <3>2
  <2>2. k * n = IF r0 # 0 THEN n ELSE 0
    BY <1>1
  <2> QED
    BY <1>1, <2>1, <2>2
<1>7. -(r1 * n + r0) = u * n + t
  <2>1. u * n = -(r1 * n) - k * n /\ r1 * n \in Int /\ k * n \in Int
    BY <1>1
  <2>2. r0 \in Int /\ t \in Int
    BY <1>1, <1>6
  <2>3. -r0 = t - (k * n)
    BY <1>6
  <2> HIDE DEF u, k, t, n, r0, r1
  <2> QED
    BY <2>1, <2>2, <2>3
<1> HIDE DEF u, t
<1>8. (u * n + t) % (n * n) = (u % n) * n + t
  BY <1>1, <1>5, <1>6, WideMod
<1> QED
  BY <1>1, <1>4, <1>5, <1>7, <1>8 DEF Wide, WideCut, a, b, e

(***************************************************************************)
(* SUB, SBC, SUB subtract, and NEG, NEG, SBC negate, numbers of two words  *)
(* of any width (KB11::SUB(), SBC(), NEG()).                               *)
(***************************************************************************)
THEOREM TwoWordDifferences == Spec => []DifferencesBorrow
<1>1. TypeOK => DifferencesBorrow
  BY DifferencesOne, NegationOne DEF DifferencesBorrow
<1> QED
  BY <1>1, ArithmeticTypeCorrect, PTL

-----------------------------------------------------------------------------
(* Products and quotients. *)

\* A signed number that fits comes back from its value.
LEMMA SignedOfCut ==
  ASSUME NEW q \in -msb(2) .. msb(2) - 1
  PROVE  Signed(2, Cut(2, q)) = q
<1> DEFINE h == msb(2)
<1>1. h \in Nat \ {0} /\ Values(2) = 2 * h /\ 2 * h \in Nat \ {0} /\ q \in -h .. h - 1
  BY Widths DEF Lengths
<1> HIDE DEF h
<1>2. CASE q >= 0
  <2>1. q % (2 * h) = q
    BY <1>1, <1>2, ModUnique, q = 0 * (2 * h) + q, q \in 0 .. 2 * h - 1
  <2> QED
    BY <1>1, <1>2, <2>1 DEF Signed, Cut, h
<1>3. CASE q < 0
  <2> DEFINE r == q + 2 * h
  <2>1. q = (-1) * (2 * h) + r /\ r \in 0 .. 2 * h - 1 /\ r >= h /\ q = r - 2 * h
    BY <1>1, <1>3
  <2> HIDE DEF r
  <2>2. q % (2 * h) = r
    BY <1>1, <2>1, ModUnique, -1 \in Int
  <2> QED
    BY <1>1, <2>1, <2>2 DEF Signed, Cut, h
<1> QED
  BY <1>1, <1>2, <1>3

\* What a division leaves that sets neither C nor V.
LEMMA DIVStores ==
  ASSUME NEW c, Fits(Registers, c), NEW s \in Word \ {0},
         NEW q \in Int, q = Quotient(Pair(0, c), s), q < Values(2)
  PROVE  LET new == DIV(s, 0, c)
         IN  new.R[0] = Cut(2, q) /\ new.R[1] = Cut(2, Pair(0, c) - q * s)
<1>1. 0 \in Registers /\ 1 \in Registers /\ Beside(0) = 1
  BY ALUAssumption DEF Beside
<1> DEFINE r == Pair(0, c) - q * s
           new == PutPair(0, q, r, c, {})
<1>2. Values(2) \in Int
  BY Widths DEF Lengths
<1>3. DIV(s, 0, c) = [new EXCEPT !.cc = NZ(2, new.R[0]) \cup When(Pair(0, c) = 0, "V")]
  BY <1>2 DEF DIV
<1> HIDE DEF r
<1>4. new.R[0] = Cut(2, q) /\ new.R[1] = Cut(2, r)
  BY <1>1 DEF PutPair, Fits
<1>5. DIV(s, 0, c).R = new.R
  BY <1>3 DEF PutPair
<1> QED
  BY <1>4, <1>5 DEF r

\* DIV undoes MUL.
LEMMA ProductOne ==
  ASSUME TypeOK, NEW s \in Word \ {0}, s < WordMSB
  PROVE  LET c == DIV(s, 0, MUL(s, 0, now)) IN c.R[0] = R[0] /\ c.R[1] = 0
<1> DEFINE n == Values(2)
           h == msb(2)
           x == Signed(2, R[0])
           p == x * s
           q == p \div n
           r == p % n
           m == MUL(s, 0, now)
<1>1. /\ h \in Nat \ {0} /\ n = 2 * h /\ n \in Nat \ {0} /\ h = WordMSB
      /\ s \in 1 .. h - 1 /\ Word = Value(2) /\ 2 \in Lengths
  BY Widths DEF Lengths, Word, Value, msb
<1>2. Fits(Registers, now) /\ now.R = R /\ R[0] \in Word
      /\ 0 \in Registers /\ 1 \in Registers /\ Beside(0) = 1
  BY NowFits, ALUAssumption DEF now, TypeOK, Beside
<1>3. x \in -h .. h - 1 /\ x \in Int /\ Cut(2, x) = R[0]
  BY <1>1, <1>2, SignedFits
<1> HIDE DEF h, n, x
<1>4. p \in Int /\ -(h * h) <= p /\ p <= h * h /\ h * h \in Nat /\ h * n = 2 * (h * h)
  <2>1. CASE x >= 0
    <3>1. 0 <= x * s /\ x * s <= h * s /\ h * s <= h * h /\ x * s \in Int /\ h * s \in Int
      BY <1>1, <1>3, <2>1
    <3> QED
      BY <1>1, <3>1
  <2>2. CASE x < 0
    <3> DEFINE y == -x
    <3>1. y \in 1 .. h
      BY <1>1, <1>3, <2>2
    <3> HIDE DEF y
    <3>2. 0 <= y * s /\ y * s <= h * s /\ h * s <= h * h /\ y * s \in Int /\ h * s \in Int
      BY <1>1, <3>1
    <3>3. x * s = -(y * s)
      BY <1>1, <1>3 DEF y
    <3> QED
      BY <1>1, <3>2, <3>3
  <2> QED
    BY <1>3, <2>1, <2>2
<1>5. q \in Int /\ r \in 0 .. n - 1 /\ p = q * n + r
  <2> HIDE DEF p
  <2> QED
    BY <1>1, <1>4, DivMod
<1>6. q \in -h .. h - 1
  <2> HIDE DEF p, q, r
  <2>1. CASE q < -h
    <3>1. q * n <= (-h - 1) * n /\ (-h - 1) * n = -(h * n) - n /\ q * n \in Int /\ h * n \in Int
      BY <1>1, <1>5, <2>1
    <3> QED
      BY <1>1, <1>4, <1>5, <3>1
  <2>2. CASE q >= h
    <3>1. q * n >= h * n /\ q * n \in Int /\ h * n \in Int /\ h * h >= 1
      BY <1>1, <1>5, <2>2
    <3> QED
      BY <1>1, <1>4, <1>5, <3>1
  <2> QED
    BY <1>1, <1>5, <2>1, <2>2
<1>7. Fits(Registers, m) /\ m.R[0] = Cut(2, q) /\ m.R[1] = r
  <2>1. Signed(2, s) = s
    BY <1>1 DEF Signed, h
  <2>2. PICK codes : m = PutPair(0, q, p, now, codes)
    BY <1>2, <2>1 DEF MUL, x, n
  <2>3. Fits(Registers, m)
    BY <1>2, WordFits
  <2> HIDE DEF m, q, p
  <2>4. m.R[0] = Cut(2, q) /\ m.R[1] = Cut(2, p)
    BY <1>2, <2>2 DEF PutPair, Fits
  <2> QED
    BY <2>3, <2>4 DEF Cut, n
<1> HIDE DEF m, q, r
<1>8. Pair(0, m) = p
  <2>1. Signed(2, m.R[0]) = q
    BY <1>6, <1>7, SignedOfCut DEF h
  <2> HIDE DEF p
  <2> QED
    BY <1>2, <1>5, <1>7, <2>1 DEF Pair, n
<1>9. Quotient(p, s) = x
  <2>1. CASE p >= 0
    <3>1. p \div s = x
      <4>1. p = x * s + 0 /\ s \in Nat \ {0} /\ 0 \in 0 .. s - 1
        BY <1>1, <1>4
      <4> HIDE DEF p
      <4> QED
        BY <1>3, <4>1, DivUnique
    <3> QED
      BY <2>1, <3>1 DEF Quotient
  <2>2. CASE p < 0
    <3> DEFINE y == -x
               o == -p
    <3>1. o = y * s + 0 /\ s \in Nat \ {0} /\ 0 \in 0 .. s - 1 /\ y \in Int /\ -y = x
      BY <1>1, <1>3, <1>4
    <3> HIDE DEF y, o
    <3>2. o \div s = y
      BY <3>1, DivUnique
    <3>3. Quotient(p, s) = -(o \div s)
      BY <1>4, <2>2 DEF Quotient, o
    <3> QED
      BY <3>1, <3>2, <3>3
  <2> QED
    BY <1>4, <2>1, <2>2
<1>10. x < n /\ p - x * s = 0
  BY <1>1, <1>3, <1>4
<1> HIDE DEF p
<1>11. /\ DIV(s, 0, m).R[0] = Cut(2, x) /\ DIV(s, 0, m).R[1] = Cut(2, 0)
  BY <1>3, <1>7, <1>8, <1>9, <1>10, DIVStores DEF n
<1>12. Cut(2, 0) = 0
  BY <1>1, CutFits, ByteInWord
<1> QED
  BY <1>3, <1>11, <1>12 DEF m

\* The quotient and the remainder of a dividend that is not negative.
LEMMA QuotientOne ==
  ASSUME TypeOK, NEW s \in Word \ {0}
  PROVE  LET p == Pair(0, now)
             c == DIV(s, 0, now)
         IN  p >= 0 /\ "V" \notin c.cc => c.R[0] * s + c.R[1] = p /\ c.R[1] < s
<1> DEFINE n == Values(2)
           p == Pair(0, now)
           q == p \div s
           r == p % s
           c == DIV(s, 0, now)
<1>1. n \in Nat \ {0} /\ s \in 1 .. n - 1 /\ Word = Value(2) /\ Value(2) = 0 .. n - 1
  BY Widths DEF Lengths, Word, Value
<1>2. Fits(Registers, now) /\ now.R[0] \in Word /\ now.R[1] \in Word /\ Beside(0) = 1
  BY NowFits, ALUAssumption DEF now, TypeOK, Beside
<1>3. p \in Int
  <2>1. Signed(2, now.R[0]) \in Int /\ now.R[1] \in Int
    BY <1>1, <1>2, SignedFits DEF Lengths
  <2> QED
    BY <1>1, <1>2, <2>1 DEF Pair
<1> HIDE DEF p, n
<1>4. SUFFICES ASSUME p >= 0, "V" \notin c.cc
               PROVE  c.R[0] * s + c.R[1] = p /\ c.R[1] < s
  BY DEF p
<1>5. q \in Int /\ r \in 0 .. s - 1 /\ p = q * s + r
  <2>1. s \in Nat \ {0}
    BY <1>1
  <2> QED
    BY <1>3, <2>1, DivMod
<1>6. Quotient(p, s) = q
  BY <1>4 DEF Quotient
<1>7. q < n
  <2>1. CASE q >= n
    <3>1. c = Test(now, {"V"})
      BY <1>1, <1>6, <2>1 DEF DIV, p, n
    <3> QED
      BY <1>4, <3>1 DEF Test
  <2> QED
    BY <1>1, <1>5, <2>1
<1> HIDE DEF q, r
<1>8. q >= 0
  <2>1. CASE q <= -1
    <3>1. q * s <= (-1) * s /\ q * s \in Int
      BY <1>1, <1>5, <2>1
    <3> QED
      BY <1>1, <1>4, <1>5, <3>1
  <2> QED
    BY <1>5, <2>1
<1>9. p - q * s = r /\ r \in 0 .. n - 1
  <2>1. q * s \in Int
    BY <1>1, <1>5
  <2> QED
    BY <1>1, <1>5, <2>1
<1>10. c.R[0] = Cut(2, q) /\ c.R[1] = Cut(2, p - q * s)
  BY <1>2, <1>5, <1>6, <1>7, DIVStores DEF p, n
<1> HIDE DEF c
<1>11. c.R[0] = q /\ c.R[1] = r
  <2>1. Cut(2, q) = q /\ Cut(2, r) = r
    BY <1>1, <1>5, <1>7, <1>8, <1>9, CutFits DEF Lengths
  <2> QED
    BY <1>9, <1>10, <2>1
<1> QED
  BY <1>1, <1>5, <1>11

\* The quotient and the remainder of a negative dividend.
LEMMA NegativeOne ==
  ASSUME TypeOK, NEW s \in Word \ {0}, s < WordMSB,
         Pair(0, now) < 0, -Pair(0, now) < (WordMSB + 1) * s
  PROVE  LET c == DIV(s, 0, now)
             quot == Signed(2, c.R[0])
             rest == Signed(2, c.R[1])
         IN  quot * s + rest = Pair(0, now) /\ rest \in -(s - 1) .. 0
<1> DEFINE n == Values(2)
           h == msb(2)
           p == Pair(0, now)
           o == -p
           y == o \div s
           t == o % s
           c == DIV(s, 0, now)
<1>1. /\ h \in Nat \ {0} /\ n = 2 * h /\ h = WordMSB /\ s \in 1 .. h - 1
      /\ Word = Value(2) /\ Value(2) = 0 .. n - 1
  BY Widths DEF Lengths, Word, Value, msb
<1>2. Fits(Registers, now) /\ now.R[0] \in Word /\ now.R[1] \in Word /\ Beside(0) = 1
  BY NowFits, ALUAssumption DEF now, TypeOK, Beside
<1>3. p \in Int
  <2>1. Signed(2, now.R[0]) \in Int /\ now.R[1] \in Int
    BY <1>1, <1>2, SignedFits DEF Lengths
  <2> QED
    BY <1>1, <1>2, <2>1 DEF Pair
<1>4. p < 0 /\ o < (h + 1) * s
  BY <1>1
<1> HIDE DEF h, n, p
<1>5. o \in Int /\ o > 0 /\ p = -o
  BY <1>3, <1>4
<1>6. Quotient(p, s) = -y
  BY <1>3, <1>4 DEF Quotient
<1> HIDE DEF o
<1>7. y \in Int /\ t \in 0 .. s - 1 /\ o = y * s + t
  <2>1. s \in Nat \ {0}
    BY <1>1
  <2> QED
    BY <1>5, <2>1, DivMod
<1> HIDE DEF y, t
<1>8. y \in 0 .. h
  <2>1. CASE y <= -1
    <3>1. y * s <= (-1) * s /\ y * s \in Int
      BY <1>1, <1>7, <2>1
    <3> QED
      BY <1>1, <1>5, <1>7, <3>1
  <2>2. CASE y >= h + 1
    <3>1. y * s >= (h + 1) * s /\ y * s \in Int /\ (h + 1) * s \in Int
      BY <1>1, <1>7, <2>2
    <3> QED
      BY <1>1, <1>4, <1>5, <1>7, <3>1
  <2> QED
    BY <1>1, <1>7, <2>1, <2>2
<1> DEFINE q == -y
           r == -t
<1>9. /\ q \in Int /\ q < n /\ q \in -h .. h - 1
      /\ r \in -(s - 1) .. 0 /\ r \in -h .. h - 1
  BY <1>1, <1>7, <1>8
<1>10. q * s + r = p /\ p - q * s = r
  <2>1. y * s \in Int /\ (-y) * s = -(y * s)
    BY <1>1, <1>7
  <2> QED
    BY <1>5, <1>7, <2>1
<1> HIDE DEF c, q, r
<1>11. c.R[0] = Cut(2, q) /\ c.R[1] = Cut(2, r)
  BY <1>2, <1>6, <1>9, <1>10, DIVStores DEF p, n, q, c
<1>12. Signed(2, c.R[0]) = q /\ Signed(2, c.R[1]) = r
  BY <1>9, <1>11, SignedOfCut DEF h
<1> QED
  BY <1>9, <1>10, <1>12 DEF c, p

(***************************************************************************)
(* For words of every width DIV undoes MUL by a positive number; a         *)
(* dividend that is not negative it divides by the divisor without its     *)
(* sign, unless it sets V, and a negative one by a positive divisor, if    *)
(* the quotient fits (KB11::MUL(), KB11::DIV()).                           *)
(***************************************************************************)
THEOREM DivisionUndoesProduct == Spec => []ProductsDivide
<1>1. TypeOK => ProductsDivide
  BY ProductOne, QuotientOne, NegativeOne DEF ProductsDivide
<1> QED
  BY <1>1, ArithmeticTypeCorrect, PTL

-----------------------------------------------------------------------------
(* The codes of the handbook. *)

LEMMA SameNZ ==
  ASSUME NEW l \in Lengths, NEW a \in Int, NEW b \in Int, NEW q \in Int,
         a = q * Values(l) + b
  PROVE  NZ(l, a) = NZ(l, b)
<1>1. Values(l) \in Nat \ {0}
  BY Widths
<1>2. a % Values(l) = b % Values(l)
  BY <1>1, ModMultiple
<1> QED
  BY <1>2 DEF NZ, Sign, Cut

\* The value of a register, and the signed number.
LEMMA SignedValue ==
  ASSUME NEW D, NEW c, Fits(D, c), NEW l \in Lengths, NEW d \in D
  PROVE  LET v == read(l, d, c)
             h == msb(l)
         IN  /\ h \in Nat \ {0} /\ Values(l) = 2 * h /\ v \in 0 .. 2 * h - 1 /\ v \in Int
             /\ Signed(l, v) = IF v >= h THEN v - 2 * h ELSE v
             /\ \A w \in 0 .. 2 * h - 1 : Cut(l, w) = w /\ (Sign(l, w) <=> w >= h)
<1> DEFINE v == read(l, d, c)
           h == msb(l)
<1>1. h \in Nat \ {0} /\ Values(l) = 2 * h /\ v \in 0 .. 2 * h - 1 /\ v \in Int
  BY Widths, ReadFits DEF Value
<1>2. \A w \in 0 .. 2 * h - 1 : Cut(l, w) = w
  BY <1>1, ValueStores DEF Value
<1> HIDE DEF v
<1> QED
  BY <1>1, <1>2 DEF Signed, Sign, v

LEMMA CompareExact ==
  ASSUME NEW D, NEW c, Fits(D, c), NEW l \in Lengths, NEW d \in D, NEW s \in Value(l)
  PROVE  LET v == read(l, d, c)
         IN  CMP(l, s, d, c).cc = Exact(l, Signed(l, s) - Signed(l, v), s < v)
<1> DEFINE h == msb(l)
           v == read(l, d, c)
           diff == IF s >= v THEN s - v ELSE s - v + 2 * h
           x == Signed(l, s)
           y == Signed(l, v)
           V == (s >= h) # (v >= h) /\ (v >= h) = (diff >= h)
<1>1. /\ h \in Nat \ {0} /\ Values(l) = 2 * h /\ v \in 0 .. 2 * h - 1
      /\ s \in 0 .. 2 * h - 1 /\ y = IF v >= h THEN v - 2 * h ELSE v
      /\ \A w \in 0 .. 2 * h - 1 : Cut(l, w) = w /\ (Sign(l, w) <=> w >= h)
  BY SignedValue DEF Value
<1> HIDE DEF v, h
<1>2. x = IF s >= h THEN s - 2 * h ELSE s
  BY <1>1 DEF Signed, h
<1>3. Cut(l, s - v) = diff /\ diff \in 0 .. 2 * h - 1
  <2>1. 2 * h \in Nat \ {0}
    BY <1>1
  <2>2. (s - v) % (2 * h) = diff
    BY <1>1, <2>1, Difference
  <2> QED
    BY <1>1, <2>2 DEF Cut
<1>4. CMP(l, s, d, c).cc = NZ(l, diff) \cup When(V, "V") \cup When(s < v, "C")
  <2>1. CMP(l, s, d, c).cc =
          NZ(l, diff)
          \cup When(Sign(l, s) # Sign(l, v) /\ Sign(l, v) = Sign(l, diff), "V")
          \cup When(s < v, "C")
    BY <1>3 DEF CMP, Test, v
  <2>2. Sign(l, s) # Sign(l, v) /\ Sign(l, v) = Sign(l, diff) <=> V
    <3>1. /\ Sign(l, s) <=> s >= h
          /\ Sign(l, v) <=> v >= h
          /\ Sign(l, diff) <=> diff >= h
      BY <1>1, <1>3
    <3> QED
      BY <3>1 DEF Sign
  <2>3. When(Sign(l, s) # Sign(l, v) /\ Sign(l, v) = Sign(l, diff), "V") = When(V, "V")
    BY <2>2 DEF When
  <2> HIDE DEF V
  <2> QED
    BY <2>1, <2>3
<1> HIDE DEF x, y
<1>5. /\ diff \in Int /\ x - y \in Int
      /\ V <=> x - y \notin -h .. h - 1
  BY <1>1, <1>2, <1>3
<1>6. \E q \in {-1, 0, 1} : diff = q * Values(l) + (x - y)
  <2>1. diff = x - y \/ diff = (x - y) + 2 * h \/ diff = (x - y) - 2 * h
    BY <1>1, <1>2
  <2> QED
    BY <1>1, <1>5, <2>1
<1>7. PICK q \in Int : diff = q * Values(l) + (x - y)
  BY <1>6
<1> HIDE DEF diff, V
<1>8. NZ(l, diff) \cup When(V, "V") \cup When(s < v, "C") = Exact(l, x - y, s < v)
  <2>1. NZ(l, diff) = NZ(l, x - y)
    BY <1>5, <1>7, SameNZ
  <2>2. When(V, "V") = When(x - y \notin -h .. h - 1, "V")
    BY <1>5 DEF When
  <2> QED
    BY <2>1, <2>2 DEF Exact, h
<1> QED
  BY <1>4, <1>8 DEF x, y, v

LEMMA TestAndNegateExact ==
  ASSUME NEW D, NEW c, Fits(D, c), NEW l \in Lengths, NEW d \in D
  PROVE  LET v == read(l, d, c)
             x == Signed(l, v)
         IN  /\ TST(l, d, c).cc = Exact(l, x, FALSE)
             /\ NEG(l, d, c).cc = Exact(l, -x, v # 0)
<1> DEFINE h == msb(l)
           v == read(l, d, c)
           x == Signed(l, v)
           w == Cut(l, -v)
<1>1. /\ h \in Nat \ {0} /\ Values(l) = 2 * h /\ v \in 0 .. 2 * h - 1
      /\ x = IF v >= h THEN v - 2 * h ELSE v
  BY SignedValue
<1>2. x \in -h .. h - 1 /\ x \in Int /\ v \in Int /\ -x \in Int
  BY <1>1
<1> HIDE DEF v, h, x
<1>3. TST(l, d, c).cc = Exact(l, x, FALSE)
  <2>1. \E q \in {0, 1} : v = q * Values(l) + x
    BY <1>1
  <2>2. PICK q \in Int : v = q * Values(l) + x
    BY <2>1
  <2>3. NZ(l, v) = NZ(l, x)
    BY <1>2, <2>2, SameNZ
  <2>4. When(x \notin -h .. h - 1, "V") = {} /\ When(FALSE, "C") = {}
    BY <1>2 DEF When
  <2> QED
    BY <2>3, <2>4 DEF TST, Test, Exact, v, h
<1>4. w = IF v = 0 THEN 0 ELSE 2 * h - v
  <2>1. 2 * h \in Nat \ {0} /\ 0 \in 0 .. 2 * h - 1 /\ 0 - v = -v
    BY <1>1
  <2>2. (0 - v) % (2 * h) = IF 0 >= v THEN 0 - v ELSE 0 - v + 2 * h
    BY <1>1, <2>1, Difference
  <2> QED
    BY <1>1, <2>1, <2>2 DEF Cut
<1>5. NEG(l, d, c).cc = Exact(l, -x, v # 0)
  <2>1. NEG(l, d, c).cc = NZ(l, w) \cup When(w = h, "V") \cup When(w # 0, "C")
    BY DEF NEG, Put, v, h
  <2> HIDE DEF w
  <2>2. \E q \in {0, 1} : w = q * Values(l) + (-x)
    BY <1>1, <1>4
  <2>3. PICK q \in Int : w = q * Values(l) + (-x)
    BY <2>2
  <2>4. w \in Int /\ (w = h <=> -x \notin -h .. h - 1) /\ (w # 0 <=> v # 0)
    BY <1>1, <1>4
  <2>5. NZ(l, w) = NZ(l, -x)
    BY <1>2, <2>3, <2>4, SameNZ
  <2>6. When(w = h, "V") = When(-x \notin -h .. h - 1, "V")
    BY <2>4 DEF When
  <2>7. When(w # 0, "C") = When(v # 0, "C")
    BY <2>4 DEF When
  <2> QED
    BY <2>1, <2>5, <2>6, <2>7 DEF Exact, h
<1> QED
  BY <1>3, <1>5 DEF v, x

LEMMA ShiftedLeftExact ==
  ASSUME NEW D, NEW c, Fits(D, c), NEW l \in Lengths, NEW d \in D, NEW in \in {0, 1}
  PROVE  LET v == read(l, d, c)
             new == ShiftedLeft(l, d, in, c)
         IN  /\ new.cc = Exact(l, 2 * Signed(l, v) + in, v >= msb(l))
             /\ read(l, d, new) = Cut(l, 2 * v + in)
<1> DEFINE h == msb(l)
           v == read(l, d, c)
           x == Signed(l, v)
           w == 2 * v + in
           new == ShiftedLeft(l, d, in, c)
<1>1. /\ h \in Nat \ {0} /\ Values(l) = 2 * h /\ v \in 0 .. 2 * h - 1
      /\ x = IF v >= h THEN v - 2 * h ELSE v
      /\ \A u \in 0 .. 2 * h - 1 : Cut(l, u) = u /\ (Sign(l, u) <=> u >= h)
  BY SignedValue
<1> HIDE DEF v, h, x
<1>2. /\ w \in Int /\ 2 * x + in \in Int
      /\ w - 2 * h \in Int
  BY <1>1
<1>3. Cut(l, w) = IF v >= h THEN w - 2 * h ELSE w
  <2>1. /\ 2 * h \in Nat \ {0} /\ w = 1 * (2 * h) + (w - 2 * h)
    BY <1>1, <1>2
  <2>2. CASE v >= h
    <3>1. w - 2 * h \in 0 .. 2 * h - 1
      BY <1>1, <2>2
    <3> HIDE DEF w
    <3>2. w % (2 * h) = w - 2 * h
      BY <1>2, <2>1, <3>1, ModUnique, 1 \in Int
    <3> QED
      BY <1>1, <2>2, <3>2 DEF Cut
  <2>3. CASE v < h
    <3>1. w \in 0 .. 2 * h - 1 /\ ~(v >= h)
      BY <1>1, <2>3
    <3> HIDE DEF w
    <3> QED
      BY <1>1, <3>1
  <2> QED
    BY <1>1, <2>2, <2>3
<1>4. /\ Sign(l, w) <=> Cut(l, w) >= h
      /\ Sign(l, v) <=> v >= h
  BY <1>1 DEF Sign, h
<1>5. new.cc = NZ(l, w) \cup When(Sign(l, w) # Sign(l, v), "V") \cup When(Sign(l, v), "C")
  <2>1. new.cc = NZ(l, w) \cup When(Sign(l, v), "C") \cup When(Sign(l, w) # Sign(l, v), "V")
    BY DEF ShiftedLeft, Put, v
  <2> QED
    BY <2>1
<1>6. (Sign(l, w) # Sign(l, v)) <=> 2 * x + in \notin -h .. h - 1
  <2>1. Sign(l, w) \in BOOLEAN /\ Sign(l, v) \in BOOLEAN
    BY DEF Sign
  <2>2. (Sign(l, w) # Sign(l, v)) <=> ~((Cut(l, w) >= h) <=> (v >= h))
    BY <1>4, <2>1
  <2>3. ~((Cut(l, w) >= h) <=> (v >= h)) <=> 2 * x + in \notin -h .. h - 1
    BY <1>1, <1>3
  <2> QED
    BY <2>2, <2>3
<1>7. \E q \in {0, 2} : w = q * Values(l) + (2 * x + in)
  BY <1>1
<1>8. PICK q \in Int : w = q * Values(l) + (2 * x + in)
  BY <1>7
<1> DEFINE e == 2 * x + in
<1>9. new.cc = Exact(l, e, v >= h)
  <2>1. NZ(l, w) = NZ(l, e)
    <3> HIDE DEF w
    <3> QED
      BY <1>2, <1>8, SameNZ
  <2>2. When(Sign(l, w) # Sign(l, v), "V") = When(e \notin -h .. h - 1, "V")
    BY <1>6 DEF When
  <2>3. When(Sign(l, v), "C") = When(v >= h, "C")
    BY <1>4 DEF When
  <2> HIDE DEF e, w, new
  <2> QED
    BY <1>5, <2>1, <2>2, <2>3 DEF Exact, h
<1>10. read(l, d, new) = Cut(l, w)
  <2>1. Cut(l, w) \in Value(l) /\ c.R[d] \in Word
    BY <1>2, CutFits, ReadFits
  <2>2. new.R[d] = Written(l, c.R[d], Cut(l, w))
    BY DEF ShiftedLeft, Put, Fits, v
  <2> HIDE DEF new, w
  <2> QED
    BY <2>1, <2>2, WrittenValue DEF read
<1> QED
  BY <1>9, <1>10 DEF v, h, x

\* ADC and INC of a word.
LEMMA IncrementExact ==
  ASSUME NEW D, NEW c, Fits(D, c), NEW d \in D
  PROVE  LET v == read(2, d, c)
             x == Signed(2, v)
             k == Carry(c)
             new == ADC(2, d, c)
         IN  /\ new.cc = Exact(2, x + k, v + k = Values(2))
             /\ new.R[d] = Cut(2, v + k)
             /\ INC(2, d, c).cc = Exact(2, x + 1, "C" \in c.cc)
<1> DEFINE h == msb(2)
           v == read(2, d, c)
           x == Signed(2, v)
           k == Carry(c)
           new == ADC(2, d, c)
<1>1. /\ h \in Nat \ {0} /\ Values(2) = 2 * h /\ v \in 0 .. 2 * h - 1
      /\ x = IF v >= h THEN v - 2 * h ELSE v
      /\ \A u \in 0 .. 2 * h - 1 : Cut(2, u) = u /\ (Sign(2, u) <=> u >= h)
      /\ h = WordMSB /\ c.R[d] = v /\ 2 \in Lengths
  BY SignedValue, ReadFits DEF Lengths, msb
<1> HIDE DEF v, h, x
<1>2. x \in -h .. h - 1 /\ x \in Int /\ v \in Int
  BY <1>1
<1>3. \E q \in {0, 1} : v = q * Values(2) + x
  BY <1>1
<1>4. PICK q \in Int : v = q * Values(2) + x
  BY <1>3
<1>5. NZ(2, v) = NZ(2, x) /\ NZ(2, v + 1) = NZ(2, x + 1)
  <2>1. v + 1 = q * Values(2) + (x + 1) /\ v + 1 \in Int /\ x + 1 \in Int
    BY <1>1, <1>2, <1>4
  <2> QED
    BY <1>1, <1>2, <1>4, <2>1, SameNZ
<1>6. v = h - 1 <=> x + 1 \notin -h .. h - 1
  BY <1>1
<1>7. ASSUME "C" \in c.cc
      PROVE  new.cc = Exact(2, x + k, v + k = Values(2)) /\ new.R[d] = Cut(2, v + k)
  <2>1. k = 1
    BY <1>7 DEF Carry
  <2>2. new = Put(2, d, Cut(2, v + 1), c,
                NZ(2, v + 1) \cup When(v = WordMSB - 1, "V") \cup When(v = Values(2) - 1, "C"))
    BY <1>7 DEF ADC, v
  <2>3. new.R[d] = Cut(2, v + 1)
    <3>1. Cut(2, Cut(2, v + 1)) = Cut(2, v + 1)
      BY <1>1, <1>2, CutFits
    <3> QED
      BY <2>2, <3>1 DEF Put, Written, Fits
  <2>4. When(v = WordMSB - 1, "V") = When(x + 1 \notin -h .. h - 1, "V")
    BY <1>1, <1>6 DEF When
  <2>5. When(v = Values(2) - 1, "C") = When(v + 1 = Values(2), "C")
    BY <1>1 DEF When
  <2>6. new.cc = Exact(2, x + 1, v + 1 = Values(2))
    BY <1>5, <2>2, <2>4, <2>5 DEF Put, Exact, h
  <2> HIDE DEF k, new
  <2> QED
    BY <2>1, <2>3, <2>6
<1>8. ASSUME "C" \notin c.cc
      PROVE  new.cc = Exact(2, x + k, v + k = Values(2)) /\ new.R[d] = Cut(2, v + k)
  <2>1. k = 0 /\ x + k = x /\ v + k = v
    BY <1>2, <1>8 DEF Carry
  <2>2. new = Test(c, NZ(2, v))
    BY <1>8 DEF ADC, v
  <2>3. new.R[d] = Cut(2, v)
    BY <1>1, <2>2 DEF Test
  <2>4. When(x \notin -h .. h - 1, "V") = {} /\ When(v = Values(2), "C") = {}
    BY <1>1, <1>2 DEF When
  <2>5. new.cc = Exact(2, x, v = Values(2))
    BY <1>5, <2>2, <2>4 DEF Test, Exact, h
  <2> HIDE DEF k, new
  <2> QED
    BY <2>1, <2>3, <2>5
<1>9. INC(2, d, c).cc = Exact(2, x + 1, "C" \in c.cc)
  <2> DEFINE w == Cut(2, v + 1)
  <2>1. INC(2, d, c).cc = NZ(2, w) \cup (c.cc \cap {"C"}) \cup When(w = h, "V")
    BY DEF INC, Put, NZVKeepC, NZKeepC, v, h
  <2>2. w = IF v = 2 * h - 1 THEN 0 ELSE v + 1
    <3>1. 2 * h \in Nat \ {0} /\ 2 * h = 1 * (2 * h) + 0 /\ 0 \in 0 .. 2 * h - 1
      BY <1>1
    <3>2. (2 * h) % (2 * h) = 0
      BY <3>1, ModUnique, 1 \in Int
    <3>3. CASE v = 2 * h - 1
      <4>1. v + 1 = 2 * h
        BY <1>1, <3>3
      <4> QED
        BY <1>1, <3>2, <3>3, <4>1 DEF Cut
    <3>4. CASE v # 2 * h - 1
      <4>1. v + 1 \in 0 .. 2 * h - 1
        BY <1>1, <3>4
      <4> QED
        BY <1>1, <3>4, <4>1
    <3> QED
      BY <3>3, <3>4
  <2>3. w = h <=> x + 1 \notin -h .. h - 1
    BY <1>1, <2>2
  <2>4. NZ(2, w) = NZ(2, v + 1)
    <3>1. Cut(2, w) = w
      BY <1>1, <1>2, CutFits
    <3> QED
      BY <3>1 DEF NZ, Sign
  <2> HIDE DEF w
  <2>5. When(w = h, "V") = When(x + 1 \notin -h .. h - 1, "V")
    BY <2>3 DEF When
  <2>6. c.cc \cap {"C"} = When("C" \in c.cc, "C")
    BY DEF When
  <2>7. Exact(2, x + 1, "C" \in c.cc)
          = NZ(2, x + 1) \cup When(x + 1 \notin -h .. h - 1, "V") \cup When("C" \in c.cc, "C")
    BY DEF Exact, h
  <2>8. INC(2, d, c).cc = NZ(2, x + 1) \cup When("C" \in c.cc, "C")
                            \cup When(x + 1 \notin -h .. h - 1, "V")
    BY <1>5, <2>1, <2>4, <2>5, <2>6
  <2> QED
    BY <2>7, <2>8
<1>10. /\ new.cc = Exact(2, x + k, v + k = Values(2))
       /\ new.R[d] = Cut(2, v + k)
  BY <1>7, <1>8
<1> QED
  BY <1>9, <1>10 DEF v, x

(***************************************************************************)
(* The codes of CMP, TST, NEG, ASL and ROL, of bytes and words of every    *)
(* width, and of ADC and INC of words, are those of the exact result; ROL  *)
(* and ADC leave it, cut.                                                  *)
(***************************************************************************)
THEOREM CodesAreTheHandbooks == Spec => []AgreesWithHandbook
<1>1. TypeOK => AgreesWithHandbook
  <2> SUFFICES ASSUME TypeOK, NEW l \in Lengths, NEW d \in Registers
      PROVE  LET v == read(l, d, now)
                 x == Signed(l, v)
                 lsb == Carry(now)
                 rolled == ROL(l, d, now)
                 added == ADC(2, d, now)
             IN  /\ \A s \in Value(l) :
                      CMP(l, s, d, now).cc = Exact(l, Signed(l, s) - x, s < v)
                 /\ TST(l, d, now).cc = Exact(l, x, FALSE)
                 /\ NEG(l, d, now).cc = Exact(l, -x, v # 0)
                 /\ ASL(l, d, now).cc = Exact(l, 2 * x, v >= msb(l))
                 /\ rolled.cc = Exact(l, 2 * x + lsb, v >= msb(l))
                 /\ read(l, d, rolled) = Cut(l, 2 * v + lsb)
                 /\ l = 2 => /\ added.cc = Exact(2, x + lsb, v + lsb = Values(2))
                             /\ added.R[d] = Cut(2, v + lsb)
                             /\ INC(2, d, now).cc = Exact(2, x + 1, "C" \in cc)
    BY Zenon DEF AgreesWithHandbook
  <2> DEFINE v == read(l, d, now)
             x == Signed(l, v)
             lsb == Carry(now)
  <2>1. Fits(Registers, now) /\ now.cc = cc
    BY NowFits DEF now
  <2>2. \A s \in Value(l) : CMP(l, s, d, now).cc = Exact(l, Signed(l, s) - x, s < v)
    BY <2>1, CompareExact
  <2>3. TST(l, d, now).cc = Exact(l, x, FALSE) /\ NEG(l, d, now).cc = Exact(l, -x, v # 0)
    BY <2>1, TestAndNegateExact
  <2>4. ASL(l, d, now).cc = Exact(l, 2 * x, v >= msb(l))
    <3>1. ASL(l, d, now).cc = Exact(l, 2 * x + 0, v >= msb(l))
      BY <2>1, ShiftedLeftExact DEF ASL
    <3>2. 2 * x + 0 = 2 * x
      BY <2>1, SignedValue
    <3> QED
      BY <3>1, <3>2
  <2>5. /\ ROL(l, d, now).cc = Exact(l, 2 * x + lsb, v >= msb(l))
        /\ read(l, d, ROL(l, d, now)) = Cut(l, 2 * v + lsb)
    <3>1. lsb \in {0, 1}
      BY DEF Carry
    <3> HIDE DEF lsb
    <3>2. /\ ShiftedLeft(l, d, lsb, now).cc = Exact(l, 2 * x + lsb, v >= msb(l))
          /\ read(l, d, ShiftedLeft(l, d, lsb, now)) = Cut(l, 2 * v + lsb)
      BY <2>1, <3>1, ShiftedLeftExact
    <3> QED
      BY <3>2 DEF ROL, lsb
  <2>6. l = 2 => /\ ADC(2, d, now).cc = Exact(2, x + lsb, v + lsb = Values(2))
                 /\ ADC(2, d, now).R[d] = Cut(2, v + lsb)
                 /\ INC(2, d, now).cc = Exact(2, x + 1, "C" \in cc)
    BY <2>1, IncrementExact
  <2> QED
    BY <2>2, <2>3, <2>4, <2>5, <2>6
<1> QED
  BY <1>1, ArithmeticTypeCorrect, PTL

=============================================================================
