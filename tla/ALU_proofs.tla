----------------------------- MODULE ALU_proofs -----------------------------
(***************************************************************************)
(* Lemmas about the operators of ALU, for bytes and words of every width:  *)
(* numbers cut to a length, and words seen as sets of bits.                *)
(***************************************************************************)
EXTENDS ALU, TLAPS

LEMMA ModUnique ==
  ASSUME NEW n \in Nat \ {0}, NEW q \in Int, NEW r \in 0 .. n - 1
  PROVE  (q * n + r) % n = r
BY SMT

LEMMA DivMod ==
  ASSUME NEW n \in Nat \ {0}, NEW u \in Int
  PROVE  /\ u \div n \in Int /\ u % n \in 0 .. n - 1
         /\ u = (u \div n) * n + (u % n)
BY SMT

LEMMA Widths ==
  ASSUME NEW l \in Lengths
  PROVE  /\ msb(l) \in Nat \ {0}
         /\ Values(l) = 2 * msb(l) /\ Values(l) \in Nat \ {0}
<1>1. ByteMSB \in Nat \ {0}
  BY ALUAssumption
<1>2. WordMSB \in Nat \ {0}
  <2>1. WordMSB = 2 * ByteMSB * ByteMSB
    BY ALUAssumption
  <2> QED
    BY <1>1, <2>1
<1> QED
  BY <1>1, <1>2 DEF Values, msb, Lengths

\* The difference of two values, cut to its length.
LEMMA Difference ==
  ASSUME NEW n \in Nat \ {0}, NEW s \in 0 .. n - 1, NEW v \in 0 .. n - 1
  PROVE  (s - v) % n = IF s >= v THEN s - v ELSE s - v + n
<1>1. CASE s >= v
  <2>1. s - v \in 0 .. n - 1
    BY <1>1
  <2> QED
    BY <1>1, <2>1, ModUnique, 0 * n + (s - v) = s - v
<1>2. CASE s < v
  <2>1. s - v + n \in 0 .. n - 1
    BY <1>2
  <2> QED
    BY <1>2, <2>1, ModUnique, (-1) * n + (s - v + n) = s - v
<1> QED
  BY <1>1, <1>2

\* The sum of two values, cut to its length.
LEMMA Total ==
  ASSUME NEW n \in Nat \ {0}, NEW s \in 0 .. n - 1, NEW v \in 0 .. n - 1,
         NEW t, t = s + v
  PROVE  t % n \in 0 .. n - 1 /\ t % n = IF t >= n THEN t - n ELSE t
<1>1. CASE t >= n
  <2>1. t - n \in 0 .. n - 1 /\ 1 * n + (t - n) = t
    BY <1>1
  <2>2. t % n = t - n
    BY <2>1, ModUnique, 1 \in Int
  <2> QED
    BY <1>1, <2>1, <2>2
<1>2. CASE t < n
  <2>1. t \in 0 .. n - 1 /\ 0 * n + t = t
    BY <1>2
  <2>2. t % n = t
    BY <2>1, ModUnique, 0 \in Int
  <2>3. ~(t >= n)
    BY <1>2
  <2> QED
    BY <2>1, <2>2, <2>3
<1> QED
  BY <1>1, <1>2

\* Multiples of n do not count modulo n.
LEMMA ModMultiple ==
  ASSUME NEW n \in Nat \ {0}, NEW u \in Int, NEW w \in Int, NEW q \in Int,
         u = q * n + w
  PROVE  u % n = w % n
<1> DEFINE r == w % n
           p == w \div n
<1>1. p \in Int /\ r \in 0 .. n - 1 /\ w = p * n + r
  BY DivMod
<1> HIDE DEF p, r
<1>2. u = (q + p) * n + r
  BY <1>1
<1>3. u % n = r
  BY <1>1, <1>2, ModUnique, q + p \in Int
<1> QED
  BY <1>3 DEF r

LEMMA ModAdd ==
  ASSUME NEW n \in Nat \ {0}, NEW h \in Int, NEW x \in Int
  PROVE  (h + (x % n)) % n = (h + x) % n
<1> DEFINE p == x \div n
           m == x % n
<1>1. p \in Int /\ m \in Int /\ x = p * n + m
  BY DivMod
<1> HIDE DEF p, m
<1>2. h + x = p * n + (h + m) /\ h + x \in Int /\ h + m \in Int
  BY <1>1
<1>3. (h + x) % n = (h + m) % n
  BY <1>1, <1>2, ModMultiple
<1> QED
  BY <1>3 DEF m

\* A number whose high word is u, cut to two words.
LEMMA WideMod ==
  ASSUME NEW n \in Nat \ {0}, NEW u \in Int, NEW r \in 0 .. n - 1
  PROVE  (u * n + r) % (n * n) = ((u % n) * n) + r
<1> DEFINE h == u % n
           p == u \div n
           nn == n * n
           w == h * n + r
<1>1. p \in Int /\ h \in 0 .. n - 1 /\ u = p * n + h
  BY DivMod
<1> HIDE DEF p, h
<1>2. nn \in Nat \ {0}
  OBVIOUS
<1>3. h * n \in Nat /\ h * n <= (n - 1) * n /\ (n - 1) * n = nn - n
  BY <1>1
<1>4. w \in 0 .. nn - 1
  BY <1>2, <1>3
<1>5. u * n + r = p * nn + w
  BY <1>1
<1> HIDE DEF nn, w
<1>6. (u * n + r) % nn = w
  BY <1>1, <1>2, <1>4, <1>5, ModUnique
<1> QED
  BY <1>6 DEF nn, w, h

\* What CMP makes of the condition codes, in terms of the two values.
LEMMA CompareFlags ==
  ASSUME NEW l \in Lengths, NEW d, NEW c,
         NEW s \in Value(l), NEW v \in Value(l), v = read(l, d, c)
  PROVE  LET h == msb(l)
             diff == IF s >= v THEN s - v ELSE s - v + 2 * h
             codes == CMP(l, s, d, c).cc
         IN  /\ ("Z" \in codes) <=> (s = v)
             /\ ("N" \in codes) <=> (diff >= h)
             /\ ("V" \in codes) <=> /\ (s >= h) # (v >= h)
                                    /\ (v >= h) = (diff >= h)
             /\ ("C" \in codes) <=> (s < v)
<1> DEFINE h == msb(l)
           diff == IF s >= v THEN s - v ELSE s - v + 2 * h
<1>1. /\ h \in Nat \ {0} /\ Values(l) = 2 * h
      /\ s \in 0 .. 2 * h - 1 /\ v \in 0 .. 2 * h - 1
  BY Widths DEF Value
<1>2. diff \in 0 .. 2 * h - 1 /\ Cut(l, s - v) = diff
  <2>1. Cut(l, s - v) = (s - v) % (2 * h)
    BY <1>1 DEF Cut
  <2>2. 2 * h \in Nat \ {0}
    BY <1>1
  <2>3. (s - v) % (2 * h) = diff
    BY <1>1, <2>2, Difference
  <2>4. diff \in 0 .. 2 * h - 1
    BY <1>1
  <2> QED
    BY <2>1, <2>3, <2>4
<1>3. \A w \in 0 .. 2 * h - 1 : Cut(l, w) = w
  BY <1>1 DEF Cut
<1>4. \A w \in 0 .. 2 * h - 1 : Sign(l, w) = (w >= h)
  BY <1>3 DEF Sign
<1>5. diff = 0 <=> s = v
  BY <1>1
<1>6. CMP(l, s, d, c).cc
        = When(diff >= h, "N") \cup When(diff = 0, "Z")
          \cup When((s >= h) # (v >= h) /\ (v >= h) = (diff >= h), "V")
          \cup When(s < v, "C")
  BY <1>1, <1>2, <1>3, <1>4 DEF CMP, Test, NZ
<1> QED
  BY <1>5, <1>6 DEF When
-----------------------------------------------------------------------------
(* Words as sets of bits. *)

Below(m, S) == \A w \in S : w < m

\* What is below m, a power of 2, has no bit of weight m or more.
LEMMA BitsBelow ==
  ASSUME NEW m \in Nat, NEW v \in 0 .. m - 1
  PROVE  Below(m, Bits(v))
<1> SUFFICES ASSUME NEW w \in Bits(v), w >= m
             PROVE  FALSE
  BY DEF Below, Bits, Weights
<1>1. w \in Nat \ {0} /\ (v \div w) % 2 = 1
  BY DEF Bits, Weights
<1>2. v \div w = 0
  <2>1. v \in 0 .. w - 1
    BY <1>1
  <2>2. v \div w \in Int /\ v % w \in 0 .. w - 1 /\ v = (v \div w) * w + (v % w)
    BY <1>1, DivMod
  <2> QED
    BY <1>1, <2>1, <2>2
<1> QED
  BY <1>1, <1>2

\* Four bits, below m as all of S, added to a number that is below them and m.
LEMMA NibbleBelow ==
  ASSUME NEW w \in Nat \ {0}, NEW m \in Nat, NEW S, Below(m, S),
         m <= w \/ m = 2 * w \/ m = 4 * w \/ m = 8 * w \/ m >= 16 * w,
         NEW s \in 0 .. w - 1, s < m
  PROVE  s + Nibble(w, S) \in 0 .. 16 * w - 1 /\ s + Nibble(w, S) < m /\ Nibble(w, S) \in Int
<1>1. \A u \in Nat : Part(u, S) \in {0, u} /\ (m <= u => Part(u, S) = 0)
  BY DEF Part, Below
<1>2. /\ Part(w, S) \in {0, w} /\ (m <= w => Part(w, S) = 0)
      /\ Part(2 * w, S) \in {0, 2 * w} /\ (m <= 2 * w => Part(2 * w, S) = 0)
      /\ Part(4 * w, S) \in {0, 4 * w} /\ (m <= 4 * w => Part(4 * w, S) = 0)
      /\ Part(8 * w, S) \in {0, 8 * w} /\ (m <= 8 * w => Part(8 * w, S) = 0)
  BY <1>1
<1> QED
  BY <1>2 DEF Nibble

\* A set of bits below m makes a number below m.
LEMMA WordBelow ==
  ASSUME NEW m \in Weights \cup {65536}, NEW S, Below(m, S)
  PROVE  WordOfBits(S) \in 0 .. m - 1
<1> DEFINE s1 == Nibble(1, S)
           s2 == s1 + Nibble(16, S)
           s3 == s2 + Nibble(256, S)
<1>1. m \in Nat /\ 0 < m
  BY DEF Weights
<1>a. s1 \in 0 .. 15 /\ s1 < m
  <2> DEFINE w == 1
  <2>1. w \in Nat \ {0} /\ 0 \in 0 .. w - 1
    OBVIOUS
  <2>2. m <= w \/ m = 2 * w \/ m = 4 * w \/ m = 8 * w \/ m >= 16 * w
    BY DEF Weights
  <2> HIDE DEF w
  <2>3. /\ 0 + Nibble(w, S) \in 0 .. 16 * w - 1 /\ 0 + Nibble(w, S) < m
        /\ Nibble(w, S) \in Int
    BY <1>1, <2>1, <2>2, NibbleBelow
  <2> QED
    BY <2>3 DEF w
<1>b. s2 \in 0 .. 255 /\ s2 < m
  <2> DEFINE w == 16
  <2> HIDE DEF s1
  <2>1. w \in Nat \ {0} /\ s1 \in 0 .. w - 1
    BY <1>a
  <2>2. m <= w \/ m = 2 * w \/ m = 4 * w \/ m = 8 * w \/ m >= 16 * w
    BY DEF Weights
  <2> HIDE DEF w
  <2>3. /\ s1 + Nibble(w, S) \in 0 .. 16 * w - 1 /\ s1 + Nibble(w, S) < m
        /\ Nibble(w, S) \in Int
    BY <1>1, <1>a, <2>1, <2>2, NibbleBelow
  <2> QED
    BY <2>3 DEF w, s2
<1>c. s3 \in 0 .. 4095 /\ s3 < m
  <2> DEFINE w == 256
  <2> HIDE DEF s1, s2
  <2>1. w \in Nat \ {0} /\ s2 \in 0 .. w - 1
    BY <1>b
  <2>2. m <= w \/ m = 2 * w \/ m = 4 * w \/ m = 8 * w \/ m >= 16 * w
    BY DEF Weights
  <2> HIDE DEF w
  <2>3. /\ s2 + Nibble(w, S) \in 0 .. 16 * w - 1 /\ s2 + Nibble(w, S) < m
        /\ Nibble(w, S) \in Int
    BY <1>1, <1>b, <2>1, <2>2, NibbleBelow
  <2> QED
    BY <2>3 DEF w, s3
<1>d. s3 + Nibble(4096, S) \in 0 .. m - 1
  <2> DEFINE w == 4096
  <2> HIDE DEF s1, s2, s3
  <2>1. w \in Nat \ {0} /\ s3 \in 0 .. w - 1
    BY <1>c
  <2>2. m <= w \/ m = 2 * w \/ m = 4 * w \/ m = 8 * w \/ m >= 16 * w
    BY DEF Weights
  <2> HIDE DEF w
  <2>3. s3 + Nibble(w, S) \in 0 .. 16 * w - 1 /\ s3 + Nibble(w, S) < m
    BY <1>1, <1>c, <2>1, <2>2, NibbleBelow
  <2>4. s3 + Nibble(w, S) \in 0 .. m - 1
    BY <1>1, <2>1, <2>3
  <2> QED
    BY <2>4 DEF w
<1>2. WordOfBits(S) = s3 + Nibble(4096, S)
  BY DEF WordOfBits
<1> QED
  BY <1>2, <1>d

LEMMA ValuesFit == Values(2) <= 16 * 4096
<1>1. ByteMSB \in {2, 4, 8, 16, 32, 64, 128} /\ WordMSB = 2 * ByteMSB * ByteMSB
  BY ALUAssumption
<1>2. Values(2) = 4 * (ByteMSB * ByteMSB)
  BY <1>1 DEF Values, msb
<1>3. ByteMSB * ByteMSB \in Nat /\ ByteMSB * ByteMSB <= 16384
  BY <1>1
<1> QED
  BY <1>2, <1>3

LEMMA ValuesAreWeights ==
  ASSUME NEW l \in Lengths
  PROVE  Values(l) \in Weights \cup {65536}
<1>1. ByteMSB \in {2, 4, 8, 16, 32, 64, 128} /\ WordMSB = 2 * ByteMSB * ByteMSB
  BY ALUAssumption
<1>2. Values(1) = 2 * ByteMSB /\ Values(2) = 4 * (ByteMSB * ByteMSB)
  BY <1>1 DEF Values, msb
<1>3. 2 * ByteMSB \in Weights
  BY <1>1 DEF Weights
<1>4. ByteMSB * ByteMSB \in {4, 16, 64, 256, 1024, 4096, 16384}
  BY <1>1
<1>5. 4 * (ByteMSB * ByteMSB) \in Weights \cup {65536}
  BY <1>4 DEF Weights
<1> QED
  BY <1>2, <1>3, <1>5 DEF Lengths

-----------------------------------------------------------------------------
(* The bits of a number, and the number they make. *)

LEMMA DivUnique ==
  ASSUME NEW n \in Nat \ {0}, NEW q \in Int, NEW r \in 0 .. n - 1,
         NEW u, u = q * n + r
  PROVE  u \div n = q
BY SMT

\* Half of x \div w, twice.
LEMMA Halve ==
  ASSUME NEW w \in Nat \ {0}, NEW x \in Nat
  PROVE  x \div w = 2 * (x \div (2 * w)) + ((x \div w) % 2)
<1> DEFINE q == x \div w
           r == x % w
           p == q \div 2
           b == q % 2
<1>1. q \in Int /\ r \in 0 .. w - 1 /\ x = q * w + r
  BY DivMod
<1> HIDE DEF q, r
<1>2. p \in Int /\ b \in 0 .. 1 /\ q = p * 2 + b
  BY <1>1, DivMod
<1> HIDE DEF p, b
<1>3. x = p * (2 * w) + (b * w + r) /\ b * w + r \in 0 .. 2 * w - 1
  <2>1. q * w = 2 * (p * w) + b * w /\ p * w \in Int /\ p * (2 * w) = 2 * (p * w)
    BY <1>1, <1>2
  <2>2. b * w = 0 \/ b * w = w
    BY <1>2
  <2> QED
    BY <1>1, <2>1, <2>2
<1>4. x \div (2 * w) = p
  BY <1>2, <1>3, DivUnique, 2 * w \in Nat \ {0}
<1> QED
  BY <1>2, <1>4 DEF q, b

\* The four bits of x from w on.
LEMMA NibbleBits ==
  ASSUME NEW w \in Nat \ {0}, NEW x \in Nat,
         w \in Weights, 2 * w \in Weights, 4 * w \in Weights, 8 * w \in Weights
  PROVE  Nibble(w, Bits(x)) = w * (x \div w) - (16 * w) * (x \div (16 * w))
<1>1. \A u \in Weights : u \in Nat \ {0}
  BY DEF Weights
<1>2. ASSUME NEW u \in Nat \ {0}, u \in Weights
      PROVE  Part(u, Bits(x)) = u * (x \div u) - (2 * u) * (x \div (2 * u))
  <2> DEFINE q == x \div u
             p == x \div (2 * u)
  <2>1. q \in Int /\ p \in Int
    BY DivMod, 2 * u \in Nat \ {0}
  <2>2. q = 2 * p + (q % 2)
    BY Halve
  <2>3. u \in Bits(x) <=> q % 2 = 1
    BY <1>2 DEF Bits
  <2> HIDE DEF q, p
  <2>4. q % 2 = 0 \/ q % 2 = 1
    BY <2>1
  <2>5. u * q = 2 * (u * p) + (IF q % 2 = 1 THEN u ELSE 0)
    BY <2>1, <2>2, <2>4
  <2>6. u * p \in Int /\ (2 * u) * p = 2 * (u * p) /\ u * q \in Int
    BY <2>1
  <2>7. Part(u, Bits(x)) = u * q - (2 * u) * p
    BY <2>3, <2>5, <2>6 DEF Part
  <2> QED
    BY <2>7 DEF q, p
<1> DEFINE T(u) == u * (x \div u)
<1>3. \A u \in Nat \ {0} : T(u) \in Int
  BY DivMod
<1>4. /\ Part(w, Bits(x)) = T(w) - T(2 * w)
      /\ Part(2 * w, Bits(x)) = T(2 * w) - T(4 * w)
      /\ Part(4 * w, Bits(x)) = T(4 * w) - T(8 * w)
      /\ Part(8 * w, Bits(x)) = T(8 * w) - T(16 * w)
  <2>1. /\ 2 * w \in Nat \ {0} /\ 4 * w \in Nat \ {0} /\ 8 * w \in Nat \ {0}
        /\ 2 * (2 * w) = 4 * w /\ 2 * (4 * w) = 8 * w /\ 2 * (8 * w) = 16 * w
    OBVIOUS
  <2>2. ASSUME NEW u \in Nat \ {0}, u \in Weights
        PROVE  Part(u, Bits(x)) = T(u) - T(2 * u)
    BY <1>2, <2>2
  <2> HIDE DEF T
  <2>3. Part(w, Bits(x)) = T(w) - T(2 * w)
    BY <2>2
  <2>4. Part(2 * w, Bits(x)) = T(2 * w) - T(4 * w)
    BY <2>1, <2>2
  <2>5. Part(4 * w, Bits(x)) = T(4 * w) - T(8 * w)
    BY <2>1, <2>2
  <2>6. Part(8 * w, Bits(x)) = T(8 * w) - T(16 * w)
    BY <2>1, <2>2
  <2> QED
    BY <2>3, <2>4, <2>5, <2>6
<1>5. /\ T(w) \in Int /\ T(2 * w) \in Int /\ T(4 * w) \in Int
      /\ T(8 * w) \in Int /\ T(16 * w) \in Int
  BY <1>3
<1>6. Nibble(w, Bits(x)) = T(w) - T(16 * w)
  <2> HIDE DEF T
  <2> QED
    BY <1>4, <1>5 DEF Nibble
<1> QED
  BY <1>6

\* A word is the sum of its bits.
LEMMA WordOfItsBits ==
  ASSUME NEW x \in Word
  PROVE  WordOfBits(Bits(x)) = x
<1> DEFINE n == Values(2)
           T(u) == u * (x \div u)
           N(u) == Nibble(u, Bits(x))
<1>1. n \in Nat \ {0} /\ x \in 0 .. n - 1 /\ x \in Nat
  BY Widths DEF Word, Value, Lengths
<1>2. ASSUME NEW u \in Nat \ {0}
      PROVE  T(u) \in Int /\ (n <= u => T(u) = 0)
  <2>1. x \div u \in Int
    BY <1>1, DivMod
  <2>2. n <= u => x \div u = 0
    <3>1. n <= u => x \in 0 .. u - 1
      BY <1>1
    <3> QED
      BY <1>1, <3>1, DivUnique, 0 * u + x = x
  <2> QED
    BY <2>1, <2>2
<1>3. ASSUME NEW w \in Nat \ {0},
             w \in Weights, 2 * w \in Weights, 4 * w \in Weights, 8 * w \in Weights
      PROVE  N(w) = T(w) - T(16 * w)
  BY <1>1, <1>3, NibbleBits
<1>4. T(1) = x
  BY <1>1, DivMod
<1> HIDE DEF N, T
<1>5. N(1) = T(1) - T(16)
  BY <1>3, 1 \in Nat \ {0} DEF Weights
<1>6. N(16) = T(16) - T(256)
  BY <1>3, 16 \in Nat \ {0} DEF Weights
<1>7. N(256) = T(256) - T(4096)
  BY <1>3, 256 \in Nat \ {0} DEF Weights
<1>8. N(4096) = T(4096)
  <2> DEFINE w == 4096
  <2>1. n <= 16 * w
    BY ValuesFit
  <2>2. w \in Nat \ {0} /\ w \in Weights /\ 2 * w \in Weights /\ 4 * w \in Weights /\ 8 * w \in Weights
    BY DEF Weights
  <2> HIDE DEF w, n
  <2>3. N(w) = T(w) - T(16 * w)
    BY <1>3, <2>2
  <2>4. T(w) \in Int /\ T(16 * w) = 0
    BY <1>2, <2>1, <2>2, 16 * w \in Nat \ {0}
  <2> QED
    BY <2>3, <2>4 DEF w
<1>9. T(16) \in Int /\ T(256) \in Int /\ T(4096) \in Int
  BY <1>2
<1>10. N(1) + N(16) + N(256) + N(4096) = x
  BY <1>1, <1>4, <1>5, <1>6, <1>7, <1>8, <1>9
<1> QED
  BY <1>10 DEF WordOfBits, N

\* Sets of bits that have none in common.
LEMMA WordOfUnion ==
  ASSUME NEW S, NEW T, S \cap T = {}
  PROVE  WordOfBits(S \cup T) = WordOfBits(S) + WordOfBits(T)
<1>1. ASSUME NEW u \in Nat
      PROVE  /\ Part(u, S \cup T) = Part(u, S) + Part(u, T)
             /\ Part(u, S) \in Nat /\ Part(u, T) \in Nat
  BY DEF Part
<1>2. ASSUME NEW u \in Nat
      PROVE  /\ Nibble(u, S \cup T) = Nibble(u, S) + Nibble(u, T)
             /\ Nibble(u, S) \in Nat /\ Nibble(u, T) \in Nat
  <2> DEFINE P(i, Q) == Part(i * u, Q)
             Sums(i) == /\ P(i, S \cup T) = P(i, S) + P(i, T)
                        /\ P(i, S) \in Nat /\ P(i, T) \in Nat
  <2>1. ASSUME NEW i \in Nat PROVE Sums(i)
    BY <1>1, i * u \in Nat
  <2>2. \A Q : Nibble(u, Q) = P(1, Q) + P(2, Q) + P(4, Q) + P(8, Q)
    BY 1 * u = u DEF Nibble
  <2> HIDE DEF P
  <2>3. Sums(1) /\ Sums(2) /\ Sums(4) /\ Sums(8)
    BY <2>1
  <2> QED
    BY <2>2, <2>3
<1> DEFINE N(u, Q) == Nibble(u, Q)
           Sums(u) == /\ N(u, S \cup T) = N(u, S) + N(u, T)
                      /\ N(u, S) \in Nat /\ N(u, T) \in Nat
<1>3. ASSUME NEW u \in Nat PROVE Sums(u)
  BY <1>2
<1>4. \A Q : WordOfBits(Q) = N(1, Q) + N(16, Q) + N(256, Q) + N(4096, Q)
  BY DEF WordOfBits
<1> HIDE DEF N
<1>5. Sums(1)
  BY <1>3
<1>6. Sums(16)
  BY <1>3
<1>7. Sums(256)
  BY <1>3
<1>8. Sums(4096)
  <2> DEFINE w == 4096
  <2>1. w \in Nat
    OBVIOUS
  <2> HIDE DEF w, Sums
  <2>2. Sums(w)
    BY <1>3, <2>1
  <2> QED
    BY <2>2 DEF w
<1> QED
  BY <1>4, <1>5, <1>6, <1>7, <1>8

-----------------------------------------------------------------------------
(* Writing a byte under the high byte of a word. *)

\* A weight of a bit of the low byte divides the byte in an even number.
LEMMA EvenDivisor ==
  ASSUME NEW w \in Weights, w < Values(1)
  PROVE  \E k \in Nat : Values(1) = (2 * k) * w
<1>1. ByteMSB \in {2, 4, 8, 16, 32, 64, 128} /\ Values(1) = 2 * ByteMSB
  BY ALUAssumption DEF Values, msb
<1>2. w \in {1, 2, 4, 8, 16, 32, 64, 128}
  BY <1>1 DEF Weights
<1>3. \E k \in {1, 2, 4, 8, 16, 32, 64, 128} : ByteMSB = k * w
  BY <1>1, <1>2
<1>4. PICK k \in Nat : ByteMSB = k * w
  BY <1>3
<1>5. w \in Nat /\ k * w \in Nat /\ (2 * k) * w = 2 * (k * w)
  BY <1>2
<1> QED
  BY <1>1, <1>4, <1>5

\* The high byte has no bits in the low one.
LEMMA HighBits ==
  ASSUME NEW q \in Nat, NEW w \in Bits(q * Values(1))
  PROVE  w >= Values(1)
<1> DEFINE n == Values(1)
<1>1. w \in Weights /\ w \in Nat \ {0} /\ ((q * n) \div w) % 2 = 1
  BY DEF Bits, Weights
<1>2. n \in Nat \ {0}
  BY Widths DEF Lengths
<1>3. CASE w < n
  <2>1. PICK k \in Nat : n = (2 * k) * w
    BY <1>1, <1>3, EvenDivisor
  <2> DEFINE j == q * k
  <2>2. j \in Nat /\ q * n = (2 * j) * w + 0
    BY <1>1, <1>2, <2>1
  <2> HIDE DEF j, n
  <2>3. (q * n) \div w = 2 * j
    BY <1>1, <2>2, DivUnique, 0 \in 0 .. w - 1, 2 * j \in Int
  <2>4. (2 * j) % 2 = 0
    BY <2>2
  <2> QED
    BY <1>1, <2>3, <2>4
<1> QED
  BY <1>1, <1>2, <1>3

\* The bit just above the low byte.
LEMMA BitAbove == Bits(Values(1)) = {Values(1)}
<1> DEFINE n == Values(1)
<1>1. n \in Nat \ {0} /\ 1 * n = n /\ n = 1 * n + 0
  BY Widths DEF Lengths
<1>2. n \in Weights
  <2>1. ByteMSB \in {2, 4, 8, 16, 32, 64, 128} /\ Values(1) = 2 * ByteMSB
    BY ALUAssumption DEF Values, msb
  <2> QED
    BY <2>1 DEF Weights
<1>3. n \in Bits(n)
  <2>1. n \div n = 1
    BY <1>1, DivUnique, 0 \in 0 .. n - 1
  <2> QED
    BY <1>2, <2>1 DEF Bits
<1>4. ASSUME NEW w \in Bits(n) PROVE w = n
  <2>1. w >= n
    BY <1>1, HighBits, 1 \in Nat
  <2>2. w \in Nat \ {0} /\ (n \div w) % 2 = 1
    BY DEF Bits, Weights
  <2>3. CASE w > n
    <3>1. n \in 0 .. w - 1 /\ 0 * w + n = n
      BY <1>1, <2>2, <2>3
    <3>2. n \div w = 0
      BY <2>2, <3>1, DivUnique
    <3> QED
      BY <2>2, <3>2
  <2> QED
    BY <1>1, <2>1, <2>2, <2>3
<1> QED
  BY <1>3, <1>4

\* Values are words, and there are more words than values.
LEMMA ByteInWord ==
  ASSUME NEW l \in Lengths
  PROVE  /\ Value(l) \subseteq Word /\ Word \subseteq Nat /\ Value(l) \subseteq Nat
         /\ Values(l) <= Values(2) /\ Values(2) = Values(1) * Values(1)
         /\ 2 * Values(1) <= Values(2) /\ Values(2) \in Nat \ {0} /\ 0 \in Value(l)
<1>1. ByteMSB \in Nat /\ ByteMSB >= 2 /\ WordMSB = 2 * ByteMSB * ByteMSB
  BY ALUAssumption
<1>2. /\ Values(1) = 2 * ByteMSB /\ Values(2) = 4 * (ByteMSB * ByteMSB)
      /\ ByteMSB * ByteMSB >= 2 * ByteMSB /\ ByteMSB * ByteMSB \in Nat
  BY <1>1 DEF Values, msb
<1>3. Values(1) * Values(1) = 4 * (ByteMSB * ByteMSB)
  BY <1>1, <1>2
<1>4. l = 1 \/ l = 2
  BY DEF Lengths
<1>5. /\ Values(l) \in Nat \ {0} /\ Values(l) <= Values(2) /\ Values(2) \in Nat \ {0}
      /\ 2 * Values(1) <= Values(2)
  BY <1>1, <1>2, <1>4
<1> HIDE DEF Values
<1>6. Value(l) \subseteq Word /\ Word \subseteq Nat /\ Value(l) \subseteq Nat /\ 0 \in Value(l)
  BY <1>5 DEF Value, Word
<1> QED
  BY <1>2, <1>3, <1>5, <1>6

LEMMA CutFits ==
  ASSUME NEW l \in Lengths, NEW v \in Int
  PROVE  /\ Cut(l, v) \in Value(l) /\ Cut(l, v) \in Word
         /\ (v \in Value(l) => Cut(l, v) = v)
         /\ Cut(l, Cut(l, v)) = Cut(l, v)
<1>1. Values(l) \in Nat \ {0}
  BY Widths
<1>2. ASSUME NEW u \in Value(l) PROVE Cut(l, u) = u
  BY <1>1, <1>2, ModUnique, 0 * Values(l) + u = u DEF Value, Cut
<1>3. Cut(l, v) \in Value(l)
  BY <1>1, DivMod DEF Value, Cut
<1> QED
  BY <1>2, <1>3, ByteInWord

\* old with its low byte cleared, and what is or-ed under it.
LEMMA HighByte ==
  ASSUME NEW old \in Word
  PROVE  LET n == Values(1)
             q == old \div n
             h == old - Cut(1, old)
         IN  q \in Nat /\ n \in Nat \ {0} /\ h = q * n /\ h \in Word /\ q < n
<1> DEFINE n == Values(1)
           q == old \div n
           r == old % n
<1>1. n \in Nat \ {0} /\ old \in Nat /\ Values(2) = n * n /\ old < Values(2)
  BY Widths, ByteInWord DEF Lengths, Word, Value
<1>2. q \in Int /\ r \in 0 .. n - 1 /\ old = q * n + r
  <2>1. n \in Nat \ {0} /\ old \in Int
    BY <1>1
  <2> HIDE DEF n
  <2> QED
    BY <2>1, DivMod
<1> HIDE DEF n, q, r
<1>3. q >= 0 /\ q < n /\ q * n \in Int /\ q * n >= 0 /\ q * n <= old
  <2>1. CASE q < 0
    <3>1. q * n <= (-1) * n /\ q * n \in Int
      BY <1>1, <1>2, <2>1
    <3> QED
      BY <1>1, <1>2, <3>1
  <2>2. CASE q >= n
    <3>1. q * n >= n * n /\ q * n \in Int /\ n * n \in Int
      BY <1>1, <1>2, <2>2
    <3> QED
      BY <1>1, <1>2, <3>1
  <2>3. q * n \in Int /\ q * n <= old
    BY <1>1, <1>2
  <2>4. q >= 0 => q * n >= 0
    BY <1>1, <1>2
  <2> QED
    BY <1>1, <1>2, <2>1, <2>2, <2>3, <2>4
<1>4. old - Cut(1, old) = q * n
  BY <1>1, <1>2, <1>3 DEF Cut, r, n
<1>5. q * n \in Word
  BY <1>1, <1>3 DEF Word, Value
<1> QED
  BY <1>1, <1>2, <1>3, <1>4, <1>5 DEF n, q

\* A value smaller than the byte is or-ed under q bytes.
LEMMA OrUnder ==
  ASSUME NEW q \in Nat, q * Values(1) \in Word, NEW v \in Value(1)
  PROVE  Or(q * Values(1), v) = q * Values(1) + v
<1> DEFINE n == Values(1)
           S == Bits(q * n)
           T == Bits(v)
<1>1. Below(n, T)
  <2>1. n \in Nat /\ v \in 0 .. n - 1
    BY Widths DEF Lengths, Value
  <2> QED
    BY <2>1, BitsBelow
<1>2. \A w \in S : w >= n /\ w \in Nat
  BY HighBits DEF Bits, Weights
<1>3. n \in Nat
  BY Widths DEF Lengths
<1>4. S \cap T = {}
  <2> HIDE DEF S, T, n
  <2> QED
    BY <1>1, <1>2, <1>3 DEF Below
<1>5. WordOfBits(S \cup T) = WordOfBits(S) + WordOfBits(T)
  BY <1>4, WordOfUnion
<1>6. WordOfBits(S) = q * n /\ WordOfBits(T) = v
  <2>1. v \in Word
    BY ByteInWord DEF Lengths
  <2> QED
    BY <2>1, WordOfItsBits
<1> QED
  BY <1>5, <1>6 DEF Or

\* The bits of a number that has, above its low byte, just one.
LEMMA BitsAbove ==
  ASSUME NEW w \in Weights, NEW v \in Value(1)
  PROVE  ((Values(1) + v) \div w) % 2 = 1 <=> w = Values(1) \/ (v \div w) % 2 = 1
<1> DEFINE n == Values(1)
<1>1. n \in Nat \ {0} /\ v \in 0 .. n - 1 /\ w \in Nat \ {0}
  BY Widths DEF Lengths, Value, Weights
<1>2. CASE w < n
  <2>1. PICK k \in Nat : n = (2 * k) * w
    BY <1>2, EvenDivisor
  <2> DEFINE j == v \div w
             r == v % w
  <2>2. j \in Int /\ r \in 0 .. w - 1 /\ v = j * w + r
    BY <1>1, DivMod
  <2> HIDE DEF j, r, n
  <2>3. n + v = (2 * k + j) * w + r /\ 2 * k + j \in Int
    BY <1>1, <2>1, <2>2
  <2>4. (n + v) \div w = 2 * k + j
    <3> DEFINE i == 2 * k + j
    <3>1. n + v = i * w + r /\ i \in Int
      BY <2>3
    <3> HIDE DEF i
    <3>2. (n + v) \div w = i
      BY <1>1, <2>2, <3>1, DivUnique
    <3> QED
      BY <3>2 DEF i
  <2>5. (2 * k + j) % 2 = j % 2
    BY <2>2
  <2>6. w # n
    BY <1>1, <1>2
  <2> QED
    BY <2>4, <2>5, <2>6 DEF j, n
<1>3. CASE w = n
  <2>1. n + v = 1 * n + v
    BY <1>1
  <2> HIDE DEF n
  <2>2. (n + v) \div n = 1
    BY <1>1, <2>1, DivUnique, 1 \in Int
  <2> QED
    BY <1>3, <2>2 DEF n
<1>4. CASE w > n
  <2>1. w >= 2 * n
    <3>1. ByteMSB \in {2, 4, 8, 16, 32, 64, 128} /\ n = 2 * ByteMSB
      BY ALUAssumption DEF Values, msb
    <3> HIDE DEF n
    <3> QED
      BY <1>4, <3>1 DEF Weights
  <2>2. v \in 0 .. w - 1 /\ n + v \in 0 .. w - 1 /\ v = 0 * w + v /\ n + v = 0 * w + (n + v)
    BY <1>1, <2>1
  <2> HIDE DEF n
  <2>3. v \div w = 0 /\ (n + v) \div w = 0
    BY <1>1, <2>2, DivUnique, 0 \in Int
  <2>4. w # n
    BY <1>1, <1>4
  <2> QED
    BY <2>3, <2>4 DEF n
<1> QED
  BY <1>1, <1>2, <1>3, <1>4

\* One that has the bit above the byte too: it is added, or it is there.
LEMMA OrAbove ==
  ASSUME NEW q \in Nat, q * Values(1) \in Word, NEW v \in Value(1)
  PROVE  Or(q * Values(1), Values(1) + v) \in {q * Values(1) + v, (q + 1) * Values(1) + v}
<1> DEFINE n == Values(1)
           S == Bits(q * n)
           T == Bits(v)
<1>1. n \in Nat \ {0} /\ v \in 0 .. n - 1 /\ n = 1 * n /\ n \in Word
  <2>1. n \in Nat \ {0} /\ 2 * n <= Values(2) /\ Values(2) \in Nat
    BY Widths, ByteInWord DEF Lengths
  <2> QED
    BY <2>1 DEF Word, Value
<1>2. Below(n, T)
  BY <1>1, BitsBelow
<1>3. \A w \in S \cup {n} : w >= n /\ w \in Nat
  BY <1>1, HighBits DEF Bits, Weights
<1>4. (S \cup {n}) \cap T = {}
  <2> HIDE DEF S, T, n
  <2> QED
    BY <1>1, <1>2, <1>3 DEF Below
<1>5. v \in Word
  BY ByteInWord DEF Lengths
<1>6. Bits(n + v) = {n} \cup T
  <2>1. ASSUME NEW w \in Weights
        PROVE  w \in Bits(n + v) <=> w \in {n} \cup T
    BY <1>1, BitsAbove DEF Bits
  <2> QED
    BY <2>1, BitAbove DEF Bits
<1>7. WordOfBits(S \cup {n}) \in {q * n, q * n + n}
  <2>1. WordOfBits(S) = q * n
    BY WordOfItsBits
  <2>2. CASE n \in S
    <3>1. S \cup {n} = S
      BY <2>2
    <3> QED
      BY <2>1, <3>1
  <2>3. CASE n \notin S
    <3>1. WordOfBits(S \cup {n}) = WordOfBits(S) + WordOfBits({n})
      BY <2>3, WordOfUnion, S \cap {n} = {}
    <3>2. WordOfBits({n}) = n
      BY <1>1, BitAbove, WordOfItsBits
    <3> QED
      BY <2>1, <3>1, <3>2
  <2> QED
    BY <2>2, <2>3
<1>8. Or(q * n, n + v) = WordOfBits(S \cup {n}) + WordOfBits(T)
  <2>1. S \cup Bits(n + v) = (S \cup {n}) \cup T
    BY <1>6
  <2> QED
    BY <1>4, <2>1, WordOfUnion DEF Or
<1>9. WordOfBits(T) = v
  BY <1>5, WordOfItsBits
<1>10. (q + 1) * n = q * n + n /\ q * n \in Int
  BY <1>1
<1> QED
  BY <1>1, <1>7, <1>8, <1>9, <1>10

\* What the logical operations make of values of a length, and of words.
LEMMA LogicFits ==
  ASSUME NEW l \in Lengths, NEW v \in Value(l), NEW w \in Value(l)
  PROVE  Or(v, w) \in Value(l) /\ And(v, w) \in Value(l) /\ Xor(v, w) \in Value(l)
<1> DEFINE m == Values(l)
<1>1. m \in Nat /\ v \in 0 .. m - 1 /\ w \in 0 .. m - 1
  BY Widths DEF Value
<1>2. m \in Weights \cup {65536}
  BY ValuesAreWeights
<1> HIDE DEF m
<1>3. Below(m, Bits(v)) /\ Below(m, Bits(w))
  BY <1>1, BitsBelow
<1>4. ASSUME NEW S, Below(m, S) PROVE WordOfBits(S) \in 0 .. m - 1
  BY <1>2, <1>4, WordBelow
<1>5. /\ Below(m, Bits(v) \cup Bits(w)) /\ Below(m, Bits(v) \cap Bits(w))
      /\ Below(m, (Bits(v) \ Bits(w)) \cup (Bits(w) \ Bits(v)))
  BY <1>3 DEF Below
<1>6. Or(v, w) \in 0 .. m - 1
  BY <1>4, <1>5 DEF Or
<1>7. And(v, w) \in 0 .. m - 1
  BY <1>4, <1>5 DEF And
<1>8. Xor(v, w) \in 0 .. m - 1
  BY <1>4, <1>5 DEF Xor
<1> QED
  BY <1>6, <1>7, <1>8 DEF Value, m

\* Whatever is written to a word, it stays one.
LEMMA WrittenIsWord ==
  ASSUME NEW l \in Lengths, NEW old \in Word, NEW v \in Int
  PROVE  Written(l, old, v) \in Word
<1>1. Cut(2, v) \in Word
  BY CutFits DEF Lengths, Word
<1>2. old - Cut(1, old) \in Word
  BY HighByte
<1>3. Or(old - Cut(1, old), Cut(2, v)) \in Word
  BY <1>1, <1>2, LogicFits DEF Lengths, Word
<1> QED
  BY <1>1, <1>3 DEF Written

\* A value read back is the one written, and a byte leaves the high byte.
LEMMA WrittenValue ==
  ASSUME NEW l \in Lengths, NEW old \in Word, NEW v \in Value(l)
  PROVE  /\ Cut(l, Written(l, old, v)) = v
         /\ l = 1 => Written(l, old, v) \div Values(1) = old \div Values(1)
<1>1. v \in Word /\ v \in Int
  BY ByteInWord
<1>2. CASE l = 2
  <2>1. Cut(2, v) = v
    BY <1>1, CutFits DEF Lengths, Word
  <2> QED
    BY <1>2, <2>1 DEF Written
<1>3. CASE l = 1
  <2> DEFINE n == Values(1)
             q == old \div n
  <2>1. /\ q \in Nat /\ n \in Nat \ {0} /\ old - Cut(1, old) = q * n
        /\ q * n \in Word
    BY HighByte
  <2>2. Cut(2, v) = v /\ v \in 0 .. n - 1
    BY <1>1, <1>3, CutFits DEF Lengths, Word, Value
  <2>3. Written(1, old, v) = q * n + v
    BY <1>3, <2>1, <2>2, OrUnder DEF Written
  <2> HIDE DEF n, q
  <2>4. (q * n + v) % n = v /\ (q * n + v) \div n = q
    <3>1. (q * n + v) % n = v
      BY <2>1, <2>2, ModUnique
    <3>2. (q * n + v) \div n = q
      BY <2>1, <2>2, DivUnique
    <3> QED
      BY <3>1, <3>2
  <2> QED
    BY <1>3, <2>3, <2>4 DEF Cut, n, q
<1> QED
  BY <1>2, <1>3 DEF Lengths

\* A value with a bit above it is read back without the bit.
LEMMA WrittenAbove ==
  ASSUME NEW old \in Word, NEW v \in Value(1)
  PROVE  Cut(1, Written(1, old, Values(1) + v)) = v
<1> DEFINE n == Values(1)
           q == old \div n
<1>1. /\ q \in Nat /\ n \in Nat \ {0} /\ old - Cut(1, old) = q * n
      /\ q * n \in Word
  BY HighByte
<1>2. v \in 0 .. n - 1 /\ n + v \in Word /\ n + v \in Int
  <2>1. 2 * n <= Values(2) /\ Values(2) \in Nat
    BY ByteInWord DEF Lengths
  <2> QED
    BY <1>1, <2>1 DEF Word, Value
<1>3. Cut(2, n + v) = n + v
  BY <1>2, CutFits DEF Lengths, Word
<1>4. Written(1, old, n + v) \in {q * n + v, (q + 1) * n + v}
  BY <1>1, <1>3, OrAbove DEF Written
<1> HIDE DEF n, q
<1>5. (q * n + v) % n = v
  BY <1>1, <1>2, ModUnique
<1>6. ((q + 1) * n + v) % n = v
  BY <1>1, <1>2, ModUnique, q + 1 \in Int
<1> QED
  BY <1>4, <1>5, <1>6 DEF Cut, n

-----------------------------------------------------------------------------
(* Every instruction leaves words in the registers, D, and flags in cc. *)

Fits(D, c) == c.R \in [D -> Word] /\ c.cc \subseteq Flags

LEMMA WhenFits == \A b, f : f \in Flags => When(b, f) \subseteq Flags
BY DEF When

LEMMA NZFits ==
  ASSUME NEW l, NEW v, NEW c
  PROVE  /\ NZ(l, v) \subseteq Flags /\ NZKeepC(l, v, c) \subseteq Flags
         /\ NZVKeepC(l, v, c) \subseteq Flags
<1>1. {"N", "Z", "V", "C"} \subseteq Flags
  BY DEF Flags
<1> QED
  BY <1>1 DEF NZ, NZKeepC, NZVKeepC, When

LEMMA TestFits ==
  ASSUME NEW D, NEW c, Fits(D, c), NEW codes, codes \subseteq Flags
  PROVE  Fits(D, Test(c, codes))
BY DEF Fits, Test

LEMMA PutFits ==
  ASSUME NEW D, NEW c, Fits(D, c), NEW l \in Lengths, NEW d \in D, NEW v \in Int,
         NEW codes, codes \subseteq Flags
  PROVE  /\ Fits(D, Put(l, d, v, c, codes)) /\ Put(l, d, v, c, codes).cc = codes
         /\ Put(l, d, v, c, codes).R[d] = Written(l, c.R[d], v)
         /\ \A r \in D : r # d => Put(l, d, v, c, codes).R[r] = c.R[r]
<1>1. Written(l, c.R[d], v) \in Word
  BY WrittenIsWord DEF Fits
<1> QED
  BY <1>1 DEF Fits, Put

LEMMA PutPairFits ==
  ASSUME NEW D, NEW c, Fits(D, c), NEW d \in D, NEW high \in Int, NEW low \in Int,
         NEW codes, codes \subseteq Flags
  PROVE  Fits(D, PutPair(d, high, low, c, codes))
<1>1. Cut(2, high) \in Word /\ Cut(2, low) \in Word
  BY CutFits DEF Lengths
<1> QED
  BY <1>1 DEF Fits, PutPair

LEMMA ReadFits ==
  ASSUME NEW D, NEW c, Fits(D, c), NEW l \in Lengths, NEW d \in D
  PROVE  /\ read(l, d, c) \in Value(l) /\ read(l, d, c) \in Int
         /\ c.R[d] \in Word /\ c.R[d] \in Int
         /\ read(2, d, c) = c.R[d] /\ read(2, d, c) \in Word
<1>1. c.R[d] \in Word /\ c.R[d] \in Int
  BY ByteInWord DEF Fits, Lengths
<1>2. Cut(l, c.R[d]) \in Value(l) /\ Cut(l, c.R[d]) \in Int
  BY <1>1, CutFits, ByteInWord
<1>3. Cut(2, c.R[d]) = c.R[d]
  BY <1>1, CutFits DEF Lengths, Word
<1> QED
  BY <1>1, <1>2, <1>3 DEF read

\* The double operand instructions of both lengths.
LEMMA DoubleFits ==
  ASSUME NEW D, NEW c, Fits(D, c), NEW l \in Lengths, NEW s \in Value(l), NEW d \in D
  PROVE  /\ Fits(D, MOV(l, s, d, c)) /\ Fits(D, CMP(l, s, d, c))
         /\ Fits(D, BIT(l, s, d, c)) /\ Fits(D, BIC(l, s, d, c))
         /\ Fits(D, BIS(l, s, d, c))
<1> DEFINE v == read(l, d, c)
<1>1. v \in Value(l) /\ v \in Int /\ s \in Int /\ 2 \in Lengths
  BY ReadFits, ByteInWord DEF Lengths
<1>2. Values(1) \in Int /\ Values(2) \in Int /\ Values(l) \in Nat \ {0}
  BY Widths DEF Lengths
<1> HIDE DEF v
<1>3. Fits(D, MOV(l, s, d, c))
  <2> DEFINE w == IF l = 1 /\ Sign(1, s) THEN Values(2) - Values(1) + s ELSE s
  <2>1. w \in Int
    BY <1>1, <1>2
  <2>2. MOV(l, s, d, c) = Put(2, d, w, c, NZKeepC(l, s, c))
    BY DEF MOV
  <2> HIDE DEF w
  <2> QED
    BY <1>1, <2>1, <2>2, PutFits, NZFits
<1>4. Fits(D, CMP(l, s, d, c))
  <2>1. PICK V, C, diff : CMP(l, s, d, c) = Test(c, NZ(l, diff) \cup When(V, "V") \cup When(C, "C"))
    BY DEF CMP
  <2>2. NZ(l, diff) \cup When(V, "V") \cup When(C, "C") \subseteq Flags
    BY NZFits, WhenFits DEF Flags
  <2> QED
    BY <2>1, <2>2, TestFits
<1>5. Fits(D, BIT(l, s, d, c))
  BY TestFits, NZFits DEF BIT
<1>6. Fits(D, BIC(l, s, d, c))
  <2> DEFINE w == And(Values(l) - 1 - s, v)
  <2>1. Values(l) - 1 - s \in Value(l)
    BY <1>1, <1>2 DEF Value
  <2>2. w \in Int
    BY <1>1, <2>1, LogicFits, ByteInWord
  <2>3. BIC(l, s, d, c) = Put(l, d, w, c, NZKeepC(l, w, c))
    BY DEF BIC, v
  <2> HIDE DEF w
  <2> QED
    BY <2>2, <2>3, PutFits, NZFits
<1>7. Fits(D, BIS(l, s, d, c))
  <2> DEFINE w == Or(s, v)
  <2>1. w \in Int
    BY <1>1, LogicFits, ByteInWord
  <2>2. BIS(l, s, d, c) = Put(l, d, w, c, NZKeepC(l, w, c))
    BY DEF BIS, v
  <2> HIDE DEF w
  <2> QED
    BY <2>1, <2>2, PutFits, NZFits
<1> QED
  BY <1>3, <1>4, <1>5, <1>6, <1>7

LEMMA SingleFits ==
  ASSUME NEW D, NEW c, Fits(D, c), NEW l \in Lengths, NEW d \in D
  PROVE  /\ Fits(D, CLR(l, d, c)) /\ Fits(D, COM(l, d, c)) /\ Fits(D, INC(l, d, c))
         /\ Fits(D, DEC(l, d, c)) /\ Fits(D, NEG(l, d, c)) /\ Fits(D, ADC(l, d, c))
         /\ Fits(D, SBC(l, d, c)) /\ Fits(D, TST(l, d, c)) /\ Fits(D, ROR(l, d, c))
         /\ Fits(D, ROL(l, d, c)) /\ Fits(D, ASR(l, d, c)) /\ Fits(D, ASL(l, d, c))
<1> DEFINE v == read(l, d, c)
           n == Values(l)
<1>1. v \in Value(l) /\ v \in Int /\ n \in Nat \ {0} /\ Values(2) \in Int
  BY ReadFits, Widths DEF Lengths
<1>2. \A i \in Lengths, x \in Int : Cut(i, x) \in Int
  BY CutFits, ByteInWord
<1>3. 2 \in Lengths /\ {"N", "Z", "V", "C"} \subseteq Flags
  BY DEF Lengths, Flags
<1>4. ASSUME NEW x \in Int, NEW codes, codes \subseteq Flags
      PROVE  Fits(D, Put(l, d, x, c, codes))
  BY <1>4, PutFits
<1>5. /\ \A x : NZ(l, x) \subseteq Flags /\ NZVKeepC(l, x, c) \subseteq Flags
      /\ \A b : When(b, "N") \subseteq Flags /\ When(b, "Z") \subseteq Flags
                /\ When(b, "V") \subseteq Flags /\ When(b, "C") \subseteq Flags
  BY <1>3, NZFits, WhenFits
<1> HIDE DEF v, n
<1>6. Fits(D, CLR(l, d, c))
  BY <1>3, <1>4, 0 \in Int DEF CLR
<1>7. Fits(D, COM(l, d, c))
  <2> DEFINE w == Values(2) - 1 - v
  <2>1. w \in Int
    BY <1>1
  <2>2. COM(l, d, c) = Put(l, d, w, c, When(~Sign(l, w), "N") \cup When(Cut(l, w) = 0, "Z") \cup {"C"})
    BY DEF COM, v
  <2> HIDE DEF w
  <2>3. When(~Sign(l, w), "N") \cup When(Cut(l, w) = 0, "Z") \cup {"C"} \subseteq Flags
    BY <1>3, <1>5
  <2> QED
    BY <1>4, <2>1, <2>2, <2>3
<1>8. Fits(D, INC(l, d, c))
  <2>1. Cut(2, v + 1) \in Int
    BY <1>1, <1>2, <1>3
  <2>2. INC(l, d, c) = Put(l, d, Cut(2, v + 1), c, NZVKeepC(l, Cut(2, v + 1), c))
    BY DEF INC, v
  <2> QED
    BY <1>4, <1>5, <2>1, <2>2
<1>9. Fits(D, DEC(l, d, c))
  <2>1. Cut(l, v - 1) \in Int
    BY <1>1, <1>2
  <2>2. DEC(l, d, c) = Put(l, d, Cut(l, v - 1), c, NZVKeepC(l, Cut(l, v - 1), c))
    BY DEF DEC, v
  <2> QED
    BY <1>4, <1>5, <2>1, <2>2
<1>10. Fits(D, NEG(l, d, c))
  <2> DEFINE w == Cut(l, -v)
             codes == NZ(l, w) \cup When(w = msb(l), "V") \cup When(w # 0, "C")
  <2>1. w \in Int
    BY <1>1, <1>2
  <2>2. NEG(l, d, c) = Put(l, d, w, c, codes)
    BY DEF NEG, v
  <2>3. codes \subseteq Flags
    BY <1>5
  <2> HIDE DEF w, codes
  <2> QED
    BY <1>4, <2>1, <2>2, <2>3
<1>11. Fits(D, ADC(l, d, c))
  <2> DEFINE codes == NZ(l, v + 1) \cup When(v = WordMSB - 1, "V")
                                   \cup When(v = Values(2) - 1, "C")
  <2>1. Cut(l, v + 1) \in Int
    BY <1>1, <1>2
  <2>2. codes \subseteq Flags
    BY <1>5
  <2>3. ADC(l, d, c) = IF "C" \in c.cc THEN Put(l, d, Cut(l, v + 1), c, codes)
                       ELSE Test(c, NZ(l, v))
    BY DEF ADC, v
  <2> HIDE DEF codes
  <2>4. Fits(D, Test(c, NZ(l, v)))
    BY <1>5, TestFits
  <2>5. Fits(D, Put(l, d, Cut(l, v + 1), c, codes))
    BY <1>4, <2>1, <2>2
  <2> QED
    BY <2>3, <2>4, <2>5
<1>12. Fits(D, SBC(l, d, c))
  <2> DEFINE V == When(v = WordMSB, "V")
             codes == NZ(l, v - 1) \cup V \cup When(v # 0, "C")
             kept == NZ(l, v) \cup V \cup {"C"}
  <2>1. Cut(l, v - 1) \in Int
    BY <1>1, <1>2
  <2>2. codes \subseteq Flags /\ kept \subseteq Flags
    BY <1>3, <1>5
  <2>3. SBC(l, d, c) = IF "C" \in c.cc THEN Put(l, d, Cut(l, v - 1), c, codes)
                       ELSE Test(c, kept)
    BY DEF SBC, v
  <2> HIDE DEF codes, kept
  <2>4. Fits(D, Test(c, kept))
    BY <2>2, TestFits
  <2>5. Fits(D, Put(l, d, Cut(l, v - 1), c, codes))
    BY <1>4, <2>1, <2>2
  <2> QED
    BY <2>3, <2>4, <2>5
<1>13. Fits(D, TST(l, d, c))
  BY <1>5, TestFits DEF TST
<1>14. Fits(D, ROR(l, d, c))
  <2> DEFINE w == (v \div 2) + n * Carry(c)
             lost == v % 2 = 1
             codes == NZ(l, w) \cup When(lost, "C") \cup When(Sign(l, w) # lost, "V")
  <2>1. w \in Int
    <3>1. v \div 2 \in Int /\ Carry(c) \in Int
      BY <1>1 DEF Carry
    <3> QED
      BY <1>1, <3>1
  <2>2. ROR(l, d, c) = Put(l, d, w, c, codes)
    BY DEF ROR, v, n
  <2>3. codes \subseteq Flags
    BY <1>5
  <2> HIDE DEF w, codes
  <2> QED
    BY <1>4, <2>1, <2>2, <2>3
<1>15. ASSUME NEW in \in Int PROVE Fits(D, ShiftedLeft(l, d, in, c))
  <2> DEFINE w == 2 * v + in
             codes == NZ(l, w) \cup When(Sign(l, v), "C") \cup When(Sign(l, w) # Sign(l, v), "V")
  <2>1. w \in Int
    BY <1>1
  <2>2. ShiftedLeft(l, d, in, c) = Put(l, d, Cut(l, w), c, codes)
    BY DEF ShiftedLeft, v
  <2>3. codes \subseteq Flags
    BY <1>5
  <2> HIDE DEF w, codes
  <2>4. Cut(l, w) \in Int
    BY <1>2, <2>1
  <2> QED
    BY <1>4, <2>2, <2>3, <2>4
<1>16. Fits(D, ROL(l, d, c)) /\ Fits(D, ASL(l, d, c))
  <2>1. Carry(c) \in Int /\ 0 \in Int
    BY DEF Carry
  <2> QED
    BY <1>15, <2>1 DEF ROL, ASL
<1>17. Fits(D, ASR(l, d, c))
  <2> DEFINE w == (v \div 2) + (IF Sign(l, v) THEN msb(l) ELSE 0)
             lost == v % 2 = 1
             codes == NZ(l, w) \cup When(lost, "C") \cup When(Sign(l, v) \/ lost, "V")
  <2>1. w \in Int
    BY <1>1, Widths
  <2>2. ASR(l, d, c) = Put(l, d, w, c, codes)
    BY DEF ASR, v
  <2>3. codes \subseteq Flags
    BY <1>5
  <2> HIDE DEF w, codes
  <2> QED
    BY <1>4, <2>1, <2>2, <2>3
<1> QED
  BY <1>6, <1>7, <1>8, <1>9, <1>10, <1>11, <1>12, <1>13, <1>14, <1>16, <1>17

LEMMA WordFits ==
  ASSUME NEW D, NEW c, Fits(D, c), NEW s \in Word, NEW d \in D, NEW r \in D
  PROVE  /\ Fits(D, ADD(s, d, c)) /\ Fits(D, SUB(s, d, c)) /\ Fits(D, XOR(r, d, c))
         /\ Fits(D, SWAB(d, c)) /\ Fits(D, SXT(d, c)) /\ Fits(D, MUL(s, d, c))
<1> DEFINE v == read(2, d, c)
<1>1. /\ v \in Word /\ v \in Int /\ s \in Int /\ c.R[r] \in Word /\ c.R[d] \in Int
      /\ 2 \in Lengths /\ Word = Value(2)
  BY ReadFits, ByteInWord DEF Lengths, Word
<1>2. Values(1) \in Nat \ {0} /\ Values(2) \in Nat \ {0}
  BY Widths DEF Lengths
<1>3. {"N", "Z", "V", "C"} \subseteq Flags
  BY DEF Flags
<1>4. ASSUME NEW x \in Int, NEW codes, codes \subseteq Flags
      PROVE  Fits(D, Put(2, d, x, c, codes))
  BY <1>1, <1>4, PutFits
<1>5. /\ \A x : NZ(2, x) \subseteq Flags /\ NZKeepC(2, x, c) \subseteq Flags
      /\ \A b : When(b, "N") \subseteq Flags /\ When(b, "Z") \subseteq Flags
                /\ When(b, "V") \subseteq Flags /\ When(b, "C") \subseteq Flags
  BY <1>3, NZFits, WhenFits
<1> HIDE DEF v
<1>6. Fits(D, ADD(s, d, c))
  <2>1. PICK V, C : ADD(s, d, c) = Put(2, d, s + v, c, NZ(2, s + v) \cup When(V, "V") \cup When(C, "C"))
    BY DEF ADD, v
  <2>2. NZ(2, s + v) \cup When(V, "V") \cup When(C, "C") \subseteq Flags /\ s + v \in Int
    BY <1>1, <1>5
  <2> QED
    BY <1>4, <2>1, <2>2
<1>7. Fits(D, SUB(s, d, c))
  <2> DEFINE diff == Cut(2, v - s)
  <2>1. PICK V, C : SUB(s, d, c) = Put(2, d, diff, c, NZ(2, diff) \cup When(V, "V") \cup When(C, "C"))
    BY DEF SUB, v
  <2>2. diff \in Int
    BY <1>1, CutFits, ByteInWord
  <2> HIDE DEF diff
  <2>3. NZ(2, diff) \cup When(V, "V") \cup When(C, "C") \subseteq Flags
    BY <1>5
  <2> QED
    BY <1>4, <2>1, <2>2, <2>3
<1>8. Fits(D, XOR(r, d, c))
  <2> DEFINE w == Xor(c.R[r], v)
  <2>1. w \in Int
    <3>1. c.R[r] \in Value(2) /\ v \in Value(2)
      BY <1>1
    <3>2. w \in Value(2)
      BY <1>1, <3>1, LogicFits
    <3> QED
      BY <1>1, <3>2, ByteInWord
  <2>2. XOR(r, d, c) = Put(2, d, w, c, NZKeepC(2, w, c))
    BY DEF XOR, v
  <2> HIDE DEF w
  <2> QED
    BY <1>4, <1>5, <2>1, <2>2
<1>9. Fits(D, SWAB(d, c))
  <2> DEFINE w == Values(1) * (v % Values(1)) + (v \div Values(1))
             codes == When(w < Values(1), "Z") \cup When(Sign(1, w), "N")
  <2>1. w \in Int
    <3> DEFINE n == Values(1)
               h == v \div n
               r1 == v % n
    <3>1. n \in Nat \ {0}
      BY <1>2
    <3> HIDE DEF n
    <3>2. h \in Int /\ r1 \in Int
      BY <1>1, <3>1, DivMod
    <3> HIDE DEF h, r1
    <3>3. n * r1 + h \in Int
      BY <3>1, <3>2
    <3> QED
      BY <3>3 DEF n, h, r1
  <2>2. SWAB(d, c) = Put(2, d, w, c, codes)
    BY DEF SWAB, v
  <2>3. codes \subseteq Flags
    BY <1>5
  <2> HIDE DEF w, codes
  <2> QED
    BY <1>4, <2>1, <2>2, <2>3
<1>10. Fits(D, SXT(d, c))
  <2>1. c.cc \ {"Z", "V"} \subseteq Flags /\ (c.cc \ {"V"}) \cup {"Z"} \subseteq Flags
    BY <1>3 DEF Fits
  <2>2. Values(2) - 1 \in Int /\ 0 \in Int
    BY <1>2
  <2> QED
    BY <1>4, <2>1, <2>2 DEF SXT
<1>11. Fits(D, MUL(s, d, c))
  <2> DEFINE x == Signed(2, c.R[d])
             y == Signed(2, s)
             p == x * y
             codes == When(p < 1, "N") \cup When(p = 0, "Z")
                        \cup When(p < WordMSB \/ p >= WordMSB - 1, "C")
  <2>1. x \in Int /\ y \in Int
    BY <1>1, <1>2 DEF Signed
  <2>2. MUL(s, d, c) = PutPair(d, p \div Values(2), p, c, codes)
    BY DEF MUL
  <2>3. codes \subseteq Flags
    BY <1>5
  <2> HIDE DEF x, y
  <2>4. p \in Int
    BY <2>1
  <2> HIDE DEF p
  <2>5. p \div Values(2) \in Int
    BY <1>2, <2>4
  <2> HIDE DEF codes
  <2> QED
    BY <2>2, <2>3, <2>4, <2>5, PutPairFits
<1> QED
  BY <1>6, <1>7, <1>8, <1>9, <1>10, <1>11

-----------------------------------------------------------------------------
(* Division and shifts. *)

LEMMA Powers ==
  ASSUME NEW k \in 0 .. 32
  PROVE  2^k \in Nat \ {0}
<1>1. 2^k \in Int
  OBVIOUS
<1>2. k \in {0, 1, 2, 3, 4, 5, 6} => 2^k > 0
  BY 2^0 > 0, 2^1 > 0, 2^2 > 0, 2^3 > 0, 2^4 > 0, 2^5 > 0, 2^6 > 0
<1>3. k \in {7, 8, 9, 10, 11, 12, 13} => 2^k > 0
  BY 2^7 > 0, 2^8 > 0, 2^9 > 0, 2^10 > 0, 2^11 > 0, 2^12 > 0, 2^13 > 0
<1>4. k \in {14, 15, 16, 17, 18, 19} => 2^k > 0
  BY 2^14 > 0, 2^15 > 0, 2^16 > 0, 2^17 > 0, 2^18 > 0, 2^19 > 0
<1>5. k \in {20, 21, 22, 23, 24, 25, 26} => 2^k > 0
  BY 2^20 > 0, 2^21 > 0, 2^22 > 0, 2^23 > 0, 2^24 > 0, 2^25 > 0, 2^26 > 0
<1>6. k \in {27, 28, 29, 30, 31, 32} => 2^k > 0
  BY 2^27 > 0, 2^28 > 0, 2^29 > 0, 2^30 > 0, 2^31 > 0, 2^32 > 0
<1>7. \/ k \in {0, 1, 2, 3, 4, 5, 6} \/ k \in {7, 8, 9, 10, 11, 12, 13}
      \/ k \in {14, 15, 16, 17, 18, 19} \/ k \in {20, 21, 22, 23, 24, 25, 26}
      \/ k \in {27, 28, 29, 30, 31, 32}
  OBVIOUS
<1> QED
  BY <1>1, <1>2, <1>3, <1>4, <1>5, <1>6, <1>7

LEMMA DoublePower ==
  ASSUME NEW k \in 4 .. 16
  PROVE  2^(2 * k) = 2^k * 2^k
<1>1. k \in {4, 5, 6, 7, 8, 9, 10} => 2^(2 * k) = 2^k * 2^k
  BY 2^8 = 2^4 * 2^4, 2 * 4 = 8, 2^10 = 2^5 * 2^5, 2 * 5 = 10, 2^12 = 2^6 * 2^6, 2 * 6 = 12, 2^14 = 2^7 * 2^7, 2 * 7 = 14, 2^16 = 2^8 * 2^8, 2 * 8 = 16, 2^18 = 2^9 * 2^9, 2 * 9 = 18, 2^20 = 2^10 * 2^10, 2 * 10 = 20
<1>2. k \in {11, 12, 13, 14, 15, 16} => 2^(2 * k) = 2^k * 2^k
  BY 2^22 = 2^11 * 2^11, 2 * 11 = 22, 2^24 = 2^12 * 2^12, 2 * 12 = 24, 2^26 = 2^13 * 2^13, 2 * 13 = 26, 2^28 = 2^14 * 2^14, 2 * 14 = 28, 2^30 = 2^15 * 2^15, 2 * 15 = 30, 2^32 = 2^16 * 2^16, 2 * 16 = 32
<1>3. k \in {4, 5, 6, 7, 8, 9, 10} \/ k \in {11, 12, 13, 14, 15, 16}
  OBVIOUS
<1> QED
  BY <1>1, <1>2, <1>3

LEMMA WordBitsFit ==
  /\ WordBits \in 4 .. 16 /\ 2^WordBits = Values(2)
  /\ ShiftSign = 2 * WordBits /\ ShiftSign \in 8 .. 32
  /\ 2^ShiftSign = Values(2) * Values(2)
<1>1. \E k \in 4 .. 16 : 2^k = Values(2)
  <2>1. ByteMSB \in {2, 4, 8, 16, 32, 64, 128} /\ WordMSB = 2 * ByteMSB * ByteMSB
    BY ALUAssumption
  <2>2. Values(2) = 4 * (ByteMSB * ByteMSB)
    BY <2>1 DEF Values, msb
  <2>3. 2^4 = 16 /\ 2^6 = 64 /\ 2^8 = 256 /\ 2^10 = 1024
    OBVIOUS
  <2>4. 2^12 = 4096 /\ 2^14 = 16384 /\ 2^16 = 65536
    OBVIOUS
  <2>5. CASE ByteMSB \in {2, 4, 8, 16}
    <3>1. ByteMSB * ByteMSB \in {4, 16, 64, 256}
      BY <2>5
    <3> QED
      BY <2>2, <2>3, <3>1
  <2>6. CASE ByteMSB \in {32, 64, 128}
    <3>1. ByteMSB * ByteMSB \in {1024, 4096, 16384}
      BY <2>6
    <3> QED
      BY <2>2, <2>4, <3>1
  <2> QED
    BY <2>1, <2>5, <2>6
<1>2. WordBits \in 4 .. 16 /\ 2^WordBits = Values(2)
  BY <1>1 DEF WordBits
<1>3. 2^(2 * WordBits) = 2^WordBits * 2^WordBits
  BY <1>2, DoublePower
<1> QED
  BY <1>2, <1>3 DEF ShiftSign

\* A number never grows when it is divided, nor passes another.
LEMMA DivBounds ==
  ASSUME NEW n \in Nat \ {0}, NEW x \in Nat, NEW y \in Nat, x <= y
  PROVE  /\ x \div n \in Nat /\ x \div n <= x
         /\ x \div n <= y \div n /\ y - x >= (y \div n) - (x \div n)
<1> DEFINE q == x \div n
           r == x % n
           p == y \div n
           t == y % n
<1>1. /\ q \in Int /\ r \in 0 .. n - 1 /\ x = q * n + r
      /\ p \in Int /\ t \in 0 .. n - 1 /\ y = p * n + t
  BY DivMod
<1> HIDE DEF q, r, p, t
<1>2. q >= 0
  <2> SUFFICES ASSUME q <= -1 PROVE FALSE
    BY <1>1
  <2>1. q * n <= (-1) * n /\ q * n \in Int
    BY <1>1
  <2> QED
    BY <1>1, <2>1
<1>3. q <= x
  <2>1. q * n >= q /\ q * n \in Int
    BY <1>1, <1>2
  <2> QED
    BY <1>1, <2>1
<1> DEFINE e == p - q
<1>4. e \in Int /\ y - x = e * n + (t - r)
  BY <1>1
<1>5. e >= 0
  <2> SUFFICES ASSUME e <= -1 PROVE FALSE
    BY <1>4
  <2> HIDE DEF e
  <2>1. e * n <= (-1) * n /\ e * n \in Int
    BY <1>4
  <2> QED
    BY <1>1, <1>4, <2>1
<1>6. y - x >= e
  <2> HIDE DEF e
  <2>1. CASE e = 0
    BY <2>1
  <2>2. CASE e >= 1
    <3>1. e * n = (e - 1) * n + n /\ (e - 1) * n >= e - 1 /\ (e - 1) * n \in Int
      BY <1>4, <2>2
    <3> QED
      BY <1>1, <1>4, <3>1
  <2> QED
    BY <1>4, <1>5, <2>1, <2>2
<1> QED
  BY <1>1, <1>2, <1>3, <1>5, <1>6 DEF q, p

\* A shift to the right stays within the width.
LEMMA ShiftedRightFits ==
  ASSUME NEW n \in Nat \ {0}, NEW v \in 0 .. n - 1, NEW k \in 0 .. 32
  PROVE  ShiftedRight(v, k, n) \in 0 .. n - 1
<1> DEFINE m == 2^k
           q == v \div m
           p == (n - 1) \div m
<1>1. m \in Nat \ {0}
  BY Powers
<1> HIDE DEF m
<1>2. q \in Nat /\ q <= v /\ q <= p /\ n - 1 - v >= p - q
  BY <1>1, DivBounds, v \in Nat, n - 1 \in Nat, v <= n - 1
<1>3. p \in Nat /\ p <= n - 1
  BY <1>1, DivBounds, n - 1 \in Nat, n - 1 <= n - 1
<1> HIDE DEF q, p
<1>4. ShiftedRight(v, k, n) = q + (IF v >= n \div 2 THEN (n - 1) - p ELSE 0)
  BY DEF ShiftedRight, q, p, m
<1> QED
  BY <1>2, <1>3, <1>4

\* What a shift makes of v is as wide as v, and its codes tell it.
LEMMA ShiftedFits ==
  ASSUME NEW bits \in {WordBits, ShiftSign}, NEW v \in 0 .. 2^bits - 1, NEW s \in Int, NEW u
  PROVE  LET new == Shifted(v, bits, s, u)
         IN  /\ new.v \in 0 .. 2^bits - 1 /\ new.cc \subseteq Flags
             /\ "Z" \in new.cc <=> new.v = 0
             /\ "N" \in new.cc <=> new.v >= (2^bits) \div 2
<1> DEFINE n == 2^bits
           count == s % (2 * ShiftSign)
           right == count >= ShiftSign
           k == IF right THEN 2 * ShiftSign - count ELSE count
           by == IF right /\ k = ShiftSign /\ u THEN 0 ELSE k
           w == IF right THEN ShiftedRight(v, by, n) ELSE (v * 2^k) % n
           lost == IF right THEN Bit(v, k - 1)
                   ELSE IF k <= bits /\ ~(k = 0 /\ bits = ShiftSign) THEN Bit(v, bits - k)
                   ELSE u
<1>1. bits \in 0 .. 32 /\ ShiftSign \in 8 .. 32
  BY WordBitsFit
<1>2. n \in Nat \ {0}
  BY <1>1, Powers
<1>3. count \in 0 .. 2 * ShiftSign - 1
  BY <1>1
<1>4. k \in 0 .. 32 /\ by \in 0 .. 32
  <2> HIDE DEF count
  <2> QED
    BY <1>1, <1>3
<1>5. Shifted(v, bits, s, u) =
        [v |-> w,
         cc |-> When(w >= n \div 2, "N") \cup When(w = 0, "Z") \cup When(lost, "C")
                \cup When((w >= n \div 2) # (v >= n \div 2), "V")]
  BY DEF Shifted
<1> HIDE DEF n, k, by, lost, right
<1>6. w \in 0 .. n - 1
  <2>1. v \in 0 .. n - 1
    BY DEF n
  <2>2. ShiftedRight(v, by, n) \in 0 .. n - 1
    BY <1>2, <1>4, <2>1, ShiftedRightFits
  <2>3. (v * 2^k) % n \in 0 .. n - 1
    <3>1. 2^k \in Int /\ v \in Int
      BY <1>4, Powers
    <3> DEFINE x == v * 2^k
    <3>2. x \in Int
      BY <3>1
    <3> HIDE DEF x
    <3>3. x % n \in 0 .. n - 1
      BY <1>2, <3>2, DivMod
    <3> QED
      BY <3>3 DEF x
  <2> QED
    BY <2>2, <2>3
<1> HIDE DEF w
<1>7. {"N", "Z", "V", "C"} \subseteq Flags
  BY DEF Flags
<1>8. /\ \A b : When(b, "N") \subseteq Flags /\ When(b, "Z") \subseteq Flags
      /\ \A b : When(b, "V") \subseteq Flags /\ When(b, "C") \subseteq Flags
  BY <1>7, WhenFits
<1>9. Shifted(v, bits, s, u).cc \subseteq Flags
  BY <1>5, <1>8
<1>10. /\ "Z" \in Shifted(v, bits, s, u).cc <=> w = 0
       /\ "N" \in Shifted(v, bits, s, u).cc <=> w >= n \div 2
  BY <1>5 DEF When
<1>11. Shifted(v, bits, s, u).v = w
  BY <1>5
<1> QED
  BY <1>6, <1>9, <1>10, <1>11 DEF n

LEMMA SignedFits ==
  ASSUME NEW l \in Lengths, NEW v \in Value(l)
  PROVE  /\ Signed(l, v) \in -msb(l) .. msb(l) - 1 /\ Signed(l, v) \in Int
         /\ Cut(l, Signed(l, v)) = v
<1> DEFINE h == msb(l)
<1>1. h \in Nat \ {0} /\ Values(l) = 2 * h /\ v \in 0 .. 2 * h - 1
  BY Widths DEF Value
<1> HIDE DEF h
<1>2. Signed(l, v) = IF v >= h THEN v - 2 * h ELSE v
  BY <1>1 DEF Signed, h
<1>3. Signed(l, v) \in -h .. h - 1
  BY <1>1, <1>2
<1>4. Signed(l, v) % (2 * h) = v
  <2>1. 2 * h \in Nat \ {0} /\ v - 2 * h = (-1) * (2 * h) + v /\ v = 0 * (2 * h) + v
    BY <1>1
  <2>2. (v - 2 * h) % (2 * h) = v /\ v % (2 * h) = v
    BY <1>1, <2>1, ModUnique, -1 \in Int, 0 \in Int
  <2> QED
    BY <1>2, <2>2
<1> QED
  BY <1>1, <1>3, <1>4 DEF h, Cut

LEMMA DIVFits ==
  ASSUME NEW D, NEW c, Fits(D, c), NEW s \in Word, NEW d \in D, Beside(d) \in D
  PROVE  Fits(D, DIV(s, d, c))
<1> DEFINE p == Pair(d, c)
           q == Quotient(p, s)
           new == PutPair(d, q, p - q * s, c, {})
           codes == NZ(2, new.R[d]) \cup When(p = 0, "V")
<1>1. /\ c.R[d] \in Word /\ c.R[Beside(d)] \in Int /\ s \in Nat /\ Word = Value(2)
      /\ Values(2) \in Int
  BY ReadFits, ByteInWord DEF Lengths, Word
<1>2. p \in Int
  <2>1. Signed(2, c.R[d]) \in Int
    BY <1>1, SignedFits DEF Lengths
  <2> QED
    BY <1>1, <2>1 DEF Pair
<1>3. {"C"} \subseteq Flags /\ {"V"} \subseteq Flags /\ codes \subseteq Flags
  BY NZFits, WhenFits DEF Flags
<1>4. CASE s = 0
  <2>1. DIV(s, d, c) = Test(c, {"C"})
    BY <1>4 DEF DIV
  <2> QED
    BY <1>3, <2>1, TestFits
<1>5. CASE s # 0 /\ q >= Values(2)
  <2>1. DIV(s, d, c) = Test(c, {"V"})
    BY <1>5 DEF DIV
  <2> QED
    BY <1>3, <2>1, TestFits
<1>6. CASE s # 0 /\ ~(q >= Values(2))
  <2>1. DIV(s, d, c) = [new EXCEPT !.cc = codes]
    BY <1>6 DEF DIV
  <2>2. q \in Int /\ p - q * s \in Int
    <3> HIDE DEF p
    <3>1. q \in Int
      BY <1>1, <1>2, <1>6 DEF Quotient
    <3> HIDE DEF q
    <3> QED
      BY <1>1, <1>2, <3>1
  <2>3. Fits(D, new)
    <3> HIDE DEF p, q
    <3> QED
      BY <2>2, PutPairFits
  <2>4. DIV(s, d, c).R = new.R /\ DIV(s, d, c).cc = codes
    BY <2>1 DEF PutPair
  <2> QED
    BY <1>3, <2>3, <2>4 DEF Fits
<1> QED
  BY <1>4, <1>5, <1>6

LEMMA ShiftFits ==
  ASSUME NEW D, NEW c, Fits(D, c), NEW s \in Word, NEW d \in D, Beside(d) \in D, NEW u
  PROVE  Fits(D, ASH(s, d, c, u)) /\ Fits(D, ASHC(s, d, c, u))
<1> DEFINE n == Values(2)
           high == c.R[d]
           low == c.R[Beside(d)]
<1>1. high \in 0 .. n - 1 /\ low \in 0 .. n - 1 /\ s \in Int /\ n \in Nat \ {0}
  BY ReadFits, ByteInWord DEF Lengths, Word, Value
<1>2. Fits(D, ASH(s, d, c, u))
  <2> DEFINE new == Shifted(high, WordBits, s, u)
  <2>1. new.v \in 0 .. n - 1 /\ new.cc \subseteq Flags
    BY <1>1, WordBitsFit, ShiftedFits
  <2>2. ASH(s, d, c, u) = Put(2, d, new.v, c, new.cc)
    BY DEF ASH
  <2>3. new.v \in Int
    BY <1>1, <2>1
  <2> HIDE DEF new
  <2> QED
    BY <2>1, <2>2, <2>3, PutFits DEF Lengths
<1>3. Fits(D, ASHC(s, d, c, u))
  <2> DEFINE v == high * n + low
             new == Shifted(v, ShiftSign, s, u)
             nn == 2^ShiftSign
  <2>1. nn = n * n
    BY WordBitsFit
  <2>2. v \in 0 .. nn - 1
    <3> HIDE DEF high, low, n, nn
    <3>1. high * n <= (n - 1) * n /\ high * n \in Nat /\ (n - 1) * n = n * n - n /\ n * n \in Int
      BY <1>1
    <3> QED
      BY <1>1, <2>1, <3>1
  <2> HIDE DEF v
  <2>3. new.v \in 0 .. nn - 1 /\ new.cc \subseteq Flags
    BY <1>1, <2>2, ShiftedFits
  <2>4. nn \in Int
    BY <1>1, <2>1
  <2> HIDE DEF nn
  <2>5. new.v \in Int
    BY <2>3, <2>4
  <2>6. ASHC(s, d, c, u) = PutPair(d, new.v \div n, new.v, c, new.cc)
    BY DEF ASHC, v
  <2> HIDE DEF new, n
  <2>7. new.v \div n \in Int
    BY <1>1, <2>5
  <2> QED
    BY <2>3, <2>5, <2>6, <2>7, PutPairFits
<1> QED
  BY <1>2, <1>3

-----------------------------------------------------------------------------
(* Instructions whose N and Z tell the value w they store, which may have  *)
(* one bit more than the length l.                                         *)

StoresValue(l, d, w, c, new) ==
  /\ w \in 0 .. 2 * Values(l) - 1
  /\ new.R = [c.R EXCEPT ![d] = Written(l, @, w)]
  /\ ("Z" \in new.cc) = (Cut(l, w) = 0)
  /\ ("N" \in new.cc) = Sign(l, w)

\* One that stores nothing, its codes those of what is there.
Looks(l, d, c, new) ==
  /\ new.R = c.R
  /\ ("Z" \in new.cc) = (read(l, d, c) = 0)
  /\ ("N" \in new.cc) = (read(l, d, c) >= msb(l))

Tells(l, d, new) ==
  /\ ("Z" \in new.cc) = (read(l, d, new) = 0)
  /\ ("N" \in new.cc) = (read(l, d, new) >= msb(l))

LEMMA StoresTells ==
  ASSUME NEW D, NEW c, Fits(D, c), NEW l \in Lengths, NEW d \in D, NEW w, NEW new,
         StoresValue(l, d, w, c, new)
  PROVE  Tells(l, d, new)
<1> DEFINE n == Values(l)
           old == c.R[d]
<1>1. n \in Nat \ {0} /\ w \in 0 .. 2 * n - 1
  BY Widths DEF StoresValue
<1>2. old \in Word /\ new.R[d] = Written(l, old, w)
  BY DEF Fits, StoresValue
<1>3. Cut(l, Written(l, old, w)) = Cut(l, w)
  <2>1. CASE w < n
    <3>1. w \in Value(l)
      BY <1>1, <2>1 DEF Value
    <3> QED
      BY <1>2, <3>1, WrittenValue, CutFits, ByteInWord
  <2>2. CASE l = 2
    <3>1. Written(l, old, w) = Cut(2, w)
      BY <2>2 DEF Written
    <3> QED
      BY <1>1, <2>2, <3>1, CutFits
  <2>3. CASE l = 1 /\ w >= n
    <3> DEFINE v == w - n
    <3>1. v \in Value(1) /\ v \in Int /\ w = Values(1) + v
      BY <1>1, <2>3 DEF Value
    <3> HIDE DEF v
    <3>2. Cut(1, Written(1, old, w)) = v
      BY <1>2, <3>1, WrittenAbove
    <3>3. Cut(1, w) = v
      <4>1. Values(1) \in Nat \ {0} /\ v \in 0 .. Values(1) - 1 /\ w = 1 * Values(1) + v
        BY <1>1, <2>3, <3>1 DEF Value
      <4> QED
        BY <4>1, ModUnique, 1 \in Int DEF Cut
    <3> QED
      BY <2>3, <3>2, <3>3
  <2> QED
    BY <1>1, <2>1, <2>2, <2>3 DEF Lengths
<1>4. read(l, d, new) = Cut(l, w)
  BY <1>2, <1>3 DEF read
<1> QED
  BY <1>4 DEF Tells, StoresValue, Sign

LEMMA LooksTells ==
  ASSUME NEW c, NEW l, NEW d, NEW new, Looks(l, d, c, new)
  PROVE  Tells(l, d, new)
BY DEF Looks, Tells, read

\* The high byte stays when what is stored under it has no bit more.
LEMMA StoresUnder ==
  ASSUME NEW D, NEW c, Fits(D, c), NEW d \in D, NEW w \in Value(1), NEW new,
         StoresValue(1, d, w, c, new)
  PROVE  new.R[d] \div Values(1) = c.R[d] \div Values(1)
<1>1. c.R[d] \in Word /\ new.R[d] = Written(1, c.R[d], w)
  BY DEF Fits, StoresValue
<1> QED
  BY <1>1, WrittenValue DEF Lengths

LEMMA NZTells ==
  ASSUME NEW l, NEW w, NEW more, "N" \notin more, "Z" \notin more
  PROVE  /\ ("Z" \in NZ(l, w) \cup more) = (Cut(l, w) = 0)
         /\ ("N" \in NZ(l, w) \cup more) = Sign(l, w)
<1>1. ("Z" \in NZ(l, w) \cup more) <=> (Cut(l, w) = 0)
  BY DEF NZ, When
<1>2. ("N" \in NZ(l, w) \cup more) <=> Sign(l, w)
  BY DEF NZ, When
<1> QED
  BY <1>1, <1>2 DEF Sign

LEMMA PutStores ==
  ASSUME NEW l \in Lengths, NEW d, NEW w, NEW c, NEW more,
         w \in 0 .. 2 * Values(l) - 1, "N" \notin more, "Z" \notin more
  PROVE  StoresValue(l, d, w, c, Put(l, d, w, c, NZ(l, w) \cup more))
BY NZTells DEF StoresValue, Put

\* The same, when the codes are those of u, of which w is cut.
LEMMA PutCutStores ==
  ASSUME NEW l \in Lengths, NEW d, NEW u \in Int, NEW c, NEW more,
         "N" \notin more, "Z" \notin more
  PROVE  /\ StoresValue(l, d, Cut(l, u), c, Put(l, d, Cut(l, u), c, NZ(l, u) \cup more))
         /\ Cut(l, u) \in Value(l)
<1> DEFINE w == Cut(l, u)
<1>1. Cut(l, w) = w /\ w \in Value(l)
  BY CutFits, ByteInWord
<1>2. w \in 0 .. 2 * Values(l) - 1
  BY <1>1, Widths DEF Value
<1>3. NZ(l, w) = NZ(l, u)
  BY <1>1 DEF NZ, Sign
<1> HIDE DEF w
<1>4. StoresValue(l, d, w, c, Put(l, d, w, c, NZ(l, w) \cup more))
  BY <1>2, PutStores
<1> QED
  BY <1>1, <1>3, <1>4 DEF w

\* Values of a length are in the range that StoresValue allows.
LEMMA ValueStores ==
  ASSUME NEW l \in Lengths, NEW w \in Value(l)
  PROVE  w \in 0 .. 2 * Values(l) - 1 /\ Cut(l, w) = w
<1>1. Values(l) \in Nat \ {0} /\ w \in 0 .. Values(l) - 1 /\ w \in Int
  BY Widths DEF Value
<1> QED
  BY <1>1, CutFits

\* The single operand instructions, but for COM, and what they store.
LEMMA SingleStores ==
  ASSUME NEW D, NEW c, Fits(D, c), NEW l \in Lengths, NEW d \in D
  PROVE  /\ \E w \in Value(l) : StoresValue(l, d, w, c, CLR(l, d, c))
         /\ \E w : /\ StoresValue(l, d, w, c, INC(l, d, c))
                   /\ l = 2 \/ read(l, d, c) # Values(l) - 1 => w \in Value(l)
         /\ \E w \in Value(l) : StoresValue(l, d, w, c, DEC(l, d, c))
         /\ \E w \in Value(l) : StoresValue(l, d, w, c, NEG(l, d, c))
         /\ \/ Looks(l, d, c, ADC(l, d, c))
            \/ \E w \in Value(l) : StoresValue(l, d, w, c, ADC(l, d, c))
         /\ \/ Looks(l, d, c, SBC(l, d, c))
            \/ \E w \in Value(l) : StoresValue(l, d, w, c, SBC(l, d, c))
         /\ \E w : /\ StoresValue(l, d, w, c, ROR(l, d, c))
                   /\ "C" \notin c.cc => w \in Value(l)
         /\ \E w \in Value(l) : StoresValue(l, d, w, c, ROL(l, d, c))
         /\ \E w \in Value(l) : StoresValue(l, d, w, c, ASR(l, d, c))
         /\ \E w \in Value(l) : StoresValue(l, d, w, c, ASL(l, d, c))
<1> DEFINE v == read(l, d, c)
           n == Values(l)
           h == msb(l)
<1>1. /\ v \in 0 .. n - 1 /\ v \in Int /\ h \in Nat \ {0} /\ n = 2 * h
      /\ Value(l) = 0 .. n - 1
  BY ReadFits, Widths DEF Value
<1>2. ASSUME NEW f \in {"V", "C"}, NEW b
      PROVE  "N" \notin When(b, f) /\ "Z" \notin When(b, f)
  BY DEF When
<1>3. Looks(l, d, c, Test(c, NZ(l, v)))
  <2>1. Cut(l, v) = v
    BY <1>1, CutFits
  <2> QED
    BY <2>1 DEF Looks, Test, NZ, When, Sign
<1> HIDE DEF v, n, h
<1>4. StoresValue(l, d, 0, c, CLR(l, d, c)) /\ 0 \in Value(l)
  <2>1. 0 \in Value(l)
    BY <1>1
  <2>2. Cut(l, 0) = 0 /\ 0 \in 0 .. 2 * Values(l) - 1
    BY <2>1, ValueStores
  <2>3. ~Sign(l, 0)
    BY <1>1, <2>2 DEF Sign, h
  <2> QED
    BY <2>1, <2>2, <2>3 DEF CLR, StoresValue, Put, Sign
<1>5. \E w : /\ StoresValue(l, d, w, c, INC(l, d, c))
             /\ l = 2 \/ v # n - 1 => w \in Value(l)
  <2> DEFINE w == Cut(2, v + 1)
             more == (c.cc \cap {"C"}) \cup When(w = msb(l), "V")
  <2>1. INC(l, d, c) = Put(l, d, w, c, NZ(l, w) \cup more)
    BY DEF INC, NZVKeepC, NZKeepC, v
  <2>2. w \in 0 .. 2 * n - 1 /\ (l = 2 \/ v # n - 1 => w \in Value(l))
    <3>1. CASE l = 2
      <4>1. w \in Value(l)
        BY <1>1, <3>1, CutFits
      <4> HIDE DEF w
      <4> QED
        BY <1>1, <4>1
    <3>2. CASE l = 1
      <4>1. v + 1 \in 0 .. n
        BY <1>1
      <4>2. 2 * n <= Values(2) /\ Values(2) \in Nat /\ Word = 0 .. Values(2) - 1
        BY <3>2, ByteInWord DEF n, Word, Value
      <4>3. v + 1 \in Word /\ v + 1 \in Int
        BY <1>1, <4>1, <4>2
      <4>4. w = v + 1
        BY <4>3, CutFits DEF Lengths, Word
      <4> HIDE DEF w
      <4> QED
        BY <1>1, <3>2, <4>1, <4>4
    <3> QED
      BY <3>1, <3>2 DEF Lengths
  <2>3. "N" \notin more /\ "Z" \notin more
    BY <1>2
  <2> HIDE DEF w, more
  <2>4. StoresValue(l, d, w, c, INC(l, d, c))
    BY <2>1, <2>2, <2>3, PutStores DEF n
  <2> QED
    BY <2>2, <2>4
<1>6. \E w \in Value(l) : StoresValue(l, d, w, c, DEC(l, d, c))
  <2> DEFINE w == Cut(l, v - 1)
             more == (c.cc \cap {"C"}) \cup When(w = msb(l), "V")
  <2>1. DEC(l, d, c) = Put(l, d, w, c, NZ(l, w) \cup more)
    BY DEF DEC, NZVKeepC, NZKeepC, v
  <2>2. w \in Value(l)
    BY <1>1, CutFits
  <2>3. "N" \notin more /\ "Z" \notin more
    BY <1>2
  <2> HIDE DEF w, more
  <2> QED
    BY <2>1, <2>2, <2>3, PutStores, ValueStores
<1>7. \E w \in Value(l) : StoresValue(l, d, w, c, NEG(l, d, c))
  <2> DEFINE w == Cut(l, -v)
             more == When(w = msb(l), "V") \cup When(w # 0, "C")
  <2>1. NEG(l, d, c) = Put(l, d, w, c, NZ(l, w) \cup more)
    BY DEF NEG, v
  <2>2. w \in Value(l)
    BY <1>1, CutFits
  <2>3. "N" \notin more /\ "Z" \notin more
    BY <1>2
  <2> HIDE DEF w, more
  <2> QED
    BY <2>1, <2>2, <2>3, PutStores, ValueStores
<1>8. \/ Looks(l, d, c, ADC(l, d, c))
      \/ \E w \in Value(l) : StoresValue(l, d, w, c, ADC(l, d, c))
  <2> DEFINE u == v + 1
             more == When(v = WordMSB - 1, "V") \cup When(v = Values(2) - 1, "C")
  <2>1. ADC(l, d, c) = IF "C" \in c.cc THEN Put(l, d, Cut(l, u), c, NZ(l, u) \cup more)
                       ELSE Test(c, NZ(l, v))
    BY DEF ADC, v
  <2>2. "N" \notin more /\ "Z" \notin more /\ u \in Int
    BY <1>1, <1>2
  <2> HIDE DEF u, more
  <2> QED
    BY <1>3, <2>1, <2>2, PutCutStores
<1>9. \/ Looks(l, d, c, SBC(l, d, c))
      \/ \E w \in Value(l) : StoresValue(l, d, w, c, SBC(l, d, c))
  <2> DEFINE u == v - 1
             V == When(v = WordMSB, "V")
             more == V \cup When(v # 0, "C")
             kept == V \cup {"C"}
  <2>1. SBC(l, d, c) = IF "C" \in c.cc THEN Put(l, d, Cut(l, u), c, NZ(l, u) \cup more)
                       ELSE Test(c, NZ(l, v) \cup kept)
    BY DEF SBC, v
  <2>2. /\ "N" \notin more /\ "Z" \notin more /\ u \in Int
        /\ "N" \notin kept /\ "Z" \notin kept
    BY <1>1, <1>2
  <2> HIDE DEF u, more, kept
  <2>3. Looks(l, d, c, Test(c, NZ(l, v) \cup kept))
    BY <1>3, <2>2 DEF Looks, Test
  <2> QED
    BY <2>1, <2>2, <2>3, PutCutStores
<1>10. \E w : StoresValue(l, d, w, c, ROR(l, d, c)) /\ ("C" \notin c.cc => w \in Value(l))
  <2> DEFINE w == (v \div 2) + n * Carry(c)
             lost == v % 2 = 1
             more == When(lost, "C") \cup When(Sign(l, w) # lost, "V")
  <2>1. ROR(l, d, c) = Put(l, d, w, c, NZ(l, w) \cup more)
    BY DEF ROR, v, n
  <2>2. w \in 0 .. 2 * n - 1 /\ ("C" \notin c.cc => w \in Value(l))
    <3>1. v \div 2 \in 0 .. n - 1
      BY <1>1
    <3>2. n * Carry(c) = IF "C" \in c.cc THEN n ELSE 0
      BY <1>1 DEF Carry
    <3> QED
      BY <1>1, <3>1, <3>2
  <2>3. "N" \notin more /\ "Z" \notin more
    BY <1>2
  <2> HIDE DEF w, more
  <2> QED
    BY <2>1, <2>2, <2>3, PutStores DEF n
<1>11. ASSUME NEW in \in Int
       PROVE  \E w \in Value(l) : StoresValue(l, d, w, c, ShiftedLeft(l, d, in, c))
  <2> DEFINE u == 2 * v + in
             more == When(Sign(l, v), "C") \cup When(Sign(l, u) # Sign(l, v), "V")
  <2>1. ShiftedLeft(l, d, in, c) = Put(l, d, Cut(l, u), c, NZ(l, u) \cup more)
    BY DEF ShiftedLeft, v
  <2>2. "N" \notin more /\ "Z" \notin more /\ u \in Int
    BY <1>1, <1>2
  <2> HIDE DEF u, more
  <2> QED
    BY <2>1, <2>2, PutCutStores
<1>12. /\ \E w \in Value(l) : StoresValue(l, d, w, c, ROL(l, d, c))
       /\ \E w \in Value(l) : StoresValue(l, d, w, c, ASL(l, d, c))
  <2>1. Carry(c) \in Int /\ 0 \in Int
    BY DEF Carry
  <2> QED
    BY <1>11, <2>1 DEF ROL, ASL
<1>13. \E w \in Value(l) : StoresValue(l, d, w, c, ASR(l, d, c))
  <2> DEFINE w == (v \div 2) + (IF Sign(l, v) THEN h ELSE 0)
             lost == v % 2 = 1
             more == When(lost, "C") \cup When(Sign(l, v) \/ lost, "V")
  <2>1. ASR(l, d, c) = Put(l, d, w, c, NZ(l, w) \cup more)
    BY DEF ASR, v, h
  <2>2. w \in Value(l)
    BY <1>1
  <2>3. "N" \notin more /\ "Z" \notin more
    BY <1>2
  <2> HIDE DEF w, more
  <2> QED
    BY <2>1, <2>2, <2>3, PutStores, ValueStores
<1> QED
  BY <1>4, <1>5, <1>6, <1>7, <1>8, <1>9, <1>10, <1>12, <1>13 DEF v, n

\* The double operand instructions that store a result of their length.
LEMMA DoubleStores ==
  ASSUME NEW D, NEW c, Fits(D, c), NEW l \in Lengths, NEW s \in Value(l), NEW d \in D
  PROVE  /\ \E w \in Value(l) : StoresValue(l, d, w, c, BIC(l, s, d, c))
         /\ \E w \in Value(l) : StoresValue(l, d, w, c, BIS(l, s, d, c))
<1> DEFINE v == read(l, d, c)
<1>1. v \in Value(l) /\ Values(l) - 1 - s \in Value(l)
  <2>1. Values(l) \in Nat \ {0}
    BY Widths
  <2> QED
    BY <2>1, ReadFits DEF Value
<1>2. "N" \notin c.cc \cap {"C"} /\ "Z" \notin c.cc \cap {"C"}
  OBVIOUS
<1>3. ASSUME NEW w \in Value(l)
      PROVE  StoresValue(l, d, w, c, Put(l, d, w, c, NZKeepC(l, w, c)))
  BY <1>2, PutStores, ValueStores DEF NZKeepC
<1>4. And(Values(l) - 1 - s, v) \in Value(l) /\ Or(s, v) \in Value(l)
  BY <1>1, LogicFits
<1> QED
  BY <1>3, <1>4 DEF BIC, BIS

=============================================================================
