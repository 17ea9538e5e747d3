-------------------------- MODULE ErasureCodeProofs --------------------------
(***************************************************************************)
(* What the tables and the matrices of the library promise, for every byte *)
(* and every number of data and parity shards New accepts.                 *)
(*                                                                         *)
(* The field.  A byte is its bits, so galAdd and Product obey the laws of  *)
(* a ring; 2 has order 255, so every byte but 0 is a power of it, and the  *)
(* logarithms and exponentials of galMultiply and galDivide compute the    *)
(* products and quotients of a field.                                      *)
(*                                                                         *)
(* The matrices.  Sums of products can be exchanged, so what an inverse    *)
(* undoes is undone for every vector.  The row operations of               *)
(* gaussianElimination keep the vectors that a matrix takes to 0, and it   *)
(* never meets a column without a pivot when that is the zero vector       *)
(* alone: then Invert finds the inverse.  Any DataShards rows take only    *)
(* the zero vector to 0, because a row of Vandermonde or Cauchy times a    *)
(* vector is the value of a polynomial at the row's number, and no         *)
(* polynomial has more roots than its degree.                              *)
(***************************************************************************)
EXTENDS ErasureCode, InductionProofs, SequenceTheorems, TLAPS

-----------------------------------------------------------------------------
(* Bytes as bits.                                                          *)

On(n, w) == (n \div w) % 2 = 1

(* A nibble is the sum of its bits, and any four bits make one.            *)
LEMMA NibbleBits ==
  ASSUME NEW n \in Nibble
  PROVE  n = (IF On(n, 1) THEN 1 ELSE 0) + (IF On(n, 2) THEN 2 ELSE 0)
             + (IF On(n, 4) THEN 4 ELSE 0) + (IF On(n, 8) THEN 8 ELSE 0)
  BY DEF On, Nibble

LEMMA BitsNibble ==
  ASSUME NEW p \in BOOLEAN, NEW q \in BOOLEAN, NEW r \in BOOLEAN, NEW s \in BOOLEAN,
         NEW n, n = (IF p THEN 1 ELSE 0) + (IF q THEN 2 ELSE 0) + (IF r THEN 4 ELSE 0)
                    + (IF s THEN 8 ELSE 0)
  PROVE  /\ n \in Nibble
         /\ (On(n, 1) <=> p) /\ (On(n, 2) <=> q) /\ (On(n, 4) <=> r) /\ (On(n, 8) <=> s)
  BY DEF On, Nibble

NibbleXor(n, a, b) ==
  /\ n \in Nibble
  /\ On(n, 1) <=> ~(On(a, 1) <=> On(b, 1))
  /\ On(n, 2) <=> ~(On(a, 2) <=> On(b, 2))
  /\ On(n, 4) <=> ~(On(a, 4) <=> On(b, 4))
  /\ On(n, 8) <=> ~(On(a, 8) <=> On(b, 8))

(* XorNibble is exclusive or, bit by bit.                                  *)
LEMMA NibblesXored ==
  ASSUME NEW a \in Nibble, NEW b \in Nibble
  PROVE  NibbleXor(XorNibble[a][b], a, b)
<1> DEFINE n == XorNibble[a][b]
           differs(w) == ~(On(a, w) <=> On(b, w))
           p == ~(On(a, 1) <=> On(b, 1))
           q == ~(On(a, 2) <=> On(b, 2))
           r == ~(On(a, 4) <=> On(b, 4))
           s == ~(On(a, 8) <=> On(b, 8))
<1>1. n = (IF (a \div 1) % 2 # (b \div 1) % 2 THEN 1 ELSE 0)
        + (IF (a \div 2) % 2 # (b \div 2) % 2 THEN 2 ELSE 0)
        + (IF (a \div 4) % 2 # (b \div 4) % 2 THEN 4 ELSE 0)
        + (IF (a \div 8) % 2 # (b \div 8) % 2 THEN 8 ELSE 0)
  BY DEF XorNibble
<1>2. /\ (a \div 1) % 2 # (b \div 1) % 2 <=> p
      /\ (a \div 2) % 2 # (b \div 2) % 2 <=> q
      /\ (a \div 4) % 2 # (b \div 4) % 2 <=> r
      /\ (a \div 8) % 2 # (b \div 8) % 2 <=> s
  BY DEF On, Nibble
<1>3. n = (IF p THEN 1 ELSE 0) + (IF q THEN 2 ELSE 0) + (IF r THEN 4 ELSE 0)
          + (IF s THEN 8 ELSE 0)
  <2> HIDE DEF n, p, q, r, s
  <2> QED BY <1>1, <1>2
<1>4. p \in BOOLEAN /\ q \in BOOLEAN /\ r \in BOOLEAN /\ s \in BOOLEAN
  OBVIOUS
<1>5. n \in Nibble /\ (On(n, 1) <=> p) /\ (On(n, 2) <=> q) /\ (On(n, 4) <=> r) /\ (On(n, 8) <=> s)
  <2> HIDE DEF n, p, q, r, s
  <2> QED BY <1>3, <1>4, BitsNibble
<1> QED BY <1>5 DEF NibbleXor

(* The bits of a byte are those of its two nibbles.                        *)
LEMMA ByteHalves ==
  ASSUME NEW a \in Byte
  PROVE  /\ a \div 16 \in Nibble /\ a % 16 \in Nibble /\ a = 16 * (a \div 16) + (a % 16)
         /\ On(a, 1) <=> On(a % 16, 1)
         /\ On(a, 2) <=> On(a % 16, 2)
         /\ On(a, 4) <=> On(a % 16, 4)
         /\ On(a, 8) <=> On(a % 16, 8)
         /\ On(a, 16) <=> On(a \div 16, 1)
         /\ On(a, 32) <=> On(a \div 16, 2)
         /\ On(a, 64) <=> On(a \div 16, 4)
         /\ On(a, 128) <=> On(a \div 16, 8)
  BY DEF On, Byte, Nibble

(* A nibble is its bits.                                                   *)
LEMMA NibblesSame ==
  ASSUME NEW a \in Nibble, NEW b \in Nibble, On(a, 1) <=> On(b, 1), On(a, 2) <=> On(b, 2),
         On(a, 4) <=> On(b, 4), On(a, 8) <=> On(b, 8)
  PROVE  a = b
  BY DEF On, Nibble

(* A byte is its bits.                                                     *)
LEMMA BitsSame ==
  ASSUME NEW a \in Byte, NEW b \in Byte,
         On(a, 1) <=> On(b, 1), On(a, 2) <=> On(b, 2), On(a, 4) <=> On(b, 4),
         On(a, 8) <=> On(b, 8), On(a, 16) <=> On(b, 16), On(a, 32) <=> On(b, 32),
         On(a, 64) <=> On(b, 64), On(a, 128) <=> On(b, 128)
  PROVE  a = b
<1>1. a \div 16 = b \div 16
  <2> DEFINE c == a \div 16
             d == b \div 16
  <2>1. /\ c \in Nibble /\ d \in Nibble
        /\ On(c, 1) <=> On(d, 1)
        /\ On(c, 2) <=> On(d, 2)
        /\ On(c, 4) <=> On(d, 4)
        /\ On(c, 8) <=> On(d, 8)
    BY ByteHalves
  <2> HIDE DEF c, d
  <2>2. c = d
    BY <2>1, NibblesSame
  <2> QED BY <2>2 DEF c, d
<1>2. a % 16 = b % 16
  <2> DEFINE c == a % 16
             d == b % 16
  <2>1. /\ c \in Nibble /\ d \in Nibble
        /\ On(c, 1) <=> On(d, 1)
        /\ On(c, 2) <=> On(d, 2)
        /\ On(c, 4) <=> On(d, 4)
        /\ On(c, 8) <=> On(d, 8)
    BY ByteHalves
  <2> HIDE DEF c, d
  <2>2. c = d
    BY <2>1, NibblesSame
  <2> QED BY <2>2 DEF c, d
<1> QED BY <1>1, <1>2, ByteHalves

(* Two nibbles make a byte.                                                *)
LEMMA HalvesByte ==
  ASSUME NEW h \in Nibble, NEW l \in Nibble
  PROVE  /\ 16 * h + l \in Byte /\ (16 * h + l) \div 16 = h /\ (16 * h + l) % 16 = l
  BY DEF Byte, Nibble

(* galAdd is exclusive or, bit by bit.                                     *)
LEMMA BitsAdded ==
  ASSUME NEW a \in Byte, NEW b \in Byte
  PROVE  /\ galAdd(a, b) \in Byte
         /\ On(galAdd(a, b), 1) <=> ~(On(a, 1) <=> On(b, 1))
         /\ On(galAdd(a, b), 2) <=> ~(On(a, 2) <=> On(b, 2))
         /\ On(galAdd(a, b), 4) <=> ~(On(a, 4) <=> On(b, 4))
         /\ On(galAdd(a, b), 8) <=> ~(On(a, 8) <=> On(b, 8))
         /\ On(galAdd(a, b), 16) <=> ~(On(a, 16) <=> On(b, 16))
         /\ On(galAdd(a, b), 32) <=> ~(On(a, 32) <=> On(b, 32))
         /\ On(galAdd(a, b), 64) <=> ~(On(a, 64) <=> On(b, 64))
         /\ On(galAdd(a, b), 128) <=> ~(On(a, 128) <=> On(b, 128))
<1> DEFINE h == XorNibble[a \div 16][b \div 16]
           l == XorNibble[a % 16][b % 16]
           n == galAdd(a, b)
<1>1. NibbleXor(h, a \div 16, b \div 16) /\ NibbleXor(l, a % 16, b % 16)
  BY ByteHalves, NibblesXored
<1>2. n = 16 * h + l
  BY DEF galAdd, Xor
<1> HIDE DEF h, l, n
<1>3. n \in Byte /\ n \div 16 = h /\ n % 16 = l
  BY <1>1, <1>2, HalvesByte DEF NibbleXor
<1> USE DEF n
<1> HIDE DEF n
<1>4. /\ n \in Byte
      /\ On(n, 1) <=> ~(On(a, 1) <=> On(b, 1))
      /\ On(n, 2) <=> ~(On(a, 2) <=> On(b, 2))
      /\ On(n, 4) <=> ~(On(a, 4) <=> On(b, 4))
      /\ On(n, 8) <=> ~(On(a, 8) <=> On(b, 8))
      /\ On(n, 16) <=> ~(On(a, 16) <=> On(b, 16))
      /\ On(n, 32) <=> ~(On(a, 32) <=> On(b, 32))
      /\ On(n, 64) <=> ~(On(a, 64) <=> On(b, 64))
      /\ On(n, 128) <=> ~(On(a, 128) <=> On(b, 128))
  BY <1>1, <1>3, ByteHalves DEF NibbleXor
<1> QED BY <1>4 DEF n

Weights == {1, 2, 4, 8, 16, 32, 64, 128}

(* The last three facts, with the weight as a variable.                    *)
LEMMA AddBits ==
  ASSUME NEW a \in Byte, NEW b \in Byte
  PROVE  /\ galAdd(a, b) \in Byte
         /\ \A w \in Weights : On(galAdd(a, b), w) <=> ~(On(a, w) <=> On(b, w))
  BY BitsAdded DEF Weights

LEMMA ByBits ==
  ASSUME NEW a \in Byte, NEW b \in Byte, \A w \in Weights : On(a, w) <=> On(b, w)
  PROVE  a = b
  BY BitsSame DEF Weights

(* 0 has no bits.                                                          *)
LEMMA NoBits ==
  0 \in Byte /\ \A w \in Weights : ~On(0, w)
  BY DEF On, Weights, Byte

(* The bytes are a group under galAdd.                                     *)
LEMMA Added ==
  ASSUME NEW a \in Byte, NEW b \in Byte, NEW c \in Byte
  PROVE  /\ galAdd(a, b) \in Byte /\ galAdd(a, b) = galAdd(b, a)
         /\ galAdd(galAdd(a, b), c) = galAdd(a, galAdd(b, c))
         /\ galAdd(a, 0) = a /\ galAdd(0, a) = a
<1>1. galAdd(a, b) \in Byte /\ galAdd(b, a) \in Byte /\ galAdd(b, c) \in Byte
  BY AddBits
<1>2. galAdd(a, b) = galAdd(b, a)
  <2>1. \A w \in Weights : On(galAdd(a, b), w) <=> On(galAdd(b, a), w)
    BY AddBits
  <2> QED BY <1>1, <2>1, ByBits
<1>3. galAdd(galAdd(a, b), c) = galAdd(a, galAdd(b, c))
  <2>1. galAdd(galAdd(a, b), c) \in Byte /\ galAdd(a, galAdd(b, c)) \in Byte
    BY <1>1, AddBits
  <2>2. ASSUME NEW w \in Weights
        PROVE  On(galAdd(galAdd(a, b), c), w) <=> On(galAdd(a, galAdd(b, c)), w)
    <3>1. /\ On(galAdd(a, b), w) <=> ~(On(a, w) <=> On(b, w))
          /\ On(galAdd(b, c), w) <=> ~(On(b, w) <=> On(c, w))
          /\ On(galAdd(galAdd(a, b), c), w) <=> ~(On(galAdd(a, b), w) <=> On(c, w))
          /\ On(galAdd(a, galAdd(b, c)), w) <=> ~(On(a, w) <=> On(galAdd(b, c), w))
      BY <1>1, AddBits
    <3> QED BY <3>1
  <2> QED BY <2>1, <2>2, ByBits
<1>4. galAdd(a, 0) = a
  <2>1. galAdd(a, 0) \in Byte /\ \A w \in Weights : On(galAdd(a, 0), w) <=> On(a, w)
    BY AddBits, NoBits
  <2> QED BY <2>1, ByBits
<1>5. galAdd(0, a) = a
  <2>1. galAdd(0, a) \in Byte /\ \A w \in Weights : On(galAdd(0, a), w) <=> On(a, w)
    BY AddBits, NoBits
  <2> QED BY <2>1, ByBits
<1> QED BY <1>1, <1>2, <1>3, <1>4, <1>5

(* Doubling shifts the bits and reduces.                                   *)
Doubled(d, a) ==
  /\ d \in Byte
  /\ On(d, 1) <=> On(a, 128)
  /\ On(d, 2) <=> On(a, 1)
  /\ On(d, 4) <=> ~(On(a, 2) <=> On(a, 128))
  /\ On(d, 8) <=> ~(On(a, 4) <=> On(a, 128))
  /\ On(d, 16) <=> ~(On(a, 8) <=> On(a, 128))
  /\ On(d, 32) <=> On(a, 16)
  /\ On(d, 64) <=> On(a, 32)
  /\ On(d, 128) <=> On(a, 64)

(* Double computes that ...                                                *)
LEMMA DoubleBits ==
  ASSUME NEW a \in Byte
  PROVE  Doubled(Double(a), a)
<1>1. CASE a < 128
  <2>1. Double(a) = 2 * a
    BY <1>1 DEF Double
  <2>2. Doubled(2 * a, a)
    BY <1>1 DEF Doubled, On, Byte
  <2> QED BY <2>1, <2>2
<1>2. CASE ~(a < 128)
  <2> DEFINE s == 2 * a - 256
  <2>1. Double(a) = galAdd(s, 29)
    BY <1>2 DEF Double, fieldSize, generatingPolynomial
  <2>2. /\ s \in Byte /\ On(a, 128)
        /\ ~On(s, 1)
        /\ On(s, 2) <=> On(a, 1)
        /\ On(s, 4) <=> On(a, 2)
        /\ On(s, 8) <=> On(a, 4)
        /\ On(s, 16) <=> On(a, 8)
        /\ On(s, 32) <=> On(a, 16)
        /\ On(s, 64) <=> On(a, 32)
        /\ On(s, 128) <=> On(a, 64)
    BY <1>2 DEF On, Byte
  <2>3. /\ 29 \in Byte /\ On(29, 1) /\ ~On(29, 2) /\ On(29, 4) /\ On(29, 8) /\ On(29, 16)
        /\ ~On(29, 32) /\ ~On(29, 64) /\ ~On(29, 128)
    BY DEF On, Byte
  <2> HIDE DEF s
  <2> QED BY <2>1, <2>2, <2>3, BitsAdded DEF Doubled
<1> QED BY <1>1, <1>2

(* ... and is additive.                                                    *)
LEMMA DoubleAdded ==
  ASSUME NEW a \in Byte, NEW b \in Byte
  PROVE  Double(a) \in Byte /\ Double(galAdd(a, b)) = galAdd(Double(a), Double(b))
<1>1. Doubled(Double(a), a) /\ Doubled(Double(b), b)
  BY DoubleBits
<1>2. galAdd(a, b) \in Byte
  BY BitsAdded
<1>3. Doubled(Double(galAdd(a, b)), galAdd(a, b))
  BY <1>2, DoubleBits
<1>4. Double(a) \in Byte /\ Double(b) \in Byte /\ Double(galAdd(a, b)) \in Byte
  BY <1>1, <1>3 DEF Doubled
<1>5. galAdd(Double(a), Double(b)) \in Byte
  BY <1>4, BitsAdded
<1>6. \A w \in Weights : On(Double(galAdd(a, b)), w) <=> On(galAdd(Double(a), Double(b)), w)
  BY <1>1, <1>3, <1>4, BitsAdded DEF Doubled, Weights
<1> QED BY <1>4, <1>5, <1>6, ByBits

LEMMA DoubleZero == Double(0) = 0
<1>1. 0 < 128
  OBVIOUS
<1> QED BY <1>1 DEF Double

(* Horner's scheme, step by step.                                          *)
turn(b, w, x, a) == IF On(b, w) THEN galAdd(Double(x), a) ELSE Double(x)

Scheme(h, a, b) ==
  h = [k \in 0..8 |->
        IF k = 0 THEN 0
        ELSE LET twice == Double(h[k - 1])
             IN  IF (b \div 2^(8 - k)) % 2 = 1 THEN galAdd(twice, a) ELSE twice]

Unrolled(h, a, b) ==
  /\ h[0] = 0
  /\ h[1] = turn(b, 128, h[0], a)
  /\ h[2] = turn(b, 64, h[1], a)
  /\ h[3] = turn(b, 32, h[2], a)
  /\ h[4] = turn(b, 16, h[3], a)
  /\ h[5] = turn(b, 8, h[4], a)
  /\ h[6] = turn(b, 4, h[5], a)
  /\ h[7] = turn(b, 2, h[6], a)
  /\ h[8] = turn(b, 1, h[7], a)

(* A function that solves the recursion takes the eight turns; one does.   *)
LEMMA SchemeUnrolled ==
  ASSUME NEW a, NEW b, NEW h, DOMAIN h = 0..8, h = [k \in 0..8 |-> h[k]]
  PROVE  Scheme(h, a, b) <=> Unrolled(h, a, b)
  BY DEF Scheme, Unrolled, turn, On

LEMMA SchemeExists ==
  ASSUME NEW a, NEW b
  PROVE  \E h : Scheme(h, a, b)
<1> DEFINE h1 == turn(b, 128, 0, a)
           h2 == turn(b, 64, h1, a)
           h3 == turn(b, 32, h2, a)
           h4 == turn(b, 16, h3, a)
           h5 == turn(b, 8, h4, a)
           h6 == turn(b, 4, h5, a)
           h7 == turn(b, 2, h6, a)
           h8 == turn(b, 1, h7, a)
           h == [k \in 0..8 |->
                  CASE k = 0 -> 0 [] k = 1 -> h1 [] k = 2 -> h2 [] k = 3 -> h3 [] k = 4 -> h4
                    [] k = 5 -> h5 [] k = 6 -> h6 [] k = 7 -> h7 [] k = 8 -> h8]
<1>1. /\ h1 = turn(b, 128, 0, a) /\ h2 = turn(b, 64, h1, a)
      /\ h3 = turn(b, 32, h2, a) /\ h4 = turn(b, 16, h3, a)
      /\ h5 = turn(b, 8, h4, a) /\ h6 = turn(b, 4, h5, a)
      /\ h7 = turn(b, 2, h6, a) /\ h8 = turn(b, 1, h7, a)
  BY Zenon
<1> HIDE DEF h1, h2, h3, h4, h5, h6, h7, h8
<1>2. /\ h[0] = 0 /\ h[1] = h1 /\ h[2] = h2 /\ h[3] = h3 /\ h[4] = h4
      /\ h[5] = h5 /\ h[6] = h6 /\ h[7] = h7 /\ h[8] = h8
  OBVIOUS
<1>3. DOMAIN h = 0..8 /\ h = [k \in 0..8 |-> h[k]]
  OBVIOUS
<1> HIDE DEF h
<1>4. Unrolled(h, a, b)
  BY <1>1, <1>2, Zenon DEF Unrolled
<1>5. Scheme(h, a, b)
  BY <1>3, <1>4, SchemeUnrolled
<1> QED BY <1>5

(* So the product is the last turn of a scheme.                            *)
LEMMA ProductScheme ==
  ASSUME NEW a, NEW b
  PROVE  \E h : Unrolled(h, a, b) /\ Product(a, b) = h[8]
<1> DEFINE E(h) == h = [k \in 0..8 |->
                         IF k = 0 THEN 0
                         ELSE LET twice == Double(h[k - 1])
                              IN  IF (b \div 2^(8 - k)) % 2 = 1 THEN galAdd(twice, a) ELSE twice]
           h0 == CHOOSE h : E(h)
<1>1. \A h : E(h) <=> Scheme(h, a, b)
  BY Zenon DEF Scheme
<1>2. Product(a, b) = h0[8]
  BY Zenon DEF Product
<1> HIDE DEF E
<1>3. Scheme(h0, a, b)
  BY <1>1, SchemeExists
<1>4. DOMAIN h0 = 0..8 /\ h0 = [k \in 0..8 |-> h0[k]]
  BY <1>3 DEF Scheme
<1> HIDE DEF h0
<1>5. Unrolled(h0, a, b)
  BY <1>3, <1>4, SchemeUnrolled
<1> QED BY <1>2, <1>5

(* All of it stays among the bytes.                                        *)
LEMMA TurnType ==
  ASSUME NEW x \in Byte, NEW a \in Byte, NEW b, NEW w
  PROVE  turn(b, w, x, a) \in Byte
  BY DoubleAdded, Added DEF turn

LEMMA UnrolledType ==
  ASSUME NEW a \in Byte, NEW b, NEW h, Unrolled(h, a, b)
  PROVE  \A k \in 0..8 : h[k] \in Byte
<1>1. h[0] \in Byte
  BY DEF Unrolled, Byte
<1>2. h[1] \in Byte /\ h[2] \in Byte /\ h[3] \in Byte /\ h[4] \in Byte
  BY <1>1, TurnType DEF Unrolled
<1>3. h[5] \in Byte /\ h[6] \in Byte /\ h[7] \in Byte /\ h[8] \in Byte
  BY <1>2, TurnType DEF Unrolled
<1> QED BY <1>1, <1>2, <1>3

LEMMA ProductType ==
  ASSUME NEW a \in Byte, NEW b
  PROVE  Product(a, b) \in Byte
  BY ProductScheme, UnrolledType

(* Two pairs may be exchanged.                                             *)
LEMMA Exchanged ==
  ASSUME NEW a \in Byte, NEW b \in Byte, NEW c \in Byte, NEW d \in Byte
  PROVE  galAdd(galAdd(a, b), galAdd(c, d)) = galAdd(galAdd(a, c), galAdd(b, d))
<1>1. /\ galAdd(a, b) \in Byte /\ galAdd(c, d) \in Byte
      /\ galAdd(a, c) \in Byte /\ galAdd(b, d) \in Byte /\ galAdd(b, c) \in Byte
  BY Added
<1>2. galAdd(galAdd(a, b), galAdd(c, d)) = galAdd(a, galAdd(b, galAdd(c, d)))
  BY <1>1, Added
<1>3. galAdd(b, galAdd(c, d)) = galAdd(galAdd(b, c), d)
  BY Added
<1>4. galAdd(b, c) = galAdd(c, b)
  BY Added
<1>5. galAdd(galAdd(c, b), d) = galAdd(c, galAdd(b, d))
  BY Added
<1>6. galAdd(a, galAdd(c, galAdd(b, d))) = galAdd(galAdd(a, c), galAdd(b, d))
  BY <1>1, Added
<1> QED BY <1>2, <1>3, <1>4, <1>5, <1>6

(* Every byte is its own opposite.                                         *)
LEMMA SelfAdded ==
  ASSUME NEW a \in Byte
  PROVE  galAdd(a, a) = 0
<1>1. galAdd(a, a) \in Byte /\ 0 \in Byte
  BY AddBits, NoBits
<1>2. \A w \in Weights : On(galAdd(a, a), w) <=> On(0, w)
  BY AddBits, NoBits
<1> QED BY <1>1, <1>2, ByBits

(* A turn is additive in the factor whose bits it reads, and in the other. *)
LEMMA TurnRight ==
  ASSUME NEW x \in Byte, NEW y \in Byte, NEW a \in Byte, NEW b \in Byte, NEW c \in Byte,
         NEW w \in Weights
  PROVE  turn(galAdd(b, c), w, galAdd(x, y), a) = galAdd(turn(b, w, x, a), turn(c, w, y, a))
<1> DEFINE X == Double(x)
           Y == Double(y)
<1>1. X \in Byte /\ Y \in Byte /\ Double(galAdd(x, y)) = galAdd(X, Y) /\ galAdd(X, Y) \in Byte
  BY DoubleAdded, Added
<1>2. On(galAdd(b, c), w) <=> ~(On(b, w) <=> On(c, w))
  BY AddBits
<1>3. /\ galAdd(galAdd(X, a), Y) = galAdd(galAdd(X, Y), a)
      /\ galAdd(X, galAdd(Y, a)) = galAdd(galAdd(X, Y), a)
  <2> HIDE DEF X, Y
  <2>1. galAdd(a, Y) = galAdd(Y, a) /\ galAdd(galAdd(X, a), Y) = galAdd(X, galAdd(a, Y))
    BY <1>1, Added
  <2>2. galAdd(X, galAdd(Y, a)) = galAdd(galAdd(X, Y), a)
    BY <1>1, Added
  <2> QED BY <2>1, <2>2
<1>4. galAdd(galAdd(X, a), galAdd(Y, a)) = galAdd(X, Y)
  <2> HIDE DEF X, Y
  <2>1. galAdd(galAdd(X, a), galAdd(Y, a)) = galAdd(galAdd(X, Y), galAdd(a, a))
    BY <1>1, Exchanged
  <2> QED BY <1>1, <2>1, SelfAdded, Added
<1>5. turn(galAdd(b, c), w, galAdd(x, y), a)
        = IF ~(On(b, w) <=> On(c, w)) THEN galAdd(galAdd(X, Y), a) ELSE galAdd(X, Y)
  BY <1>1, <1>2 DEF turn
<1>6. /\ turn(b, w, x, a) = IF On(b, w) THEN galAdd(X, a) ELSE X
      /\ turn(c, w, y, a) = IF On(c, w) THEN galAdd(Y, a) ELSE Y
  BY DEF turn
<1> HIDE DEF X, Y
<1> QED BY <1>3, <1>4, <1>5, <1>6

LEMMA TurnLeft ==
  ASSUME NEW x \in Byte, NEW y \in Byte, NEW a \in Byte, NEW b \in Byte, NEW c, NEW w
  PROVE  turn(c, w, galAdd(x, y), galAdd(a, b)) = galAdd(turn(c, w, x, a), turn(c, w, y, b))
<1>1. /\ Double(x) \in Byte /\ Double(y) \in Byte
      /\ Double(galAdd(x, y)) = galAdd(Double(x), Double(y))
  BY DoubleAdded
<1>2. galAdd(galAdd(Double(x), Double(y)), galAdd(a, b))
        = galAdd(galAdd(Double(x), a), galAdd(Double(y), b))
  BY <1>1, Exchanged
<1> QED BY <1>1, <1>2 DEF turn

(* The product is additive on the right ...                                *)
LEMMA ProductRight ==
  ASSUME NEW a \in Byte, NEW b \in Byte, NEW c \in Byte
  PROVE  Product(a, galAdd(b, c)) = galAdd(Product(a, b), Product(a, c))
<1>1. PICK h : Unrolled(h, a, b) /\ Product(a, b) = h[8]
  BY ProductScheme
<1>2. PICK g : Unrolled(g, a, c) /\ Product(a, c) = g[8]
  BY ProductScheme
<1>3. PICK f : Unrolled(f, a, galAdd(b, c)) /\ Product(a, galAdd(b, c)) = f[8]
  BY ProductScheme
<1>4. \A k \in 0..8 : h[k] \in Byte /\ g[k] \in Byte
  BY <1>1, <1>2, UnrolledType
<1>5. f[0] = galAdd(h[0], g[0])
  BY <1>1, <1>2, <1>3, Added, NoBits DEF Unrolled
<1>6. f[1] = galAdd(h[1], g[1])
  <2>1. h[0] \in Byte /\ g[0] \in Byte /\ 128 \in Weights
    BY <1>4 DEF Weights
  <2>2. f[1] = turn(galAdd(b, c), 128, galAdd(h[0], g[0]), a)
    BY <1>3, <1>5 DEF Unrolled
  <2>3. h[1] = turn(b, 128, h[0], a) /\ g[1] = turn(c, 128, g[0], a)
    BY <1>1, <1>2 DEF Unrolled
  <2> QED BY <2>1, <2>2, <2>3, TurnRight
<1>7. f[2] = galAdd(h[2], g[2])
  <2>1. h[1] \in Byte /\ g[1] \in Byte /\ 64 \in Weights
    BY <1>4 DEF Weights
  <2>2. f[2] = turn(galAdd(b, c), 64, galAdd(h[1], g[1]), a)
    BY <1>3, <1>6 DEF Unrolled
  <2>3. h[2] = turn(b, 64, h[1], a) /\ g[2] = turn(c, 64, g[1], a)
    BY <1>1, <1>2 DEF Unrolled
  <2> QED BY <2>1, <2>2, <2>3, TurnRight
<1>8. f[3] = galAdd(h[3], g[3])
  <2>1. h[2] \in Byte /\ g[2] \in Byte /\ 32 \in Weights
    BY <1>4 DEF Weights
  <2>2. f[3] = turn(galAdd(b, c), 32, galAdd(h[2], g[2]), a)
    BY <1>3, <1>7 DEF Unrolled
  <2>3. h[3] = turn(b, 32, h[2], a) /\ g[3] = turn(c, 32, g[2], a)
    BY <1>1, <1>2 DEF Unrolled
  <2> QED BY <2>1, <2>2, <2>3, TurnRight
<1>9. f[4] = galAdd(h[4], g[4])
  <2>1. h[3] \in Byte /\ g[3] \in Byte /\ 16 \in Weights
    BY <1>4 DEF Weights
  <2>2. f[4] = turn(galAdd(b, c), 16, galAdd(h[3], g[3]), a)
    BY <1>3, <1>8 DEF Unrolled
  <2>3. h[4] = turn(b, 16, h[3], a) /\ g[4] = turn(c, 16, g[3], a)
    BY <1>1, <1>2 DEF Unrolled
  <2> QED BY <2>1, <2>2, <2>3, TurnRight
<1>10. f[5] = galAdd(h[5], g[5])
  <2>1. h[4] \in Byte /\ g[4] \in Byte /\ 8 \in Weights
    BY <1>4 DEF Weights
  <2>2. f[5] = turn(galAdd(b, c), 8, galAdd(h[4], g[4]), a)
    BY <1>3, <1>9 DEF Unrolled
  <2>3. h[5] = turn(b, 8, h[4], a) /\ g[5] = turn(c, 8, g[4], a)
    BY <1>1, <1>2 DEF Unrolled
  <2> QED BY <2>1, <2>2, <2>3, TurnRight
<1>11. f[6] = galAdd(h[6], g[6])
  <2>1. h[5] \in Byte /\ g[5] \in Byte /\ 4 \in Weights
    BY <1>4 DEF Weights
  <2>2. f[6] = turn(galAdd(b, c), 4, galAdd(h[5], g[5]), a)
    BY <1>3, <1>10 DEF Unrolled
  <2>3. h[6] = turn(b, 4, h[5], a) /\ g[6] = turn(c, 4, g[5], a)
    BY <1>1, <1>2 DEF Unrolled
  <2> QED BY <2>1, <2>2, <2>3, TurnRight
<1>12. f[7] = galAdd(h[7], g[7])
  <2>1. h[6] \in Byte /\ g[6] \in Byte /\ 2 \in Weights
    BY <1>4 DEF Weights
  <2>2. f[7] = turn(galAdd(b, c), 2, galAdd(h[6], g[6]), a)
    BY <1>3, <1>11 DEF Unrolled
  <2>3. h[7] = turn(b, 2, h[6], a) /\ g[7] = turn(c, 2, g[6], a)
    BY <1>1, <1>2 DEF Unrolled
  <2> QED BY <2>1, <2>2, <2>3, TurnRight
<1>13. f[8] = galAdd(h[8], g[8])
  <2>1. h[7] \in Byte /\ g[7] \in Byte /\ 1 \in Weights
    BY <1>4 DEF Weights
  <2>2. f[8] = turn(galAdd(b, c), 1, galAdd(h[7], g[7]), a)
    BY <1>3, <1>12 DEF Unrolled
  <2>3. h[8] = turn(b, 1, h[7], a) /\ g[8] = turn(c, 1, g[7], a)
    BY <1>1, <1>2 DEF Unrolled
  <2> QED BY <2>1, <2>2, <2>3, TurnRight
<1> QED BY <1>1, <1>2, <1>3, <1>13

(* ... and on the left.                                                    *)
LEMMA ProductLeft ==
  ASSUME NEW a \in Byte, NEW b \in Byte, NEW c
  PROVE  Product(galAdd(a, b), c) = galAdd(Product(a, c), Product(b, c))
<1>1. PICK h : Unrolled(h, a, c) /\ Product(a, c) = h[8]
  BY ProductScheme
<1>2. PICK g : Unrolled(g, b, c) /\ Product(b, c) = g[8]
  BY ProductScheme
<1>3. PICK f : Unrolled(f, galAdd(a, b), c) /\ Product(galAdd(a, b), c) = f[8]
  BY ProductScheme
<1>4. \A k \in 0..8 : h[k] \in Byte /\ g[k] \in Byte
  BY <1>1, <1>2, UnrolledType
<1>5. f[0] = galAdd(h[0], g[0])
  BY <1>1, <1>2, <1>3, Added, NoBits DEF Unrolled
<1>6. f[1] = galAdd(h[1], g[1])
  <2>1. h[0] \in Byte /\ g[0] \in Byte
    BY <1>4
  <2>2. f[1] = turn(c, 128, galAdd(h[0], g[0]), galAdd(a, b))
    BY <1>3, <1>5 DEF Unrolled
  <2>3. h[1] = turn(c, 128, h[0], a) /\ g[1] = turn(c, 128, g[0], b)
    BY <1>1, <1>2 DEF Unrolled
  <2> QED BY <2>1, <2>2, <2>3, TurnLeft
<1>7. f[2] = galAdd(h[2], g[2])
  <2>1. h[1] \in Byte /\ g[1] \in Byte
    BY <1>4
  <2>2. f[2] = turn(c, 64, galAdd(h[1], g[1]), galAdd(a, b))
    BY <1>3, <1>6 DEF Unrolled
  <2>3. h[2] = turn(c, 64, h[1], a) /\ g[2] = turn(c, 64, g[1], b)
    BY <1>1, <1>2 DEF Unrolled
  <2> QED BY <2>1, <2>2, <2>3, TurnLeft
<1>8. f[3] = galAdd(h[3], g[3])
  <2>1. h[2] \in Byte /\ g[2] \in Byte
    BY <1>4
  <2>2. f[3] = turn(c, 32, galAdd(h[2], g[2]), galAdd(a, b))
    BY <1>3, <1>7 DEF Unrolled
  <2>3. h[3] = turn(c, 32, h[2], a) /\ g[3] = turn(c, 32, g[2], b)
    BY <1>1, <1>2 DEF Unrolled
  <2> QED BY <2>1, <2>2, <2>3, TurnLeft
<1>9. f[4] = galAdd(h[4], g[4])
  <2>1. h[3] \in Byte /\ g[3] \in Byte
    BY <1>4
  <2>2. f[4] = turn(c, 16, galAdd(h[3], g[3]), galAdd(a, b))
    BY <1>3, <1>8 DEF Unrolled
  <2>3. h[4] = turn(c, 16, h[3], a) /\ g[4] = turn(c, 16, g[3], b)
    BY <1>1, <1>2 DEF Unrolled
  <2> QED BY <2>1, <2>2, <2>3, TurnLeft
<1>10. f[5] = galAdd(h[5], g[5])
  <2>1. h[4] \in Byte /\ g[4] \in Byte
    BY <1>4
  <2>2. f[5] = turn(c, 8, galAdd(h[4], g[4]), galAdd(a, b))
    BY <1>3, <1>9 DEF Unrolled
  <2>3. h[5] = turn(c, 8, h[4], a) /\ g[5] = turn(c, 8, g[4], b)
    BY <1>1, <1>2 DEF Unrolled
  <2> QED BY <2>1, <2>2, <2>3, TurnLeft
<1>11. f[6] = galAdd(h[6], g[6])
  <2>1. h[5] \in Byte /\ g[5] \in Byte
    BY <1>4
  <2>2. f[6] = turn(c, 4, galAdd(h[5], g[5]), galAdd(a, b))
    BY <1>3, <1>10 DEF Unrolled
  <2>3. h[6] = turn(c, 4, h[5], a) /\ g[6] = turn(c, 4, g[5], b)
    BY <1>1, <1>2 DEF Unrolled
  <2> QED BY <2>1, <2>2, <2>3, TurnLeft
<1>12. f[7] = galAdd(h[7], g[7])
  <2>1. h[6] \in Byte /\ g[6] \in Byte
    BY <1>4
  <2>2. f[7] = turn(c, 2, galAdd(h[6], g[6]), galAdd(a, b))
    BY <1>3, <1>11 DEF Unrolled
  <2>3. h[7] = turn(c, 2, h[6], a) /\ g[7] = turn(c, 2, g[6], b)
    BY <1>1, <1>2 DEF Unrolled
  <2> QED BY <2>1, <2>2, <2>3, TurnLeft
<1>13. f[8] = galAdd(h[8], g[8])
  <2>1. h[7] \in Byte /\ g[7] \in Byte
    BY <1>4
  <2>2. f[8] = turn(c, 1, galAdd(h[7], g[7]), galAdd(a, b))
    BY <1>3, <1>12 DEF Unrolled
  <2>3. h[8] = turn(c, 1, h[7], a) /\ g[8] = turn(c, 1, g[7], b)
    BY <1>1, <1>2 DEF Unrolled
  <2> QED BY <2>1, <2>2, <2>3, TurnLeft
<1> QED BY <1>1, <1>2, <1>3, <1>13

(* Every byte is the sum of its bits.                                      *)
bit(b, w) == IF On(b, w) THEN w ELSE 0

sumOf(b) ==
  galAdd(bit(b, 128), galAdd(bit(b, 64), galAdd(bit(b, 32), galAdd(bit(b, 16),
  galAdd(bit(b, 8), galAdd(bit(b, 4), galAdd(bit(b, 2), bit(b, 1))))))))

(* A weight has one bit, and the part of a byte at a weight no other.      *)
LEMMA WeightBits ==
  ASSUME NEW v \in Weights
  PROVE  v \in Byte /\ \A w \in Weights : On(v, w) <=> v = w
  BY DEF Weights, On, Byte

LEMMA BitBits ==
  ASSUME NEW b, NEW v \in Weights
  PROVE  bit(b, v) \in Byte /\ \A w \in Weights : On(bit(b, v), w) <=> On(b, v) /\ v = w
  BY WeightBits, NoBits DEF bit

(* s has the bits of b that are in V.                                      *)
PartOf(s, b, V) == s \in Byte /\ \A w \in Weights : On(s, w) <=> w \in V /\ On(b, w)

(* The parts of a byte add up to it.                                       *)
LEMMA WithBit ==
  ASSUME NEW b \in Byte, NEW v \in Weights, NEW V, v \notin V, NEW s, PartOf(s, b, V)
  PROVE  PartOf(galAdd(bit(b, v), s), b, V \cup {v})
<1>1. bit(b, v) \in Byte /\ s \in Byte /\ galAdd(bit(b, v), s) \in Byte
  BY BitBits, AddBits DEF PartOf
<1>2. ASSUME NEW w \in Weights
      PROVE  On(galAdd(bit(b, v), s), w) <=> w \in V \cup {v} /\ On(b, w)
  <2>1. On(galAdd(bit(b, v), s), w) <=> ~(On(bit(b, v), w) <=> On(s, w))
    BY <1>1, AddBits
  <2>2. On(bit(b, v), w) <=> On(b, v) /\ v = w
    BY BitBits
  <2>3. On(s, w) <=> w \in V /\ On(b, w)
    BY DEF PartOf
  <2> QED BY <2>1, <2>2, <2>3
<1> QED BY <1>1, <1>2 DEF PartOf

LEMMA SumOfBits ==
  ASSUME NEW b \in Byte
  PROVE  b = sumOf(b)
<1> DEFINE s1 == bit(b, 1)
           s2 == galAdd(bit(b, 2), s1)
           s4 == galAdd(bit(b, 4), s2)
           s8 == galAdd(bit(b, 8), s4)
           s16 == galAdd(bit(b, 16), s8)
           s32 == galAdd(bit(b, 32), s16)
           s64 == galAdd(bit(b, 64), s32)
           s128 == galAdd(bit(b, 128), s64)
<1>1. PartOf(s1, b, {1})
  BY BitBits DEF PartOf, Weights
<1> HIDE DEF s1
<1>2. PartOf(s2, b, {1, 2})
  <2>1. 2 \in Weights /\ 2 \notin {1} /\ {1} \cup {2} = {1, 2}
    BY DEF Weights
  <2> QED BY <1>1, <2>1, WithBit
<1> HIDE DEF s2
<1>3. PartOf(s4, b, {1, 2, 4})
  <2>1. 4 \in Weights /\ 4 \notin {1, 2} /\ {1, 2} \cup {4} = {1, 2, 4}
    BY DEF Weights
  <2> QED BY <1>2, <2>1, WithBit
<1> HIDE DEF s4
<1>4. PartOf(s8, b, {1, 2, 4, 8})
  <2>1. 8 \in Weights /\ 8 \notin {1, 2, 4} /\ {1, 2, 4} \cup {8} = {1, 2, 4, 8}
    BY DEF Weights
  <2> QED BY <1>3, <2>1, WithBit
<1> HIDE DEF s8
<1>5. PartOf(s16, b, {1, 2, 4, 8, 16})
  <2>1. 16 \in Weights /\ 16 \notin {1, 2, 4, 8} /\ {1, 2, 4, 8} \cup {16} = {1, 2, 4, 8, 16}
    BY DEF Weights
  <2> QED BY <1>4, <2>1, WithBit
<1> HIDE DEF s16
<1>6. PartOf(s32, b, {1, 2, 4, 8, 16, 32})
  <2>1. /\ 32 \in Weights /\ 32 \notin {1, 2, 4, 8, 16}
        /\ {1, 2, 4, 8, 16} \cup {32} = {1, 2, 4, 8, 16, 32}
    BY DEF Weights
  <2> QED BY <1>5, <2>1, WithBit
<1> HIDE DEF s32
<1>7. PartOf(s64, b, {1, 2, 4, 8, 16, 32, 64})
  <2>1. /\ 64 \in Weights /\ 64 \notin {1, 2, 4, 8, 16, 32}
        /\ {1, 2, 4, 8, 16, 32} \cup {64} = {1, 2, 4, 8, 16, 32, 64}
    BY DEF Weights
  <2> QED BY <1>6, <2>1, WithBit
<1> HIDE DEF s64
<1>8. PartOf(s128, b, {1, 2, 4, 8, 16, 32, 64, 128})
  <2>1. /\ 128 \in Weights /\ 128 \notin {1, 2, 4, 8, 16, 32, 64}
        /\ {1, 2, 4, 8, 16, 32, 64} \cup {128} = {1, 2, 4, 8, 16, 32, 64, 128}
    BY DEF Weights
  <2> QED BY <1>7, <2>1, WithBit
<1> HIDE DEF s128
<1>9. \A w \in Weights : On(s128, w) <=> On(b, w)
  BY <1>8 DEF PartOf, Weights
<1>10. b = s128
  BY <1>8, <1>9, ByBits DEF PartOf
<1> QED BY <1>10, Zenon DEF sumOf, s128, s64, s32, s16, s8, s4, s2, s1

(* Nothing times anything is nothing.                                      *)
LEMMA NoProduct ==
  ASSUME NEW a \in Byte
  PROVE  Product(a, 0) = 0 /\ Product(0, a) = 0
<1>1. 0 \in Byte /\ galAdd(0, 0) = 0
  BY NoBits, Added
<1>2. ASSUME NEW x \in Byte, x = galAdd(x, x) PROVE x = 0
  BY <1>2, SelfAdded
<1>3. Product(a, 0) \in Byte /\ Product(0, a) \in Byte
  BY <1>1, ProductType
<1>4. Product(a, 0) = galAdd(Product(a, 0), Product(a, 0))
  BY <1>1, ProductRight
<1>5. Product(0, a) = galAdd(Product(0, a), Product(0, a))
  BY <1>1, ProductLeft
<1> QED BY <1>2, <1>3, <1>4, <1>5

(* Eight doublings reduce to the generating polynomial.                    *)
LEMMA Eighth ==
  ASSUME NEW a \in Byte, NEW d1, Doubled(d1, a), NEW d2, Doubled(d2, d1), NEW d3, Doubled(d3, d2),
         NEW d4, Doubled(d4, d3), NEW d5, Doubled(d5, d4), NEW d6, Doubled(d6, d5),
         NEW d7, Doubled(d7, d6), NEW d8, Doubled(d8, d7)
  PROVE  d8 = galAdd(d4, galAdd(d3, galAdd(d2, a)))
<1> DEFINE s2 == galAdd(d2, a)
           s3 == galAdd(d3, s2)
           s4 == galAdd(d4, s3)
<1>1. s2 \in Byte /\ \A w \in Weights : On(s2, w) <=> ~(On(d2, w) <=> On(a, w))
  BY AddBits DEF Doubled
<1>2. s3 \in Byte /\ \A w \in Weights : On(s3, w) <=> ~(On(d3, w) <=> On(s2, w))
  <2> HIDE DEF s2
  <2> QED BY <1>1, AddBits DEF Doubled
<1>3. s4 \in Byte /\ \A w \in Weights : On(s4, w) <=> ~(On(d4, w) <=> On(s3, w))
  <2> HIDE DEF s3
  <2> QED BY <1>2, AddBits DEF Doubled
<1> HIDE DEF s2, s3, s4
<1>4. d8 \in Byte
  BY DEF Doubled
<1>5. \A w \in Weights : On(s4, w) <=> On(d8, w)
  BY <1>1, <1>2, <1>3 DEF Weights, Doubled
<1>6. s4 = d8
  BY <1>3, <1>4, <1>5, ByBits
<1> QED BY <1>6 DEF s4, s3, s2

(* Times a power of two.                                                   *)
LEMMA TurnZero ==
  ASSUME NEW a, NEW b, NEW w, ~On(b, w)
  PROVE  turn(b, w, 0, a) = 0
  BY DoubleZero DEF turn

(* The turns from the highest bit that is on.                              *)
LEMMA TurnFirst ==
  ASSUME NEW a \in Byte, NEW b, NEW w, On(b, w)
  PROVE  turn(b, w, 0, a) = a
  BY DoubleZero, Added DEF turn

LEMMA TurnOn ==
  ASSUME NEW a, NEW b, NEW w, ~On(b, w), NEW x
  PROVE  turn(b, w, x, a) = Double(x)
  BY DEF turn

(* Times a power of two is that many doublings.                            *)
LEMMA ProductPowers ==
  ASSUME NEW a \in Byte, NEW d1, d1 = Double(a), NEW d2, d2 = Double(d1), NEW d3, d3 = Double(d2),
         NEW d4, d4 = Double(d3), NEW d5, d5 = Double(d4), NEW d6, d6 = Double(d5),
         NEW d7, d7 = Double(d6)
  PROVE  /\ Product(a, 1) = a /\ Product(a, 2) = d1 /\ Product(a, 4) = d2
         /\ Product(a, 8) = d3 /\ Product(a, 16) = d4 /\ Product(a, 32) = d5
         /\ Product(a, 64) = d6 /\ Product(a, 128) = d7
<1>1. Product(a, 1) = a
  <2>1. PICK h : Unrolled(h, a, 1) /\ Product(a, 1) = h[8]
    BY ProductScheme
  <2>2. /\ On(1, 1) /\ ~On(1, 2) /\ ~On(1, 4) /\ ~On(1, 8)
        /\ ~On(1, 16) /\ ~On(1, 32) /\ ~On(1, 64) /\ ~On(1, 128)
    BY DEF On
  <2>3. h[0] = 0 /\ h[1] = 0 /\ h[2] = 0 /\ h[3] = 0 /\ h[4] = 0 /\ h[5] = 0 /\ h[6] = 0 /\ h[7] = 0
    BY <2>1, <2>2, TurnZero DEF Unrolled
  <2>4. h[8] = a
    BY <2>1, <2>2, <2>3, TurnFirst DEF Unrolled
  <2> QED BY <2>1, <2>4
<1>2. Product(a, 2) = d1
  <2>1. PICK h : Unrolled(h, a, 2) /\ Product(a, 2) = h[8]
    BY ProductScheme
  <2>2. /\ ~On(2, 1) /\ On(2, 2) /\ ~On(2, 4) /\ ~On(2, 8)
        /\ ~On(2, 16) /\ ~On(2, 32) /\ ~On(2, 64) /\ ~On(2, 128)
    BY DEF On
  <2>3. h[0] = 0 /\ h[1] = 0 /\ h[2] = 0 /\ h[3] = 0 /\ h[4] = 0 /\ h[5] = 0 /\ h[6] = 0
    BY <2>1, <2>2, TurnZero DEF Unrolled
  <2>4. h[7] = a
    BY <2>1, <2>2, <2>3, TurnFirst DEF Unrolled
  <2>5. h[8] = Double(h[7])
    BY <2>1, <2>2, TurnOn DEF Unrolled
  <2> QED BY <2>1, <2>4, <2>5
<1>3. Product(a, 4) = d2
  <2>1. PICK h : Unrolled(h, a, 4) /\ Product(a, 4) = h[8]
    BY ProductScheme
  <2>2. /\ ~On(4, 1) /\ ~On(4, 2) /\ On(4, 4) /\ ~On(4, 8)
        /\ ~On(4, 16) /\ ~On(4, 32) /\ ~On(4, 64) /\ ~On(4, 128)
    BY DEF On
  <2>3. h[0] = 0 /\ h[1] = 0 /\ h[2] = 0 /\ h[3] = 0 /\ h[4] = 0 /\ h[5] = 0
    BY <2>1, <2>2, TurnZero DEF Unrolled
  <2>4. h[6] = a
    BY <2>1, <2>2, <2>3, TurnFirst DEF Unrolled
  <2>5. h[7] = Double(h[6]) /\ h[8] = Double(h[7])
    BY <2>1, <2>2, TurnOn DEF Unrolled
  <2> QED BY <2>1, <2>4, <2>5
<1>4. Product(a, 8) = d3
  <2>1. PICK h : Unrolled(h, a, 8) /\ Product(a, 8) = h[8]
    BY ProductScheme
  <2>2. /\ ~On(8, 1) /\ ~On(8, 2) /\ ~On(8, 4) /\ On(8, 8)
        /\ ~On(8, 16) /\ ~On(8, 32) /\ ~On(8, 64) /\ ~On(8, 128)
    BY DEF On
  <2>3. h[0] = 0 /\ h[1] = 0 /\ h[2] = 0 /\ h[3] = 0 /\ h[4] = 0
    BY <2>1, <2>2, TurnZero DEF Unrolled
  <2>4. h[5] = a
    BY <2>1, <2>2, <2>3, TurnFirst DEF Unrolled
  <2>5. h[6] = Double(h[5]) /\ h[7] = Double(h[6]) /\ h[8] = Double(h[7])
    BY <2>1, <2>2, TurnOn DEF Unrolled
  <2> QED BY <2>1, <2>4, <2>5
<1>5. Product(a, 16) = d4
  <2>1. PICK h : Unrolled(h, a, 16) /\ Product(a, 16) = h[8]
    BY ProductScheme
  <2>2. /\ ~On(16, 1) /\ ~On(16, 2) /\ ~On(16, 4) /\ ~On(16, 8)
        /\ On(16, 16) /\ ~On(16, 32) /\ ~On(16, 64) /\ ~On(16, 128)
    BY DEF On
  <2>3. h[0] = 0 /\ h[1] = 0 /\ h[2] = 0 /\ h[3] = 0
    BY <2>1, <2>2, TurnZero DEF Unrolled
  <2>4. h[4] = a
    BY <2>1, <2>2, <2>3, TurnFirst DEF Unrolled
  <2>5. h[5] = Double(h[4]) /\ h[6] = Double(h[5]) /\ h[7] = Double(h[6]) /\ h[8] = Double(h[7])
    BY <2>1, <2>2, TurnOn DEF Unrolled
  <2> QED BY <2>1, <2>4, <2>5
<1>6. Product(a, 32) = d5
  <2>1. PICK h : Unrolled(h, a, 32) /\ Product(a, 32) = h[8]
    BY ProductScheme
  <2>2. /\ ~On(32, 1) /\ ~On(32, 2) /\ ~On(32, 4) /\ ~On(32, 8)
        /\ ~On(32, 16) /\ On(32, 32) /\ ~On(32, 64) /\ ~On(32, 128)
    BY DEF On
  <2>3. h[0] = 0 /\ h[1] = 0 /\ h[2] = 0
    BY <2>1, <2>2, TurnZero DEF Unrolled
  <2>4. h[3] = a
    BY <2>1, <2>2, <2>3, TurnFirst DEF Unrolled
  <2>5. /\ h[4] = Double(h[3]) /\ h[5] = Double(h[4]) /\ h[6] = Double(h[5])
        /\ h[7] = Double(h[6]) /\ h[8] = Double(h[7])
    BY <2>1, <2>2, TurnOn DEF Unrolled
  <2> QED BY <2>1, <2>4, <2>5
<1>7. Product(a, 64) = d6
  <2>1. PICK h : Unrolled(h, a, 64) /\ Product(a, 64) = h[8]
    BY ProductScheme
  <2>2. /\ ~On(64, 1) /\ ~On(64, 2) /\ ~On(64, 4) /\ ~On(64, 8)
        /\ ~On(64, 16) /\ ~On(64, 32) /\ On(64, 64) /\ ~On(64, 128)
    BY DEF On
  <2>3. h[0] = 0 /\ h[1] = 0
    BY <2>1, <2>2, TurnZero DEF Unrolled
  <2>4. h[2] = a
    BY <2>1, <2>2, <2>3, TurnFirst DEF Unrolled
  <2>5. /\ h[3] = Double(h[2]) /\ h[4] = Double(h[3]) /\ h[5] = Double(h[4])
        /\ h[6] = Double(h[5]) /\ h[7] = Double(h[6]) /\ h[8] = Double(h[7])
    BY <2>1, <2>2, TurnOn DEF Unrolled
  <2> QED BY <2>1, <2>4, <2>5
<1>8. Product(a, 128) = d7
  <2>1. PICK h : Unrolled(h, a, 128) /\ Product(a, 128) = h[8]
    BY ProductScheme
  <2>2. /\ ~On(128, 1) /\ ~On(128, 2) /\ ~On(128, 4) /\ ~On(128, 8)
        /\ ~On(128, 16) /\ ~On(128, 32) /\ ~On(128, 64) /\ On(128, 128)
    BY DEF On
  <2>3. h[0] = 0
    BY <2>1, <2>2, TurnZero DEF Unrolled
  <2>4. h[1] = a
    BY <2>1, <2>2, <2>3, TurnFirst DEF Unrolled
  <2>5. /\ h[2] = Double(h[1]) /\ h[3] = Double(h[2]) /\ h[4] = Double(h[3])
        /\ h[5] = Double(h[4]) /\ h[6] = Double(h[5]) /\ h[7] = Double(h[6])
        /\ h[8] = Double(h[7])
    BY <2>1, <2>2, TurnOn DEF Unrolled
  <2> QED BY <2>1, <2>4, <2>5
<1> QED BY <1>1, <1>2, <1>3, <1>4, <1>5, <1>6, <1>7, <1>8

(* A claim that is additive and holds of the powers of two.                *)
LEMMA FromBits ==
  ASSUME NEW Q \in SUBSET Byte, 0 \in Q, Weights \subseteq Q,
         \A x, y \in Q : galAdd(x, y) \in Q
  PROVE  Q = Byte
<1> SUFFICES ASSUME NEW b \in Byte PROVE b \in Q
  OBVIOUS
<1>1. \A w \in Weights : bit(b, w) \in Q
  BY DEF bit
<1>2. /\ bit(b, 128) \in Q /\ bit(b, 64) \in Q /\ bit(b, 32) \in Q /\ bit(b, 16) \in Q
      /\ bit(b, 8) \in Q /\ bit(b, 4) \in Q /\ bit(b, 2) \in Q /\ bit(b, 1) \in Q
  BY <1>1 DEF Weights
<1>3. sumOf(b) \in Q
  BY <1>2 DEF sumOf
<1> QED BY <1>3, SumOfBits

(* Doubling a factor doubles the product.                                  *)
LEMMA ProductDouble ==
  ASSUME NEW a \in Byte, NEW b \in Byte
  PROVE  Product(a, Double(b)) = Double(Product(a, b))
<1> DEFINE Q == {x \in Byte : Product(a, Double(x)) = Double(Product(a, x))}
<1>1. 0 \in Q
  BY NoBits, NoProduct, DoubleZero
<1>2. ASSUME NEW x \in Q, NEW y \in Q PROVE galAdd(x, y) \in Q
  <2>1. /\ x \in Byte /\ y \in Byte /\ galAdd(x, y) \in Byte
        /\ Double(x) \in Byte /\ Double(y) \in Byte
        /\ Product(a, x) \in Byte /\ Product(a, y) \in Byte
    BY Added, DoubleAdded, ProductType
  <2>2. Double(galAdd(x, y)) = galAdd(Double(x), Double(y))
    BY <2>1, DoubleAdded
  <2>3. Product(a, galAdd(Double(x), Double(y)))
          = galAdd(Product(a, Double(x)), Product(a, Double(y)))
    BY <2>1, ProductRight
  <2>4. Double(Product(a, galAdd(x, y))) = galAdd(Double(Product(a, x)), Double(Product(a, y)))
    BY <2>1, ProductRight, DoubleAdded
  <2> QED BY <2>1, <2>2, <2>3, <2>4
<1>3. Weights \subseteq Q
  <2> DEFINE d1 == Double(a)
             d2 == Double(d1)
             d3 == Double(d2)
             d4 == Double(d3)
             d5 == Double(d4)
             d6 == Double(d5)
             d7 == Double(d6)
             d8 == Double(d7)
  <2>1. /\ d1 = Double(a) /\ d2 = Double(d1) /\ d3 = Double(d2) /\ d4 = Double(d3)
        /\ d5 = Double(d4) /\ d6 = Double(d5) /\ d7 = Double(d6) /\ d8 = Double(d7)
    BY Zenon
  <2> HIDE DEF d1, d2, d3, d4, d5, d6, d7, d8
  <2>2. /\ Product(a, 1) = a /\ Product(a, 2) = d1 /\ Product(a, 4) = d2
        /\ Product(a, 8) = d3 /\ Product(a, 16) = d4 /\ Product(a, 32) = d5
        /\ Product(a, 64) = d6 /\ Product(a, 128) = d7
    BY <2>1, ProductPowers
  <2>3. /\ Double(1) = 2 /\ Double(2) = 4 /\ Double(4) = 8 /\ Double(8) = 16
        /\ Double(16) = 32 /\ Double(32) = 64 /\ Double(64) = 128
    BY DEF Double
  <2>4. Double(128) = 29
    <3>1. Double(128) = galAdd(0, 29)
      BY DEF Double, fieldSize, generatingPolynomial
    <3>2. 29 \in Byte
      BY DEF Byte
    <3> QED BY <3>1, <3>2, Added
  <2>5. /\ d1 \in Byte /\ d2 \in Byte /\ d3 \in Byte /\ d4 \in Byte
    BY <2>1, DoubleAdded
  <2>6. d5 \in Byte /\ d6 \in Byte /\ d7 \in Byte
    BY <2>1, <2>5, DoubleAdded
  <2>7. d8 = galAdd(d4, galAdd(d3, galAdd(d2, a)))
    <3>1. /\ Doubled(d1, a) /\ Doubled(d2, d1) /\ Doubled(d3, d2) /\ Doubled(d4, d3)
          /\ Doubled(d5, d4) /\ Doubled(d6, d5) /\ Doubled(d7, d6) /\ Doubled(d8, d7)
      BY <2>1, <2>5, <2>6, DoubleBits
    <3> QED BY <3>1, Eighth
  <2>8. Product(a, 29) = galAdd(d4, galAdd(d3, galAdd(d2, a)))
    <3>1. 29 = galAdd(16, galAdd(8, galAdd(4, 1)))
      <4>1. 29 \in Byte
        BY DEF Byte
      <4>2. /\ bit(29, 1) = 1 /\ bit(29, 2) = 0 /\ bit(29, 4) = 4 /\ bit(29, 8) = 8
            /\ bit(29, 16) = 16 /\ bit(29, 32) = 0 /\ bit(29, 64) = 0 /\ bit(29, 128) = 0
        BY DEF bit, On
      <4>3. 29 = galAdd(0, galAdd(0, galAdd(0, galAdd(16, galAdd(8, galAdd(4, galAdd(0, 1)))))))
        BY <4>1, <4>2, SumOfBits DEF sumOf
      <4>0. 1 \in Byte /\ 4 \in Byte /\ 8 \in Byte /\ 16 \in Byte
        BY DEF Byte
      <4>4. 1 \in Byte /\ 4 \in Byte /\ 8 \in Byte /\ 16 \in Byte /\ galAdd(0, 1) = 1
        BY <4>0, Added
      <4>5. galAdd(4, 1) \in Byte
        BY <4>4, AddBits
      <4>6. galAdd(8, galAdd(4, 1)) \in Byte
        BY <4>4, <4>5, AddBits
      <4>7. galAdd(16, galAdd(8, galAdd(4, 1))) \in Byte
        BY <4>4, <4>6, AddBits
      <4> QED BY <4>3, <4>4, <4>7, Added
    <3>2. 1 \in Byte /\ 4 \in Byte /\ 8 \in Byte /\ 16 \in Byte
      BY DEF Byte
    <3>3. galAdd(4, 1) \in Byte
      BY <3>2, AddBits
    <3>4. galAdd(8, galAdd(4, 1)) \in Byte
      BY <3>2, <3>3, AddBits
    <3> QED BY <2>2, <3>1, <3>2, <3>3, <3>4, ProductRight
  <2>9. \A w \in Weights : Product(a, Double(w)) = Double(Product(a, w))
    <3>1. /\ Product(a, Double(1)) = Double(Product(a, 1))
          /\ Product(a, Double(2)) = Double(Product(a, 2))
          /\ Product(a, Double(4)) = Double(Product(a, 4))
          /\ Product(a, Double(8)) = Double(Product(a, 8))
      BY <2>1, <2>2, <2>3
    <3>2. /\ Product(a, Double(16)) = Double(Product(a, 16))
          /\ Product(a, Double(32)) = Double(Product(a, 32))
          /\ Product(a, Double(64)) = Double(Product(a, 64))
      BY <2>1, <2>2, <2>3
    <3>3. Product(a, Double(128)) = Double(Product(a, 128))
      BY <2>1, <2>2, <2>4, <2>7, <2>8
    <3> HIDE DEF d1, d2, d3, d4, d5, d6, d7, d8
    <3> QED BY <3>1, <3>2, <3>3 DEF Weights
  <2> QED BY <2>9, WeightBits
<1>4. Q \in SUBSET Byte
  OBVIOUS
<1>5. Q = Byte
  <2> HIDE DEF Q
  <2> QED BY <1>1, <1>2, <1>3, <1>4, FromBits
<1> QED BY <1>5

(* The product is associative.                                             *)
LEMMA ProductProduct ==
  ASSUME NEW a \in Byte, NEW b \in Byte, NEW c \in Byte
  PROVE  Product(a, Product(b, c)) = Product(Product(a, b), c)
<1> DEFINE Q == {x \in Byte : Product(a, Product(b, x)) = Product(Product(a, b), x)}
<1>0. Product(a, b) \in Byte
  BY ProductType
<1>1. 0 \in Q
  BY <1>0, NoBits, NoProduct
<1>2. ASSUME NEW x \in Q, NEW y \in Q PROVE galAdd(x, y) \in Q
  <2>1. /\ x \in Byte /\ y \in Byte /\ galAdd(x, y) \in Byte
        /\ Product(b, x) \in Byte /\ Product(b, y) \in Byte
    BY Added, ProductType
  <2>2. Product(b, galAdd(x, y)) = galAdd(Product(b, x), Product(b, y))
    BY <2>1, ProductRight
  <2>3. Product(a, galAdd(Product(b, x), Product(b, y)))
          = galAdd(Product(a, Product(b, x)), Product(a, Product(b, y)))
    BY <2>1, ProductRight
  <2>4. Product(Product(a, b), galAdd(x, y))
          = galAdd(Product(Product(a, b), x), Product(Product(a, b), y))
    BY <1>0, <2>1, ProductRight
  <2> QED BY <2>1, <2>2, <2>3, <2>4
<1>3. Weights \subseteq Q
  <2> DEFINE ab == Product(a, b)
             b1 == Double(b)
             b2 == Double(b1)
             b3 == Double(b2)
             b4 == Double(b3)
             b5 == Double(b4)
             b6 == Double(b5)
             b7 == Double(b6)
             c1 == Double(ab)
             c2 == Double(c1)
             c3 == Double(c2)
             c4 == Double(c3)
             c5 == Double(c4)
             c6 == Double(c5)
             c7 == Double(c6)
  <2>1. /\ b1 = Double(b) /\ b2 = Double(b1) /\ b3 = Double(b2) /\ b4 = Double(b3)
        /\ b5 = Double(b4) /\ b6 = Double(b5) /\ b7 = Double(b6)
    BY Zenon
  <2>2. /\ c1 = Double(ab) /\ c2 = Double(c1) /\ c3 = Double(c2) /\ c4 = Double(c3)
        /\ c5 = Double(c4) /\ c6 = Double(c5) /\ c7 = Double(c6) /\ ab = Product(a, b)
    BY Zenon
  <2> HIDE DEF b1, b2, b3, b4, b5, b6, b7, ab, c1, c2, c3, c4, c5, c6, c7
  <2>3. /\ Product(b, 1) = b /\ Product(b, 2) = b1 /\ Product(b, 4) = b2
        /\ Product(b, 8) = b3 /\ Product(b, 16) = b4 /\ Product(b, 32) = b5
        /\ Product(b, 64) = b6 /\ Product(b, 128) = b7
    BY <2>1, ProductPowers
  <2>4. /\ Product(ab, 1) = ab /\ Product(ab, 2) = c1 /\ Product(ab, 4) = c2
        /\ Product(ab, 8) = c3 /\ Product(ab, 16) = c4 /\ Product(ab, 32) = c5
        /\ Product(ab, 64) = c6 /\ Product(ab, 128) = c7
    BY <1>0, <2>2, ProductPowers
  <2>5. b1 \in Byte /\ b2 \in Byte /\ b3 \in Byte
    BY <2>1, DoubleAdded
  <2>6. b4 \in Byte /\ b5 \in Byte /\ b6 \in Byte
    BY <2>1, <2>5, DoubleAdded
  <2>7. Product(a, b1) = c1
    BY <2>1, <2>2, ProductDouble
  <2>8. Product(a, b2) = c2
    BY <2>1, <2>2, <2>5, <2>7, ProductDouble
  <2>9. Product(a, b3) = c3
    BY <2>1, <2>2, <2>5, <2>8, ProductDouble
  <2>10. Product(a, b4) = c4
    BY <2>1, <2>2, <2>5, <2>9, ProductDouble
  <2>11. Product(a, b5) = c5
    BY <2>1, <2>2, <2>6, <2>10, ProductDouble
  <2>12. Product(a, b6) = c6
    BY <2>1, <2>2, <2>6, <2>11, ProductDouble
  <2>13. Product(a, b7) = c7
    BY <2>1, <2>2, <2>6, <2>12, ProductDouble
  <2>14. \A w \in Weights : Product(a, Product(b, w)) = Product(ab, w)
    BY <2>2, <2>3, <2>4, <2>7, <2>8, <2>9, <2>10, <2>11, <2>12, <2>13 DEF Weights
  <2> QED BY <2>2, <2>14, WeightBits
<1>4. Q \in SUBSET Byte
  OBVIOUS
<1>5. Q = Byte
  <2> HIDE DEF Q
  <2> QED BY <1>1, <1>2, <1>3, <1>4, FromBits
<1> QED BY <1>5

(* 1 is neutral.                                                           *)
LEMMA ProductOne ==
  ASSUME NEW b \in Byte
  PROVE  Product(1, b) = b
<1> DEFINE Q == {x \in Byte : Product(1, x) = x}
<1>0. 1 \in Byte
  BY DEF Byte
<1>1. 0 \in Q
  BY <1>0, NoBits, NoProduct
<1>2. ASSUME NEW x \in Q, NEW y \in Q PROVE galAdd(x, y) \in Q
  BY <1>0, Added, ProductRight
<1>3. Weights \subseteq Q
  <2>1. /\ Double(1) = 2 /\ Double(2) = 4 /\ Double(4) = 8 /\ Double(8) = 16
        /\ Double(16) = 32 /\ Double(32) = 64 /\ Double(64) = 128
    BY DEF Double
  <2>2. /\ Product(1, 1) = 1 /\ Product(1, 2) = 2 /\ Product(1, 4) = 4
        /\ Product(1, 8) = 8 /\ Product(1, 16) = 16 /\ Product(1, 32) = 32
        /\ Product(1, 64) = 64 /\ Product(1, 128) = 128
    BY <1>0, <2>1, ProductPowers
  <2> QED BY <2>2, WeightBits DEF Weights
<1>4. Q \in SUBSET Byte
  OBVIOUS
<1>5. Q = Byte
  <2> HIDE DEF Q
  <2> QED BY <1>1, <1>2, <1>3, <1>4, FromBits
<1> QED BY <1>5

(* What galMultiply inherits.                                              *)
LEMMA Multiplied ==
  ASSUME NEW a \in Byte, NEW b \in Byte, NEW c \in Byte
  PROVE  /\ galMultiply(a, b) \in Byte
         /\ galMultiply(a, galMultiply(b, c)) = galMultiply(galMultiply(a, b), c)
         /\ galMultiply(a, galAdd(b, c)) = galAdd(galMultiply(a, b), galMultiply(a, c))
         /\ galMultiply(galAdd(a, b), c) = galAdd(galMultiply(a, c), galMultiply(b, c))
         /\ galMultiply(1, a) = a /\ galMultiply(0, a) = 0 /\ galMultiply(a, 0) = 0
<1>1. \A x, y \in Byte : galMultiply(x, y) = Product(x, y) /\ Product(x, y) \in Byte
  BY ProductType DEF galMultiply, mulTable
<1>0. 0 \in Byte /\ 1 \in Byte
  BY DEF Byte
<1>2. 0 \in Byte /\ 1 \in Byte /\ galAdd(b, c) \in Byte /\ galAdd(a, b) \in Byte
  BY <1>0, AddBits
<1>3. galMultiply(a, galMultiply(b, c)) = galMultiply(galMultiply(a, b), c)
  BY <1>1, ProductProduct
<1>4. galMultiply(a, galAdd(b, c)) = galAdd(galMultiply(a, b), galMultiply(a, c))
  BY <1>1, <1>2, ProductRight
<1>5. galMultiply(galAdd(a, b), c) = galAdd(galMultiply(a, c), galMultiply(b, c))
  BY <1>1, <1>2, ProductLeft
<1> QED BY <1>1, <1>2, <1>3, <1>4, <1>5, NoProduct, ProductOne

-----------------------------------------------------------------------------
(* The multiplicative group.                                               *)

(* Doubling the other factor doubles the product too.                      *)
LEMMA DoubleProduct ==
  ASSUME NEW a \in Byte, NEW b \in Byte
  PROVE  Product(Double(a), b) = Double(Product(a, b))
<1> DEFINE Q == {x \in Byte : Product(Double(a), x) = Double(Product(a, x))}
<1>0. Double(a) \in Byte
  BY DoubleAdded
<1>1. 0 \in Q
  BY <1>0, NoBits, NoProduct, DoubleZero
<1>2. ASSUME NEW x \in Q, NEW y \in Q PROVE galAdd(x, y) \in Q
  <2>1. /\ x \in Byte /\ y \in Byte /\ galAdd(x, y) \in Byte
        /\ Product(a, x) \in Byte /\ Product(a, y) \in Byte
    BY Added, ProductType
  <2>2. Product(Double(a), galAdd(x, y)) = galAdd(Product(Double(a), x), Product(Double(a), y))
    BY <1>0, <2>1, ProductRight
  <2>3. Double(Product(a, galAdd(x, y))) = galAdd(Double(Product(a, x)), Double(Product(a, y)))
    BY <2>1, ProductRight, DoubleAdded
  <2> QED BY <2>1, <2>2, <2>3
<1>3. Weights \subseteq Q
  <2> DEFINE d1 == Double(a)
             d2 == Double(d1)
             d3 == Double(d2)
             d4 == Double(d3)
             d5 == Double(d4)
             d6 == Double(d5)
             d7 == Double(d6)
             d8 == Double(d7)
  <2>1. /\ d1 = Double(a) /\ d2 = Double(d1) /\ d3 = Double(d2) /\ d4 = Double(d3)
        /\ d5 = Double(d4) /\ d6 = Double(d5) /\ d7 = Double(d6) /\ d8 = Double(d7)
    BY Zenon
  <2> HIDE DEF d1, d2, d3, d4, d5, d6, d7, d8
  <2>2. /\ Product(a, 1) = a /\ Product(a, 2) = d1 /\ Product(a, 4) = d2
        /\ Product(a, 8) = d3 /\ Product(a, 16) = d4 /\ Product(a, 32) = d5
        /\ Product(a, 64) = d6 /\ Product(a, 128) = d7
    BY <2>1, ProductPowers
  <2>3. d1 \in Byte
    BY <1>0, <2>1
  <2>4. /\ Product(d1, 1) = d1 /\ Product(d1, 2) = d2 /\ Product(d1, 4) = d3
        /\ Product(d1, 8) = d4 /\ Product(d1, 16) = d5 /\ Product(d1, 32) = d6
        /\ Product(d1, 64) = d7 /\ Product(d1, 128) = d8
    BY <2>1, <2>3, ProductPowers
  <2>5. \A w \in Weights : Product(Double(a), w) = Double(Product(a, w))
    BY <2>1, <2>2, <2>4 DEF Weights
  <2> QED BY <2>5, WeightBits
<1>4. Q \in SUBSET Byte
  OBVIOUS
<1>5. Q = Byte
  <2> HIDE DEF Q
  <2> QED BY <1>1, <1>2, <1>3, <1>4, FromBits
<1> QED BY <1>5

(* The product is commutative.                                             *)
LEMMA Commutes ==
  ASSUME NEW a \in Byte, NEW b \in Byte
  PROVE  Product(a, b) = Product(b, a)
<1> DEFINE Q == {x \in Byte : Product(a, x) = Product(x, a)}
<1>1. 0 \in Q
  BY NoBits, NoProduct
<1>2. ASSUME NEW x \in Q, NEW y \in Q PROVE galAdd(x, y) \in Q
  <2>1. x \in Byte /\ y \in Byte /\ galAdd(x, y) \in Byte
    BY Added
  <2> QED BY <2>1, ProductRight, ProductLeft
<1>3. ASSUME NEW x \in Q PROVE Double(x) \in Q
  <2>1. x \in Byte /\ Double(x) \in Byte
    BY DoubleAdded
  <2> QED BY <2>1, ProductDouble, DoubleProduct
<1>4. 1 \in Q
  <2>1. 1 \in Byte
    BY DEF Byte
  <2>2. Product(a, 1) = a
    BY ProductPowers
  <2> QED BY <2>1, <2>2, ProductOne
<1>5. Weights \subseteq Q
  <2>1. /\ Double(1) = 2 /\ Double(2) = 4 /\ Double(4) = 8 /\ Double(8) = 16
        /\ Double(16) = 32 /\ Double(32) = 64 /\ Double(64) = 128
    BY DEF Double
  <2> HIDE DEF Q
  <2>2. 2 \in Q /\ 4 \in Q /\ 8 \in Q
    BY <1>3, <1>4, <2>1
  <2>3. 16 \in Q /\ 32 \in Q /\ 64 \in Q /\ 128 \in Q
    BY <1>3, <2>1, <2>2
  <2> QED BY <1>4, <2>2, <2>3 DEF Weights
<1>6. Q \in SUBSET Byte
  OBVIOUS
<1>7. Q = Byte
  <2> HIDE DEF Q
  <2> QED BY <1>1, <1>2, <1>5, <1>6, FromBits
<1> QED BY <1>7

-----------------------------------------------------------------------------
(* The powers of 2.                                                        *)

powerNext(x, n) ==
  IF n = 0 THEN 1 ELSE IF n % 2 = 0 THEN Square(x) ELSE Double(Square(x))

Powers(f, m) == f = [n \in 0..m |-> powerNext(f[n \div 2], n)]

-----------------------------------------------------------------------------

LEMMA HalvesAdded ==
  ASSUME NEW x \in Byte
  PROVE  /\ x % 16 \in Byte /\ 16 * (x \div 16) \in Byte
         /\ galAdd(x % 16, 16 * (x \div 16)) = x
<1> DEFINE h == x \div 16
           l == x % 16
           hi == 16 * h
<1>1. h \in Nibble /\ l \in Nibble
  BY ByteHalves
<1>2. l \in Byte /\ hi \in Byte
  BY <1>1 DEF Nibble, Byte
<1>3. \A w \in {1, 2, 4, 8} : ~On(hi, w) /\ (On(l, w) <=> On(x, w))
  <2>1. \A w \in {1, 2, 4, 8} : On(l, w) <=> On(x, w)
    BY ByteHalves
  <2>2. \A w \in {1, 2, 4, 8} : ~On(hi, w)
    <3> HIDE DEF h
    <3> QED BY <1>1 DEF On, Nibble
  <2> QED BY <2>1, <2>2
<1>4. /\ hi \div 16 = h /\ hi % 16 = 0 /\ l \div 16 = 0
  <2> HIDE DEF h, l
  <2> QED BY <1>1 DEF Nibble
<1>5. \A w \in {16, 32, 64, 128} : ~On(l, w) /\ (On(hi, w) <=> On(x, w))
  <2>1. \A w \in {16, 32, 64, 128} : ~On(l, w)
    <3> HIDE DEF l
    <3> QED BY <1>1 DEF On, Nibble
  <2>2. /\ On(x, 16) <=> On(h, 1)
        /\ On(x, 32) <=> On(h, 2)
        /\ On(x, 64) <=> On(h, 4)
        /\ On(x, 128) <=> On(h, 8)
    BY ByteHalves
  <2>3. /\ On(hi, 16) <=> On(hi \div 16, 1)
        /\ On(hi, 32) <=> On(hi \div 16, 2)
        /\ On(hi, 64) <=> On(hi \div 16, 4)
        /\ On(hi, 128) <=> On(hi \div 16, 8)
    <3> HIDE DEF hi
    <3> QED BY <1>2, ByteHalves
  <2> HIDE DEF hi, h, l
  <2> QED BY <1>4, <2>1, <2>2, <2>3
<1> HIDE DEF hi, l
<1>6. galAdd(l, hi) \in Byte /\ \A w \in Weights : On(galAdd(l, hi), w) <=> On(x, w)
  <2>1. /\ galAdd(l, hi) \in Byte
        /\ \A w \in Weights : On(galAdd(l, hi), w) <=> ~(On(l, w) <=> On(hi, w))
    BY <1>2, AddBits
  <2> QED BY <1>3, <1>5, <2>1 DEF Weights
<1>7. galAdd(l, hi) = x
  BY <1>6, ByBits
<1> QED BY <1>2, <1>7 DEF l, hi

(* The two shuffles of a kernel and their addition make the product the    *)
(* scalar loops take from the table, for every pair of bytes: galMulAVX2   *)
(* and its kin and the Go loops code the same shards.                      *)
THEOREM ShufflesMultiply ==
  ASSUME NEW c \in Byte, NEW x \in Byte
  PROVE  shuffleProduct(c, x) = galMultiply(c, x)
<1>1. mulTableLow[c][x % 16] = Product(c, x % 16)
  BY ByteHalves DEF mulTableLow
<1>2. mulTableHigh[c][x \div 16] = Product(c, 16 * (x \div 16))
  BY ByteHalves DEF mulTableHigh
<1>3. galMultiply(c, x) = Product(c, x)
  BY DEF galMultiply, mulTable
<1> DEFINE l == x % 16
           h == 16 * (x \div 16)
<1>4. l \in Byte /\ h \in Byte /\ galAdd(l, h) = x
  BY HalvesAdded
<1>5. shuffleProduct(c, x) = galAdd(Product(c, l), Product(c, h))
  BY <1>1, <1>2 DEF shuffleProduct
<1> HIDE DEF l, h
<1> QED BY <1>3, <1>4, <1>5, ProductRight

(* Three summands may be exchanged.                                        *)
LEMMA Crossed ==
  ASSUME NEW a \in Byte, NEW b \in Byte, NEW c \in Byte
  PROVE  galAdd(a, galAdd(b, c)) = galAdd(b, galAdd(a, c))
<1>1. /\ galAdd(galAdd(a, b), c) = galAdd(a, galAdd(b, c))
      /\ galAdd(galAdd(b, a), c) = galAdd(b, galAdd(a, c))
      /\ galAdd(a, b) = galAdd(b, a)
  BY Added
<1> QED BY <1>1

Adds(g, f, S) ==
  g = [s \in SUBSET S |-> IF s = {} THEN 0 ELSE galAdd(f[some(s)], g[s \ {some(s)}])]

(* A sum over a finite set, however it is added up, is a byte.             *)
LEMMA AddsByte ==
  ASSUME NEW S, IsFiniteSet(S), NEW f, \A x \in S : f[x] \in Byte, NEW g, Adds(g, f, S)
  PROVE  \A s \in SUBSET S : g[s] \in Byte
<1> DEFINE B == {s \in SUBSET S : g[s] \notin Byte}
<1>1. SUFFICES ASSUME B # {} PROVE FALSE
  OBVIOUS
<1>2. PICK s \in B : \A t \in B : ~(t \subseteq s /\ t # s)
  <2>1. B \in SUBSET SUBSET S
    OBVIOUS
  <2> HIDE DEF B
  <2> QED BY <1>1, <2>1, LeastSubset
<1>3. g[s] = IF s = {} THEN 0 ELSE galAdd(f[some(s)], g[s \ {some(s)}])
  BY DEF Adds
<1>7. 0 \in Byte
  BY NoBits
<1>4. s # {}
  BY <1>3, <1>7
<1>5. some(s) \in s
  BY <1>4, SomeIn
<1>6. g[s \ {some(s)}] \in Byte
  BY <1>2, <1>5
<1>8. f[some(s)] \in Byte
  BY <1>5
<1> HIDE DEF B
<1>9. galAdd(f[some(s)], g[s \ {some(s)}]) \in Byte
  BY <1>6, <1>8, AddBits
<1> QED BY <1>2, <1>3, <1>4, <1>9 DEF B

(* Two such functions agree where their summands do.                       *)
LEMMA AddsSame ==
  ASSUME NEW S, NEW f, NEW g, Adds(g, f, S), NEW T, NEW d, NEW e, Adds(e, d, T),
         NEW r, IsFiniteSet(r), r \subseteq S, r \subseteq T, \A x \in r : f[x] = d[x]
  PROVE  g[r] = e[r]
<1> DEFINE B == {s \in SUBSET r : g[s] # e[s]}
<1>1. SUFFICES ASSUME B # {} PROVE FALSE
  OBVIOUS
<1>2. PICK s \in B : \A t \in B : ~(t \subseteq s /\ t # s)
  <2>1. B \in SUBSET SUBSET r
    OBVIOUS
  <2> HIDE DEF B
  <2> QED BY <1>1, <2>1, LeastSubset
<1>3. /\ g[s] = IF s = {} THEN 0 ELSE galAdd(f[some(s)], g[s \ {some(s)}])
      /\ e[s] = IF s = {} THEN 0 ELSE galAdd(d[some(s)], e[s \ {some(s)}])
  BY DEF Adds
<1>4. s # {}
  BY <1>3
<1>5. some(s) \in s
  BY <1>4, SomeIn
<1>6. g[s \ {some(s)}] = e[s \ {some(s)}]
  BY <1>2, <1>5
<1> QED BY <1>3, <1>4, <1>5, <1>6

(* The sum exists.                                                         *)
LEMMA AddsExist ==
  ASSUME NEW S, IsFiniteSet(S), NEW f
  PROVE  \E g : Adds(g, f, S)
<1> DEFINE Part(T) == \E g : Adds(g, f, T)
           B == {T \in SUBSET S : ~Part(T)}
<1>1. SUFFICES ASSUME B # {} PROVE FALSE
  OBVIOUS
<1>2. PICK T \in B : \A t \in B : ~(t \subseteq T /\ t # T)
  <2>1. B \in SUBSET SUBSET S
    OBVIOUS
  <2> HIDE DEF B
  <2> QED BY <1>1, <2>1, LeastSubset
(* Every proper subset of T has one: together they make one for T.         *)
<1> DEFINE h(t) == CHOOSE g : Adds(g, f, t)
           whole == [s \in SUBSET T |-> IF s = {} THEN 0
                       ELSE galAdd(f[some(s)], h(s \ {some(s)})[s \ {some(s)}])]
<1>3. \A t \in SUBSET T : t # T => Adds(h(t), f, t)
  BY <1>2
<1>4. ASSUME NEW s \in SUBSET T, s # {}
      PROVE  h(s \ {some(s)})[s \ {some(s)}] = whole[s \ {some(s)}]
  <2> DEFINE r == s \ {some(s)}
             q == r \ {some(r)}
  <2>1. r \in SUBSET T /\ r # T
    BY <1>4, SomeIn
  <2>2. Adds(h(r), f, r)
    BY <1>3, <2>1
  <2>3. h(r)[r] = IF r = {} THEN 0 ELSE galAdd(f[some(r)], h(r)[q])
    <3> HIDE DEF h, r
    <3> QED BY <2>2 DEF Adds
  <2>4. CASE r = {}
    BY <2>1, <2>3, <2>4
  <2>5. CASE r # {}
    <3>1. q \in SUBSET T /\ q # T /\ q \subseteq r
      BY <2>1, <2>5, SomeIn
    <3>2. Adds(h(q), f, q)
      BY <1>3, <3>1
    <3>3. IsFiniteSet(q)
      BY <3>1, FS_Subset
    <3>4. h(r)[q] = h(q)[q]
      <4> HIDE DEF h, q, r
      <4> QED BY <2>2, <3>1, <3>2, <3>3, AddsSame
    <3>5. whole[r] = galAdd(f[some(r)], h(q)[q])
      <4> HIDE DEF h
      <4> QED BY <2>1, <2>5
    <3>6. h(r)[r] = whole[r]
      <4> HIDE DEF h, whole, q, r
      <4> QED BY <2>3, <2>5, <3>4, <3>5
    <3> QED BY <3>6
  <2> QED BY <2>4, <2>5
<1>5. whole = [s \in SUBSET T |-> IF s = {} THEN 0 ELSE galAdd(f[some(s)], whole[s \ {some(s)}])]
  <2> HIDE DEF h
  <2> QED BY <1>4
<1>6. Part(T)
  <2> HIDE DEF whole
  <2> QED BY <1>5 DEF Adds
<1> QED BY <1>6

(* One element may be taken out first, whichever.                          *)
LEMMA AddsStep ==
  ASSUME NEW S, IsFiniteSet(S), NEW f, \A x \in S : f[x] \in Byte, NEW g, Adds(g, f, S),
         NEW r \in SUBSET S, NEW x \in r
  PROVE  g[r] = galAdd(f[x], g[r \ {x}])
<1> DEFINE B == {s \in SUBSET S : \E y \in s : g[s] # galAdd(f[y], g[s \ {y}])}
<1>1. SUFFICES ASSUME B # {} PROVE FALSE
  OBVIOUS
<1>2. PICK s \in B : \A t \in B : ~(t \subseteq s /\ t # s)
  <2>1. B \in SUBSET SUBSET S
    OBVIOUS
  <2> HIDE DEF B
  <2> QED BY <1>1, <2>1, LeastSubset
<1>3. PICK y \in s : g[s] # galAdd(f[y], g[s \ {y}])
  OBVIOUS
<1> DEFINE m == some(s)
           rest == s \ {m, y}
<1>4. m \in s
  BY SomeIn
<1>5. g[s] = galAdd(f[m], g[s \ {m}])
  BY <1>4 DEF Adds
<1> HIDE DEF m
<1>6. m # y
  BY <1>3, <1>5
<1>7. g[s \ {m}] = galAdd(f[y], g[rest])
  <2>1. s \ {m} \in SUBSET S /\ s \ {m} \notin B /\ y \in s \ {m}
    BY <1>2, <1>4, <1>6
  <2>2. (s \ {m}) \ {y} = rest
    OBVIOUS
  <2> QED BY <2>1, <2>2
<1>8. g[s \ {y}] = galAdd(f[m], g[rest])
  <2>1. s \ {y} \in SUBSET S /\ s \ {y} \notin B /\ m \in s \ {y}
    BY <1>2, <1>4, <1>6
  <2>2. (s \ {y}) \ {m} = rest
    OBVIOUS
  <2> QED BY <2>1, <2>2
<1>9. g[rest] \in Byte /\ f[m] \in Byte /\ f[y] \in Byte
  BY <1>4, AddsByte
<1>10. galAdd(f[m], galAdd(f[y], g[rest])) = galAdd(f[y], galAdd(f[m], g[rest]))
  BY <1>9, Crossed
<1> QED BY <1>3, <1>5, <1>7, <1>8, <1>10

(* A set of numbers that holds 0 and goes on holds them all.               *)
LEMMA Prefixes ==
  ASSUME NEW n \in Nat, NEW P \in SUBSET (0..n), 0 \in P, \A i \in P : i < n => i + 1 \in P
  PROVE  P = 0..n
<1> DEFINE B == (0..n) \ P
<1>1. SUFFICES ASSUME B # {} PROVE FALSE
  OBVIOUS
<1>2. PICK k \in B : \A m \in B : k <= m
  <2>1. B \in SUBSET Nat
    OBVIOUS
  <2> HIDE DEF B
  <2> QED BY <1>1, <2>1, LeastNumber
<1>3. k # 0 /\ k - 1 \notin B /\ k - 1 \in 0..n /\ k - 1 < n
  BY <1>2
<1> QED BY <1>3

-----------------------------------------------------------------------------
(* The sum of f[0] ... f[n - 1].                                           *)

total(f, n) == FoldFunction(galAdd, 0, [i \in 0..(n - 1) |-> f[i]])

Bytes(f, n) == \A i \in 0..(n - 1) : f[i] \in Byte

(* The fold that defines Sum adds up its terms.                            *)
LEMMA TotalAdds ==
  ASSUME NEW f, NEW n
  PROVE  (\E g : Adds(g, [i \in 0..(n - 1) |-> f[i]], 0..(n - 1)))
         => \E g : /\ Adds(g, [i \in 0..(n - 1) |-> f[i]], 0..(n - 1))
                   /\ total(f, n) = g[0..(n - 1)]
<1> DEFINE T == 0..(n - 1)
           h == [i \in T |-> f[i]]
           E(g) == g = [s \in SUBSET T |->
                          IF s = {} THEN 0
                          ELSE galAdd(h[CHOOSE x \in s : TRUE], g[s \ {CHOOSE x \in s : TRUE}])]
<1>0. SUFFICES ASSUME \E g : Adds(g, h, T)
               PROVE  \E g : Adds(g, h, T) /\ total(f, n) = g[T]
  OBVIOUS
<1>1. ASSUME NEW g PROVE Adds(g, h, T) <=> E(g)
  BY Zenon DEF Adds, some
<1>2. \E g : E(g)
  <2> HIDE DEF E
  <2> QED BY <1>0, <1>1
<1>3. E(CHOOSE g : E(g))
  <2> HIDE DEF E
  <2> QED BY <1>2, Zenon
<1>4. DOMAIN h = T
  OBVIOUS
<1>5. total(f, n) = FoldFunctionOnSet(galAdd, 0, h, T)
  <2> HIDE DEF T
  <2>1. DOMAIN [i \in T |-> f[i]] = T
    OBVIOUS
  <2> QED BY <2>1, Zenon DEF total, FoldFunction, T
<1>6. FoldFunctionOnSet(galAdd, 0, h, T) = (CHOOSE g : E(g))[T]
  BY Zenon DEF FoldFunctionOnSet, MapThenFoldSet
<1> QED
  <2> HIDE DEF E, h, T
  <2> QED BY <1>1, <1>3, <1>5, <1>6

(* A sum has its terms added up, whatever their order.                     *)
LEMMA TotalSums ==
  ASSUME NEW n \in Nat, NEW f
  PROVE  \E g : /\ Adds(g, [i \in 0..(n - 1) |-> f[i]], 0..(n - 1))
                /\ total(f, n) = g[0..(n - 1)]
<1>1. IsFiniteSet(0..(n - 1))
  BY FS_Interval
<1>2. \E g : Adds(g, [i \in 0..(n - 1) |-> f[i]], 0..(n - 1))
  BY <1>1, AddsExist
<1> QED BY <1>2, TotalAdds

(* A sum only depends on its summands.                                     *)
LEMMA TotalSame ==
  ASSUME NEW n, NEW f, NEW d, \A i \in 0..(n - 1) : f[i] = d[i]
  PROVE  total(f, n) = total(d, n)
<1>1. [i \in 0..(n - 1) |-> f[i]] = [i \in 0..(n - 1) |-> d[i]]
  OBVIOUS
<1> QED BY <1>1, Zenon DEF total

(* An empty sum is 0, and one more term is added on.                       *)
LEMMA TotalZero ==
  ASSUME NEW f
  PROVE  total(f, 0) = 0
<1>1. PICK g : /\ Adds(g, [i \in 0..(0 - 1) |-> f[i]], 0..(0 - 1))
               /\ total(f, 0) = g[0..(0 - 1)]
  BY TotalSums
<1>2. 0..(0 - 1) = {}
  OBVIOUS
<1> QED BY <1>1, <1>2 DEF Adds

Summed(g, f, S) == IsFiniteSet(S) /\ Adds(g, f, S) /\ \A x \in S : f[x] \in Byte

LEMMA SummedStep ==
  ASSUME NEW S, NEW f, NEW g, Summed(g, f, S), NEW r \in SUBSET S, NEW x \in r
  PROVE  g[r] = galAdd(f[x], g[r \ {x}])
  BY AddsStep DEF Summed

Agreeing(f, d, r) == \A x \in r : f[x] = d[x]

LEMMA AddedSame ==
  ASSUME NEW S, NEW f, NEW g, Adds(g, f, S), NEW T, NEW d, NEW e, Adds(e, d, T),
         NEW r, IsFiniteSet(r), r \subseteq S, r \subseteq T, Agreeing(f, d, r)
  PROVE  g[r] = e[r]
  BY AddsSame DEF Agreeing

SumIs(f, n, h, S, v) == S = 0..(n - 1) /\ h = [i \in S |-> f[i]] /\ \E g : Adds(g, h, S) /\ v = g[S]

LEMMA TotalIs ==
  ASSUME NEW n \in Nat, NEW f
  PROVE  SumIs(f, n, [i \in 0..(n - 1) |-> f[i]], 0..(n - 1), total(f, n))
  BY TotalSums, Zenon DEF SumIs

LEMMA TotalNext ==
  ASSUME NEW n \in Nat, NEW f, Bytes(f, n + 1)
  PROVE  total(f, n + 1) = galAdd(f[n], total(f, n))
<1> DEFINE m == n + 1
           S == 0..(m - 1)
           T == 0..(n - 1)
           h == [i \in S |-> f[i]]
           k == [i \in T |-> f[i]]
<1>0. m \in Nat
  OBVIOUS
<1>3. /\ IsFiniteSet(S) /\ IsFiniteSet(T) /\ \A i \in S : h[i] \in Byte
  BY FS_Interval DEF Bytes
<1>4. /\ S \in SUBSET S /\ n \in S /\ S \ {n} = T /\ h[n] = f[n]
      /\ T \subseteq S /\ T \subseteq T /\ \A i \in T : h[i] = k[i]
  OBVIOUS
<1> HIDE DEF m
<1>1. SumIs(f, m, h, S, total(f, m)) /\ SumIs(f, n, k, T, total(f, n))
  BY <1>0, TotalIs
<1> HIDE DEF h, k, S, T
<1>2. PICK g : Adds(g, h, S) /\ total(f, m) = g[S]
  BY <1>1 DEF SumIs
<1>6. PICK e : Adds(e, k, T) /\ total(f, n) = e[T]
  BY <1>1 DEF SumIs
<1>7. Summed(g, h, S) /\ Agreeing(h, k, T)
  BY <1>2, <1>3, <1>4 DEF Summed, Agreeing
<1>5. g[S] = galAdd(h[n], g[S \ {n}])
  BY <1>4, <1>7, SummedStep
<1>8. g[T] = e[T]
  BY <1>2, <1>3, <1>4, <1>6, <1>7, AddedSame
<1>9. total(f, m) = galAdd(f[n], total(f, n))
  BY <1>2, <1>4, <1>5, <1>6, <1>8
<1> QED BY <1>9 DEF m

LEMMA TotalType ==
  ASSUME NEW n \in Nat, NEW f, Bytes(f, n)
  PROVE  total(f, n) \in Byte
<1> DEFINE P == {k \in 0..n : total(f, k) \in Byte}
<1>1. 0 \in P
  BY TotalZero, NoBits
<1>2. ASSUME NEW i \in P, i < n PROVE i + 1 \in P
  <2>1. Bytes(f, i + 1) /\ i \in 0..(n - 1)
    BY <1>2 DEF Bytes
  <2>2. total(f, i + 1) = galAdd(f[i], total(f, i))
    BY <2>1, TotalNext
  <2>3. f[i] \in Byte /\ total(f, i) \in Byte
    BY <2>1 DEF Bytes
  <2>4. total(f, i + 1) \in Byte
    BY <2>2, <2>3, AddBits
  <2> QED BY <1>2, <2>4
<1>3. P = 0..n
  <2>1. P \in SUBSET (0..n)
    OBVIOUS
  <2> HIDE DEF P
  <2> QED BY <1>1, <1>2, <2>1, Prefixes
<1> QED BY <1>3

(* There is a function that satisfies the recursion up to 256.             *)
LEMMA PowersExist ==
  \E f : Powers(f, 256)
<1> DEFINE P == {m \in 0..256 : \E f : Powers(f, m)}
<1>1. 0 \in P
  <2> DEFINE f == [n \in 0..0 |-> 1]
  <2>1. \A n \in 0..0 : n = 0
    OBVIOUS
  <2>2. Powers(f, 0)
    BY <2>1 DEF Powers, powerNext
  <2> QED BY <2>2
<1>2. ASSUME NEW m \in P, m < 256 PROVE m + 1 \in P
  <2>1. m \in 0..256 /\ m + 1 \in 0..256 /\ m \in Nat
    BY <1>2
  <2>2. PICK f : Powers(f, m)
    OBVIOUS
  <2> DEFINE o == m + 1
             g == [n \in 0..o |-> IF n = o THEN powerNext(f[n \div 2], n) ELSE f[n]]
  <2>3. ASSUME NEW n \in 0..o
        PROVE  g[n] = powerNext(g[n \div 2], n)
    <3>0. n \in 0..o /\ n \in Nat
      BY <2>1
    <3>1. CASE n = o
      <4>1. n \div 2 \in 0..m /\ n \div 2 \in 0..o /\ n \div 2 # o
        BY <2>1, <3>1
      <4> DEFINE h == n \div 2
      <4>2. h \in 0..o /\ h # o
        BY <4>1
      <4>3. g[n] = powerNext(f[h], n)
        BY <3>0, <3>1, Zenon
      <4>4. g[h] = f[h]
        <5> HIDE DEF h, o
        <5> QED BY <4>2
      <4> HIDE DEF h, g
      <4> QED BY <4>3, <4>4 DEF h
    <3>2. CASE n # o
      <4>1. n \in 0..m /\ n \div 2 \in 0..o /\ n \div 2 # o
        BY <2>1, <3>0, <3>2
      <4>2. f[n] = powerNext(f[n \div 2], n)
        BY <2>2, <4>1, Zenon DEF Powers
      <4> DEFINE h == n \div 2
      <4>3. h \in 0..o /\ h # o
        BY <4>1
      <4>4. g[n] = f[n]
        BY <3>0, <3>2
      <4>5. g[h] = f[h]
        <5> HIDE DEF h, o
        <5> QED BY <4>3
      <4> HIDE DEF g
      <4>6. f[n] = powerNext(f[h], n)
        BY <4>2
      <4> HIDE DEF h
      <4>7. g[n] = powerNext(g[h], n)
        BY <4>4, <4>5, <4>6
      <4> QED BY <4>7 DEF h
    <3> QED BY <3>1, <3>2
  <2>4. g = [n \in 0..o |-> g[n]]
    OBVIOUS
  <2> HIDE DEF g
  <2>5. g = [n \in 0..o |-> powerNext(g[n \div 2], n)]
    <3> HIDE DEF o
    <3>1. [n \in 0..o |-> g[n]] = [n \in 0..o |-> powerNext(g[n \div 2], n)]
      BY <2>3, Zenon
    <3> QED BY <2>4, <3>1, Zenon
  <2>6. Powers(g, m + 1)
    BY <2>5, Zenon DEF Powers
  <2> QED BY <2>1, <2>6
<1>3. P = 0..256
  <2> HIDE DEF P
  <2>1. P \in SUBSET (0..256)
    BY DEF P
  <2>2. \A i \in P : i < 256 => i + 1 \in P
    BY <1>2
  <2> QED BY <1>1, <2>1, <2>2, Prefixes
<1>4. 256 \in P
  <2> HIDE DEF P
  <2> QED BY <1>3
<1> QED BY <1>4

(* powerOf is what its recursion says.                                     *)
LEMMA PowerRule ==
  \A n \in 0..256 : powerOf[n] = powerNext(powerOf[n \div 2], n)
<1> DEFINE Q(f) == f = [n \in 0..256 |-> powerNext(f[n \div 2], n)]
<1>1. \E f : Q(f)
  BY PowersExist, Zenon DEF Powers
<1>2. powerOf = CHOOSE f : Q(f)
  BY Zenon DEF powerOf, powerNext, fieldSize
<1>3. Q(powerOf)
  BY <1>1, <1>2, Zenon
<1> QED BY <1>3, Zenon

(* The first power is 1.                                                   *)
LEMMA PowerOne ==
  powerOf[0] = 1
  BY PowerRule DEF powerNext

(* Every power is a byte.                                                  *)
LEMMA PowerByte ==
  \A n \in 0..256 : powerOf[n] \in Byte
<1> DEFINE B == {n \in 0..256 : powerOf[n] \notin Byte}
<1>1. SUFFICES ASSUME B # {} PROVE FALSE
  OBVIOUS
<1>2. PICK k \in B : \A m \in B : k <= m
  <2>1. B \in SUBSET Nat
    OBVIOUS
  <2> HIDE DEF B
  <2> QED BY <1>1, <2>1, LeastNumber
<1>3. k # 0
  <2>1. 1 \in Byte
    BY DEF Byte
  <2> QED BY <2>1, PowerOne
<1>4. k \div 2 \in 0..256 /\ k \div 2 < k
  BY <1>2, <1>3
<1>5. powerOf[k \div 2] \in Byte
  BY <1>2, <1>4
<1>6. Square(powerOf[k \div 2]) \in Byte
  BY <1>5, ProductType DEF Square
<1>7. powerOf[k] \in Byte
  BY <1>3, <1>6, DoubleAdded, PowerRule DEF powerNext
<1> QED BY <1>7

(* Each power is the double of the one before.                             *)
LEMMA PowerNext ==
  \A n \in 0..255 : powerOf[n + 1] = Double(powerOf[n])
<1> DEFINE B == {n \in 0..255 : powerOf[n + 1] # Double(powerOf[n])}
<1>1. SUFFICES ASSUME B # {} PROVE FALSE
  OBVIOUS
<1>2. PICK k \in B : \A m \in B : k <= m
  <2>1. B \in SUBSET Nat
    OBVIOUS
  <2> HIDE DEF B
  <2> QED BY <1>1, <2>1, LeastNumber
<1> DEFINE h == k \div 2
           p == powerOf[h]
<1>3. k \in 0..255 /\ h \in 0..127
  BY <1>2
<1>4. p \in Byte
  BY <1>3, PowerByte
<1>5. CASE k = 2 * h
  <2>1. (k + 1) \div 2 = h /\ (k + 1) % 2 = 1 /\ k + 1 # 0 /\ k + 1 \in 0..256
    BY <1>3, <1>5
  <2>2. powerOf[k + 1] = Double(Square(p))
    BY <2>1, PowerRule DEF powerNext
  <2>3. CASE k = 0
    <3>1. powerOf[k] = 1 /\ p = 1
      BY <1>3, <2>3, PowerOne
    <3>2. Square(1) = 1
      <4>1. 1 \in Byte
        BY DEF Byte
      <4> QED BY <4>1, ProductOne DEF Square
    <3> QED BY <1>2, <2>2, <3>1, <3>2
  <2>4. CASE k # 0
    <3>1. powerOf[k] = Square(p)
      BY <1>3, <1>5, <2>4, PowerRule DEF powerNext
    <3> QED BY <1>2, <2>2, <3>1
  <2> QED BY <2>3, <2>4
<1>6. CASE k = 2 * h + 1
  <2>1. (k + 1) \div 2 = h + 1 /\ (k + 1) % 2 = 0 /\ k + 1 # 0 /\ k + 1 \in 0..256
    BY <1>3, <1>6
  <2>2. powerOf[k + 1] = Square(powerOf[h + 1])
    BY <2>1, PowerRule DEF powerNext
  <2>3. h \in 0..255 /\ h < k
    BY <1>3, <1>6
  <2>4. powerOf[h + 1] = Double(p)
    BY <1>2, <2>3
  <2>5. k % 2 = 1 /\ k # 0 /\ k \in 0..256
    BY <1>3, <1>6
  <2>6. powerOf[k] = Double(Square(p))
    BY <2>5, PowerRule DEF powerNext
  <2>7. Square(Double(p)) = Double(Double(Square(p)))
    <3>1. Double(p) \in Byte
      BY <1>4, DoubleAdded
    <3>2. Product(Double(p), Double(p)) = Double(Product(p, Double(p)))
      BY <1>4, <3>1, DoubleProduct
    <3>3. Product(p, Double(p)) = Double(Product(p, p))
      BY <1>4, ProductDouble
    <3> QED BY <3>2, <3>3 DEF Square
  <2> HIDE DEF p
  <2> QED BY <1>2, <2>2, <2>4, <2>6, <2>7
<1> QED BY <1>3, <1>5, <1>6

(* Powers multiply by adding up their exponents.                           *)
LEMMA PowersMultiply ==
  ASSUME NEW i \in 0..256, NEW j \in 0..256, i + j <= 256
  PROVE  Product(powerOf[i], powerOf[j]) = powerOf[i + j]
<1> DEFINE n == 256 - i
           P == {m \in 0..n : Product(powerOf[i], powerOf[m]) = powerOf[i + m]}
<1>0. n \in Nat /\ j \in 0..n /\ powerOf[i] \in Byte
  BY PowerByte
<1>1. 0 \in P
  <2>1. Product(powerOf[i], 1) = powerOf[i]
    BY <1>0, ProductPowers
  <2>2. i + 0 = i /\ 0 \in 0..n
    OBVIOUS
  <2> QED BY <2>1, <2>2, PowerOne
<1>2. ASSUME NEW m \in P, m < n PROVE m + 1 \in P
  <2>1. /\ m \in 0..255 /\ i + m \in 0..255 /\ i + (m + 1) = (i + m) + 1 /\ m + 1 \in 0..n
        /\ m \in 0..256
    BY <1>2
  <2>2. powerOf[m] \in Byte
    BY <2>1, PowerByte
  <2>3. Product(powerOf[i], Double(powerOf[m])) = Double(Product(powerOf[i], powerOf[m]))
    BY <1>0, <2>2, ProductDouble
  <2>4. powerOf[m + 1] = Double(powerOf[m]) /\ powerOf[(i + m) + 1] = Double(powerOf[i + m])
    BY <2>1, PowerNext
  <2>5. Product(powerOf[i], powerOf[m]) = powerOf[i + m]
    OBVIOUS
  <2> QED BY <2>1, <2>3, <2>4, <2>5
<1>3. P = 0..n
  <2>1. P \in SUBSET (0..n) /\ \A x \in P : x < n => x + 1 \in P
    BY <1>2
  <2> HIDE DEF P, n
  <2> QED BY <1>0, <1>1, <2>1, Prefixes
<1> QED BY <1>0, <1>3

nibbles(a, b) ==
    (IF a % 2 # b % 2 THEN 1 ELSE 0)
  + (IF (a \div 2) % 2 # (b \div 2) % 2 THEN 2 ELSE 0)
  + (IF (a \div 4) % 2 # (b \div 4) % 2 THEN 4 ELSE 0)
  + (IF (a \div 8) % 2 # (b \div 8) % 2 THEN 8 ELSE 0)

(* galAdd adds the nibbles.                                                *)
LEMMA AddValue ==
  ASSUME NEW a \in Byte, NEW b \in Byte
  PROVE  galAdd(a, b) = 16 * nibbles(a \div 16, b \div 16) + nibbles(a % 16, b % 16)
<1>1. \A x, y \in Nibble : XorNibble[x][y] = nibbles(x, y)
  BY DEF XorNibble, nibbles, Nibble
<1>2. a \div 16 \in Nibble /\ b \div 16 \in Nibble /\ a % 16 \in Nibble /\ b % 16 \in Nibble
  BY DEF Byte, Nibble
<1> QED BY <1>1, <1>2 DEF galAdd, Xor

Adding(a, b, c) ==
  /\ a \in Byte /\ b \in Byte
  /\ c = 16 * nibbles(a \div 16, b \div 16) + nibbles(a % 16, b % 16)

(* A sum is computed by splitting both bytes and adding four bits twice.   *)
LEMMA AddIs ==
  ASSUME NEW a, NEW b, NEW c, Adding(a, b, c)
  PROVE  galAdd(a, b) = c
  BY AddValue DEF Adding

(* The sums the powers below are computed from.                            *)
LEMMA TheseSums ==
  /\ galAdd(0, 29) = 29 /\ galAdd(2, 1) = 3 /\ galAdd(4, 1) = 5
  /\ galAdd(4, 2) = 6 /\ galAdd(8, 4) = 12 /\ galAdd(8, 5) = 13
  /\ galAdd(14, 29) = 19 /\ galAdd(16, 1) = 17 /\ galAdd(16, 4) = 20
  /\ galAdd(16, 5) = 21 /\ galAdd(19, 117) = 102 /\ galAdd(19, 120) = 107
  /\ galAdd(19, 156) = 143 /\ galAdd(19, 157) = 142 /\ galAdd(19, 205) = 222
  /\ galAdd(28, 29) = 1 /\ galAdd(29, 16) = 13 /\ galAdd(29, 17) = 12
  /\ galAdd(30, 29) = 3 /\ galAdd(32, 1) = 33 /\ galAdd(32, 6) = 38
  /\ galAdd(32, 20) = 52 /\ galAdd(32, 21) = 53 /\ galAdd(64, 12) = 76
  /\ galAdd(64, 13) = 77 /\ galAdd(64, 16) = 80 /\ galAdd(64, 17) = 81
  /\ galAdd(64, 52) = 116 /\ galAdd(64, 53) = 117 /\ galAdd(104, 29) = 117
  /\ galAdd(116, 1) = 117 /\ galAdd(116, 12) = 120 /\ galAdd(116, 13) = 121
  /\ galAdd(116, 20) = 96 /\ galAdd(128, 33) = 161 /\ galAdd(128, 53) = 181
  /\ galAdd(128, 64) = 192 /\ galAdd(128, 76) = 204 /\ galAdd(128, 77) = 205
  /\ galAdd(154, 29) = 135 /\ galAdd(188, 29) = 161 /\ galAdd(205, 80) = 157
  /\ galAdd(205, 81) = 156 /\ galAdd(205, 120) = 181 /\ galAdd(205, 121) = 180
  /\ galAdd(208, 29) = 205
<1>1. /\ Adding(0, 29, 29) /\ Adding(2, 1, 3) /\ Adding(4, 1, 5)
      /\ Adding(4, 2, 6) /\ Adding(8, 4, 12) /\ Adding(8, 5, 13)
  BY DEF Adding, nibbles, Byte
<1>2. /\ Adding(14, 29, 19) /\ Adding(16, 1, 17) /\ Adding(16, 4, 20)
      /\ Adding(16, 5, 21) /\ Adding(19, 117, 102) /\ Adding(19, 120, 107)
  BY DEF Adding, nibbles, Byte
<1>3. /\ Adding(19, 156, 143) /\ Adding(19, 157, 142) /\ Adding(19, 205, 222)
      /\ Adding(28, 29, 1) /\ Adding(29, 16, 13) /\ Adding(29, 17, 12)
  BY DEF Adding, nibbles, Byte
<1>4. /\ Adding(30, 29, 3) /\ Adding(32, 1, 33) /\ Adding(32, 6, 38)
      /\ Adding(32, 20, 52) /\ Adding(32, 21, 53) /\ Adding(64, 12, 76)
  BY DEF Adding, nibbles, Byte
<1>5. /\ Adding(64, 13, 77) /\ Adding(64, 16, 80) /\ Adding(64, 17, 81)
      /\ Adding(64, 52, 116) /\ Adding(64, 53, 117) /\ Adding(104, 29, 117)
  BY DEF Adding, nibbles, Byte
<1>6. /\ Adding(116, 1, 117) /\ Adding(116, 12, 120) /\ Adding(116, 13, 121)
      /\ Adding(116, 20, 96) /\ Adding(128, 33, 161) /\ Adding(128, 53, 181)
  BY DEF Adding, nibbles, Byte
<1>7. /\ Adding(128, 64, 192) /\ Adding(128, 76, 204) /\ Adding(128, 77, 205)
      /\ Adding(154, 29, 135) /\ Adding(188, 29, 161) /\ Adding(205, 80, 157)
  BY DEF Adding, nibbles, Byte
<1>8. /\ Adding(205, 81, 156) /\ Adding(205, 120, 181) /\ Adding(205, 121, 180)
      /\ Adding(208, 29, 205)
  BY DEF Adding, nibbles, Byte
<1> QED BY <1>1, <1>2, <1>3, <1>4, <1>5, <1>6, <1>7, <1>8, AddIs

(* The doubles the powers below are computed from.                         *)
LEMMA TheseDoubles ==
  /\ Double(128) = 29 /\ Double(232) = 205 /\ Double(205) = 135
  /\ Double(135) = 19 /\ Double(143) = 3 /\ Double(180) = 117
  /\ Double(222) = 161 /\ Double(142) = 1
  BY TheseSums DEF Double, fieldSize, generatingPolynomial

(* PowerNext from the other end: the power before n determines that of n.  *)
LEMMA PowerAfter ==
  ASSUME NEW n \in 1..256
  PROVE  powerOf[n] = Double(powerOf[n - 1])
<1>1. n - 1 \in 0..255 /\ (n - 1) + 1 = n
  OBVIOUS
<1> QED BY <1>1, PowerNext

(* The power of an even exponent is a square.                              *)
LEMMA PowerTwice ==
  ASSUME NEW n \in 0..128
  PROVE  powerOf[2 * n] = Square(powerOf[n])
<1>1. n \in 0..256 /\ n + n <= 256 /\ n + n = 2 * n
  OBVIOUS
<1> QED BY <1>1, PowersMultiply DEF Square

(* The powers up to the seventeenth.                                       *)
LEMMA FirstPowers ==
  /\ powerOf[0] = 1 /\ powerOf[1] = 2 /\ powerOf[2] = 4
  /\ powerOf[3] = 8 /\ powerOf[4] = 16 /\ powerOf[5] = 32
  /\ powerOf[6] = 64 /\ powerOf[7] = 128 /\ powerOf[8] = 29
  /\ powerOf[9] = 58 /\ powerOf[10] = 116 /\ powerOf[11] = 232
  /\ powerOf[12] = 205 /\ powerOf[13] = 135 /\ powerOf[14] = 19
  /\ powerOf[15] = 38 /\ powerOf[16] = 76 /\ powerOf[17] = 152
<1>1. powerOf[1] = 2
  BY PowerOne, PowerAfter DEF Double
<1>2. powerOf[2] = 4
  BY <1>1, PowerAfter DEF Double
<1>3. powerOf[3] = 8
  BY <1>2, PowerAfter DEF Double
<1>4. powerOf[4] = 16
  BY <1>3, PowerAfter DEF Double
<1>5. powerOf[5] = 32
  BY <1>4, PowerAfter DEF Double
<1>6. powerOf[6] = 64
  BY <1>5, PowerAfter DEF Double
<1>7. powerOf[7] = 128
  BY <1>6, PowerAfter DEF Double
<1>8. powerOf[8] = 29
  BY <1>7, PowerAfter, TheseDoubles
<1>9. powerOf[9] = 58
  BY <1>8, PowerAfter DEF Double
<1>10. powerOf[10] = 116
  BY <1>9, PowerAfter DEF Double
<1>11. powerOf[11] = 232
  BY <1>10, PowerAfter DEF Double
<1>12. powerOf[12] = 205
  BY <1>11, PowerAfter, TheseDoubles
<1>13. powerOf[13] = 135
  BY <1>12, PowerAfter, TheseDoubles
<1>14. powerOf[14] = 19
  BY <1>13, PowerAfter, TheseDoubles
<1>15. powerOf[15] = 38
  BY <1>14, PowerAfter DEF Double
<1>16. powerOf[16] = 76
  BY <1>15, PowerAfter DEF Double
<1>17. powerOf[17] = 152
  BY <1>16, PowerAfter DEF Double
<1> QED BY PowerOne, <1>1, <1>2, <1>3, <1>4, <1>5, <1>6, <1>7, <1>8, <1>9, <1>10, <1>11, <1>12, <1>13, <1>14, <1>15, <1>16, <1>17

SquareIs(a, s) == a \in Byte /\ s \in Byte /\ Square(a) = s

(* Squaring is linear.                                                     *)
LEMMA SquareOfSum ==
  ASSUME NEW a, NEW s, SquareIs(a, s), NEW b, NEW t, SquareIs(b, t)
  PROVE  SquareIs(galAdd(a, b), galAdd(s, t))
<1>1. /\ a \in Byte /\ b \in Byte /\ s \in Byte /\ t \in Byte /\ galAdd(a, b) \in Byte
      /\ galAdd(s, t) \in Byte
  BY Added DEF SquareIs
<1> DEFINE p == Product(a, b)
<1>2. p \in Byte /\ Product(b, a) = p
  BY <1>1, ProductType, Commutes
<1>3. Product(a, a) = s /\ Product(b, b) = t
  BY DEF SquareIs, Square
<1>4. Product(galAdd(a, b), a) = galAdd(s, p) /\ Product(galAdd(a, b), b) = galAdd(p, t)
  <2>1. Product(galAdd(a, b), a) = galAdd(Product(a, a), Product(b, a))
    BY <1>1, ProductLeft
  <2>2. Product(galAdd(a, b), b) = galAdd(Product(a, b), Product(b, b))
    BY <1>1, ProductLeft
  <2> QED BY <1>2, <1>3, <2>1, <2>2
<1> HIDE DEF p
<1>5. Product(galAdd(a, b), galAdd(a, b)) = galAdd(galAdd(s, p), galAdd(p, t))
  BY <1>1, <1>4, ProductRight
<1>6. galAdd(galAdd(s, p), galAdd(p, t)) = galAdd(s, t)
  <2>0. galAdd(p, t) \in Byte /\ 0 \in Byte
    BY <1>1, <1>2, Added, NoBits
  <2>1. galAdd(galAdd(s, p), galAdd(p, t)) = galAdd(s, galAdd(p, galAdd(p, t)))
    BY <1>1, <1>2, <2>0, Added
  <2>2. galAdd(p, galAdd(p, t)) = galAdd(galAdd(p, p), t)
    BY <1>1, <1>2, Added
  <2>3. galAdd(galAdd(p, p), t) = t
    BY <1>1, <1>2, SelfAdded, Added
  <2> QED BY <2>1, <2>2, <2>3
<1> QED BY <1>1, <1>5, <1>6 DEF SquareIs, Square

(* The squares the later powers are computed from.                         *)
LEMMA TheseSquares ==
  /\ Square(5) = 17 /\ Square(13) = 81 /\ Square(77) = 156
  /\ Square(205) = 143 /\ Square(20) = 13 /\ Square(52) = 121
  /\ Square(116) = 180 /\ Square(21) = 12 /\ Square(53) = 120
  /\ Square(117) = 181 /\ Square(181) = 107 /\ Square(6) = 20
  /\ Square(38) = 96 /\ Square(192) = 222 /\ Square(33) = 117
  /\ Square(161) = 102 /\ Square(12) = 80 /\ Square(76) = 157
  /\ Square(204) = 142 /\ Square(3) = 5
<1>1. /\ SquareIs(1, 1) /\ SquareIs(2, 4) /\ SquareIs(4, 16)
      /\ SquareIs(8, 64) /\ SquareIs(16, 29) /\ SquareIs(32, 116)
      /\ SquareIs(64, 205) /\ SquareIs(128, 19)
  BY FirstPowers, PowerTwice DEF SquareIs, Byte
<1>2. SquareIs(5, 17)
  BY <1>1, TheseSums, SquareOfSum
<1>3. SquareIs(13, 81)
  BY <1>1, <1>2, TheseSums, SquareOfSum
<1>4. SquareIs(77, 156)
  BY <1>1, <1>3, TheseSums, SquareOfSum
<1>5. SquareIs(205, 143)
  BY <1>1, <1>4, TheseSums, SquareOfSum
<1>6. SquareIs(20, 13)
  BY <1>1, TheseSums, SquareOfSum
<1>7. SquareIs(52, 121)
  BY <1>1, <1>6, TheseSums, SquareOfSum
<1>8. SquareIs(116, 180)
  BY <1>1, <1>7, TheseSums, SquareOfSum
<1>9. SquareIs(21, 12)
  BY <1>1, <1>2, TheseSums, SquareOfSum
<1>10. SquareIs(53, 120)
  BY <1>1, <1>9, TheseSums, SquareOfSum
<1>11. SquareIs(117, 181)
  BY <1>1, <1>10, TheseSums, SquareOfSum
<1>12. SquareIs(181, 107)
  BY <1>1, <1>10, TheseSums, SquareOfSum
<1>13. SquareIs(6, 20)
  BY <1>1, TheseSums, SquareOfSum
<1>14. SquareIs(38, 96)
  BY <1>1, <1>13, TheseSums, SquareOfSum
<1>15. SquareIs(192, 222)
  BY <1>1, TheseSums, SquareOfSum
<1>16. SquareIs(33, 117)
  BY <1>1, TheseSums, SquareOfSum
<1>17. SquareIs(161, 102)
  BY <1>1, <1>16, TheseSums, SquareOfSum
<1>18. SquareIs(12, 80)
  BY <1>1, TheseSums, SquareOfSum
<1>19. SquareIs(76, 157)
  BY <1>1, <1>18, TheseSums, SquareOfSum
<1>20. SquareIs(204, 142)
  BY <1>1, <1>19, TheseSums, SquareOfSum
<1>21. SquareIs(3, 5)
  BY <1>1, TheseSums, SquareOfSum
<1> QED BY <1>2, <1>3, <1>4, <1>5, <1>6, <1>7, <1>8, <1>9, <1>10, <1>11, <1>12, <1>13, <1>14, <1>15, <1>16, <1>17, <1>18, <1>19, <1>20, <1>21 DEF SquareIs

(* The powers that tell the order of 2.                                    *)
LEMMA TellingPowers ==
  powerOf[51] = 10 /\ powerOf[85] = 214 /\ powerOf[255] = 1
<1>1. powerOf[24] = 143
  BY FirstPowers, PowerTwice, TheseSquares
<1>2. powerOf[25] = 3
  BY <1>1, PowerAfter, TheseDoubles
<1>3. powerOf[50] = 5
  BY <1>2, PowerTwice, TheseSquares
<1>4. powerOf[51] = 10
  BY <1>3, PowerAfter DEF Double
<1>5. powerOf[20] = 180
  BY FirstPowers, PowerTwice, TheseSquares
<1>6. powerOf[21] = 117
  BY <1>5, PowerAfter, TheseDoubles
<1>7. powerOf[42] = 181
  BY <1>6, PowerTwice, TheseSquares
<1>8. powerOf[84] = 107
  BY <1>7, PowerTwice, TheseSquares
<1>9. powerOf[85] = 214
  BY <1>8, PowerAfter DEF Double
<1>10. powerOf[30] = 96
  BY FirstPowers, PowerTwice, TheseSquares
<1>11. powerOf[31] = 192
  BY <1>10, PowerAfter DEF Double
<1>12. powerOf[62] = 222
  BY <1>11, PowerTwice, TheseSquares
<1>13. powerOf[63] = 161
  BY <1>12, PowerAfter, TheseDoubles
<1>14. powerOf[126] = 102
  BY <1>13, PowerTwice, TheseSquares
<1>15. powerOf[127] = 204
  BY <1>14, PowerAfter DEF Double
<1>16. powerOf[254] = 142
  BY <1>15, PowerTwice, TheseSquares
<1>17. powerOf[255] = 1
  BY <1>16, PowerAfter, TheseDoubles
<1> QED BY <1>4, <1>9, <1>17

Exponents(i, j, n) == i \in 0..256 /\ j \in 0..256 /\ n \in 0..256 /\ n = i + j

(* PowersMultiply, with the sum of the exponents as a variable.            *)
LEMMA PowersAdd ==
  ASSUME NEW i, NEW j, NEW n, Exponents(i, j, n)
  PROVE  Product(powerOf[i], powerOf[j]) = powerOf[n]
<1>1. i \in 0..256 /\ j \in 0..256 /\ i + j <= 256 /\ n = i + j
  BY DEF Exponents
<1> QED BY <1>1, PowersMultiply

(* No power is 0, since the powers go on to one that is 1.                 *)
LEMMA PowerNotZero ==
  ASSUME NEW n \in 0..255
  PROVE  powerOf[n] # 0 /\ powerOf[n] \in Byte
<1>1. n \in 0..256 /\ 255 - n \in 0..256 /\ n + (255 - n) = 255 /\ 255 \in 0..256
  OBVIOUS
<1>2. powerOf[n] \in Byte /\ powerOf[255 - n] \in Byte
  BY <1>1, PowerByte
<1>3. Product(powerOf[n], powerOf[255 - n]) = 1
  <2> DEFINE m == 255 - n
  <2>1. Exponents(n, m, 255)
    BY <1>1 DEF Exponents
  <2> HIDE DEF m
  <2>2. Product(powerOf[n], powerOf[m]) = powerOf[255]
    BY <2>1, PowersAdd
  <2> QED BY <2>2, TellingPowers DEF m
<1> QED BY <1>2, <1>3, NoProduct

(* What two equal powers differ by is an exponent whose power is 1.        *)
LEMMA Cancelled ==
  ASSUME NEW i \in 0..255, NEW j \in 0..255, i <= j, powerOf[i] = powerOf[j]
  PROVE  powerOf[j - i] = 1
<1> DEFINE x == 255 - i
           m == j - i
<1>1. /\ x \in 0..256 /\ m \in 0..256 /\ i \in 0..256 /\ j \in 0..256 /\ 255 \in 0..256
      /\ j = m + i /\ 255 = i + x
  OBVIOUS
<1>2. /\ powerOf[m] \in Byte /\ powerOf[i] \in Byte /\ powerOf[x] \in Byte
  BY <1>1, PowerByte
<1>0. Exponents(m, i, j) /\ Exponents(i, x, 255)
  BY <1>1 DEF Exponents
<1> HIDE DEF x, m
<1>3. Product(powerOf[m], powerOf[i]) = powerOf[j]
  BY <1>0, PowersAdd
<1>4. Product(powerOf[i], powerOf[x]) = 1
  <2>1. Product(powerOf[i], powerOf[x]) = powerOf[255]
    BY <1>0, PowersAdd
  <2> QED BY <2>1, TellingPowers
<1>5. Product(powerOf[m], Product(powerOf[i], powerOf[x]))
        = Product(Product(powerOf[m], powerOf[i]), powerOf[x])
  BY <1>2, ProductProduct
<1>6. Product(powerOf[m], 1) = powerOf[m]
  BY <1>2, ProductPowers
<1>7. powerOf[m] = 1
  BY <1>3, <1>4, <1>5, <1>6
<1> QED BY <1>7 DEF m

Ones == {n \in 1..255 : powerOf[n] = 1}

(* The exponents whose power is 1 are closed under subtraction.            *)
LEMMA OnesLess ==
  ASSUME NEW m \in Ones, NEW n \in Ones, m < n
  PROVE  n - m \in Ones
<1>1. m \in 0..255 /\ n \in 0..255 /\ m <= n /\ n - m \in 1..255
  BY DEF Ones
<1> QED BY <1>1, Cancelled DEF Ones

(* The least exponent whose power is 1 divides 255.                        *)
LEMMA OrderDivides ==
  ASSUME NEW d \in Ones, \A n \in Ones : d <= n
  PROVE  \E k \in 1..255 : 255 = k * d
<1> DEFINE M == {n \in Ones : ~\E k \in 1..255 : n = k * d}
<1>1. 255 \in Ones
  BY TellingPowers DEF Ones
<1>2. M = {}
  <2>1. SUFFICES ASSUME M # {} PROVE FALSE
    OBVIOUS
  <2>2. PICK n \in M : \A o \in M : n <= o
    <3>1. M \in SUBSET Nat
      BY DEF Ones
    <3> HIDE DEF M
    <3> QED BY <2>1, <3>1, LeastNumber
  <2>3. n \in Ones /\ n \in 1..255 /\ d \in 1..255 /\ d <= n
    BY DEF Ones
  <2>4. n # d
    <3>1. d = 1 * d /\ 1 \in 1..255
      BY <2>3
    <3> QED BY <3>1
  <2>5. d < n
    BY <2>3, <2>4
  <2>6. n - d \in Ones
    BY <2>3, <2>5, OnesLess
  <2>7. n - d \notin M
    BY <2>2, <2>3, <2>5
  <2>8. PICK k \in 1..255 : n - d = k * d
    BY <2>6, <2>7
  <2>9. k * d \in Nat /\ k * d <= 254
    BY <2>3, <2>5, <2>8
  <2>10. (k + 1) * d = k * d + d
    BY <2>3
  <2>11. k <= k * d
    BY <2>3
  <2>12. n = (k + 1) * d /\ k + 1 \in 1..255
    <3> DEFINE p == k * d
               q == (k + 1) * d
    <3>1. p \in Nat /\ p <= 254 /\ q = p + d /\ k <= p /\ n - d = p
      BY <2>8, <2>9, <2>10, <2>11
    <3> HIDE DEF p, q
    <3>2. n = q /\ k + 1 \in 1..255
      BY <2>3, <3>1
    <3> QED BY <3>2 DEF q
  <2> QED BY <2>2, <2>12
<1> QED BY <1>1, <1>2

(* 2 generates the group.                                                  *)
LEMMA OrderIs255 ==
  Ones = {255}
<1>1. 255 \in Ones /\ Ones \in SUBSET Nat
  BY TellingPowers DEF Ones
<1>2. PICK d \in Ones : \A n \in Ones : d <= n
  <2> QED BY <1>1, LeastNumber
<1>3. PICK k \in 1..255 : 255 = k * d
  BY <1>2, OrderDivides
<1>4. d \in 1..255
  BY DEF Ones
<1>5. d \in {1, 3, 5, 15, 17, 51, 85, 255}
  <2>1. CASE d \in 1..15
    BY <1>3, <2>1
  <2>2. CASE k \in 1..15
    <3>1. k \in {1, 3, 5, 15}
      BY <1>3, <1>4, <2>2
    <3>2. k = 1 => d = 255
      BY <1>3, <1>4
    <3>3. k = 3 => d = 85
      BY <1>3, <1>4
    <3>4. k = 5 => d = 51
      BY <1>3, <1>4
    <3>5. k = 15 => d = 17
      BY <1>3, <1>4
    <3> QED BY <3>1, <3>2, <3>3, <3>4, <3>5
  <2>3. CASE d >= 16 /\ k >= 16
    <3>1. k * d >= 16 * d
      BY <1>4, <2>3
    <3>2. 16 * d >= 256
      BY <2>3, <1>4
    <3> QED BY <1>3, <1>4, <3>1, <3>2
  <2> QED BY <1>4, <2>1, <2>2, <2>3
<1>6. /\ powerOf[1] = 2 /\ powerOf[3] = 8 /\ powerOf[5] = 32 /\ powerOf[15] = 38
      /\ powerOf[17] = 152 /\ powerOf[51] = 10 /\ powerOf[85] = 214
  BY FirstPowers, TellingPowers
<1>7. powerOf[d] = 1
  BY DEF Ones
<1>8. d = 255
  BY <1>5, <1>6, <1>7
<1> QED BY <1>1, <1>2, <1>8 DEF Ones

(* So the powers below 255 are all different.                              *)
LEMMA PowersDiffer ==
  ASSUME NEW i \in 0..254, NEW j \in 0..254, powerOf[i] = powerOf[j]
  PROVE  i = j
<1>1. ASSUME NEW x \in 0..254, NEW y \in 0..254, powerOf[x] = powerOf[y], x < y PROVE FALSE
  <2>1. powerOf[y - x] = 1 /\ y - x \in 1..254
    <3>1. x \in 0..255 /\ y \in 0..255 /\ x <= y /\ y - x \in 1..254
      BY <1>1
    <3> QED BY <1>1, <3>1, Cancelled
  <2> QED BY <2>1, OrderIs255 DEF Ones
<1>2. ~(i < j) /\ ~(j < i)
  BY <1>1
<1> QED BY <1>2

(* Every byte but 0 is a power of 2.                                       *)
LEMMA EveryByte ==
  ASSUME NEW a \in Byte, a # 0
  PROVE  \E n \in 0..254 : powerOf[n] = a
<1> DEFINE f == [n \in 0..254 |-> powerOf[n]]
<1>1. f \in Injection(0..254, 1..255)
  <2>1. \A n \in 0..254 : powerOf[n] \in 1..255
    <3>1. \A n \in 0..254 : powerOf[n] # 0 /\ powerOf[n] \in Byte
      BY PowerNotZero
    <3>2. \A x \in Byte : x # 0 => x \in 1..255
      BY DEF Byte
    <3> QED BY <3>1, <3>2
  <2>2. f \in [0..254 -> 1..255]
    BY <2>1
  <2>3. \A x, y \in 0..254 : f[x] = f[y] => x = y
    BY PowersDiffer
  <2> HIDE DEF f
  <2> QED BY <2>2, <2>3 DEF Injection, IsInjective
<1>2. /\ IsFiniteSet(0..254) /\ Cardinality(0..254) = 255
      /\ IsFiniteSet(1..255) /\ Cardinality(1..255) = 255
  <2>1. 0 \in Int /\ 254 \in Int /\ 1 \in Int /\ 255 \in Int
    OBVIOUS
  <2>2. /\ IsFiniteSet(0..254)
        /\ Cardinality(0..254) = IF 0 > 254 THEN 0 ELSE 254 - 0 + 1
    BY <2>1, FS_Interval, Zenon
  <2>3. /\ IsFiniteSet(1..255)
        /\ Cardinality(1..255) = IF 1 > 255 THEN 0 ELSE 255 - 1 + 1
    BY <2>1, FS_Interval, Zenon
  <2> QED BY <2>2, <2>3
<1>3. f \in Surjection(0..254, 1..255)
  <2> HIDE DEF f
  <2> QED BY <1>1, <1>2, FS_Injection
<1>4. a \in 1..255
  BY DEF Byte
<1>5. \E n \in 0..254 : f[n] = a
  <2> HIDE DEF f
  <2> QED BY <1>3, <1>4 DEF Surjection
<1> QED BY <1>5

(* The exponent of a product: the sum of the two, less 255 if it is more.  *)
wrap(i, j) == IF i + j < 255 THEN i + j ELSE i + j - 255

(* The product of two powers is a power below 255.                         *)
LEMMA PowersWrap ==
  ASSUME NEW i \in 0..254, NEW j \in 0..254
  PROVE  wrap(i, j) \in 0..254 /\ Product(powerOf[i], powerOf[j]) = powerOf[wrap(i, j)]
<1>1. wrap(i, j) \in 0..254
  BY DEF wrap
<1>2. CASE i + j < 255
  <2> DEFINE w == wrap(i, j)
  <2>1. Exponents(i, j, w)
    BY <1>1, <1>2 DEF Exponents, wrap
  <2> HIDE DEF w
  <2>2. Product(powerOf[i], powerOf[j]) = powerOf[w]
    BY <2>1, PowersAdd
  <2> QED BY <1>1, <2>2 DEF w
<1>3. CASE ~(i + j < 255)
  <2> DEFINE w == wrap(i, j)
             d == i - w
  <2>1. Exponents(w, d, i) /\ Exponents(d, j, 255)
    BY <1>1, <1>3 DEF Exponents, wrap
  <2>2. d \in 0..256 /\ w \in 0..256 /\ i \in 0..256 /\ j \in 0..256
    BY <2>1 DEF Exponents
  <2> HIDE DEF w, d
  <2>3. Product(powerOf[w], powerOf[d]) = powerOf[i]
    BY <2>1, PowersAdd
  <2>4. Product(powerOf[d], powerOf[j]) = 1
    <3>1. Product(powerOf[d], powerOf[j]) = powerOf[255]
      BY <2>1, PowersAdd
    <3> QED BY <3>1, TellingPowers
  <2>5. powerOf[w] \in Byte /\ powerOf[d] \in Byte /\ powerOf[j] \in Byte
    BY <2>2, PowerByte
  <2>6. Product(powerOf[w], Product(powerOf[d], powerOf[j]))
          = Product(Product(powerOf[w], powerOf[d]), powerOf[j])
    BY <2>5, ProductProduct
  <2>7. Product(powerOf[w], 1) = powerOf[w]
    BY <2>5, ProductPowers
  <2>8. Product(powerOf[i], powerOf[j]) = powerOf[w]
    BY <2>3, <2>4, <2>6, <2>7
  <2> QED BY <1>1, <2>8 DEF w
<1> QED BY <1>2, <1>3

WrapsTo(n, w) == n \in 0..509 /\ \A x \in 0..254 : x \in {n, n - 255} <=> x = w

(* Subtracting an exponent again, modulo 255 as galDivide does, gives the  *)
(* other one; and it is one of the two sums that expTable holds.           *)
LEMMA WrapBack ==
  ASSUME NEW i \in 0..254, NEW j \in 0..254
  PROVE  /\ (wrap(i, j) - j + 255) % 255 = i
         /\ WrapsTo(i + j, wrap(i, j))
<1>1. CASE i + j < 255
  <2>1. wrap(i, j) - j + 255 = i + 255 /\ (i + 255) % 255 = i
    BY <1>1 DEF wrap
  <2> QED BY <1>1, <2>1 DEF wrap, WrapsTo
<1>2. CASE ~(i + j < 255)
  <2>1. wrap(i, j) - j + 255 = i /\ i % 255 = i
    BY <1>2 DEF wrap
  <2> QED BY <1>2, <2>1 DEF wrap, WrapsTo
<1> QED BY <1>1, <1>2

(* The logarithm of a byte.                                                *)
LEMMA LogPower ==
  ASSUME NEW a \in Byte, a # 0
  PROVE  logTable[a] \in 0..254 /\ powerOf[logTable[a]] = a
<1>1. \E n \in 0..254 : powerOf[n] = a
  BY EveryByte
<1>2. logTable[a] = CHOOSE n \in 0..254 : powerOf[n] = a
  BY DEF logTable
<1> QED BY <1>1, <1>2

(* logTable undoes powerOf ...                                             *)
LEMMA PowerLog ==
  ASSUME NEW n \in 0..254
  PROVE  logTable[powerOf[n]] = n
<1>1. powerOf[n] # 0 /\ powerOf[n] \in Byte
  <2>1. n \in 0..255
    OBVIOUS
  <2> QED BY <2>1, PowerNotZero
<1>2. logTable[powerOf[n]] \in 0..254 /\ powerOf[logTable[powerOf[n]]] = powerOf[n]
  BY <1>1, LogPower
<1> QED BY <1>2, PowersDiffer

(* ... and expTable is powerOf.                                            *)
LEMMA ExpPower ==
  ASSUME NEW n \in 0..254
  PROVE  expTable[n] = powerOf[n]
<1>1. n \in 0..(2 * fieldSize - 3) /\ n % (fieldSize - 1) = n
  BY DEF fieldSize
<1> QED BY <1>1 DEF expTable

(* The product of two bytes that are not 0, by their logarithms.           *)
LEMMA ProductByLogs ==
  ASSUME NEW a \in Byte, a # 0, NEW b \in Byte, b # 0
  PROVE  /\ Product(a, b) = powerOf[wrap(logTable[a], logTable[b])]
         /\ wrap(logTable[a], logTable[b]) \in 0..254
<1> DEFINE i == logTable[a]
           j == logTable[b]
<1>1. i \in 0..254 /\ j \in 0..254 /\ powerOf[i] = a /\ powerOf[j] = b
  BY LogPower
<1> HIDE DEF i, j
<1>2. wrap(i, j) \in 0..254 /\ Product(powerOf[i], powerOf[j]) = powerOf[wrap(i, j)]
  BY <1>1, PowersWrap
<1> QED BY <1>1, <1>2 DEF i, j

(* What the generator computes of two bytes is their product.              *)
LEMMA Generated ==
  ASSUME NEW a \in Byte, NEW b \in Byte
  PROVE  generateMulTable(a, b) = Product(a, b)
<1>1. CASE a = 0 \/ b = 0
  BY <1>1, NoProduct DEF generateMulTable
<1>2. CASE a # 0 /\ b # 0
  <2> DEFINE i == logTable[a]
             j == logTable[b]
             n == i + j
             w == wrap(i, j)
             p == powerOf[w]
  <2>1. i \in 0..254 /\ j \in 0..254
    BY <1>2, LogPower
  <2>2. Product(a, b) = p /\ w \in 0..254
    BY <1>2, ProductByLogs
  <2>3. generateMulTable(a, b) = generateExpTable[n]
    BY <1>2 DEF generateMulTable
  <2>4. n \in 0..509 /\ \A x \in 0..254 : x \in {n, n - 255} <=> x = w
    <3> HIDE DEF i, j, p
    <3>1. WrapsTo(n, w)
      BY <2>1, WrapBack
    <3> HIDE DEF n, w
    <3> QED BY <3>1 DEF WrapsTo
  <2> HIDE DEF i, j, n, w
  <2>5. generateExpTable[n]
          = CHOOSE x \in 1..(fieldSize - 1) : logTable[x] \in {n, n - (fieldSize - 1)}
    <3>1. n \in 0..(2 * fieldSize - 3) /\ fieldSize - 1 = 255
      BY <2>4 DEF fieldSize
    <3> HIDE DEF p
    <3>2. generateExpTable
            = [m \in 0..(2 * fieldSize - 3) |->
                 CHOOSE x \in 1..(fieldSize - 1) : logTable[x] \in {m, m - (fieldSize - 1)}]
      BY Zenon DEF generateExpTable
    <3> QED BY <3>1, <3>2, Zenon
  <2>6. p \in 1..255 /\ logTable[p] = w
    <3>1. p # 0 /\ p \in Byte
      BY <2>2, PowerNotZero
    <3>2. logTable[p] = w
      BY <2>2, PowerLog
    <3> QED BY <3>1, <3>2 DEF Byte
  <2>7. ASSUME NEW x \in 1..255, logTable[x] \in {n, n - 255} PROVE x = p
    <3>1. x \in Byte /\ x # 0
      BY DEF Byte
    <3>2. logTable[x] \in 0..254 /\ powerOf[logTable[x]] = x
      BY <3>1, LogPower
    <3>3. logTable[x] = w
      BY <2>4, <2>7, <3>2
    <3> QED BY <3>2, <3>3
  <2> HIDE DEF p
  <2>8. p \in 1..255 /\ logTable[p] \in {n, n - 255}
    BY <2>2, <2>4, <2>6
  <2>9. (CHOOSE x \in 1..(fieldSize - 1) : logTable[x] \in {n, n - (fieldSize - 1)}) = p
    <3> DEFINE e == fieldSize - 1
    <3>1. e = 255
      BY DEF fieldSize
    <3> HIDE DEF e
    <3>2. (CHOOSE x \in 1..e : logTable[x] \in {n, n - e}) = p
      BY <2>7, <2>8, <3>1
    <3> QED BY <3>2 DEF e
  <2> QED BY <2>2, <2>3, <2>5, <2>9
<1> QED BY <1>1, <1>2

(* A quotient takes the product back.                                      *)
LEMMA Divided ==
  ASSUME NEW a \in Byte, NEW b \in Byte, b # 0
  PROVE  galDivide(Product(a, b), b) = a
<1>1. CASE a = 0
  BY <1>1, NoProduct DEF galDivide
<1>2. CASE a # 0
  <2> DEFINE i == logTable[a]
             j == logTable[b]
             w == wrap(i, j)
             p == powerOf[w]
  <2>1. i \in 0..254 /\ j \in 0..254 /\ powerOf[i] = a
    BY <1>2, LogPower
  <2>2. Product(a, b) = p /\ w \in 0..254
    BY <1>2, ProductByLogs
  <2>3. p # 0 /\ logTable[p] = w
    BY <2>2, PowerNotZero, PowerLog
  <2>4. galDivide(p, b) = expTable[(logTable[p] - logTable[b] + 255) % 255]
    BY <2>3 DEF galDivide
  <2>5. (w - j + 255) % 255 = i
    <3> HIDE DEF i, j
    <3> QED BY <2>1, WrapBack
  <2> HIDE DEF i, w, p
  <2> QED BY <2>1, <2>2, <2>3, <2>4, <2>5, ExpPower
<1> QED BY <1>1, <1>2

(* The half tables of the generator are those of the kernels.              *)
LEMMA HalvesGenerated ==
  ASSUME NEW a \in Byte
  PROVE  generateMulTableHalf(a) = [low |-> mulTableLow[a], high |-> mulTableHigh[a]]
<1> DEFINE shifted(n) == CHOOSE b \in Byte : b % 16 = 0 /\ b \div 16 = n
<1>1. \A n \in Nibble : n \in Byte /\ shifted(n) = 16 * n /\ 16 * n \in Byte
  <2> SUFFICES ASSUME NEW n \in Nibble
               PROVE  n \in Byte /\ shifted(n) = 16 * n /\ 16 * n \in Byte
    OBVIOUS
  <2>1. n \in Byte /\ 16 * n \in Byte /\ (16 * n) % 16 = 0 /\ (16 * n) \div 16 = n
    BY DEF Nibble, Byte
  <2>2. \A b \in Byte : b % 16 = 0 /\ b \div 16 = n => b = 16 * n
    BY DEF Nibble, Byte
  <2> QED BY <2>1, <2>2
<1> DEFINE low == [n \in Nibble |-> generateMulTable(a, n)]
           high == [n \in Nibble |-> generateMulTable(a, shifted(n))]
<1>2. generateMulTableHalf(a) = [low |-> low, high |-> high]
  BY Zenon DEF generateMulTableHalf
<1>3. low = mulTableLow[a]
  <2>1. mulTableLow[a] = [n \in Nibble |-> Product(a, n)]
    BY DEF mulTableLow
  <2>2. \A n \in Nibble : generateMulTable(a, n) = Product(a, n)
    BY <1>1, Generated
  <2> QED BY <2>1, <2>2, Zenon
<1>4. high = mulTableHigh[a]
  <2>1. mulTableHigh[a] = [n \in Nibble |-> Product(a, 16 * n)]
    BY DEF mulTableHigh
  <2> HIDE DEF shifted
  <2>2. \A n \in Nibble : generateMulTable(a, shifted(n)) = Product(a, 16 * n)
    BY <1>1, Generated
  <2> QED BY <2>1, <2>2, Zenon
<1> HIDE DEF low, high
<1> QED BY <1>2, <1>3, <1>4

(* The laws of galMultiply once more, one by one.                          *)
LEMMA MultipliedType ==
  ASSUME NEW a \in Byte, NEW b \in Byte
  PROVE  galMultiply(a, b) \in Byte
  BY Multiplied

LEMMA MultipliedZero ==
  ASSUME NEW a \in Byte
  PROVE  galMultiply(a, 0) = 0 /\ galMultiply(0, a) = 0 /\ galMultiply(1, a) = a
  BY Multiplied

LEMMA LeftDistributes ==
  ASSUME NEW a \in Byte, NEW b \in Byte, NEW c \in Byte
  PROVE  galMultiply(a, galAdd(b, c)) = galAdd(galMultiply(a, b), galMultiply(a, c))
  BY Multiplied

LEMMA RightDistributes ==
  ASSUME NEW a \in Byte, NEW b \in Byte, NEW c \in Byte
  PROVE  galMultiply(galAdd(a, b), c) = galAdd(galMultiply(a, c), galMultiply(b, c))
  BY Multiplied

LEMMA Associates ==
  ASSUME NEW a \in Byte, NEW b \in Byte, NEW c \in Byte
  PROVE  galMultiply(a, galMultiply(b, c)) = galMultiply(galMultiply(a, b), c)
  BY Multiplied

(* The sum takes in one summand after the other.                           *)
LEMMA TotalGrows ==
  ASSUME NEW n \in Nat, NEW f, Bytes(f, n), NEW k \in 0..n, k < n
  PROVE  /\ total(f, k + 1) = galAdd(f[k], total(f, k))
         /\ f[k] \in Byte /\ total(f, k) \in Byte
<1>1. Bytes(f, k + 1) /\ Bytes(f, k) /\ f[k] \in Byte
  BY DEF Bytes
<1>2. total(f, k + 1) = galAdd(f[k], total(f, k))
  BY <1>1, TotalNext
<1>3. total(f, k) \in Byte
  BY <1>1, TotalType
<1> QED BY <1>1, <1>2, <1>3

(* d is f times a, from the left or from the right.                        *)
ScaledLeft(d, a, f, n) == \A i \in 0..(n - 1) : d[i] = galMultiply(a, f[i])
ScaledRight(d, f, a, n) == \A i \in 0..(n - 1) : d[i] = galMultiply(f[i], a)

(* A factor may be taken out of a sum, on the left and on the right.       *)
LEMMA TotalLeft ==
  ASSUME NEW n \in Nat, NEW a \in Byte, NEW f, Bytes(f, n), NEW d, ScaledLeft(d, a, f, n)
  PROVE  total(d, n) = galMultiply(a, total(f, n))
<1> DEFINE P == {k \in 0..n : total(d, k) = galMultiply(a, total(f, k))}
<1>0. Bytes(d, n)
  BY MultipliedType DEF Bytes, ScaledLeft
<1>1. 0 \in P
  BY TotalZero, NoBits, MultipliedZero
<1>2. ASSUME NEW k \in P, k < n PROVE k + 1 \in P
  <2>0. k \in 0..n /\ total(d, k) = galMultiply(a, total(f, k)) /\ k + 1 \in 0..n
    BY <1>2
  <2> HIDE DEF P
  <2>1. /\ total(f, k + 1) = galAdd(f[k], total(f, k))
        /\ f[k] \in Byte /\ total(f, k) \in Byte
    BY <1>2, <2>0, TotalGrows
  <2>2. total(d, k + 1) = galAdd(d[k], total(d, k))
    BY <1>0, <1>2, <2>0, TotalGrows
  <2>3. d[k] = galMultiply(a, f[k])
    BY <1>2, <2>0 DEF ScaledLeft
  <2>4. galMultiply(a, galAdd(f[k], total(f, k)))
          = galAdd(galMultiply(a, f[k]), galMultiply(a, total(f, k)))
    BY <2>1, LeftDistributes
  <2>5. total(d, k + 1) = galMultiply(a, total(f, k + 1))
    BY <2>0, <2>1, <2>2, <2>3, <2>4
  <2> QED BY <2>0, <2>5 DEF P
<1>3. P = 0..n
  <2>1. P \in SUBSET (0..n)
    OBVIOUS
  <2> HIDE DEF P
  <2> QED BY <1>1, <1>2, <2>1, Prefixes
<1>4. n \in P
  BY <1>3
<1> QED BY <1>4

LEMMA TotalRight ==
  ASSUME NEW n \in Nat, NEW a \in Byte, NEW f, Bytes(f, n), NEW d, ScaledRight(d, f, a, n)
  PROVE  total(d, n) = galMultiply(total(f, n), a)
<1> DEFINE P == {k \in 0..n : total(d, k) = galMultiply(total(f, k), a)}
<1>0. Bytes(d, n)
  BY MultipliedType DEF Bytes, ScaledRight
<1>1. 0 \in P
  BY TotalZero, NoBits, MultipliedZero
<1>2. ASSUME NEW k \in P, k < n PROVE k + 1 \in P
  <2>0. k \in 0..n /\ total(d, k) = galMultiply(total(f, k), a) /\ k + 1 \in 0..n
    BY <1>2
  <2> HIDE DEF P
  <2>1. /\ total(f, k + 1) = galAdd(f[k], total(f, k))
        /\ f[k] \in Byte /\ total(f, k) \in Byte
    BY <1>2, <2>0, TotalGrows
  <2>2. total(d, k + 1) = galAdd(d[k], total(d, k))
    BY <1>0, <1>2, <2>0, TotalGrows
  <2>3. d[k] = galMultiply(f[k], a)
    BY <1>2, <2>0 DEF ScaledRight
  <2>4. galMultiply(galAdd(f[k], total(f, k)), a)
          = galAdd(galMultiply(f[k], a), galMultiply(total(f, k), a))
    BY <2>1, RightDistributes
  <2>5. total(d, k + 1) = galMultiply(total(f, k + 1), a)
    BY <2>0, <2>1, <2>2, <2>3, <2>4
  <2> QED BY <2>0, <2>5 DEF P
<1>3. P = 0..n
  <2>1. P \in SUBSET (0..n)
    OBVIOUS
  <2> HIDE DEF P
  <2> QED BY <1>1, <1>2, <2>1, Prefixes
<1>4. n \in P
  BY <1>3
<1> QED BY <1>4

(* The sum of sums.                                                        *)
AddedUp(s, f, d, n) == \A i \in 0..(n - 1) : s[i] = galAdd(f[i], d[i])

(* The sum of two sums.                                                    *)
LEMMA TotalAdded ==
  ASSUME NEW n \in Nat, NEW f, Bytes(f, n), NEW d, Bytes(d, n), NEW s, AddedUp(s, f, d, n)
  PROVE  total(s, n) = galAdd(total(f, n), total(d, n))
<1> DEFINE P == {k \in 0..n : total(s, k) = galAdd(total(f, k), total(d, k))}
<1>0. Bytes(s, n)
  BY Added DEF Bytes, AddedUp
<1>1. 0 \in P
  BY TotalZero, NoBits, Added
<1>2. ASSUME NEW k \in P, k < n PROVE k + 1 \in P
  <2>0. k \in 0..n /\ total(s, k) = galAdd(total(f, k), total(d, k)) /\ k + 1 \in 0..n
    BY <1>2
  <2> HIDE DEF P
  <2>1. /\ total(f, k + 1) = galAdd(f[k], total(f, k))
        /\ f[k] \in Byte /\ total(f, k) \in Byte
    BY <1>2, <2>0, TotalGrows
  <2>2. /\ total(d, k + 1) = galAdd(d[k], total(d, k))
        /\ d[k] \in Byte /\ total(d, k) \in Byte
    BY <1>2, <2>0, TotalGrows
  <2>3. total(s, k + 1) = galAdd(s[k], total(s, k))
    BY <1>0, <1>2, <2>0, TotalGrows
  <2>4. s[k] = galAdd(f[k], d[k])
    BY <1>2, <2>0 DEF AddedUp
  <2>5. galAdd(galAdd(f[k], d[k]), galAdd(total(f, k), total(d, k)))
          = galAdd(galAdd(f[k], total(f, k)), galAdd(d[k], total(d, k)))
    BY <2>1, <2>2, Exchanged
  <2>6. total(s, k + 1) = galAdd(total(f, k + 1), total(d, k + 1))
    BY <2>0, <2>1, <2>2, <2>3, <2>4, <2>5
  <2> QED BY <2>0, <2>6 DEF P
<1>3. P = 0..n
  <2>1. P \in SUBSET (0..n)
    OBVIOUS
  <2> HIDE DEF P
  <2> QED BY <1>1, <1>2, <2>1, Prefixes
<1>4. n \in P
  BY <1>3
<1> QED BY <1>4

(* All summands but one are 0.                                             *)
OnlyAt(f, r, n) == \A i \in 0..(n - 1) : i # r => f[i] = 0

(* A sum with one term that is not 0.                                      *)
LEMMA TotalOnly ==
  ASSUME NEW n \in Nat, NEW r \in 0..(n - 1), NEW f, f[r] \in Byte, OnlyAt(f, r, n)
  PROVE  total(f, n) = f[r]
<1> DEFINE P == {k \in 0..n : total(f, k) = IF r < k THEN f[r] ELSE 0}
<1>0. Bytes(f, n)
  BY NoBits DEF Bytes, OnlyAt
<1>1. 0 \in P
  BY TotalZero
<1>2. ASSUME NEW k \in P, k < n PROVE k + 1 \in P
  <2>0. /\ k \in 0..n /\ k + 1 \in 0..n
        /\ total(f, k) = IF r < k THEN f[r] ELSE 0
    BY <1>2
  <2> HIDE DEF P
  <2>1. /\ total(f, k + 1) = galAdd(f[k], total(f, k))
        /\ f[k] \in Byte /\ total(f, k) \in Byte
    BY <1>0, <1>2, <2>0, TotalGrows
  <2>2. galAdd(f[r], 0) = f[r] /\ galAdd(0, f[r]) = f[r] /\ galAdd(0, 0) = 0
    BY Added, NoBits
  <2>3. k # r => f[k] = 0
    BY <1>2, <2>0 DEF OnlyAt
  <2>4. total(f, k + 1) = IF r < k + 1 THEN f[r] ELSE 0
    BY <2>0, <2>1, <2>2, <2>3
  <2> QED BY <2>0, <2>4 DEF P
<1>3. P = 0..n
  <2>1. P \in SUBSET (0..n)
    OBVIOUS
  <2> HIDE DEF P
  <2> QED BY <1>1, <1>2, <2>1, Prefixes
<1>4. n \in P /\ r < n
  BY <1>3
<1> QED BY <1>4

(* The sum over a table, row by row or column by column.                   *)
Table(F, n, m) == \A i \in 0..(n - 1) : \A c \in 0..(m - 1) : F[i][c] \in Byte
rowTotals(F, n, m) == [i \in 0..(n - 1) |-> total(F[i], m)]
column(F, n, c) == [i \in 0..(n - 1) |-> F[i][c]]
columnTotals(F, n, k, m) == [c \in 0..(m - 1) |-> total(column(F, n, c), k)]

(* The order in which a table of bytes is added up does not matter.        *)
LEMMA ColumnBytes ==
  ASSUME NEW n \in Nat, NEW m \in Nat, NEW F, Table(F, n, m), NEW c \in 0..(m - 1)
  PROVE  Bytes(column(F, n, c), n)
  BY DEF Bytes, column, Table

LEMMA TotalExchanged ==
  ASSUME NEW n \in Nat, NEW m \in Nat, NEW F, Table(F, n, m)
  PROVE  total(rowTotals(F, n, m), n) = total(columnTotals(F, n, n, m), m)
<1> DEFINE rows == rowTotals(F, n, m)
           cols(k) == columnTotals(F, n, k, m)
           P == {k \in 0..n : total(rows, k) = total(cols(k), m)}
<1>0. \A i \in 0..(n - 1) : Bytes(F[i], m) /\ total(F[i], m) \in Byte
  BY TotalType DEF Bytes, Table
<1>5. Bytes(rows, n)
  BY <1>0 DEF Bytes, rowTotals
<1>6. ASSUME NEW k \in 0..n PROVE Bytes(cols(k), m)
  <2>1. ASSUME NEW c \in 0..(m - 1) PROVE total(column(F, n, c), k) \in Byte
    <3>1. Bytes(column(F, n, c), k)
      BY ColumnBytes DEF Bytes
    <3> QED BY <3>1, TotalType
  <2> QED BY <2>1 DEF Bytes, columnTotals
<1>1. 0 \in P
  <2>1. \A c \in 0..(m - 1) : cols(0)[c] = 0
    BY TotalZero DEF columnTotals
  <2>2. total(cols(0), m) = 0
    <3>1. CASE m = 0
      BY <3>1, TotalZero
    <3>2. CASE m # 0
      <4>1. OnlyAt(cols(0), 0, m) /\ 0 \in 0..(m - 1) /\ cols(0)[0] = 0
        BY <2>1, <3>2 DEF OnlyAt
      <4> HIDE DEF cols
      <4> QED BY <4>1, NoBits, TotalOnly
    <3> QED BY <3>1, <3>2
  <2> QED BY <2>2, TotalZero
<1>2. ASSUME NEW k \in P, k < n PROVE k + 1 \in P
  <2>0. /\ k \in 0..n /\ k + 1 \in 0..n /\ k \in 0..(n - 1)
        /\ total(rows, k) = total(cols(k), m)
    BY <1>2
  <2> HIDE DEF P, rows
  <2>1. total(rows, k + 1) = galAdd(rows[k], total(rows, k)) /\ rows[k] = total(F[k], m)
    BY <1>2, <1>5, <2>0, TotalGrows DEF rowTotals, rows
  <2>2. AddedUp(cols(k + 1), F[k], cols(k), m)
    <3>1. ASSUME NEW c \in 0..(m - 1)
          PROVE  cols(k + 1)[c] = galAdd(F[k][c], cols(k)[c])
      <4>1. total(column(F, n, c), k + 1) = galAdd(column(F, n, c)[k], total(column(F, n, c), k))
        BY <1>2, <2>0, ColumnBytes, TotalGrows
      <4> QED BY <2>0, <4>1 DEF columnTotals, column
    <3> QED BY <3>1 DEF AddedUp
  <2>3. Bytes(F[k], m) /\ Bytes(cols(k), m)
    BY <1>0, <1>6, <2>0
  <2> HIDE DEF cols
  <2>4. total(cols(k + 1), m) = galAdd(total(F[k], m), total(cols(k), m))
    BY <2>2, <2>3, TotalAdded
  <2> QED BY <2>0, <2>1, <2>4 DEF P
<1>3. P = 0..n
  <2>1. P \in SUBSET (0..n)
    OBVIOUS
  <2> HIDE DEF P
  <2> QED BY <1>1, <1>2, <2>1, Prefixes
<1>4. n \in P
  BY <1>3
<1> QED BY <1>4

-----------------------------------------------------------------------------
(* Row r of a matrix times a vector of n bytes.                            *)
terms(M, r, x, n) == [c \in 0..(n - 1) |-> galMultiply(M[<<r, c>>], x[c])]
dot(M, r, x, n) == total(terms(M, r, x, n), n)

RowBytes(M, r, n) == \A c \in 0..(n - 1) : M[<<r, c>>] \in Byte
SquareBytes(M, n) == \A r \in 0..(n - 1) : RowBytes(M, r, n)

(* Such a product is a byte.                                               *)
LEMMA TermsBytes ==
  ASSUME NEW n \in Nat, NEW M, NEW r, RowBytes(M, r, n), NEW x, Bytes(x, n)
  PROVE  Bytes(terms(M, r, x, n), n)
  BY MultipliedType DEF Bytes, RowBytes, terms

LEMMA DotType ==
  ASSUME NEW n \in Nat, NEW M, NEW r, RowBytes(M, r, n), NEW x, Bytes(x, n)
  PROVE  dot(M, r, x, n) \in Byte
  BY TermsBytes, TotalType DEF dot

(* An entry of the product of two matrices.                                *)
factors(I, S, r, c, n) == [i \in 0..(n - 1) |-> galMultiply(I[<<r, i>>], S[<<i, c>>])]

(* An entry of Multiply is a sum.                                          *)
LEMMA ProductEntry ==
  ASSUME NEW n \in Nat, NEW I, NEW S, NEW r \in 0..(n - 1), NEW c \in 0..(n - 1)
  PROVE  Multiply(I, S, n, n, n)[<<r, c>>] = total(factors(I, S, r, c, n), n)
<1> DEFINE h == [i \in 0..(n - 1) |-> galMultiply(I[<<r, i>>], S[<<i, c>>])]
           t(p) == Sum(n, LAMBDA i : galMultiply(I[<<p[1], i>>], S[<<i, p[2]>>]))
<1>1. [i \in 0..(n - 1) |-> h[i]] = h
  OBVIOUS
<1>2. total(h, n) = FoldFunction(galAdd, 0,
                      [i \in 0..(n - 1) |-> galMultiply(I[<<r, i>>], S[<<i, c>>])])
  BY <1>1, Zenon DEF total
<1>3. t(<<r, c>>) = FoldFunction(galAdd, 0, [i \in 0..(n - 1) |->
                      galMultiply(I[<<<<r, c>>[1], i>>], S[<<i, <<r, c>>[2]>>])])
  BY Zenon DEF Sum
<1>4. [i \in 0..(n - 1) |-> galMultiply(I[<<<<r, c>>[1], i>>], S[<<i, <<r, c>>[2]>>])]
        = [i \in 0..(n - 1) |-> galMultiply(I[<<r, i>>], S[<<i, c>>])]
  OBVIOUS
<1>5. t(<<r, c>>) = total(h, n)
  BY <1>2, <1>3, <1>4, Zenon
<1>6. Multiply(I, S, n, n, n) = [p \in cells(n, n) |-> t(p)]
  BY Zenon DEF Multiply
<1> HIDE DEF t
<1>7. Multiply(I, S, n, n, n)[<<r, c>>] = t(<<r, c>>)
  BY <1>6 DEF cells
<1>8. h = factors(I, S, r, c, n)
  BY Zenon DEF factors
<1> HIDE DEF h
<1> QED BY <1>5, <1>7, <1>8

UndoneBy(I, S, n) ==
  /\ SquareBytes(I, n)
  /\ SquareBytes(S, n)
  /\ Multiply(I, S, n, n, n) = identityMatrix(n)

ProductsOf(y, S, x, n) == \A k \in 0..(n - 1) : y[k] = dot(S, k, x, n)

(* What a matrix makes of a vector, its inverse takes back.                *)
LEMMA Undone ==
  ASSUME NEW n \in Nat, NEW I, NEW S, UndoneBy(I, S, n), NEW x, Bytes(x, n),
         NEW y, ProductsOf(y, S, x, n), NEW r \in 0..(n - 1)
  PROVE  dot(I, r, y, n) = x[r]
<1> DEFINE N == 0..(n - 1)
           F == [k \in N |-> [c \in N |-> galMultiply(I[<<r, k>>], galMultiply(S[<<k, c>>], x[c]))]]
<1>0. /\ \A k \in N : I[<<r, k>>] \in Byte
      /\ \A k \in N : \A c \in N : S[<<k, c>>] \in Byte
      /\ \A c \in N : x[c] \in Byte
      /\ \A k \in N : RowBytes(S, k, n)
  BY DEF UndoneBy, SquareBytes, RowBytes, Bytes
<1>1. \A k \in N : \A c \in N : galMultiply(S[<<k, c>>], x[c]) \in Byte
  BY <1>0, MultipliedType
<1>2. Table(F, n, n)
  <2>1. ASSUME NEW k \in N, NEW c \in N PROVE F[k][c] \in Byte
    BY <1>0, <1>1, MultipliedType
  <2> QED BY <2>1 DEF Table
<1>3. \A k \in N : rowTotals(F, n, n)[k] = galMultiply(I[<<r, k>>], y[k])
  <2>1. ASSUME NEW k \in N PROVE total(F[k], n) = galMultiply(I[<<r, k>>], y[k])
    <3>1. ScaledLeft(F[k], I[<<r, k>>], terms(S, k, x, n), n)
      BY DEF ScaledLeft, terms
    <3>2. Bytes(terms(S, k, x, n), n) /\ I[<<r, k>>] \in Byte
      BY <1>0, TermsBytes
    <3>3. y[k] = total(terms(S, k, x, n), n)
      BY DEF ProductsOf, dot
    <3> HIDE DEF F
    <3> QED BY <3>1, <3>2, <3>3, TotalLeft
  <2> HIDE DEF F
  <2> QED BY <2>1 DEF rowTotals
<1>4. dot(I, r, y, n) = total(rowTotals(F, n, n), n)
  <2>1. \A k \in N : terms(I, r, y, n)[k] = rowTotals(F, n, n)[k]
    <3> HIDE DEF F
    <3> QED BY <1>3 DEF terms
  <2> HIDE DEF F
  <2> QED BY <2>1, TotalSame DEF dot
<1>5. \A c \in N : columnTotals(F, n, n, n)[c] = galMultiply(identityMatrix(n)[<<r, c>>], x[c])
  <2>1. ASSUME NEW c \in N
        PROVE  total(column(F, n, c), n) = galMultiply(identityMatrix(n)[<<r, c>>], x[c])
    <3> DEFINE d == factors(I, S, r, c, n)
    <3>1. ScaledRight(column(F, n, c), d, x[c], n)
      <4>1. ASSUME NEW k \in N
            PROVE  column(F, n, c)[k] = galMultiply(d[k], x[c])
        <5>1. column(F, n, c)[k] = galMultiply(I[<<r, k>>], galMultiply(S[<<k, c>>], x[c]))
          BY DEF column
        <5>2. galMultiply(I[<<r, k>>], galMultiply(S[<<k, c>>], x[c]))
                = galMultiply(galMultiply(I[<<r, k>>], S[<<k, c>>]), x[c])
          <6>1. /\ I[<<r, k>>] \in Byte /\ S[<<k, c>>] \in Byte /\ x[c] \in Byte
            BY <1>0
          <6> HIDE DEF F, d
          <6> QED BY <6>1, Associates
        <5>3. d[k] = galMultiply(I[<<r, k>>], S[<<k, c>>])
          BY DEF factors
        <5> QED BY <5>1, <5>2, <5>3
      <4> HIDE DEF d
      <4> QED BY <4>1 DEF ScaledRight
    <3>2. Bytes(d, n)
      BY <1>0, MultipliedType DEF Bytes, factors
    <3>3. total(d, n) = identityMatrix(n)[<<r, c>>]
      BY ProductEntry DEF UndoneBy
    <3> HIDE DEF d, F
    <3> QED BY <1>0, <3>1, <3>2, <3>3, TotalRight
  <2> HIDE DEF F
  <2> QED BY <2>1 DEF columnTotals
<1>6. \A c \in N : identityMatrix(n)[<<r, c>>] = IF r = c THEN 1 ELSE 0
  BY DEF identityMatrix, cells
<1>7. \A c \in N : columnTotals(F, n, n, n)[c] = IF r = c THEN x[c] ELSE 0
  <2> HIDE DEF F
  <2> QED BY <1>0, <1>5, <1>6, MultipliedZero
<1>8. total(columnTotals(F, n, n, n), n) = x[r]
  <2>1. /\ OnlyAt(columnTotals(F, n, n, n), r, n)
        /\ columnTotals(F, n, n, n)[r] = x[r]
        /\ columnTotals(F, n, n, n)[r] \in Byte
    <3> HIDE DEF F
    <3> QED BY <1>0, <1>7 DEF OnlyAt
  <2> HIDE DEF F
  <2> QED BY <2>1, TotalOnly
<1> HIDE DEF F
<1> QED BY <1>2, <1>4, <1>8, TotalExchanged

(* Two vectors a matrix cannot tell apart are the same.                    *)
LEMMA ToldApart ==
  ASSUME NEW n \in Nat, NEW I, NEW S, UndoneBy(I, S, n), NEW x, Bytes(x, n), NEW z, Bytes(z, n),
         \A k \in 0..(n - 1) : dot(S, k, x, n) = dot(S, k, z, n),
         NEW r \in 0..(n - 1)
  PROVE  x[r] = z[r]
<1> DEFINE y == [k \in 0..(n - 1) |-> dot(S, k, x, n)]
<1>1. ProductsOf(y, S, x, n) /\ ProductsOf(y, S, z, n)
  BY DEF ProductsOf
<1> HIDE DEF y
<1> QED BY <1>1, Undone

-----------------------------------------------------------------------------
(* The field.                                                              *)

(* galMultiply is the product of the field.                                *)
LEMMA MultiplyIsProduct ==
  ASSUME NEW a \in Byte, NEW b \in Byte
  PROVE  galMultiply(a, b) = Product(a, b)
  BY DEF galMultiply, mulTable

(* It is commutative ...                                                   *)
LEMMA Commuted ==
  ASSUME NEW a \in Byte, NEW b \in Byte
  PROVE  galMultiply(a, b) = galMultiply(b, a)
  BY MultiplyIsProduct, Commutes

(* ... and 0 is only ever a product of 0.                                  *)
LEMMA NoZeroDivisor ==
  ASSUME NEW a \in Byte, NEW b \in Byte, galMultiply(a, b) = 0, b # 0
  PROVE  a = 0
<1>1. Product(a, b) = 0
  BY MultiplyIsProduct
<1>2. galDivide(0, b) = 0
  BY DEF galDivide
<1> QED BY <1>1, <1>2, Divided

(* The inverse galDivide finds of a byte that is not 0.                    *)
LEMMA InverseByte ==
  ASSUME NEW b \in Byte, b # 0
  PROVE  /\ galDivide(1, b) \in Byte
         /\ galMultiply(galDivide(1, b), b) = 1
         /\ galDivide(1, b) # 0
<1> DEFINE j == logTable[b]
           i == (255 - j) % 255
<1>1. j \in 0..254 /\ powerOf[j] = b
  BY LogPower
<1>2. i \in 0..254 /\ (0 - j + 255) % 255 = i /\ wrap(i, j) = 0
  <2> HIDE DEF j
  <2>1. CASE j = 0
    BY <2>1 DEF wrap
  <2>2. CASE j # 0
    BY <1>1, <2>2 DEF wrap
  <2> QED BY <2>1, <2>2
<1>3. logTable[1] = 0
  <2>1. 0 \in 0..254
    OBVIOUS
  <2> QED BY <2>1, PowerLog, PowerOne
<1>4. galDivide(1, b) = expTable[(logTable[1] - j + 255) % 255]
  BY DEF galDivide
<1> HIDE DEF i, j
<1>5. galDivide(1, b) = powerOf[i]
  BY <1>2, <1>3, <1>4, ExpPower
<1>6. Product(powerOf[i], powerOf[j]) = 1
  <2>1. Product(powerOf[i], powerOf[j]) = powerOf[wrap(i, j)]
    BY <1>1, <1>2, PowersWrap
  <2>2. powerOf[wrap(i, j)] = powerOf[0]
    BY <1>2
  <2> QED BY <2>1, <2>2, PowerOne
<1>7. powerOf[i] \in Byte /\ powerOf[i] # 0
  <2>1. i \in 0..255
    BY <1>2
  <2> QED BY <2>1, PowerNotZero
<1> QED BY <1>1, <1>5, <1>6, <1>7, MultiplyIsProduct

(* The next power of a byte.                                               *)
LEMMA ExpNext ==
  ASSUME NEW a \in Byte, NEW n \in Nat
  PROVE  /\ galExp(a, 0) = 1
         /\ galExp(a, n) \in Byte
         /\ galExp(a, n + 1) = galMultiply(galExp(a, n), a)
<1>0. 1 \in Byte /\ 0 \in Byte
  BY DEF Byte
<1>1. galExp(a, 0) = 1 /\ n + 1 # 0
  BY DEF galExp
<1>2. CASE a = 0
  <2>1. galExp(a, n + 1) = 0 /\ galExp(a, n) = (IF n = 0 THEN 1 ELSE 0)
    BY <1>1, <1>2 DEF galExp
  <2>2. galExp(a, n) \in Byte
    BY <1>0, <2>1
  <2> QED BY <1>1, <1>2, <2>1, <2>2, Multiplied
<1>3. CASE a # 0
  <2> DEFINE l == logTable[a]
             m == l * n
             u == m % 255
  <2>1. l \in 0..254 /\ powerOf[l] = a
    BY <1>3, LogPower
  <2>2. m \in Nat /\ l * (n + 1) = m + l
    <3> HIDE DEF l
    <3> QED BY <2>1
  <2>3. galExp(a, n + 1) = expTable[(m + l) % 255]
    <3>1. galExp(a, n + 1) = expTable[(logTable[a] * (n + 1)) % 255]
      BY <1>1, <1>3, Zenon DEF galExp
    <3> HIDE DEF m
    <3> QED BY <2>2, <3>1
  <2>4. galExp(a, n) = expTable[u]
    <3>1. CASE n = 0
      <4>1. m = 0
        <5> HIDE DEF l
        <5> QED BY <2>1, <3>1
      <4>2. u = 0
        <5> HIDE DEF m
        <5> QED BY <4>1
      <4>3. expTable[0] = 1
        <5>1. 0 \in 0..254
          OBVIOUS
        <5> QED BY <5>1, ExpPower, PowerOne
      <4> HIDE DEF u
      <4> QED BY <1>1, <3>1, <4>2, <4>3
    <3>2. CASE n # 0
      BY <1>3, <3>2, Zenon DEF galExp
    <3> QED BY <3>1, <3>2
  <2>5. u \in 0..254 /\ (m + l) % 255 = wrap(u, l)
    <3> HIDE DEF m, l
    <3> QED BY <2>1, <2>2 DEF wrap
  <2> HIDE DEF u, m, l
  <2>6. wrap(u, l) \in 0..254 /\ Product(powerOf[u], powerOf[l]) = powerOf[wrap(u, l)]
    BY <2>1, <2>5, PowersWrap
  <2>7. galExp(a, n) = powerOf[u] /\ galExp(a, n + 1) = powerOf[wrap(u, l)]
    BY <2>3, <2>4, <2>5, <2>6, ExpPower
  <2>8. powerOf[u] \in Byte
    <3>1. u \in 0..255
      BY <2>5
    <3> QED BY <3>1, PowerNotZero
  <2> QED BY <1>1, <2>1, <2>6, <2>7, <2>8, MultiplyIsProduct
<1> QED BY <1>2, <1>3

-----------------------------------------------------------------------------
(* Rows made of other rows.                                                *)

RowIs(N, r, M, i, n) == \A c \in 0..(n - 1) : N[<<r, c>>] = M[<<i, c>>]
RowScaled(N, r, M, i, s, n) == \A c \in 0..(n - 1) : N[<<r, c>>] = galMultiply(M[<<i, c>>], s)
RowSum(N, r, M, i, s, j, n) ==
  \A c \in 0..(n - 1) : N[<<r, c>>] = galAdd(M[<<i, c>>], galMultiply(s, M[<<j, c>>]))

(* A row equal to another does to every vector what that one does.         *)
LEMMA RowIsDot ==
  ASSUME NEW n \in Nat, NEW N, NEW r, NEW M, NEW i, RowIs(N, r, M, i, n), NEW x
  PROVE  dot(N, r, x, n) = dot(M, i, x, n)
<1>1. \A c \in 0..(n - 1) : terms(N, r, x, n)[c] = terms(M, i, x, n)[c]
  BY DEF terms, RowIs
<1> QED BY <1>1, TotalSame DEF dot

(* A scaled row gives scaled results.                                      *)
LEMMA RowScaledDot ==
  ASSUME NEW n \in Nat, NEW N, NEW r, NEW M, NEW i, NEW s \in Byte, RowScaled(N, r, M, i, s, n),
         RowBytes(M, i, n), NEW x, Bytes(x, n)
  PROVE  dot(N, r, x, n) = galMultiply(s, dot(M, i, x, n))
<1> DEFINE d == terms(N, r, x, n)
           f == terms(M, i, x, n)
<1>1. Bytes(f, n)
  BY TermsBytes
<1>2. ScaledLeft(d, s, f, n)
  <2>1. ASSUME NEW c \in 0..(n - 1) PROVE d[c] = galMultiply(s, f[c])
    <3> DEFINE m == M[<<i, c>>]
    <3>1. m \in Byte /\ x[c] \in Byte
      BY DEF RowBytes, Bytes
    <3>2. d[c] = galMultiply(galMultiply(m, s), x[c]) /\ f[c] = galMultiply(m, x[c])
      BY DEF terms, RowScaled
    <3> HIDE DEF m, d, f
    <3>3. galMultiply(m, s) = galMultiply(s, m)
      BY <3>1, Commuted
    <3> QED BY <3>1, <3>2, <3>3, Associates
  <2> HIDE DEF d, f
  <2> QED BY <2>1 DEF ScaledLeft
<1> HIDE DEF d, f
<1>3. total(d, n) = galMultiply(s, total(f, n))
  BY <1>1, <1>2, TotalLeft
<1> QED BY <1>3 DEF dot, d, f

(* A sum of rows gives sums of results.                                    *)
LEMMA RowSumDot ==
  ASSUME NEW n \in Nat, NEW N, NEW r, NEW M, NEW i, NEW s \in Byte, NEW j, RowSum(N, r, M, i, s, j, n),
         RowBytes(M, i, n), RowBytes(M, j, n), NEW x, Bytes(x, n)
  PROVE  dot(N, r, x, n) = galAdd(dot(M, i, x, n), galMultiply(s, dot(M, j, x, n)))
<1> DEFINE a == terms(N, r, x, n)
           f == terms(M, i, x, n)
           e == terms(M, j, x, n)
           d == [c \in 0..(n - 1) |-> galMultiply(s, e[c])]
<1>1. Bytes(f, n) /\ Bytes(e, n)
  BY TermsBytes
<1>2. ScaledLeft(d, s, e, n)
  <2> HIDE DEF e
  <2> QED BY DEF ScaledLeft
<1>3. Bytes(d, n)
  <2> HIDE DEF e
  <2> QED BY <1>1, MultipliedType DEF Bytes
<1>4. AddedUp(a, f, d, n)
  <2>1. ASSUME NEW c \in 0..(n - 1) PROVE a[c] = galAdd(f[c], d[c])
    <3> DEFINE m == M[<<i, c>>]
               o == M[<<j, c>>]
               p == galMultiply(s, o)
    <3>1. m \in Byte /\ o \in Byte /\ x[c] \in Byte
      BY DEF RowBytes, Bytes
    <3>2. /\ a[c] = galMultiply(galAdd(m, p), x[c]) /\ f[c] = galMultiply(m, x[c])
          /\ e[c] = galMultiply(o, x[c]) /\ d[c] = galMultiply(s, e[c])
      BY DEF terms, RowSum
    <3> HIDE DEF m, o, a, f, e, d
    <3>3. p \in Byte
      BY <3>1, MultipliedType
    <3>4. galMultiply(s, galMultiply(o, x[c])) = galMultiply(galMultiply(s, o), x[c])
      BY <3>1, Associates
    <3> HIDE DEF p
    <3>5. galMultiply(galAdd(m, p), x[c]) = galAdd(galMultiply(m, x[c]), galMultiply(p, x[c]))
      BY <3>1, <3>3, RightDistributes
    <3> QED BY <3>2, <3>4, <3>5 DEF p
  <2> HIDE DEF a, f, d
  <2> QED BY <2>1 DEF AddedUp
<1> HIDE DEF a, f, e, d
<1>5. total(a, n) = galAdd(total(f, n), total(d, n)) /\ total(d, n) = galMultiply(s, total(e, n))
  BY <1>1, <1>2, <1>3, <1>4, TotalAdded, TotalLeft
<1> QED BY <1>5 DEF dot, a, f, e

-----------------------------------------------------------------------------
(* A sum in two parts.                                                     *)
from(f, n, m) == [i \in 0..(m - 1) |-> f[n + i]]

(* A sum of n + m terms is that of the first n and that of the others.     *)
LEMMA TotalSplit ==
  ASSUME NEW n \in Nat, NEW m \in Nat, NEW f, Bytes(f, n + m)
  PROVE  total(f, n + m) = galAdd(total(f, n), total(from(f, n, m), m))
<1> DEFINE g == from(f, n, m)
           P == {k \in 0..m : total(f, n + k) = galAdd(total(f, n), total(g, k))}
<1>0. Bytes(f, n) /\ Bytes(g, m)
  BY DEF Bytes, from
<1>1. 0 \in P
  <2>1. total(f, n) \in Byte
    BY <1>0, TotalType
  <2>2. n + 0 = n /\ 0 \in 0..m
    OBVIOUS
  <2> HIDE DEF g
  <2> QED BY <2>1, <2>2, TotalZero, Added
<1>2. ASSUME NEW k \in P, k < m PROVE k + 1 \in P
  <2>0. k \in 0..m /\ k + 1 \in 0..m /\ total(f, n + k) = galAdd(total(f, n), total(g, k))
    BY <1>2
  <2> HIDE DEF P
  <2>1. g[k] = f[n + k]
    BY <1>2, <2>0 DEF from
  <2> HIDE DEF g
  <2>2. total(g, k + 1) = galAdd(g[k], total(g, k)) /\ g[k] \in Byte /\ total(g, k) \in Byte
    BY <1>0, <1>2, <2>0, TotalGrows
  <2> DEFINE o == n + k
             w == n + m
  <2>3. o \in 0..w /\ w \in Nat /\ o < w /\ n + (k + 1) = o + 1
    BY <1>2, <2>0
  <2>4. Bytes(f, w)
    OBVIOUS
  <2> HIDE DEF w
  <2>5. total(f, o + 1) = galAdd(f[o], total(f, o))
    <3> HIDE DEF o
    <3> QED BY <2>3, <2>4, TotalGrows
  <2>6. total(f, n) \in Byte
    BY <1>0, TotalType
  <2>7. galAdd(g[k], galAdd(total(f, n), total(g, k)))
          = galAdd(total(f, n), galAdd(g[k], total(g, k)))
    BY <2>2, <2>6, Crossed
  <2>8. total(f, n + (k + 1)) = galAdd(total(f, n), total(g, k + 1))
    BY <2>0, <2>1, <2>2, <2>3, <2>5, <2>7
  <2> QED BY <2>0, <2>8 DEF P
<1>3. P = 0..m
  <2>1. P \in SUBSET (0..m)
    OBVIOUS
  <2> HIDE DEF P
  <2> QED BY <1>1, <1>2, <2>1, Prefixes
<1>4. m \in P
  BY <1>3
<1> QED BY <1>4

-----------------------------------------------------------------------------
(* Products of matrices.                                                   *)

(* An entry of a product, as a sum.                                        *)
LEMMA EntryIs ==
  ASSUME NEW rows \in Nat, NEW n \in Nat, NEW cols \in Nat, NEW A, NEW T,
         NEW r \in 0..(rows - 1), NEW c \in 0..(cols - 1)
  PROVE  Multiply(A, T, rows, n, cols)[<<r, c>>] = total(factors(A, T, r, c, n), n)
<1>1. <<r, c>> \in cells(rows, cols)
  BY DEF cells
<1>2. \A p \in cells(rows, cols) :
        Multiply(A, T, rows, n, cols)[p]
          = FoldFunction(galAdd, 0, [i \in 0..(n - 1) |-> galMultiply(A[<<p[1], i>>], T[<<i, p[2]>>])])
  BY Zenon DEF Multiply, Sum
<1>3. Multiply(A, T, rows, n, cols)[<<r, c>>]
        = FoldFunction(galAdd, 0, [i \in 0..(n - 1) |-> galMultiply(A[<<r, i>>], T[<<i, c>>])])
  <2> DEFINE p == <<r, c>>
  <2>1. p[1] = r /\ p[2] = c
    OBVIOUS
  <2> HIDE DEF p
  <2>2. Multiply(A, T, rows, n, cols)[p]
          = FoldFunction(galAdd, 0, [i \in 0..(n - 1) |-> galMultiply(A[<<r, i>>], T[<<i, c>>])])
    BY <1>1, <1>2, <2>1, Zenon DEF p
  <2> QED BY <2>2 DEF p
<1> DEFINE f == factors(A, T, r, c, n)
<1>4. [i \in 0..(n - 1) |-> galMultiply(A[<<r, i>>], T[<<i, c>>])] = [i \in 0..(n - 1) |-> f[i]]
  BY DEF factors
<1> HIDE DEF f
<1>5. Multiply(A, T, rows, n, cols)[<<r, c>>] = FoldFunction(galAdd, 0, [i \in 0..(n - 1) |-> f[i]])
  BY <1>3, <1>4, Zenon
<1> QED BY <1>5, Zenon DEF total, f

(* The same, with the product as a variable.                               *)
LEMMA EntryOf ==
  ASSUME NEW rows \in Nat, NEW n \in Nat, NEW cols \in Nat, NEW A, NEW T,
         NEW r \in 0..(rows - 1), NEW c \in 0..(cols - 1), NEW m, m = Multiply(A, T, rows, n, cols)
  PROVE  m[<<r, c>>] = total(factors(A, T, r, c, n), n)
  BY EntryIs

RowsBytes(A, rows, n) == \A r \in 0..(rows - 1) : RowBytes(A, r, n)

(* A product of matrices of bytes is one of bytes.                         *)
LEMMA ProductBytes ==
  ASSUME NEW rows \in Nat, NEW n \in Nat, NEW cols \in Nat, NEW A, RowsBytes(A, rows, n),
         NEW T, RowsBytes(T, n, cols)
  PROVE  Multiply(A, T, rows, n, cols) \in [cells(rows, cols) -> Byte]
<1> DEFINE m == Multiply(A, T, rows, n, cols)
<1>0. m = Multiply(A, T, rows, n, cols)
  OBVIOUS
<1>1. ASSUME NEW r \in 0..(rows - 1), NEW c \in 0..(cols - 1) PROVE m[<<r, c>>] \in Byte
  <2> HIDE DEF m
  <2>1. m[<<r, c>>] = total(factors(A, T, r, c, n), n)
    BY <1>0, EntryOf
  <2>2. Bytes(factors(A, T, r, c, n), n)
    BY MultipliedType DEF Bytes, factors, RowsBytes, RowBytes
  <2> QED BY <2>1, <2>2, TotalType
<1>2. m = [p \in cells(rows, cols) |-> m[p]]
  <2>1. m = [p \in cells(rows, cols) |-> Sum(n, LAMBDA i : galMultiply(A[<<p[1], i>>], T[<<i, p[2]>>]))]
    BY Zenon DEF Multiply
  <2> QED BY <2>1, Zenon
<1> HIDE DEF m
<1>3. \A p \in cells(rows, cols) : m[p] \in Byte
  BY <1>1 DEF cells
<1> QED BY <1>2, <1>3 DEF m

(* Multiplying a vector by a product of matrices.                          *)
LEMMA DotComposed ==
  ASSUME NEW rows \in Nat, NEW n \in Nat, NEW A, RowsBytes(A, rows, n), NEW T, SquareBytes(T, n),
         NEW x, Bytes(x, n), NEW y, ProductsOf(y, T, x, n), NEW r \in 0..(rows - 1)
  PROVE  dot(Multiply(A, T, rows, n, n), r, x, n) = dot(A, r, y, n)
<1> DEFINE N == 0..(n - 1)
           F == [k \in N |-> [c \in N |-> galMultiply(A[<<r, k>>], galMultiply(T[<<k, c>>], x[c]))]]
           M == Multiply(A, T, rows, n, n)
<1>0. /\ \A k \in N : A[<<r, k>>] \in Byte
      /\ \A k \in N : \A c \in N : T[<<k, c>>] \in Byte
      /\ \A c \in N : x[c] \in Byte
      /\ \A k \in N : RowBytes(T, k, n)
  BY DEF RowsBytes, SquareBytes, RowBytes, Bytes
<1>1. \A k \in N : \A c \in N : galMultiply(T[<<k, c>>], x[c]) \in Byte
  BY <1>0, MultipliedType
<1>2. Table(F, n, n)
  <2>1. ASSUME NEW k \in N, NEW c \in N PROVE F[k][c] \in Byte
    BY <1>0, <1>1, MultipliedType
  <2> QED BY <2>1 DEF Table
<1>3. \A k \in N : rowTotals(F, n, n)[k] = galMultiply(A[<<r, k>>], y[k])
  <2>1. ASSUME NEW k \in N PROVE total(F[k], n) = galMultiply(A[<<r, k>>], y[k])
    <3>1. ScaledLeft(F[k], A[<<r, k>>], terms(T, k, x, n), n)
      BY DEF ScaledLeft, terms
    <3>2. Bytes(terms(T, k, x, n), n) /\ A[<<r, k>>] \in Byte
      BY <1>0, TermsBytes
    <3>3. y[k] = total(terms(T, k, x, n), n)
      BY DEF ProductsOf, dot
    <3> HIDE DEF F
    <3> QED BY <3>1, <3>2, <3>3, TotalLeft
  <2> HIDE DEF F
  <2> QED BY <2>1 DEF rowTotals
<1>4. dot(A, r, y, n) = total(rowTotals(F, n, n), n)
  <2>1. \A k \in N : terms(A, r, y, n)[k] = rowTotals(F, n, n)[k]
    <3> HIDE DEF F
    <3> QED BY <1>3 DEF terms
  <2> HIDE DEF F
  <2> QED BY <2>1, TotalSame DEF dot
<1>5. \A c \in N : columnTotals(F, n, n, n)[c] = galMultiply(M[<<r, c>>], x[c])
  <2>1. ASSUME NEW c \in N
        PROVE  total(column(F, n, c), n) = galMultiply(M[<<r, c>>], x[c])
    <3> DEFINE d == factors(A, T, r, c, n)
    <3>1. ScaledRight(column(F, n, c), d, x[c], n)
      <4>1. ASSUME NEW k \in N
            PROVE  column(F, n, c)[k] = galMultiply(d[k], x[c])
        <5>1. column(F, n, c)[k] = galMultiply(A[<<r, k>>], galMultiply(T[<<k, c>>], x[c]))
          BY DEF column
        <5>2. galMultiply(A[<<r, k>>], galMultiply(T[<<k, c>>], x[c]))
                = galMultiply(galMultiply(A[<<r, k>>], T[<<k, c>>]), x[c])
          <6>1. /\ A[<<r, k>>] \in Byte /\ T[<<k, c>>] \in Byte /\ x[c] \in Byte
            BY <1>0
          <6> HIDE DEF F, d, M
          <6> QED BY <6>1, Associates
        <5>3. d[k] = galMultiply(A[<<r, k>>], T[<<k, c>>])
          BY DEF factors
        <5> QED BY <5>1, <5>2, <5>3
      <4> HIDE DEF d
      <4> QED BY <4>1 DEF ScaledRight
    <3>2. Bytes(d, n)
      BY <1>0, MultipliedType DEF Bytes, factors
    <3>3. M[<<r, c>>] = total(d, n)
      <4>1. M = Multiply(A, T, rows, n, n)
        OBVIOUS
      <4> HIDE DEF M, d, F
      <4>2. M[<<r, c>>] = total(factors(A, T, r, c, n), n)
        BY <4>1, EntryOf
      <4> QED BY <4>2 DEF d
    <3> HIDE DEF d, F, M
    <3> QED BY <1>0, <3>1, <3>2, <3>3, TotalRight
  <2> HIDE DEF F, M
  <2> QED BY <2>1 DEF columnTotals
<1>6. dot(M, r, x, n) = total(columnTotals(F, n, n, n), n)
  <2>1. \A c \in N : terms(M, r, x, n)[c] = columnTotals(F, n, n, n)[c]
    <3> HIDE DEF F, M
    <3> QED BY <1>5 DEF terms
  <2> HIDE DEF F, M
  <2> QED BY <2>1, TotalSame DEF dot
<1> HIDE DEF F
<1> QED BY <1>2, <1>4, <1>6, TotalExchanged

-----------------------------------------------------------------------------
(* The row operations, on n rows of m bytes, and what they do to the       *)
(* vectors that every row takes to 0.                                      *)

Work(n, m) == [cells(n, m) -> Byte]

Null(w, u, n, m) == \A i \in 0..(n - 1) : dot(w, i, u, m) = 0

SameNulls(w, a, n, m) == \A u : Bytes(u, m) => (Null(w, u, n, m) <=> Null(a, u, n, m))

(* Where a cell of a matrix lies, and what it holds.                       *)
LEMMA CellIn ==
  ASSUME NEW n, NEW m, NEW w, w \in Work(n, m), NEW i \in 0..(n - 1), NEW c \in 0..(m - 1)
  PROVE  <<i, c>> \in DOMAIN w /\ DOMAIN w = cells(n, m) /\ w[<<i, c>>] \in Byte
<1>1. <<i, c>> \in cells(n, m)
  BY DEF cells
<1> QED BY <1>1 DEF Work

(* The rows of such a matrix are bytes.                                    *)
LEMMA WorkBytes ==
  ASSUME NEW n, NEW m, NEW w, w \in Work(n, m), NEW i \in 0..(n - 1)
  PROVE  RowBytes(w, i, m)
  BY CellIn DEF RowBytes

(* A function given cell by cell.                                          *)
LEMMA WorkIs ==
  ASSUME NEW n, NEW m, NEW w, w = [p \in cells(n, m) |-> w[p]],
         \A i \in 0..(n - 1) : \A c \in 0..(m - 1) : w[<<i, c>>] \in Byte
  PROVE  w \in Work(n, m)
<1>1. \A p \in cells(n, m) : w[p] \in Byte
  BY DEF cells
<1> QED BY <1>1 DEF Work

other(i, a, b) == IF i = a THEN b ELSE IF i = b THEN a ELSE i

(* SwapRows exchanges two rows and keeps the null vectors.                 *)
LEMMA SwappedRows ==
  ASSUME NEW n \in Nat, NEW m \in Nat, NEW w, w \in Work(n, m),
         NEW a \in 0..(n - 1), NEW b \in 0..(n - 1), NEW v, v = SwapRows(w, a, b)
  PROVE  /\ v \in Work(n, m)
         /\ \A i \in 0..(n - 1) : \A c \in 0..(m - 1) : v[<<i, c>>] = w[<<other(i, a, b), c>>]
         /\ SameNulls(v, w, n, m)
<1>1. v = [p \in DOMAIN w |-> w[<<other(p[1], a, b), p[2]>>]]
  BY Zenon DEF SwapRows, other
<1>2. DOMAIN w = cells(n, m)
  BY DEF Work
<1>3. \A i \in 0..(n - 1) : other(i, a, b) \in 0..(n - 1) /\ other(other(i, a, b), a, b) = i
  BY DEF other
<1>4. ASSUME NEW i \in 0..(n - 1), NEW c \in 0..(m - 1)
      PROVE  v[<<i, c>>] = w[<<other(i, a, b), c>>] /\ v[<<i, c>>] \in Byte
  <2> DEFINE p == <<i, c>>
  <2>1. p \in DOMAIN w
    BY CellIn
  <2>2. v[p] = w[<<other(p[1], a, b), p[2]>>]
    <3> HIDE DEF p
    <3> QED BY <1>1, <2>1, Zenon
  <2>3. v[<<i, c>>] = w[<<other(i, a, b), c>>]
    BY <2>2
  <2> QED BY <1>3, <2>3, CellIn
<1>5. v \in Work(n, m)
  <2>1. v = [p \in cells(n, m) |-> v[p]]
    BY <1>1, <1>2, Zenon
  <2> QED BY <1>4, <2>1, WorkIs
<1>6. ASSUME NEW u, Bytes(u, m) PROVE Null(v, u, n, m) <=> Null(w, u, n, m)
  <2>1. \A i \in 0..(n - 1) : dot(v, i, u, m) = dot(w, other(i, a, b), u, m)
    <3>1. ASSUME NEW i \in 0..(n - 1) PROVE dot(v, i, u, m) = dot(w, other(i, a, b), u, m)
      <4>1. RowIs(v, i, w, other(i, a, b), m)
        BY <1>4 DEF RowIs
      <4> QED BY <4>1, RowIsDot
    <3> QED BY <3>1
  <2> QED BY <1>3, <2>1 DEF Null
<1> QED BY <1>4, <1>5, <1>6 DEF SameNulls

(* Scaling a row by a byte that is not 0 keeps them.                       *)
LEMMA ScaledRow ==
  ASSUME NEW n \in Nat, NEW m \in Nat, NEW w, w \in Work(n, m), NEW r \in 0..(n - 1),
         NEW s \in Byte, s # 0, NEW v, v = scaleRow(w, r, s)
  PROVE  /\ v \in Work(n, m)
         /\ \A i \in 0..(n - 1) : \A c \in 0..(m - 1) :
              v[<<i, c>>] = IF i = r THEN galMultiply(w[<<i, c>>], s) ELSE w[<<i, c>>]
         /\ SameNulls(v, w, n, m)
<1>1. v = [p \in DOMAIN w |-> IF p[1] = r THEN galMultiply(w[p], s) ELSE w[p]]
  BY Zenon DEF scaleRow
<1>2. DOMAIN w = cells(n, m)
  BY DEF Work
<1>4. ASSUME NEW i \in 0..(n - 1), NEW c \in 0..(m - 1)
      PROVE  /\ v[<<i, c>>] = IF i = r THEN galMultiply(w[<<i, c>>], s) ELSE w[<<i, c>>]
             /\ v[<<i, c>>] \in Byte
  <2> DEFINE p == <<i, c>>
  <2>1. p \in DOMAIN w /\ w[p] \in Byte
    BY CellIn
  <2>2. v[p] = IF p[1] = r THEN galMultiply(w[p], s) ELSE w[p]
    <3> HIDE DEF p
    <3> QED BY <1>1, <2>1, Zenon
  <2>3. p[1] = i
    OBVIOUS
  <2> HIDE DEF p
  <2>4. v[p] = IF i = r THEN galMultiply(w[p], s) ELSE w[p]
    BY <2>2, <2>3
  <2>5. v[p] \in Byte
    BY <2>1, <2>4, MultipliedType
  <2> QED BY <2>4, <2>5 DEF p
<1>5. v \in Work(n, m)
  <2>1. v = [p \in cells(n, m) |-> v[p]]
    BY <1>1, <1>2, Zenon
  <2>2. \A i \in 0..(n - 1) : \A c \in 0..(m - 1) : v[<<i, c>>] \in Byte
    BY <1>4
  <2> QED BY <2>1, <2>2, WorkIs
<1>6. ASSUME NEW u, Bytes(u, m) PROVE Null(v, u, n, m) <=> Null(w, u, n, m)
  <2>1. ASSUME NEW i \in 0..(n - 1) PROVE dot(v, i, u, m) = 0 <=> dot(w, i, u, m) = 0
    <3>0. RowBytes(w, i, m)
      BY WorkBytes
    <3>1. CASE i = r
      <4>1. RowScaled(v, i, w, i, s, m)
        BY <1>4, <3>1 DEF RowScaled
      <4> DEFINE e == dot(w, i, u, m)
      <4>2. dot(v, i, u, m) = galMultiply(s, e)
        BY <1>6, <3>0, <4>1, RowScaledDot
      <4>3. e \in Byte
        BY <1>6, <3>0, DotType
      <4> HIDE DEF e
      <4>4. galMultiply(s, e) = 0 <=> e = 0
        <5>1. galMultiply(s, e) = galMultiply(e, s)
          BY <4>3, Commuted
        <5> QED BY <4>3, <5>1, NoZeroDivisor, MultipliedZero
      <4> QED BY <4>2, <4>4 DEF e
    <3>2. CASE i # r
      <4>1. RowIs(v, i, w, i, m)
        BY <1>4, <3>2 DEF RowIs
      <4>2. dot(v, i, u, m) = dot(w, i, u, m)
        BY <4>1, RowIsDot
      <4> QED BY <4>2
    <3> QED BY <3>1, <3>2
  <2> QED BY <2>1 DEF Null
<1>7. \A i \in 0..(n - 1) : \A c \in 0..(m - 1) :
        v[<<i, c>>] = IF i = r THEN galMultiply(w[<<i, c>>], s) ELSE w[<<i, c>>]
  BY <1>4
<1> QED BY <1>5, <1>6, <1>7 DEF SameNulls

(* Adding multiples of a row to other rows keeps them.                     *)
LEMMA ClearedColumn ==
  ASSUME NEW n \in Nat, NEW m \in Nat, NEW w, w \in Work(n, m), NEW d \in 0..(n - 1), d < m,
         NEW R \in SUBSET (0..(n - 1)), d \notin R, NEW v, v = clearColumn(w, d, R)
  PROVE  /\ v \in Work(n, m)
         /\ \A i \in 0..(n - 1) : \A c \in 0..(m - 1) :
              v[<<i, c>>] = IF i \in R
                            THEN galAdd(w[<<i, c>>], galMultiply(w[<<i, d>>], w[<<d, c>>]))
                            ELSE w[<<i, c>>]
         /\ SameNulls(v, w, n, m)
<1>1. v = [p \in DOMAIN w |->
             IF p[1] \in R THEN galAdd(w[p], galMultiply(w[<<p[1], d>>], w[<<d, p[2]>>])) ELSE w[p]]
  BY Zenon DEF clearColumn
<1>2. DOMAIN w = cells(n, m) /\ d \in 0..(m - 1)
  BY DEF Work
<1>4. ASSUME NEW i \in 0..(n - 1), NEW c \in 0..(m - 1)
      PROVE  /\ v[<<i, c>>] = IF i \in R
                              THEN galAdd(w[<<i, c>>], galMultiply(w[<<i, d>>], w[<<d, c>>]))
                              ELSE w[<<i, c>>]
             /\ v[<<i, c>>] \in Byte
  <2> DEFINE p == <<i, c>>
             g == galMultiply(w[<<i, d>>], w[<<d, c>>])
  <2>1. p \in DOMAIN w /\ w[p] \in Byte /\ w[<<i, d>>] \in Byte /\ w[<<d, c>>] \in Byte
    BY <1>2, CellIn
  <2>2. v[p] = IF p[1] \in R THEN galAdd(w[p], galMultiply(w[<<p[1], d>>], w[<<d, p[2]>>]))
               ELSE w[p]
    <3> HIDE DEF p
    <3> QED BY <1>1, <2>1, Zenon
  <2>3. p[1] = i /\ p[2] = c
    OBVIOUS
  <2>5. g \in Byte
    BY <2>1, MultipliedType
  <2> HIDE DEF p
  <2>4. v[p] = IF i \in R THEN galAdd(w[p], g) ELSE w[p]
    BY <2>2, <2>3
  <2> HIDE DEF g
  <2>6. v[p] \in Byte
    BY <2>1, <2>4, <2>5, Added
  <2> QED BY <2>4, <2>6 DEF p, g
<1>5. v \in Work(n, m)
  <2>1. v = [p \in cells(n, m) |-> v[p]]
    BY <1>1, <1>2, Zenon
  <2>2. \A i \in 0..(n - 1) : \A c \in 0..(m - 1) : v[<<i, c>>] \in Byte
    BY <1>4
  <2> QED BY <2>1, <2>2, WorkIs
<1>6. ASSUME NEW u, Bytes(u, m) PROVE Null(v, u, n, m) <=> Null(w, u, n, m)
  <2>0. dot(v, d, u, m) = dot(w, d, u, m)
    <3>1. RowIs(v, d, w, d, m)
      BY <1>4 DEF RowIs
    <3> QED BY <3>1, RowIsDot
  <2>1. ASSUME NEW i \in 0..(n - 1), dot(w, d, u, m) = 0 PROVE dot(v, i, u, m) = dot(w, i, u, m)
    <3>1. CASE i \in R
      <4>0. RowBytes(w, i, m) /\ RowBytes(w, d, m) /\ w[<<i, d>>] \in Byte
        BY <1>2, WorkBytes, CellIn
      <4>1. RowSum(v, i, w, i, w[<<i, d>>], d, m)
        BY <1>4, <3>1 DEF RowSum
      <4> DEFINE e == dot(w, i, u, m)
      <4>2. dot(v, i, u, m) = galAdd(e, galMultiply(w[<<i, d>>], dot(w, d, u, m)))
        BY <1>6, <4>0, <4>1, RowSumDot
      <4>3. e \in Byte
        BY <1>6, <4>0, DotType
      <4> HIDE DEF e
      <4>4. galMultiply(w[<<i, d>>], 0) = 0 /\ galAdd(e, 0) = e
        BY <4>0, <4>3, MultipliedZero, Added
      <4> QED BY <2>1, <4>2, <4>4 DEF e
    <3>2. CASE i \notin R
      <4>1. RowIs(v, i, w, i, m)
        BY <1>4, <3>2 DEF RowIs
      <4> QED BY <4>1, RowIsDot
    <3> QED BY <3>1, <3>2
  <2> QED BY <2>0, <2>1 DEF Null
<1>7. \A i \in 0..(n - 1) : \A c \in 0..(m - 1) :
        v[<<i, c>>] = IF i \in R
                      THEN galAdd(w[<<i, c>>], galMultiply(w[<<i, d>>], w[<<d, c>>]))
                      ELSE w[<<i, c>>]
  BY <1>4
<1> QED BY <1>5, <1>6, <1>7 DEF SameNulls

-----------------------------------------------------------------------------
(* Vectors.                                                                *)

point(j, e, m) == [c \in 0..(m - 1) |-> IF c = j THEN e ELSE 0]

(* A row times a vector with one entry.                                    *)
LEMMA PointDot ==
  ASSUME NEW m \in Nat, NEW j \in 0..(m - 1), NEW e \in Byte, NEW w, NEW i, RowBytes(w, i, m)
  PROVE  /\ Bytes(point(j, e, m), m)
         /\ dot(w, i, point(j, e, m), m) = galMultiply(w[<<i, j>>], e)
<1> DEFINE u == point(j, e, m)
           f == terms(w, i, u, m)
<1>1. Bytes(u, m)
  BY NoBits DEF Bytes, point
<1>2. \A c \in 0..(m - 1) : u[c] = (IF c = j THEN e ELSE 0) /\ w[<<i, c>>] \in Byte
  BY DEF point, RowBytes
<1> HIDE DEF u
<1>3. f[j] = galMultiply(w[<<i, j>>], e) /\ f[j] \in Byte
  BY <1>2, MultipliedType DEF terms
<1>4. OnlyAt(f, j, m)
  <2>1. \A c \in 0..(m - 1) : f[c] = galMultiply(w[<<i, c>>], u[c])
    BY DEF terms
  <2>2. \A c \in 0..(m - 1) : c # j => f[c] = galMultiply(w[<<i, c>>], 0)
    BY <1>2, <2>1
  <2> HIDE DEF f
  <2> QED BY <1>2, <2>2, MultipliedZero DEF OnlyAt
<1> HIDE DEF f
<1>5. total(f, m) = f[j]
  BY <1>3, <1>4, TotalOnly
<1> QED BY <1>1, <1>3, <1>5 DEF dot, f, u

(* A row times the sum of two vectors.                                     *)
LEMMA SumDot ==
  ASSUME NEW m \in Nat, NEW w, NEW i, RowBytes(w, i, m), NEW x, Bytes(x, m), NEW y, Bytes(y, m),
         NEW z, AddedUp(z, x, y, m)
  PROVE  dot(w, i, z, m) = galAdd(dot(w, i, x, m), dot(w, i, y, m))
<1> DEFINE f == terms(w, i, x, m)
           d == terms(w, i, y, m)
           s == terms(w, i, z, m)
<1>1. Bytes(f, m) /\ Bytes(d, m)
  BY TermsBytes
<1>2. ASSUME NEW c \in 0..(m - 1) PROVE s[c] = galAdd(f[c], d[c])
  <2>1. /\ s[c] = galMultiply(w[<<i, c>>], z[c]) /\ f[c] = galMultiply(w[<<i, c>>], x[c])
        /\ d[c] = galMultiply(w[<<i, c>>], y[c])
    BY DEF terms
  <2>2. z[c] = galAdd(x[c], y[c]) /\ w[<<i, c>>] \in Byte /\ x[c] \in Byte /\ y[c] \in Byte
    BY DEF AddedUp, RowBytes, Bytes
  <2> HIDE DEF f, d, s
  <2> QED BY <2>1, <2>2, LeftDistributes
<1> HIDE DEF f, d, s
<1>3. AddedUp(s, f, d, m)
  BY <1>2 DEF AddedUp
<1>4. total(s, m) = galAdd(total(f, m), total(d, m))
  BY <1>1, <1>3, TotalAdded
<1> QED BY <1>4 DEF dot, f, d, s

-----------------------------------------------------------------------------
(* The first r columns are 1 on the diagonal and 0 below it.               *)
Upper(w, r, n) ==
  \A c \in 0..(r - 1) : w[<<c, c>>] = 1 /\ \A i \in (c + 1)..(n - 1) : w[<<i, c>>] = 0

(* With nothing in column r from row r on, some vector with a 1 in place r *)
(* and nothing behind it is taken to 0: its places before r are found row  *)
(* by row, from the bottom.                                                *)
Backward(u, w, r, k, n, m) ==
  /\ Bytes(u, m)
  /\ u[r] = 1
  /\ \A c \in 0..(m - 1) : c > r \/ c < r - k => u[c] = 0
  /\ \A i \in (r - k)..(n - 1) : dot(w, i, u, m) = 0

Clear(w, r, n) == \A b \in r..(n - 1) : w[<<b, r>>] = 0

(* The vector to start from: 1 in place r and 0 elsewhere.                 *)
LEMMA BackwardFirst ==
  ASSUME NEW n \in Nat, NEW m \in Nat, NEW w, w \in Work(n, m), NEW r \in 0..(n - 1), r < m,
         Clear(w, r, n)
  PROVE  Backward(point(r, 1, m), w, r, 0, n, m)
<1> DEFINE u == point(r, 1, m)
<1>0. r \in 0..(m - 1) /\ 1 \in Byte /\ r - 0 = r
  BY DEF Byte
<1>1. \A i \in 0..(n - 1) : RowBytes(w, i, m)
  BY WorkBytes
<1>2. ASSUME NEW i \in 0..(n - 1)
      PROVE  Bytes(u, m) /\ dot(w, i, u, m) = galMultiply(w[<<i, r>>], 1)
  BY <1>0, <1>1, PointDot
<1>3. \A c \in 0..(m - 1) : u[c] = IF c = r THEN 1 ELSE 0
  BY DEF point
<1> HIDE DEF u
<1>4. ASSUME NEW i \in r..(n - 1) PROVE dot(w, i, u, m) = 0
  <2>1. w[<<i, r>>] = 0 /\ i \in 0..(n - 1)
    BY DEF Clear
  <2>2. galMultiply(0, 1) = 0
    BY <1>0, MultipliedZero
  <2> QED BY <1>2, <2>1, <2>2
<1>5. Bytes(u, m)
  BY <1>2
<1>6. /\ u[r] = 1
      /\ \A c \in 0..(m - 1) : c > r \/ c < r => u[c] = 0
  BY <1>0, <1>3
<1>7. Backward(u, w, r, 0, n, m)
  BY <1>0, <1>4, <1>5, <1>6 DEF Backward
<1> QED BY <1>7 DEF u

(* One more row is taken to 0 by choosing the place of its diagonal.       *)
LEMMA BackwardNext ==
  ASSUME NEW n \in Nat, NEW m \in Nat, NEW w, w \in Work(n, m), NEW r \in 0..(n - 1), r < m,
         Upper(w, r, n), NEW k \in 0..(r - 1), NEW u, Backward(u, w, r, k, n, m)
  PROVE  \E v : Backward(v, w, r, k + 1, n, m)
<1> DEFINE j == r - (k + 1)
           e == dot(w, j, u, m)
           t == point(j, e, m)
           v == [c \in 0..(m - 1) |-> IF c = j THEN e ELSE u[c]]
<1>0. j \in 0..(n - 1) /\ j \in 0..(m - 1) /\ j \in 0..(r - 1) /\ r - k = j + 1 /\ j # r
  OBVIOUS
<1>1. \A i \in 0..(n - 1) : RowBytes(w, i, m)
  BY WorkBytes
<1>2. Bytes(u, m) /\ u[j] = 0
  BY <1>0 DEF Backward
<1>3. e \in Byte
  <2> HIDE DEF j
  <2> QED BY <1>0, <1>1, <1>2, DotType
<1>4. AddedUp(v, u, t, m)
  <2>1. ASSUME NEW c \in 0..(m - 1) PROVE v[c] = galAdd(u[c], t[c])
    <3>1. v[c] = (IF c = j THEN e ELSE u[c]) /\ t[c] = (IF c = j THEN e ELSE 0)
      BY DEF point
    <3>2. u[c] \in Byte
      BY <1>2 DEF Bytes
    <3> HIDE DEF v, t, e, j
    <3>3. galAdd(u[c], 0) = u[c] /\ galAdd(0, e) = e
      BY <1>3, <3>2, Added
    <3> QED BY <1>2, <3>1, <3>3
  <2> HIDE DEF v, t
  <2> QED BY <2>1 DEF AddedUp
<1>5. ASSUME NEW i \in 0..(n - 1)
      PROVE  dot(w, i, v, m) = galAdd(dot(w, i, u, m), galMultiply(w[<<i, j>>], e))
  <2>1. RowBytes(w, i, m)
    BY <1>1
  <2>2. Bytes(t, m) /\ dot(w, i, t, m) = galMultiply(w[<<i, j>>], e)
    <3> HIDE DEF e, j
    <3> QED BY <1>0, <1>3, <2>1, PointDot
  <2> HIDE DEF v, t, e, j
  <2> QED BY <1>2, <1>4, <2>1, <2>2, SumDot
<1>6. ASSUME NEW i \in j..(n - 1) PROVE dot(w, i, v, m) = 0
  <2>1. i \in 0..(n - 1)
    BY <1>0
  <2>2. CASE i = j
    <3>1. w[<<j, j>>] = 1
      BY <1>0 DEF Upper
    <3>2. galMultiply(1, e) = e /\ galAdd(e, e) = 0
      <4> HIDE DEF e
      <4> QED BY <1>3, MultipliedZero, SelfAdded
    <3>3. dot(w, j, v, m) = galAdd(e, galMultiply(1, e))
      BY <1>5, <2>1, <2>2, <3>1
    <3> QED BY <2>2, <3>2, <3>3
  <2>3. CASE i # j
    <3>1. i \in (j + 1)..(n - 1)
      BY <1>0, <2>3
    <3>2. w[<<i, j>>] = 0
      BY <1>0, <3>1 DEF Upper
    <3>3. dot(w, i, u, m) = 0
      BY <1>0, <3>1 DEF Backward
    <3>4. galMultiply(0, e) = 0 /\ galAdd(0, 0) = 0
      <4> HIDE DEF e
      <4> QED BY <1>3, MultipliedZero, NoBits, Added
    <3> HIDE DEF v, e, j
    <3> QED BY <1>5, <2>1, <3>2, <3>3, <3>4
  <2> QED BY <2>2, <2>3
<1>7. Bytes(v, m)
  BY <1>2, <1>3 DEF Bytes
<1>8. /\ v[r] = 1
      /\ \A c \in 0..(m - 1) : c > r \/ c < j => v[c] = 0
  <2>1. r \in 0..(m - 1) /\ u[r] = 1
    BY DEF Backward
  <2>2. \A c \in 0..(m - 1) : c > r \/ c < j => u[c] = 0 /\ c # j
    BY <1>0 DEF Backward
  <2>3. \A c \in 0..(m - 1) : v[c] = IF c = j THEN e ELSE u[c]
    OBVIOUS
  <2> HIDE DEF v, e, j
  <2> QED BY <1>0, <2>1, <2>2, <2>3
<1>9. Backward(v, w, r, k + 1, n, m)
  <2>1. j = r - (k + 1)
    OBVIOUS
  <2> HIDE DEF v, e, j
  <2>2. Bytes(v, m) /\ v[r] = 1
    BY <1>7, <1>8
  <2>3. \A c \in 0..(m - 1) : c > r \/ c < r - (k + 1) => v[c] = 0
    BY <1>8, <2>1, Zenon
  <2>4. \A i \in (r - (k + 1))..(n - 1) : dot(w, i, v, m) = 0
    BY <1>6, <2>1, Zenon
  <2> QED BY <2>2, <2>3, <2>4, Zenon DEF Backward
<1> HIDE DEF v
<1> QED BY <1>9

(* After r rows it is taken to 0 by all of them.                           *)
LEMMA BackwardLast ==
  ASSUME NEW n \in Nat, NEW m \in Nat, NEW w, w \in Work(n, m), NEW r \in 0..(n - 1), r < m,
         Upper(w, r, n), Clear(w, r, n)
  PROVE  \E u : Backward(u, w, r, r, n, m)
<1> DEFINE P == {k \in 0..r : \E u : Backward(u, w, r, k, n, m)}
<1>1. 0 \in P
  BY BackwardFirst
<1>2. ASSUME NEW k \in P, k < r PROVE k + 1 \in P
  <2>1. k \in 0..(r - 1) /\ k + 1 \in 0..r
    BY <1>2
  <2>2. PICK u : Backward(u, w, r, k, n, m)
    OBVIOUS
  <2>3. \E v : Backward(v, w, r, k + 1, n, m)
    BY <2>1, <2>2, BackwardNext
  <2> QED BY <2>1, <2>3
<1>3. P = 0..r
  <2>1. P \in SUBSET (0..r) /\ r \in Nat
    OBVIOUS
  <2> HIDE DEF P
  <2> QED BY <1>1, <1>2, <2>1, Prefixes
<1>4. r \in P
  BY <1>3
<1> QED BY <1>4

-----------------------------------------------------------------------------
(* The turns of gaussianElimination.                                       *)

(* pivotRow finds a row with something in column r if there is one.        *)
LEMMA Pivot ==
  ASSUME NEW n \in Nat, NEW w, NEW r \in 0..(n - 1), ~Clear(w, r, n)
  PROVE  pivotRow(w, r, n) \in r..(n - 1) /\ w[<<pivotRow(w, r, n), r>>] # 0
<1> DEFINE B == {b \in r..(n - 1) : w[<<b, r>>] # 0}
<1>1. B # {} /\ B \in SUBSET Nat
  BY DEF Clear
<1>2. PICK b \in B : \A o \in B : b <= o
  <2> HIDE DEF B
  <2> QED BY <1>1, LeastNumber
<1>3. \E o \in r..(n - 1) : w[<<o, r>>] # 0 /\ \A q \in r..(o - 1) : w[<<q, r>>] = 0
  <2>1. b \in r..(n - 1) /\ w[<<b, r>>] # 0
    OBVIOUS
  <2>2. ASSUME NEW q \in r..(b - 1) PROVE w[<<q, r>>] = 0
    <3>1. q \in r..(n - 1) /\ q < b
      BY <2>1
    <3> QED BY <1>2, <2>1, <3>1
  <2> QED BY <2>1, <2>2
<1> QED BY <1>3, Zenon DEF pivotRow

(* A matrix is not the value that stands for a singular one.               *)
LEMMA NotSingular ==
  ASSUME NEW n \in Nat \ {0}, NEW m \in Nat \ {0}, NEW w, w \in Work(n, m)
  PROVE  w # Singular
<1>1. 0 \in 0..(n - 1) /\ 0 \in 0..(m - 1)
  OBVIOUS
<1>2. <<0, 0>> \in DOMAIN w
  BY <1>1, CellIn
<1>3. DOMAIN <<>> = {}
  OBVIOUS
<1> QED BY <1>2, <1>3 DEF Singular

(* Having the same null vectors is transitive.                             *)
LEMMA SameNullsTwice ==
  ASSUME NEW n, NEW m, NEW a, NEW b, NEW c, SameNulls(a, b, n, m), SameNulls(b, c, n, m)
  PROVE  SameNulls(a, c, n, m)
  BY Zenon DEF SameNulls

RowsSwapped(v, w, a, b, n, m) ==
  \A i \in 0..(n - 1) : \A c \in 0..(m - 1) : v[<<i, c>>] = w[<<other(i, a, b), c>>]

(* A swap of two rows that have nothing in the first r columns.            *)
LEMMA UpperSwapped ==
  ASSUME NEW n \in Nat, NEW m \in Nat, n <= m, NEW w, NEW r \in 0..(n - 1), Upper(w, r, n),
         NEW b \in r..(n - 1), NEW v, RowsSwapped(v, w, r, b, n, m)
  PROVE  Upper(v, r, n) /\ v[<<r, r>>] = w[<<b, r>>]
<1>1. ASSUME NEW c \in 0..(r - 1)
      PROVE  v[<<c, c>>] = 1 /\ \A i \in (c + 1)..(n - 1) : v[<<i, c>>] = 0
  <2>1. c \in 0..(n - 1) /\ c \in 0..(m - 1) /\ other(c, r, b) = c
    BY DEF other
  <2>2. v[<<c, c>>] = w[<<c, c>>] /\ w[<<c, c>>] = 1
    BY <2>1 DEF Upper, RowsSwapped
  <2>3. ASSUME NEW i \in (c + 1)..(n - 1) PROVE v[<<i, c>>] = 0
    <3>1. i \in 0..(n - 1) /\ other(i, r, b) \in (c + 1)..(n - 1)
      BY DEF other
    <3>2. w[<<other(i, r, b), c>>] = 0
      BY <3>1 DEF Upper
    <3> QED BY <2>1, <3>1, <3>2 DEF RowsSwapped
  <2> QED BY <2>2, <2>3
<1>2. r \in 0..(m - 1) /\ other(r, r, b) = b
  BY DEF other
<1> QED BY <1>1, <1>2 DEF Upper, RowsSwapped

(* Scaling the row of the diagonal leaves the columns before it in shape.  *)
LEMMA UpperScaled ==
  ASSUME NEW n \in Nat, NEW m \in Nat, n <= m, NEW w, w \in Work(n, m), NEW r \in 0..(n - 1),
         Upper(w, r, n), NEW s \in Byte, NEW v,
         \A i \in 0..(n - 1) : \A c \in 0..(m - 1) :
           v[<<i, c>>] = IF i = r THEN galMultiply(w[<<i, c>>], s) ELSE w[<<i, c>>]
  PROVE  Upper(v, r, n) /\ v[<<r, r>>] = galMultiply(w[<<r, r>>], s)
<1>1. ASSUME NEW c \in 0..(r - 1)
      PROVE  v[<<c, c>>] = 1 /\ \A i \in (c + 1)..(n - 1) : v[<<i, c>>] = 0
  <2>1. c \in 0..(n - 1) /\ c \in 0..(m - 1) /\ c # r
    OBVIOUS
  <2>2. v[<<c, c>>] = w[<<c, c>>] /\ w[<<c, c>>] = 1
    BY <2>1 DEF Upper
  <2>3. ASSUME NEW i \in (c + 1)..(n - 1) PROVE v[<<i, c>>] = 0
    <3>1. i \in 0..(n - 1)
      OBVIOUS
    <3>2. w[<<i, c>>] = 0
      BY DEF Upper
    <3>3. galMultiply(0, s) = 0
      BY MultipliedZero
    <3> QED BY <2>1, <3>1, <3>2, <3>3
  <2> QED BY <2>2, <2>3
<1>2. r \in 0..(m - 1)
  OBVIOUS
<1> QED BY <1>1, <1>2 DEF Upper

(* Clearing column r below the diagonal adds it to the columns in shape.   *)
LEMMA UpperCleared ==
  ASSUME NEW n \in Nat, NEW m \in Nat, n <= m, NEW w, w \in Work(n, m), NEW r \in 0..(n - 1),
         Upper(w, r, n), w[<<r, r>>] = 1, NEW v,
         \A i \in 0..(n - 1) : \A c \in 0..(m - 1) :
           v[<<i, c>>] = IF i \in (r + 1)..(n - 1)
                         THEN galAdd(w[<<i, c>>], galMultiply(w[<<i, r>>], w[<<r, c>>]))
                         ELSE w[<<i, c>>]
  PROVE  Upper(v, r + 1, n)
<1>0. r \in 0..(m - 1)
  OBVIOUS
<1>1. ASSUME NEW c \in 0..((r + 1) - 1)
      PROVE  v[<<c, c>>] = 1 /\ \A i \in (c + 1)..(n - 1) : v[<<i, c>>] = 0
  <2>1. c \in 0..(n - 1) /\ c \in 0..(m - 1) /\ c \notin (r + 1)..(n - 1)
    OBVIOUS
  <2>2. v[<<c, c>>] = w[<<c, c>>]
    BY <2>1
  <2>3. w[<<c, c>>] = 1
    BY DEF Upper
  <2>4. ASSUME NEW i \in (c + 1)..(n - 1) PROVE v[<<i, c>>] = 0
    <3>1. i \in 0..(n - 1)
      OBVIOUS
    <3> DEFINE x == w[<<i, c>>]
               y == w[<<i, r>>]
    <3>2. x \in Byte /\ y \in Byte
      BY <1>0, <2>1, <3>1, CellIn
    <3>3. CASE c = r
      <4>1. i \in (r + 1)..(n - 1)
        BY <3>3
      <4>2. v[<<i, c>>] = galAdd(x, galMultiply(x, 1))
        BY <2>1, <3>1, <3>3, <4>1
      <4>3. galMultiply(x, 1) = x
        <5>1. 1 \in Byte
          BY DEF Byte
        <5> HIDE DEF x
        <5> QED BY <3>2, <5>1, Commuted, MultipliedZero
      <4>4. galAdd(x, x) = 0
        BY <3>2, SelfAdded
      <4> QED BY <4>2, <4>3, <4>4
    <3>4. CASE c < r
      <4>0. c \in 0..(r - 1) /\ r \in (c + 1)..(n - 1)
        BY <3>4
      <4>1. x = 0
        BY <4>0 DEF Upper
      <4>2. i \in (r + 1)..(n - 1) => v[<<i, c>>] = 0
        <5>1. w[<<r, c>>] = 0
          BY <4>0 DEF Upper
        <5>2. galMultiply(y, 0) = 0 /\ galAdd(0, 0) = 0
          BY <3>2, MultipliedZero, NoBits, Added
        <5> HIDE DEF y, x
        <5> QED BY <2>1, <3>1, <4>1, <5>1, <5>2 DEF y, x
      <4>3. i \notin (r + 1)..(n - 1) => v[<<i, c>>] = x
        BY <2>1, <3>1
      <4> QED BY <4>1, <4>2, <4>3
    <3> QED BY <3>3, <3>4
  <2> QED BY <2>2, <2>3, <2>4
<1> QED BY <1>1 DEF Upper

(* A turn of the first loop: one more column is in shape, and the null     *)
(* vectors are the same.                                                   *)
LEMMA EliminatedRow ==
  ASSUME NEW n \in Nat, NEW m \in Nat, n <= m, NEW w, w \in Work(n, m), NEW r \in 0..(n - 1),
         Upper(w, r, n), ~Clear(w, r, n), NEW v, v = eliminateRow(w, r, n)
  PROVE  v \in Work(n, m) /\ Upper(v, r + 1, n) /\ SameNulls(v, w, n, m)
<1> DEFINE b == pivotRow(w, r, n)
           x == SwapRows(w, r, b)
           s == galDivide(1, x[<<r, r>>])
           y == scaleRow(x, r, s)
           R == (r + 1)..(n - 1)
           z == clearColumn(y, r, R)
<1>1. v = z
  <2>1. w # Singular
    BY NotSingular
  <2>2. ~(\A c \in r..(n - 1) : w[<<c, r>>] = 0)
    BY DEF Clear
  <2> QED BY <2>1, <2>2, Zenon DEF eliminateRow, clearBelow
<1>2. b \in r..(n - 1) /\ w[<<b, r>>] # 0 /\ b \in 0..(n - 1)
  BY Pivot
<1>3. x = SwapRows(w, r, b) /\ s = galDivide(1, x[<<r, r>>]) /\ y = scaleRow(x, r, s)
      /\ z = clearColumn(y, r, R)
  BY Zenon
<1>4. r \in 0..(m - 1) /\ r < m /\ R \in SUBSET (0..(n - 1)) /\ r \notin R
  OBVIOUS
<1> HIDE DEF b, x, s, y, z
<1>5. /\ x \in Work(n, m) /\ SameNulls(x, w, n, m)
      /\ \A i \in 0..(n - 1) : \A c \in 0..(m - 1) : x[<<i, c>>] = w[<<other(i, r, b), c>>]
  <2>1. w \in Work(n, m) /\ r \in 0..(n - 1) /\ b \in 0..(n - 1) /\ x = SwapRows(w, r, b)
    BY <1>2, <1>3
  <2> HIDE DEF R
  <2> QED BY ONLY n \in Nat, m \in Nat, <2>1, SwappedRows
<1>6. Upper(x, r, n) /\ x[<<r, r>>] # 0 /\ x[<<r, r>>] \in Byte
  <2>1. Upper(x, r, n) /\ x[<<r, r>>] = w[<<b, r>>]
    <3>1. RowsSwapped(x, w, r, b, n, m)
      BY <1>5 DEF RowsSwapped
    <3> QED BY <1>2, <3>1, UpperSwapped
  <2>2. x[<<r, r>>] \in Byte
    BY <1>4, <1>5, CellIn
  <2> QED BY <1>2, <2>1, <2>2
<1>7. s \in Byte /\ s # 0 /\ galMultiply(x[<<r, r>>], s) = 1
  BY <1>3, <1>6, InverseByte, Commuted
<1>8. /\ y \in Work(n, m) /\ SameNulls(y, x, n, m)
      /\ \A i \in 0..(n - 1) : \A c \in 0..(m - 1) :
           y[<<i, c>>] = IF i = r THEN galMultiply(x[<<i, c>>], s) ELSE x[<<i, c>>]
  BY <1>3, <1>5, <1>7, ScaledRow
<1>9. Upper(y, r, n) /\ y[<<r, r>>] = 1
  BY <1>5, <1>6, <1>7, <1>8, UpperScaled
<1>10. /\ z \in Work(n, m) /\ SameNulls(z, y, n, m)
       /\ \A i \in 0..(n - 1) : \A c \in 0..(m - 1) :
            z[<<i, c>>] = IF i \in R
                          THEN galAdd(y[<<i, c>>], galMultiply(y[<<i, r>>], y[<<r, c>>]))
                          ELSE y[<<i, c>>]
  <2> HIDE DEF R
  <2> QED BY <1>3, <1>4, <1>8, ClearedColumn
<1>11. Upper(z, r + 1, n)
  BY <1>8, <1>9, <1>10, UpperCleared
<1>12. SameNulls(z, w, n, m)
  BY <1>5, <1>8, <1>10, SameNullsTwice
<1> QED BY <1>1, <1>10, <1>11, <1>12

-----------------------------------------------------------------------------
(* The first d columns are 0 above the diagonal too.                       *)
Reduced(w, d) == \A c \in 0..(d - 1) : \A i \in 0..(c - 1) : w[<<i, c>>] = 0

(* A turn of the second loop: one more column is 0 above the diagonal.     *)
LEMMA ClearedAbove ==
  ASSUME NEW n \in Nat, NEW m \in Nat, n <= m, NEW w, w \in Work(n, m), NEW d \in 0..(n - 1),
         Upper(w, n, n), Reduced(w, d), NEW v, v = clearAbove(w, d)
  PROVE  v \in Work(n, m) /\ Upper(v, n, n) /\ Reduced(v, d + 1) /\ SameNulls(v, w, n, m)
<1> DEFINE R == 0..(d - 1)
<1>1. v = clearColumn(w, d, R)
  <2>1. w # Singular
    BY NotSingular
  <2> QED BY <2>1, Zenon DEF clearAbove
<1>2. d \in 0..(m - 1) /\ d < m /\ R \in SUBSET (0..(n - 1)) /\ d \notin R
  OBVIOUS
<1>3. /\ v \in Work(n, m) /\ SameNulls(v, w, n, m)
      /\ \A i \in 0..(n - 1) : \A c \in 0..(m - 1) :
           v[<<i, c>>] = IF i \in R
                         THEN galAdd(w[<<i, c>>], galMultiply(w[<<i, d>>], w[<<d, c>>]))
                         ELSE w[<<i, c>>]
  <2> HIDE DEF R
  <2> QED BY <1>1, <1>2, ClearedColumn
<1>4. ASSUME NEW c \in 0..(n - 1)
      PROVE  v[<<c, c>>] = 1 /\ \A i \in (c + 1)..(n - 1) : v[<<i, c>>] = 0
  <2>1. c \in 0..(m - 1)
    OBVIOUS
  <2>2. /\ w[<<c, c>>] = 1
        /\ \A i \in (c + 1)..(n - 1) : w[<<i, c>>] = 0
    BY DEF Upper
  <2>3. ASSUME NEW i \in c..(n - 1) PROVE v[<<i, c>>] = w[<<i, c>>]
    <3>1. i \in 0..(n - 1)
      OBVIOUS
    <3>2. CASE i \notin R
      BY <1>3, <2>1, <3>1, <3>2
    <3>3. CASE i \in R
      <4>1. w[<<d, c>>] = 0
        <5>1. d \in (c + 1)..(n - 1)
          BY <3>3
        <5> QED BY <2>2, <5>1
      <4> DEFINE x == w[<<i, c>>]
                 y == w[<<i, d>>]
      <4>2. x \in Byte /\ y \in Byte
        BY <1>2, <2>1, <3>1, CellIn
      <4>3. v[<<i, c>>] = galAdd(x, galMultiply(y, 0))
        BY <1>3, <2>1, <3>1, <3>3, <4>1
      <4> HIDE DEF x, y
      <4>4. v[<<i, c>>] = x
        BY <4>2, <4>3, MultipliedZero, Added
      <4> QED BY <4>4 DEF x
    <3> QED BY <3>2, <3>3
  <2>4. ASSUME NEW i \in (c + 1)..(n - 1) PROVE v[<<i, c>>] = 0
    <3>1. i \in c..(n - 1)
      OBVIOUS
    <3> QED BY <2>2, <2>3, <3>1
  <2>5. v[<<c, c>>] = 1
    <3>1. c \in c..(n - 1)
      OBVIOUS
    <3> QED BY <2>2, <2>3, <3>1
  <2> QED BY <2>4, <2>5
<1>5. ASSUME NEW c \in 0..((d + 1) - 1), NEW i \in 0..(c - 1) PROVE v[<<i, c>>] = 0
  <2>1. c \in 0..(m - 1) /\ i \in R /\ i \in 0..(n - 1)
    OBVIOUS
  <2> DEFINE x == w[<<i, c>>]
             y == w[<<i, d>>]
  <2>2. x \in Byte /\ y \in Byte
    BY <1>2, <2>1, CellIn
  <2>3. v[<<i, c>>] = galAdd(x, galMultiply(y, w[<<d, c>>]))
    BY <1>3, <2>1
  <2>4. CASE c = d
    <3>1. w[<<d, c>>] = 1 /\ x = y
      BY <2>4 DEF Upper
    <3> HIDE DEF x, y
    <3>2. 1 \in Byte
      BY DEF Byte
    <3>3. galMultiply(y, 1) = y
      BY <2>2, <3>2, Commuted, MultipliedZero
    <3> QED BY <2>2, <2>3, <3>1, <3>3, SelfAdded
  <2>5. CASE c < d
    <3>1. w[<<d, c>>] = 0
      <4>1. c \in 0..(n - 1) /\ d \in (c + 1)..(n - 1)
        BY <2>5
      <4> QED BY <4>1 DEF Upper
    <3>2. x = 0
      BY <2>5 DEF Reduced
    <3> HIDE DEF x, y
    <3> QED BY <2>2, <2>3, <3>1, <3>2, MultipliedZero, NoBits, Added
  <2> QED BY <2>4, <2>5
<1>6. Upper(v, n, n)
  BY <1>4 DEF Upper
<1>7. Reduced(v, d + 1)
  BY <1>5 DEF Reduced
<1> QED BY <1>3, <1>6, <1>7

-----------------------------------------------------------------------------
(* The two loops of gaussianElimination.                                   *)

turned(w, k, n, down) == IF down = 1 THEN eliminateRow(w, k, n) ELSE clearAbove(w, k)

Iterated(f, a, k, n, down) ==
  f = [i \in 0..k |-> IF i = 0 THEN a ELSE turned(f[i - 1], i - 1, n, down)]

(* The iterates of a loop form a function.                                 *)
LEMMA IteratedExists ==
  ASSUME NEW a, NEW n \in Nat, NEW down
  PROVE  \E f : Iterated(f, a, n, n, down)
<1> DEFINE P == {k \in 0..n : \E f : Iterated(f, a, k, n, down)}
<1>1. 0 \in P
  <2> DEFINE f == [i \in 0..0 |-> a]
  <2>1. \A i \in 0..0 : i = 0
    OBVIOUS
  <2>2. Iterated(f, a, 0, n, down)
    BY <2>1 DEF Iterated
  <2> QED BY <2>2
<1>2. ASSUME NEW k \in P, k < n PROVE k + 1 \in P
  <2>1. k \in 0..n /\ k + 1 \in 0..n /\ k \in Nat
    BY <1>2
  <2>2. PICK f : Iterated(f, a, k, n, down)
    OBVIOUS
  <2> DEFINE o == k + 1
             g == [i \in 0..o |-> IF i = o THEN turned(f[k], k, n, down) ELSE f[i]]
  <2>3. ASSUME NEW i \in 0..o
        PROVE  g[i] = IF i = 0 THEN a ELSE turned(g[i - 1], i - 1, n, down)
    <3>1. CASE i = o
      <4>1. i # 0 /\ i - 1 = k /\ k \in 0..o /\ k # o
        BY <2>1, <3>1
      <4> HIDE DEF o
      <4>2. g[i] = turned(f[k], k, n, down) /\ g[k] = f[k]
        BY <3>1, <4>1
      <4> HIDE DEF g
      <4> QED BY <4>1, <4>2
    <3>2. CASE i # o
      <4>1. i \in 0..k /\ g[i] = f[i] /\ (i # 0 => i - 1 \in 0..o /\ i - 1 # o)
        BY <2>1, <3>2
      <4>2. f[i] = IF i = 0 THEN a ELSE turned(f[i - 1], i - 1, n, down)
        BY <2>2, <4>1 DEF Iterated
      <4>3. i # 0 => g[i - 1] = f[i - 1]
        BY <4>1
      <4> HIDE DEF g
      <4> QED BY <4>1, <4>2, <4>3
    <3> QED BY <3>1, <3>2
  <2>4. g = [i \in 0..o |-> g[i]]
    OBVIOUS
  <2> HIDE DEF g
  <2>5. g = [i \in 0..o |-> IF i = 0 THEN a ELSE turned(g[i - 1], i - 1, n, down)]
    <3> HIDE DEF o
    <3>1. [i \in 0..o |-> g[i]]
            = [i \in 0..o |-> IF i = 0 THEN a ELSE turned(g[i - 1], i - 1, n, down)]
      BY <2>3, Zenon
    <3> QED BY <2>4, <3>1, Zenon
  <2>6. Iterated(g, a, k + 1, n, down)
    BY <2>5, Zenon DEF Iterated
  <2> QED BY <2>1, <2>6
<1>3. P = 0..n
  <2>1. P \in SUBSET (0..n) /\ \A i \in P : i < n => i + 1 \in P
    BY <1>2
  <2> HIDE DEF P
  <2> QED BY <1>1, <2>1, Prefixes
<1>4. n \in P
  <2> HIDE DEF P
  <2> QED BY <1>3
<1> QED BY <1>4

BelowOf(f, a, n) == f = [r \in 0..n |-> IF r = 0 THEN a ELSE eliminateRow(f[r - 1], r - 1, n)]
AboveOf(f, a, n) == f = [d \in 0..n |-> IF d = 0 THEN a ELSE clearAbove(f[d - 1], d - 1)]

(* Those of either loop do.                                                *)
LEMMA LoopsExist ==
  ASSUME NEW a, NEW n \in Nat
  PROVE  (\E f : BelowOf(f, a, n)) /\ (\E f : AboveOf(f, a, n))
<1>1. \A f : Iterated(f, a, n, n, 1) => BelowOf(f, a, n)
  <2>1. \A w, k : turned(w, k, n, 1) = eliminateRow(w, k, n)
    BY DEF turned
  <2>2. SUFFICES ASSUME NEW f, Iterated(f, a, n, n, 1) PROVE BelowOf(f, a, n)
    OBVIOUS
  <2>3. f = [i \in 0..n |-> IF i = 0 THEN a ELSE turned(f[i - 1], i - 1, n, 1)]
    BY <2>2, Zenon DEF Iterated
  <2>4. f = [i \in 0..n |-> IF i = 0 THEN a ELSE eliminateRow(f[i - 1], i - 1, n)]
    BY <2>1, <2>3
  <2> QED BY <2>4, Zenon DEF BelowOf
<1>2. \A f : Iterated(f, a, n, n, 2) => AboveOf(f, a, n)
  <2>1. \A w, k : turned(w, k, n, 2) = clearAbove(w, k)
    BY DEF turned
  <2>2. SUFFICES ASSUME NEW f, Iterated(f, a, n, n, 2) PROVE AboveOf(f, a, n)
    OBVIOUS
  <2>3. f = [i \in 0..n |-> IF i = 0 THEN a ELSE turned(f[i - 1], i - 1, n, 2)]
    BY <2>2, Zenon DEF Iterated
  <2>4. f = [i \in 0..n |-> IF i = 0 THEN a ELSE clearAbove(f[i - 1], i - 1)]
    BY <2>1, <2>3
  <2> QED BY <2>4, Zenon DEF AboveOf
<1>3. (\E f : Iterated(f, a, n, n, 1)) /\ (\E f : Iterated(f, a, n, n, 2))
  BY IteratedExists
<1> QED BY <1>1, <1>2, <1>3

(* gaussianElimination is the last iterate of the second loop, which       *)
(* starts from the last iterate of the first.                              *)
LEMMA LoopsRun ==
  ASSUME NEW a, NEW n \in Nat
  PROVE  \E f, g : BelowOf(f, a, n) /\ AboveOf(g, f[n], n) /\ gaussianElimination(a, n) = g[n]
<1> DEFINE f == CHOOSE h : BelowOf(h, a, n)
           g == CHOOSE h : AboveOf(h, f[n], n)
<1>1. BelowOf(f, a, n)
  BY LoopsExist, Zenon
<1>2. AboveOf(g, f[n], n)
  <2> HIDE DEF f
  <2>1. \E h : AboveOf(h, f[n], n)
    BY LoopsExist
  <2> QED BY <2>1, Zenon
<1>3. gaussianElimination(a, n) = g[n]
  BY Zenon DEF gaussianElimination, BelowOf, AboveOf
<1> HIDE DEF f, g
<1> QED BY <1>1, <1>2, <1>3

(* Only the zero vector of left halves is taken to 0 with a right half     *)
(* of zeros.                                                               *)
LeftInjective(a, n, m) ==
  \A u : /\ Bytes(u, m) /\ Null(a, u, n, m)
         /\ \A c \in 0..(m - 1) : c >= n => u[c] = 0
         => \A c \in 0..(n - 1) : u[c] = 0

(* A matrix that takes only the zero vector to 0 has a pivot in every      *)
(* column: otherwise BackwardLast gives a vector that is not 0.            *)
LEMMA NeverClear ==
  ASSUME NEW n \in Nat, NEW m \in Nat, n <= m, NEW a, LeftInjective(a, n, m),
         NEW w, w \in Work(n, m), SameNulls(w, a, n, m), NEW r \in 0..(n - 1), Upper(w, r, n)
  PROVE  ~Clear(w, r, n)
<1> SUFFICES ASSUME Clear(w, r, n) PROVE FALSE
  OBVIOUS
<1>1. r < m /\ r - r = 0
  OBVIOUS
<1>2. PICK u : Backward(u, w, r, r, n, m)
  BY <1>1, BackwardLast
<1>3. /\ Bytes(u, m) /\ u[r] = 1
      /\ \A c \in 0..(m - 1) : c >= n => u[c] = 0
      /\ \A i \in (r - r)..(n - 1) : dot(w, i, u, m) = 0
  BY <1>2 DEF Backward
<1>4. Null(w, u, n, m)
  BY <1>1, <1>3 DEF Null
<1>5. Null(a, u, n, m)
  BY <1>3, <1>4 DEF SameNulls
<1>6. u[r] = 0
  BY <1>3, <1>5 DEF LeftInjective
<1> QED BY <1>3, <1>6

(* Having the same null vectors is reflexive.                              *)
LEMMA SameNullsSelf ==
  ASSUME NEW a, NEW n, NEW m
  PROVE  SameNulls(a, a, n, m)
  BY Zenon DEF SameNulls

(* The first loop ends with 1 on the diagonal and 0 below it.              *)
LEMMA Triangular ==
  ASSUME NEW n \in Nat, NEW m \in Nat, n <= m, NEW a, a \in Work(n, m), LeftInjective(a, n, m),
         NEW f, BelowOf(f, a, n)
  PROVE  f[n] \in Work(n, m) /\ Upper(f[n], n, n) /\ SameNulls(f[n], a, n, m)
<1> DEFINE P == {k \in 0..n : /\ f[k] \in Work(n, m) /\ Upper(f[k], k, n)
                              /\ SameNulls(f[k], a, n, m)}
<1>0. \A k \in 0..n : f[k] = IF k = 0 THEN a ELSE eliminateRow(f[k - 1], k - 1, n)
  BY DEF BelowOf
<1>1. 0 \in P
  <2>1. f[0] = a /\ 0 \in 0..n
    BY <1>0
  <2>2. Upper(a, 0, n)
    BY DEF Upper
  <2> QED BY <2>1, <2>2, SameNullsSelf
<1>2. ASSUME NEW k \in P, k < n PROVE k + 1 \in P
  <2>1. k + 1 \in 0..n /\ k \in 0..(n - 1) /\ k + 1 # 0 /\ (k + 1) - 1 = k
    BY <1>2
  <2>2. f[k] \in Work(n, m) /\ Upper(f[k], k, n) /\ SameNulls(f[k], a, n, m)
    OBVIOUS
  <2>3. f[k + 1] = eliminateRow(f[k], k, n)
    BY <1>0, <2>1
  <2>4. ~Clear(f[k], k, n)
    BY <2>1, <2>2, NeverClear
  <2>5. /\ f[k + 1] \in Work(n, m) /\ Upper(f[k + 1], k + 1, n)
        /\ SameNulls(f[k + 1], f[k], n, m)
    BY <2>1, <2>2, <2>3, <2>4, EliminatedRow
  <2>6. SameNulls(f[k + 1], a, n, m)
    BY <2>2, <2>5, SameNullsTwice
  <2> QED BY <2>1, <2>5, <2>6
<1>3. P = 0..n
  <2>1. P \in SUBSET (0..n) /\ \A i \in P : i < n => i + 1 \in P
    BY <1>2
  <2> HIDE DEF P
  <2> QED BY <1>1, <2>1, Prefixes
<1>4. n \in P
  <2> HIDE DEF P
  <2> QED BY <1>3
<1> QED BY <1>4

(* The second ends with 0 above it too.                                    *)
LEMMA Diagonal ==
  ASSUME NEW n \in Nat, NEW m \in Nat, n <= m, NEW a, a \in Work(n, m), Upper(a, n, n),
         NEW g, AboveOf(g, a, n)
  PROVE  /\ g[n] \in Work(n, m) /\ Upper(g[n], n, n) /\ Reduced(g[n], n)
         /\ SameNulls(g[n], a, n, m)
<1> DEFINE P == {k \in 0..n : /\ g[k] \in Work(n, m) /\ Upper(g[k], n, n) /\ Reduced(g[k], k)
                              /\ SameNulls(g[k], a, n, m)}
<1>0. \A k \in 0..n : g[k] = IF k = 0 THEN a ELSE clearAbove(g[k - 1], k - 1)
  BY DEF AboveOf
<1>1. 0 \in P
  <2>1. g[0] = a /\ 0 \in 0..n
    BY <1>0
  <2>2. Reduced(a, 0)
    BY DEF Reduced
  <2> QED BY <2>1, <2>2, SameNullsSelf
<1>2. ASSUME NEW k \in P, k < n PROVE k + 1 \in P
  <2>1. k + 1 \in 0..n /\ k \in 0..(n - 1) /\ k + 1 # 0 /\ (k + 1) - 1 = k
    BY <1>2
  <2>2. /\ g[k] \in Work(n, m) /\ Upper(g[k], n, n) /\ Reduced(g[k], k)
        /\ SameNulls(g[k], a, n, m)
    OBVIOUS
  <2>3. g[k + 1] = clearAbove(g[k], k)
    BY <1>0, <2>1
  <2>4. /\ g[k + 1] \in Work(n, m) /\ Upper(g[k + 1], n, n) /\ Reduced(g[k + 1], k + 1)
        /\ SameNulls(g[k + 1], g[k], n, m)
    BY <2>1, <2>2, <2>3, ClearedAbove
  <2>5. SameNulls(g[k + 1], a, n, m)
    BY <2>2, <2>4, SameNullsTwice
  <2> QED BY <2>1, <2>4, <2>5
<1>3. P = 0..n
  <2>1. P \in SUBSET (0..n) /\ \A i \in P : i < n => i + 1 \in P
    BY <1>2
  <2> HIDE DEF P
  <2> QED BY <1>1, <2>1, Prefixes
<1>4. n \in P
  <2> HIDE DEF P
  <2> QED BY <1>3
<1> QED BY <1>4

(* What the elimination leaves: the identity on the left, and the same     *)
(* vectors taken to 0.                                                     *)
LEMMA EliminationEnds ==
  ASSUME NEW n \in Nat, NEW m \in Nat, n <= m, NEW a, a \in Work(n, m), LeftInjective(a, n, m),
         NEW w, w = gaussianElimination(a, n)
  PROVE  /\ w \in Work(n, m) /\ SameNulls(w, a, n, m)
         /\ \A i, c \in 0..(n - 1) : w[<<i, c>>] = IF i = c THEN 1 ELSE 0
<1>1. PICK f, g : BelowOf(f, a, n) /\ AboveOf(g, f[n], n) /\ gaussianElimination(a, n) = g[n]
  BY LoopsRun
<1>2. f[n] \in Work(n, m) /\ Upper(f[n], n, n) /\ SameNulls(f[n], a, n, m)
  BY <1>1, Triangular
<1>3. /\ g[n] \in Work(n, m) /\ Upper(g[n], n, n) /\ Reduced(g[n], n)
      /\ SameNulls(g[n], f[n], n, m)
  BY <1>1, <1>2, Diagonal
<1>4. SameNulls(g[n], a, n, m)
  BY <1>2, <1>3, SameNullsTwice
<1>5. ASSUME NEW i \in 0..(n - 1), NEW c \in 0..(n - 1)
      PROVE  g[n][<<i, c>>] = IF i = c THEN 1 ELSE 0
  <2>1. CASE i = c
    BY <1>3, <2>1 DEF Upper
  <2>2. CASE i < c
    <3>1. i \in 0..(c - 1)
      BY <2>2
    <3> QED BY <1>3, <2>2, <3>1 DEF Reduced
  <2>3. CASE c < i
    <3>1. i \in (c + 1)..(n - 1)
      BY <2>3
    <3> QED BY <1>3, <2>3, <3>1 DEF Upper
  <2> QED BY <2>1, <2>2, <2>3
<1> QED BY <1>1, <1>3, <1>4, <1>5

-----------------------------------------------------------------------------
(* Invert.                                                                 *)

(* Two bytes add up to 0 when they are the same.                           *)
LEMMA ZeroSum ==
  ASSUME NEW a \in Byte, NEW b \in Byte
  PROVE  galAdd(a, b) = 0 <=> a = b
<1>1. ASSUME galAdd(a, b) = 0 PROVE a = b
  <2>1. galAdd(galAdd(a, b), b) = galAdd(a, galAdd(b, b))
    BY Added
  <2>2. galAdd(b, b) = 0 /\ galAdd(a, 0) = a /\ galAdd(0, b) = b
    BY SelfAdded, Added
  <2> QED BY <1>1, <2>1, <2>2
<1> QED BY <1>1, SelfAdded

(* Two squares side by side, and a vector of their width.                  *)
SidesOf(w, A, B, n) ==
  \A i, c \in 0..(n - 1) : w[<<i, c>>] = A[<<i, c>>] /\ w[<<i, n + c>>] = B[<<i, c>>]

HalvesOf(u, v, y, n) == \A c \in 0..(n - 1) : u[c] = v[c] /\ u[n + c] = y[c]

(* A vector of bytes is two halves of bytes.                               *)
LEMMA HalvesBytes ==
  ASSUME NEW n \in Nat, NEW u, NEW v, NEW y, HalvesOf(u, v, y, n)
  PROVE  Bytes(u, n + n) <=> Bytes(v, n) /\ Bytes(y, n)
<1>1. ASSUME Bytes(u, n + n), NEW c \in 0..(n - 1) PROVE v[c] \in Byte /\ y[c] \in Byte
  <2>1. c \in 0..(n + n - 1) /\ n + c \in 0..(n + n - 1)
    OBVIOUS
  <2> QED BY <1>1, <2>1 DEF Bytes, HalvesOf
<1>2. ASSUME Bytes(v, n), Bytes(y, n), NEW c \in 0..(n + n - 1) PROVE u[c] \in Byte
  <2>1. CASE c < n
    <3>1. c \in 0..(n - 1)
      BY <2>1
    <3> QED BY <1>2, <3>1 DEF Bytes, HalvesOf
  <2>2. CASE c >= n
    <3> DEFINE d == c - n
    <3>1. d \in 0..(n - 1) /\ n + d = c
      BY <2>2
    <3> HIDE DEF d
    <3> QED BY <1>2, <3>1 DEF Bytes, HalvesOf
  <2> QED BY <2>1, <2>2
<1> QED BY <1>1, <1>2 DEF Bytes

(* A row of two sides times a vector of two halves.                        *)
LEMMA SidesDot ==
  ASSUME NEW n \in Nat, NEW w, NEW A, NEW B, SidesOf(w, A, B, n), SquareBytes(A, n),
         SquareBytes(B, n), NEW v, Bytes(v, n), NEW y, Bytes(y, n), NEW u, HalvesOf(u, v, y, n),
         NEW i \in 0..(n - 1)
  PROVE  dot(w, i, u, n + n) = galAdd(dot(A, i, v, n), dot(B, i, y, n))
<1> DEFINE m == n + n
           f == terms(w, i, u, m)
           g == from(f, n, n)
           a == terms(A, i, v, n)
           b == terms(B, i, y, n)
<1>0. Bytes(a, n) /\ Bytes(b, n)
  BY TermsBytes DEF SquareBytes
<1>1. ASSUME NEW c \in 0..(n - 1) PROVE f[c] = a[c] /\ g[c] = b[c] /\ f[n + c] = b[c]
  <2>1. c \in 0..(m - 1) /\ n + c \in 0..(m - 1)
    OBVIOUS
  <2> HIDE DEF m
  <2>2. /\ f[c] = galMultiply(w[<<i, c>>], u[c])
        /\ f[n + c] = galMultiply(w[<<i, n + c>>], u[n + c])
    BY <2>1 DEF terms
  <2>3. g[c] = f[n + c]
    <3> HIDE DEF f
    <3> QED BY DEF from
  <2>4. a[c] = galMultiply(A[<<i, c>>], v[c]) /\ b[c] = galMultiply(B[<<i, c>>], y[c])
    BY DEF terms
  <2>5. /\ w[<<i, c>>] = A[<<i, c>>] /\ w[<<i, n + c>>] = B[<<i, c>>]
        /\ u[c] = v[c] /\ u[n + c] = y[c]
    BY DEF SidesOf, HalvesOf
  <2> HIDE DEF f, g, a, b
  <2> QED BY <2>2, <2>3, <2>4, <2>5
<1>2. HalvesOf(f, a, b, n)
  <2> HIDE DEF f, g, a, b
  <2> QED BY <1>1 DEF HalvesOf
<1>3. Bytes(f, n + n)
  <2> HIDE DEF f, g, a, b
  <2> QED BY <1>0, <1>2, HalvesBytes
<1>4. total(f, n + n) = galAdd(total(f, n), total(g, n))
  <2> HIDE DEF f
  <2> QED BY <1>3, TotalSplit
<1>5. total(f, n) = total(a, n) /\ total(g, n) = total(b, n)
  <2> HIDE DEF f, g, a, b
  <2> QED BY <1>1, TotalSame
<1>6. dot(w, i, u, n + n) = total(f, n + n)
  BY Zenon DEF dot
<1> HIDE DEF f, g
<1> QED BY <1>4, <1>5, <1>6 DEF dot

(* The entries of the identity.                                            *)
LEMMA IdentityIs ==
  ASSUME NEW n \in Nat
  PROVE  /\ identityMatrix(n) \in Work(n, n)
         /\ \A i, c \in 0..(n - 1) : identityMatrix(n)[<<i, c>>] = IF i = c THEN 1 ELSE 0
<1> DEFINE e == identityMatrix(n)
<1>1. \A i, c \in 0..(n - 1) : e[<<i, c>>] = IF i = c THEN 1 ELSE 0
  BY DEF identityMatrix, cells
<1>2. e = [p \in cells(n, n) |-> e[p]]
  BY DEF identityMatrix
<1>3. 0 \in Byte /\ 1 \in Byte
  BY DEF Byte
<1> HIDE DEF e
<1>4. e \in Work(n, n)
  BY <1>1, <1>2, <1>3, WorkIs
<1> QED BY <1>1, <1>4 DEF e

OnesAt(A, n) == \A i, c \in 0..(n - 1) : A[<<i, c>>] = IF i = c THEN 1 ELSE 0

(* It leaves every vector as it is.                                        *)
LEMMA IdentityDot ==
  ASSUME NEW n \in Nat, NEW A, OnesAt(A, n), NEW v, Bytes(v, n), NEW i \in 0..(n - 1)
  PROVE  dot(A, i, v, n) = v[i] /\ SquareBytes(A, n)
<1> DEFINE f == terms(A, i, v, n)
<1>0. v[i] \in Byte
  BY DEF Bytes
<1>1. ASSUME NEW c \in 0..(n - 1) PROVE f[c] = IF c = i THEN v[i] ELSE 0
  <2>1. f[c] = galMultiply(A[<<i, c>>], v[c]) /\ A[<<i, c>>] = IF i = c THEN 1 ELSE 0
    BY DEF terms, OnesAt
  <2>2. v[c] \in Byte
    BY DEF Bytes
  <2> HIDE DEF f
  <2> QED BY <2>1, <2>2, MultipliedZero
<1> HIDE DEF f
<1>2. OnlyAt(f, i, n) /\ f[i] = v[i]
  BY <1>1 DEF OnlyAt
<1>3. total(f, n) = v[i]
  BY <1>0, <1>2, TotalOnly
<1>4. 0 \in Byte /\ 1 \in Byte
  BY DEF Byte
<1>5. SquareBytes(A, n)
  BY <1>4 DEF OnesAt, SquareBytes, RowBytes
<1> QED BY <1>3, <1>5 DEF dot, f

(* Only the zero vector is taken to 0.                                     *)
Injective(M, n) ==
  \A v : Bytes(v, n) /\ (\A i \in 0..(n - 1) : dot(M, i, v, n) = 0)
         => \A c \in 0..(n - 1) : v[c] = 0

Inverts(R, M, n) ==
  \A v, y : Bytes(v, n) /\ Bytes(y, n) =>
    ((\A i \in 0..(n - 1) : dot(M, i, v, n) = y[i])
       <=> \A i \in 0..(n - 1) : v[i] = dot(R, i, y, n))

(* Augment puts the identity beside the matrix.                            *)
LEMMA Augmented ==
  ASSUME NEW n \in Nat, NEW M, M \in Work(n, n), NEW a, a = Augment(M, identityMatrix(n), n)
  PROVE  a \in Work(n, n + n) /\ SidesOf(a, M, identityMatrix(n), n)
<1> DEFINE e == identityMatrix(n)
<1>0. n + n = 2 * n
  OBVIOUS
<1>1. a = [p \in cells(n, n + n) |-> IF p[2] < n THEN M[p] ELSE e[<<p[1], p[2] - n>>]]
  <2>1. a = [p \in cells(n, 2 * n) |-> IF p[2] < n THEN M[p] ELSE e[<<p[1], p[2] - n>>]]
    BY Zenon DEF Augment
  <2> HIDE DEF e
  <2> QED BY <1>0, <2>1
<1>2. e \in Work(n, n)
  BY IdentityIs
<1> HIDE DEF e
<1>3. ASSUME NEW i \in 0..(n - 1), NEW c \in 0..(n + n - 1)
      PROVE  a[<<i, c>>] = IF c < n THEN M[<<i, c>>] ELSE e[<<i, c - n>>]
  <2> DEFINE p == <<i, c>>
  <2>1. p \in cells(n, n + n)
    BY DEF cells
  <2>2. p[1] = i /\ p[2] = c
    OBVIOUS
  <2> HIDE DEF p
  <2>3. a[p] = IF c < n THEN M[p] ELSE e[<<i, c - n>>]
    BY <1>1, <2>1, <2>2
  <2> QED BY <2>3 DEF p
<1>4. ASSUME NEW i \in 0..(n - 1), NEW c \in 0..(n + n - 1) PROVE a[<<i, c>>] \in Byte
  <2>1. CASE c < n
    <3>1. c \in 0..(n - 1)
      BY <2>1
    <3> QED BY <1>3, <2>1, <3>1, CellIn
  <2>2. CASE ~(c < n)
    <3>1. c - n \in 0..(n - 1)
      BY <2>2
    <3>2. e[<<i, c - n>>] \in Byte
      BY <1>2, <3>1, CellIn
    <3> QED BY <1>3, <2>2, <3>2
  <2> QED BY <2>1, <2>2
<1>5. a \in Work(n, n + n)
  <2>1. a = [p \in cells(n, n + n) |-> a[p]]
    BY <1>1
  <2> DEFINE m == n + n
  <2>2. \A i \in 0..(n - 1) : \A c \in 0..(m - 1) : a[<<i, c>>] \in Byte
    <3>1. ASSUME NEW i \in 0..(n - 1), NEW c \in 0..(m - 1) PROVE a[<<i, c>>] \in Byte
      <4>1. c \in 0..(n + n - 1)
        OBVIOUS
      <4> HIDE DEF m
      <4> QED BY <1>4, <4>1
    <3> HIDE DEF m
    <3> QED BY <3>1
  <2>3. a = [p \in cells(n, m) |-> a[p]]
    BY <2>1
  <2> HIDE DEF m
  <2>4. a \in Work(n, m)
    BY <2>2, <2>3, WorkIs
  <2> QED BY <2>4 DEF m
<1>6. ASSUME NEW i \in 0..(n - 1), NEW c \in 0..(n - 1)
      PROVE  a[<<i, c>>] = M[<<i, c>>] /\ a[<<i, n + c>>] = e[<<i, c>>]
  <2>1. c \in 0..(n + n - 1) /\ n + c \in 0..(n + n - 1) /\ c < n /\ ~(n + c < n)
        /\ (n + c) - n = c
    OBVIOUS
  <2>2. a[<<i, c>>] = M[<<i, c>>]
    BY <1>3, <2>1
  <2>3. a[<<i, n + c>>] = e[<<i, (n + c) - n>>]
    BY <1>3, <2>1
  <2> QED BY <2>1, <2>2, <2>3
<1> QED BY <1>5, <1>6 DEF SidesOf, e

(* What SubMatrix cuts out at the end.                                     *)
LEMMA RightHalfIs ==
  ASSUME NEW n \in Nat \ {0}, NEW w, w \in Work(n, n + n), NEW R, R = rightHalf(w, n)
  PROVE  /\ R \in Work(n, n)
         /\ \A i, c \in 0..(n - 1) : R[<<i, c>>] = w[<<i, n + c>>]
<1>0. w # Singular
  <2> DEFINE m == n + n
  <2>1. n \in Nat \ {0} /\ m \in Nat \ {0} /\ w \in Work(n, m)
    OBVIOUS
  <2> HIDE DEF m
  <2> QED BY <2>1, NotSingular
<1>1. R = SubMatrix(w, 0, n, n, 2 * n)
  BY <1>0, Zenon DEF rightHalf
<1>2. R = [p \in cells(n - 0, 2 * n - n) |-> w[<<p[1] + 0, p[2] + n>>]]
  BY <1>1, Zenon DEF SubMatrix
<1>3. n - 0 = n /\ 2 * n - n = n
  OBVIOUS
<1>4. R = [p \in cells(n, n) |-> w[<<p[1] + 0, p[2] + n>>]]
  BY <1>2, <1>3
<1>5. ASSUME NEW i \in 0..(n - 1), NEW c \in 0..(n - 1)
      PROVE  R[<<i, c>>] = w[<<i, n + c>>] /\ R[<<i, c>>] \in Byte
  <2> DEFINE p == <<i, c>>
  <2>1. p \in cells(n, n)
    BY DEF cells
  <2>2. p[1] + 0 = i /\ p[2] + n = n + c
    OBVIOUS
  <2> HIDE DEF p
  <2>3. R[p] = w[<<p[1] + 0, p[2] + n>>]
    BY <1>4, <2>1, Zenon
  <2>4. R[p] = w[<<i, n + c>>]
    BY <2>2, <2>3
  <2>5. w[<<i, n + c>>] \in Byte
    <3> DEFINE m == n + n
               d == n + c
    <3>1. d \in 0..(m - 1)
      OBVIOUS
    <3>2. w \in Work(n, m)
      OBVIOUS
    <3> HIDE DEF m, d
    <3>3. w[<<i, d>>] \in Byte
      BY <3>1, <3>2, CellIn
    <3> QED BY <3>3 DEF d
  <2> QED BY <2>4, <2>5 DEF p
<1>6. R \in Work(n, n)
  <2>1. R = [p \in cells(n, n) |-> R[p]]
    BY <1>4
  <2>2. \A i \in 0..(n - 1) : \A c \in 0..(n - 1) : R[<<i, c>>] \in Byte
    BY <1>5
  <2> QED BY <2>1, <2>2, WorkIs
<1> QED BY <1>5, <1>6

(* A matrix of n by n bytes is square.                                     *)
LEMMA SquareWork ==
  ASSUME NEW n, NEW M, M \in Work(n, n)
  PROVE  SquareBytes(M, n)
  BY WorkBytes DEF SquareBytes

(* The zero vector is taken to 0.                                          *)
LEMMA ZeroDot ==
  ASSUME NEW n \in Nat, NEW A, NEW i, RowBytes(A, i, n), NEW y, \A c \in 0..(n - 1) : y[c] = 0
  PROVE  dot(A, i, y, n) = 0
<1> DEFINE z == point(0, 0, n)
<1>1. CASE n = 0
  BY <1>1, TotalZero DEF dot
<1>2. CASE n # 0
  <2>1. 0 \in 0..(n - 1) /\ 0 \in Byte
    BY <1>2, NoBits
  <2>2. dot(A, i, z, n) = galMultiply(A[<<i, 0>>], 0) /\ A[<<i, 0>>] \in Byte
    <3>1. A[<<i, 0>>] \in Byte
      BY <2>1 DEF RowBytes
    <3>2. dot(A, i, point(0, 0, n), n) = galMultiply(A[<<i, 0>>], 0)
      BY <2>1, PointDot
    <3> QED BY <3>1, <3>2
  <2>3. galMultiply(A[<<i, 0>>], 0) = 0
    BY <2>2, MultipliedZero
  <2>4. \A c \in 0..(n - 1) : terms(A, i, y, n)[c] = terms(A, i, z, n)[c]
    BY DEF terms, point
  <2>5. dot(A, i, y, n) = dot(A, i, z, n)
    BY <2>4, TotalSame DEF dot
  <2> QED BY <2>2, <2>3, <2>5
<1> QED BY <1>1, <1>2

(* What Invert starts from takes nothing to 0 with zeros on the right but  *)
(* the zero vector.                                                        *)
LEMMA AugmentInjective ==
  ASSUME NEW n \in Nat, NEW M, M \in Work(n, n), Injective(M, n),
         NEW a, SidesOf(a, M, identityMatrix(n), n)
  PROVE  LeftInjective(a, n, n + n)
<1> DEFINE m == n + n
           e == identityMatrix(n)
<1>0. SquareBytes(M, n) /\ OnesAt(e, n)
  BY SquareWork, IdentityIs DEF OnesAt
<1>1. ASSUME NEW u, Bytes(u, m), Null(a, u, n, m), \A c \in 0..(m - 1) : c >= n => u[c] = 0,
             NEW c \in 0..(n - 1)
      PROVE  u[c] = 0
  <2> DEFINE y == [d \in 0..(n - 1) |-> 0]
  <2>1. Bytes(y, n)
    BY NoBits DEF Bytes
  <2>2. HalvesOf(u, u, y, n)
    <3>1. ASSUME NEW d \in 0..(n - 1) PROVE u[n + d] = 0
      <4> DEFINE o == n + d
      <4>1. o \in 0..(m - 1) /\ o >= n
        OBVIOUS
      <4> HIDE DEF o, m
      <4>2. u[o] = 0
        BY <1>1, <4>1
      <4> QED BY <4>2 DEF o
    <3> QED BY <3>1 DEF HalvesOf
  <2>3. Bytes(u, n)
    <3>1. \A d \in 0..(n - 1) : d \in 0..(m - 1)
      OBVIOUS
    <3> QED BY <1>1, <3>1 DEF Bytes
  <2>4. ASSUME NEW i \in 0..(n - 1) PROVE dot(M, i, u, n) = 0
    <3> HIDE DEF e
    <3>1. SquareBytes(e, n) /\ dot(e, i, y, n) = y[i]
      BY <1>0, <2>1, IdentityDot
    <3>2. dot(a, i, u, n + n) = galAdd(dot(M, i, u, n), dot(e, i, y, n))
      <4> HIDE DEF y
      <4>1. SidesOf(a, M, e, n)
        BY DEF e
      <4> QED BY <1>0, <2>1, <2>2, <2>3, <3>1, <4>1, SidesDot
    <3>3. dot(a, i, u, n + n) = 0
      BY <1>1 DEF Null
    <3>4. dot(M, i, u, n) \in Byte
      BY <1>0, <2>3, DotType DEF SquareBytes
    <3> QED BY <3>1, <3>2, <3>3, <3>4, Added
  <2> QED BY <2>3, <2>4 DEF Injective
<1> HIDE DEF m
<1>2. LeftInjective(a, n, m)
  BY <1>1 DEF LeftInjective
<1> QED BY <1>2 DEF m

(* Invert finds the inverse of every matrix that takes only the zero       *)
(* vector to 0.                                                            *)
LEMMA InvertSolves ==
  ASSUME NEW n \in Nat \ {0}, NEW M, M \in Work(n, n), Injective(M, n),
         NEW R, R = Invert(M, n)
  PROVE  R \in Work(n, n) /\ Inverts(R, M, n)
<1> DEFINE e == identityMatrix(n)
           a == Augment(M, e, n)
           w == gaussianElimination(a, n)
           m == n + n
<1>0. m \in Nat /\ n <= m /\ n \in Nat
  OBVIOUS
<1>1. a \in Work(n, m) /\ SidesOf(a, M, e, n)
  BY Augmented
<1>2. LeftInjective(a, n, m)
  <2> HIDE DEF a
  <2> QED BY <1>1, AugmentInjective
<1>3. /\ w \in Work(n, m) /\ SameNulls(w, a, n, m)
      /\ \A i, c \in 0..(n - 1) : w[<<i, c>>] = IF i = c THEN 1 ELSE 0
  <2> HIDE DEF a, m
  <2> QED BY <1>0, <1>1, <1>2, EliminationEnds
<1>4. R = rightHalf(w, n)
  BY Zenon DEF Invert
<1>5. R \in Work(n, n) /\ \A i, c \in 0..(n - 1) : R[<<i, c>>] = w[<<i, n + c>>]
  <2>1. w \in Work(n, n + n)
    BY <1>3
  <2> HIDE DEF a, w, m
  <2> QED BY <1>4, <2>1, RightHalfIs
<1>6. SidesOf(w, e, R, n)
  <2>1. \A i, c \in 0..(n - 1) : e[<<i, c>>] = IF i = c THEN 1 ELSE 0
    BY IdentityIs
  <2> HIDE DEF w, e
  <2> QED BY <1>3, <1>5, <2>1 DEF SidesOf
<1>7. OnesAt(e, n) /\ SquareBytes(M, n) /\ SquareBytes(R, n)
  BY <1>5, SquareWork, IdentityIs DEF OnesAt
<1> HIDE DEF e, a, w
<1>8. ASSUME NEW v, NEW y, Bytes(v, n), Bytes(y, n)
      PROVE  (\A i \in 0..(n - 1) : dot(M, i, v, n) = y[i])
               <=> \A i \in 0..(n - 1) : v[i] = dot(R, i, y, n)
  <2> DEFINE u == [c \in 0..(m - 1) |-> IF c < n THEN v[c] ELSE y[c - n]]
  <2>1. HalvesOf(u, v, y, n)
    <3>1. ASSUME NEW c \in 0..(n - 1) PROVE u[c] = v[c] /\ u[n + c] = y[c]
      <4> DEFINE o == n + c
      <4>1. c \in 0..(m - 1) /\ o \in 0..(m - 1) /\ c < n /\ ~(o < n) /\ o - n = c
        OBVIOUS
      <4> HIDE DEF o, m
      <4>2. u[c] = v[c] /\ u[o] = y[o - n]
        BY <4>1
      <4> HIDE DEF u
      <4>3. u[o] = y[c]
        BY <4>1, <4>2
      <4> QED BY <4>2, <4>3 DEF o
    <3> HIDE DEF u
    <3> QED BY <3>1 DEF HalvesOf
  <2> HIDE DEF u
  <2>2. Bytes(u, n + n)
    BY <1>8, <2>1, HalvesBytes
  <2>3. ASSUME NEW i \in 0..(n - 1) PROVE dot(a, i, u, n + n) = 0 <=> dot(M, i, v, n) = y[i]
    <3>1. dot(e, i, y, n) = y[i] /\ SquareBytes(e, n)
      BY <1>7, <1>8, IdentityDot
    <3>2. dot(a, i, u, n + n) = galAdd(dot(M, i, v, n), y[i])
      BY <1>1, <1>7, <1>8, <2>1, <3>1, SidesDot
    <3>3. dot(M, i, v, n) \in Byte /\ y[i] \in Byte
      BY <1>7, <1>8, DotType DEF SquareBytes, Bytes
    <3> QED BY <3>2, <3>3, ZeroSum
  <2>4. ASSUME NEW i \in 0..(n - 1) PROVE dot(w, i, u, n + n) = 0 <=> v[i] = dot(R, i, y, n)
    <3>1. dot(e, i, v, n) = v[i] /\ SquareBytes(e, n)
      BY <1>7, <1>8, IdentityDot
    <3>2. dot(w, i, u, n + n) = galAdd(v[i], dot(R, i, y, n))
      BY <1>6, <1>7, <1>8, <2>1, <3>1, SidesDot
    <3>3. dot(R, i, y, n) \in Byte /\ v[i] \in Byte
      BY <1>7, <1>8, DotType DEF SquareBytes, Bytes
    <3> QED BY <3>2, <3>3, ZeroSum
  <2>5. Null(w, u, n, n + n) <=> Null(a, u, n, n + n)
    BY <1>3, <2>2 DEF SameNulls
  <2>6. Null(a, u, n, n + n) <=> \A i \in 0..(n - 1) : dot(M, i, v, n) = y[i]
    BY <2>3 DEF Null
  <2>7. Null(w, u, n, n + n) <=> \A i \in 0..(n - 1) : v[i] = dot(R, i, y, n)
    BY <2>4 DEF Null
  <2> QED BY <2>5, <2>6, <2>7
<1> QED BY <1>5, <1>8 DEF Inverts

(* A product of two squares that leaves every unit vector as it is.        *)
LEMMA UnitProduct ==
  ASSUME NEW n \in Nat, NEW A, SquareBytes(A, n), NEW T, SquareBytes(T, n),
         NEW c \in 0..(n - 1), NEW y, ProductsOf(y, T, point(c, 1, n), n), NEW r \in 0..(n - 1),
         NEW m, m = Multiply(A, T, n, n, n)
  PROVE  m[<<r, c>>] = dot(A, r, y, n)
<1> DEFINE x == point(c, 1, n)
<1>1. RowsBytes(A, n, n) /\ RowsBytes(T, n, n)
  BY DEF RowsBytes, SquareBytes
<1>2. m \in [cells(n, n) -> Byte]
  BY <1>1, ProductBytes
<1>3. m \in Work(n, n)
  BY <1>2 DEF Work
<1>4. 1 \in Byte
  BY DEF Byte
<1>5. RowBytes(m, r, n) /\ m[<<r, c>>] \in Byte
  BY <1>3, WorkBytes, CellIn
<1>6. Bytes(x, n) /\ dot(m, r, x, n) = galMultiply(m[<<r, c>>], 1)
  BY <1>4, <1>5, PointDot
<1>7. galMultiply(m[<<r, c>>], 1) = m[<<r, c>>]
  BY <1>4, <1>5, Commuted, MultipliedZero
<1>8. dot(m, r, x, n) = dot(A, r, y, n)
  <2>1. ProductsOf(y, T, x, n)
    OBVIOUS
  <2> HIDE DEF x
  <2>2. dot(Multiply(A, T, n, n, n), r, x, n) = dot(A, r, y, n)
    BY <1>1, <1>6, <2>1, DotComposed
  <2> QED BY <2>2
<1> QED BY <1>6, <1>7, <1>8

Undoes(A, T, n) ==
  \A c \in 0..(n - 1) : \E y : /\ ProductsOf(y, T, point(c, 1, n), n)
                               /\ \A r \in 0..(n - 1) : dot(A, r, y, n) = IF r = c THEN 1 ELSE 0

(* If A takes back what T does to every vector, A times T is the identity. *)
LEMMA UndoesProduct ==
  ASSUME NEW n \in Nat, NEW A, SquareBytes(A, n), NEW T, SquareBytes(T, n), Undoes(A, T, n)
  PROVE  Multiply(A, T, n, n, n) = identityMatrix(n)
<1> DEFINE m == Multiply(A, T, n, n, n)
           e == identityMatrix(n)
<1>0. m = Multiply(A, T, n, n, n)
  OBVIOUS
<1>1. ASSUME NEW r \in 0..(n - 1), NEW c \in 0..(n - 1) PROVE m[<<r, c>>] = e[<<r, c>>]
  <2>1. PICK y : /\ ProductsOf(y, T, point(c, 1, n), n)
                 /\ \A i \in 0..(n - 1) : dot(A, i, y, n) = IF i = c THEN 1 ELSE 0
    BY DEF Undoes
  <2>2. e[<<r, c>>] = IF r = c THEN 1 ELSE 0
    BY IdentityIs
  <2> HIDE DEF m, e
  <2>3. m[<<r, c>>] = dot(A, r, y, n)
    BY <1>0, <2>1, UnitProduct
  <2> QED BY <2>1, <2>2, <2>3
<1>2. RowsBytes(A, n, n) /\ RowsBytes(T, n, n)
  BY DEF RowsBytes, SquareBytes
<1>3. m \in [cells(n, n) -> Byte]
  BY <1>2, ProductBytes
<1>4. e \in [cells(n, n) -> Byte]
  BY IdentityIs DEF Work
<1> HIDE DEF m, e
<1>5. \A p \in cells(n, n) : m[p] = e[p]
  BY <1>1 DEF cells
<1>6. m = e
  BY <1>3, <1>4, <1>5
<1> QED BY <1>6 DEF m, e

products(S, x, n) == [k \in 0..(n - 1) |-> dot(S, k, x, n)]

(* The vector of all the rows times x.                                     *)
LEMMA Products ==
  ASSUME NEW n \in Nat, NEW S, SquareBytes(S, n), NEW x, Bytes(x, n)
  PROVE  Bytes(products(S, x, n), n) /\ ProductsOf(products(S, x, n), S, x, n)
<1>1. \A k \in 0..(n - 1) : dot(S, k, x, n) \in Byte
  BY DotType DEF SquareBytes
<1> QED BY <1>1 DEF products, ProductsOf, Bytes

(* The unit vectors.                                                       *)
LEMMA PointIs ==
  ASSUME NEW n \in Nat, NEW c \in 0..(n - 1)
  PROVE  /\ Bytes(point(c, 1, n), n)
         /\ \A r \in 0..(n - 1) : point(c, 1, n)[r] = IF r = c THEN 1 ELSE 0
<1>1. 1 \in Byte /\ 0 \in Byte
  BY DEF Byte
<1> QED BY <1>1 DEF point, Bytes

(* Both products with the inverse are the identity.                        *)
LEMMA InvertUndoes ==
  ASSUME NEW n \in Nat \ {0}, NEW M, M \in Work(n, n), Injective(M, n),
         NEW R, R = Invert(M, n)
  PROVE  /\ R \in Work(n, n)
         /\ Multiply(R, M, n, n, n) = identityMatrix(n)
         /\ Multiply(M, R, n, n, n) = identityMatrix(n)
<1>0. R \in Work(n, n) /\ Inverts(R, M, n)
  BY InvertSolves
<1>1. SquareBytes(R, n) /\ SquareBytes(M, n)
  BY <1>0, SquareWork
<1>2. Undoes(R, M, n)
  <2>1. ASSUME NEW c \in 0..(n - 1)
        PROVE  \E y : /\ ProductsOf(y, M, point(c, 1, n), n)
                      /\ \A r \in 0..(n - 1) : dot(R, r, y, n) = IF r = c THEN 1 ELSE 0
    <3> DEFINE x == point(c, 1, n)
               y == products(M, x, n)
    <3>1. Bytes(x, n) /\ \A r \in 0..(n - 1) : x[r] = IF r = c THEN 1 ELSE 0
      BY PointIs
    <3> HIDE DEF x
    <3>2. Bytes(y, n) /\ ProductsOf(y, M, x, n)
      BY <1>1, <3>1, Products
    <3> HIDE DEF y
    <3>3. \A i \in 0..(n - 1) : dot(M, i, x, n) = y[i]
      BY <3>2 DEF ProductsOf
    <3>4. \A i \in 0..(n - 1) : x[i] = dot(R, i, y, n)
      BY <1>0, <3>1, <3>2, <3>3 DEF Inverts
    <3>5. \A r \in 0..(n - 1) : dot(R, r, y, n) = IF r = c THEN 1 ELSE 0
      BY <3>1, <3>4
    <3> QED BY <3>2, <3>5 DEF x
  <2> QED BY <2>1 DEF Undoes
<1>3. Undoes(M, R, n)
  <2>1. ASSUME NEW c \in 0..(n - 1)
        PROVE  \E y : /\ ProductsOf(y, R, point(c, 1, n), n)
                      /\ \A r \in 0..(n - 1) : dot(M, r, y, n) = IF r = c THEN 1 ELSE 0
    <3> DEFINE x == point(c, 1, n)
               y == products(R, x, n)
    <3>1. Bytes(x, n) /\ \A r \in 0..(n - 1) : x[r] = IF r = c THEN 1 ELSE 0
      BY PointIs
    <3> HIDE DEF x
    <3>2. Bytes(y, n) /\ ProductsOf(y, R, x, n)
      BY <1>1, <3>1, Products
    <3> HIDE DEF y
    <3>3. \A i \in 0..(n - 1) : y[i] = dot(R, i, x, n)
      BY <3>2 DEF ProductsOf
    <3>4. \A i \in 0..(n - 1) : dot(M, i, y, n) = x[i]
      BY <1>0, <3>1, <3>2, <3>3 DEF Inverts
    <3>5. \A r \in 0..(n - 1) : dot(M, r, y, n) = IF r = c THEN 1 ELSE 0
      BY <3>1, <3>4
    <3> QED BY <3>2, <3>5 DEF x
  <2> QED BY <2>1 DEF Undoes
<1> QED BY <1>0, <1>1, <1>2, <1>3, UndoesProduct

-----------------------------------------------------------------------------
(* A vector is read as a polynomial: a row of the Vandermonde matrix times *)
(* the vector is its value at the number of the row.                       *)
powersTimes(v, n, x) == [c \in 0..(n - 1) |-> galMultiply(galExp(x, c), v[c])]
value(v, n, x) == total(powersTimes(v, n, x), n)

(* The value of a polynomial is a byte.                                    *)
LEMMA ValueType ==
  ASSUME NEW n \in Nat, NEW v, Bytes(v, n), NEW x \in Byte
  PROVE  Bytes(powersTimes(v, n, x), n) /\ value(v, n, x) \in Byte
<1>1. ASSUME NEW c \in 0..(n - 1) PROVE galMultiply(galExp(x, c), v[c]) \in Byte
  BY ExpNext, MultipliedType DEF Bytes
<1>2. Bytes(powersTimes(v, n, x), n)
  BY <1>1 DEF Bytes, powersTimes
<1> QED BY <1>2, TotalType DEF value

(* A sum of zeros is 0.                                                    *)
LEMMA TotalZeros ==
  ASSUME NEW n \in Nat, NEW f, \A i \in 0..(n - 1) : f[i] = 0
  PROVE  total(f, n) = 0
<1>0. 0 \in Byte
  BY NoBits
<1>1. Bytes(f, n)
  BY <1>0 DEF Bytes
<1>2. galMultiply(0, 0) = 0
  BY <1>0, MultipliedZero
<1>3. ScaledLeft(f, 0, f, n)
  BY <1>2 DEF ScaledLeft
<1>4. total(f, n) = galMultiply(0, total(f, n)) /\ total(f, n) \in Byte
  BY <1>0, <1>1, <1>3, TotalLeft, TotalType
<1> QED BY <1>4, MultipliedZero

(* The polynomial without coefficients has no value but 0.                 *)
LEMMA ValueZero ==
  ASSUME NEW n \in Nat, NEW v, \A i \in 0..(n - 1) : v[i] = 0, NEW x \in Byte
  PROVE  value(v, n, x) = 0
<1>1. ASSUME NEW c \in 0..(n - 1) PROVE powersTimes(v, n, x)[c] = 0
  BY ExpNext, MultipliedZero DEF powersTimes
<1> QED BY <1>1, TotalZeros DEF value

(* Horner's rule.                                                          *)
LEMMA Horner ==
  ASSUME NEW n \in Nat, NEW v, Bytes(v, n + 1), NEW x \in Byte, NEW w, w = from(v, 1, n)
  PROVE  /\ Bytes(w, n) /\ v[0] \in Byte
         /\ value(v, n + 1, x) = galAdd(v[0], galMultiply(x, value(w, n, x)))
<1> DEFINE m == n + 1
           f == powersTimes(v, m, x)
           g == from(f, 1, n)
           d == powersTimes(w, n, x)
<1>0. ASSUME NEW c \in 0..(n - 1) PROVE w[c] = v[1 + c] /\ w[c] \in Byte
  <2>1. 1 + c \in 0..(n + 1 - 1)
    OBVIOUS
  <2>2. v[1 + c] \in Byte
    BY <2>1 DEF Bytes
  <2> QED BY <2>2 DEF from
<1>1. Bytes(w, n)
  BY <1>0 DEF Bytes
<1>2. v[0] \in Byte
  <2>1. 0 \in 0..(n + 1 - 1)
    OBVIOUS
  <2> QED BY <2>1 DEF Bytes
<1>3. Bytes(f, m) /\ value(v, m, x) = total(f, m)
  <2>1. m \in Nat /\ Bytes(v, m)
    OBVIOUS
  <2> HIDE DEF m
  <2> QED BY <2>1, ValueType DEF value
<1>4. Bytes(d, n) /\ value(w, n, x) = total(d, n)
  BY <1>1, ValueType DEF value
<1>5. total(f, m) = galAdd(total(f, 1), total(g, n))
  <2>1. Bytes(f, 1 + n) /\ 1 \in Nat /\ 1 + n = m
    BY <1>3
  <2> HIDE DEF f, m
  <2>2. total(f, 1 + n) = galAdd(total(f, 1), total(from(f, 1, n), n))
    BY <2>1, TotalSplit
  <2> QED BY <2>1, <2>2
<1>6. total(f, 1) = v[0]
  <2>0. 0 \in 0..(m - 1) /\ m \in Nat /\ 0 \in 0..m /\ 0 < m
    OBVIOUS
  <2>1. f[0] = galMultiply(galExp(x, 0), v[0])
    <3> HIDE DEF m
    <3> QED BY <2>0 DEF powersTimes
  <2>2. f[0] = v[0]
    BY <1>2, <2>1, ExpNext, MultipliedZero
  <2> HIDE DEF f, m
  <2>3. total(f, 0 + 1) = galAdd(f[0], total(f, 0))
    BY <1>3, <2>0, TotalGrows
  <2>4. total(f, 0) = 0
    BY TotalZero
  <2>5. galAdd(v[0], 0) = v[0]
    BY <1>2, Added
  <2> QED BY <2>2, <2>3, <2>4, <2>5
<1>7. ScaledLeft(g, x, d, n)
  <2>1. ASSUME NEW c \in 0..(n - 1) PROVE g[c] = galMultiply(x, d[c])
    <3> DEFINE o == 1 + c
               e == galExp(x, c)
    <3>1. o \in 0..(m - 1) /\ c \in Nat /\ o = c + 1
      OBVIOUS
    <3>2. g[c] = f[o]
      <4> HIDE DEF f
      <4> QED BY DEF from
    <3>3. f[o] = galMultiply(galExp(x, o), v[o])
      <4> HIDE DEF m, o
      <4> QED BY <3>1 DEF powersTimes
    <3>4. galExp(x, c + 1) = galMultiply(galExp(x, c), x) /\ e \in Byte
      BY <3>1, ExpNext
    <3>5. galExp(x, o) = galMultiply(e, x)
      <4> HIDE DEF o
      <4> QED BY <3>1, <3>4
    <3>6. d[c] = galMultiply(e, w[c]) /\ w[c] = v[o] /\ w[c] \in Byte
      BY <1>0 DEF powersTimes
    <3> HIDE DEF e, o, d, f, g, m
    <3>7. galMultiply(e, x) = galMultiply(x, e)
      BY <3>4, Commuted
    <3>8. galMultiply(galMultiply(x, e), w[c]) = galMultiply(x, galMultiply(e, w[c]))
      BY <3>4, <3>6, Associates
    <3> QED BY <3>2, <3>3, <3>5, <3>6, <3>7, <3>8
  <2> HIDE DEF g, d
  <2> QED BY <2>1 DEF ScaledLeft
<1>8. total(g, n) = galMultiply(x, total(d, n))
  <2> HIDE DEF g, d
  <2> QED BY <1>4, <1>7, TotalLeft
<1> HIDE DEF f, g, d
<1> QED BY <1>1, <1>2, <1>3, <1>4, <1>5, <1>6, <1>8

(* A coefficient in front of the others.                                   *)
behind(a, q, n) == [c \in 0..n |-> IF c = 0 THEN a ELSE q[c - 1]]

(* Its value.                                                              *)
LEMMA BehindValue ==
  ASSUME NEW n \in Nat, NEW e \in Byte, NEW q, Bytes(q, n), NEW r, r = behind(e, q, n)
  PROVE  /\ Bytes(r, n + 1) /\ r[0] = e /\ \A c \in 0..(n - 1) : r[1 + c] = q[c]
         /\ \A x \in Byte : value(r, n + 1, x) = galAdd(e, galMultiply(x, value(q, n, x)))
<1>1. Bytes(r, n + 1) /\ r[0] = e /\ \A c \in 0..(n - 1) : r[1 + c] = q[c]
  <2>1. r[0] = e /\ \A c \in 0..(n - 1) : r[1 + c] = q[c]
    BY DEF behind
  <2>2. ASSUME NEW c \in 0..(n + 1 - 1) PROVE r[c] \in Byte
    <3>1. CASE c = 0
      BY <2>1, <3>1
    <3>2. CASE c # 0
      <4> DEFINE d == c - 1
      <4>1. d \in 0..(n - 1) /\ 1 + d = c
        BY <3>2
      <4> HIDE DEF d
      <4> QED BY <2>1, <4>1 DEF Bytes
    <3> QED BY <3>1, <3>2
  <2> QED BY <2>1, <2>2 DEF Bytes
<1>2. ASSUME NEW x \in Byte
      PROVE  value(r, n + 1, x) = galAdd(e, galMultiply(x, value(q, n, x)))
  <2> DEFINE t == from(r, 1, n)
  <2>1. t = from(r, 1, n)
    OBVIOUS
  <2>2. \A c \in 0..(n - 1) : t[c] = q[c]
    BY <1>1 DEF from
  <2> HIDE DEF t
  <2>3. value(r, n + 1, x) = galAdd(r[0], galMultiply(x, value(t, n, x)))
    BY <1>1, <2>1, Horner
  <2>4. value(t, n, x) = value(q, n, x)
    <3>1. \A c \in 0..(n - 1) : powersTimes(t, n, x)[c] = powersTimes(q, n, x)[c]
      BY <2>2 DEF powersTimes
    <3> QED BY <3>1, TotalSame DEF value
  <2> QED BY <1>1, <2>3, <2>4
<1> QED BY <1>1, <1>2

(* A polynomial of one coefficient is constant.                            *)
LEMMA ValueFirst ==
  ASSUME NEW v, Bytes(v, 1), NEW x \in Byte
  PROVE  value(v, 1, x) = v[0] /\ v[0] \in Byte
<1> DEFINE w == from(v, 1, 0)
<1>1. w = from(v, 1, 0) /\ Bytes(v, 0 + 1) /\ 0 \in Nat
  OBVIOUS
<1> HIDE DEF w
<1>2. v[0] \in Byte /\ value(v, 0 + 1, x) = galAdd(v[0], galMultiply(x, value(w, 0, x)))
  BY <1>1, Horner
<1>3. value(w, 0, x) = 0
  BY TotalZero DEF value
<1>4. galMultiply(x, 0) = 0 /\ galAdd(v[0], 0) = v[0]
  BY <1>2, MultipliedZero, Added
<1> QED BY <1>2, <1>3, <1>4

(* The quotient by x + a, with the value at a as the remainder.            *)
Quotient(q, v, n, a) ==
  /\ Bytes(q, n)
  /\ \A x \in Byte : value(v, n + 1, x)
       = galAdd(value(v, n + 1, a), galMultiply(galAdd(x, a), value(q, n, x)))
  /\ (\A j \in 0..(n - 1) : q[j] = 0) => \A j \in 1..n : v[j] = 0

(* A constant is its own remainder.                                        *)
LEMMA QuotientFirst ==
  ASSUME NEW v, Bytes(v, 1), NEW a \in Byte
  PROVE  Quotient(v, v, 0, a)
<1>1. Bytes(v, 0)
  BY DEF Bytes
<1>2. ASSUME NEW x \in Byte PROVE value(v, 0 + 1, x) = v[0] /\ v[0] \in Byte
  BY ValueFirst
<1>3. ASSUME NEW x \in Byte
      PROVE  value(v, 0 + 1, x) = galAdd(value(v, 0 + 1, a), galMultiply(galAdd(x, a), value(v, 0, x)))
  <2>1. value(v, 0, x) = 0
    BY TotalZero DEF value
  <2>2. galAdd(x, a) \in Byte /\ value(v, 0 + 1, x) = v[0] /\ value(v, 0 + 1, a) = v[0] /\ v[0] \in Byte
    BY <1>2, Added
  <2>3. galMultiply(galAdd(x, a), 0) = 0 /\ galAdd(v[0], 0) = v[0]
    BY <2>2, MultipliedZero, Added
  <2> QED BY <2>1, <2>2, <2>3
<1>4. \A j \in 1..0 : v[j] = 0
  OBVIOUS
<1> QED BY <1>1, <1>3, <1>4 DEF Quotient

(* The quotient of v from the one of v without its first coefficient.      *)
LEMMA QuotientNext ==
  ASSUME NEW n \in Nat, NEW v, Bytes(v, n + 2), NEW a \in Byte, NEW w, w = from(v, 1, n + 1),
         NEW q, Quotient(q, w, n, a)
  PROVE  Quotient(behind(value(w, n + 1, a), q, n), v, n + 1, a)
<1> DEFINE k == n + 1
           e == value(w, k, a)
           r == behind(e, q, n)
<1>0. k \in Nat /\ n + 2 = k + 1 /\ w = from(v, 1, k) /\ Bytes(v, k + 1) /\ k = n + 1
  OBVIOUS
<1>1. Bytes(w, k) /\ v[0] \in Byte
  <2> HIDE DEF k
  <2> QED BY <1>0, Horner
<1>2. e \in Byte
  <2> HIDE DEF k
  <2> QED BY <1>0, <1>1, ValueType
<1>3. Bytes(q, n)
  BY DEF Quotient
<1>4. Bytes(r, k) /\ r[0] = e /\ \A c \in 0..(n - 1) : r[1 + c] = q[c]
  <2> HIDE DEF e
  <2> QED BY <1>2, <1>3, BehindValue
<1>5. ASSUME NEW x \in Byte
      PROVE  value(r, k, x) = galAdd(e, galMultiply(x, value(q, n, x)))
  <2> HIDE DEF e
  <2> QED BY <1>2, <1>3, BehindValue
<1>6. ASSUME NEW x \in Byte
      PROVE  value(v, k + 1, x) = galAdd(value(v, k + 1, a), galMultiply(galAdd(x, a), value(r, k, x)))
  <2> DEFINE y == value(q, n, x)
             s == galAdd(x, a)
             u == value(w, k, x)
  <2> HIDE DEF k
  <2>1. /\ value(v, k + 1, x) = galAdd(v[0], galMultiply(x, u))
        /\ value(v, k + 1, a) = galAdd(v[0], galMultiply(a, e))
    BY <1>0, Horner
  <2>2. u = galAdd(e, galMultiply(s, y))
    BY <1>0 DEF Quotient
  <2>3. value(r, k, x) = galAdd(e, galMultiply(x, y))
    BY <1>5
  <2>4. y \in Byte /\ s \in Byte
    BY <1>3, ValueType, Added
  <2> DEFINE b == v[0]
  <2>5. b \in Byte
    BY <1>1
  <2> HIDE DEF y, u, e, b, r
  <2>6. galMultiply(x, u) = galAdd(galMultiply(x, e), galMultiply(s, galMultiply(x, y)))
    <3>1. galMultiply(s, y) \in Byte
      BY <2>4, MultipliedType
    <3>2. galMultiply(x, u) = galAdd(galMultiply(x, e), galMultiply(x, galMultiply(s, y)))
      BY <1>2, <2>2, <3>1, LeftDistributes
    <3>3. galMultiply(x, galMultiply(s, y)) = galMultiply(galMultiply(x, s), y)
      BY <2>4, Associates
    <3>4. galMultiply(s, galMultiply(x, y)) = galMultiply(galMultiply(s, x), y)
      BY <2>4, Associates
    <3>5. galMultiply(x, s) = galMultiply(s, x)
      BY <2>4, Commuted
    <3> QED BY <3>2, <3>3, <3>4, <3>5
  <2>7. galMultiply(s, value(r, k, x)) = galAdd(galMultiply(s, e), galMultiply(s, galMultiply(x, y)))
    <3>1. galMultiply(x, y) \in Byte
      BY <2>4, MultipliedType
    <3> HIDE DEF s
    <3> QED BY <1>2, <2>3, <2>4, <3>1, LeftDistributes
  <2>8. galMultiply(s, e) = galAdd(galMultiply(x, e), galMultiply(a, e))
    BY <1>2, RightDistributes
  <2> DEFINE X == galMultiply(x, e)
             A == galMultiply(a, e)
             Y == galMultiply(s, galMultiply(x, y))
  <2>9. X \in Byte /\ A \in Byte /\ Y \in Byte
    <3> HIDE DEF s
    <3> QED BY <1>2, <2>4, MultipliedType
  <2> HIDE DEF s, X, A, Y
  <2>10. galAdd(b, galAdd(X, Y)) = galAdd(galAdd(b, A), galAdd(galAdd(X, A), Y))
    <3>1. galAdd(A, galAdd(galAdd(X, A), Y)) = galAdd(X, Y)
      <4>1. galAdd(A, galAdd(X, A)) = X
        <5>1. galAdd(X, A) = galAdd(A, X)
          BY <2>9, Added
        <5>2. galAdd(A, galAdd(A, X)) = galAdd(galAdd(A, A), X)
          BY <2>9, Added
        <5>3. galAdd(A, A) = 0 /\ galAdd(0, X) = X
          BY <2>9, SelfAdded, Added
        <5> QED BY <5>1, <5>2, <5>3
      <4>2. galAdd(X, A) \in Byte
        BY <2>9, Added
      <4>3. galAdd(A, galAdd(galAdd(X, A), Y)) = galAdd(galAdd(A, galAdd(X, A)), Y)
        BY <2>9, <4>2, Added
      <4> QED BY <4>1, <4>3
    <3>2. galAdd(galAdd(X, A), Y) \in Byte
      BY <2>9, Added
    <3>3. galAdd(galAdd(b, A), galAdd(galAdd(X, A), Y)) = galAdd(b, galAdd(A, galAdd(galAdd(X, A), Y)))
      BY <2>5, <2>9, <3>2, Added
    <3> QED BY <3>1, <3>3
  <2>11. value(v, k + 1, x) = galAdd(b, galAdd(X, Y))
    BY <2>1, <2>6 DEF X, Y, b
  <2>12. value(v, k + 1, a) = galAdd(b, A)
    BY <2>1 DEF A, b
  <2>13. galMultiply(s, value(r, k, x)) = galAdd(galAdd(X, A), Y)
    BY <2>7, <2>8 DEF X, Y, A
  <2> QED BY <2>10, <2>11, <2>12, <2>13 DEF s
<1>7. ASSUME \A j \in 0..(k - 1) : r[j] = 0, NEW j \in 1..k PROVE v[j] = 0
  <2>1. e = 0 /\ \A c \in 0..(n - 1) : q[c] = 0
    <3>1. 0 \in 0..(k - 1)
      OBVIOUS
    <3>2. ASSUME NEW c \in 0..(n - 1) PROVE q[c] = 0
      <4>1. 1 + c \in 0..(k - 1)
        OBVIOUS
      <4> HIDE DEF r, k
      <4> QED BY <1>4, <1>7, <4>1
    <3> HIDE DEF r, k, e
    <3> QED BY <1>4, <1>7, <3>1, <3>2
  <2>2. \A i \in 1..n : w[i] = 0
    BY <2>1 DEF Quotient
  <2>3. w[0] = 0
    <3> DEFINE t == from(w, 1, n)
    <3>1. t = from(w, 1, n)
      OBVIOUS
    <3>2. \A c \in 0..(n - 1) : t[c] = 0
      <4>1. \A c \in 0..(n - 1) : 1 + c \in 1..n
        OBVIOUS
      <4> QED BY <2>2, <4>1 DEF from
    <3> HIDE DEF t
    <3>3. value(t, n, a) = 0
      BY <3>2, ValueZero
    <3> HIDE DEF k, e
    <3>4. w[0] \in Byte /\ value(w, n + 1, a) = galAdd(w[0], galMultiply(a, value(t, n, a)))
      BY <1>0, <1>1, <3>1, Horner
    <3>5. galMultiply(a, 0) = 0 /\ galAdd(w[0], 0) = w[0]
      BY <3>4, MultipliedZero, Added
    <3> QED BY <1>0, <2>1, <3>3, <3>4, <3>5 DEF e
  <2> DEFINE i == j - 1
  <2>4. i \in 0..(k - 1) /\ 1 + i = j /\ (i = 0 \/ i \in 1..n)
    OBVIOUS
  <2> HIDE DEF i, k, r, e
  <2>5. w[i] = v[1 + i]
    BY <1>0, <2>4 DEF from
  <2>6. w[i] = 0
    BY <2>2, <2>3, <2>4
  <2> QED BY <2>4, <2>5, <2>6
<1> HIDE DEF k, r
<1>8. Quotient(r, v, k, a)
  BY <1>4, <1>6, <1>7 DEF Quotient
<1> QED BY <1>8 DEF r, k, e

Divisible(n) == \A v : \A a \in Byte : Bytes(v, n + 1) => \E q : Quotient(q, v, n, a)

(* Every polynomial can be divided by x + a.                               *)
LEMMA AlwaysDivisible ==
  ASSUME NEW n \in Nat
  PROVE  Divisible(n)
<1> DEFINE P == {k \in 0..n : Divisible(k)}
<1>1. 0 \in P
  <2>1. ASSUME NEW v, NEW a \in Byte, Bytes(v, 0 + 1) PROVE Quotient(v, v, 0, a)
    BY <2>1, QuotientFirst
  <2> QED BY <2>1 DEF Divisible
<1>2. ASSUME NEW k \in P, k < n PROVE k + 1 \in P
  <2>0. k \in Nat /\ k + 1 \in 0..n /\ Divisible(k)
    BY <1>2
  <2>1. ASSUME NEW v, NEW a \in Byte, Bytes(v, k + 1 + 1) PROVE \E r : Quotient(r, v, k + 1, a)
    <3> DEFINE m == k + 1
               w == from(v, 1, m)
    <3>0. m \in Nat /\ k + 2 = m + 1 /\ m = k + 1 /\ w = from(v, 1, m) /\ Bytes(v, m + 1)
      BY <2>0, <2>1
    <3> HIDE DEF w, m
    <3>1. Bytes(w, m)
      BY <3>0, Horner
    <3>2. PICK q : Quotient(q, w, k, a)
      BY <2>0, <3>0, <3>1 DEF Divisible
    <3>3. w = from(v, 1, k + 1) /\ Bytes(v, k + 2)
      BY <3>0
    <3>4. Quotient(behind(value(w, k + 1, a), q, k), v, k + 1, a)
      BY <2>0, <3>2, <3>3, QuotientNext
    <3> QED BY <3>4
  <2>2. Divisible(k + 1)
    BY <2>1 DEF Divisible
  <2> QED BY <2>0, <2>2
<1>3. P = 0..n
  <2>1. P \in SUBSET (0..n)
    OBVIOUS
  <2> HIDE DEF P
  <2> QED BY <1>1, <1>2, <2>1, Prefixes
<1>4. n \in P
  BY <1>3
<1> QED BY <1>4

(* A polynomial with as many roots as coefficients is 0.                   *)
Distinct(p, n) ==
  /\ \A i \in 0..(n - 1) : p[i] \in Byte
  /\ \A i, j \in 0..(n - 1) : p[i] = p[j] => i = j

Rooted(v, n, p) == \A i \in 0..(n - 1) : value(v, n, p[i]) = 0

OnlyZero(n) ==
  \A v, p : Bytes(v, n) /\ Distinct(p, n) /\ Rooted(v, n, p) => \A c \in 0..(n - 1) : v[c] = 0

(* One coefficient more: divide by x + the last root, and the quotient has *)
(* the other roots.                                                        *)
LEMMA OnlyZeroNext ==
  ASSUME NEW n \in Nat, OnlyZero(n)
  PROVE  OnlyZero(n + 1)
<1> DEFINE k == n + 1
<1>0. k = n + 1 /\ k \in Nat
  OBVIOUS
<1>1. ASSUME NEW v, NEW p, Bytes(v, k), Distinct(p, k), Rooted(v, k, p), NEW c \in 0..(k - 1)
      PROVE  v[c] = 0
  <2> DEFINE a == p[n]
             w == from(v, 1, n)
  <2>0. n \in 0..(k - 1) /\ \A i \in 0..(n - 1) : i \in 0..(k - 1) /\ i # n
    OBVIOUS
  <2> HIDE DEF k
  <2>1. a \in Byte /\ value(v, k, a) = 0
    BY <1>1, <2>0 DEF Distinct, Rooted
  <2>2. \A i \in 0..(n - 1) : p[i] \in Byte /\ p[i] # a /\ value(v, k, p[i]) = 0
    BY <1>1, <2>0 DEF Distinct, Rooted
  <2> HIDE DEF a
  <2>3. PICK q : Quotient(q, v, n, a)
    BY <1>0, <1>1, <2>1, AlwaysDivisible DEF Divisible
  <2>4. Bytes(q, n)
    BY <2>3 DEF Quotient
  <2>5. ASSUME NEW i \in 0..(n - 1) PROVE value(q, n, p[i]) = 0
    <3> DEFINE x == p[i]
               y == value(q, n, x)
               s == galAdd(x, a)
    <3>1. x \in Byte /\ x # a /\ value(v, k, x) = 0
      BY <2>2
    <3> HIDE DEF x
    <3>2. value(v, n + 1, x) = galAdd(value(v, n + 1, a), galMultiply(s, y))
      BY <2>3, <3>1 DEF Quotient
    <3>3. y \in Byte /\ s \in Byte
      BY <2>1, <2>4, <3>1, ValueType, Added
    <3>4. s # 0
      BY <2>1, <3>1, ZeroSum
    <3> HIDE DEF y, s
    <3>5. galMultiply(s, y) \in Byte
      BY <3>3, MultipliedType
    <3>6. galAdd(0, galMultiply(s, y)) = galMultiply(s, y)
      BY <3>5, Added
    <3>7. galMultiply(s, y) = 0
      BY <1>0, <2>1, <3>1, <3>2, <3>6
    <3>8. galMultiply(y, s) = 0
      BY <3>3, <3>7, Commuted
    <3>9. y = 0
      BY <3>3, <3>4, <3>8, NoZeroDivisor
    <3> QED BY <3>9 DEF x, y
  <2>6. Distinct(p, n) /\ Rooted(q, n, p)
    <3>1. Distinct(p, n)
      BY <1>1, <2>0 DEF Distinct
    <3> QED BY <2>5, <3>1 DEF Rooted
  <2>7. \A j \in 0..(n - 1) : q[j] = 0
    BY <2>4, <2>6 DEF OnlyZero
  <2>8. \A j \in 1..n : v[j] = 0
    BY <2>3, <2>7 DEF Quotient
  <2>9. v[0] = 0
    <3>1. w = from(v, 1, n) /\ Bytes(v, n + 1)
      BY <1>0, <1>1
    <3>2. \A d \in 0..(n - 1) : w[d] = 0
      <4>1. \A d \in 0..(n - 1) : 1 + d \in 1..n
        OBVIOUS
      <4> QED BY <2>8, <4>1 DEF from
    <3> HIDE DEF w
    <3>3. value(w, n, a) = 0
      BY <2>1, <3>2, ValueZero
    <3>4. v[0] \in Byte /\ value(v, n + 1, a) = galAdd(v[0], galMultiply(a, value(w, n, a)))
      BY <2>1, <3>1, Horner
    <3>5. galMultiply(a, 0) = 0 /\ galAdd(v[0], 0) = v[0]
      BY <2>1, <3>4, MultipliedZero, Added
    <3> QED BY <1>0, <2>1, <3>3, <3>4, <3>5
  <2>10. c = 0 \/ c \in 1..n
    BY <1>0
  <2> QED BY <2>8, <2>9, <2>10
<1> HIDE DEF k
<1>2. OnlyZero(k)
  BY <1>1, Zenon DEF OnlyZero
<1> QED BY <1>2 DEF k

(* So it holds of any number of coefficients.                              *)
LEMMA AlwaysOnlyZero ==
  ASSUME NEW n \in Nat
  PROVE  OnlyZero(n)
<1> DEFINE P == {k \in 0..n : OnlyZero(k)}
<1>1. 0 \in P
  <2>1. \A c \in 0..(0 - 1) : FALSE
    OBVIOUS
  <2> QED BY <2>1 DEF OnlyZero
<1>2. ASSUME NEW k \in P, k < n PROVE k + 1 \in P
  <2>1. k \in Nat /\ k + 1 \in 0..n /\ OnlyZero(k)
    BY <1>2
  <2> QED BY <2>1, OnlyZeroNext
<1>3. P = 0..n
  <2>1. P \in SUBSET (0..n)
    OBVIOUS
  <2> HIDE DEF P
  <2> QED BY <1>1, <1>2, <2>1, Prefixes
<1>4. n \in P
  BY <1>3
<1> QED BY <1>4

-----------------------------------------------------------------------------
(* The Vandermonde matrix, of at most 256 rows.                            *)

(* A row of it is the powers of its number, so times a vector it is a      *)
(* value of the vector's polynomial.                                       *)
LEMMA VandermondeIs ==
  ASSUME NEW t \in Nat, t <= 256, NEW n \in Nat, NEW V, V = vandermonde(t, n)
  PROVE  /\ V \in Work(t, n)
         /\ \A r \in 0..(t - 1) : r \in Byte
         /\ \A r \in 0..(t - 1) : \A v : dot(V, r, v, n) = value(v, n, r)
<1>1. V = [p \in cells(t, n) |-> galExp(p[1], p[2])]
  BY DEF vandermonde
<1>2. \A r \in 0..(t - 1) : r \in Byte
  BY DEF Byte
<1>3. ASSUME NEW r \in 0..(t - 1), NEW c \in 0..(n - 1)
      PROVE  V[<<r, c>>] = galExp(r, c) /\ galExp(r, c) \in Byte
  <2> DEFINE p == <<r, c>>
  <2>1. p \in cells(t, n)
    BY DEF cells
  <2>2. p[1] = r /\ p[2] = c /\ c \in Nat
    OBVIOUS
  <2> HIDE DEF p
  <2>3. V[p] = galExp(r, c)
    BY <1>1, <2>1, <2>2
  <2>4. galExp(r, c) \in Byte
    BY <1>2, <2>2, ExpNext
  <2> QED BY <2>3, <2>4 DEF p
<1>4. V \in Work(t, n)
  <2>1. V = [p \in cells(t, n) |-> V[p]]
    BY <1>1
  <2> QED BY <1>3, <2>1, WorkIs
<1>5. ASSUME NEW r \in 0..(t - 1), NEW v PROVE dot(V, r, v, n) = value(v, n, r)
  <2>1. \A c \in 0..(n - 1) : terms(V, r, v, n)[c] = powersTimes(v, n, r)[c]
    BY <1>3 DEF terms, powersTimes
  <2> QED BY <2>1, TotalSame DEF dot, value
<1> QED BY <1>2, <1>4, <1>5

RowsChosen(p, t, n) ==
  /\ \A i \in 0..(n - 1) : p[i] \in 0..(t - 1)
  /\ \A i, j \in 0..(n - 1) : p[i] = p[j] => i = j

RowsAre(M, V, p, n) == \A i \in 0..(n - 1) : RowIs(M, i, V, p[i], n)

(* Any n rows of it determine a vector of n places.                        *)
LEMMA VandermondeRows ==
  ASSUME NEW t \in Nat, t <= 256, NEW n \in Nat, NEW p, RowsChosen(p, t, n), NEW v, Bytes(v, n),
         \A i \in 0..(n - 1) : dot(vandermonde(t, n), p[i], v, n) = 0
  PROVE  \A c \in 0..(n - 1) : v[c] = 0
<1> DEFINE V == vandermonde(t, n)
<1>0. V = vandermonde(t, n)
  OBVIOUS
<1>1. \A i \in 0..(n - 1) : dot(V, p[i], v, n) = 0 /\ p[i] \in 0..(t - 1)
  BY DEF RowsChosen
<1> HIDE DEF V
<1>2. \A i \in 0..(n - 1) : value(v, n, p[i]) = 0 /\ p[i] \in Byte
  BY <1>0, <1>1, VandermondeIs
<1>3. Distinct(p, n) /\ Rooted(v, n, p)
  BY <1>2 DEF Distinct, Rooted, RowsChosen
<1> QED BY <1>3, AlwaysOnlyZero DEF OnlyZero

(* The square at the top.                                                  *)
LEMMA TopIs ==
  ASSUME NEW t \in Nat, t <= 256, NEW n \in Nat, n <= t, NEW V, V = vandermonde(t, n),
         NEW top, top = SubMatrix(V, 0, 0, n, n)
  PROVE  /\ top \in Work(n, n) /\ Injective(top, n)
         /\ \A i \in 0..(n - 1) : RowIs(top, i, V, i, n)
<1>1. top = [p \in cells(n - 0, n - 0) |-> V[<<p[1] + 0, p[2] + 0>>]]
  BY Zenon DEF SubMatrix
<1>2. top = [p \in cells(n, n) |-> V[<<p[1] + 0, p[2] + 0>>]]
  <2>1. n - 0 = n
    OBVIOUS
  <2> QED BY <1>1, <2>1
<1>0. V \in Work(t, n)
  BY VandermondeIs
<1>3. ASSUME NEW i \in 0..(n - 1), NEW c \in 0..(n - 1)
      PROVE  top[<<i, c>>] = V[<<i, c>>] /\ V[<<i, c>>] \in Byte
  <2> DEFINE p == <<i, c>>
  <2>1. p \in cells(n, n) /\ i \in 0..(t - 1)
    BY DEF cells
  <2>2. p[1] + 0 = i /\ p[2] + 0 = c
    OBVIOUS
  <2> HIDE DEF p
  <2>3. top[p] = V[<<i, c>>]
    BY <1>2, <2>1, <2>2
  <2>4. V[<<i, c>>] \in Byte
    BY <1>0, <2>1, CellIn
  <2> QED BY <2>3, <2>4 DEF p
<1>4. top \in Work(n, n)
  <2>1. top = [p \in cells(n, n) |-> top[p]]
    BY <1>2
  <2>2. \A i \in 0..(n - 1) : \A c \in 0..(n - 1) : top[<<i, c>>] \in Byte
    BY <1>3
  <2> QED BY <2>1, <2>2, WorkIs
<1>5. \A i \in 0..(n - 1) : RowIs(top, i, V, i, n)
  BY <1>3 DEF RowIs
<1>6. ASSUME NEW v, Bytes(v, n), \A i \in 0..(n - 1) : dot(top, i, v, n) = 0
      PROVE  \A c \in 0..(n - 1) : v[c] = 0
  <2> DEFINE p == [i \in 0..(n - 1) |-> i]
  <2>1. RowsChosen(p, t, n)
    BY DEF RowsChosen
  <2>2. ASSUME NEW i \in 0..(n - 1) PROVE dot(V, p[i], v, n) = 0
    <3>1. dot(top, i, v, n) = dot(V, i, v, n)
      BY <1>5, RowIsDot
    <3> QED BY <1>6, <3>1
  <2> HIDE DEF p
  <2> QED BY <1>6, <2>1, <2>2, VandermondeRows
<1> QED BY <1>4, <1>5, <1>6 DEF Injective

-----------------------------------------------------------------------------
(* The matrix that buildMatrix makes of it.                                *)
Determining(m, t, n) ==
  /\ m \in [cells(t, n) -> Byte]
  /\ \A r, c \in 0..(n - 1) : m[<<r, c>>] = IF r = c THEN 1 ELSE 0
  /\ \A p : RowsChosen(p, t, n) =>
       \A x : Bytes(x, n) /\ (\A i \in 0..(n - 1) : dot(m, p[i], x, n) = 0)
                => \A c \in 0..(n - 1) : x[c] = 0

(* Any n rows of what buildMatrix returns determine a vector: it is the    *)
(* Vandermonde matrix times an invertible one, and its top is the          *)
(* identity.                                                               *)
LEMMA BuiltRows ==
  ASSUME NEW t \in Nat, t <= 256, NEW n \in Nat \ {0}, n <= t, NEW m, m = buildMatrix(n, t)
  PROVE  Determining(m, t, n)
<1> DEFINE V == vandermonde(t, n)
           top == SubMatrix(V, 0, 0, n, n)
           T == Invert(top, n)
<1>0. n \in Nat /\ V = vandermonde(t, n) /\ top = SubMatrix(V, 0, 0, n, n) /\ T = Invert(top, n)
  OBVIOUS
<1>1. m = Multiply(V, T, t, n, n)
  BY Zenon DEF buildMatrix, timesInverseOfTop
<1> HIDE DEF V, top, T
<1>2. V \in Work(t, n)
  BY <1>0, VandermondeIs
<1>3. top \in Work(n, n) /\ Injective(top, n) /\ \A i \in 0..(n - 1) : RowIs(top, i, V, i, n)
  BY <1>0, TopIs
<1>4. T \in Work(n, n) /\ Inverts(T, top, n) /\ Multiply(top, T, n, n, n) = identityMatrix(n)
  BY <1>0, <1>3, InvertSolves, InvertUndoes
<1>5. RowsBytes(V, t, n) /\ RowsBytes(T, n, n) /\ SquareBytes(T, n) /\ RowsBytes(top, n, n)
  BY <1>2, <1>3, <1>4, WorkBytes DEF RowsBytes, SquareBytes
<1>6. m \in [cells(t, n) -> Byte]
  BY <1>0, <1>1, <1>5, ProductBytes
<1>7. ASSUME NEW r \in 0..(n - 1), NEW c \in 0..(n - 1)
      PROVE  m[<<r, c>>] = IF r = c THEN 1 ELSE 0
  <2> DEFINE e == Multiply(top, T, n, n, n)
  <2>1. r \in 0..(t - 1) /\ e = Multiply(top, T, n, n, n)
    OBVIOUS
  <2> HIDE DEF e
  <2>2. m[<<r, c>>] = total(factors(V, T, r, c, n), n)
    BY <1>0, <1>1, <2>1, EntryOf
  <2>3. e[<<r, c>>] = total(factors(top, T, r, c, n), n)
    BY <1>0, <2>1, EntryOf
  <2>4. \A i \in 0..(n - 1) : factors(V, T, r, c, n)[i] = factors(top, T, r, c, n)[i]
    BY <1>3 DEF factors, RowIs
  <2>5. e[<<r, c>>] = IF r = c THEN 1 ELSE 0
    BY <1>0, <1>4, <2>1, IdentityIs
  <2> QED BY <2>2, <2>3, <2>4, <2>5, TotalSame
<1>8. ASSUME NEW p, RowsChosen(p, t, n), NEW x, Bytes(x, n),
             \A i \in 0..(n - 1) : dot(m, p[i], x, n) = 0
      PROVE  \A c \in 0..(n - 1) : x[c] = 0
  <2> DEFINE y == products(T, x, n)
             z == [i \in 0..(n - 1) |-> 0]
  <2>1. Bytes(y, n) /\ ProductsOf(y, T, x, n)
    BY <1>0, <1>5, <1>8, Products
  <2> HIDE DEF y
  <2>2. ASSUME NEW i \in 0..(n - 1) PROVE dot(V, p[i], y, n) = 0
    <3>1. p[i] \in 0..(t - 1)
      BY <1>8 DEF RowsChosen
    <3>2. dot(Multiply(V, T, t, n, n), p[i], x, n) = dot(V, p[i], y, n)
      BY <1>0, <1>5, <1>8, <2>1, <3>1, DotComposed
    <3> QED BY <1>1, <1>8, <3>2
  <2>3. \A i \in 0..(n - 1) : y[i] = 0
    BY <1>0, <1>8, <2>1, <2>2, VandermondeRows
  <2>4. Bytes(z, n) /\ \A i \in 0..(n - 1) : z[i] = 0
    BY NoBits DEF Bytes
  <2> HIDE DEF z
  <2>5. \A i \in 0..(n - 1) : z[i] = dot(T, i, x, n)
    BY <2>1, <2>3, <2>4 DEF ProductsOf
  <2>6. \A i \in 0..(n - 1) : dot(top, i, z, n) = x[i]
    BY <1>4, <1>8, <2>4, <2>5 DEF Inverts
  <2>7. ASSUME NEW i \in 0..(n - 1) PROVE dot(top, i, z, n) = 0
    <3>1. RowBytes(top, i, n)
      BY <1>5 DEF RowsBytes
    <3> QED BY <1>0, <2>4, <3>1, ZeroDot
  <2> QED BY <2>6, <2>7
<1> QED BY <1>6, <1>7, <1>8 DEF Determining

-----------------------------------------------------------------------------
(* More polynomials.                                                       *)

(* The value of a sum of polynomials.                                      *)
LEMMA ValueAdded ==
  ASSUME NEW n \in Nat, NEW x, Bytes(x, n), NEW y, Bytes(y, n), NEW s, AddedUp(s, x, y, n),
         NEW z \in Byte
  PROVE  /\ Bytes(s, n)
         /\ value(s, n, z) = galAdd(value(x, n, z), value(y, n, z))
<1> DEFINE f == powersTimes(s, n, z)
           a == powersTimes(x, n, z)
           b == powersTimes(y, n, z)
<1>1. ASSUME NEW c \in 0..(n - 1) PROVE s[c] \in Byte /\ f[c] = galAdd(a[c], b[c])
  <2> DEFINE e == galExp(z, c)
             i == x[c]
             j == y[c]
  <2>1. s[c] = galAdd(i, j) /\ i \in Byte /\ j \in Byte
    BY DEF AddedUp, Bytes
  <2>2. e \in Byte
    BY ExpNext
  <2>3. f[c] = galMultiply(e, s[c]) /\ a[c] = galMultiply(e, i) /\ b[c] = galMultiply(e, j)
    BY DEF powersTimes
  <2> HIDE DEF e, f, a, b, i, j
  <2> QED BY <2>1, <2>2, <2>3, Added, LeftDistributes
<1>2. Bytes(a, n) /\ Bytes(b, n)
  BY ValueType
<1> HIDE DEF f, a, b
<1>3. AddedUp(f, a, b, n) /\ Bytes(s, n)
  BY <1>1 DEF AddedUp, Bytes
<1>4. total(f, n) = galAdd(total(a, n), total(b, n))
  BY <1>2, <1>3, TotalAdded
<1> QED BY <1>3, <1>4 DEF value, f, a, b

(* The value of a multiple.                                                *)
LEMMA ValueScaled ==
  ASSUME NEW n \in Nat, NEW e \in Byte, NEW v, Bytes(v, n), NEW d, ScaledLeft(d, e, v, n),
         NEW z \in Byte
  PROVE  /\ Bytes(d, n)
         /\ value(d, n, z) = galMultiply(e, value(v, n, z))
<1> DEFINE f == powersTimes(d, n, z)
           a == powersTimes(v, n, z)
<1>1. ASSUME NEW c \in 0..(n - 1) PROVE d[c] \in Byte /\ f[c] = galMultiply(e, a[c])
  <2> DEFINE i == galExp(z, c)
             j == v[c]
  <2>1. d[c] = galMultiply(e, j) /\ j \in Byte
    BY DEF ScaledLeft, Bytes
  <2>2. i \in Byte
    BY ExpNext
  <2>3. f[c] = galMultiply(i, d[c]) /\ a[c] = galMultiply(i, j)
    BY DEF powersTimes
  <2> HIDE DEF f, a, i, j
  <2>4. galMultiply(i, galMultiply(e, j)) = galMultiply(galMultiply(i, e), j)
    BY <2>1, <2>2, Associates
  <2>5. galMultiply(e, galMultiply(i, j)) = galMultiply(galMultiply(e, i), j)
    BY <2>1, <2>2, Associates
  <2>6. galMultiply(i, e) = galMultiply(e, i)
    BY <2>2, Commuted
  <2> QED BY <2>1, <2>3, <2>4, <2>5, <2>6, MultipliedType
<1>2. Bytes(a, n)
  BY ValueType
<1> HIDE DEF f, a
<1>3. ScaledLeft(f, e, a, n) /\ Bytes(d, n)
  BY <1>1 DEF ScaledLeft, Bytes
<1>4. total(f, n) = galMultiply(e, total(a, n))
  BY <1>2, <1>3, TotalLeft
<1> QED BY <1>3, <1>4 DEF value, f, a

(* A 0 behind the coefficients changes nothing.                            *)
Lengthened(w, v, n) == w[n] = 0 /\ \A c \in 0..(n - 1) : w[c] = v[c]

(* Its value stays.                                                        *)
LEMMA ValueLengthened ==
  ASSUME NEW n \in Nat, NEW v, Bytes(v, n), NEW w, Lengthened(w, v, n), NEW z \in Byte
  PROVE  Bytes(w, n + 1) /\ value(w, n + 1, z) = value(v, n, z)
<1> DEFINE k == n + 1
           f == powersTimes(w, k, z)
<1>0. k \in Nat /\ k = n + 1 /\ n \in 0..(k - 1) /\ \A c \in 0..(k - 1) : c = n \/ c \in 0..(n - 1)
  OBVIOUS
<1>1. Bytes(w, k)
  <2> HIDE DEF k
  <2> QED BY <1>0, NoBits DEF Lengthened, Bytes
<1>2. Bytes(f, k)
  <2> HIDE DEF k
  <2> QED BY <1>0, <1>1, ValueType
<1>3. f[n] = 0
  <2> HIDE DEF k
  <2>1. f[n] = galMultiply(galExp(z, n), 0)
    BY <1>0 DEF powersTimes, Lengthened
  <2> QED BY <2>1, ExpNext, MultipliedZero
<1>4. \A c \in 0..(n - 1) : f[c] = powersTimes(v, n, z)[c]
  BY DEF powersTimes, Lengthened
<1> HIDE DEF f
<1>5. total(f, n + 1) = galAdd(f[n], total(f, n))
  BY <1>2, TotalNext
<1>6. total(f, n) = value(v, n, z)
  BY <1>4, TotalSame DEF value
<1>7. galAdd(0, value(v, n, z)) = value(v, n, z)
  BY ValueType, Added
<1> QED BY <1>1, <1>3, <1>5, <1>6, <1>7 DEF value, f

(* A polynomial times x + a.                                               *)
Times(w, v, n, a) ==
  Bytes(w, n + 1) /\ \A z \in Byte : value(w, n + 1, z) = galMultiply(value(v, n, z), galAdd(z, a))

(* There is one.                                                           *)
LEMMA TimesExists ==
  ASSUME NEW n \in Nat, NEW v, Bytes(v, n), NEW a \in Byte
  PROVE  \E w : Times(w, v, n, a)
<1> DEFINE k == n + 1
           s == behind(0, v, n)
           d == [c \in 0..(n - 1) |-> galMultiply(a, v[c])]
           e == [c \in 0..n |-> IF c = n THEN 0 ELSE d[c]]
           w == [c \in 0..n |-> galAdd(s[c], e[c])]
<1>0. 0 \in Byte /\ k \in Nat /\ k = n + 1 /\ k - 1 = n /\ s = behind(0, v, n)
  BY NoBits
<1>1. ScaledLeft(d, a, v, n)
  BY DEF ScaledLeft
<1>2. Lengthened(e, d, n)
  <2> HIDE DEF d
  <2> QED BY DEF Lengthened
<1>3. AddedUp(w, s, e, k)
  <2> HIDE DEF s, e
  <2> QED BY <1>0 DEF AddedUp
<1> HIDE DEF d, e, s, w, k
<1>4. ASSUME NEW z \in Byte
      PROVE  /\ Bytes(w, k)
             /\ value(w, k, z) = galMultiply(value(v, n, z), galAdd(z, a))
  <2>1. Bytes(d, n) /\ value(d, n, z) = galMultiply(a, value(v, n, z))
    BY <1>1, ValueScaled
  <2>2. Bytes(e, k) /\ value(e, k, z) = value(d, n, z)
    BY <1>0, <1>2, <2>1, ValueLengthened
  <2>3. Bytes(s, k) /\ value(s, k, z) = galAdd(0, galMultiply(z, value(v, n, z)))
    BY <1>0, BehindValue
  <2>4. Bytes(w, k) /\ value(w, k, z) = galAdd(value(s, k, z), value(e, k, z))
    BY <1>0, <1>3, <2>2, <2>3, ValueAdded
  <2> DEFINE y == value(v, n, z)
  <2>5. y \in Byte
    BY ValueType
  <2> HIDE DEF y
  <2>6. galMultiply(y, galAdd(z, a)) = galAdd(galMultiply(y, z), galMultiply(y, a))
    BY <2>5, LeftDistributes
  <2>7. galMultiply(y, z) = galMultiply(z, y) /\ galMultiply(y, a) = galMultiply(a, y)
    BY <2>5, Commuted
  <2>8. galAdd(0, galMultiply(z, y)) = galMultiply(z, y)
    BY <2>5, MultipliedType, Added
  <2> QED BY <2>1, <2>2, <2>3, <2>4, <2>6, <2>7, <2>8 DEF y
<1>5. Bytes(w, k)
  BY <1>0, <1>4
<1>6. Times(w, v, n, a)
  BY <1>0, <1>4, <1>5 DEF Times
<1> QED BY <1>6

-----------------------------------------------------------------------------
(* The Cauchy matrix.                                                      *)
LEMMA InverseTabled ==
  ASSUME NEW b \in Byte, b # 0
  PROVE  invTable[b] \in Byte /\ galMultiply(invTable[b], b) = 1
<1> DEFINE j == logTable[b]
           n == 255 - j
<1>1. j \in 0..254
  BY LogPower
<1>2. n \in 0..(2 * fieldSize - 3) /\ n % (fieldSize - 1) = (0 - j + 255) % 255
  <2> HIDE DEF j
  <2> QED BY <1>1 DEF fieldSize
<1>3. logTable[1] = 0
  <2>1. 0 \in 0..254
    OBVIOUS
  <2> QED BY <2>1, PowerLog, PowerOne
<1>4. invTable[b] = expTable[n]
  BY DEF invTable
<1>5. (0 - j + 255) % 255 \in 0..254
  <2> HIDE DEF j
  <2> QED BY <1>1
<1>6. galDivide(1, b) = expTable[(0 - j + 255) % 255]
  <2>1. galDivide(1, b) = expTable[(logTable[1] - j + 255) % 255]
    BY DEF galDivide
  <2> QED BY <1>3, <2>1
<1> DEFINE i == (0 - j + 255) % 255
<1>7. expTable[n] = powerOf[n % (fieldSize - 1)]
  <2> HIDE DEF n
  <2> QED BY <1>2 DEF expTable
<1> HIDE DEF n
<1>8. expTable[n] = powerOf[i]
  BY <1>2, <1>7
<1> HIDE DEF i
<1>9. i \in 0..254 /\ galDivide(1, b) = expTable[i]
  BY <1>5, <1>6 DEF i
<1>10. expTable[i] = powerOf[i]
  BY <1>9, ExpPower
<1> QED BY <1>4, <1>8, <1>9, <1>10, InverseByte

(* A Cauchy row z times x, multiplied by the product of z + c over all     *)
(* columns c, is a polynomial in z.  It vanishes at a column when x does.  *)
cauchyTerms(x, z, n) == [c \in 0..(n - 1) |-> galMultiply(invTable[galAdd(z, c)], x[c])]

Interpolates(v, g, x, n) ==
  /\ Bytes(v, n) /\ Bytes(g, n + 1)
  /\ \A z \in Byte : value(g, n + 1, z) = 0 <=> z \in 0..(n - 1)
  /\ \A z \in Byte : z \notin 0..(n - 1) =>
       value(v, n, z) = galMultiply(value(g, n + 1, z), total(cauchyTerms(x, z, n), n))
  /\ \A c \in 0..(n - 1) : value(v, n, c) = 0 <=> x[c] = 0

(* Without columns the polynomials are 0 and 1.                            *)
LEMMA InterpolatesFirst ==
  ASSUME NEW x
  PROVE  \E v, g : Interpolates(v, g, x, 0)
<1> DEFINE g == [c \in 0..0 |-> 1]
<1>1. 1 \in Byte
  BY DEF Byte
<1>2. Bytes(g, 1) /\ Bytes(g, 0) /\ g[0] = 1
  BY <1>1 DEF Bytes
<1> HIDE DEF g
<1>3. ASSUME NEW z \in Byte
      PROVE  value(g, 0 + 1, z) = 1 /\ value(g, 0, z) = 0 /\ total(cauchyTerms(x, z, 0), 0) = 0
  BY <1>2, ValueFirst, TotalZero DEF value
<1>4. \A z \in Byte : value(g, 0, z) = galMultiply(value(g, 0 + 1, z), total(cauchyTerms(x, z, 0), 0))
  BY <1>1, <1>3, MultipliedZero
<1>5. Interpolates(g, g, x, 0)
  BY <1>2, <1>3, <1>4 DEF Interpolates
<1> QED BY <1>5

(* The terms of a row are bytes: no row number is that of a column.        *)
LEMMA CauchyTermBytes ==
  ASSUME NEW n \in Nat, n <= 256, NEW x, Bytes(x, n), NEW z \in Byte, z \notin 0..(n - 1)
  PROVE  Bytes(cauchyTerms(x, z, n), n)
<1>1. ASSUME NEW c \in 0..(n - 1) PROVE galMultiply(invTable[galAdd(z, c)], x[c]) \in Byte
  <2>1. c \in Byte /\ x[c] \in Byte /\ z # c
    BY DEF Byte, Bytes
  <2>2. galAdd(z, c) \in Byte /\ galAdd(z, c) # 0
    BY <2>1, Added, ZeroSum
  <2> QED BY <2>1, <2>2, InverseTabled, MultipliedType
<1> QED BY <1>1 DEF Bytes, cauchyTerms

(* One more column.                                                        *)
LEMMA InterpolatesNext ==
  ASSUME NEW n \in Nat, n < 256, NEW x, Bytes(x, n + 1), NEW v, NEW g, Interpolates(v, g, x, n)
  PROVE  \E w, h : Interpolates(w, h, x, n + 1)
<1> DEFINE k == n + 1
           u == x[n]
<1>0. k \in Nat /\ k = n + 1 /\ n \in 0..(k - 1) /\ k <= 256 /\ n <= 256
  OBVIOUS
<1>1. n \in Byte /\ \A c \in 0..(k - 1) : c \in Byte
  BY DEF Byte
<1>2. u \in Byte /\ Bytes(x, n)
  BY DEF Bytes
<1>3. \A c \in 0..(k - 1) : c = n \/ (c \in 0..(n - 1) /\ c # n)
  OBVIOUS
<1>4. \A c \in 0..(n - 1) : c \in 0..(k - 1)
  OBVIOUS
<1> HIDE DEF k, u
<1>5. Bytes(v, n) /\ Bytes(g, k)
  BY <1>0 DEF Interpolates
<1>6. PICK a : Times(a, v, n, n)
  BY <1>1, <1>5, TimesExists
<1>7. PICK h : Times(h, g, k, n)
  BY <1>0, <1>1, <1>5, TimesExists
<1> DEFINE d == [c \in 0..(k - 1) |-> galMultiply(u, g[c])]
           w == [c \in 0..(k - 1) |-> galAdd(a[c], d[c])]
<1>8. ScaledLeft(d, u, g, k)
  BY DEF ScaledLeft
<1>9. AddedUp(w, a, d, k)
  <2> HIDE DEF d
  <2> QED BY DEF AddedUp
<1> HIDE DEF d, w
<1>10. ASSUME NEW z \in Byte
       PROVE  /\ Bytes(w, k) /\ Bytes(h, k + 1)
              /\ value(g, k, z) \in Byte /\ value(v, n, z) \in Byte /\ galAdd(z, n) \in Byte
              /\ value(w, k, z) = galAdd(galMultiply(value(v, n, z), galAdd(z, n)), galMultiply(u, value(g, k, z)))
              /\ value(h, k + 1, z) = galMultiply(value(g, k, z), galAdd(z, n))
  <2>1. Bytes(a, k) /\ value(a, k, z) = galMultiply(value(v, n, z), galAdd(z, n))
    BY <1>0, <1>6 DEF Times
  <2>2. Bytes(d, k) /\ value(d, k, z) = galMultiply(u, value(g, k, z))
    BY <1>0, <1>2, <1>5, <1>8, ValueScaled
  <2>3. Bytes(w, k) /\ value(w, k, z) = galAdd(value(a, k, z), value(d, k, z))
    BY <1>0, <1>9, <2>1, <2>2, ValueAdded
  <2>4. Bytes(h, k + 1) /\ value(h, k + 1, z) = galMultiply(value(g, k, z), galAdd(z, n))
    BY <1>7 DEF Times
  <2>5. value(g, k, z) \in Byte /\ value(v, n, z) \in Byte /\ galAdd(z, n) \in Byte
    BY <1>0, <1>1, <1>5, ValueType, Added
  <2> QED BY <2>1, <2>2, <2>3, <2>4, <2>5
<1>11. ASSUME NEW z \in Byte PROVE value(g, k, z) = 0 <=> z \in 0..(n - 1)
  BY <1>0, <1>11 DEF Interpolates
<1>12. ASSUME NEW z \in Byte PROVE value(h, k + 1, z) = 0 <=> z \in 0..(k - 1)
  <2> DEFINE G == value(g, k, z)
             s == galAdd(z, n)
  <2>1. G \in Byte /\ s \in Byte /\ value(h, k + 1, z) = galMultiply(G, s)
    BY <1>10
  <2>2. G = 0 <=> z \in 0..(n - 1)
    BY <1>11
  <2>3. s = 0 <=> z = n
    BY <1>1, ZeroSum
  <2> HIDE DEF G, s
  <2>4. galMultiply(G, s) = 0 <=> G = 0 \/ s = 0
    BY <2>1, NoZeroDivisor, MultipliedZero
  <2>5. z \in 0..(k - 1) <=> z \in 0..(n - 1) \/ z = n
    BY <1>0, <1>3, <1>4
  <2> QED BY <2>1, <2>2, <2>3, <2>4, <2>5
<1>13. ASSUME NEW z \in Byte, z \notin 0..(k - 1)
       PROVE  value(w, k, z) = galMultiply(value(h, k + 1, z), total(cauchyTerms(x, z, k), k))
  <2> DEFINE G == value(g, k, z)
             V == value(v, n, z)
             s == galAdd(z, n)
             f == cauchyTerms(x, z, k)
             D == total(f, n)
             i == invTable[s]
             e == galMultiply(i, u)
  <2>1. G \in Byte /\ V \in Byte /\ s \in Byte /\ value(h, k + 1, z) = galMultiply(G, s)
        /\ value(w, k, z) = galAdd(galMultiply(V, s), galMultiply(u, G))
    BY <1>10
  <2>2. z \notin 0..(n - 1) /\ z # n
    BY <1>0, <1>4, <1>13
  <2>3. s # 0
    BY <1>1, <2>2, ZeroSum
  <2>4. i \in Byte /\ galMultiply(i, s) = 1
    <3> HIDE DEF s
    <3> QED BY <2>1, <2>3, InverseTabled
  <2>5. Bytes(f, k)
    BY <1>0, <1>13, CauchyTermBytes DEF u
  <2>6. f[n] = e
    BY <1>0 DEF cauchyTerms, u
  <2>7. total(f, k) = galAdd(e, D) /\ D \in Byte
    <3> HIDE DEF f, e
    <3>1. Bytes(f, n + 1) /\ Bytes(f, n)
      BY <1>0, <1>4, <2>5 DEF Bytes
    <3> QED BY <1>0, <2>6, <3>1, TotalNext, TotalType
  <2>8. V = galMultiply(G, D)
    <3>1. value(v, n, z) = galMultiply(value(g, n + 1, z), total(cauchyTerms(x, z, n), n))
      BY <2>2 DEF Interpolates
    <3>2. \A c \in 0..(n - 1) : cauchyTerms(x, z, n)[c] = f[c]
      BY <1>4 DEF cauchyTerms
    <3>3. total(cauchyTerms(x, z, n), n) = D
      <4> HIDE DEF f
      <4> QED BY <3>2, TotalSame
    <3> QED BY <1>0, <3>1, <3>3
  <2> HIDE DEF G, V, s, f, D, i
  <2>9. e \in Byte
    BY <1>2, <2>4, MultipliedType
  <2>10. galMultiply(s, e) = u
    <3>1. galMultiply(s, galMultiply(i, u)) = galMultiply(galMultiply(s, i), u)
      BY <1>2, <2>1, <2>4, Associates
    <3>2. galMultiply(s, i) = 1
      BY <2>1, <2>4, Commuted
    <3> QED BY <1>2, <3>1, <3>2, MultipliedZero
  <2> HIDE DEF e
  <2>11. galMultiply(galMultiply(G, s), galAdd(e, D))
           = galAdd(galMultiply(galMultiply(G, s), e), galMultiply(galMultiply(G, s), D))
    BY <2>1, <2>7, <2>9, MultipliedType, LeftDistributes
  <2>12. galMultiply(galMultiply(G, s), e) = galMultiply(u, G)
    <3>1. galMultiply(galMultiply(G, s), e) = galMultiply(G, galMultiply(s, e))
      BY <2>1, <2>9, Associates
    <3> QED BY <1>2, <2>1, <2>10, <3>1, Commuted
  <2>13. galMultiply(galMultiply(G, s), D) = galMultiply(V, s)
    <3>1. galMultiply(galMultiply(G, s), D) = galMultiply(G, galMultiply(s, D))
      BY <2>1, <2>7, Associates
    <3>2. galMultiply(s, D) = galMultiply(D, s)
      BY <2>1, <2>7, Commuted
    <3>3. galMultiply(G, galMultiply(D, s)) = galMultiply(galMultiply(G, D), s)
      BY <2>1, <2>7, Associates
    <3> QED BY <2>8, <3>1, <3>2, <3>3
  <2>14. galAdd(galMultiply(u, G), galMultiply(V, s)) = galAdd(galMultiply(V, s), galMultiply(u, G))
    <3>1. galMultiply(u, G) \in Byte /\ galMultiply(V, s) \in Byte
      BY <1>2, <2>1, MultipliedType
    <3> QED BY <3>1, Added
  <2> QED BY <2>1, <2>7, <2>11, <2>12, <2>13, <2>14 DEF f
<1>14. ASSUME NEW c \in 0..(k - 1) PROVE value(w, k, c) = 0 <=> x[c] = 0
  <2> DEFINE G == value(g, k, c)
             V == value(v, n, c)
             s == galAdd(c, n)
  <2>0. c \in Byte
    BY <1>1
  <2>1. G \in Byte /\ V \in Byte /\ s \in Byte
        /\ value(w, k, c) = galAdd(galMultiply(V, s), galMultiply(u, G))
    BY <1>10, <2>0
  <2>2. s = 0 <=> c = n
    BY <1>1, <2>0, ZeroSum
  <2>3. G = 0 <=> c \in 0..(n - 1)
    BY <1>11, <2>0
  <2>4. c \in 0..(n - 1) => (V = 0 <=> x[c] = 0)
    BY DEF Interpolates
  <2>5. n \notin 0..(n - 1)
    OBVIOUS
  <2> HIDE DEF G, V, s
  <2>6. CASE c = n
    <3>1. galMultiply(V, s) = 0 /\ galMultiply(u, G) \in Byte
      BY <1>2, <2>1, <2>2, <2>6, MultipliedZero, MultipliedType
    <3>2. value(w, k, c) = galMultiply(u, G)
      BY <2>1, <3>1, Added
    <3>3. G # 0
      BY <2>3, <2>5, <2>6
    <3>4. galMultiply(u, G) = 0 <=> u = 0
      BY <1>2, <2>1, <3>3, NoZeroDivisor, MultipliedZero
    <3> QED BY <2>6, <3>2, <3>4 DEF u
  <2>7. CASE c # n
    <3>1. c \in 0..(n - 1)
      BY <1>3, <2>7
    <3>2. galMultiply(u, G) = 0 /\ galMultiply(V, s) \in Byte
      BY <1>2, <2>1, <2>3, <3>1, MultipliedZero, MultipliedType
    <3>3. value(w, k, c) = galMultiply(V, s)
      BY <2>1, <3>2, Added
    <3>4. galMultiply(V, s) = 0 <=> V = 0
      BY <2>1, <2>2, <2>7, NoZeroDivisor, MultipliedZero
    <3> QED BY <2>4, <3>1, <3>3, <3>4
  <2> QED BY <2>6, <2>7
<1>15. Bytes(w, k) /\ Bytes(h, k + 1)
  <2>1. 0 \in Byte
    BY NoBits
  <2> QED BY <1>10, <2>1
<1>16. Interpolates(w, h, x, k)
  BY <1>12, <1>13, <1>14, <1>15 DEF Interpolates
<1> QED BY <1>16 DEF k

Interpolated(n) == \A x : Bytes(x, n) => \E v, g : Interpolates(v, g, x, n)

(* So there are such polynomials for any number of columns.                *)
LEMMA AlwaysInterpolated ==
  ASSUME NEW n \in Nat, n <= 256
  PROVE  Interpolated(n)
<1> DEFINE P == {k \in 0..n : Interpolated(k)}
<1>1. 0 \in P
  BY InterpolatesFirst DEF Interpolated
<1>2. ASSUME NEW k \in P, k < n PROVE k + 1 \in P
  <2>0. k \in Nat /\ k + 1 \in 0..n /\ k < 256 /\ Interpolated(k)
    BY <1>2
  <2>1. ASSUME NEW x, Bytes(x, k + 1) PROVE \E w, h : Interpolates(w, h, x, k + 1)
    <3>1. Bytes(x, k)
      BY <2>0, <2>1 DEF Bytes
    <3>2. PICK v, g : Interpolates(v, g, x, k)
      BY <2>0, <3>1 DEF Interpolated
    <3> QED BY <2>0, <2>1, <3>2, InterpolatesNext
  <2>2. Interpolated(k + 1)
    BY <2>1 DEF Interpolated
  <2> QED BY <2>0, <2>2
<1>3. P = 0..n
  <2>1. P \in SUBSET (0..n)
    OBVIOUS
  <2> HIDE DEF P
  <2> QED BY <1>1, <1>2, <2>1, Prefixes
<1>4. n \in P
  BY <1>3
<1> QED BY <1>4

(* A matrix with the identity above other rows.                            *)
Capped(m, e, t, n) ==
  m = [p \in cells(t, n) |-> IF p[1] >= n THEN e[p] ELSE IF p[1] = p[2] THEN 1 ELSE 0]

CapBytes(e, t, n) == \A r \in n..(t - 1) : RowBytes(e, r, n)

(* Its first rows are the identity, and the others as they are given.      *)
LEMMA CappedIs ==
  ASSUME NEW t \in Nat, NEW n \in Nat, n <= t, NEW m, NEW e, Capped(m, e, t, n), CapBytes(e, t, n)
  PROVE  /\ m \in [cells(t, n) -> Byte] /\ OnesAt(m, n)
         /\ \A r \in n..(t - 1) : RowIs(m, r, e, r, n)
<1>0. 0 \in Byte /\ 1 \in Byte
  BY DEF Byte
<1>1. ASSUME NEW r \in 0..(t - 1), NEW c \in 0..(n - 1)
      PROVE  /\ m[<<r, c>>] = IF r >= n THEN e[<<r, c>>] ELSE IF r = c THEN 1 ELSE 0
             /\ m[<<r, c>>] \in Byte
  <2> DEFINE p == <<r, c>>
  <2>1. p \in cells(t, n)
    BY DEF cells
  <2>2. p[1] = r /\ p[2] = c
    OBVIOUS
  <2> HIDE DEF p
  <2>3. m[p] = IF r >= n THEN e[p] ELSE IF r = c THEN 1 ELSE 0
    BY <2>1, <2>2 DEF Capped
  <2>4. r >= n => r \in n..(t - 1)
    OBVIOUS
  <2>5. r >= n => e[p] \in Byte
    BY <2>4 DEF p, CapBytes, RowBytes
  <2>6. m[p] \in Byte
    BY <1>0, <2>3, <2>5
  <2> QED BY <2>3, <2>6 DEF p
<1>2. m \in Work(t, n)
  <2>1. m = [p \in cells(t, n) |-> m[p]]
    BY DEF Capped
  <2>2. \A r \in 0..(t - 1) : \A c \in 0..(n - 1) : m[<<r, c>>] \in Byte
    BY <1>1
  <2> QED BY <2>1, <2>2, WorkIs
<1>3. OnesAt(m, n)
  <2>1. \A r \in 0..(n - 1) : r \in 0..(t - 1) /\ ~(r >= n)
    OBVIOUS
  <2> QED BY <1>1, <2>1 DEF OnesAt
<1>4. \A r \in n..(t - 1) : RowIs(m, r, e, r, n)
  <2>1. \A r \in n..(t - 1) : r \in 0..(t - 1) /\ r >= n
    OBVIOUS
  <2> QED BY <1>1, <2>1 DEF RowIs
<1> QED BY <1>2, <1>3, <1>4 DEF Work

(* Any n rows of a Cauchy matrix below the identity determine a vector:    *)
(* the places of the rows of the identity are 0, and the polynomial of the *)
(* others has a root at every one of its n numbers.                        *)
LEMMA CauchyRows ==
  ASSUME NEW t \in Nat, t <= 256, NEW n \in Nat \ {0}, n <= t, NEW m, m = buildMatrixCauchy(n, t)
  PROVE  Determining(m, t, n)
<1> DEFINE e == [p \in cells(t, n) |-> invTable[galAdd(p[1], p[2])]]
<1>0. n \in Nat /\ n <= 256 /\ \A r \in 0..(t - 1) : r \in Byte
  BY DEF Byte
<1>1. m = [p \in cells(t, n) |-> IF p[1] >= n THEN invTable[galAdd(p[1], p[2])]
                                 ELSE IF p[1] = p[2] THEN 1 ELSE 0]
  BY Zenon DEF buildMatrixCauchy, withIdentity
<1>2. Capped(m, e, t, n)
  BY <1>1 DEF Capped
<1>3. ASSUME NEW r \in 0..(t - 1), NEW c \in 0..(n - 1)
      PROVE  e[<<r, c>>] = invTable[galAdd(r, c)]
  BY DEF cells
<1> HIDE DEF e
<1>4. ASSUME NEW r \in n..(t - 1), NEW c \in 0..(n - 1) PROVE e[<<r, c>>] \in Byte
  <2>1. r \in 0..(t - 1) /\ c \in 0..(t - 1) /\ r # c
    OBVIOUS
  <2>2. galAdd(r, c) \in Byte /\ galAdd(r, c) # 0
    BY <1>0, <2>1, Added, ZeroSum
  <2> QED BY <1>3, <2>1, <2>2, InverseTabled
<1>5. CapBytes(e, t, n)
  BY <1>4 DEF CapBytes, RowBytes
<1>6. /\ m \in [cells(t, n) -> Byte] /\ OnesAt(m, n)
      /\ \A r \in n..(t - 1) : RowIs(m, r, e, r, n)
  BY <1>0, <1>2, <1>5, CappedIs
<1>7. ASSUME NEW p, RowsChosen(p, t, n), NEW x, Bytes(x, n),
             \A i \in 0..(n - 1) : dot(m, p[i], x, n) = 0
      PROVE  \A c \in 0..(n - 1) : x[c] = 0
  <2>1. PICK v, g : Interpolates(v, g, x, n)
    BY <1>0, <1>7, AlwaysInterpolated DEF Interpolated
  <2>2. Bytes(v, n) /\ Bytes(g, n + 1)
    BY <2>1 DEF Interpolates
  <2>3. ASSUME NEW i \in 0..(n - 1) PROVE value(v, n, p[i]) = 0 /\ p[i] \in Byte
    <3> DEFINE z == p[i]
    <3>1. z \in 0..(t - 1)
      BY <1>7 DEF RowsChosen
    <3>2. dot(m, z, x, n) = 0
      BY <1>7
    <3> HIDE DEF z
    <3>3. z \in Byte
      BY <1>0, <3>1
    <3>4. CASE z < n
      <4>1. z \in 0..(n - 1)
        BY <3>1, <3>4
      <4>2. dot(m, z, x, n) = x[z]
        BY <1>0, <1>6, <1>7, <4>1, IdentityDot
      <4>3. value(v, n, z) = 0
        BY <2>1, <3>2, <4>1, <4>2 DEF Interpolates
      <4> QED BY <3>3, <4>3 DEF z
    <3>5. CASE z >= n
      <4>1. z \notin 0..(n - 1)
        BY <3>1, <3>5
      <4>2. \A c \in 0..(n - 1) : m[<<z, c>>] = invTable[galAdd(z, c)]
        BY <1>3, <1>6, <3>1, <3>5 DEF RowIs
      <4>3. \A c \in 0..(n - 1) : terms(m, z, x, n)[c] = cauchyTerms(x, z, n)[c]
        BY <4>2 DEF terms, cauchyTerms
      <4>4. total(cauchyTerms(x, z, n), n) = 0
        BY <3>2, <4>3, TotalSame DEF dot
      <4>5. value(v, n, z) = galMultiply(value(g, n + 1, z), 0)
        BY <2>1, <3>3, <4>1, <4>4 DEF Interpolates
      <4>6. value(g, n + 1, z) \in Byte
        <5> DEFINE k == n + 1
        <5>1. k \in Nat /\ Bytes(g, k)
          BY <2>2
        <5> HIDE DEF k
        <5>2. value(g, k, z) \in Byte
          BY <3>3, <5>1, ValueType
        <5> QED BY <5>2 DEF k
      <4>7. value(v, n, z) = 0
        BY <4>5, <4>6, MultipliedZero
      <4> QED BY <3>3, <4>7 DEF z
    <3> QED BY <3>1, <3>4, <3>5
  <2>4. Distinct(p, n) /\ Rooted(v, n, p)
    BY <1>7, <2>3 DEF Distinct, Rooted, RowsChosen
  <2>5. \A c \in 0..(n - 1) : v[c] = 0
    BY <1>0, <2>2, <2>4, AlwaysOnlyZero DEF OnlyZero
  <2>6. ASSUME NEW c \in 0..(n - 1) PROVE x[c] = 0
    <3>1. c \in Byte
      BY DEF Byte
    <3>2. value(v, n, c) = 0
      BY <1>0, <2>5, <3>1, ValueZero
    <3> QED BY <2>1, <3>2 DEF Interpolates
  <2> QED BY <2>6
<1> HIDE DEF e
<1> QED BY <1>6, <1>7 DEF Determining, OnesAt

(* One row of ones: whatever columns the rows leave out, they are one.     *)
LEMMA XorRows ==
  ASSUME NEW n \in Nat \ {0}, NEW t, t = n + 1, NEW m, m = buildXorMatrix(n, t)
  PROVE  Determining(m, t, n)
<1> DEFINE e == [p \in cells(t, n) |-> 1]
<1>0. n \in Nat /\ t \in Nat /\ n <= t /\ n \in n..(t - 1) /\ 1 \in Byte
  BY DEF Byte
<1>1. m = [p \in cells(t, n) |-> IF p[1] >= n THEN 1 ELSE IF p[1] = p[2] THEN 1 ELSE 0]
  BY Zenon DEF buildXorMatrix, withIdentity
<1>2. Capped(m, e, t, n)
  BY <1>1 DEF Capped
<1>3. ASSUME NEW r \in 0..(t - 1), NEW c \in 0..(n - 1) PROVE e[<<r, c>>] = 1
  BY DEF cells
<1> HIDE DEF e
<1>4. \A r \in n..(t - 1) : r \in 0..(t - 1)
  BY <1>0
<1>5. CapBytes(e, t, n)
  BY <1>0, <1>3, <1>4 DEF CapBytes, RowBytes
<1>6. /\ m \in [cells(t, n) -> Byte] /\ OnesAt(m, n)
      /\ \A r \in n..(t - 1) : RowIs(m, r, e, r, n)
  BY <1>0, <1>2, <1>5, CappedIs
<1>7. ASSUME NEW p, RowsChosen(p, t, n), NEW x, Bytes(x, n),
             \A i \in 0..(n - 1) : dot(m, p[i], x, n) = 0,
             NEW c \in 0..(n - 1)
      PROVE  x[c] = 0
  <2> DEFINE taken == {p[i] : i \in 0..(n - 1)}
  <2>1. ASSUME NEW r \in taken PROVE dot(m, r, x, n) = 0
    BY <1>7
  <2>2. ASSUME NEW r \in 0..(n - 1), r \in taken PROVE x[r] = 0
    BY <1>0, <1>6, <1>7, <2>1, <2>2, IdentityDot
  <2>3. CASE c \in taken
    BY <2>2, <2>3
  <2>4. CASE c \notin taken
    <3> DEFINE I == 0..(n - 1)
               T == (0..(t - 1)) \ {c}
               f == [i \in I |-> p[i]]
    <3>1. IsFiniteSet(I) /\ Cardinality(I) = n
      <4>1. 0 \in Int /\ n - 1 \in Int /\ ~(0 > n - 1) /\ n - 1 - 0 + 1 = n
        OBVIOUS
      <4> QED BY <4>1, FS_Interval, Zenon
    <3>2. IsFiniteSet(T) /\ Cardinality(T) = n
      <4>1. 0 \in Int /\ t - 1 \in Int /\ ~(0 > t - 1) /\ t - 1 - 0 + 1 = n + 1
        BY <1>0
      <4>2. IsFiniteSet(0..(t - 1)) /\ Cardinality(0..(t - 1)) = n + 1
        BY <4>1, FS_Interval, Zenon
      <4>3. c \in 0..(t - 1)
        BY <1>0
      <4> DEFINE U == 0..(t - 1)
      <4>4. IsFiniteSet(U) /\ Cardinality(U) = n + 1 /\ c \in U
        BY <4>2, <4>3
      <4> HIDE DEF U
      <4>5. /\ IsFiniteSet(U \ {c})
            /\ Cardinality(U \ {c}) = IF c \in U THEN Cardinality(U) - 1 ELSE Cardinality(U)
        BY <4>4, FS_RemoveElement, Zenon
      <4>6. Cardinality(U \ {c}) = n
        BY <4>4, <4>5
      <4> QED BY <4>5, <4>6 DEF U
    <3>3. f \in Injection(I, T)
      <4>1. \A i \in I : p[i] \in T
        BY <1>7, <2>4 DEF RowsChosen
      <4>2. \A i, j \in I : f[i] = f[j] => i = j
        BY <1>7 DEF RowsChosen
      <4> HIDE DEF T
      <4> QED BY <4>1, <4>2 DEF Injection, IsInjective
    <3>4. f \in Surjection(I, T)
      <4> HIDE DEF f, I, T
      <4> QED BY <3>1, <3>2, <3>3, FS_Injection
    <3>5. ASSUME NEW r \in T PROVE r \in taken
      <4>1. PICK i \in I : f[i] = r
        <5> HIDE DEF f, I, T
        <5> QED BY <3>4 DEF Surjection
      <4> QED BY <4>1
    <3>6. n \in T /\ \A r \in 0..(n - 1) : r # c => r \in T
      BY <1>0
    <3> HIDE DEF taken, T, f, I
    <3>7. \A r \in 0..(n - 1) : r # c => x[r] = 0
      BY <2>2, <3>5, <3>6
    <3>8. dot(m, n, x, n) = 0
      BY <2>1, <3>5, <3>6
    <3> DEFINE d == terms(m, n, x, n)
    <3>9. ASSUME NEW r \in 0..(n - 1) PROVE d[r] = x[r] /\ x[r] \in Byte
      <4>1. m[<<n, r>>] = 1
        BY <1>0, <1>3, <1>4, <1>6 DEF RowIs
      <4>2. x[r] \in Byte
        BY <1>7 DEF Bytes
      <4> QED BY <4>1, <4>2, MultipliedZero DEF terms
    <3>10. dot(m, n, x, n) = total(d, n)
      BY DEF dot
    <3> HIDE DEF d
    <3>11. OnlyAt(d, c, n) /\ d[c] \in Byte
      BY <3>7, <3>9 DEF OnlyAt
    <3>12. total(d, n) = d[c]
      BY <1>0, <3>11, TotalOnly
    <3> QED BY <3>8, <3>9, <3>10, <3>12
  <2> QED BY <2>3, <2>4
<1> HIDE DEF e
<1> QED BY <1>6, <1>7 DEF Determining, OnesAt

-----------------------------------------------------------------------------
(* The members of a set of numbers in order.                               *)
below(S, i) == {j \in S : j < i}

(* Every rank below the size of a set belongs to one of its members.       *)
LEMMA Ranked ==
  ASSUME NEW n \in Nat, NEW S \in SUBSET (0..(n - 1)), NEW k \in Nat, k < Cardinality(S)
  PROVE  \E i \in S : Cardinality(below(S, i)) = k
<1>0. /\ \A T \in SUBSET S : IsFiniteSet(T) /\ Cardinality(T) \in Nat
      /\ S \in SUBSET Nat
  <2>1. IsFiniteSet(0..(n - 1))
    BY FS_Interval
  <2>2. IsFiniteSet(S)
    BY <2>1, FS_Subset
  <2>3. \A T \in SUBSET S : IsFiniteSet(T)
    BY <2>2, FS_Subset
  <2>4. \A T \in SUBSET S : Cardinality(T) \in Nat
    BY <2>3, FS_CardinalityType
  <2>5. S \in SUBSET Nat
    OBVIOUS
  <2> QED BY <2>3, <2>4, <2>5
<1> DEFINE P == {m \in 0..k : \E i \in S : Cardinality(below(S, i)) = m}
<1>1. 0 \in P
  <2>1. S # {}
    BY FS_EmptySet
  <2>2. PICK i \in S : \A j \in S : i <= j
    BY <1>0, <2>1, LeastNumber
  <2>3. below(S, i) = {}
    <3>1. \A j \in S : j \in Nat /\ i \in Nat /\ i <= j
      BY <1>0, <2>2
    <3>2. \A j \in S : ~(j < i)
      BY <3>1
    <3> QED BY <3>2, Zenon DEF below
  <2> QED BY <2>3, FS_EmptySet
<1>2. ASSUME NEW m \in P, m < k PROVE m + 1 \in P
  <2>0. m \in 0..k /\ m + 1 \in 0..k
    BY <1>2
  <2>1. PICK i \in S : Cardinality(below(S, i)) = m
    OBVIOUS
  <2> DEFINE upTo == below(S, i) \cup {i}
             rest == S \ upTo
  <2>2. below(S, i) \in SUBSET S /\ i \notin below(S, i) /\ upTo \in SUBSET S
    BY <1>0 DEF below
  <2>3. Cardinality(upTo) = m + 1
    BY <1>0, <2>1, <2>2, FS_AddElement
  <2>4. rest # {}
    BY <1>0, <1>2, <2>0, <2>2, <2>3
  <2>5. PICK o \in rest : \A j \in rest : o <= j
    BY <1>0, <2>4, LeastNumber
  <2>6. below(S, o) = upTo
    <3>0. \A j \in S : j \in Nat /\ i \in Nat /\ o \in Nat /\ o \in S
      BY <1>0
    <3>1. o > i
      BY <3>0, <2>5 DEF below
    <3>2. \A j \in S : ~(j < i) => j = i \/ (j \in rest /\ o <= j)
      BY <3>0, <2>5 DEF below
    <3> HIDE DEF rest
    <3>3. \A j \in S : j < o <=> j < i \/ j = i
      BY <3>0, <3>1, <3>2
    <3> QED BY <3>3 DEF below
  <2>7. o \in S
    BY <2>5
  <2> QED BY <2>0, <2>3, <2>6, <2>7
<1>3. P = 0..k
  <2>1. P \in SUBSET (0..k)
    OBVIOUS
  <2> HIDE DEF P
  <2> QED BY <1>1, <1>2, <2>1, Prefixes
<1>4. k \in P
  BY <1>3
<1> QED BY <1>4

(* So the first rows of a large enough set are members of it.              *)
LEMMA FirstRowsIn ==
  ASSUME NEW n \in Nat, NEW S \in SUBSET (0..(n - 1)), NEW d \in Nat, d <= Cardinality(S)
  PROVE  \A k \in 0..(d - 1) : firstRows(S, d)[k] \in S
<1>1. ASSUME NEW k \in 0..(d - 1) PROVE firstRows(S, d)[k] \in S
  <2>0. k \in Nat /\ k < Cardinality(S)
    <3>1. IsFiniteSet(0..(n - 1))
      BY FS_Interval
    <3>2. Cardinality(S) \in Nat
      BY <3>1, FS_Subset, FS_CardinalityType
    <3> QED BY <3>2
  <2>1. \E i \in S : Cardinality({j \in S : j < i}) = k
    BY <2>0, Ranked DEF below
  <2>2. (CHOOSE i \in S : Cardinality({j \in S : j < i}) = k) \in S
    BY <2>1, Zenon
  <2>3. firstRows(S, d)[k] = CHOOSE i \in S : Cardinality({j \in S : j < i}) = k
    BY DEF firstRows
  <2> QED BY <2>2, <2>3
<1> QED BY <1>1

(* The rows of a set are taken one after the other, no two of them alike.  *)
LEMMA FirstRowsApart ==
  ASSUME NEW n \in Nat, NEW S \in SUBSET (0..(n - 1)), NEW d \in Nat, d <= Cardinality(S)
  PROVE  RowsChosen(firstRows(S, d), n, d)
<1>1. ASSUME NEW k \in 0..(d - 1)
      PROVE  /\ firstRows(S, d)[k] \in S
             /\ Cardinality({j \in S : j < firstRows(S, d)[k]}) = k
  <2>0. k \in Nat /\ k < Cardinality(S)
    <3>1. IsFiniteSet(0..(n - 1))
      BY FS_Interval
    <3>2. Cardinality(S) \in Nat
      BY <3>1, FS_Subset, FS_CardinalityType
    <3> QED BY <3>2
  <2>1. \E i \in S : Cardinality({j \in S : j < i}) = k
    BY <2>0, Ranked DEF below
  <2> DEFINE i == CHOOSE i \in S : Cardinality({j \in S : j < i}) = k
  <2>2. i \in S /\ Cardinality({j \in S : j < i}) = k
    BY <2>1, Zenon
  <2>3. firstRows(S, d)[k] = i
    BY DEF firstRows
  <2> QED BY <2>2, <2>3
<1> DEFINE p == firstRows(S, d)
<1> HIDE DEF p
<1>2. ASSUME NEW i \in 0..(d - 1), NEW j \in 0..(d - 1), p[i] = p[j] PROVE i = j
  <2>1. /\ Cardinality({o \in S : o < p[i]}) = i
        /\ Cardinality({o \in S : o < p[j]}) = j
    BY <1>1 DEF p
  <2> QED BY <1>2, <2>1
<1>3. \A k \in 0..(d - 1) : p[k] \in 0..(n - 1)
  BY <1>1 DEF p
<1>4. RowsChosen(p, n, d)
  BY <1>2, <1>3 DEF RowsChosen
<1> QED BY <1>4 DEF p

(* The square made of n such rows takes only the zero vector to 0 ...      *)
LEMMA RowsOfInjective ==
  ASSUME NEW t \in Nat, NEW n \in Nat \ {0}, NEW m, Determining(m, t, n),
         NEW p, RowsChosen(p, t, n), NEW s, s = rowsOf(m, p, n)
  PROVE  s \in Work(n, n) /\ Injective(s, n)
<1>1. s = [q \in cells(n, n) |-> m[<<p[q[1]], q[2]>>]]
  BY Zenon DEF rowsOf
<1>2. m \in [cells(t, n) -> Byte]
  BY DEF Determining
<1>3. ASSUME NEW i \in 0..(n - 1), NEW c \in 0..(n - 1)
      PROVE  s[<<i, c>>] = m[<<p[i], c>>] /\ s[<<i, c>>] \in Byte
  <2> DEFINE q == <<i, c>>
             o == <<p[i], c>>
  <2>1. q \in cells(n, n)
    BY DEF cells
  <2>2. q[1] = i /\ q[2] = c
    OBVIOUS
  <2>3. p[i] \in 0..(t - 1)
    BY DEF RowsChosen
  <2>4. o \in cells(t, n)
    BY <2>3 DEF cells
  <2> HIDE DEF q
  <2>5. s[q] = m[o]
    BY <1>1, <2>1, <2>2
  <2> HIDE DEF o
  <2>6. m[o] \in Byte
    BY <1>2, <2>4
  <2> QED BY <2>5, <2>6 DEF q, o
<1>4. s \in Work(n, n)
  <2>1. s = [q \in cells(n, n) |-> s[q]]
    BY <1>1
  <2>2. \A i \in 0..(n - 1) : \A c \in 0..(n - 1) : s[<<i, c>>] \in Byte
    BY <1>3
  <2> QED BY <2>1, <2>2, WorkIs
<1>5. ASSUME NEW x, Bytes(x, n), \A i \in 0..(n - 1) : dot(s, i, x, n) = 0
      PROVE  \A c \in 0..(n - 1) : x[c] = 0
  <2>1. ASSUME NEW i \in 0..(n - 1) PROVE dot(m, p[i], x, n) = 0
    <3>1. RowIs(s, i, m, p[i], n)
      BY <1>3 DEF RowIs
    <3>2. dot(s, i, x, n) = dot(m, p[i], x, n)
      BY <3>1, RowIsDot
    <3> QED BY <1>5, <3>2
  <2> QED BY <1>5, <2>1 DEF Determining
<1> QED BY <1>4, <1>5 DEF Injective

=============================================================================
