------------------------------- MODULE Galois -------------------------------
(***************************************************************************)
(* The field GF(2^8) of the Reed-Solomon library and its lookup tables     *)
(* (reedsolomon/galois.go), with the program that generates them           *)
(* (reedsolomon/gentables.go).  The literal tables of galois.go hold the   *)
(* products of the field; the generator and the SIMD kernels reach the     *)
(* same products along two other roads, by adding logarithms and by        *)
(* splitting a byte into nibbles.                                          *)
(***************************************************************************)
EXTENDS Integers

Byte == 0..255
Nibble == 0..15
fieldSize == 256

(* The reduction x^8 = x^4 + x^3 + x^2 + 1 that fixes the field.           *)
generatingPolynomial == 29

(* a ^ b, nibble by nibble and then byte by byte.                          *)
XorNibble == [a \in Nibble |-> [b \in Nibble |->
  LET bit(w) == IF (a \div w) % 2 # (b \div w) % 2 THEN w ELSE 0
  IN  bit(1) + bit(2) + bit(4) + bit(8)]]

Xor == [a \in Byte |-> [b \in Byte |->
  16 * XorNibble[a \div 16][b \div 16] + XorNibble[a % 16][b % 16]]]

(* Addition and subtraction of the field.                                  *)
galAdd(a, b) == Xor[a][b]

Double(a) ==
  IF a < 128 THEN 2 * a ELSE galAdd(2 * a - fieldSize, generatingPolynomial)

(* The product of two polynomials over GF(2), reduced: Horner's scheme     *)
(* over the bits of b.                                                     *)
Product(a, b) ==
  LET horner[k \in 0..8] ==
        IF k = 0 THEN 0
        ELSE LET twice == Double(horner[k - 1])
             IN  IF (b \div 2^(8 - k)) % 2 = 1 THEN galAdd(twice, a) ELSE twice
  IN  horner[8]

Square(a) == Product(a, a)

(* The n-th power of the generator 2.                                      *)
powerOf[n \in 0..fieldSize] ==
  IF n = 0 THEN 1
  ELSE IF n % 2 = 0 THEN Square(powerOf[n \div 2])
  ELSE Double(Square(powerOf[n \div 2]))

-----------------------------------------------------------------------------
(* The literal tables.                                                     *)

mulTable == [a \in Byte |-> [b \in Byte |-> Product(a, b)]]

logTable ==
  [a \in Byte |-> IF a = 0 THEN 0 ELSE CHOOSE n \in 0..254 : powerOf[n] = a]

(* The inverse of logTable, written out twice so that the sum of two       *)
(* logarithms indexes it.                                                  *)
expTable == [n \in 0..(2 * fieldSize - 3) |-> powerOf[n % (fieldSize - 1)]]

invTable == [a \in Byte |-> IF a = 0 THEN 0 ELSE expTable[255 - logTable[a]]]

(* The products with the low and with the high nibble of a byte, the two   *)
(* tables a byte shuffle looks up at once.                                 *)
mulTableLow == [c \in Byte |-> [n \in Nibble |-> Product(c, n)]]
mulTableHigh == [c \in Byte |-> [n \in Nibble |-> Product(c, 16 * n)]]

-----------------------------------------------------------------------------
(* The operations.                                                         *)

galMultiply(a, b) == mulTable[a][b]

(* Callers never divide by 0, where the code panics.  A negative           *)
(* difference of the logarithms has 255 added to it.                       *)
galDivide(a, b) ==
  IF a = 0 THEN 0 ELSE expTable[(logTable[a] - logTable[b] + 255) % 255]

(* a to the n; the logarithm is reduced by 255 until it indexes the table. *)
galExp(a, n) ==
  IF n = 0 THEN 1
  ELSE IF a = 0 THEN 0
  ELSE expTable[(logTable[a] * n) % 255]

(* Mutant: both shuffles take the low nibble.                              *)
shuffleProductLowTwice(c, x) ==
  galAdd(mulTableLow[c][x % 16], mulTableHigh[c][x % 16])

(* What a SIMD kernel computes of one byte: two shuffles and an addition.  *)
shuffleProduct(c, x) ==
  galAdd(mulTableLow[c][x % 16], mulTableHigh[c][x \div 16])

-----------------------------------------------------------------------------
(* The generator: it knows the logarithms only.                            *)

(* result[log] and result[log + 255] are set for every element but 0.      *)
generateExpTable ==
  [n \in 0..(2 * fieldSize - 3) |->
     CHOOSE i \in 1..(fieldSize - 1) : logTable[i] \in {n, n - (fieldSize - 1)}]

generateMulTable(a, b) ==
  IF a = 0 \/ b = 0 THEN 0
  ELSE generateExpTable[logTable[a] + logTable[b]]

(* The entries of the half tables: b ranges over all bytes, those that fit *)
(* a nibble land in low, those that are a shifted nibble in high.          *)
generateMulTableHalf(a) ==
  [low  |-> [n \in Nibble |-> generateMulTable(a, n)],
   high |-> [n \in Nibble |->
               generateMulTable(a, CHOOSE b \in Byte : b % 16 = 0 /\ b \div 16 = n)]]

=============================================================================
