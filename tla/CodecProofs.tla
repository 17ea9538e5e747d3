---------------------------- MODULE CodecProofs -----------------------------
(***************************************************************************)
(* What the decoder command and the stream decoder do, for any number of   *)
(* data and parity shards New accepts, any block size, any contents and    *)
(* any number of runs and damages; and that the tables and matrices are    *)
(* what AnyRowsInvert and TablesAgree say.                                 *)
(*                                                                         *)
(* Any DataShards shards of a code have all of it, and two codes that      *)
(* agree on so many are one; Reconstruct completes a code and keeps what   *)
(* was there; Join gives the content back.  CodecInv says where a decoder  *)
(* stands between its steps.                                               *)
(*                                                                         *)
(* The stream programs do the same a block at a time: a round of Verify    *)
(* that goes on has added a block to what is known to be of the code, or   *)
(* read the last one; a round of Reconstruct adds the piece of the code    *)
(* that its block covers.  StreamInv says how far both are between two     *)
(* rounds.                                                                 *)
(***************************************************************************)
EXTENDS Codec, ErasureCodeProofs

-----------------------------------------------------------------------------
(* The matrix of the programs.                                             *)

(* What the comment over buildMatrix promises of the matrix: the data is   *)
(* unchanged by encoding, and any DataShards rows have an inverse, the one *)
(* that Invert finds.                                                      *)
MatrixEncodes == encodes(matrix, DataShards, Shards)

(* The assumptions on the flags in the form the proofs use.                *)
LEMMA Counts ==
  /\ DataShards \in Nat \ {0} /\ ParityShards \in Nat /\ Shards \in Nat /\ DataShards <= Shards
  /\ Shards = DataShards + ParityShards
  BY FlagsAssumption, GeometryAccepted DEF newError, Shards

(* Its rows are bytes, and the first DataShards of them the identity.      *)
LEMMA MatrixRows ==
  ASSUME MatrixEncodes
  PROVE  /\ \A i \in Index : RowBytes(matrix, i, DataShards)
         /\ \A r, c \in 0..(DataShards - 1) : matrix[<<r, c>>] = IF r = c THEN 1 ELSE 0
<1>1. matrix \in [cells(Shards, DataShards) -> Byte]
  BY DEF MatrixEncodes, encodes
<1>2. \A p \in cells(DataShards, DataShards) : matrix[p] = identityMatrix(DataShards)[p]
  BY DEF MatrixEncodes, encodes
<1>3. ASSUME NEW i \in Index PROVE RowBytes(matrix, i, DataShards)
  <2>1. \A c \in 0..(DataShards - 1) : <<i, c>> \in cells(Shards, DataShards)
    BY Counts DEF cells, Index
  <2> HIDE DEF matrix
  <2> QED BY <1>1, <2>1 DEF RowBytes
<1>4. ASSUME NEW r \in 0..(DataShards - 1), NEW c \in 0..(DataShards - 1)
      PROVE  matrix[<<r, c>>] = IF r = c THEN 1 ELSE 0
  <2>1. <<r, c>> \in cells(DataShards, DataShards)
    BY DEF cells
  <2>2. identityMatrix(DataShards)[<<r, c>>] = IF r = c THEN 1 ELSE 0
    BY <2>1 DEF identityMatrix
  <2> QED BY <1>2, <2>1, <2>2
<1> QED BY <1>3, <1>4

(* Encoding leaves the data as it is.                                      *)
LEMMA DataRow ==
  ASSUME MatrixEncodes, NEW r \in 0..(DataShards - 1), NEW x, Bytes(x, DataShards)
  PROVE  dot(matrix, r, x, DataShards) = x[r]
<1>0. x[r] \in Byte /\ DataShards \in Nat /\ \A c \in 0..(DataShards - 1) : x[c] \in Byte
  BY Counts DEF Bytes
<1>1. terms(matrix, r, x, DataShards)[r] = x[r]
  BY <1>0, MatrixRows, MultipliedZero DEF terms
<1>2. OnlyAt(terms(matrix, r, x, DataShards), r, DataShards)
  BY <1>0, MatrixRows, MultipliedZero DEF terms, OnlyAt
<1> QED BY <1>0, <1>1, <1>2, TotalOnly DEF dot

(* The square of the first rows of a large enough set, and its inverse.    *)
square(S) == rowsOf(matrix, firstRows(S, DataShards), DataShards)

(* What MatrixEncodes says of the inverse.                                 *)
LEMMA SquareUndone ==
  ASSUME MatrixEncodes, NEW S \in SUBSET Index, Cardinality(S) >= DataShards
  PROVE  UndoneBy(Invert(square(S), DataShards), square(S), DataShards)
<1>1. inverts(Invert(square(S), DataShards), square(S), DataShards)
  BY DEF MatrixEncodes, encodes, square, Index
<1>2. SquareBytes(Invert(square(S), DataShards), DataShards)
  <2> DEFINE I == Invert(square(S), DataShards)
  <2>1. I \in [cells(DataShards, DataShards) -> Byte]
    BY <1>1 DEF inverts
  <2> HIDE DEF I
  <2>2. \A r, c \in 0..(DataShards - 1) : I[<<r, c>>] \in Byte
    BY <2>1 DEF cells
  <2>3. SquareBytes(I, DataShards)
    BY <2>2 DEF SquareBytes, RowBytes
  <2> QED BY <2>3 DEF I
<1>3. SquareBytes(square(S), DataShards)
  <2> DEFINE rows == firstRows(S, DataShards)
  <2>1. \A k \in 0..(DataShards - 1) : rows[k] \in Index
    BY Counts, FirstRowsIn DEF Index
  <2> HIDE DEF rows
  <2>2. \A k, c \in 0..(DataShards - 1) : matrix[<<rows[k], c>>] \in Byte
    BY <2>1, MatrixRows DEF RowBytes
  <2>3. square(S) = [p \in cells(DataShards, DataShards) |-> matrix[<<rows[p[1]], p[2]>>]]
    BY Zenon DEF square, rowsOf, rows
  <2>4. \A k, c \in 0..(DataShards - 1) : square(S)[<<k, c>>] = matrix[<<rows[k], c>>]
    BY <2>3 DEF cells
  <2> QED BY <2>2, <2>4 DEF SquareBytes, RowBytes
<1> QED BY <1>1, <1>2, <1>3 DEF UndoneBy, inverts

(* A row of the square is a row of the matrix.                             *)
LEMMA SquareDot ==
  ASSUME NEW S, NEW k \in 0..(DataShards - 1), NEW x
  PROVE  dot(square(S), k, x, DataShards) = dot(matrix, firstRows(S, DataShards)[k], x, DataShards)
<1> DEFINE rows == firstRows(S, DataShards)
<1>3. square(S) = [p \in cells(DataShards, DataShards) |-> matrix[<<rows[p[1]], p[2]>>]]
  BY Zenon DEF square, rowsOf
<1> HIDE DEF rows
<1>4. \A c \in 0..(DataShards - 1) : square(S)[<<k, c>>] = matrix[<<rows[k], c>>]
  BY <1>3 DEF cells
<1>5. \A c \in 0..(DataShards - 1) :
        terms(square(S), k, x, DataShards)[c] = terms(matrix, rows[k], x, DataShards)[c]
  BY <1>4 DEF terms
<1>6. dot(square(S), k, x, DataShards) = dot(matrix, rows[k], x, DataShards)
  BY <1>5, TotalSame DEF dot
<1> QED BY <1>6 DEF rows

(* Data is determined by what any DataShards rows make of it.              *)
SameOver(S, x, z) == \A i \in S : dot(matrix, i, x, DataShards) = dot(matrix, i, z, DataShards)

(* Two data vectors that DataShards rows cannot tell apart are one.        *)
LEMMA Determined ==
  ASSUME MatrixEncodes, NEW S \in SUBSET Index, Cardinality(S) >= DataShards,
         NEW x, Bytes(x, DataShards), NEW z, Bytes(z, DataShards), SameOver(S, x, z),
         NEW r \in 0..(DataShards - 1)
  PROVE  x[r] = z[r]
<1>1. UndoneBy(Invert(square(S), DataShards), square(S), DataShards)
  BY SquareUndone
<1>2. \A k \in 0..(DataShards - 1) : firstRows(S, DataShards)[k] \in S
  BY Counts, FirstRowsIn DEF Index
<1>3. \A k \in 0..(DataShards - 1) :
        dot(square(S), k, x, DataShards) = dot(square(S), k, z, DataShards)
  BY <1>2, SquareDot DEF SameOver
<1> QED BY <1>1, <1>3, Counts, ToldApart

(* ... so Invert finds its inverse, and any DataShards shards determine    *)
(* all.                                                                    *)
LEMMA DeterminingEncodes ==
  ASSUME NEW n \in Nat \ {0}, NEW t \in Nat, NEW m, Determining(m, t, n)
  PROVE  encodes(m, n, t)
<1>0. n \in Nat
  OBVIOUS
<1>1. /\ m \in [cells(t, n) -> Byte]
      /\ \A r, c \in 0..(n - 1) : m[<<r, c>>] = IF r = c THEN 1 ELSE 0
  BY DEF Determining
<1>2. ASSUME NEW q \in cells(n, n) PROVE m[q] = identityMatrix(n)[q]
  <2>1. PICK r \in 0..(n - 1), c \in 0..(n - 1) : q = <<r, c>>
    BY DEF cells
  <2>2. identityMatrix(n)[<<r, c>>] = IF r = c THEN 1 ELSE 0
    BY <1>0, IdentityIs
  <2> QED BY <1>1, <2>1, <2>2
<1>3. ASSUME NEW S \in SUBSET (0..(t - 1)), Cardinality(S) >= n,
             NEW s, s = rowsOf(m, firstRows(S, n), n)
      PROVE  inverts(Invert(s, n), s, n)
  <2> DEFINE p == firstRows(S, n)
             R == Invert(s, n)
  <2>0. n <= Cardinality(S)
    <3>1. IsFiniteSet(0..(t - 1))
      BY FS_Interval
    <3>2. Cardinality(S) \in Nat
      BY <3>1, FS_Subset, FS_CardinalityType
    <3> QED BY <1>3, <3>2
  <2>1. RowsChosen(p, t, n)
    BY <2>0, FirstRowsApart
  <2> HIDE DEF p
  <2>2. s \in Work(n, n) /\ Injective(s, n)
    BY <1>0, <1>3, <2>1, RowsOfInjective DEF p
  <2>3. R = Invert(s, n)
    OBVIOUS
  <2> HIDE DEF R
  <2>4. R \in Work(n, n) /\ Multiply(R, s, n, n, n) = identityMatrix(n)
    BY <2>2, <2>3, InvertUndoes
  <2> QED BY <2>3, <2>4 DEF inverts, Work
<1>4. \A S \in SUBSET (0..(t - 1)) :
        LET s == rowsOf(m, firstRows(S, n), n)
        IN  Cardinality(S) >= n => inverts(Invert(s, n), s, n)
  BY <1>3, Zenon
<1> QED BY <1>1, <1>2, <1>4, Zenon DEF encodes

(* What the comment over buildMatrix promises, of every geometry.          *)
LEMMA BuildEncodes ==
  ASSUME NEW n \in Nat \ {0}, NEW t \in Nat, n <= t, t <= 256
  PROVE  encodes(buildMatrix(n, t), n, t)
  BY BuiltRows, DeterminingEncodes

(* The matrix of the commands does: with parity, New builds it with        *)
(* buildMatrix from at most 256 shards.                                    *)
LEMMA AlwaysEncodes ==
  ASSUME ParityShards # 0
  PROVE  MatrixEncodes
<1>1. DataShards \in Nat \ {0} /\ Shards \in Nat /\ DataShards <= Shards /\ Shards <= 256
  BY FlagsAssumption, GeometryAccepted, Counts DEF newError
<1>2. matrix = buildMatrix(DataShards, Shards)
  <2>1. matrix = encodingMatrix(DataShards, ParityShards, {})
    BY DEF matrix
  <2>2. \A o : o \notin {}
    OBVIOUS
  <2>3. encodingMatrix(DataShards, ParityShards, {}) = buildMatrix(DataShards, DataShards + ParityShards)
    BY <2>2, Zenon DEF encodingMatrix
  <2> QED BY <2>1, <2>3 DEF Shards
<1>3. encodes(buildMatrix(DataShards, Shards), DataShards, Shards)
  BY <1>1, BuildEncodes
<1> QED BY <1>2, <1>3, Zenon DEF MatrixEncodes

(* The two generators and the literal tables give the same products, and   *)
(* a division takes a product back, whatever the constants are.            *)
THEOREM TablesAlwaysAgree == Spec => []TablesAgree
<1>1. \A a \in Byte :
        generateMulTableHalf(a) = [low |-> mulTableLow[a], high |-> mulTableHigh[a]]
  BY HalvesGenerated
<1>2. \A a, b \in Byte :
        /\ shuffleProduct(a, b) = galMultiply(a, b)
        /\ generateMulTable(a, b) = galMultiply(a, b)
        /\ b # 0 => galDivide(galMultiply(a, b), b) = a
  <2> SUFFICES ASSUME NEW a \in Byte, NEW b \in Byte
               PROVE  /\ shuffleProduct(a, b) = galMultiply(a, b)
                      /\ generateMulTable(a, b) = galMultiply(a, b)
                      /\ b # 0 => galDivide(galMultiply(a, b), b) = a
    OBVIOUS
  <2>1. shuffleProduct(a, b) = galMultiply(a, b)
    BY ShufflesMultiply
  <2>2. generateMulTable(a, b) = galMultiply(a, b)
    BY Generated, MultiplyIsProduct
  <2>3. b # 0 => galDivide(galMultiply(a, b), b) = a
    BY Divided, MultiplyIsProduct
  <2> QED BY <2>1, <2>2, <2>3
<1>3. TablesAgree
  BY <1>1, <1>2, Zenon DEF TablesAgree
<1> QED BY <1>3, PTL

(* The geometries the comment is about: those New accepts and makes a      *)
(* matrix for, but for the one of PAR1, which its own comment calls buggy. *)
promised(g) ==
  /\ g[1] \in Int /\ g[2] \in Int /\ newError(g[1], g[2]) = "nil" /\ g[2] # 0
  /\ "usePAR1Matrix" \in g[3] => \/ "useCauchy" \in g[3]
                                 \/ "fastOneParity" \in g[3] /\ g[2] = 1

(* Whatever New builds for such a geometry is one of the three matrices.   *)
LEMMA PromisedEncodes ==
  ASSUME NEW g, promised(g)
  PROVE  encodes(encodingMatrix(g[1], g[2], g[3]), g[1], g[1] + g[2])
<1> DEFINE n == g[1]
           k == g[2]
           o == g[3]
           t == n + k
           m == encodingMatrix(n, k, o)
<1>1. n \in Nat \ {0} /\ k \in Nat \ {0} /\ t \in Nat /\ t <= 256 /\ n <= t
  BY DEF promised, newError
<1>2. m = IF "fastOneParity" \in o /\ k = 1 THEN buildXorMatrix(n, t)
          ELSE IF "useCauchy" \in o THEN buildMatrixCauchy(n, t)
          ELSE IF "usePAR1Matrix" \in o THEN buildMatrixPAR1(n, t)
          ELSE buildMatrix(n, t)
  <2>1. k # 0
    BY <1>1
  <2> HIDE DEF n, k, o
  <2> QED BY <2>1, Zenon DEF encodingMatrix
<1>3. "usePAR1Matrix" \in o => "useCauchy" \in o \/ ("fastOneParity" \in o /\ k = 1)
  BY DEF promised
<1> HIDE DEF n, k, o, m
<1>4. Determining(m, t, n)
  <2>1. CASE "fastOneParity" \in o /\ k = 1
    <3>1. m = buildXorMatrix(n, t)
      BY <1>2, <2>1
    <3>2. t = n + 1
      BY <2>1
    <3> HIDE DEF t
    <3> QED BY <1>1, <3>1, <3>2, XorRows
  <2>2. CASE ~("fastOneParity" \in o /\ k = 1) /\ "useCauchy" \in o
    <3>1. m = buildMatrixCauchy(n, t)
      BY <1>2, <2>2
    <3> HIDE DEF t
    <3> QED BY <1>1, <3>1, CauchyRows
  <2>3. CASE ~("fastOneParity" \in o /\ k = 1) /\ "useCauchy" \notin o
    <3>1. m = buildMatrix(n, t)
      BY <1>2, <1>3, <2>3
    <3> HIDE DEF t
    <3> QED BY <1>1, <3>1, BuiltRows
  <2> QED BY <2>1, <2>2, <2>3
<1>5. encodes(m, n, t)
  <2> HIDE DEF t
  <2> QED BY <1>1, <1>4, DeterminingEncodes
<1> QED BY <1>5 DEF n, k, o, t, m

(* AnyRowsInvert, of any geometries.                                       *)
THEOREM RowsAlwaysInvert ==
  ASSUME \A g \in Geometries : promised(g)
  PROVE  Spec => []AnyRowsInvert
<1>1. AnyRowsInvert
  BY PromisedEncodes DEF AnyRowsInvert
<1> QED BY <1>1, PTL

-----------------------------------------------------------------------------
(* The bytes at one place of the first n shards.                           *)
bytesAt(sh, b, n) == [k \in 0..(n - 1) |-> sh[k][b]]

(* The first n shards are sequences of size bytes.                         *)
Sized(sh, n, size) ==
  /\ size \in Nat
  /\ \A k \in 0..(n - 1) : sh[k] \in Seq(Byte) /\ Len(sh[k]) = size

(* At each place they have a byte.                                         *)
LEMMA SizedBytes ==
  ASSUME NEW n \in Nat, NEW sh, NEW size, Sized(sh, n, size), NEW b \in 1..size
  PROVE  Bytes(bytesAt(sh, b, n), n)
<1>1. ASSUME NEW k \in 0..(n - 1) PROVE sh[k][b] \in Byte
  <2>1. sh[k] \in Seq(Byte) /\ b \in 1..Len(sh[k])
    BY DEF Sized
  <2> QED BY <2>1, ElementOfSeq
<1> QED BY <1>1 DEF Bytes, bytesAt

(* What coding a shard computes.                                           *)
LEMMA CodeBytes ==
  ASSUME NEW m, NEW r, NEW n, NEW sh, NEW size
  PROVE  codeShard(m, r, n, sh, size) = [b \in 1..size |-> dot(m, r, bytesAt(sh, b, n), n)]
<1> DEFINE coded(b) == Sum(n, LAMBDA c : galMultiply(m[<<r, c>>], sh[c][b]))
           summands(b) == [c \in 0..(n - 1) |-> galMultiply(m[<<r, c>>], sh[c][b])]
<1>1. ASSUME NEW b PROVE coded(b) = dot(m, r, bytesAt(sh, b, n), n)
  <2>1. coded(b) = FoldFunction(galAdd, 0, summands(b))
    BY Zenon DEF Sum
  <2>2. [i \in 0..(n - 1) |-> terms(m, r, bytesAt(sh, b, n), n)[i]] = summands(b)
    BY DEF terms, bytesAt
  <2> HIDE DEF coded, summands
  <2>3. dot(m, r, bytesAt(sh, b, n), n) = FoldFunction(galAdd, 0, summands(b))
    BY <2>2, Zenon DEF dot, total
  <2> QED BY <2>1, <2>3
<1>2. codeShard(m, r, n, sh, size) = [b \in 1..size |-> coded(b)]
  BY Zenon DEF codeShard
<1> HIDE DEF coded
<1> QED BY <1>1, <1>2

(* A coded shard has as many bytes as the shards it is made of.            *)
LEMMA CodeSized ==
  ASSUME NEW m, NEW r, NEW n \in Nat, RowBytes(m, r, n), NEW sh, NEW size, Sized(sh, n, size)
  PROVE  /\ codeShard(m, r, n, sh, size) \in Seq(Byte)
         /\ Len(codeShard(m, r, n, sh, size)) = size
         /\ \A b \in 1..size :
              codeShard(m, r, n, sh, size)[b] = dot(m, r, bytesAt(sh, b, n), n)
<1>1. \A b \in 1..size : dot(m, r, bytesAt(sh, b, n), n) \in Byte
  BY SizedBytes, DotType
<1>2. size \in Nat
  BY DEF Sized
<1>3. codeShard(m, r, n, sh, size) = [b \in 1..size |-> dot(m, r, bytesAt(sh, b, n), n)]
  BY CodeBytes
<1> HIDE DEF dot
<1>4. codeShard(m, r, n, sh, size) \in Seq(Byte)
  BY <1>1, <1>2, <1>3, IsASeq
<1> QED BY <1>2, <1>3, <1>4

-----------------------------------------------------------------------------
(* All shards, with every byte what the matrix makes of the data.          *)
Coded(sh, size) ==
  /\ size \in Nat \ {0}
  /\ sh \in [Index -> Seq(Byte)]
  /\ \A i \in Index :
       /\ Len(sh[i]) = size
       /\ \A b \in 1..size : sh[i][b] = dot(matrix, i, bytesAt(sh, b, DataShards), DataShards)

(* Its data shards are sized.                                              *)
LEMMA CodedSized ==
  ASSUME NEW sh, NEW size, Coded(sh, size)
  PROVE  Sized(sh, DataShards, size)
  BY Counts DEF Coded, Sized, Index

(* shardSize is the length of one of the filled shards, if there is any.   *)
LEMMA ShardSize ==
  ASSUME NEW sh \in [Index -> Seq(Byte)]
  PROVE  /\ filled(sh) \subseteq Index
         /\ filled(sh) = {} => shardSize(sh) = 0
         /\ filled(sh) # {} => \E i \in filled(sh) : shardSize(sh) = Len(sh[i])
         /\ \A i \in filled(sh) : Len(sh[i]) \in Nat \ {0}
         /\ \A i \in Index \ filled(sh) : sh[i] = <<>>
<1>1. /\ filled(sh) \subseteq Index
      /\ \A i \in filled(sh) : sh[i] \in Seq(Byte) /\ sh[i] # <<>>
      /\ \A i \in Index \ filled(sh) : sh[i] = <<>>
  BY DEF filled
<1>2. ASSUME filled(sh) # {}
      PROVE  \E i \in filled(sh) : shardSize(sh) = Len(sh[i])
  <2>1. filled(sh) \in SUBSET Nat
    BY <1>1, Counts DEF Index
  <2>2. \E i \in filled(sh) : \A j \in filled(sh) : i <= j
    BY <1>2, <2>1, LeastNumber
  <2> DEFINE i == CHOOSE i \in filled(sh) : \A j \in filled(sh) : i <= j
  <2>3. i \in filled(sh)
    BY <2>2, Zenon
  <2>4. shardSize(sh) = Len(sh[i])
    BY <1>2, Zenon DEF shardSize
  <2> QED BY <2>3, <2>4
<1>3. \A i \in filled(sh) : Len(sh[i]) \in Nat \ {0}
  BY <1>1
<1> QED BY <1>1, <1>2, <1>3 DEF shardSize

(* What Verify accepts is coded ...                                        *)
LEMMA VerifiedCoded ==
  ASSUME MatrixEncodes, NEW sh \in [Index -> Seq(Byte)], Verify(matrix, DataShards, sh)
  PROVE  Coded(sh, Len(sh[0]))
<1> DEFINE size == shardSize(sh)
<1>1. checkSize(sh, FALSE, size) = "nil"
  BY DEF Verify, checkShards
<1>2. size # 0 /\ \A i \in Index : Len(sh[i]) = size
  <2> HIDE DEF size
  <2>1. DOMAIN sh = Index
    OBVIOUS
  <2> QED BY <1>1, <2>1 DEF checkSize
<1>3. 0 \in Index /\ Len(sh[0]) = size /\ Len(sh[0]) \in Nat
  BY <1>2, Counts DEF Index
<1> HIDE DEF size
<1>4. Sized(sh, DataShards, size)
  BY <1>2, <1>3, Counts DEF Sized, Index
<1>5. ASSUME NEW i \in Index, NEW b \in 1..size
      PROVE  sh[i][b] = dot(matrix, i, bytesAt(sh, b, DataShards), DataShards)
  <2>1. CASE i >= DataShards
    <3>1. sh[i] = codeShard(matrix, i, DataShards, sh, size)
      BY <1>3, <2>1 DEF Verify, parityOf
    <3>2. codeShard(matrix, i, DataShards, sh, size)
            = [d \in 1..size |-> dot(matrix, i, bytesAt(sh, d, DataShards), DataShards)]
      BY CodeBytes
    <3> QED BY <3>1, <3>2
  <2>2. CASE ~(i >= DataShards)
    <3>1. i \in 0..(DataShards - 1)
      BY <2>2, Counts DEF Index
    <3>2. Bytes(bytesAt(sh, b, DataShards), DataShards)
      BY <1>4, Counts, SizedBytes
    <3>3. bytesAt(sh, b, DataShards)[i] = sh[i][b]
      BY <3>1 DEF bytesAt
    <3> QED BY <3>1, <3>2, <3>3, DataRow
  <2> QED BY <2>1, <2>2
<1>6. Coded(sh, size)
  BY <1>2, <1>3, <1>5 DEF Coded
<1> QED BY <1>3, <1>6

(* ... and what is coded it accepts.                                       *)
LEMMA CodedVerified ==
  ASSUME MatrixEncodes, NEW sh, NEW size, Coded(sh, size)
  PROVE  Verify(matrix, DataShards, sh)
<1>1. /\ sh \in [Index -> Seq(Byte)] /\ size \in Nat \ {0}
      /\ \A i \in Index : Len(sh[i]) = size
      /\ 0 \in Index
  BY Counts DEF Coded, Index
<1>2. filled(sh) = Index
  BY <1>1 DEF filled
<1>3. shardSize(sh) = size
  BY <1>1, <1>2, ShardSize
<1>4. checkShards(sh, FALSE) = "nil"
  BY <1>1, <1>3 DEF checkShards, checkSize
<1>5. ASSUME NEW i \in parityOf(DataShards, sh)
      PROVE  sh[i] = codeShard(matrix, i, DataShards, sh, Len(sh[0]))
  <2>1. i \in Index
    BY <1>1 DEF parityOf
  <2>2. \A b \in 1..size : sh[i][b] = dot(matrix, i, bytesAt(sh, b, DataShards), DataShards)
    BY <2>1 DEF Coded
  <2>3. codeShard(matrix, i, DataShards, sh, size)
          = [b \in 1..size |-> dot(matrix, i, bytesAt(sh, b, DataShards), DataShards)]
    BY CodeBytes
  <2>4. sh[i] = [b \in 1..size |-> sh[i][b]]
    BY <1>1, <2>1
  <2> QED BY <1>1, <2>2, <2>3, <2>4
<1> QED BY <1>4, <1>5 DEF Verify

(* Two codes that agree on DataShards shards are one.                      *)
Agree(sh, cw, S) == \A i \in S : sh[i] = cw[i]

(* Two codes that agree on DataShards shards are one.                      *)
LEMMA CodedSame ==
  ASSUME MatrixEncodes, NEW sh, NEW n, Coded(sh, n), NEW cw, NEW m, Coded(cw, m),
         NEW S \in SUBSET Index, Cardinality(S) >= DataShards, Agree(sh, cw, S)
  PROVE  sh = cw
<1>0. /\ sh \in [Index -> Seq(Byte)] /\ cw \in [Index -> Seq(Byte)]
      /\ \A i \in Index : Len(sh[i]) = n /\ Len(cw[i]) = m
  BY DEF Coded
<1>1. n = m
  <2>1. S # {}
    BY Counts, FS_EmptySet
  <2> QED BY <1>0, <2>1 DEF Agree
<1>2. ASSUME NEW b \in 1..n, NEW r \in 0..(DataShards - 1)
      PROVE  bytesAt(sh, b, DataShards)[r] = bytesAt(cw, b, DataShards)[r]
  <2> DEFINE x == bytesAt(sh, b, DataShards)
             z == bytesAt(cw, b, DataShards)
  <2>1. Bytes(x, DataShards) /\ Bytes(z, DataShards)
    BY <1>1, Counts, CodedSized, SizedBytes
  <2>2. \A i \in Index : /\ sh[i][b] = dot(matrix, i, x, DataShards)
                         /\ cw[i][b] = dot(matrix, i, z, DataShards)
    BY <1>1 DEF Coded
  <2> HIDE DEF x, z
  <2>3. SameOver(S, x, z)
    BY <2>2 DEF SameOver, Agree
  <2>4. x[r] = z[r]
    BY <2>1, <2>3, Determined
  <2> QED BY <2>4 DEF x, z
<1>3. ASSUME NEW i \in Index PROVE sh[i] = cw[i]
  <2>1. ASSUME NEW b \in 1..n PROVE sh[i][b] = cw[i][b]
    <3>1. bytesAt(sh, b, DataShards) = bytesAt(cw, b, DataShards)
      BY <1>2 DEF bytesAt
    <3>2. /\ sh[i][b] = dot(matrix, i, bytesAt(sh, b, DataShards), DataShards)
          /\ cw[i][b] = dot(matrix, i, bytesAt(cw, b, DataShards), DataShards)
      BY <1>1 DEF Coded
    <3> QED BY <3>1, <3>2
  <2>2. /\ sh[i] \in Seq(Byte) /\ cw[i] \in Seq(Byte) /\ Len(sh[i]) = n /\ Len(cw[i]) = n
    BY <1>0, <1>1
  <2> QED BY <2>1, <2>2, SeqEqual
<1> QED BY <1>0, <1>3

-----------------------------------------------------------------------------
(* The bytes a shard of a content has, and what a complete encode leaves.  *)
per(content) == (Len(content) + DataShards - 1) \div DataShards

(* The quotient is rounded up.                                             *)
LEMMA RoundedUp ==
  ASSUME NEW l \in Nat, NEW d \in Nat \ {0}
  PROVE  /\ (l + d - 1) \div d \in Nat
         /\ l <= d * ((l + d - 1) \div d)
         /\ l > 0 => (l + d - 1) \div d > 0
         /\ l = 0 => (l + d - 1) \div d = 0
  OBVIOUS

(* Products of numbers.                                                    *)
LEMMA TimesMonotone ==
  ASSUME NEW a \in Nat, NEW b \in Nat, a <= b, NEW p \in Nat
  PROVE  a * p <= b * p
  OBVIOUS

LEMMA TimesNext ==
  ASSUME NEW a \in Nat, NEW p \in Nat
  PROVE  (a + 1) * p = a * p + p /\ a * p \in Nat
  OBVIOUS

(* The padding is bytes.                                                   *)
LEMMA Zeros ==
  ASSUME NEW n \in Nat
  PROVE  zeros(n) \in Seq(Byte) /\ Len(zeros(n)) = n
<1>1. \A i \in 1..n : 0 \in Byte
  BY NoBits
<1>2. zeros(n) = [i \in 1..n |-> 0]
  BY DEF zeros
<1> QED BY <1>1, <1>2, IsASeq

(* Padding a content makes DataShards whole shards of it.                  *)
LEMMA Padded ==
  ASSUME NEW content \in Seq(Byte)
  PROVE  /\ per(content) \in Nat
         /\ content # <<>> => per(content) \in Nat \ {0}
         /\ content = <<>> => per(content) = 0
         /\ DataShards * per(content) \in Nat
         /\ Len(content) <= DataShards * per(content)
         /\ paddedData(content) \in Seq(Byte)
         /\ Len(paddedData(content)) = DataShards * per(content)
         /\ SubSeq(paddedData(content), 1, Len(content)) = content
<1> DEFINE pad == DataShards * per(content) - Len(content)
<1>1. Len(content) \in Nat /\ DataShards \in Nat \ {0} /\ (content # <<>> => Len(content) > 0)
  BY Counts
<1>2. /\ per(content) \in Nat
      /\ content # <<>> => per(content) \in Nat \ {0}
      /\ content = <<>> => per(content) = 0
      /\ Len(content) <= DataShards * per(content)
  BY <1>1, RoundedUp DEF per
<1>3. pad \in Nat /\ DataShards * per(content) \in Nat
  BY <1>1, <1>2
<1>4. paddedData(content) = content \o zeros(pad)
  BY Zenon DEF paddedData, per
<1>5. zeros(pad) \in Seq(Byte) /\ Len(zeros(pad)) = pad
  BY <1>3, Zeros
<1> DEFINE z == zeros(pad)
<1> HIDE DEF z
<1>6. z \in Seq(Byte) /\ Len(z) = pad /\ paddedData(content) = content \o z
  BY <1>4, <1>5 DEF z
<1>7. /\ paddedData(content) \in Seq(Byte)
      /\ Len(paddedData(content)) = DataShards * per(content)
  <2>1. content \o z \in Seq(Byte) /\ Len(content \o z) = Len(content) + Len(z)
    BY <1>6, ConcatProperties
  <2>2. Len(content) + pad = DataShards * per(content)
    <3> DEFINE whole == DataShards * per(content)
    <3> HIDE DEF whole
    <3>1. whole \in Nat /\ Len(content) + (whole - Len(content)) = whole
      BY <1>1, <1>3 DEF whole
    <3> QED BY <3>1 DEF whole
  <2> HIDE DEF pad
  <2> QED BY <1>6, <2>1, <2>2
<1>8. SubSeq(paddedData(content), 1, Len(content)) = content
  <2>1. \A i \in 1..Len(content) : (content \o z)[i] = content[i]
    BY <1>6, ConcatProperties
  <2>2. Len(content) <= Len(paddedData(content))
    BY <1>1, <1>2, <1>7
  <2> HIDE DEF pad
  <2> DEFINE sub == SubSeq(paddedData(content), 1, Len(content))
  <2>3. /\ sub \in Seq(Byte) /\ Len(sub) = Len(content)
        /\ \A i \in 1..Len(content) : sub[i] = paddedData(content)[i]
    BY <1>1, <1>7, <2>2
  <2> HIDE DEF sub
  <2>4. sub = content
    BY <1>6, <2>1, <2>3, SeqEqual
  <2> QED BY <2>4 DEF sub
<1> QED BY <1>2, <1>3, <1>7, <1>8

(* The place of byte b of shard k in the padded data.                      *)
LEMMA PlaceInData ==
  ASSUME NEW p \in Nat, NEW k \in 0..(DataShards - 1), NEW b \in 1..p
  PROVE  k * p + b \in 1..(DataShards * p)
<1>1. DataShards \in Nat /\ k \in Nat /\ k + 1 <= DataShards /\ k + 1 \in Nat
  BY Counts
<1>2. (k + 1) * p <= DataShards * p
  BY <1>1, TimesMonotone
<1>3. (k + 1) * p = k * p + p /\ k * p \in Nat /\ DataShards * p \in Nat
  BY <1>1, TimesNext
<1> QED BY <1>2, <1>3

dataBytes(content, b) == [k \in 0..(DataShards - 1) |-> paddedData(content)[k * per(content) + b]]

(* The data is bytes everywhere.                                           *)
LEMMA DataBytes ==
  ASSUME NEW content \in Seq(Byte), NEW b \in 1..per(content)
  PROVE  Bytes(dataBytes(content, b), DataShards)
<1>1. /\ per(content) \in Nat
      /\ paddedData(content) \in Seq(Byte)
      /\ Len(paddedData(content)) = DataShards * per(content)
  BY Padded
<1>2. ASSUME NEW k \in 0..(DataShards - 1) PROVE paddedData(content)[k * per(content) + b] \in Byte
  <2>1. k * per(content) + b \in 1..(DataShards * per(content))
    BY <1>1, PlaceInData
  <2> QED BY <1>1, <2>1, ElementOfSeq
<1> QED BY <1>2 DEF Bytes, dataBytes

(* A codeword by its bytes.                                                *)
LEMMA CodewordBytes ==
  ASSUME NEW content
  PROVE  codewordOf(content)
           = [i \in Index |-> [b \in 1..per(content) |->
                dot(matrix, i, dataBytes(content, b), DataShards)]]
<1> DEFINE byte(k, b) == paddedData(content)[k * per(content) + b]
           coded(i, b) == Sum(DataShards, LAMBDA c : galMultiply(matrix[<<i, c>>], byte(c, b)))
           summands(i, b) == [c \in 0..(DataShards - 1) |->
                                galMultiply(matrix[<<i, c>>], byte(c, b))]
<1>1. ASSUME NEW i, NEW b PROVE coded(i, b) = dot(matrix, i, dataBytes(content, b), DataShards)
  <2>1. coded(i, b) = FoldFunction(galAdd, 0, summands(i, b))
    BY Zenon DEF Sum
  <2>2. [c \in 0..(DataShards - 1) |-> terms(matrix, i, dataBytes(content, b), DataShards)[c]]
          = summands(i, b)
    BY DEF terms, dataBytes
  <2> HIDE DEF coded, summands
  <2>3. dot(matrix, i, dataBytes(content, b), DataShards) = FoldFunction(galAdd, 0, summands(i, b))
    BY <2>2, Zenon DEF dot, total
  <2> QED BY <2>1, <2>3
<1>2. codewordOf(content) = [i \in Index |-> [b \in 1..per(content) |-> coded(i, b)]]
  BY Zenon DEF codewordOf, per
<1> HIDE DEF coded
<1> QED BY <1>1, <1>2

(* The codeword of a content is coded, with the padded content in its      *)
(* data.                                                                   *)
LEMMA CodewordCoded ==
  ASSUME MatrixEncodes, NEW content \in Contents, content # <<>>
  PROVE  /\ Coded(codewords[content], per(content))
         /\ \A k \in 0..(DataShards - 1) : \A b \in 1..per(content) :
              codewords[content][k][b] = paddedData(content)[k * per(content) + b]
<1> DEFINE cw == codewords[content]
           n == per(content)
<1>1. cw = [i \in Index |-> [b \in 1..n |-> dot(matrix, i, dataBytes(content, b), DataShards)]]
  BY CodewordBytes DEF codewords
<1>2. content \in Seq(Byte)
  BY ContentsAssumption
<1>3. n \in Nat \ {0}
  BY <1>2, Padded
<1>4. \A b \in 1..n : Bytes(dataBytes(content, b), DataShards)
  BY <1>2, DataBytes
<1>5. \A i \in Index : \A b \in 1..n : dot(matrix, i, dataBytes(content, b), DataShards) \in Byte
  BY <1>4, Counts, MatrixRows, DotType
<1> HIDE DEF cw, n
<1>6. \A i \in Index : cw[i] \in Seq(Byte) /\ Len(cw[i]) = n
  <2>1. ASSUME NEW i \in Index PROVE cw[i] \in Seq(Byte) /\ Len(cw[i]) = n
    <3>1. cw[i] = [b \in 1..n |-> dot(matrix, i, dataBytes(content, b), DataShards)]
      BY <1>1
    <3>2. cw[i] \in Seq(Byte)
      BY <1>3, <1>5, <3>1, IsASeq
    <3> QED BY <1>3, <3>1, <3>2
  <2> QED BY <2>1
<1>7. ASSUME NEW k \in 0..(DataShards - 1), NEW b \in 1..n
      PROVE  cw[k][b] = dataBytes(content, b)[k]
  <2>1. k \in Index
    BY Counts DEF Index
  <2>2. cw[k][b] = dot(matrix, k, dataBytes(content, b), DataShards)
    BY <1>1, <2>1
  <2> QED BY <1>4, <2>2, DataRow
<1>8. ASSUME NEW i \in Index, NEW b \in 1..n
      PROVE  cw[i][b] = dot(matrix, i, bytesAt(cw, b, DataShards), DataShards)
  <2>1. bytesAt(cw, b, DataShards) = dataBytes(content, b)
    BY <1>7 DEF bytesAt, dataBytes
  <2>2. cw[i][b] = dot(matrix, i, dataBytes(content, b), DataShards)
    BY <1>1
  <2> QED BY <2>1, <2>2
<1>9. cw \in [Index -> Seq(Byte)]
  BY <1>1, <1>6
<1>10. Coded(cw, n)
  BY <1>3, <1>6, <1>8, <1>9 DEF Coded
<1>11. \A k \in 0..(DataShards - 1) : \A b \in 1..n :
         cw[k][b] = paddedData(content)[k * n + b]
  BY <1>7 DEF dataBytes, n
<1> QED BY <1>10, <1>11 DEF cw, n

(* An empty content leaves empty files.                                    *)
LEMMA CodewordEmpty ==
  ASSUME NEW content \in Contents, content = <<>>
  PROVE  \A i \in Index : codewords[content][i] = <<>>
<1>1. per(content) = 0
  <2>1. content \in Seq(Byte)
    BY ContentsAssumption
  <2> QED BY <2>1, Padded
<1>2. codewords[content]
        = [i \in Index |-> [b \in 1..0 |-> dot(matrix, i, dataBytes(content, b), DataShards)]]
  BY <1>1, CodewordBytes DEF codewords
<1> HIDE DEF dot
<1> QED BY <1>2

-----------------------------------------------------------------------------
(* Pieces of a sequence, one behind the other, make the sequence.          *)
Pieces(sh, p, n, m) ==
  /\ n \in Nat /\ m \in Nat /\ p \in Seq(Byte) /\ Len(p) = n * m
  /\ \A k \in 0..(n - 1) : sh[k] = SubSeq(p, k * m + 1, (k + 1) * m)

upTo(p, k, m) == SubSeq(p, 1, k * m)

JoinedBy(j, sh, n) ==
  j = [k \in 0..n |-> IF k = 0 THEN <<>> ELSE j[k - 1] \o sh[k - 1]]

(* Each piece takes the joined part one further; so joining is possible    *)
(* ...                                                                     *)
LEMMA PieceAdded ==
  ASSUME NEW n, NEW m, NEW p, NEW sh, Pieces(sh, p, n, m), NEW k \in 0..n, k < n
  PROVE  upTo(p, k + 1, m) = upTo(p, k, m) \o sh[k]
<1> DEFINE lo == k * m
           hi == (k + 1) * m
<1>0. n \in Nat /\ m \in Nat /\ p \in Seq(Byte) /\ Len(p) = n * m /\ k \in Nat /\ k + 1 \in Nat
  BY DEF Pieces
<1>1. lo \in Nat /\ hi = lo + m /\ hi <= Len(p)
  <2>1. hi <= n * m
    BY <1>0, TimesMonotone
  <2> QED BY <1>0, <2>1, TimesNext
<1>2. sh[k] = SubSeq(p, lo + 1, hi)
  BY DEF Pieces
<1> HIDE DEF lo, hi
<1>3. 1 \in 1..(Len(p) + 1) /\ lo \in (1 - 1)..Len(p) /\ hi \in lo..Len(p)
  BY <1>0, <1>1
<1>4. SubSeq(p, 1, lo) \o SubSeq(p, lo + 1, hi) = SubSeq(p, 1, hi)
  BY <1>0, <1>3, ConcatAdjacentSubSeq
<1>5. SubSeq(p, 1, hi) = SubSeq(p, 1, lo) \o sh[k]
  BY <1>2, <1>4
<1> QED BY <1>5 DEF lo, hi, upTo

LEMMA PiecesJoin ==
  ASSUME NEW n, NEW m, NEW p, NEW sh, Pieces(sh, p, n, m)
  PROVE  \E j : JoinedBy(j, sh, n)
<1> DEFINE j == [k \in 0..n |-> upTo(p, k, m)]
<1>0. n \in Nat /\ m \in Nat /\ p \in Seq(Byte)
  BY DEF Pieces
<1>1. ASSUME NEW k \in 0..n
      PROVE  j[k] = IF k = 0 THEN <<>> ELSE j[k - 1] \o sh[k - 1]
  <2>1. CASE k = 0
    <3>1. upTo(p, 0, m) = <<>>
      <4>1. SubSeq(p, 1, 0) = <<>> /\ 0 * m = 0
        BY <1>0, SubSeqEmpty
      <4> QED BY <4>1 DEF upTo
    <3> QED BY <2>1, <3>1
  <2>2. CASE k # 0
    <3> DEFINE o == k - 1
    <3>1. o \in 0..n /\ o < n /\ o + 1 = k
      BY <1>0, <2>2
    <3> HIDE DEF o
    <3>2. upTo(p, o + 1, m) = upTo(p, o, m) \o sh[o]
      BY <3>1, PieceAdded
    <3>3. j[k] = j[o] \o sh[o]
      BY <3>1, <3>2
    <3> QED BY <2>2, <3>3 DEF o
  <2> QED BY <2>1, <2>2
<1> HIDE DEF j
<1>2. j = [k \in 0..n |-> IF k = 0 THEN <<>> ELSE j[k - 1] \o sh[k - 1]]
  <2>1. j = [k \in 0..n |-> j[k]]
    BY DEF j
  <2> QED BY <1>1, <2>1
<1> QED BY <1>2 DEF JoinedBy

(* ... and gives the sequence.                                             *)
LEMMA PiecesConcat ==
  ASSUME NEW n, NEW m, NEW p, NEW sh, Pieces(sh, p, n, m)
  PROVE  concat(sh, n) = p
<1> DEFINE j == CHOOSE j : JoinedBy(j, sh, n)
<1>0. n \in Nat /\ m \in Nat /\ p \in Seq(Byte) /\ Len(p) = n * m /\ n \in 0..n /\ 0 \in 0..n
  BY DEF Pieces
<1>1. JoinedBy(j, sh, n)
  BY PiecesJoin, Zenon
<1>2. concat(sh, n) = j[n]
  BY Zenon DEF concat, JoinedBy
<1> HIDE DEF j
<1> DEFINE P == {k \in 0..n : j[k] = upTo(p, k, m)}
<1>3. 0 \in P
  <2>1. upTo(p, 0, m) = <<>>
    <3>1. SubSeq(p, 1, 0) = <<>> /\ 0 * m = 0
      BY <1>0, SubSeqEmpty
    <3> QED BY <3>1 DEF upTo
  <2> QED BY <1>0, <1>1, <2>1 DEF JoinedBy
<1>4. ASSUME NEW k \in P, k < n PROVE k + 1 \in P
  <2>0. k \in 0..n /\ k + 1 \in 0..n /\ j[k] = upTo(p, k, m)
    BY <1>0, <1>4
  <2> DEFINE o == k + 1
  <2> HIDE DEF P
  <2>3. o \in 0..n /\ o # 0 /\ o - 1 = k
    BY <1>0, <1>4, <2>0
  <2> HIDE DEF o
  <2>4. j[o] = j[o - 1] \o sh[o - 1]
    BY <1>1, <2>3 DEF JoinedBy
  <2>1. j[k + 1] = j[k] \o sh[k]
    BY <2>3, <2>4 DEF o
  <2>2. upTo(p, k + 1, m) = upTo(p, k, m) \o sh[k]
    BY <1>4, <2>0, PieceAdded
  <2> QED BY <2>0, <2>1, <2>2 DEF P
<1>5. P = 0..n
  <2>1. P \in SUBSET (0..n)
    OBVIOUS
  <2> HIDE DEF P
  <2> QED BY <1>0, <1>3, <1>4, <2>1, Prefixes
<1>6. j[n] = SubSeq(p, 1, n * m)
  <2>1. n \in P
    <3> HIDE DEF P
    <3> QED BY <1>0, <1>5
  <2> QED BY <2>1 DEF upTo
<1>7. SubSeq(p, 1, Len(p)) = p
  BY <1>0, SubSeqFull
<1> QED BY <1>0, <1>2, <1>6, <1>7

(* The data shards of a content, joined, are its padded data.              *)
LEMMA CodewordConcat ==
  ASSUME MatrixEncodes, NEW content \in Contents, content # <<>>
  PROVE  concat(codewords[content], DataShards) = paddedData(content)
<1> DEFINE cw == codewords[content]
           m == per(content)
           p == paddedData(content)
<1>1. m \in Nat /\ p \in Seq(Byte) /\ Len(p) = DataShards * m /\ DataShards \in Nat
  BY ContentsAssumption, Counts, Padded
<1>2. /\ Coded(cw, m)
      /\ \A k \in 0..(DataShards - 1) : \A b \in 1..m : cw[k][b] = p[k * m + b]
  BY CodewordCoded
<1> HIDE DEF cw, m, p
<1>3. ASSUME NEW k \in 0..(DataShards - 1)
      PROVE  cw[k] = SubSeq(p, k * m + 1, (k + 1) * m)
  <2> DEFINE lo == k * m
             hi == (k + 1) * m
  <2>1. k \in Nat /\ lo \in Nat /\ hi = lo + m /\ hi <= Len(p)
    <3>1. k \in Nat /\ k + 1 \in Nat /\ k + 1 <= DataShards
      BY <1>1
    <3>2. hi <= DataShards * m
      BY <1>1, <3>1, TimesMonotone
    <3> QED BY <1>1, <3>1, <3>2, TimesNext
  <2>2. \A b \in 1..m : cw[k][b] = p[lo + b]
    BY <1>2
  <2> HIDE DEF lo, hi
  <2>3. \A i \in (lo + 1)..hi : p[i] \in Byte
    BY <1>1, <2>1, ElementOfSeq
  <2>4. /\ SubSeq(p, lo + 1, hi) \in Seq(Byte)
        /\ Len(SubSeq(p, lo + 1, hi)) = IF lo + 1 <= hi THEN hi - (lo + 1) + 1 ELSE 0
        /\ \A i \in 1..(hi - (lo + 1) + 1) : SubSeq(p, lo + 1, hi)[i] = p[lo + 1 + i - 1]
    BY <2>1, <2>3, SubSeqProperties
  <2> DEFINE s == SubSeq(p, lo + 1, hi)
  <2>5. s \in Seq(Byte) /\ Len(s) = m /\ \A i \in 1..m : s[i] = p[lo + i]
    <3>1. lo + 1 <= hi => hi - (lo + 1) + 1 = m
      BY <1>1, <2>1
    <3>2. ~(lo + 1 <= hi) => m = 0
      BY <1>1, <2>1
    <3>3. hi - (lo + 1) + 1 = m
      BY <1>1, <2>1
    <3>4. \A i \in 1..m : lo + 1 + i - 1 = lo + i
      BY <1>1, <2>1
    <3> QED BY <2>4, <3>1, <3>2, <3>3, <3>4
  <2>6. cw[k] \in Seq(Byte) /\ Len(cw[k]) = m
    BY <1>2, Counts DEF Coded, Index
  <2> HIDE DEF s
  <2>7. cw[k] = s
    BY <2>2, <2>5, <2>6, SeqEqual
  <2> QED BY <2>7 DEF s, lo, hi
<1>4. Pieces(cw, p, DataShards, m)
  BY <1>1, <1>3 DEF Pieces
<1>5. concat(cw, DataShards) = p
  BY <1>4, PiecesConcat
<1> QED BY <1>5 DEF cw, p

(* Joining the shards of a content gives back its bytes.                   *)
LEMMA CodewordJoined ==
  ASSUME MatrixEncodes, NEW content \in Contents, content # <<>>,
         NEW outSize \in Nat, outSize <= DataShards * per(content)
  PROVE  Join(DataShards, codewords[content], outSize)
           = [err |-> "nil", data |-> SubSeq(paddedData(content), 1, outSize)]
<1> DEFINE cw == codewords[content]
           data == concat(cw, DataShards)
           short == \E i \in 0..(DataShards - 1) : cw[i] = <<>> /\ Len(concat(cw, i)) < outSize
           err == IF short THEN "ErrReconstructRequired"
                  ELSE IF Len(data) < outSize THEN "ErrShortData" ELSE "nil"
<1>1. Join(DataShards, cw, outSize)
        = [err |-> err, data |-> IF err = "nil" THEN SubSeq(data, 1, outSize) ELSE <<>>]
  BY Zenon DEF Join
<1>2. \A i \in 0..(DataShards - 1) : cw[i] # <<>>
  <2>1. Coded(cw, per(content))
    BY CodewordCoded
  <2> HIDE DEF cw
  <2> QED BY <2>1, Counts DEF Coded, Index
<1>3. data = paddedData(content) /\ Len(data) = DataShards * per(content) /\ Len(data) \in Nat
  BY CodewordConcat, ContentsAssumption, Padded
<1>4. err = "nil"
  <2>1. ~short
    BY <1>2
  <2> HIDE DEF short, data
  <2> QED BY <1>3, <2>1
<1> HIDE DEF err, data
<1> QED BY <1>1, <1>3, <1>4

-----------------------------------------------------------------------------
(* Reconstruct.                                                            *)

Present(sh, size) ==
  /\ sh \in [Index -> Seq(Byte)]
  /\ size \in Nat \ {0}
  /\ \A i \in Index : sh[i] = <<>> \/ Len(sh[i]) = size
  /\ DataShards <= Cardinality(filled(sh))

rowsIn(sh) == firstRows(filled(sh), DataShards)
sources(sh) == [k \in DOMAIN rowsIn(sh) |-> sh[rowsIn(sh)[k]]]
decoding(sh) == Invert(square(filled(sh)), DataShards)
dataOf(sh, size) == decodeData(decoding(sh), DataShards, sh, rowsIn(sh), size)
restOf(sh) == parityOf(DataShards, sh) \ filled(sh)
rebuiltOf(sh, size) == codeShards(matrix, DataShards, dataOf(sh, size), restOf(sh), size)

(* The rows that are used are rows of shards that are there.               *)
LEMMA Rows ==
  ASSUME NEW sh, NEW size, Present(sh, size)
  PROVE  /\ DOMAIN rowsIn(sh) = 0..(DataShards - 1)
         /\ \A k \in 0..(DataShards - 1) : rowsIn(sh)[k] \in filled(sh)
         /\ filled(sh) \in SUBSET Index
<1>1. filled(sh) \in SUBSET Index
  BY ShardSize DEF Present
<1>2. \A k \in 0..(DataShards - 1) : firstRows(filled(sh), DataShards)[k] \in filled(sh)
  BY <1>1, Counts, FirstRowsIn DEF Present, Index
<1>3. DOMAIN rowsIn(sh) = 0..(DataShards - 1)
  BY DEF rowsIn, firstRows
<1> QED BY <1>1, <1>2, <1>3 DEF rowsIn

(* The shards of those rows are sized.                                     *)
LEMMA Sources ==
  ASSUME NEW sh, NEW size, Present(sh, size)
  PROVE  /\ Sized(sources(sh), DataShards, size)
         /\ \A k \in 0..(DataShards - 1) : sources(sh)[k] = sh[rowsIn(sh)[k]]
<1>1. \A k \in 0..(DataShards - 1) : sources(sh)[k] = sh[rowsIn(sh)[k]]
  BY Rows DEF sources
<1>2. \A i \in filled(sh) : sh[i] \in Seq(Byte) /\ Len(sh[i]) = size
  BY DEF Present, filled
<1>3. \A k \in 0..(DataShards - 1) : sources(sh)[k] \in Seq(Byte) /\ Len(sources(sh)[k]) = size
  BY <1>1, <1>2, Rows
<1> QED BY <1>1, <1>3 DEF Sized, Present

(* What they are decoded with is the inverse of their square.              *)
LEMMA DecodingRows ==
  ASSUME MatrixEncodes, NEW sh, NEW size, Present(sh, size)
  PROVE  /\ UndoneBy(decoding(sh), square(filled(sh)), DataShards)
         /\ \A i \in 0..(DataShards - 1) : RowBytes(decoding(sh), i, DataShards)
         /\ decoding(sh) # Singular
<1>1. UndoneBy(decoding(sh), square(filled(sh)), DataShards)
  BY Rows, SquareUndone DEF decoding, Present
<1>2. \A i \in 0..(DataShards - 1) : RowBytes(decoding(sh), i, DataShards)
  BY <1>1 DEF UndoneBy, SquareBytes
<1>3. decoding(sh) # Singular
  <2>1. decoding(sh) \in [cells(DataShards, DataShards) -> Byte]
    BY Rows DEF MatrixEncodes, encodes, inverts, decoding, square, Index, Present
  <2>2. <<0, 0>> \in cells(DataShards, DataShards)
    BY Counts DEF cells
  <2>3. DOMAIN decoding(sh) # {}
    <3> DEFINE d == decoding(sh)
    <3> HIDE DEF d
    <3>1. d \in [cells(DataShards, DataShards) -> Byte]
      BY <2>1 DEF d
    <3>2. DOMAIN d # {}
      BY <2>2, <3>1
    <3> QED BY <3>2 DEF d
  <2>4. DOMAIN Singular = {}
    BY DEF Singular
  <2> QED BY <2>3, <2>4
<1> QED BY <1>1, <1>2, <1>3

(* The data shards are whole after the first half of a rebuild.            *)
LEMMA DataRebuilt ==
  ASSUME MatrixEncodes, NEW sh, NEW size, Present(sh, size)
  PROVE  /\ DOMAIN dataOf(sh, size) = Index
         /\ Sized(dataOf(sh, size), DataShards, size)
         /\ \A i \in Index : i \in filled(sh) \/ i >= DataShards => dataOf(sh, size)[i] = sh[i]
         /\ \A i \in 0..(DataShards - 1) : i \notin filled(sh) =>
              dataOf(sh, size)[i] = codeShard(decoding(sh), i, DataShards, sources(sh), size)
<1>0. /\ DOMAIN sh = Index /\ 0..(DataShards - 1) \subseteq Index
      /\ \A i \in Index : i \in filled(sh) <=> sh[i] # <<>>
      /\ \A i \in filled(sh) : i \in Index /\ sh[i] \in Seq(Byte) /\ Len(sh[i]) = size
      /\ DataShards \in Nat /\ Index \subseteq Nat /\ size \in Nat
  BY Counts DEF Present, filled, Index
<1>1. dataOf(sh, size) = [i \in Index |->
        IF i < DataShards /\ sh[i] = <<>>
        THEN codeShard(decoding(sh), i, DataShards, sources(sh), size) ELSE sh[i]]
  BY <1>0, Zenon DEF dataOf, decodeData, sources
<1> DEFINE new(i) == codeShard(decoding(sh), i, DataShards, sources(sh), size)
<1>2. \A i \in 0..(DataShards - 1) : new(i) \in Seq(Byte) /\ Len(new(i)) = size
  BY <1>0, Sources, DecodingRows, CodeSized
<1> HIDE DEF new
<1>3. /\ DOMAIN dataOf(sh, size) = Index
      /\ \A i \in Index : i \in filled(sh) \/ i >= DataShards => dataOf(sh, size)[i] = sh[i]
      /\ \A i \in 0..(DataShards - 1) : i \notin filled(sh) => dataOf(sh, size)[i] = new(i)
  BY <1>0, <1>1 DEF new
<1>4. Sized(dataOf(sh, size), DataShards, size)
  BY <1>0, <1>2, <1>3 DEF Sized
<1> QED BY <1>3, <1>4 DEF new

(* A rebuild keeps what is there and makes sequences of bytes.             *)
LEMMA Rebuilt ==
  ASSUME MatrixEncodes, NEW sh, NEW size, Present(sh, size)
  PROVE  /\ rebuiltOf(sh, size) \in [Index -> Seq(Byte)]
         /\ \A i \in Index \ restOf(sh) : rebuiltOf(sh, size)[i] = dataOf(sh, size)[i]
         /\ \A i \in restOf(sh) : rebuiltOf(sh, size)[i]
              = codeShard(matrix, i, DataShards, dataOf(sh, size), size)
         /\ \A i \in filled(sh) : rebuiltOf(sh, size)[i] = sh[i]
<1>0. /\ DOMAIN sh = Index /\ DataShards \in Nat /\ Index \subseteq Nat
      /\ \A i \in filled(sh) : i \in Index /\ sh[i] \in Seq(Byte)
      /\ \A i \in Index \ filled(sh) : sh[i] = <<>>
  BY Counts DEF Present, filled, Index
<1>1. restOf(sh) = {i \in Index : i >= DataShards} \ filled(sh)
  BY <1>0, Zenon DEF restOf, parityOf
<1>2. rebuiltOf(sh, size) = [i \in Index |->
        IF i \in restOf(sh) THEN codeShard(matrix, i, DataShards, dataOf(sh, size), size)
        ELSE dataOf(sh, size)[i]]
  BY DataRebuilt, Zenon DEF rebuiltOf, codeShards
<1>3. \A i \in Index : codeShard(matrix, i, DataShards, dataOf(sh, size), size) \in Seq(Byte)
  BY <1>0, DataRebuilt, MatrixRows, CodeSized
<1>4. ASSUME NEW i \in Index \ restOf(sh) PROVE dataOf(sh, size)[i] \in Seq(Byte)
  <2>1. CASE i < DataShards
    <3>1. i \in 0..(DataShards - 1)
      BY <1>0, <2>1
    <3> QED BY <3>1, DataRebuilt DEF Sized
  <2>2. CASE ~(i < DataShards)
    <3>1. i \in filled(sh)
      BY <1>0, <1>1, <2>2
    <3> QED BY <1>0, <3>1, DataRebuilt
  <2> QED BY <2>1, <2>2
<1>5. /\ \A i \in Index \ restOf(sh) : rebuiltOf(sh, size)[i] = dataOf(sh, size)[i]
      /\ \A i \in restOf(sh) : rebuiltOf(sh, size)[i]
           = codeShard(matrix, i, DataShards, dataOf(sh, size), size)
      /\ DOMAIN rebuiltOf(sh, size) = Index
  BY <1>1, <1>2
<1>6. \A i \in Index : rebuiltOf(sh, size)[i] \in Seq(Byte)
  BY <1>1, <1>3, <1>4, <1>5
<1>7. rebuiltOf(sh, size) \in [Index -> Seq(Byte)]
  <2> DEFINE f == rebuiltOf(sh, size)
  <2>1. f = [i \in Index |-> f[i]]
    BY <1>2
  <2> HIDE DEF f
  <2>2. \A i \in Index : f[i] \in Seq(Byte)
    BY <1>6 DEF f
  <2>3. f \in [Index -> Seq(Byte)]
    BY <2>1, <2>2
  <2> QED BY <2>3 DEF f
<1>8. \A i \in filled(sh) : rebuiltOf(sh, size)[i] = sh[i]
  BY <1>0, <1>1, <1>5, DataRebuilt
<1> QED BY <1>5, <1>7, <1>8

(* Shards of one code, DataShards of them at least: a rebuild completes    *)
(* the code.                                                               *)
LEMMA CodeRebuilt ==
  ASSUME MatrixEncodes, NEW sh, NEW size, Present(sh, size), NEW cw, Coded(cw, size),
         Agree(sh, cw, filled(sh))
  PROVE  rebuiltOf(sh, size) = cw
<1>0. /\ cw \in [Index -> Seq(Byte)] /\ \A i \in Index : Len(cw[i]) = size
      /\ 0..(DataShards - 1) \subseteq Index /\ DataShards \in Nat /\ size \in Nat
      /\ Sized(cw, DataShards, size) /\ Index \subseteq Nat
      /\ \A i \in filled(sh) : sh[i] = cw[i] /\ i \in Index
      /\ filled(sh) \in SUBSET Index
      /\ \A i \in Index : RowBytes(matrix, i, DataShards)
  <2>1. cw \in [Index -> Seq(Byte)] /\ (\A i \in Index : Len(cw[i]) = size) /\ size \in Nat
    BY DEF Coded
  <2>2. 0..(DataShards - 1) \subseteq Index /\ DataShards \in Nat /\ Index \subseteq Nat
    BY Counts DEF Index
  <2>3. Sized(cw, DataShards, size)
    BY CodedSized
  <2>4. filled(sh) \in SUBSET Index
    BY Rows
  <2>5. \A i \in filled(sh) : sh[i] = cw[i] /\ i \in Index
    BY <2>4 DEF Agree
  <2>6. \A i \in Index : RowBytes(matrix, i, DataShards)
    BY MatrixRows
  <2> QED BY <2>1, <2>2, <2>3, <2>4, <2>5, <2>6
<1>1. ASSUME NEW i \in 0..(DataShards - 1) PROVE dataOf(sh, size)[i] = cw[i]
  <2>1. CASE i \in filled(sh)
    BY <1>0, <2>1, DataRebuilt
  <2>2. CASE i \notin filled(sh)
    <3> DEFINE new == codeShard(decoding(sh), i, DataShards, sources(sh), size)
    <3>1. dataOf(sh, size)[i] = new
      BY <2>2, DataRebuilt
    <3>2. /\ new \in Seq(Byte) /\ Len(new) = size
          /\ \A b \in 1..size :
               new[b] = dot(decoding(sh), i, bytesAt(sources(sh), b, DataShards), DataShards)
      BY <1>0, Sources, DecodingRows, CodeSized
    <3> HIDE DEF new
    <3>3. ASSUME NEW b \in 1..size PROVE new[b] = cw[i][b]
      <4> DEFINE x == bytesAt(cw, b, DataShards)
                 y == bytesAt(sources(sh), b, DataShards)
      <4>1. Bytes(x, DataShards)
        BY <1>0, SizedBytes
      <4>2. ASSUME NEW k \in 0..(DataShards - 1)
            PROVE  y[k] = dot(square(filled(sh)), k, x, DataShards)
        <5>1. y[k] = sh[rowsIn(sh)[k]][b] /\ rowsIn(sh)[k] \in filled(sh)
          BY Sources, Rows DEF bytesAt
        <5>2. y[k] = cw[rowsIn(sh)[k]][b]
          BY <1>0, <5>1
        <5>3. cw[rowsIn(sh)[k]][b] = dot(matrix, rowsIn(sh)[k], x, DataShards)
          BY <1>0, <5>1 DEF Coded
        <5>4. dot(square(filled(sh)), k, x, DataShards) = dot(matrix, rowsIn(sh)[k], x, DataShards)
          BY SquareDot DEF rowsIn
        <5> QED BY <5>2, <5>3, <5>4
      <4>3. x[i] = cw[i][b]
        BY DEF bytesAt
      <4> HIDE DEF x, y
      <4>4. ProductsOf(y, square(filled(sh)), x, DataShards)
        BY <4>2 DEF ProductsOf
      <4>5. dot(decoding(sh), i, y, DataShards) = x[i]
        BY <1>0, <4>1, <4>4, DecodingRows, Undone
      <4>6. new[b] = dot(decoding(sh), i, y, DataShards)
        BY <3>2 DEF y
      <4> QED BY <4>3, <4>5, <4>6
    <3>4. cw[i] \in Seq(Byte) /\ Len(cw[i]) = size
      BY <1>0
    <3>5. new = cw[i]
      BY <3>2, <3>3, <3>4, SeqEqual
    <3> QED BY <3>1, <3>5
  <2> QED BY <2>1, <2>2
<1>2. \A b : bytesAt(dataOf(sh, size), b, DataShards) = bytesAt(cw, b, DataShards)
  BY <1>1 DEF bytesAt
<1>3. ASSUME NEW i \in Index PROVE rebuiltOf(sh, size)[i] = cw[i]
  <2>0. \A j \in restOf(sh) : j \in Index
    BY DEF restOf, parityOf, Present
  <2>1. CASE i \in restOf(sh)
    <3> DEFINE new == codeShard(matrix, i, DataShards, dataOf(sh, size), size)
    <3>1. rebuiltOf(sh, size)[i] = new
      BY <2>1, Rebuilt
    <3>2. /\ new \in Seq(Byte) /\ Len(new) = size
          /\ \A b \in 1..size :
               new[b] = dot(matrix, i, bytesAt(dataOf(sh, size), b, DataShards), DataShards)
      BY <1>0, DataRebuilt, CodeSized
    <3> HIDE DEF new
    <3>3. \A b \in 1..size : new[b] = cw[i][b]
      BY <1>2, <3>2 DEF Coded
    <3>4. cw[i] \in Seq(Byte) /\ Len(cw[i]) = size
      BY <1>0
    <3>5. new = cw[i]
      BY <3>2, <3>3, <3>4, SeqEqual
    <3> QED BY <3>1, <3>5
  <2>2. CASE i \notin restOf(sh) /\ i < DataShards
    <3>1. i \in 0..(DataShards - 1)
      BY <1>0, <2>2
    <3> QED BY <1>1, <2>2, <3>1, Rebuilt
  <2>3. CASE i \notin restOf(sh) /\ ~(i < DataShards)
    <3>1. i \in filled(sh)
      BY <1>0, <2>3 DEF restOf, parityOf, Present
    <3> QED BY <1>0, <3>1, Rebuilt
  <2> QED BY <2>1, <2>2, <2>3
<1>4. rebuiltOf(sh, size) \in [Index -> Seq(Byte)]
  BY Rebuilt
<1> DEFINE f == rebuiltOf(sh, size)
<1> HIDE DEF f
<1>5. f \in [Index -> Seq(Byte)] /\ \A i \in Index : f[i] = cw[i]
  BY <1>3, <1>4 DEF f
<1>6. f = cw
  <2>1. f = [i \in Index |-> f[i]]
    BY <1>5
  <2>2. cw \in [Index -> Seq(Byte)]
    BY DEF Coded
  <2>3. cw = [i \in Index |-> cw[i]]
    BY <2>2
  <2> QED BY <1>5, <2>1, <2>3
<1> QED BY <1>6 DEF f

-----------------------------------------------------------------------------
lost(sh) == \E i \in DOMAIN sh : i \notin filled(sh)
few(sh) == Cardinality(filled(sh)) < DataShards

(* The ways out of a reconstruction.                                       *)
LEMMA Reconstructed ==
  ASSUME NEW sh
  PROVE  Reconstruct(matrix, DataShards, sh)
           = IF checkShards(sh, TRUE) # "nil" THEN failed(checkShards(sh, TRUE), sh)
             ELSE IF ~lost(sh) THEN succeeded(sh)
             ELSE IF few(sh) THEN failed("ErrTooFewShards", sh)
             ELSE IF decoding(sh) = Singular THEN failed("errSingular", sh)
             ELSE succeeded(rebuiltOf(sh, shardSize(sh)))
<1> DEFINE whole == \A i \in DOMAIN sh \ filled(sh) : FALSE /\ i >= DataShards
           redo == rebuild(matrix, decoding(sh), DataShards, sh, rowsIn(sh), shardSize(sh), FALSE)
<1>1. Reconstruct(matrix, DataShards, sh)
        = IF checkShards(sh, TRUE) # "nil" THEN failed(checkShards(sh, TRUE), sh)
          ELSE IF whole THEN succeeded(sh)
          ELSE IF few(sh) THEN failed("ErrTooFewShards", sh)
          ELSE redo
  BY Zenon DEF Reconstruct, reconstruct, few, decoding, rowsIn, square, validIndices
<1>2. redo = IF decoding(sh) = Singular THEN failed("errSingular", sh)
             ELSE succeeded(rebuiltOf(sh, shardSize(sh)))
  BY Zenon DEF rebuild, rebuiltOf, dataOf, restOf
<1>3. whole <=> ~lost(sh)
  BY Zenon DEF lost
<1> HIDE DEF whole, redo
<1> QED BY <1>1, <1>2, <1>3, Zenon

(* Finitely many shards are there.                                         *)
LEMMA FilledCount ==
  ASSUME NEW sh \in [Index -> Seq(Byte)]
  PROVE  Cardinality(filled(sh)) \in Nat
<1>1. IsFiniteSet(0..(Shards - 1))
  BY Counts, FS_Interval
<1>2. filled(sh) \in SUBSET (0..(Shards - 1))
  BY ShardSize DEF Index
<1> QED BY <1>1, <1>2, FS_Subset, FS_CardinalityType

(* What checkShards lets pass can be rebuilt from.                         *)
LEMMA Checked ==
  ASSUME NEW sh \in [Index -> Seq(Byte)], checkShards(sh, TRUE) = "nil", ~few(sh)
  PROVE  Present(sh, shardSize(sh))
<1> DEFINE size == shardSize(sh)
<1>1. checkSize(sh, TRUE, size) = "nil"
  BY DEF checkShards
<1>2. size # 0 /\ \A i \in Index : Len(sh[i]) = size \/ sh[i] = <<>>
  <2>1. DOMAIN sh = Index
    OBVIOUS
  <2> HIDE DEF size
  <2> QED BY <1>1, <2>1 DEF checkSize
<1>3. size \in Nat
  <2>1. filled(sh) # {} => \E i \in filled(sh) : size = Len(sh[i])
    BY ShardSize
  <2>2. filled(sh) = {} => size = 0
    BY ShardSize
  <2>3. \A i \in filled(sh) : Len(sh[i]) \in Nat
    BY ShardSize
  <2> HIDE DEF size
  <2> QED BY <2>1, <2>2, <2>3
<1>4. Cardinality(filled(sh)) \in Nat
  BY FilledCount
<1>5. DataShards <= Cardinality(filled(sh))
  BY <1>4, Counts DEF few
<1> HIDE DEF size
<1>6. Present(sh, size)
  BY <1>2, <1>3, <1>5 DEF Present
<1> QED BY <1>6 DEF size

(* A reconstruction that succeeds keeps the shards that were there.        *)
LEMMA ReconstructKeeps ==
  ASSUME MatrixEncodes, NEW sh \in [Index -> Seq(Byte)],
         Reconstruct(matrix, DataShards, sh).err = "nil"
  PROVE  /\ Reconstruct(matrix, DataShards, sh).shards \in [Index -> Seq(Byte)]
         /\ Agree(Reconstruct(matrix, DataShards, sh).shards, sh, filled(sh))
<1> DEFINE r == Reconstruct(matrix, DataShards, sh)
<1>1. checkShards(sh, TRUE) = "nil"
  <2>1. CASE checkShards(sh, TRUE) # "nil"
    <3>1. r = failed(checkShards(sh, TRUE), sh)
      BY <2>1, Reconstructed
    <3> HIDE DEF r
    <3>2. r.err # "nil"
      BY <2>1, <3>1 DEF failed
    <3> QED BY <3>2 DEF r
  <2> QED BY <2>1
<1>2. CASE ~lost(sh)
  <2>1. r = succeeded(sh)
    BY <1>1, <1>2, Reconstructed
  <2> HIDE DEF r
  <2>2. r.shards = sh
    BY <2>1 DEF succeeded
  <2> QED BY <2>2 DEF r, Agree
<1>3. CASE lost(sh)
  <2>1. ~few(sh)
    <3>1. CASE few(sh)
      <4>1. r = failed("ErrTooFewShards", sh)
        BY <1>1, <1>3, <3>1, Reconstructed
      <4> HIDE DEF r
      <4>2. r.err # "nil"
        BY <4>1 DEF failed
      <4> QED BY <4>2 DEF r
    <3> QED BY <3>1
  <2>2. Present(sh, shardSize(sh))
    BY <1>1, <2>1, Checked
  <2>3. decoding(sh) # Singular
    BY <2>2, DecodingRows
  <2>4. r = succeeded(rebuiltOf(sh, shardSize(sh)))
    BY <1>1, <1>3, <2>1, <2>3, Reconstructed
  <2> DEFINE f == rebuiltOf(sh, shardSize(sh))
  <2>5. f \in [Index -> Seq(Byte)] /\ \A i \in filled(sh) : f[i] = sh[i]
    BY <2>2, Rebuilt
  <2> HIDE DEF r, f
  <2>6. r.shards = f
    BY <2>4 DEF succeeded, f
  <2> QED BY <2>5, <2>6 DEF r, Agree
<1> QED BY <1>2, <1>3

(* Any DataShards shards of a code are enough to have all of it.           *)
LEMMA ReconstructServes ==
  ASSUME MatrixEncodes, NEW sh \in [Index -> Seq(Byte)], NEW cw, NEW n, Coded(cw, n),
         Cardinality(filled(sh)) >= DataShards, Agree(sh, cw, filled(sh))
  PROVE  Reconstruct(matrix, DataShards, sh) = succeeded(cw)
<1>0. /\ filled(sh) \in SUBSET Index
      /\ cw \in [Index -> Seq(Byte)] /\ n \in Nat \ {0}
      /\ \A i \in Index : Len(cw[i]) = n
  <2>1. filled(sh) \in SUBSET Index
    BY ShardSize
  <2> QED BY <2>1 DEF Coded
<1>1. \A i \in filled(sh) : Len(sh[i]) = n
  BY <1>0 DEF Agree
<1>2. \A i \in Index \ filled(sh) : sh[i] = <<>>
  BY ShardSize
<1>3. filled(sh) # {}
  BY Counts, FS_EmptySet
<1>4. shardSize(sh) = n
  <2>1. \E i \in filled(sh) : shardSize(sh) = Len(sh[i])
    BY <1>3, ShardSize
  <2> QED BY <1>1, <2>1
<1>5. checkShards(sh, TRUE) = "nil"
  <2>1. \A i \in DOMAIN sh : Len(sh[i]) = n \/ sh[i] = <<>>
    BY <1>1, <1>2
  <2>2. checkSize(sh, TRUE, n) = "nil"
    BY <1>0, <2>1 DEF checkSize
  <2> QED BY <1>4, <2>2, Zenon DEF checkShards
<1>6. ~few(sh)
  BY FilledCount, Counts DEF few
<1>7. CASE ~lost(sh)
  <2>1. filled(sh) = Index
    BY <1>0, <1>7 DEF lost
  <2>2. \A i \in Index : sh[i] = cw[i]
    BY <2>1 DEF Agree
  <2>3. sh = cw
    <3>1. sh = [i \in Index |-> sh[i]] /\ cw = [i \in Index |-> cw[i]]
      BY <1>0
    <3> QED BY <2>2, <3>1
  <2>4. Reconstruct(matrix, DataShards, sh) = succeeded(sh)
    BY <1>5, <1>7, Reconstructed
  <2> QED BY <2>3, <2>4
<1>8. CASE lost(sh)
  <2>1. Present(sh, n)
    BY <1>4, <1>5, <1>6, Checked
  <2>2. decoding(sh) # Singular
    BY <2>1, DecodingRows
  <2>3. Reconstruct(matrix, DataShards, sh) = succeeded(rebuiltOf(sh, n))
    BY <1>4, <1>5, <1>6, <1>8, <2>2, Reconstructed
  <2>4. rebuiltOf(sh, n) = cw
    BY <2>1, CodeRebuilt
  <2> QED BY <2>3, <2>4
<1> QED BY <1>7, <1>8

-----------------------------------------------------------------------------
(* What the encoder makes is shards of bytes.                              *)
LEMMA PieceBytes ==
  ASSUME NEW p \in Seq(Byte), NEW n \in Nat, NEW m \in Nat, n * m <= Len(p), NEW k \in 0..(n - 1)
  PROVE  SubSeq(p, k * m + 1, (k + 1) * m) \in Seq(Byte)
<1> DEFINE lo == k * m
           hi == (k + 1) * m
<1>1. lo \in Nat /\ hi = lo + m /\ hi <= Len(p)
  <2>1. k \in Nat /\ k + 1 \in Nat /\ k + 1 <= n
    OBVIOUS
  <2>2. hi <= n * m
    BY <2>1, TimesMonotone
  <2>3. n * m \in Nat
    BY TimesNext
  <2> QED BY <2>1, <2>2, <2>3, TimesNext
<1> HIDE DEF lo, hi
<1>2. \A i \in (lo + 1)..hi : p[i] \in Byte
  BY <1>1, ElementOfSeq
<1>3. SubSeq(p, lo + 1, hi) \in Seq(Byte)
  BY <1>1, <1>2, SubSeqProperties
<1> QED BY <1>3 DEF lo, hi

(* The buffer a content is cut from.                                       *)
buffer(content) == content \o readBuffer(content)
cut(content) ==
  IF Len(buffer(content)) >= Shards * per(content)
  THEN [i \in 1..Len(buffer(content)) |->
          IF i \in (Len(content) + 1)..(Len(content) + DataShards) THEN 0 ELSE buffer(content)[i]]
  ELSE buffer(content) \o zeros(Shards * per(content) - Len(buffer(content)))

(* It is bytes, and long enough for all shards.                            *)
LEMMA CutBytes ==
  ASSUME NEW content \in Seq(Byte)
  PROVE  /\ cut(content) \in Seq(Byte)
         /\ Shards * per(content) <= Len(cut(content))
<1>1. readBuffer(content) \in Seq(Byte)
  <2>1. Len(content) \in Nat
    OBVIOUS
  <2>2. (IF Len(content) + 1 < MinRead THEN MinRead - Len(content) ELSE 1) \in Nat
    BY <2>1, MinReadAssumption
  <2> QED BY <2>2, Zeros DEF readBuffer
<1> DEFINE w == buffer(content)
           t == Shards * per(content)
<1>2. w \in Seq(Byte) /\ Len(w) \in Nat
  BY <1>1, ConcatProperties DEF buffer
<1>3. t \in Nat
  BY Padded, Counts, TimesNext
<1>4. \A i \in 1..Len(w) : w[i] \in Byte
  BY <1>2, ElementOfSeq
<1> HIDE DEF w, t
<1>5. CASE Len(w) >= t
  <2>1. cut(content) = [i \in 1..Len(w) |->
          IF i \in (Len(content) + 1)..(Len(content) + DataShards) THEN 0 ELSE w[i]]
    BY <1>5 DEF cut, w, t
  <2>2. \A i \in 1..Len(w) :
          (IF i \in (Len(content) + 1)..(Len(content) + DataShards) THEN 0 ELSE w[i]) \in Byte
    BY <1>4, NoBits
  <2>3. cut(content) \in Seq(Byte)
    BY <1>2, <2>1, <2>2, IsASeq
  <2>4. Len(cut(content)) = Len(w)
    BY <1>2, <2>1
  <2> QED BY <1>5, <2>3, <2>4 DEF t
<1>6. CASE ~(Len(w) >= t)
  <2>1. cut(content) = w \o zeros(t - Len(w))
    BY <1>6 DEF cut, w, t
  <2>2. t - Len(w) \in Nat
    BY <1>2, <1>3, <1>6
  <2>3. zeros(t - Len(w)) \in Seq(Byte) /\ Len(zeros(t - Len(w))) = t - Len(w)
    BY <2>2, Zeros
  <2> DEFINE z == zeros(t - Len(w))
  <2> HIDE DEF z
  <2>4. w \o z \in Seq(Byte) /\ Len(w \o z) = Len(w) + Len(z)
    BY <1>2, <2>3, ConcatProperties DEF z
  <2>5. Len(w) + Len(z) = t
    BY <1>2, <1>3, <2>3 DEF z
  <2>6. cut(content) = w \o z
    BY <2>1 DEF z
  <2> QED BY <1>3, <2>4, <2>5, <2>6 DEF t
<1> QED BY <1>5, <1>6

(* So are the shards Split cuts it into, and what Encode makes of them.    *)
LEMMA SplitTyped ==
  ASSUME NEW content \in Seq(Byte),
         Split(DataShards, Shards, content, readBuffer(content)).err = "nil"
  PROVE  Split(DataShards, Shards, content, readBuffer(content)).shards \in [Index -> Seq(Byte)]
<1> DEFINE fits == Len(buffer(content)) >= Shards * per(content)
           err == IF content = <<>> THEN "ErrShortData"
                  ELSE IF fits /\ Len(readBuffer(content)) < DataShards THEN "panic"
                  ELSE "nil"
           sh == [i \in 0..(Shards - 1) |->
                    IF err # "nil" THEN <<>>
                    ELSE SubSeq(cut(content), i * per(content) + 1, (i + 1) * per(content))]
<1>1. Split(DataShards, Shards, content, readBuffer(content)) = [err |-> err, shards |-> sh]
  BY Zenon DEF Split, buffer, cut, per
<1>2. per(content) \in Nat /\ Shards \in Nat
  BY Padded, Counts
<1>3. \A i \in 0..(Shards - 1) :
        SubSeq(cut(content), i * per(content) + 1, (i + 1) * per(content)) \in Seq(Byte)
  BY <1>2, CutBytes, PieceBytes
<1> HIDE DEF err
<1>4. \A i \in 0..(Shards - 1) : sh[i] \in Seq(Byte)
  BY <1>3
<1>5. sh \in [Index -> Seq(Byte)]
  BY <1>4 DEF Index
<1> HIDE DEF sh
<1> QED BY <1>1, <1>5

LEMMA EncodeTyped ==
  ASSUME MatrixEncodes, NEW sh \in [Index -> Seq(Byte)]
  PROVE  Encode(matrix, DataShards, sh).shards \in [Index -> Seq(Byte)]
<1> DEFINE coded == codeShards(matrix, DataShards, sh, parityOf(DataShards, sh), Len(sh[0]))
<1>1. Encode(matrix, DataShards, sh)
        = IF checkShards(sh, FALSE) # "nil" THEN failed(checkShards(sh, FALSE), sh)
          ELSE succeeded(coded)
  BY Zenon DEF Encode
<1> HIDE DEF coded
<1>2. CASE checkShards(sh, FALSE) # "nil"
  BY <1>1, <1>2 DEF failed
<1>3. CASE checkShards(sh, FALSE) = "nil"
  <2> DEFINE size == shardSize(sh)
  <2>1. checkSize(sh, FALSE, size) = "nil"
    BY <1>3 DEF checkShards
  <2>2. \A i \in Index : Len(sh[i]) = size
    <3> HIDE DEF size
    <3>1. DOMAIN sh = Index
      OBVIOUS
    <3> QED BY <2>1, <3>1 DEF checkSize
  <2>3. 0 \in Index /\ Len(sh[0]) = size /\ Len(sh[0]) \in Nat
    BY <2>2, Counts DEF Index
  <2> HIDE DEF size
  <2>4. Sized(sh, DataShards, size)
    BY <2>2, <2>3, Counts DEF Sized, Index
  <2>5. \A i \in Index : codeShard(matrix, i, DataShards, sh, size) \in Seq(Byte)
    BY <2>4, Counts, MatrixRows, CodeSized
  <2>6. coded = [i \in Index |-> IF i \in parityOf(DataShards, sh)
                                 THEN codeShard(matrix, i, DataShards, sh, size) ELSE sh[i]]
    <3>1. DOMAIN sh = Index
      OBVIOUS
    <3> QED BY <2>3, <3>1, Zenon DEF coded, codeShards
  <2>7. coded \in [Index -> Seq(Byte)]
    BY <2>5, <2>6
  <2>8. Encode(matrix, DataShards, sh) = succeeded(coded)
    BY <1>1, <1>3
  <2> QED BY <2>7, <2>8 DEF succeeded
<1> QED BY <1>2, <1>3

(* Damage leaves shards of bytes.                                          *)
LEMMA AddedByte ==
  ASSUME NEW x \in Byte
  PROVE  galAdd(x, 1) \in Byte
<1>1. 1 \in Byte
  BY DEF Byte
<1> QED BY <1>1, Added

-----------------------------------------------------------------------------
ShardFile == [Index -> Seq(Byte)]

(* The stream programs run no decoder command.                             *)
StreamsAlone == programs = "streams" => dec = noDecoder

CommandsTyped ==
  programs = "commands" =>
    /\ file \in ShardFile
    /\ sizeFile \in Nat
    /\ enc \in [pc : {"idle", "open", "write", "done"}, shards : ShardFile, next : Nat, size : Nat]
    /\ dec \in [pc : {"idle", "read", "size", "create", "join", "done"},
                loaded : ShardFile, shards : ShardFile, next : Nat, outputSize : Nat,
                sized : BOOLEAN, exit : {"none", "ok", "failed", "killed"}]

(* The shards the decoder goes on with verify and hold what it read.       *)
Accepted(d) ==
  /\ Verify(matrix, DataShards, d.shards)
  /\ Agree(d.shards, d.loaded, filled(d.loaded))

Within(d) == d.outputSize <= Len(d.shards[0]) * DataShards

Serving(d, c) ==
  /\ Cardinality(filled(d.loaded)) >= DataShards
  /\ Agree(d.loaded, codewords[c], filled(d.loaded))

DecoderOpen(d) == d.exit # "none" => d.pc = "done"
DecoderAccepted(d) == d.pc \in {"size", "create", "join"} => Accepted(d)
DecoderWithin(d) == d.pc \in {"create", "join"} => Within(d)
DecoderWrote(d, out) ==
  d.exit = "ok" =>
    Accepted(d) /\ Within(d) /\ out = SubSeq(concat(d.shards, DataShards), 1, d.outputSize)
DecoderGaveUp(d) == d.exit = "failed" => \A c \in Contents : ~Serving(d, c)

DecoderSound(d, out) ==
  /\ DecoderOpen(d)
  /\ DecoderAccepted(d)
  /\ DecoderWithin(d)
  /\ DecoderWrote(d, out)
  /\ DecoderGaveUp(d)

DecoderInv == programs = "commands" => DecoderSound(dec, output)

CodecInv ==
  /\ programs \in {"commands", "streams"}
  /\ StreamsAlone
  /\ CommandsTyped
  /\ DecoderInv

-----------------------------------------------------------------------------
(* A serving content is not empty.                                         *)
LEMMA ServingFull ==
  ASSUME NEW sh \in ShardFile, NEW c \in Contents, NEW S \in SUBSET filled(sh),
         Cardinality(S) >= DataShards, Agree(sh, codewords[c], S)
  PROVE  c # <<>>
<1>1. S # {}
  BY Counts, FS_EmptySet
<1>2. PICK i \in S : TRUE
  BY <1>1
<1>3. i \in Index /\ sh[i] # <<>>
  BY DEF filled, ShardFile
<1>4. codewords[c][i] # <<>>
  BY <1>3 DEF Agree
<1> QED BY <1>3, <1>4, CodewordEmpty

(* Enough shards of a content among those read: what was accepted is its   *)
(* codeword.                                                               *)
LEMMA AcceptedIs ==
  ASSUME MatrixEncodes, NEW d, d.shards \in ShardFile, d.loaded \in ShardFile, Accepted(d),
         NEW c \in Contents, NEW S \in SUBSET filled(d.loaded),
         Cardinality(S) >= DataShards, Agree(d.loaded, codewords[c], S)
  PROVE  d.shards = codewords[c] /\ c # <<>>
<1> DEFINE sh == d.shards
           ld == d.loaded
           cw == codewords[c]
<1>0. sh \in ShardFile /\ ld \in ShardFile
  OBVIOUS
<1>1. c # <<>>
  BY ServingFull
<1>2. Coded(cw, per(c))
  BY <1>1, CodewordCoded
<1>3. Coded(sh, Len(sh[0]))
  BY VerifiedCoded DEF Accepted, ShardFile
<1>4. S \in SUBSET Index
  <2>1. filled(ld) \subseteq Index
    BY ShardSize DEF ShardFile
  <2> QED BY <2>1
<1>5. Agree(sh, cw, S)
  BY DEF Accepted, Agree
<1> HIDE DEF sh, ld, cw
<1>6. sh = cw
  BY <1>2, <1>3, <1>4, <1>5, CodedSame
<1> QED BY <1>1, <1>6 DEF sh, cw

(* How much the codeword of a content holds.                               *)
LEMMA CodewordLen ==
  ASSUME MatrixEncodes, NEW c \in Contents, c # <<>>
  PROVE  Len(codewords[c][0]) * DataShards = DataShards * per(c)
<1>1. Coded(codewords[c], per(c))
  BY CodewordCoded
<1>2. Len(codewords[c][0]) = per(c)
  BY <1>1, Counts DEF Coded, Index
<1>3. per(c) \in Nat
  BY ContentsAssumption, Padded
<1> QED BY <1>2, <1>3, Counts

(* A serving content is decoded.                                           *)
LEMMA ServedRepairs ==
  ASSUME MatrixEncodes, NEW c \in Contents, dec.loaded \in ShardFile, Serving(dec, c)
  PROVE  verifiedAfter(Reconstruct(matrix, DataShards, dec.loaded))
           = [dec EXCEPT !.pc = "size", !.shards = codewords[c]]
<1> DEFINE sh == dec.loaded
           cw == codewords[c]
<1>1. c # <<>>
  BY ServingFull DEF Serving
<1>2. Coded(cw, per(c))
  BY <1>1, CodewordCoded
<1>3. /\ sh \in [Index -> Seq(Byte)]
      /\ Cardinality(filled(sh)) >= DataShards
      /\ Agree(sh, cw, filled(sh))
  BY DEF Serving, ShardFile
<1>4. Verify(matrix, DataShards, cw)
  BY <1>2, CodedVerified
<1> HIDE DEF sh, cw
<1>5. Reconstruct(matrix, DataShards, sh) = succeeded(cw)
  BY <1>2, <1>3, ReconstructServes
<1> DEFINE r == Reconstruct(matrix, DataShards, sh)
<1>6. r.err = "nil" /\ r.shards = cw
  BY <1>5 DEF succeeded
<1> HIDE DEF r
<1>7. verifiedAfter(r) = [dec EXCEPT !.pc = "size", !.shards = cw]
  BY <1>4, <1>6 DEF verifiedAfter
<1> QED BY <1>7 DEF sh, cw, r

(* And joined.                                                             *)
LEMMA ServedJoins ==
  ASSUME MatrixEncodes, NEW c \in Contents, dec.loaded \in ShardFile, dec.shards \in ShardFile,
         dec.outputSize \in Nat, Accepted(dec), Within(dec), Serving(dec, c)
  PROVE  Join(DataShards, dec.shards, dec.outputSize).err = "nil"
<1>1. dec.shards = codewords[c] /\ c # <<>>
  BY AcceptedIs DEF Serving
<1>2. dec.outputSize <= DataShards * per(c)
  BY <1>1, CodewordLen DEF Within
<1>3. Join(DataShards, codewords[c], dec.outputSize)
        = [err |-> "nil", data |-> SubSeq(paddedData(c), 1, dec.outputSize)]
  BY <1>1, <1>2, CodewordJoined
<1> QED BY <1>1, <1>3

(* What Join returns when it succeeds.                                     *)
LEMMA JoinedData ==
  ASSUME NEW sh, NEW n, Join(DataShards, sh, n).err = "nil"
  PROVE  Join(DataShards, sh, n).data = SubSeq(concat(sh, DataShards), 1, n)
<1> DEFINE err == IF \E i \in 0..(DataShards - 1) : sh[i] = <<>> /\ Len(concat(sh, i)) < n
                  THEN "ErrReconstructRequired"
                  ELSE IF Len(concat(sh, DataShards)) < n THEN "ErrShortData" ELSE "nil"
<1>1. Join(DataShards, sh, n)
        = [err |-> err, data |-> IF err = "nil" THEN SubSeq(concat(sh, DataShards), 1, n) ELSE <<>>]
  BY Zenon DEF Join
<1> DEFINE j == Join(DataShards, sh, n)
           data == SubSeq(concat(sh, DataShards), 1, n)
<1> HIDE DEF err, j, data
<1>2. j = [err |-> err, data |-> IF err = "nil" THEN data ELSE <<>>] /\ j.err = "nil"
  BY <1>1 DEF j, data
<1>3. j.data = data
  BY <1>2
<1> QED BY <1>3 DEF j, data

-----------------------------------------------------------------------------
(* The steps of the two commands.                                          *)
DecoderRest == UNCHANGED <<dec, output>>

(* What the encoder does leaves the decoder as it is.                      *)
LEMMA RestKept ==
  ASSUME DecoderInv, DecoderRest, programs' = programs
  PROVE  DecoderInv'
  BY DEF DecoderInv, DecoderSound, DecoderRest, DecoderOpen, DecoderAccepted, DecoderWithin,
         DecoderWrote, DecoderGaveUp, Accepted, Within, Serving

Enc == [pc : {"idle", "open", "write", "done"}, shards : ShardFile, next : Nat, size : Nat]

(* The encoder starts with shards of bytes, or none.                       *)
LEMMA SplitShards ==
  ASSUME MatrixEncodes, NEW content \in Contents
  PROVE  encoderWith(Split(DataShards, Shards, content, readBuffer(content)), Len(content))
           \in Enc
<1> DEFINE split == Split(DataShards, Shards, content, readBuffer(content))
           coded == Encode(matrix, DataShards, split.shards).shards
           l == Len(content)
<1>1. content \in Seq(Byte) /\ l \in Nat
  BY ContentsAssumption
<1>2. split.err = "nil" => coded \in ShardFile
  BY <1>1, SplitTyped, EncodeTyped DEF ShardFile
<1>3. noShards \in ShardFile
  BY DEF noShards, ShardFile
<1> HIDE DEF coded, split, l
<1>4. encoderWith(split, l) = IF split.err = "nil"
        THEN [noEncoder EXCEPT !.pc = "open", !.size = l, !.shards = coded]
        ELSE [noEncoder EXCEPT !.pc = "done"]
  BY Zenon DEF encoderWith, coded
<1>6. noEncoder \in Enc
  BY <1>3 DEF noEncoder, Enc
<1>5. encoderWith(split, l) \in Enc
  <2>1. CASE split.err = "nil"
    <3>1. encoderWith(split, l) = [noEncoder EXCEPT !.pc = "open", !.size = l, !.shards = coded]
      BY <1>4, <2>1
    <3>2. coded \in ShardFile
      BY <1>2, <2>1
    <3> QED BY <1>1, <1>6, <3>1, <3>2 DEF Enc
  <2>2. CASE split.err # "nil"
    BY <1>4, <1>6, <2>2 DEF Enc
  <2> QED BY <2>1, <2>2
<1> QED BY <1>5 DEF split, l

EncoderStep ==
  \/ \E content \in Contents : EncoderReads(content)
  \/ EncoderOpens \/ EncoderWrites \/ EncoderOpensSize \/ EncoderWritesSize \/ EncoderKilled

(* An encoder step keeps the types and leaves the decoder alone.           *)
LEMMA EncoderKeeps ==
  ASSUME MatrixEncodes, programs = "commands", programs' = programs, CommandsTyped, EncoderStep
  PROVE  CommandsTyped' /\ DecoderRest
<1>0. file \in ShardFile /\ sizeFile \in Nat /\ enc \in Enc
  BY DEF CommandsTyped, Enc
<1>1. \A k \in Index : enc.shards[k] \in Seq(Byte)
  BY <1>0 DEF ShardFile, Enc
<1>2. noShards \in ShardFile
  BY DEF noShards, ShardFile
<1>3. noEncoder \in Enc
  BY <1>2 DEF noEncoder, Enc
<1>4. /\ file' \in ShardFile /\ sizeFile' \in Nat /\ enc' \in Enc /\ DecoderRest
  <2>1. ASSUME NEW content \in Contents, EncoderReads(content)
        PROVE  file' \in ShardFile /\ sizeFile' \in Nat /\ enc' \in Enc /\ DecoderRest
    BY <1>0, <2>1, SplitShards DEF EncoderReads, diskVars, DecoderRest
  <2>2. CASE EncoderOpens
    <3>1. /\ file' = [file EXCEPT ![enc.next] = <<>>]
          /\ enc' = [enc EXCEPT !.pc = "write"]
          /\ sizeFile' = sizeFile /\ DecoderRest
      BY <2>2 DEF EncoderOpens, DecoderRest
    <3>2. file' \in ShardFile
      <4>1. <<>> \in Seq(Byte)
        OBVIOUS
      <4> QED BY <1>0, <3>1, <4>1 DEF ShardFile
    <3>3. enc' \in Enc
      BY <1>0, <3>1 DEF Enc
    <3> QED BY <1>0, <3>1, <3>2, <3>3
  <2>3. CASE EncoderWrites
    <3>1. /\ file' = [file EXCEPT ![enc.next] = enc.shards[enc.next]]
          /\ enc' = [enc EXCEPT !.pc = "open", !.next = @ + 1]
          /\ sizeFile' = sizeFile /\ DecoderRest
      BY <2>3 DEF EncoderWrites, DecoderRest
    <3>2. file' \in ShardFile
      BY <1>0, <1>1, <3>1 DEF ShardFile
    <3>3. enc' \in Enc
      <4>1. enc' = [enc EXCEPT !.pc = "open", !.next = enc.next + 1]
        BY <3>1
      <4>2. enc \in Enc /\ enc.next + 1 \in Nat
        BY <1>0 DEF Enc
      <4> QED BY <4>1, <4>2 DEF Enc
    <3> QED BY <1>0, <3>1, <3>2, <3>3
  <2>4. CASE EncoderOpensSize
    BY <1>0, <2>4 DEF EncoderOpensSize, DecoderRest, Enc
  <2>5. CASE EncoderWritesSize
    BY <1>0, <1>3, <2>5 DEF EncoderWritesSize, DecoderRest, Enc
  <2>6. CASE EncoderKilled
    BY <1>0, <1>3, <2>6 DEF EncoderKilled, diskVars, DecoderRest, Enc
  <2> QED BY <2>1, <2>2, <2>3, <2>4, <2>5, <2>6 DEF EncoderStep
<1> QED BY <1>4 DEF CommandsTyped, DecoderRest, Enc

DecoderStep ==
  DecoderStarts \/ DecoderReads \/ DecoderRepairs \/ DecoderReadsSize
    \/ DecoderCreates \/ DecoderJoins \/ DecoderKilled

Dec == [pc : {"idle", "read", "size", "create", "join", "done"},
        loaded : ShardFile, shards : ShardFile, next : Nat, outputSize : Nat,
        sized : BOOLEAN, exit : {"none", "ok", "failed", "killed"}]

(* What a decoder can come to when it has read all shards: they verify, or *)
(* what Reconstruct made of them does, or no content is served by them.    *)
LEMMA RepairedIs ==
  ASSUME MatrixEncodes, dec.loaded \in ShardFile, dec \in Dec, DecoderRepairs
  PROVE  \/ /\ Verify(matrix, DataShards, dec.loaded)
            /\ dec' = [dec EXCEPT !.pc = "size", !.shards = dec.loaded]
         \/ \E sh \in ShardFile :
              /\ Verify(matrix, DataShards, sh) /\ Agree(sh, dec.loaded, filled(dec.loaded))
              /\ dec' = [dec EXCEPT !.pc = "size", !.shards = sh]
         \/ /\ \A c \in Contents : ~Serving(dec, c)
            /\ dec' = [dec EXCEPT !.pc = "done", !.exit = "failed"]
<1> DEFINE r == Reconstruct(matrix, DataShards, dec.loaded)
           good == r.err = "nil" /\ Verify(matrix, DataShards, r.shards)
<1>1. CASE Verify(matrix, DataShards, dec.loaded)
  BY <1>1 DEF DecoderRepairs
<1>2. CASE ~Verify(matrix, DataShards, dec.loaded)
  <2>1. dec' = verifiedAfter(r)
    BY <1>2 DEF DecoderRepairs
  <2>2. CASE good
    <3>1. r.shards \in ShardFile /\ Agree(r.shards, dec.loaded, filled(dec.loaded))
      BY <2>2, ReconstructKeeps DEF ShardFile
    <3> HIDE DEF r
    <3>2. dec' = [dec EXCEPT !.pc = "size", !.shards = r.shards]
      BY <2>1, <2>2 DEF verifiedAfter
    <3> QED BY <2>2, <3>1, <3>2
  <2>3. CASE ~good
    <3>1. \A c \in Contents : Serving(dec, c) =>
            dec' = [dec EXCEPT !.pc = "size", !.shards = codewords[c]]
      BY <2>1, ServedRepairs
    <3> HIDE DEF r
    <3>2. dec' = [dec EXCEPT !.pc = "done", !.exit = "failed"]
      BY <2>1, <2>3 DEF verifiedAfter
    <3>3. dec'.pc = "done"
      BY <3>2 DEF Dec
    <3>4. \A c \in Contents : ~Serving(dec, c)
      <4>1. ASSUME NEW c \in Contents, Serving(dec, c) PROVE FALSE
        <5>1. dec' = [dec EXCEPT !.pc = "size", !.shards = codewords[c]]
          BY <3>1, <4>1
        <5>2. dec'.pc = "size"
          BY <5>1 DEF Dec
        <5> QED BY <3>3, <5>2
      <4> QED BY <4>1
    <3> QED BY <3>2, <3>4
  <2> QED BY <2>2, <2>3
<1> QED BY <1>1, <1>2

-----------------------------------------------------------------------------
DecoderKept == dec' \in Dec /\ DecoderSound(dec', output')

(* A decoder that has not exited and goes on.                              *)
LEMMA GoesOn ==
  ASSUME NEW d \in Dec, NEW out, d.exit = "none",
         d.pc \in {"size", "create", "join"} => Accepted(d),
         d.pc \in {"create", "join"} => Within(d)
  PROVE  DecoderSound(d, out)
  BY DEF DecoderSound, DecoderOpen, DecoderAccepted, DecoderWithin, DecoderWrote, DecoderGaveUp

(* Each step of the decoder.                                               *)
LEMMA RepairsKeeps ==
  ASSUME MatrixEncodes, dec \in Dec, DecoderSound(dec, output), DecoderRepairs
  PROVE  DecoderKept
<1>1. dec.pc = "read" /\ dec.loaded \in ShardFile /\ dec.exit = "none"
  BY DEF DecoderRepairs, Dec, DecoderSound, DecoderOpen
<1>2. ASSUME NEW sh \in ShardFile, Verify(matrix, DataShards, sh),
             Agree(sh, dec.loaded, filled(dec.loaded)),
             dec' = [dec EXCEPT !.pc = "size", !.shards = sh]
      PROVE  DecoderKept
  <2>1. dec' \in Dec
    BY <1>2 DEF Dec
  <2>2. dec'.pc = "size" /\ dec'.exit = "none" /\ dec'.shards = sh /\ dec'.loaded = dec.loaded
    BY <1>1, <1>2 DEF Dec
  <2>3. Accepted(dec')
    BY <1>2, <2>2 DEF Accepted
  <2> QED BY <2>1, <2>2, <2>3, GoesOn DEF DecoderKept
<1>3. ASSUME \A c \in Contents : ~Serving(dec, c),
             dec' = [dec EXCEPT !.pc = "done", !.exit = "failed"]
      PROVE  DecoderKept
  <2>1. dec' \in Dec
    BY <1>3 DEF Dec
  <2>2. dec'.pc = "done" /\ dec'.exit = "failed" /\ dec'.loaded = dec.loaded
    BY <1>1, <1>3 DEF Dec
  <2>3. \A c \in Contents : ~Serving(dec', c)
    BY <1>3, <2>2 DEF Serving
  <2> QED BY <2>1, <2>2, <2>3
          DEF DecoderKept, DecoderSound, DecoderOpen, DecoderAccepted, DecoderWithin,
              DecoderWrote, DecoderGaveUp
<1>4. Agree(dec.loaded, dec.loaded, filled(dec.loaded))
  BY DEF Agree
<1> QED BY <1>1, <1>2, <1>3, <1>4, RepairedIs

LEMMA ReadsSizeKeeps ==
  ASSUME dec \in Dec, sizeFile \in Nat, DecoderSound(dec, output), DecoderReadsSize
  PROVE  DecoderKept
<1> DEFINE all == Len(dec.shards[0]) * DataShards
           sized == 0 < sizeFile /\ sizeFile <= all
           size == IF sized THEN sizeFile ELSE all
<1>1. dec.pc = "size" /\ dec.exit = "none" /\ Accepted(dec)
  BY DEF DecoderReadsSize, DecoderSound, DecoderOpen, DecoderAccepted
<1>2. all \in Nat
  <2>1. 0 \in Index
    BY Counts DEF Index
  <2>2. dec.shards[0] \in Seq(Byte)
    BY <2>1 DEF Dec, ShardFile
  <2>3. Len(dec.shards[0]) \in Nat
    BY <2>2
  <2> QED BY <2>3, Counts, TimesNext
<1>3. dec' = [dec EXCEPT !.pc = "create", !.sized = sized, !.outputSize = size]
  BY DEF DecoderReadsSize
<1>4. sized \in BOOLEAN
  OBVIOUS
<1> HIDE DEF all
<1>5. size \in Nat /\ size <= all
  BY <1>2
<1> HIDE DEF sized, size
<1>6. dec' \in Dec
  BY <1>3, <1>4, <1>5 DEF Dec
<1>7. /\ dec'.pc = "create" /\ dec'.exit = "none" /\ dec'.outputSize = size
      /\ dec'.shards = dec.shards /\ dec'.loaded = dec.loaded
  BY <1>1, <1>3 DEF Dec
<1>8. Accepted(dec') /\ Within(dec')
  BY <1>1, <1>5, <1>7 DEF Accepted, Within, all
<1> QED BY <1>6, <1>7, <1>8, GoesOn DEF DecoderKept

LEMMA CreatesKeeps ==
  ASSUME dec \in Dec, DecoderSound(dec, output), DecoderCreates
  PROVE  DecoderKept
<1>1. dec.pc = "create" /\ dec.exit = "none" /\ Accepted(dec) /\ Within(dec)
  BY DEF DecoderCreates, DecoderSound, DecoderOpen, DecoderAccepted, DecoderWithin
<1>2. dec' = [dec EXCEPT !.pc = "join"]
  BY DEF DecoderCreates
<1>3. dec' \in Dec
  BY <1>2 DEF Dec
<1>4. /\ dec'.pc = "join" /\ dec'.exit = "none" /\ dec'.outputSize = dec.outputSize
      /\ dec'.shards = dec.shards /\ dec'.loaded = dec.loaded
  BY <1>1, <1>2 DEF Dec
<1>5. Accepted(dec') /\ Within(dec')
  BY <1>1, <1>4 DEF Accepted, Within
<1> QED BY <1>3, <1>4, <1>5, GoesOn DEF DecoderKept

LEMMA JoinsKeeps ==
  ASSUME MatrixEncodes, dec \in Dec, DecoderSound(dec, output), DecoderJoins
  PROVE  DecoderKept
<1> DEFINE joined == Join(DataShards, dec.shards, dec.outputSize)
           exit == IF joined.err = "nil" THEN "ok" ELSE "failed"
<1>1. dec.pc = "join" /\ dec.exit = "none" /\ Accepted(dec) /\ Within(dec)
  BY DEF DecoderJoins, DecoderSound, DecoderOpen, DecoderAccepted, DecoderWithin
<1>2. dec' = [dec EXCEPT !.pc = "done", !.exit = exit] /\ output' = joined.data
  BY DEF DecoderJoins
<1>3. dec.loaded \in ShardFile /\ dec.shards \in ShardFile /\ dec.outputSize \in Nat
  BY DEF Dec
<1>4. exit = "ok" => joined.data = SubSeq(concat(dec.shards, DataShards), 1, dec.outputSize)
  BY JoinedData
<1>5. exit = "failed" => \A c \in Contents : ~Serving(dec, c)
  <2>1. ASSUME NEW c \in Contents, Serving(dec, c) PROVE joined.err = "nil"
    BY <1>1, <1>3, <2>1, ServedJoins
  <2> HIDE DEF joined
  <2> QED BY <2>1
<1>6. exit \in {"ok", "failed"}
  OBVIOUS
<1> HIDE DEF joined, exit
<1>7. dec' \in Dec
  BY <1>2, <1>6 DEF Dec
<1>8. /\ dec'.pc = "done" /\ dec'.exit = exit /\ dec'.outputSize = dec.outputSize
      /\ dec'.shards = dec.shards /\ dec'.loaded = dec.loaded
  BY <1>1, <1>2 DEF Dec
<1>9. Accepted(dec') /\ Within(dec')
  BY <1>1, <1>8 DEF Accepted, Within
<1>10. exit = "failed" => \A c \in Contents : ~Serving(dec', c)
  BY <1>5, <1>8 DEF Serving
<1>11. exit = "ok" => output' = SubSeq(concat(dec'.shards, DataShards), 1, dec'.outputSize)
  BY <1>2, <1>4, <1>8
<1> QED BY <1>7, <1>8, <1>9, <1>10, <1>11
        DEF DecoderKept, DecoderSound, DecoderOpen, DecoderAccepted, DecoderWithin,
            DecoderWrote, DecoderGaveUp

(* All of them.                                                            *)
LEMMA DecoderKeeps ==
  ASSUME MatrixEncodes, programs = "commands", programs' = programs, CommandsTyped, DecoderInv,
         DecoderStep
  PROVE  CommandsTyped' /\ DecoderInv'
<1>0. /\ file \in ShardFile /\ sizeFile \in Nat /\ dec \in Dec /\ DecoderSound(dec, output)
  BY DEF CommandsTyped, DecoderInv, Dec
<1>1. UNCHANGED <<file, sizeFile, enc>>
  BY DEF DecoderStep, DecoderStarts, DecoderReads, DecoderRepairs, DecoderReadsSize,
         DecoderCreates, DecoderJoins, DecoderKilled, diskVars
<1>2. DecoderKept
  <2>1. CASE DecoderStarts
    <3>1. noShards \in ShardFile
      BY DEF noShards, ShardFile
    <3>2. noDecoder \in Dec
      BY <3>1 DEF noDecoder, Dec
    <3>3. dec' = [noDecoder EXCEPT !.pc = "read"]
      BY <2>1 DEF DecoderStarts
    <3>4. dec' \in Dec
      BY <3>2, <3>3 DEF Dec
    <3>5. dec'.pc = "read" /\ dec'.exit = "none"
      BY <3>3 DEF noDecoder
    <3> QED BY <3>4, <3>5, GoesOn DEF DecoderKept
  <2>2. CASE DecoderReads
    <3>1. dec.pc = "read" /\ dec.exit = "none"
      BY <1>0, <2>2 DEF DecoderReads, DecoderSound, DecoderOpen
    <3> DEFINE ld == [dec.loaded EXCEPT ![dec.next] = file[dec.next]]
    <3>2. dec' = [dec EXCEPT !.loaded = ld, !.next = dec.next + 1]
      BY <1>0, <2>2 DEF DecoderReads, Dec
    <3>3. ld \in ShardFile
      <4>1. dec.loaded \in ShardFile
        BY <1>0 DEF Dec
      <4>2. \A k \in Index : file[k] \in Seq(Byte)
        BY <1>0 DEF ShardFile
      <4> QED BY <4>1, <4>2 DEF ShardFile
    <3>4. dec.next + 1 \in Nat
      BY <1>0 DEF Dec
    <3> HIDE DEF ld
    <3>5. dec' \in Dec
      BY <1>0, <3>2, <3>3, <3>4 DEF Dec
    <3>6. dec'.pc = "read" /\ dec'.exit = "none"
      BY <1>0, <3>1, <3>2 DEF Dec
    <3> QED BY <3>5, <3>6, GoesOn DEF DecoderKept
  <2>3. CASE DecoderRepairs
    BY <1>0, <2>3, RepairsKeeps
  <2>4. CASE DecoderReadsSize
    BY <1>0, <2>4, ReadsSizeKeeps
  <2>5. CASE DecoderCreates
    BY <1>0, <2>5, CreatesKeeps
  <2>6. CASE DecoderJoins
    BY <1>0, <2>6, JoinsKeeps
  <2>7. CASE DecoderKilled
    <3>1. dec' = [dec EXCEPT !.pc = "done", !.exit = "killed"]
      BY <2>7 DEF DecoderKilled
    <3>2. dec' \in Dec
      BY <1>0, <3>1 DEF Dec
    <3>3. dec'.pc = "done" /\ dec'.exit = "killed"
      BY <1>0, <3>1 DEF Dec
    <3> QED BY <3>2, <3>3
            DEF DecoderKept, DecoderSound, DecoderOpen, DecoderAccepted, DecoderWithin,
                DecoderWrote, DecoderGaveUp
  <2> QED BY <2>1, <2>2, <2>3, <2>4, <2>5, <2>6, <2>7 DEF DecoderStep
<1> QED BY <1>0, <1>1, <1>2 DEF CommandsTyped, DecoderInv, DecoderKept, Dec

-----------------------------------------------------------------------------

(* CodecInv holds from the start ...                                       *)
LEMMA CodecInvInit == Init => CodecInv
<1> SUFFICES ASSUME Init PROVE CodecInv
  OBVIOUS
<1>1. /\ programs \in {"commands", "streams"} /\ dec = noDecoder /\ enc = noEncoder
      /\ file = noShards /\ sizeFile = 0
  BY DEF Init, CommandsInit, DiskInit
<1>2. noShards \in ShardFile
  BY DEF noShards, ShardFile
<1>3. dec \in Dec /\ dec.pc = "idle" /\ dec.exit = "none"
  BY <1>1, <1>2 DEF noDecoder, Dec
<1>4. DecoderSound(dec, output)
  BY <1>3, GoesOn
<1>5. enc \in Enc
  BY <1>1, <1>2 DEF noEncoder, Enc
<1>6. CommandsTyped
  BY <1>1, <1>2, <1>3, <1>5 DEF CommandsTyped, Enc, Dec
<1> QED BY <1>1, <1>4, <1>6 DEF CodecInv, StreamsAlone, DecoderInv

(* ... damage leaves files of bytes ...                                    *)
LEMMA DamageKeeps ==
  ASSUME file \in ShardFile, NEW i \in Index, Damage(i)
  PROVE  file' \in ShardFile /\ UNCHANGED <<sizeFile, output>>
<1>1. file[i] \in Seq(Byte) /\ file[i] # <<>>
  BY DEF Damage, ShardFile
<1>2. CASE file' = [file EXCEPT ![i] = <<>>]
  <2>1. <<>> \in Seq(Byte)
    OBVIOUS
  <2> QED BY <1>2, <2>1 DEF ShardFile, Damage
<1>3. ASSUME NEW n \in 1..(Len(file[i]) - 1), file' = [file EXCEPT ![i] = SubSeq(@, 1, n)]
      PROVE  file' \in ShardFile
  <2> DEFINE s == file[i]
             cutShort == SubSeq(s, 1, n)
  <2>1. s \in Seq(Byte) /\ n \in 1..(Len(s) - 1)
    BY <1>1
  <2>2. file' = [file EXCEPT ![i] = cutShort]
    BY <1>3
  <2> HIDE DEF s
  <2>3. Len(s) \in Nat /\ n \in Nat /\ n <= Len(s) /\ 1 \in Int
    BY <2>1
  <2>4. \A k \in 1..n : s[k] \in Byte
    BY <2>1, <2>3, ElementOfSeq
  <2>5. cutShort \in Seq(Byte)
    BY <2>3, <2>4, SubSeqProperties
  <2> HIDE DEF cutShort
  <2> QED BY <2>2, <2>5 DEF ShardFile
<1>4. CASE file' = [file EXCEPT ![i][1] = galAdd(@, 1)]
  <2> DEFINE s == file[i]
             changed == [s EXCEPT ![1] = galAdd(s[1], 1)]
  <2>1. s \in Seq(Byte) /\ s # <<>>
    BY <1>1
  <2>2. file' = [file EXCEPT ![i] = changed]
    BY <1>1, <1>4 DEF ShardFile
  <2> HIDE DEF s
  <2>3. s[1] \in Byte
    BY <2>1, ElementOfSeq
  <2>4. galAdd(s[1], 1) \in Byte
    BY <2>3, AddedByte
  <2>5. changed \in Seq(Byte)
    BY <2>1, <2>4, ExceptSeq
  <2> HIDE DEF changed
  <2>6. file' \in ShardFile
    BY <2>2, <2>5 DEF ShardFile
  <2> QED BY <2>6 DEF Damage
<1> QED BY <1>2, <1>3, <1>4 DEF Damage

(* ... every step keeps it ...                                             *)
LEMMA CodecInvNext ==
  ASSUME MatrixEncodes, CodecInv, [Next]_vars
  PROVE  CodecInv'
<1>0. programs \in {"commands", "streams"} /\ StreamsAlone /\ CommandsTyped /\ DecoderInv
  BY DEF CodecInv
<1>1. CASE programs = "commands" /\ CommandStep /\ UNCHANGED <<sEnc, sDec, concurrent, programs>>
  <2>1. programs = "commands" /\ programs' = programs
    BY <1>1
  <2>2. CASE EncoderStep
    <3>1. CommandsTyped' /\ DecoderRest
      BY <1>0, <2>1, <2>2, EncoderKeeps
    <3>2. DecoderInv'
      BY <1>0, <2>1, <3>1, RestKept
    <3> QED BY <2>1, <3>1, <3>2 DEF CodecInv, StreamsAlone
  <2>3. CASE DecoderStep
    <3>1. CommandsTyped' /\ DecoderInv'
      BY <1>0, <2>1, <2>3, DecoderKeeps
    <3> QED BY <2>1, <3>1 DEF CodecInv, StreamsAlone
  <2>4. EncoderStep \/ DecoderStep
    BY <1>1 DEF CommandStep, EncoderStep, DecoderStep
  <2> QED BY <2>2, <2>3, <2>4
<1>2. CASE programs = "streams" /\ StreamStep /\ UNCHANGED <<enc, dec, programs>>
  BY <1>0, <1>2 DEF CodecInv, StreamsAlone, CommandsTyped, DecoderInv
<1>3. CASE FilesDamaged
  <2>1. UNCHANGED <<enc, dec, programs>> /\ \E i \in Index : Damage(i)
    BY <1>3 DEF FilesDamaged
  <2>2. PICK i \in Index : Damage(i)
    BY <2>1
  <2>3. CASE programs = "commands"
    <3>1. file \in ShardFile
      BY <1>0, <2>3 DEF CommandsTyped
    <3>2. file' \in ShardFile /\ UNCHANGED <<sizeFile, output>>
      BY <2>2, <3>1, DamageKeeps
    <3>3. DecoderRest
      BY <2>1, <3>2 DEF DecoderRest
    <3>4. DecoderInv'
      BY <1>0, <2>1, <3>3, RestKept
    <3>5. CommandsTyped'
      BY <1>0, <2>1, <3>2 DEF CommandsTyped
    <3> QED BY <1>0, <2>1, <2>3, <3>4, <3>5 DEF CodecInv, StreamsAlone
  <2>4. CASE programs = "streams"
    BY <1>0, <2>1, <2>4 DEF CodecInv, StreamsAlone, CommandsTyped, DecoderInv
  <2> QED BY <1>0, <2>3, <2>4
<1>4. CASE UNCHANGED vars
  BY <1>0, <1>4 DEF vars, CodecInv, StreamsAlone, CommandsTyped, DecoderInv
<1> QED BY <1>1, <1>2, <1>3, <1>4 DEF Next

(* ... so it always holds.                                                 *)
LEMMA CodecInvAlways ==
  ASSUME MatrixEncodes
  PROVE  Spec => []CodecInv
<1>1. CodecInv /\ [Next]_vars => CodecInv'
  BY CodecInvNext
<1> QED BY <1>1, CodecInvInit, PTL DEF Spec

(* It implies what is promised of a decoder.                               *)
LEMMA InvServes ==
  ASSUME MatrixEncodes, CodecInv
  PROVE  DecodeServes
<1> SUFFICES ASSUME NEW c \in Contents, dec.exit \in {"ok", "failed"},
                    Cardinality(filled(dec.loaded)) >= DataShards,
                    \A i \in filled(dec.loaded) : dec.loaded[i] = codewords[c][i]
             PROVE  /\ dec.exit = "ok"
                    /\ (dec.sized /\ dec.outputSize = Len(c)) => output = c
  BY DEF DecodeServes
<1>1. programs = "commands"
  <2>1. dec # noDecoder
    BY DEF noDecoder
  <2> QED BY <2>1 DEF CodecInv, StreamsAlone
<1>2. dec \in Dec /\ DecoderSound(dec, output)
  BY <1>1 DEF CodecInv, CommandsTyped, DecoderInv, Dec
<1>3. Serving(dec, c)
  BY DEF Serving, Agree
<1>4. dec.exit = "ok"
  BY <1>2, <1>3 DEF DecoderSound, DecoderGaveUp
<1>5. Accepted(dec) /\ output = SubSeq(concat(dec.shards, DataShards), 1, dec.outputSize)
  BY <1>2, <1>4 DEF DecoderSound, DecoderWrote
<1>6. dec.shards = codewords[c] /\ c # <<>>
  BY <1>2, <1>3, <1>5, AcceptedIs DEF Serving, Dec
<1>7. output = SubSeq(paddedData(c), 1, dec.outputSize)
  BY <1>5, <1>6, CodewordConcat
<1>8. SubSeq(paddedData(c), 1, Len(c)) = c
  BY ContentsAssumption, Padded
<1> QED BY <1>4, <1>7, <1>8

(* When the wrong shards leave DataShards out, that many are right.        *)
LEMMA RightOnes ==
  ASSUME NEW sh \in ShardFile, NEW S \in SUBSET filled(sh),
         Cardinality(S) + DataShards <= Cardinality(filled(sh))
  PROVE  Cardinality(filled(sh) \ S) >= DataShards
<1>1. IsFiniteSet(filled(sh))
  <2>1. IsFiniteSet(0..(Shards - 1))
    BY Counts, FS_Interval
  <2>2. filled(sh) \in SUBSET (0..(Shards - 1))
    BY ShardSize DEF Index, ShardFile
  <2> QED BY <2>1, <2>2, FS_Subset
<1>2. /\ IsFiniteSet(S) /\ Cardinality(S) \in Nat /\ Cardinality(filled(sh)) \in Nat
  BY <1>1, FS_Subset, FS_CardinalityType
<1>3. Cardinality(filled(sh) \ S) = Cardinality(filled(sh)) - Cardinality(filled(sh) \cap S)
  BY <1>1, FS_Difference
<1>4. filled(sh) \cap S = S
  OBVIOUS
<1> DEFINE a == Cardinality(filled(sh))
           b == Cardinality(S)
           k == Cardinality(filled(sh) \ S)
<1>5. a \in Nat /\ b \in Nat /\ k = a - b /\ b + DataShards <= a /\ DataShards \in Nat
  BY <1>2, <1>3, <1>4, Counts
<1> HIDE DEF a, b, k
<1>6. k >= DataShards
  BY <1>5
<1> QED BY <1>6 DEF k

LEMMA InvHonest ==
  ASSUME MatrixEncodes, CodecInv
  PROVE  DecodeHonest
<1> DEFINE wrong(c) == {i \in filled(dec.loaded) : dec.loaded[i] # codewords[c][i]}
<1> SUFFICES ASSUME dec.exit = "ok", NEW c \in Contents,
                    Cardinality(wrong(c)) + DataShards <= Cardinality(filled(dec.loaded))
             PROVE  output = SubSeq(paddedData(c), 1, dec.outputSize)
  BY Zenon DEF DecodeHonest
<1>1. programs = "commands"
  <2>1. dec # noDecoder
    BY DEF noDecoder
  <2> QED BY <2>1 DEF CodecInv, StreamsAlone
<1>2. dec \in Dec /\ DecoderSound(dec, output)
  BY <1>1 DEF CodecInv, CommandsTyped, DecoderInv, Dec
<1>3. Accepted(dec) /\ output = SubSeq(concat(dec.shards, DataShards), 1, dec.outputSize)
  BY <1>2 DEF DecoderSound, DecoderWrote
<1> DEFINE right == filled(dec.loaded) \ wrong(c)
<1>4. Cardinality(right) >= DataShards
  <2>1. dec.loaded \in ShardFile /\ wrong(c) \in SUBSET filled(dec.loaded)
    BY <1>2 DEF Dec
  <2> HIDE DEF wrong
  <2> QED BY <2>1, RightOnes
<1>5. Agree(dec.loaded, codewords[c], right)
  BY DEF Agree
<1>6. right \in SUBSET filled(dec.loaded)
  OBVIOUS
<1> HIDE DEF right
<1>7. dec.shards = codewords[c] /\ c # <<>>
  BY <1>2, <1>3, <1>4, <1>5, <1>6, AcceptedIs DEF Dec
<1> QED BY <1>3, <1>7, CodewordConcat

(* A decoder command that read DataShards shards of one content, and none  *)
(* that is not of it, exits with 0 and with the right size writes the      *)
(* content: whatever is encoded, killed and damaged meanwhile.             *)
THEOREM DecoderServes ==
  ASSUME ParityShards # 0
  PROVE  Spec => []DecodeServes
<1>1. MatrixEncodes
  BY AlwaysEncodes
<1>2. CodecInv => DecodeServes
  BY <1>1, InvServes
<1>3. Spec => []CodecInv
  BY <1>1, CodecInvAlways
<1> QED BY <1>2, <1>3, PTL

(* A decoder command that exits with 0 wrote the padded content, as far as *)
(* its size goes, that DataShards of the shards it read belong to: torn,   *)
(* stale and altered shards among the others do not get into the output.   *)
THEOREM DecoderHonest ==
  ASSUME ParityShards # 0
  PROVE  Spec => []DecodeHonest
<1>1. MatrixEncodes
  BY AlwaysEncodes
<1>2. CodecInv => DecodeHonest
  BY <1>1, InvHonest
<1>3. Spec => []CodecInv
  BY <1>1, CodecInvAlways
<1> QED BY <1>2, <1>3, PTL

-----------------------------------------------------------------------------
(* Joining any shards of bytes.                                            *)
LEMMA JoinExists ==
  ASSUME NEW n \in Nat, NEW sh, \A k \in 0..(n - 1) : sh[k] \in Seq(Byte)
  PROVE  \E j : JoinedBy(j, sh, n)
<1> DEFINE P == {m \in 0..n : \E j : JoinedBy(j, sh, m)}
<1>1. 0 \in P
  <2> DEFINE j == [k \in 0..0 |-> <<>>]
  <2>1. \A k \in 0..0 : k = 0
    OBVIOUS
  <2>2. JoinedBy(j, sh, 0)
    BY <2>1 DEF JoinedBy
  <2> QED BY <2>2
<1>2. ASSUME NEW m \in P, m < n PROVE m + 1 \in P
  <2>1. m \in 0..n /\ m + 1 \in 0..n /\ m \in Nat
    BY <1>2
  <2>2. PICK j : JoinedBy(j, sh, m)
    OBVIOUS
  <2> DEFINE o == m + 1
             g == [k \in 0..o |-> IF k = o THEN j[m] \o sh[m] ELSE j[k]]
  <2>3. ASSUME NEW k \in 0..o PROVE g[k] = IF k = 0 THEN <<>> ELSE g[k - 1] \o sh[k - 1]
    <3>1. CASE k = o
      <4>1. k # 0 /\ k - 1 = m /\ m \in 0..o /\ m # o
        BY <2>1, <3>1
      <4> HIDE DEF o
      <4>2. g[k] = j[m] \o sh[m] /\ g[m] = j[m]
        BY <3>1, <4>1
      <4> HIDE DEF g
      <4> QED BY <4>1, <4>2
    <3>2. CASE k # o
      <4>1. k \in 0..m /\ g[k] = j[k] /\ (k # 0 => k - 1 \in 0..o /\ k - 1 # o)
        BY <2>1, <3>2
      <4>2. j[k] = IF k = 0 THEN <<>> ELSE j[k - 1] \o sh[k - 1]
        BY <2>2, <4>1 DEF JoinedBy
      <4>3. k # 0 => g[k - 1] = j[k - 1]
        BY <4>1
      <4> QED BY <4>1, <4>2, <4>3
    <3> QED BY <3>1, <3>2
  <2>4. g = [k \in 0..o |-> g[k]]
    OBVIOUS
  <2> HIDE DEF g
  <2>5. g = [k \in 0..o |-> IF k = 0 THEN <<>> ELSE g[k - 1] \o sh[k - 1]]
    BY <2>3, <2>4
  <2>6. JoinedBy(g, sh, o)
    BY <2>5, Zenon DEF JoinedBy
  <2> QED BY <2>1, <2>6
<1>3. P \in SUBSET (0..n)
  OBVIOUS
<1> HIDE DEF P
<1>4. n \in P
  BY <1>1, <1>2, <1>3, Prefixes
<1> QED BY <1>4 DEF P

(* The joined bytes: at least as many as each shard has.                   *)
Joining(s, sh, n) ==
  /\ s \in Seq(Byte)
  /\ \A i \in 0..(n - 1) : Len(sh[i]) <= Len(s)
  /\ (\A i \in 0..(n - 1) : sh[i] = <<>>) => s = <<>>

(* What concat gives is bytes, at least as many as every shard has.        *)
LEMMA JoinedBytes ==
  ASSUME NEW n \in Nat, NEW sh, \A k \in 0..(n - 1) : sh[k] \in Seq(Byte)
  PROVE  Joining(concat(sh, n), sh, n)
<1> DEFINE j == CHOOSE j : JoinedBy(j, sh, n)
<1>1. JoinedBy(j, sh, n)
  BY JoinExists, Zenon
<1>2. concat(sh, n) = j[n]
  BY Zenon DEF concat, JoinedBy
<1> HIDE DEF j
<1> DEFINE P == {k \in 0..n : Joining(j[k], sh, k)}
<1>3. 0 \in P
  <2>1. j[0] = <<>>
    BY <1>1 DEF JoinedBy
  <2>2. Joining(j[0], sh, 0)
    BY <2>1 DEF Joining
  <2> QED BY <2>2
<1>4. ASSUME NEW k \in P, k < n PROVE k + 1 \in P
  <2> DEFINE o == k + 1
             a == j[k]
             b == sh[k]
  <2>1. k \in 0..n /\ o \in 0..n /\ o # 0 /\ o - 1 = k /\ k \in Nat /\ k \in 0..(n - 1)
    BY <1>4
  <2>2. Joining(a, sh, k)
    OBVIOUS
  <2> HIDE DEF o
  <2>3. j[o] = a \o b
    BY <1>1, <2>1 DEF JoinedBy
  <2>4. a \in Seq(Byte) /\ b \in Seq(Byte)
    BY <2>1, <2>2 DEF Joining
  <2> HIDE DEF a, b
  <2>5. a \o b \in Seq(Byte) /\ Len(a \o b) = Len(a) + Len(b)
    BY <2>4, ConcatProperties
  <2>6. Len(a) \in Nat /\ Len(b) \in Nat
    BY <2>4
  <2>7. \A i \in 0..(o - 1) : i \in 0..(k - 1) \/ i = k
    BY <2>1
  <2>8. ASSUME NEW i \in 0..(o - 1) PROVE Len(sh[i]) <= Len(a \o b)
    <3>1. CASE i \in 0..(k - 1)
      <4>1. Len(sh[i]) <= Len(a)
        BY <2>2, <3>1 DEF Joining
      <4>2. i \in 0..(n - 1)
        BY <2>1, <3>1
      <4>3. Len(sh[i]) \in Nat
        BY <4>2
      <4> QED BY <2>5, <2>6, <4>1, <4>3
    <3>2. CASE i = k
      BY <2>5, <2>6, <3>2 DEF b
    <3> QED BY <2>7, <3>1, <3>2
  <2>9. ASSUME \A i \in 0..(o - 1) : sh[i] = <<>> PROVE a \o b = <<>>
    <3>1. k \in 0..(o - 1) /\ \A i \in 0..(k - 1) : i \in 0..(o - 1)
      BY <2>1
    <3>2. b = <<>> /\ a = <<>>
      BY <2>2, <2>9, <3>1 DEF Joining, b
    <3> QED BY <2>4, <3>2
  <2>10. Joining(j[o], sh, o)
    BY <2>3, <2>5, <2>8, <2>9 DEF Joining
  <2> HIDE DEF P
  <2>11. o \in P
    BY <2>1, <2>10 DEF P
  <2> QED BY <2>11 DEF o
<1>5. P \in SUBSET (0..n)
  OBVIOUS
<1>6. n \in P
  <2> HIDE DEF P
  <2> QED BY <1>3, <1>4, <1>5, Prefixes
<1> QED BY <1>2, <1>6

-----------------------------------------------------------------------------
(* What a stream call holds, for the readers it reads.                     *)
Call == [buf : ShardFile, len : [Index -> 0..streamBS], pos : [Index -> Nat], read : Nat]

Buffers(buf) == buf \in ShardFile /\ \A i \in Index : Len(buf[i]) = streamBS

Reading(c, R) ==
  /\ c \in Call
  /\ Buffers(c.buf)
  /\ \A i \in Index : c.pos[i] <= Len(R[i])

(* A reader hands over the bytes that are there, up to the slice's length. *)
LEMMA GotBytes ==
  ASSUME NEW R \in ShardFile, NEW c, Reading(c, R), NEW i \in Index
  PROVE  /\ readFull(c, R, i) \in Seq(Byte)
         /\ Len(readFull(c, R, i)) = least(c.len[i], Len(R[i]) - c.pos[i])
         /\ Len(readFull(c, R, i)) \in 0..c.len[i]
         /\ c.pos[i] + Len(readFull(c, R, i)) <= Len(R[i])
         /\ \A b \in 1..Len(readFull(c, R, i)) : readFull(c, R, i)[b] = R[i][c.pos[i] + b]
<1> DEFINE s == R[i]
           p == c.pos[i]
           l == c.len[i]
           n == least(l, Len(s) - p)
           g == SubSeq(s, p + 1, p + n)
<1>1. s \in Seq(Byte) /\ p \in Nat /\ l \in 0..streamBS /\ p <= Len(s) /\ streamBS \in Nat
  BY BlockAssumption DEF Reading, Call, ShardFile
<1>2. readFull(c, R, i) = g
  BY Zenon DEF readFull
<1> HIDE DEF s, p, l
<1>3. Len(s) \in Nat
  BY <1>1
<1>4. n \in 0..l /\ p + n <= Len(s) /\ n \in Nat
  BY <1>1, <1>3 DEF least
<1> HIDE DEF n
<1>5. \A k \in (p + 1)..(p + n) : s[k] \in Byte
  BY <1>1, <1>3, <1>4, ElementOfSeq
<1>6. /\ g \in Seq(Byte)
      /\ Len(g) = IF p + 1 <= p + n THEN p + n - (p + 1) + 1 ELSE 0
      /\ \A k \in 1..(p + n - (p + 1) + 1) : g[k] = s[p + 1 + k - 1]
  BY <1>1, <1>4, <1>5, SubSeqProperties
<1> HIDE DEF g
<1>7. Len(g) = n
  BY <1>1, <1>4, <1>6
<1>8. \A k \in 1..n : g[k] = s[p + k]
  <2>1. p + n - (p + 1) + 1 = n /\ \A k \in 1..n : p + 1 + k - 1 = p + k
    BY <1>1, <1>4
  <2> QED BY <1>6, <2>1
<1>9. /\ g \in Seq(Byte) /\ Len(g) = n /\ Len(g) \in 0..l /\ p + Len(g) <= Len(s)
      /\ \A b \in 1..Len(g) : g[b] = s[p + b]
  BY <1>4, <1>6, <1>7, <1>8
<1> QED BY <1>2, <1>9 DEF s, p, l, n

(* A buffer with new bytes at its front keeps its length.                  *)
LEMMA Overwritten ==
  ASSUME NEW g \in Seq(Byte), NEW s \in Seq(Byte), Len(s) = streamBS, Len(g) <= streamBS
  PROVE  /\ g \o SubSeq(s, Len(g) + 1, streamBS) \in Seq(Byte)
         /\ Len(g \o SubSeq(s, Len(g) + 1, streamBS)) = streamBS
         /\ SubSeq(g \o SubSeq(s, Len(g) + 1, streamBS), 1, Len(g)) = g
<1> DEFINE n == Len(g)
           t == SubSeq(s, n + 1, streamBS)
<1>1. n \in Nat /\ streamBS \in Nat /\ n <= streamBS
  BY BlockAssumption
<1> HIDE DEF n
<1>2. \A k \in (n + 1)..streamBS : s[k] \in Byte
  BY <1>1, ElementOfSeq
<1>3. t \in Seq(Byte) /\ Len(t) = IF n + 1 <= streamBS THEN streamBS - (n + 1) + 1 ELSE 0
  BY <1>1, <1>2, SubSeqProperties
<1> HIDE DEF t
<1>4. Len(t) = streamBS - n
  BY <1>1, <1>3
<1>5. /\ g \o t \in Seq(Byte) /\ Len(g \o t) = Len(g) + Len(t)
      /\ \A k \in 1..(Len(g) + Len(t)) : (g \o t)[k] = IF k <= Len(g) THEN g[k] ELSE t[k - Len(g)]
  BY <1>3, ConcatProperties
<1> DEFINE w == g \o t
           u == SubSeq(w, 1, n)
<1>6. w \in Seq(Byte) /\ Len(w) = streamBS /\ \A k \in 1..n : w[k] = g[k]
  <2>1. Len(g) = n
    BY DEF n
  <2> QED BY <1>1, <1>4, <1>5, <2>1
<1> HIDE DEF w
<1>7. \A k \in 1..n : w[k] \in Byte
  BY <1>1, <1>6, ElementOfSeq
<1>8. /\ u \in Seq(Byte) /\ Len(u) = IF 1 <= n THEN n - 1 + 1 ELSE 0
      /\ \A k \in 1..(n - 1 + 1) : u[k] = w[1 + k - 1]
  BY <1>1, <1>7, SubSeqProperties
<1> HIDE DEF u
<1>9. Len(u) = n /\ \A k \in 1..n : u[k] = g[k]
  <2>1. n - 1 + 1 = n /\ \A k \in 1..n : 1 + k - 1 = k
    BY <1>1
  <2> QED BY <1>1, <1>6, <1>8, <2>1
<1>10. u = g
  <2>1. Len(g) = n
    BY DEF n
  <2> QED BY <1>8, <1>9, <2>1, SeqEqual
<1> QED BY <1>6, <1>10 DEF w, u, t, n

(* A slice of a buffer.                                                    *)
LEMMA Sliced ==
  ASSUME NEW s \in Seq(Byte), NEW n \in 0..Len(s)
  PROVE  SubSeq(s, 1, n) \in Seq(Byte) /\ Len(SubSeq(s, 1, n)) = n
<1>1. n \in Nat /\ Len(s) \in Nat /\ n <= Len(s)
  OBVIOUS
<1>2. \A k \in 1..n : s[k] \in Byte
  BY <1>1, ElementOfSeq
<1>3. /\ SubSeq(s, 1, n) \in Seq(Byte)
      /\ Len(SubSeq(s, 1, n)) = IF 1 <= n THEN n - 1 + 1 ELSE 0
  BY <1>1, <1>2, SubSeqProperties
<1> DEFINE u == SubSeq(s, 1, n)
<1> HIDE DEF u
<1>4. u \in Seq(Byte) /\ Len(u) = n
  BY <1>1, <1>3 DEF u
<1> QED BY <1>4 DEF u

-----------------------------------------------------------------------------
(* One round over the readers of a set: what each hands over, and which    *)
(* slices are shortened.                                                   *)
gotOf(c, R, set) == [i \in Index |-> IF i \in set THEN readFull(c, R, i) ELSE <<>>]
endedOf(c, R, set) == {i \in set : R[i] # <<>> /\ Len(gotOf(c, R, set)[i]) < c.len[i]}
missingOf(R, set) == {i \in set : R[i] = <<>>}

(* A round, with its parts named.                                          *)
LEMMA ReadIs ==
  ASSUME NEW c, NEW R, NEW set
  PROVE  readBlock(c, R, set) =
           [err  |-> IF concurrent THEN cReadShards(gotOf(c, R, set), endedOf(c, R, set))
                     ELSE readShards(gotOf(c, R, set), endedOf(c, R, set)),
            call |-> [c EXCEPT
              !.buf = [i \in Index |-> gotOf(c, R, set)[i]
                         \o SubSeq(@[i], Len(gotOf(c, R, set)[i]) + 1, streamBS)],
              !.len = [i \in Index |-> IF i \in endedOf(c, R, set) \cup missingOf(R, set)
                                       THEN Len(gotOf(c, R, set)[i]) ELSE @[i]],
              !.pos = [i \in Index |-> @[i] + Len(gotOf(c, R, set)[i])],
              !.read = @ + Len(concat(gotOf(c, R, set), Shards))]]
  BY Zenon DEF readBlock, gotOf, endedOf, missingOf

(* The call after such a round.                                            *)
After(c, R, set, d) ==
  /\ d.buf = [i \in Index |-> gotOf(c, R, set)[i]
                \o SubSeq(c.buf[i], Len(gotOf(c, R, set)[i]) + 1, streamBS)]
  /\ d.len = [i \in Index |-> IF i \in endedOf(c, R, set) \cup missingOf(R, set)
                              THEN Len(gotOf(c, R, set)[i]) ELSE c.len[i]]
  /\ d.pos = [i \in Index |-> c.pos[i] + Len(gotOf(c, R, set)[i])]
  /\ d.read = c.read + Len(concat(gotOf(c, R, set), Shards))
  /\ d \in [buf : {d.buf}, len : {d.len}, pos : {d.pos}, read : {d.read}]

(* A round leaves such a call and reports what its kind of read reports.   *)
LEMMA ReadAfter ==
  ASSUME NEW R, NEW c, Reading(c, R), NEW set
  PROVE  /\ After(c, R, set, readBlock(c, R, set).call)
         /\ concurrent => readBlock(c, R, set).err = cReadShards(gotOf(c, R, set), endedOf(c, R, set))
         /\ ~concurrent => readBlock(c, R, set).err = readShards(gotOf(c, R, set), endedOf(c, R, set))
<1> DEFINE g == gotOf(c, R, set)
           e == endedOf(c, R, set)
           m == missingOf(R, set)
           k == Len(concat(g, Shards))
           ce == cReadShards(g, e)
           se == readShards(g, e)
           r == readBlock(c, R, set)
<1>1. c \in Call
  BY DEF Reading
<1>2. r = [err  |-> IF concurrent THEN ce ELSE se,
           call |-> [c EXCEPT
              !.buf = [i \in Index |-> g[i] \o SubSeq(@[i], Len(g[i]) + 1, streamBS)],
              !.len = [i \in Index |-> IF i \in e \cup m THEN Len(g[i]) ELSE @[i]],
              !.pos = [i \in Index |-> @[i] + Len(g[i])],
              !.read = @ + k]]
  BY ReadIs
<1> HIDE DEF g, e, m, k, r, ce, se
<1>3. /\ r.call.buf = [i \in Index |-> g[i] \o SubSeq(c.buf[i], Len(g[i]) + 1, streamBS)]
      /\ r.call.len = [i \in Index |-> IF i \in e \cup m THEN Len(g[i]) ELSE c.len[i]]
      /\ r.call.pos = [i \in Index |-> c.pos[i] + Len(g[i])]
      /\ r.call.read = c.read + k
      /\ r.call \in [buf : {r.call.buf}, len : {r.call.len}, pos : {r.call.pos},
                     read : {r.call.read}]
  BY <1>1, <1>2 DEF Call
<1>4. (concurrent => r.err = ce) /\ (~concurrent => r.err = se)
  BY <1>2
<1>5. After(c, R, set, r.call)
  BY <1>3 DEF After, g, e, m, k
<1> QED BY <1>4, <1>5 DEF r, ce, se, g, e

(* What was handed over is bytes.                                          *)
LEMMA GotTyped ==
  ASSUME NEW R \in ShardFile, NEW c, Reading(c, R), NEW set \in SUBSET Index
  PROVE  /\ gotOf(c, R, set) \in ShardFile
         /\ \A i \in set : gotOf(c, R, set)[i] = readFull(c, R, i)
         /\ \A i \in Index \ set : gotOf(c, R, set)[i] = <<>>
         /\ \A i \in Index : /\ Len(gotOf(c, R, set)[i]) \in 0..c.len[i]
                             /\ Len(gotOf(c, R, set)[i]) <= streamBS
                             /\ c.pos[i] + Len(gotOf(c, R, set)[i]) <= Len(R[i])
<1>0. \A i \in Index : c.len[i] \in 0..streamBS /\ c.pos[i] \in Nat /\ c.pos[i] <= Len(R[i])
  BY DEF Reading, Call
<1>1. /\ \A i \in set : gotOf(c, R, set)[i] = readFull(c, R, i)
      /\ \A i \in Index \ set : gotOf(c, R, set)[i] = <<>>
      /\ DOMAIN gotOf(c, R, set) = Index
  BY DEF gotOf
<1> DEFINE g == gotOf(c, R, set)
<1>2. g = [i \in Index |-> g[i]]
  BY DEF gotOf
<1> HIDE DEF g
<1>3. ASSUME NEW i \in Index
      PROVE  g[i] \in Seq(Byte) /\ Len(g[i]) \in 0..c.len[i] /\ c.pos[i] + Len(g[i]) <= Len(R[i])
  <2>1. CASE i \in set
    <3>1. g[i] = readFull(c, R, i)
      BY <1>1, <2>1 DEF g
    <3> QED BY <3>1, GotBytes
  <2>2. CASE i \notin set
    <3>1. g[i] = <<>>
      BY <1>1, <2>2 DEF g
    <3> QED BY <1>0, <3>1
  <2> QED BY <2>1, <2>2
<1>4. g \in ShardFile
  BY <1>2, <1>3 DEF ShardFile
<1>5. \A i \in Index : Len(g[i]) <= streamBS
  BY <1>0, <1>3, BlockAssumption
<1> QED BY <1>1, <1>3, <1>4, <1>5 DEF g

(* The call can go on after a round, and what was read lies in the slices  *)
(* of the readers that were read.                                          *)
LEMMA ReadTyped ==
  ASSUME NEW R \in ShardFile, NEW c, Reading(c, R), NEW set \in SUBSET Index
  PROVE  /\ Reading(readBlock(c, R, set).call, R)
         /\ \A i \in set : slices(readBlock(c, R, set).call)[i] = gotOf(c, R, set)[i]
<1> DEFINE d == readBlock(c, R, set).call
           g == gotOf(c, R, set)
<1>1. After(c, R, set, d)
  BY ReadAfter
<1>2. /\ c \in Call /\ Buffers(c.buf)
      /\ \A i \in Index : c.buf[i] \in Seq(Byte) /\ Len(c.buf[i]) = streamBS
      /\ \A i \in Index : c.len[i] \in 0..streamBS /\ c.pos[i] \in Nat /\ c.pos[i] <= Len(R[i])
      /\ c.read \in Nat /\ streamBS \in Nat
  BY BlockAssumption DEF Reading, Call, Buffers, ShardFile
<1>3. /\ g \in ShardFile
      /\ \A i \in Index : g[i] \in Seq(Byte) /\ Len(g[i]) \in 0..c.len[i] /\ Len(g[i]) <= streamBS
                          /\ c.pos[i] + Len(g[i]) <= Len(R[i])
  <2>1. g \in ShardFile
    BY GotTyped
  <2>2. \A i \in Index : g[i] \in Seq(Byte)
    BY <2>1 DEF ShardFile
  <2> QED BY <2>1, <2>2, GotTyped
<1>4. concat(g, Shards) \in Seq(Byte)
  <2>1. \A k \in 0..(Shards - 1) : g[k] \in Seq(Byte)
    BY <1>3 DEF Index
  <2>2. Joining(concat(g, Shards), g, Shards)
    BY <2>1, Counts, JoinedBytes
  <2> QED BY <2>2 DEF Joining
<1>5. \A i \in endedOf(c, R, set) \cup missingOf(R, set) : i \in Index
  BY DEF endedOf, missingOf
<1>6. \A i \in set : i \in endedOf(c, R, set) \cup missingOf(R, set) \/ Len(g[i]) = c.len[i]
  <2> SUFFICES ASSUME NEW i \in set, R[i] # <<>>, ~(Len(g[i]) < c.len[i]) PROVE Len(g[i]) = c.len[i]
    BY DEF endedOf, missingOf
  <2>1. Len(g[i]) \in 0..c.len[i] /\ c.len[i] \in Nat
    BY <1>2, <1>3
  <2> QED BY <2>1
<1> DEFINE short == endedOf(c, R, set) \cup missingOf(R, set)
<1>7. /\ d.buf = [i \in Index |-> g[i] \o SubSeq(c.buf[i], Len(g[i]) + 1, streamBS)]
      /\ d.len = [i \in Index |-> IF i \in short THEN Len(g[i]) ELSE c.len[i]]
      /\ d.pos = [i \in Index |-> c.pos[i] + Len(g[i])]
      /\ d.read = c.read + Len(concat(g, Shards))
      /\ d \in [buf : {d.buf}, len : {d.len}, pos : {d.pos}, read : {d.read}]
  BY <1>1 DEF After
<1> HIDE DEF d, g, short
<1>20. ASSUME NEW i \in Index
       PROVE  /\ d.buf[i] \in Seq(Byte) /\ Len(d.buf[i]) = streamBS
              /\ SubSeq(d.buf[i], 1, Len(g[i])) = g[i]
  <2> DEFINE s == c.buf[i]
             n == g[i]
  <2>1. s \in Seq(Byte) /\ Len(s) = streamBS /\ n \in Seq(Byte) /\ Len(n) <= streamBS
    BY <1>2, <1>3
  <2>2. d.buf[i] = n \o SubSeq(s, Len(n) + 1, streamBS)
    BY <1>7
  <2> HIDE DEF s, n
  <2>3. /\ d.buf[i] \in Seq(Byte) /\ Len(d.buf[i]) = streamBS
        /\ SubSeq(d.buf[i], 1, Len(n)) = n
    BY <2>1, <2>2, Overwritten
  <2> QED BY <2>3 DEF n
<1>8. \A i \in Index : d.buf[i] \in Seq(Byte) /\ Len(d.buf[i]) = streamBS
  BY <1>20
<1>9. d.buf \in ShardFile
  BY <1>7, <1>8 DEF ShardFile
<1>10. \A i \in Index : d.len[i] \in 0..streamBS /\ d.len[i] \in {Len(g[i]), c.len[i]}
  BY <1>2, <1>3, <1>7
<1>11. d.len \in [Index -> 0..streamBS]
  BY <1>7, <1>10
<1>12. \A i \in Index : d.pos[i] \in Nat /\ d.pos[i] <= Len(R[i])
  BY <1>2, <1>3, <1>7
<1>13. d.pos \in [Index -> Nat]
  BY <1>7, <1>12
<1>14. d.read \in Nat
  <2> DEFINE s == concat(g, Shards)
  <2> HIDE DEF s
  <2>1. d.read = c.read + Len(s) /\ s \in Seq(Byte)
    BY <1>4, <1>7 DEF s
  <2> QED BY <1>2, <2>1
<1>15. d \in Call
  BY <1>7, <1>9, <1>11, <1>13, <1>14 DEF Call
<1>16. Reading(d, R)
  BY <1>8, <1>9, <1>12, <1>15 DEF Reading, Buffers
<1>17. ASSUME NEW i \in set PROVE slices(d)[i] = g[i]
  <2>1. i \in Index /\ d.len[i] = Len(g[i])
    BY <1>6, <1>7 DEF short, g
  <2>2. slices(d)[i] = SubSeq(d.buf[i], 1, d.len[i])
    BY <2>1 DEF slices
  <2>3. SubSeq(d.buf[i], 1, Len(g[i])) = g[i]
    BY <1>20, <2>1
  <2> QED BY <2>1, <2>2, <2>3
<1> QED BY <1>16, <1>17 DEF d, g

-----------------------------------------------------------------------------
(* What the readers that end within a block make of it.                    *)
SameLength(g, e) == \A i, j \in e : Len(g[i]) = Len(g[j])
NoBytes(g, e) == \A i \in e : g[i] = <<>>

(* In the order of the readers or of their arrival, the outcome is one.    *)
LEMMA ReadErrors ==
  ASSUME NEW g \in ShardFile, NEW e \in SUBSET Index, NEW err,
         err = readShards(g, e) \/ err = cReadShards(g, e)
  PROVE  /\ err \in {"nil", "EOF", "ErrShardSize"}
         /\ err = "EOF" => e # {} /\ NoBytes(g, e)
         /\ err = "nil" => SameLength(g, e)
         /\ SameLength(g, e) /\ ~NoBytes(g, e) => err = "nil"
         /\ e = {} => err = "nil"
         /\ e # {} /\ NoBytes(g, e) => err = "EOF"
<1>1. \A i \in e : g[i] \in Seq(Byte) /\ (g[i] = <<>> <=> Len(g[i]) = 0)
  BY DEF ShardFile
<1>2. CASE err = cReadShards(g, e)
  <2>1. err = IF \E i, j \in e : Len(g[i]) # Len(g[j]) THEN "ErrShardSize"
              ELSE IF \E i \in e : g[i] = <<>> THEN "EOF" ELSE "nil"
    BY <1>2, Zenon DEF cReadShards
  <2> QED BY <1>1, <2>1 DEF SameLength, NoBytes
<1>3. CASE err = readShards(g, e)
  <2> DEFINE first == CHOOSE i \in e : \A j \in e : i <= j
  <2>1. err = IF e = {} THEN "nil"
              ELSE IF \E i \in e : Len(g[i]) # Len(g[first]) THEN "ErrShardSize"
              ELSE IF g[first] = <<>> THEN "EOF" ELSE "nil"
    BY <1>3, Zenon DEF readShards
  <2>2. e # {} => first \in e
    <3>1. e \in SUBSET Nat
      BY Counts DEF Index
    <3>2. e # {} => \E i \in e : \A j \in e : i <= j
      BY <3>1, LeastNumber
    <3> QED BY <3>2, Zenon
  <2> HIDE DEF first
  <2> QED BY <1>1, <2>1, <2>2 DEF SameLength, NoBytes
<1> QED BY <1>2, <1>3

(* The same of a round.                                                    *)
LEMMA BlockErrors ==
  ASSUME NEW R \in ShardFile, NEW c, Reading(c, R), NEW set \in SUBSET Index
  PROVE  LET err == readBlock(c, R, set).err
             g == gotOf(c, R, set)
             e == endedOf(c, R, set)
         IN  /\ err \in {"nil", "EOF", "ErrShardSize"}
             /\ err = "EOF" => e # {} /\ NoBytes(g, e)
             /\ err = "nil" => SameLength(g, e)
             /\ SameLength(g, e) /\ ~NoBytes(g, e) => err = "nil"
             /\ e = {} => err = "nil"
             /\ e # {} /\ NoBytes(g, e) => err = "EOF"
<1> DEFINE err == readBlock(c, R, set).err
           g == gotOf(c, R, set)
           e == endedOf(c, R, set)
<1>1. err = readShards(g, e) \/ err = cReadShards(g, e)
  BY ReadAfter
<1>2. g \in ShardFile /\ e \in SUBSET Index
  BY GotTyped DEF endedOf
<1> HIDE DEF err, g, e
<1>3. /\ err \in {"nil", "EOF", "ErrShardSize"}
      /\ err = "EOF" => e # {} /\ NoBytes(g, e)
      /\ err = "nil" => SameLength(g, e)
      /\ SameLength(g, e) /\ ~NoBytes(g, e) => err = "nil"
      /\ e = {} => err = "nil"
      /\ e # {} /\ NoBytes(g, e) => err = "EOF"
  BY <1>1, <1>2, ReadErrors
<1> QED BY <1>3, Zenon DEF err, g, e

-----------------------------------------------------------------------------
(* The rounds of Verify.                                                   *)
firstRound(buf) == [call |-> createSlice(buf), verdict |-> "none"]

roundAfter(last, R) ==
  IF last.verdict # "none" THEN last
  ELSE [call |-> readBlock(last.call, R, Index).call,
        verdict |-> verifyBlock(last.call, readBlock(last.call, R, Index))]

Rounds(f, buf, R, n) ==
  f = [k \in 0..n |-> IF k = 0 THEN firstRound(buf) ELSE roundAfter(f[k - 1], R)]

roundsOf(R) == 1 + Len(concat(R, Shards))

(* There is a sequence of them, for any number.                            *)
LEMMA RoundsExist ==
  ASSUME NEW n \in Nat, NEW buf, NEW R
  PROVE  \E f : Rounds(f, buf, R, n)
<1> DEFINE P == {m \in 0..n : \E f : Rounds(f, buf, R, m)}
<1>1. 0 \in P
  <2> DEFINE f == [k \in 0..0 |-> firstRound(buf)]
  <2>1. \A k \in 0..0 : k = 0
    OBVIOUS
  <2>2. Rounds(f, buf, R, 0)
    BY <2>1 DEF Rounds
  <2> QED BY <2>2
<1>2. ASSUME NEW m \in P, m < n PROVE m + 1 \in P
  <2>1. m \in 0..n /\ m + 1 \in 0..n /\ m \in Nat
    BY <1>2
  <2>2. PICK f : Rounds(f, buf, R, m)
    OBVIOUS
  <2> DEFINE o == m + 1
             g == [k \in 0..o |-> IF k = o THEN roundAfter(f[m], R) ELSE f[k]]
  <2>3. ASSUME NEW k \in 0..o
        PROVE  g[k] = IF k = 0 THEN firstRound(buf) ELSE roundAfter(g[k - 1], R)
    <3>1. CASE k = o
      <4>1. k # 0 /\ k - 1 = m /\ m \in 0..o /\ m # o
        BY <2>1, <3>1
      <4> HIDE DEF o
      <4>2. g[k] = roundAfter(f[m], R) /\ g[m] = f[m]
        BY <3>1, <4>1
      <4> HIDE DEF g
      <4> QED BY <4>1, <4>2
    <3>2. CASE k # o
      <4>1. k \in 0..m /\ g[k] = f[k] /\ (k # 0 => k - 1 \in 0..o /\ k - 1 # o)
        BY <2>1, <3>2
      <4>2. f[k] = IF k = 0 THEN firstRound(buf) ELSE roundAfter(f[k - 1], R)
        BY <2>2, <4>1 DEF Rounds
      <4>3. k # 0 => g[k - 1] = f[k - 1]
        BY <4>1
      <4> QED BY <4>1, <4>2, <4>3
    <3> QED BY <3>1, <3>2
  <2>4. g = [k \in 0..o |-> g[k]]
    OBVIOUS
  <2> HIDE DEF g
  <2>5. g = [k \in 0..o |-> IF k = 0 THEN firstRound(buf) ELSE roundAfter(g[k - 1], R)]
    BY <2>3, <2>4
  <2>6. Rounds(g, buf, R, o)
    BY <2>5, Zenon DEF Rounds
  <2> QED BY <2>1, <2>6
<1>3. P \in SUBSET (0..n)
  OBVIOUS
<1> HIDE DEF P
<1>4. n \in P
  BY <1>1, <1>2, <1>3, Prefixes
<1> QED BY <1>4 DEF P

(* The number of rounds is one, with a block for every byte.               *)
LEMMA RoundCount ==
  ASSUME NEW R \in ShardFile
  PROVE  roundsOf(R) \in Nat /\ \A i \in Index : Len(R[i]) < roundsOf(R)
<1> DEFINE s == concat(R, Shards)
<1>1. \A k \in 0..(Shards - 1) : R[k] \in Seq(Byte)
  BY DEF ShardFile, Index
<1>2. Joining(s, R, Shards)
  BY <1>1, Counts, JoinedBytes
<1> HIDE DEF s
<1>3. s \in Seq(Byte) /\ \A i \in Index : Len(R[i]) <= Len(s)
  BY <1>2 DEF Joining, Index
<1>4. \A i \in Index : R[i] \in Seq(Byte)
  BY DEF ShardFile
<1>5. Len(s) \in Nat /\ \A i \in Index : Len(R[i]) \in Nat
  BY <1>3, <1>4
<1>6. 1 + Len(s) \in Nat /\ \A i \in Index : Len(R[i]) < 1 + Len(s)
  BY <1>3, <1>5
<1> QED BY <1>6 DEF roundsOf, s

(* A stream is verified by them.                                           *)
LEMMA VerifyRounds ==
  ASSUME NEW R \in ShardFile, NEW buf
  PROVE  \E f : Rounds(f, buf, R, roundsOf(R)) /\ verifyStream(buf, R) = f[roundsOf(R)]
<1> DEFINE n == roundsOf(R)
           g == CHOOSE f : Rounds(f, buf, R, n)
<1>1. Rounds(g, buf, R, n)
  BY RoundCount, RoundsExist, Zenon
<1>2. verifyStream(buf, R) = g[n]
  BY Zenon DEF verifyStream, Rounds, firstRound, roundAfter, roundsOf
<1> HIDE DEF g, n
<1> QED BY <1>1, <1>2 DEF n

-----------------------------------------------------------------------------
(* The verdict after a round.                                              *)
LEMMA Verdicts ==
  ASSUME NEW c, NEW block, block.err \in {"nil", "EOF", "ErrShardSize"}
  PROVE  /\ verifyBlock(c, block) = "true" <=> block.err = "EOF" /\ c.read # 0
         /\ verifyBlock(c, block) = "none"
              <=> block.err = "nil" /\ Verify(matrix, DataShards, slices(block.call))
<1> DEFINE ok == Verify(matrix, DataShards, slices(block.call))
<1>1. verifyBlock(c, block)
        = IF block.err = "EOF" THEN IF endOfInput(c) = "EOF" THEN "true" ELSE "ErrShardNoData"
          ELSE IF block.err # "nil" THEN block.err
          ELSE IF ok THEN "none" ELSE "false"
  BY Zenon DEF verifyBlock
<1>2. endOfInput(c) = IF c.read = 0 THEN "ErrShardNoData" ELSE "EOF"
  BY Zenon DEF endOfInput
<1> HIDE DEF ok
<1>3. CASE block.err = "EOF"
  BY <1>1, <1>2, <1>3
<1>4. CASE block.err = "ErrShardSize"
  BY <1>1, <1>4
<1>5. CASE block.err = "nil" /\ ok
  <2>1. verifyBlock(c, block) = "none"
    BY <1>1, <1>5
  <2> QED BY <1>5, <2>1 DEF ok
<1>6. CASE block.err = "nil" /\ ~ok
  <2>1. verifyBlock(c, block) = "false"
    BY <1>1, <1>6
  <2> QED BY <1>6, <2>1 DEF ok
<1> QED BY <1>3, <1>4, <1>5, <1>6

-----------------------------------------------------------------------------
(* The first n bytes of all shards are of a code.                          *)
CodedAt(R, b) ==
  \A i \in Index : R[i][b] = dot(matrix, i, bytesAt(R, b, DataShards), DataShards)

CodedTo(R, n) == (\A i \in Index : n <= Len(R[i])) /\ \A b \in 1..n : CodedAt(R, b)

(* A coded block behind them makes more of the code.                       *)
LEMMA CodedOn ==
  ASSUME NEW R \in ShardFile, NEW p \in Nat, CodedTo(R, p), NEW g, NEW n, Coded(g, n),
         \A i \in Index : p + n <= Len(R[i]) /\ \A b \in 1..n : g[i][b] = R[i][p + b]
  PROVE  CodedTo(R, p + n)
<1>1. n \in Nat
  BY DEF Coded
<1>2. ASSUME NEW b \in 1..(p + n) PROVE CodedAt(R, b)
  <2>1. CASE b \in 1..p
    BY <2>1 DEF CodedTo
  <2>2. CASE b \notin 1..p
    <3> DEFINE d == b - p
    <3>1. d \in 1..n /\ b = p + d
      BY <1>1, <2>2
    <3> HIDE DEF d
    <3>2. \A i \in Index : g[i][d] = R[i][b]
      BY <3>1
    <3>3. bytesAt(g, d, DataShards) = bytesAt(R, b, DataShards)
      BY <3>2, Counts DEF bytesAt, Index
    <3>4. \A i \in Index : g[i][d] = dot(matrix, i, bytesAt(g, d, DataShards), DataShards)
      BY <3>1 DEF Coded
    <3> QED BY <3>2, <3>3, <3>4 DEF CodedAt
  <2> QED BY <2>1, <2>2
<1> QED BY <1>2 DEF CodedTo

(* The files agree as far as the shortest goes; a longer one goes on for a *)
(* block and more from a block boundary.                                   *)
Overlooked(n, l) == n % streamBS = 0 /\ l >= n + streamBS

Agreed(R) ==
  \E n \in Nat \ {0} :
    /\ CodedTo(R, n)
    /\ \E i \in Index : Len(R[i]) = n
    /\ \A i \in Index : Len(R[i]) = n \/ Overlooked(n, Len(R[i]))

Blocks(p) == \E m \in Nat : p = m * streamBS

(* A block further on is a block boundary too.                             *)
LEMMA WholeBlocks ==
  ASSUME NEW p \in Nat, Blocks(p)
  PROVE  p % streamBS = 0 /\ Blocks(p + streamBS)
<1>1. PICK m \in Nat : p = m * streamBS
  BY DEF Blocks
<1>2. p % streamBS = 0
  BY <1>1, BlockAssumption
<1>3. p + streamBS = (m + 1) * streamBS /\ m + 1 \in Nat
  BY <1>1, BlockAssumption, TimesNext
<1> QED BY <1>2, <1>3 DEF Blocks

(* A verification stands between two blocks, or it read the last one.      *)
AtBlock(c, R, p) ==
  /\ p \in Nat /\ Blocks(p)
  /\ \A i \in Index : c.pos[i] = p /\ c.len[i] = streamBS
  /\ CodedTo(R, p)
  /\ p = 0 => c.read = 0

AtEnd(c, R) ==
  \E s \in Nat \ {0} :
    /\ \A i \in Index : c.pos[i] = s /\ Len(R[i]) = s /\ c.len[i] > 0
    /\ CodedTo(R, s)

(* What a round finds that starts between two blocks.                      *)
LEMMA BlockVerified ==
  ASSUME MatrixEncodes, NEW R \in ShardFile, NEW c, Reading(c, R), NEW p, AtBlock(c, R, p),
         verifyBlock(c, readBlock(c, R, Index)) = "none"
  PROVE  \/ AtBlock(readBlock(c, R, Index).call, R, p + streamBS)
         \/ AtEnd(readBlock(c, R, Index).call, R)
<1> DEFINE block == readBlock(c, R, Index)
           d == block.call
           g == gotOf(c, R, Index)
           e == endedOf(c, R, Index)
<1>1. Verify(matrix, DataShards, slices(d))
  <2>1. block.err \in {"nil", "EOF", "ErrShardSize"}
    BY BlockErrors
  <2> HIDE DEF block
  <2> QED BY <2>1, Verdicts DEF block
<1>2. /\ g \in ShardFile
      /\ \A i \in Index : /\ g[i] = readFull(c, R, i)
                          /\ slices(d)[i] = g[i]
  BY GotTyped, ReadTyped
<1>3. After(c, R, Index, d)
  BY ReadAfter
<1>4. slices(d) = g
  <2>1. slices(d) = [i \in Index |-> slices(d)[i]]
    BY DEF slices
  <2> HIDE DEF d, g
  <2>2. g = [i \in Index |-> g[i]]
    BY <1>2 DEF ShardFile
  <2> QED BY <1>2, <2>1, <2>2
<1> DEFINE n == Len(g[0])
<1>5. Coded(g, n)
  BY <1>1, <1>2, <1>4, VerifiedCoded DEF ShardFile
<1>6. /\ p \in Nat /\ Blocks(p) /\ CodedTo(R, p) /\ streamBS \in Nat \ {0}
      /\ \A i \in Index : c.pos[i] = p /\ c.len[i] = streamBS
  BY BlockAssumption DEF AtBlock
<1> HIDE DEF block, d, g
<1>7. \A i \in Index : R[i] \in Seq(Byte) /\ Len(R[i]) \in Nat
  BY DEF ShardFile
<1>8. \A i \in Index : Len(readFull(c, R, i)) = least(c.len[i], Len(R[i]) - c.pos[i])
  BY GotBytes
<1>9. \A i \in Index : c.pos[i] + Len(readFull(c, R, i)) <= Len(R[i])
  BY GotBytes
<1>10. \A i \in Index : \A b \in 1..Len(readFull(c, R, i)) :
         readFull(c, R, i)[b] = R[i][c.pos[i] + b]
  BY GotBytes
<1>11. n \in Nat \ {0} /\ \A i \in Index : Len(g[i]) = n
  BY <1>5 DEF Coded
<1> HIDE DEF n
<1>12. ASSUME NEW i \in Index
       PROVE  /\ n = least(streamBS, Len(R[i]) - p)
              /\ p + n <= Len(R[i])
              /\ \A b \in 1..n : g[i][b] = R[i][p + b]
  <2>1. readFull(c, R, i) = g[i] /\ Len(g[i]) = n /\ c.pos[i] = p /\ c.len[i] = streamBS
    BY <1>2, <1>6, <1>11
  <2>2. n = least(streamBS, Len(R[i]) - p)
    BY <1>8, <2>1
  <2>3. p + n <= Len(R[i])
    BY <1>9, <2>1
  <2>4. \A b \in 1..n : g[i][b] = R[i][p + b]
    BY <1>10, <2>1
  <2> QED BY <2>2, <2>3, <2>4
<1>13. CodedTo(R, p + n)
  BY <1>5, <1>6, <1>11, <1>12, CodedOn
<1>14. \A i \in Index : R[i] # <<>>
  <2>1. \A i \in Index : Len(R[i]) > 0
    BY <1>6, <1>7, <1>11, <1>12
  <2> QED BY <2>1
<1>15. missingOf(R, Index) = {}
  BY <1>14 DEF missingOf
<1>16. e = {i \in Index : n < streamBS}
  BY <1>6, <1>11, <1>14 DEF endedOf, g
<1> HIDE DEF e
<1>17. \A i \in Index : d.pos[i] = p + n /\ d.len[i] = IF i \in e THEN n ELSE streamBS
  <2>1. d.pos = [i \in Index |-> c.pos[i] + Len(g[i])]
    BY <1>3 DEF After, g
  <2>2. d.len = [i \in Index |-> IF i \in e \cup missingOf(R, Index) THEN Len(g[i]) ELSE c.len[i]]
    BY <1>3, Zenon DEF After, g, e
  <2> QED BY <1>6, <1>11, <1>15, <2>1, <2>2
<1>18. CASE n < streamBS
  <2>1. \A i \in Index : n = Len(R[i]) - p
    BY <1>6, <1>7, <1>11, <1>12, <1>18 DEF least
  <2>2. \A i \in Index : d.pos[i] = p + n /\ Len(R[i]) = p + n /\ d.len[i] > 0
    BY <1>6, <1>7, <1>11, <1>16, <1>17, <1>18, <2>1
  <2>3. p + n \in Nat \ {0}
    BY <1>6, <1>11
  <2> QED BY <1>13, <2>2, <2>3 DEF AtEnd, d, block
<1>19. CASE ~(n < streamBS)
  <2>1. 0 \in Index
    BY Counts DEF Index
  <2>2. n = streamBS
    BY <1>6, <1>7, <1>11, <1>12, <1>19, <2>1 DEF least
  <2>3. \A i \in Index : d.pos[i] = p + streamBS /\ d.len[i] = streamBS
    BY <1>16, <1>17, <1>19, <2>2
  <2>4. p + streamBS \in Nat /\ p + streamBS # 0 /\ Blocks(p + streamBS)
    BY <1>6, WholeBlocks
  <2> QED BY <1>13, <2>2, <2>3, <2>4 DEF AtBlock, d, block
<1> QED BY <1>18, <1>19

(* ... or when the readers end there.                                      *)
LEMMA BlockEnds ==
  ASSUME NEW R \in ShardFile, NEW c, Reading(c, R), NEW p, AtBlock(c, R, p),
         verifyBlock(c, readBlock(c, R, Index)) = "true"
  PROVE  Agreed(R)
<1> DEFINE block == readBlock(c, R, Index)
           g == gotOf(c, R, Index)
           e == endedOf(c, R, Index)
<1>1. block.err = "EOF" /\ c.read # 0
  <2>1. block.err \in {"nil", "EOF", "ErrShardSize"}
    BY BlockErrors
  <2> HIDE DEF block
  <2> QED BY <2>1, Verdicts DEF block
<1>2. e # {} /\ NoBytes(g, e)
  BY <1>1, BlockErrors
<1>3. \A i \in Index : g[i] = readFull(c, R, i)
  BY GotTyped
<1>4. /\ p \in Nat \ {0} /\ Blocks(p) /\ CodedTo(R, p) /\ streamBS \in Nat \ {0}
      /\ \A i \in Index : c.pos[i] = p /\ c.len[i] = streamBS
  BY <1>1, BlockAssumption DEF AtBlock
<1> HIDE DEF block, g
<1>5. ASSUME NEW i \in Index
      PROVE  /\ Len(R[i]) \in Nat /\ p <= Len(R[i]) /\ R[i] # <<>>
             /\ Len(g[i]) = least(streamBS, Len(R[i]) - p)
  <2>1. R[i] \in Seq(Byte)
    BY DEF ShardFile
  <2>2. Len(R[i]) \in Nat /\ p <= Len(R[i])
    BY <1>4, <2>1 DEF CodedTo
  <2>3. Len(readFull(c, R, i)) = least(c.len[i], Len(R[i]) - c.pos[i])
    BY GotBytes
  <2>4. Len(g[i]) = least(streamBS, Len(R[i]) - p)
    BY <1>3, <1>4, <2>3
  <2>5. R[i] # <<>>
    BY <1>4, <2>1, <2>2
  <2> QED BY <2>2, <2>4, <2>5
<1>6. e = {i \in Index : Len(g[i]) < streamBS}
  BY <1>4, <1>5 DEF endedOf, g
<1> HIDE DEF e
<1>7. ASSUME NEW i \in e PROVE i \in Index /\ Len(R[i]) = p
  <2>1. i \in Index
    BY <1>6
  <2>2. Len(g[i]) = 0
    BY <1>2 DEF NoBytes
  <2> QED BY <1>4, <1>5, <2>1, <2>2 DEF least
<1>8. ASSUME NEW i \in Index, i \notin e PROVE Overlooked(p, Len(R[i]))
  <2>1. ~(Len(g[i]) < streamBS)
    BY <1>6, <1>8
  <2>2. Len(R[i]) >= p + streamBS
    BY <1>4, <1>5, <2>1 DEF least
  <2>3. p % streamBS = 0
    BY <1>4, WholeBlocks
  <2> QED BY <2>2, <2>3 DEF Overlooked
<1>9. \E i \in Index : Len(R[i]) = p
  BY <1>2, <1>7
<1>10. \A i \in Index : Len(R[i]) = p \/ Overlooked(p, Len(R[i]))
  BY <1>7, <1>8
<1> QED BY <1>4, <1>9, <1>10 DEF Agreed

(* After the last block no round goes on.                                  *)
LEMMA EndEnds ==
  ASSUME NEW R \in ShardFile, NEW c, Reading(c, R), AtEnd(c, R)
  PROVE  Agreed(R) /\ verifyBlock(c, readBlock(c, R, Index)) # "none"
<1> DEFINE block == readBlock(c, R, Index)
           g == gotOf(c, R, Index)
           e == endedOf(c, R, Index)
<1>1. PICK s \in Nat \ {0} : /\ \A i \in Index : c.pos[i] = s /\ Len(R[i]) = s /\ c.len[i] > 0
                             /\ CodedTo(R, s)
  BY DEF AtEnd
<1>2. 0 \in Index
  BY Counts DEF Index
<1>3. Agreed(R)
  BY <1>1, <1>2 DEF Agreed
<1>4. ASSUME NEW i \in Index PROVE g[i] = <<>> /\ R[i] # <<>> /\ Len(g[i]) < c.len[i]
  <2>1. g[i] = readFull(c, R, i)
    BY GotTyped
  <2>2. readFull(c, R, i) \in Seq(Byte) /\ Len(readFull(c, R, i)) \in 0..c.len[i]
    BY GotBytes
  <2>3. c.pos[i] + Len(readFull(c, R, i)) <= Len(R[i])
    BY GotBytes
  <2> DEFINE r == readFull(c, R, i)
  <2> HIDE DEF g, r
  <2>4. r \in Seq(Byte) /\ s + Len(r) <= s /\ Len(r) \in Nat
    BY <1>1, <2>2, <2>3 DEF r
  <2>5. r = <<>>
    BY <1>1, <2>4
  <2>6. R[i] # <<>>
    BY <1>1
  <2>7. Len(g[i]) < c.len[i]
    BY <1>1, <2>1, <2>5 DEF r
  <2> QED BY <2>1, <2>5, <2>6, <2>7 DEF r
<1>5. e = Index /\ NoBytes(g, e)
  BY <1>4 DEF endedOf, NoBytes
<1>6. block.err = "EOF"
  BY <1>2, <1>5, BlockErrors
<1> HIDE DEF block, e, g
<1>7. verifyBlock(c, block) # "none"
  <2>1. block.err \in {"nil", "EOF", "ErrShardSize"}
    BY <1>6
  <2> QED BY <1>6, <2>1, Verdicts
<1> QED BY <1>3, <1>7 DEF block

(* Where a verification stands after some rounds.                          *)
Verifying(x, R) ==
  /\ Reading(x.call, R)
  /\ x.verdict = "none" => (\E p : AtBlock(x.call, R, p)) \/ AtEnd(x.call, R)
  /\ x.verdict = "true" => Agreed(R)

(* A verification starts at the front of its readers ...                   *)
LEMMA FirstRound ==
  ASSUME NEW R \in ShardFile, NEW buf, Buffers(buf)
  PROVE  Reading(createSlice(buf), R) /\ Verifying(firstRound(buf), R)
<1> DEFINE c == createSlice(buf)
<1>1. c = [buf |-> buf, len |-> full, pos |-> [i \in Index |-> 0], read |-> 0]
  BY DEF createSlice
<1>2. full = [i \in Index |-> streamBS] /\ streamBS \in Nat
  BY BlockAssumption DEF full
<1>3. \A i \in Index : Len(R[i]) \in Nat
  BY DEF ShardFile
<1> HIDE DEF c
<1>4. c.buf = buf /\ c.read = 0 /\ \A i \in Index : c.len[i] = streamBS /\ c.pos[i] = 0
  BY <1>1, <1>2
<1>5. c \in Call
  BY <1>1, <1>2 DEF Buffers, Call
<1>6. Reading(c, R)
  BY <1>3, <1>4, <1>5 DEF Reading
<1>7. AtBlock(c, R, 0)
  <2>1. Blocks(0)
    <3>1. 0 = 0 * streamBS
      BY BlockAssumption
    <3> QED BY <3>1 DEF Blocks
  <2>2. CodedTo(R, 0)
    BY <1>3 DEF CodedTo
  <2> QED BY <1>4, <2>1, <2>2 DEF AtBlock
<1>8. firstRound(buf) = [call |-> c, verdict |-> "none"]
  BY DEF firstRound, c
<1>9. Verifying(firstRound(buf), R)
  BY <1>6, <1>7, <1>8 DEF Verifying
<1> QED BY <1>6, <1>9 DEF c

(* ... stands where it should after every round ...                        *)
LEMMA NextRound ==
  ASSUME MatrixEncodes, NEW R \in ShardFile, NEW x, Verifying(x, R)
  PROVE  Verifying(roundAfter(x, R), R)
<1> DEFINE block == readBlock(x.call, R, Index)
           v == verifyBlock(x.call, block)
<1>1. CASE x.verdict # "none"
  BY <1>1 DEF roundAfter
<1>2. CASE x.verdict = "none"
  <2>1. roundAfter(x, R) = [call |-> block.call, verdict |-> v]
    BY <1>2 DEF roundAfter
  <2>2. Reading(x.call, R) /\ ((\E p : AtBlock(x.call, R, p)) \/ AtEnd(x.call, R))
    BY <1>2 DEF Verifying
  <2>3. Reading(block.call, R)
    BY <2>2, ReadTyped
  <2>4. v = "none" => (\E p : AtBlock(block.call, R, p)) \/ AtEnd(block.call, R)
    BY <2>2, BlockVerified, EndEnds
  <2>5. v = "true" => Agreed(R)
    BY <2>2, BlockEnds, EndEnds
  <2> HIDE DEF block, v
  <2> QED BY <2>1, <2>3, <2>4, <2>5 DEF Verifying
<1> QED BY <1>1, <1>2

(* ... and only passes files that agree.                                   *)
LEMMA VerifySound ==
  ASSUME MatrixEncodes, NEW R \in ShardFile, NEW buf, Buffers(buf)
  PROVE  Verifying(verifyStream(buf, R), R)
<1> DEFINE n == roundsOf(R)
<1>1. n \in Nat
  BY RoundCount
<1>2. PICK f : Rounds(f, buf, R, n) /\ verifyStream(buf, R) = f[n]
  BY VerifyRounds
<1> HIDE DEF n
<1> DEFINE P == {k \in 0..n : Verifying(f[k], R)}
<1>3. 0 \in P
  <2>1. f[0] = firstRound(buf) /\ 0 \in 0..n
    BY <1>1, <1>2 DEF Rounds
  <2> QED BY <2>1, FirstRound
<1>4. ASSUME NEW k \in P, k < n PROVE k + 1 \in P
  <2> DEFINE o == k + 1
  <2>1. k \in 0..n /\ o \in 0..n /\ o # 0 /\ o - 1 = k
    BY <1>1, <1>4
  <2> HIDE DEF o
  <2>2. f[o] = roundAfter(f[k], R)
    BY <1>2, <2>1 DEF Rounds
  <2>3. Verifying(f[o], R)
    BY <2>2, NextRound
  <2>4. o \in P
    BY <2>1, <2>3
  <2> QED BY <2>4 DEF o
<1>5. P \in SUBSET (0..n)
  OBVIOUS
<1>6. n \in P
  <2> HIDE DEF P
  <2> QED BY <1>1, <1>3, <1>4, <1>5, Prefixes
<1> QED BY <1>2, <1>6

(* Files that agree verify as far as the shortest goes.                    *)
cutTo(R, n) == [i \in Index |-> SubSeq(R[i], 1, n)]

(* Cut to the length they agree on, they are a code.                       *)
LEMMA CutCoded ==
  ASSUME NEW R \in ShardFile, NEW n \in Nat \ {0}, CodedTo(R, n)
  PROVE  Coded(cutTo(R, n), n)
<1> DEFINE s == cutTo(R, n)
<1>1. ASSUME NEW i \in Index
      PROVE  s[i] \in Seq(Byte) /\ Len(s[i]) = n /\ \A b \in 1..n : s[i][b] = R[i][b]
  <2> DEFINE r == R[i]
             u == SubSeq(r, 1, n)
  <2>1. s[i] = u
    BY DEF cutTo
  <2>2. r \in Seq(Byte) /\ n <= Len(r)
    BY DEF ShardFile, CodedTo
  <2> HIDE DEF r
  <2>3. \A k \in 1..n : r[k] \in Byte
    BY <2>2, ElementOfSeq
  <2>4. /\ u \in Seq(Byte) /\ Len(u) = IF 1 <= n THEN n - 1 + 1 ELSE 0
        /\ \A k \in 1..(n - 1 + 1) : u[k] = r[1 + k - 1]
    BY <2>3, SubSeqProperties
  <2>5. n - 1 + 1 = n /\ 1 <= n /\ \A k \in 1..n : 1 + k - 1 = k
    OBVIOUS
  <2> HIDE DEF u
  <2>6. u \in Seq(Byte) /\ Len(u) = n /\ \A b \in 1..n : u[b] = r[b]
    BY <2>4, <2>5
  <2> QED BY <2>1, <2>6 DEF r
<1>2. s = [i \in Index |-> s[i]]
  BY DEF cutTo
<1> HIDE DEF s
<1>3. s \in [Index -> Seq(Byte)]
  BY <1>1, <1>2
<1>4. ASSUME NEW i \in Index, NEW b \in 1..n
      PROVE  s[i][b] = dot(matrix, i, bytesAt(s, b, DataShards), DataShards)
  <2>1. \A k \in Index : s[k][b] = R[k][b]
    BY <1>1
  <2>2. bytesAt(s, b, DataShards) = bytesAt(R, b, DataShards)
    BY <2>1, Counts DEF bytesAt, Index
  <2>3. R[i][b] = dot(matrix, i, bytesAt(R, b, DataShards), DataShards)
    BY DEF CodedTo, CodedAt
  <2> QED BY <2>1, <2>2, <2>3
<1>5. Coded(s, n)
  BY <1>1, <1>3, <1>4 DEF Coded
<1> QED BY <1>5 DEF s

(* ... which is what is promised of files that are joined.                 *)
LEMMA AgreedVerdict ==
  ASSUME MatrixEncodes, file \in ShardFile, Agreed(file)
  PROVE  StreamVerdict
<1>1. PICK n \in Nat \ {0} :
        /\ CodedTo(file, n)
        /\ \E i \in Index : Len(file[i]) = n
        /\ \A i \in Index : Len(file[i]) = n \/ Overlooked(n, Len(file[i]))
  BY DEF Agreed
<1> DEFINE sizes == {Len(file[i]) : i \in Index}
           shortest == CHOOSE m \in sizes : \A o \in sizes : m <= o
<1>2. n \in sizes /\ \A o \in sizes : n <= o
  BY <1>1 DEF CodedTo
<1>3. sizes \in SUBSET Nat
  BY DEF ShardFile
<1> HIDE DEF sizes
<1>4. shortest \in sizes /\ \A o \in sizes : shortest <= o
  BY <1>2, Zenon
<1> HIDE DEF shortest
<1>5. shortest = n
  BY <1>2, <1>3, <1>4
<1>6. ASSUME NEW m \in sizes \ {n} PROVE n % streamBS = 0 /\ m >= n + streamBS
  <2>1. PICK i \in Index : m = Len(file[i])
    BY DEF sizes
  <2> QED BY <1>1, <2>1 DEF Overlooked
<1>7. Verify(matrix, DataShards, cutTo(file, n))
  BY <1>1, CutCoded, CodedVerified
<1>8. Verify(matrix, DataShards, [i \in Index |-> SubSeq(file[i], 1, shortest)])
  BY <1>5, <1>7 DEF cutTo
<1>9. \A m \in sizes \ {shortest} : shortest % streamBS = 0 /\ m >= shortest + streamBS
  BY <1>5, <1>6
<1> QED BY <1>8, <1>9, Zenon DEF StreamVerdict, sizes, shortest

-----------------------------------------------------------------------------
(* Reading whole shards of one code.                                       *)
Shared(R, cw, size) == Coded(cw, size) /\ R \in ShardFile /\ Agree(R, cw, filled(R)) /\ filled(R) # {}

piece(cw, p, n) == [i \in Index |-> SubSeq(cw[i], p + 1, p + n)]
blockSize(size, p) == least(streamBS, size - p)

(* The readers of such shards stand at byte p.                             *)
Level(c, R, size, p) ==
  /\ p \in 0..size
  /\ \A i \in filled(R) : c.pos[i] = p /\ c.len[i] > 0 /\ (p < size => c.len[i] = streamBS)
  /\ p > 0 => c.read > 0

(* A piece of a code is a code.                                            *)
LEMMA PieceCoded ==
  ASSUME NEW cw, NEW size, Coded(cw, size), NEW p \in Nat, NEW n \in Nat \ {0}, p + n <= size
  PROVE  Coded(piece(cw, p, n), n)
<1> DEFINE s == piece(cw, p, n)
<1>1. ASSUME NEW i \in Index
      PROVE  s[i] \in Seq(Byte) /\ Len(s[i]) = n /\ \A b \in 1..n : s[i][b] = cw[i][p + b]
  <2> DEFINE r == cw[i]
             u == SubSeq(r, p + 1, p + n)
  <2>1. s[i] = u
    BY DEF piece
  <2>2. r \in Seq(Byte) /\ Len(r) = size
    BY DEF Coded
  <2> HIDE DEF r
  <2>3. \A k \in (p + 1)..(p + n) : r[k] \in Byte
    BY <2>2, ElementOfSeq
  <2>4. /\ u \in Seq(Byte) /\ Len(u) = IF p + 1 <= p + n THEN p + n - (p + 1) + 1 ELSE 0
        /\ \A k \in 1..(p + n - (p + 1) + 1) : u[k] = r[p + 1 + k - 1]
    BY <2>3, SubSeqProperties
  <2>5. p + n - (p + 1) + 1 = n /\ p + 1 <= p + n /\ \A k \in 1..n : p + 1 + k - 1 = p + k
    OBVIOUS
  <2> HIDE DEF u
  <2>6. u \in Seq(Byte) /\ Len(u) = n /\ \A b \in 1..n : u[b] = r[p + b]
    BY <2>4, <2>5
  <2> QED BY <2>1, <2>6 DEF r
<1>2. s = [i \in Index |-> s[i]]
  BY DEF piece
<1> HIDE DEF s
<1>3. s \in [Index -> Seq(Byte)]
  BY <1>1, <1>2
<1>4. ASSUME NEW i \in Index, NEW b \in 1..n
      PROVE  s[i][b] = dot(matrix, i, bytesAt(s, b, DataShards), DataShards)
  <2>1. \A k \in Index : s[k][b] = cw[k][p + b]
    BY <1>1
  <2>2. bytesAt(s, b, DataShards) = bytesAt(cw, p + b, DataShards)
    BY <2>1, Counts DEF bytesAt, Index
  <2>3. p + b \in 1..size
    BY DEF Coded
  <2>4. cw[i][p + b] = dot(matrix, i, bytesAt(cw, p + b, DataShards), DataShards)
    BY <2>3 DEF Coded
  <2> QED BY <2>1, <2>2, <2>4
<1>5. Coded(s, n)
  BY <1>1, <1>3, <1>4 DEF Coded
<1> QED BY <1>5 DEF s

(* What is handed over in a round.                                         *)
LEMMA LevelGot ==
  ASSUME NEW R, NEW cw, NEW size, Shared(R, cw, size), NEW c, Reading(c, R),
         NEW p, Level(c, R, size, p)
  PROVE  /\ \A i \in filled(R) : /\ Len(gotOf(c, R, Index)[i]) = least(c.len[i], size - p)
                                 /\ \A b \in 1..Len(gotOf(c, R, Index)[i]) :
                                      gotOf(c, R, Index)[i][b] = cw[i][p + b]
         /\ \A i \in Index \ filled(R) : gotOf(c, R, Index)[i] = <<>>
         /\ filled(R) \in SUBSET Index
         /\ missingOf(R, Index) = Index \ filled(R)
         /\ endedOf(c, R, Index)
              = {i \in filled(R) : Len(gotOf(c, R, Index)[i]) < c.len[i]}
<1> DEFINE g == gotOf(c, R, Index)
<1>0. R \in ShardFile
  BY DEF Shared
<1>1. /\ filled(R) \in SUBSET Index
      /\ \A i \in Index : i \in filled(R) <=> R[i] # <<>>
  BY <1>0 DEF filled, ShardFile
<1>2. \A i \in Index : g[i] = readFull(c, R, i)
  BY <1>0, GotTyped
<1>3. /\ missingOf(R, Index) = Index \ filled(R)
      /\ endedOf(c, R, Index) = {i \in filled(R) : Len(g[i]) < c.len[i]}
  BY <1>1 DEF missingOf, endedOf
<1> HIDE DEF g
<1>4. ASSUME NEW i \in filled(R)
      PROVE  Len(g[i]) = least(c.len[i], size - p) /\ \A b \in 1..Len(g[i]) : g[i][b] = cw[i][p + b]
  <2>1. i \in Index /\ R[i] = cw[i] /\ c.pos[i] = p
    BY <1>1 DEF Shared, Agree, Level
  <2>2. Len(cw[i]) = size
    BY <2>1 DEF Shared, Coded
  <2>3. /\ Len(readFull(c, R, i)) = least(c.len[i], Len(R[i]) - c.pos[i])
        /\ \A b \in 1..Len(readFull(c, R, i)) : readFull(c, R, i)[b] = R[i][c.pos[i] + b]
    BY <1>0, <2>1, GotBytes
  <2> DEFINE r == readFull(c, R, i)
             s == cw[i]
  <2> HIDE DEF r, s
  <2>4. g[i] = r /\ R[i] = s /\ Len(s) = size
    BY <1>2, <2>1, <2>2 DEF r, s
  <2>5. Len(r) = least(c.len[i], size - p)
    BY <2>1, <2>3, <2>4 DEF r
  <2>6. \A b \in 1..Len(r) : r[b] = s[p + b]
    BY <2>1, <2>3, <2>4 DEF r
  <2> QED BY <2>4, <2>5, <2>6 DEF s
<1>5. ASSUME NEW i \in Index \ filled(R) PROVE g[i] = <<>>
  <2>1. R[i] = <<>>
    BY <1>1
  <2>2. c.pos[i] \in Nat
    BY DEF Reading, Call
  <2>3. readFull(c, R, i) \in Seq(Byte) /\ c.pos[i] + Len(readFull(c, R, i)) <= Len(R[i])
    BY <1>0, GotBytes
  <2> DEFINE r == readFull(c, R, i)
  <2> HIDE DEF r
  <2>4. r \in Seq(Byte) /\ c.pos[i] + Len(r) <= 0
    BY <2>1, <2>3 DEF r
  <2>5. r = <<>>
    BY <2>2, <2>4
  <2> QED BY <1>2, <2>5 DEF r
<1> QED BY <1>1, <1>3, <1>4, <1>5 DEF g

(* A round in the middle of shards of one code.                            *)
LEMMA LevelRead ==
  ASSUME NEW R, NEW cw, NEW size, Shared(R, cw, size), NEW c, Reading(c, R),
         NEW p, Level(c, R, size, p), p < size
  PROVE  LET n == blockSize(size, p)
             block == readBlock(c, R, Index)
         IN  /\ n \in Nat \ {0} /\ p + n <= size /\ n <= streamBS
             /\ block.err = "nil"
             /\ \A i \in filled(R) : /\ slices(block.call)[i] = piece(cw, p, n)[i]
                                     /\ block.call.len[i] = n
             /\ \A i \in Index \ filled(R) : /\ slices(block.call)[i] = <<>>
                                             /\ block.call.len[i] = 0
             /\ Level(block.call, R, size, p + n)
<1> DEFINE n == blockSize(size, p)
           block == readBlock(c, R, Index)
           d == block.call
           g == gotOf(c, R, Index)
           e == endedOf(c, R, Index)
           W == filled(R)
<1>0. R \in ShardFile /\ Coded(cw, size) /\ W # {}
  BY DEF Shared
<1>1. /\ W \in SUBSET Index
      /\ missingOf(R, Index) = Index \ W
      /\ e = {i \in W : Len(g[i]) < c.len[i]}
      /\ \A i \in Index \ W : g[i] = <<>>
      /\ \A i \in W : Len(g[i]) = least(c.len[i], size - p)
      /\ \A i \in W : \A b \in 1..Len(g[i]) : g[i][b] = cw[i][p + b]
  BY LevelGot
<1>2. /\ p \in Nat /\ size \in Nat \ {0} /\ streamBS \in Nat \ {0}
      /\ \A i \in W : c.pos[i] = p /\ c.len[i] = streamBS
  BY <1>0, BlockAssumption DEF Level, Coded
<1>3. n \in Nat \ {0} /\ p + n <= size /\ n <= streamBS /\ (n < streamBS => p + n = size)
  BY <1>2 DEF blockSize, least
<1>4. \A i \in W : Len(g[i]) = n
  BY <1>1, <1>2 DEF blockSize
<1>5. g \in ShardFile /\ \A i \in Index : slices(d)[i] = g[i]
  BY <1>0, GotTyped, ReadTyped
<1>6. block.err = "nil"
  <2>1. SameLength(g, e)
    BY <1>1, <1>4 DEF SameLength
  <2>2. e # {} => ~NoBytes(g, e)
    BY <1>1, <1>3, <1>4 DEF NoBytes
  <2>3. CASE e = {}
    BY <1>0, <2>3, BlockErrors
  <2>4. CASE e # {}
    BY <1>0, <2>1, <2>2, <2>4, BlockErrors
  <2> QED BY <2>3, <2>4
<1>7. ASSUME NEW i \in W PROVE slices(d)[i] = piece(cw, p, n)[i]
  <2>1. Coded(piece(cw, p, n), n)
    BY <1>0, <1>2, <1>3, PieceCoded
  <2>2. i \in Index
    BY <1>1
  <2> DEFINE s == piece(cw, p, n)[i]
             r == g[i]
  <2>3. s \in Seq(Byte) /\ Len(s) = n
    BY <2>1, <2>2 DEF Coded
  <2>4. r \in Seq(Byte) /\ Len(r) = n
    BY <1>4, <1>5, <2>2 DEF ShardFile
  <2>5. ASSUME NEW b \in 1..n PROVE s[b] = cw[i][p + b]
    <3> DEFINE w == cw[i]
    <3>1. s = SubSeq(w, p + 1, p + n)
      BY <2>2 DEF piece
    <3>2. w \in Seq(Byte) /\ Len(w) = size
      BY <1>0, <2>2 DEF Coded
    <3> HIDE DEF w, n
    <3>3. \A k \in (p + 1)..(p + n) : w[k] \in Byte
      BY <1>2, <1>3, <3>2, ElementOfSeq
    <3>4. \A k \in 1..(p + n - (p + 1) + 1) : SubSeq(w, p + 1, p + n)[k] = w[p + 1 + k - 1]
      BY <1>2, <1>3, <3>3, SubSeqProperties
    <3>5. p + n - (p + 1) + 1 = n /\ p + 1 + b - 1 = p + b
      BY <1>2, <1>3
    <3>6. SubSeq(w, p + 1, p + n)[b] = w[p + b]
      BY <3>4, <3>5
    <3> QED BY <3>1, <3>6 DEF w
  <2>6. \A b \in 1..n : r[b] = cw[i][p + b]
    BY <1>1, <1>4
  <2> HIDE DEF s, r
  <2>7. r = s
    BY <2>3, <2>4, <2>5, <2>6, SeqEqual
  <2> QED BY <1>5, <2>2, <2>7 DEF r, s
<1>8. \A i \in Index \ W : slices(d)[i] = <<>>
  BY <1>1, <1>5
<1>9. After(c, R, Index, d)
  BY <1>0, ReadAfter
<1> HIDE DEF d, W, n
<1>10. d.len = [i \in Index |-> IF i \in e \cup missingOf(R, Index) THEN Len(g[i]) ELSE c.len[i]]
  BY <1>9, Zenon DEF After
<1>11. d.pos = [i \in Index |-> c.pos[i] + Len(g[i])] /\ d.read = c.read + Len(concat(g, Shards))
  BY <1>9 DEF After
<1> HIDE DEF g, e
<1>12. \A i \in W : d.len[i] = n /\ d.pos[i] = p + n
  <2> SUFFICES ASSUME NEW i \in W PROVE d.len[i] = n /\ d.pos[i] = p + n
    OBVIOUS
  <2>1. i \in Index /\ i \notin missingOf(R, Index)
    BY <1>1
  <2>2. i \in e \/ c.len[i] = n
    BY <1>1, <1>2, <1>3, <1>4
  <2>3. d.len[i] = n
    BY <1>4, <1>10, <2>1, <2>2
  <2>4. d.pos[i] = p + n
    BY <1>2, <1>4, <1>11, <2>1
  <2> QED BY <2>3, <2>4
<1>13. \A i \in Index \ W : d.len[i] = 0
  BY <1>1, <1>10
<1>14. d.read > 0
  <2>1. \A k \in 0..(Shards - 1) : g[k] \in Seq(Byte)
    BY <1>5 DEF ShardFile, Index
  <2>2. Joining(concat(g, Shards), g, Shards)
    BY <2>1, Counts, JoinedBytes
  <2> DEFINE s == concat(g, Shards)
  <2> HIDE DEF s
  <2>3. s \in Seq(Byte) /\ \A i \in Index : Len(g[i]) <= Len(s)
    BY <2>2 DEF Joining, s, Index
  <2>4. PICK i \in W : TRUE
    BY <1>0
  <2>5. n <= Len(s)
    BY <1>1, <1>4, <2>3, <2>4
  <2>6. c.read \in Nat
    BY DEF Reading, Call
  <2>7. d.read = c.read + Len(s) /\ Len(s) \in Nat
    BY <1>11, <2>3 DEF s
  <2> QED BY <1>3, <2>5, <2>6, <2>7
<1>15. Level(d, R, size, p + n)
  <2>1. p + n \in 0..size
    BY <1>2, <1>3
  <2>2. \A i \in W : d.pos[i] = p + n /\ d.len[i] > 0 /\ (p + n < size => d.len[i] = streamBS)
    BY <1>2, <1>3, <1>12
  <2> QED BY <1>14, <2>1, <2>2 DEF Level, W
<1>16. /\ n \in Nat \ {0} /\ p + n <= size /\ n <= streamBS
       /\ block.err = "nil"
       /\ \A i \in W : slices(d)[i] = piece(cw, p, n)[i] /\ d.len[i] = n
       /\ \A i \in Index \ W : slices(d)[i] = <<>> /\ d.len[i] = 0
       /\ Level(d, R, size, p + n)
  BY <1>3, <1>6, <1>7, <1>8, <1>12, <1>13, <1>15
<1> QED BY <1>16, Zenon DEF n, d, W

(* The round at their end.                                                 *)
LEMMA LevelEnd ==
  ASSUME NEW R, NEW cw, NEW size, Shared(R, cw, size), NEW c, Reading(c, R), Level(c, R, size, size)
  PROVE  readBlock(c, R, Index).err = "EOF" /\ c.read > 0
<1> DEFINE g == gotOf(c, R, Index)
           e == endedOf(c, R, Index)
           W == filled(R)
<1>0. R \in ShardFile /\ W # {} /\ size \in Nat \ {0}
  BY DEF Shared, Coded
<1>1. /\ W \in SUBSET Index
      /\ e = {i \in W : Len(g[i]) < c.len[i]}
      /\ \A i \in W : Len(g[i]) = least(c.len[i], size - size)
  BY LevelGot
<1>2. \A i \in W : c.len[i] \in Nat /\ c.len[i] > 0
  <2>1. \A i \in Index : c.len[i] \in 0..streamBS
    BY DEF Reading, Call
  <2>2. \A i \in Index : c.len[i] \in Nat
    BY <2>1, BlockAssumption
  <2> QED BY <1>1, <2>2 DEF Level
<1>3. \A i \in W : Len(g[i]) = 0
  BY <1>0, <1>1, <1>2 DEF least
<1>4. \A i \in W : g[i] = <<>>
  <2>1. g \in ShardFile
    BY <1>0, GotTyped
  <2> HIDE DEF g
  <2> QED BY <1>1, <1>3, <2>1 DEF ShardFile
<1>5. e = W
  BY <1>1, <1>2, <1>3
<1>6. NoBytes(g, e)
  BY <1>4, <1>5 DEF NoBytes
<1>7. readBlock(c, R, Index).err = "EOF"
  BY <1>0, <1>5, <1>6, BlockErrors
<1>8. c.read > 0
  BY <1>0 DEF Level
<1> QED BY <1>7, <1>8

(* The call a stream starts with stands at the front.                      *)
LEMMA LevelStart ==
  ASSUME NEW R, NEW cw, NEW size, Shared(R, cw, size), NEW buf, Buffers(buf)
  PROVE  Level(createSlice(buf), R, size, 0)
<1> DEFINE c == createSlice(buf)
<1>1. c = [buf |-> buf, len |-> [i \in Index |-> streamBS], pos |-> [i \in Index |-> 0], read |-> 0]
  BY DEF createSlice, full
<1> HIDE DEF c
<1>2. \A i \in Index : c.pos[i] = 0 /\ c.len[i] = streamBS
  BY <1>1
<1>3. size \in Nat /\ R \in ShardFile /\ streamBS > 0
  BY BlockAssumption DEF Shared, Coded
<1>4. filled(R) \subseteq Index
  BY <1>3, ShardSize DEF ShardFile
<1>5. Level(c, R, size, 0)
  BY <1>2, <1>3, <1>4 DEF Level
<1> QED BY <1>5 DEF c

(* A verification of a whole code, after k rounds at least.                *)
Passing(x, R, size, k) ==
  /\ Reading(x.call, R)
  /\ \/ x.verdict = "true"
     \/ x.verdict = "none" /\ \E p : k <= p /\ Level(x.call, R, size, p)

(* Every round of it goes on, a byte further at least, or is the last.     *)
LEMMA PassingNext ==
  ASSUME MatrixEncodes, NEW R \in ShardFile, NEW size, Coded(R, size), Shared(R, R, size),
         filled(R) = Index, NEW k \in Nat, NEW x, Passing(x, R, size, k)
  PROVE  Passing(roundAfter(x, R), R, size, k + 1)
<1> DEFINE c == x.call
           block == readBlock(c, R, Index)
           d == block.call
           v == verifyBlock(c, block)
<1>1. CASE x.verdict # "none"
  BY <1>1 DEF roundAfter, Passing
<1>2. CASE x.verdict = "none"
  <2>1. roundAfter(x, R) = [call |-> d, verdict |-> v]
    BY <1>2 DEF roundAfter
  <2>2. Reading(c, R)
    BY DEF Passing
  <2>3. PICK p : k <= p /\ Level(c, R, size, p)
    BY <1>2 DEF Passing
  <2>4. Reading(d, R)
    BY <2>2, ReadTyped
  <2>5. p \in 0..size /\ size \in Nat
    BY <2>3 DEF Level, Coded
  <2>6. block.err \in {"nil", "EOF", "ErrShardSize"}
    BY <2>2, BlockErrors
  <2>7. /\ v = "true" <=> block.err = "EOF" /\ c.read # 0
        /\ v = "none" <=> block.err = "nil" /\ Verify(matrix, DataShards, slices(d))
    <3> HIDE DEF block
    <3> QED BY <2>6, Verdicts DEF block
  <2>8. CASE p = size
    <3>1. block.err = "EOF" /\ c.read > 0
      BY <2>2, <2>3, <2>8, LevelEnd
    <3>2. v = "true"
      BY <2>7, <3>1
    <3> HIDE DEF d, v
    <3> QED BY <2>1, <2>4, <3>2 DEF Passing
  <2>9. CASE p # size
    <3> DEFINE n == blockSize(size, p)
    <3>1. p < size
      BY <2>5, <2>9
    <3>2. n \in Nat \ {0} /\ p + n <= size
      BY <2>2, <2>3, <3>1, LevelRead
    <3>3. block.err = "nil" /\ Level(d, R, size, p + n)
      BY <2>2, <2>3, <3>1, LevelRead
    <3>4. \A i \in Index : slices(d)[i] = piece(R, p, n)[i]
      BY <2>2, <2>3, <3>1, LevelRead
    <3> HIDE DEF n
    <3>5. slices(d) = piece(R, p, n)
      <4>1. slices(d) = [i \in Index |-> slices(d)[i]]
        BY DEF slices
      <4> HIDE DEF d
      <4>2. piece(R, p, n) = [i \in Index |-> piece(R, p, n)[i]]
        BY DEF piece
      <4> QED BY <3>4, <4>1, <4>2
    <3>6. Verify(matrix, DataShards, slices(d))
      <4>1. p \in Nat
        BY <2>5
      <4>2. Coded(piece(R, p, n), n)
        BY <3>2, <4>1, PieceCoded
      <4>3. Verify(matrix, DataShards, piece(R, p, n))
        BY <4>2, CodedVerified
      <4> QED BY <3>5, <4>3
    <3>7. v = "none"
      BY <2>7, <3>3, <3>6
    <3>8. k + 1 <= p + n
      BY <2>3, <2>5, <3>2
    <3> HIDE DEF d, v
    <3> QED BY <2>1, <2>4, <3>3, <3>7, <3>8 DEF Passing
  <2> QED BY <2>8, <2>9
<1> QED BY <1>1, <1>2

(* A whole code passes the verification of a stream.                       *)
LEMMA VerifyComplete ==
  ASSUME MatrixEncodes, NEW R \in ShardFile, NEW size, Coded(R, size), NEW buf, Buffers(buf)
  PROVE  verifyStream(buf, R).verdict = "true"
<1> DEFINE n == roundsOf(R)
<1>0. size \in Nat \ {0} /\ 0 \in Index /\ \A i \in Index : Len(R[i]) = size
  BY Counts DEF Coded, Index
<1>1. n \in Nat /\ size < n
  <2>1. Len(R[0]) < n
    BY <1>0, RoundCount
  <2> QED BY <1>0, <2>1, RoundCount
<1>2. PICK f : Rounds(f, buf, R, n) /\ verifyStream(buf, R) = f[n]
  BY VerifyRounds
<1>3. filled(R) = Index
  BY <1>0 DEF filled, ShardFile
<1>4. Shared(R, R, size)
  BY <1>0, <1>3 DEF Shared, Agree
<1> HIDE DEF n
<1> DEFINE P == {k \in 0..n : Passing(f[k], R, size, k)}
<1>5. 0 \in P
  <2>1. f[0] = firstRound(buf) /\ 0 \in 0..n
    BY <1>1, <1>2 DEF Rounds
  <2>2. Level(createSlice(buf), R, size, 0)
    BY <1>4, LevelStart
  <2>3. Reading(createSlice(buf), R)
    BY FirstRound
  <2>4. firstRound(buf).call = createSlice(buf) /\ firstRound(buf).verdict = "none"
    BY DEF firstRound
  <2>5. Passing(firstRound(buf), R, size, 0)
    BY <2>2, <2>3, <2>4 DEF Passing
  <2> QED BY <2>1, <2>5
<1>6. ASSUME NEW k \in P, k < n PROVE k + 1 \in P
  <2> DEFINE o == k + 1
  <2>1. k \in 0..n /\ o \in 0..n /\ o # 0 /\ o - 1 = k /\ k \in Nat
    BY <1>1, <1>6
  <2> HIDE DEF o
  <2>2. f[o] = roundAfter(f[k], R)
    BY <1>2, <2>1 DEF Rounds
  <2>3. Passing(f[o], R, size, k + 1)
    BY <1>3, <1>4, <2>1, <2>2, PassingNext
  <2>4. o \in P
    BY <2>1, <2>3 DEF o
  <2> QED BY <2>4 DEF o
<1>7. P \in SUBSET (0..n)
  OBVIOUS
<1>8. n \in P
  <2> HIDE DEF P
  <2> QED BY <1>1, <1>5, <1>6, <1>7, Prefixes
<1>9. f[n].verdict = "true"
  <2>1. Passing(f[n], R, size, n)
    BY <1>8
  <2>2. ~\E p : n <= p /\ Level(f[n].call, R, size, p)
    BY <1>0, <1>1 DEF Level
  <2> QED BY <2>1, <2>2 DEF Passing
<1> QED BY <1>2, <1>9

(* Files that agree are all there.                                         *)
LEMMA AgreedFilled ==
  ASSUME NEW R \in ShardFile, Agreed(R)
  PROVE  filled(R) = Index
<1>1. PICK n \in Nat \ {0} : CodedTo(R, n)
  BY DEF Agreed
<1>2. \A i \in Index : R[i] # <<>>
  <2>1. \A i \in Index : R[i] \in Seq(Byte) /\ n <= Len(R[i])
    BY <1>1 DEF CodedTo, ShardFile
  <2> QED BY <2>1
<1> QED BY <1>2 DEF filled, ShardFile

-----------------------------------------------------------------------------
(* The ways out of a reconstruction that may leave the parity alone.       *)
LEMMA ReconstructedOnly ==
  ASSUME NEW sh, NEW dataOnly \in BOOLEAN
  PROVE  reconstruct(matrix, DataShards, sh, dataOnly)
           = IF checkShards(sh, TRUE) # "nil" THEN failed(checkShards(sh, TRUE), sh)
             ELSE IF \A i \in DOMAIN sh \ filled(sh) : dataOnly /\ i >= DataShards
                  THEN succeeded(sh)
             ELSE IF few(sh) THEN failed("ErrTooFewShards", sh)
             ELSE IF decoding(sh) = Singular THEN failed("errSingular", sh)
             ELSE IF dataOnly THEN succeeded(dataOf(sh, shardSize(sh)))
             ELSE succeeded(rebuiltOf(sh, shardSize(sh)))
<1> DEFINE redo == rebuild(matrix, decoding(sh), DataShards, sh, rowsIn(sh), shardSize(sh), dataOnly)
<1>1. reconstruct(matrix, DataShards, sh, dataOnly)
        = IF checkShards(sh, TRUE) # "nil" THEN failed(checkShards(sh, TRUE), sh)
          ELSE IF \A i \in DOMAIN sh \ filled(sh) : dataOnly /\ i >= DataShards THEN succeeded(sh)
          ELSE IF few(sh) THEN failed("ErrTooFewShards", sh)
          ELSE redo
  BY Zenon DEF reconstruct, few, decoding, rowsIn, square, validIndices
<1>2. redo = IF decoding(sh) = Singular THEN failed("errSingular", sh)
             ELSE IF dataOnly THEN succeeded(dataOf(sh, shardSize(sh)))
             ELSE succeeded(rebuiltOf(sh, shardSize(sh)))
  BY Zenon DEF rebuild, rebuiltOf, dataOf, restOf
<1> HIDE DEF redo
<1> QED BY <1>1, <1>2, Zenon

(* With all the parity there, all is rebuilt when the data is.             *)
LEMMA ParityThere ==
  ASSUME MatrixEncodes, NEW sh, NEW size, Present(sh, size), parityIndex \subseteq filled(sh)
  PROVE  dataOf(sh, size) = rebuiltOf(sh, size)
<1>1. restOf(sh) = {}
  <2>1. parityOf(DataShards, sh) \subseteq parityIndex
    BY Counts DEF parityOf, parityIndex, Present, Index
  <2> QED BY <2>1 DEF restOf
<1> DEFINE f == rebuiltOf(sh, size)
           h == dataOf(sh, size)
<1>2. f \in [Index -> Seq(Byte)] /\ \A i \in Index : f[i] = h[i]
  BY <1>1, Rebuilt
<1>3. DOMAIN h = Index /\ h = [i \in DOMAIN h |-> h[i]]
  <2>1. DOMAIN h = Index
    BY DataRebuilt
  <2>2. h = [i \in DOMAIN h |-> h[i]]
    BY Zenon DEF dataOf, decodeData
  <2> QED BY <2>1, <2>2
<1> HIDE DEF f, h
<1>4. h = f
  BY <1>2, <1>3
<1> QED BY <1>4 DEF f, h

(* Shards of one code, some missing: the stream's reconstruction completes *)
(* the code.                                                               *)
LEMMA StreamRebuilds ==
  ASSUME MatrixEncodes, NEW sh \in ShardFile, NEW cw, NEW n, Coded(cw, n),
         Cardinality(filled(sh)) >= DataShards, Agree(sh, cw, filled(sh)), filled(sh) # Index,
         NEW dataOnly \in BOOLEAN, dataOnly <=> parityIndex \subseteq filled(sh)
  PROVE  reconstruct(matrix, DataShards, sh, dataOnly) = succeeded(cw)
<1>0. /\ filled(sh) \in SUBSET Index
      /\ cw \in [Index -> Seq(Byte)] /\ n \in Nat \ {0}
      /\ \A i \in Index : Len(cw[i]) = n
      /\ sh \in [Index -> Seq(Byte)]
  <2>1. filled(sh) \in SUBSET Index
    BY ShardSize DEF ShardFile
  <2> QED BY <2>1 DEF Coded, ShardFile
<1>1. \A i \in filled(sh) : Len(sh[i]) = n
  BY <1>0 DEF Agree
<1>2. \A i \in Index \ filled(sh) : sh[i] = <<>>
  BY <1>0, ShardSize
<1>3. filled(sh) # {}
  BY Counts, FS_EmptySet
<1>4. shardSize(sh) = n
  <2>1. \E i \in filled(sh) : shardSize(sh) = Len(sh[i])
    BY <1>0, <1>3, ShardSize
  <2> QED BY <1>1, <2>1
<1>5. checkShards(sh, TRUE) = "nil"
  <2>1. \A i \in DOMAIN sh : Len(sh[i]) = n \/ sh[i] = <<>>
    BY <1>0, <1>1, <1>2
  <2>2. checkSize(sh, TRUE, n) = "nil"
    BY <1>0, <2>1 DEF checkSize
  <2> QED BY <1>4, <2>2, Zenon DEF checkShards
<1>6. ~few(sh)
  BY <1>0, FilledCount, Counts DEF few
<1>7. Present(sh, n)
  BY <1>0, <1>4, <1>5, <1>6, Checked
<1>8. decoding(sh) # Singular
  BY <1>7, DecodingRows
<1>9. rebuiltOf(sh, n) = cw
  BY <1>7, CodeRebuilt
<1>10. ~\A i \in DOMAIN sh \ filled(sh) : dataOnly /\ i >= DataShards
  <2> SUFFICES ASSUME \A i \in DOMAIN sh \ filled(sh) : dataOnly /\ i >= DataShards PROVE FALSE
    OBVIOUS
  <2>1. PICK i \in Index : i \notin filled(sh)
    BY <1>0
  <2>2. dataOnly /\ i >= DataShards
    BY <1>0, <2>1
  <2>3. i \in parityIndex
    BY <2>2, Counts DEF parityIndex, Index
  <2> QED BY <2>1, <2>2, <2>3
<1>11. dataOnly => dataOf(sh, n) = cw
  BY <1>7, <1>9, ParityThere
<1>12. reconstruct(matrix, DataShards, sh, dataOnly)
         = IF dataOnly THEN succeeded(dataOf(sh, n)) ELSE succeeded(rebuiltOf(sh, n))
  BY <1>4, <1>5, <1>6, <1>8, <1>10, ReconstructedOnly, Zenon
<1> QED BY <1>9, <1>11, <1>12, Zenon

(* What a reconstruction that succeeds gives is shards of bytes, none      *)
(* longer than those it had.                                               *)
Bounded(sh, m) == sh \in ShardFile /\ \A i \in Index : Len(sh[i]) <= m

(* ... when it rebuilds from shards of one size ...                        *)
LEMMA RebuiltBounded ==
  ASSUME MatrixEncodes, NEW sh, NEW size, Present(sh, size), NEW m \in Nat, size <= m
  PROVE  Bounded(dataOf(sh, size), m) /\ Bounded(rebuiltOf(sh, size), m)
<1> DEFINE h == dataOf(sh, size)
           f == rebuiltOf(sh, size)
<1>0. /\ DataShards \in Nat /\ Index \subseteq Nat /\ size \in Nat
      /\ \A i \in Index : sh[i] \in Seq(Byte) /\ Len(sh[i]) <= m
  BY Counts DEF Present, Index
<1>1. /\ DOMAIN h = Index
      /\ \A i \in 0..(DataShards - 1) : h[i] \in Seq(Byte) /\ Len(h[i]) = size
      /\ \A i \in Index : i >= DataShards => h[i] = sh[i]
  BY DataRebuilt DEF Sized
<1>2. h = [i \in DOMAIN h |-> h[i]]
  BY Zenon DEF dataOf, decodeData
<1>3. /\ f \in [Index -> Seq(Byte)]
      /\ \A i \in Index \ restOf(sh) : f[i] = h[i]
      /\ \A i \in restOf(sh) : f[i] = codeShard(matrix, i, DataShards, h, size)
  BY Rebuilt
<1>4. \A i \in Index : Len(codeShard(matrix, i, DataShards, h, size)) = size
  BY <1>0, DataRebuilt, MatrixRows, CodeSized
<1> HIDE DEF h, f
<1>5. ASSUME NEW i \in Index PROVE h[i] \in Seq(Byte) /\ Len(h[i]) <= m
  <2>1. i \in 0..(DataShards - 1) \/ i >= DataShards
    BY <1>0
  <2> QED BY <1>0, <1>1, <2>1
<1>6. Bounded(h, m)
  BY <1>1, <1>2, <1>5 DEF Bounded, ShardFile
<1>7. ASSUME NEW i \in Index PROVE Len(f[i]) <= m
  BY <1>3, <1>4, <1>5
<1>8. Bounded(f, m)
  BY <1>3, <1>7 DEF Bounded, ShardFile
<1> QED BY <1>6, <1>8 DEF h, f

(* ... and when it checks them first.                                      *)
LEMMA ReconstructBounded ==
  ASSUME MatrixEncodes, NEW m \in Nat, NEW sh, Bounded(sh, m), NEW dataOnly \in BOOLEAN,
         reconstruct(matrix, DataShards, sh, dataOnly).err = "nil"
  PROVE  Bounded(reconstruct(matrix, DataShards, sh, dataOnly).shards, m)
<1> DEFINE r == reconstruct(matrix, DataShards, sh, dataOnly)
           size == shardSize(sh)
<1>0. sh \in [Index -> Seq(Byte)]
  BY DEF Bounded, ShardFile
<1>1. CASE checkShards(sh, TRUE) # "nil"
  <2>1. r = failed(checkShards(sh, TRUE), sh)
    BY <1>1, ReconstructedOnly, Zenon
  <2> HIDE DEF r
  <2>2. r.err # "nil"
    BY <1>1, <2>1 DEF failed
  <2> QED BY <2>2 DEF r
<1>2. CASE checkShards(sh, TRUE) = "nil" /\ \A i \in DOMAIN sh \ filled(sh) : dataOnly /\ i >= DataShards
  <2>1. r = succeeded(sh)
    BY <1>2, ReconstructedOnly, Zenon
  <2> HIDE DEF r
  <2>2. r.shards = sh
    BY <2>1 DEF succeeded
  <2> QED BY <2>2 DEF r
<1>3. CASE /\ checkShards(sh, TRUE) = "nil"
           /\ ~\A i \in DOMAIN sh \ filled(sh) : dataOnly /\ i >= DataShards
  <2>1. ~few(sh)
    <3>1. CASE few(sh)
      <4>1. r = failed("ErrTooFewShards", sh)
        BY <1>3, <3>1, ReconstructedOnly, Zenon
      <4> HIDE DEF r
      <4>2. r.err # "nil"
        BY <4>1 DEF failed
      <4> QED BY <4>2 DEF r
    <3> QED BY <3>1
  <2>2. Present(sh, size)
    BY <1>0, <1>3, <2>1, Checked
  <2>3. decoding(sh) # Singular
    BY <2>2, DecodingRows
  <2>4. r = IF dataOnly THEN succeeded(dataOf(sh, size)) ELSE succeeded(rebuiltOf(sh, size))
    BY <1>3, <2>1, <2>3, ReconstructedOnly, Zenon
  <2>5. size <= m
    <3>1. filled(sh) # {} => \E i \in filled(sh) : size = Len(sh[i])
      BY <1>0, ShardSize
    <3>2. filled(sh) = {} => size = 0
      BY <1>0, ShardSize
    <3>3. \A i \in filled(sh) : i \in Index
      BY <1>0, ShardSize
    <3> HIDE DEF size
    <3> QED BY <3>1, <3>2, <3>3 DEF Bounded
  <2>6. Bounded(dataOf(sh, size), m) /\ Bounded(rebuiltOf(sh, size), m)
    BY <2>2, <2>5, RebuiltBounded
  <2> HIDE DEF r
  <2>7. r.shards = IF dataOnly THEN dataOf(sh, size) ELSE rebuiltOf(sh, size)
    <3> DEFINE h == dataOf(sh, size)
               f == rebuiltOf(sh, size)
    <3> HIDE DEF h, f
    <3>1. CASE dataOnly
      BY <2>4, <3>1 DEF succeeded, h, f
    <3>2. CASE ~dataOnly
      BY <2>4, <3>2 DEF succeeded, h, f
    <3> QED BY <3>1, <3>2
  <2>8. r.shards = dataOf(sh, size) \/ r.shards = rebuiltOf(sh, size)
    BY <2>7, Zenon
  <2>9. Bounded(r.shards, m)
    BY <2>6, <2>8
  <2> QED BY <2>9 DEF r
<1> QED BY <1>1, <1>2, <1>3

-----------------------------------------------------------------------------
(* What the slices of a call hold.                                         *)
LEMMA SlicesBounded ==
  ASSUME NEW R, NEW c, Reading(c, R)
  PROVE  Bounded(slices(c), streamBS) /\ \A i \in Index : Len(slices(c)[i]) = c.len[i]
<1>0. streamBS \in Nat
  BY BlockAssumption
<1>1. ASSUME NEW i \in Index
      PROVE  slices(c)[i] \in Seq(Byte) /\ Len(slices(c)[i]) = c.len[i] /\ c.len[i] \in 0..streamBS
  <2> DEFINE s == c.buf[i]
             n == c.len[i]
  <2>1. s \in Seq(Byte) /\ Len(s) = streamBS /\ n \in 0..streamBS
    BY DEF Reading, Buffers, Call, ShardFile
  <2>2. slices(c)[i] = SubSeq(s, 1, n)
    BY DEF slices
  <2> HIDE DEF s, n
  <2>3. SubSeq(s, 1, n) \in Seq(Byte) /\ Len(SubSeq(s, 1, n)) = n
    BY <2>1, Sliced
  <2> QED BY <2>1, <2>2, <2>3 DEF n
<1>2. slices(c) = [i \in Index |-> slices(c)[i]]
  BY DEF slices
<1> DEFINE f == slices(c)
<1> HIDE DEF f
<1>3. f \in ShardFile
  BY <1>1, <1>2 DEF ShardFile, f
<1>4. \A i \in Index : Len(f[i]) <= streamBS
  BY <1>0, <1>1 DEF f
<1> QED BY <1>1, <1>3, <1>4 DEF Bounded, f

(* The size of the first of them that is not empty.                        *)
LEMMA SliceSize ==
  ASSUME NEW S \in SUBSET Index, NEW f, DOMAIN f = S, NEW m \in Nat,
         \A i \in S : f[i] \in Seq(Byte) /\ Len(f[i]) <= m
  PROVE  shardSize(f) \in 0..m
<1>1. filled(f) \subseteq S
  BY DEF filled
<1>2. CASE filled(f) = {}
  BY <1>2 DEF shardSize
<1>3. CASE filled(f) # {}
  <2> DEFINE i == CHOOSE i \in filled(f) : \A j \in filled(f) : i <= j
  <2>1. filled(f) \in SUBSET Nat
    BY <1>1, Counts DEF Index
  <2>2. \E k \in filled(f) : \A j \in filled(f) : k <= j
    BY <1>3, <2>1, LeastNumber
  <2>3. i \in filled(f)
    BY <2>2, Zenon
  <2>4. shardSize(f) = Len(f[i])
    BY <1>3, Zenon DEF shardSize
  <2> HIDE DEF i
  <2>5. f[i] \in Seq(Byte) /\ Len(f[i]) <= m
    BY <1>1, <2>3
  <2>6. Len(f[i]) \in Nat
    BY <2>5
  <2> QED BY <2>4, <2>5, <2>6
<1> QED BY <1>2, <1>3

(* Trimming and storing leave a call that can go on.                       *)
LEMMA TrimReads ==
  ASSUME NEW R, NEW c, Reading(c, R), NEW set, NEW n \in 0..streamBS
  PROVE  /\ Reading(trimShards(c, set, n), R)
         /\ trimShards(c, set, n).pos = c.pos /\ trimShards(c, set, n).read = c.read
         /\ trimShards(c, set, n).buf = c.buf
         /\ trimShards(c, set, n).len = [i \in Index |-> IF i \in set /\ c.len[i] # 0 THEN n ELSE c.len[i]]
<1> DEFINE t == trimShards(c, set, n)
           l == [i \in Index |-> IF i \in set /\ c.len[i] # 0 THEN n ELSE c.len[i]]
<1>1. c \in Call
  BY DEF Reading
<1>2. t = [c EXCEPT !.len = l]
  BY <1>1, Zenon DEF trimShards
<1>3. l \in [Index -> 0..streamBS]
  BY <1>1 DEF Call
<1> HIDE DEF t, l
<1>4. t.pos = c.pos /\ t.read = c.read /\ t.buf = c.buf /\ t.len = l
  BY <1>1, <1>2 DEF Call
<1>5. t \in Call
  BY <1>1, <1>2, <1>3 DEF Call
<1>6. Reading(t, R)
  BY <1>4, <1>5 DEF Reading
<1> QED BY <1>4, <1>6 DEF t, l

(* The same of the call that computed shards are stored in.                *)
LEMMA StoreReads ==
  ASSUME NEW R, NEW c, Reading(c, R), NEW sh, Bounded(sh, streamBS)
  PROVE  /\ Reading(store(c, sh), R)
         /\ store(c, sh).pos = c.pos /\ store(c, sh).read = c.read
         /\ store(c, sh).len = [i \in Index |-> Len(sh[i])]
<1> DEFINE t == store(c, sh)
           b == [i \in Index |-> sh[i] \o SubSeq(c.buf[i], Len(sh[i]) + 1, streamBS)]
           l == [i \in Index |-> Len(sh[i])]
<1>1. c \in Call /\ streamBS \in Nat
  BY BlockAssumption DEF Reading
<1>2. t = [c EXCEPT !.buf = b, !.len = l]
  <2>1. t = [c EXCEPT !.buf = [i \in Index |-> sh[i] \o SubSeq(@[i], Len(sh[i]) + 1, streamBS)],
                      !.len = l]
    BY Zenon DEF store
  <2> HIDE DEF t, l
  <2> QED BY <1>1, <2>1 DEF Call
<1>3. ASSUME NEW i \in Index
      PROVE  b[i] \in Seq(Byte) /\ Len(b[i]) = streamBS /\ l[i] \in 0..streamBS
  <2> DEFINE s == c.buf[i]
             g == sh[i]
  <2>1. s \in Seq(Byte) /\ Len(s) = streamBS /\ g \in Seq(Byte) /\ Len(g) <= streamBS
    BY DEF Reading, Buffers, Call, ShardFile, Bounded
  <2>2. b[i] = g \o SubSeq(s, Len(g) + 1, streamBS) /\ l[i] = Len(g)
    OBVIOUS
  <2> HIDE DEF s, g, b, l
  <2>3. b[i] \in Seq(Byte) /\ Len(b[i]) = streamBS
    BY <2>1, <2>2, Overwritten
  <2>4. Len(g) \in Nat
    BY <2>1
  <2> QED BY <1>1, <2>1, <2>2, <2>3, <2>4
<1>4. b = [i \in Index |-> b[i]] /\ l = [i \in Index |-> l[i]]
  OBVIOUS
<1> HIDE DEF t, b, l
<1>5. b \in ShardFile /\ l \in [Index -> 0..streamBS]
  BY <1>3, <1>4 DEF ShardFile
<1>6. t.pos = c.pos /\ t.read = c.read /\ t.buf = b /\ t.len = l
  BY <1>1, <1>2 DEF Call
<1>7. t \in Call
  BY <1>1, <1>2, <1>5 DEF Call
<1>8. Reading(t, R)
  BY <1>3, <1>5, <1>6, <1>7 DEF Reading, Buffers
<1> QED BY <1>6, <1>8 DEF t, l

(* Appending leaves files of bytes that are no shorter.                    *)
LEMMA Appended ==
  ASSUME file \in ShardFile, NEW w, NEW sh \in ShardFile, append(w, sh)
  PROVE  /\ file' \in ShardFile
         /\ \A i \in Index : Len(file[i]) <= Len(file'[i])
         /\ \A i \in Index \ w : file'[i] = file[i]
         /\ \A i \in Index \cap w : file'[i] = file[i] \o sh[i]
<1>1. file' = [i \in Index |-> IF i \in w THEN file[i] \o sh[i] ELSE file[i]]
  BY DEF append
<1>2. ASSUME NEW i \in Index
      PROVE  file'[i] \in Seq(Byte) /\ Len(file[i]) <= Len(file'[i])
  <2> DEFINE a == file[i]
             b == sh[i]
  <2>1. a \in Seq(Byte) /\ b \in Seq(Byte)
    BY DEF ShardFile
  <2>2. file'[i] = IF i \in w THEN a \o b ELSE a
    BY <1>1
  <2> HIDE DEF a, b
  <2>3. a \o b \in Seq(Byte) /\ Len(a \o b) = Len(a) + Len(b)
    BY <2>1, ConcatProperties
  <2>4. Len(a) \in Nat /\ Len(b) \in Nat
    BY <2>1
  <2>5. CASE i \in w
    BY <2>2, <2>3, <2>4, <2>5 DEF a
  <2>6. CASE i \notin w
    BY <2>1, <2>2, <2>4, <2>6 DEF a
  <2> QED BY <2>5, <2>6
<1>3. file' \in ShardFile
  BY <1>1, <1>2 DEF ShardFile
<1> QED BY <1>1, <1>2, <1>3

(* What Encode makes of slices is no longer than they are.                 *)
LEMMA EncodeBounded ==
  ASSUME MatrixEncodes, NEW m \in Nat, NEW sh, Bounded(sh, m)
  PROVE  Bounded(Encode(matrix, DataShards, sh).shards, m)
<1> DEFINE coded == codeShards(matrix, DataShards, sh, parityOf(DataShards, sh), Len(sh[0]))
<1>0. sh \in [Index -> Seq(Byte)] /\ 0 \in Index
  BY Counts DEF Bounded, ShardFile, Index
<1>1. Encode(matrix, DataShards, sh)
        = IF checkShards(sh, FALSE) # "nil" THEN failed(checkShards(sh, FALSE), sh)
          ELSE succeeded(coded)
  BY Zenon DEF Encode
<1>9. Encode(matrix, DataShards, sh).shards \in ShardFile
  BY <1>0, EncodeTyped DEF ShardFile
<1> HIDE DEF coded
<1>2. CASE checkShards(sh, FALSE) # "nil"
  BY <1>1, <1>2 DEF failed
<1>3. CASE checkShards(sh, FALSE) = "nil"
  <2> DEFINE size == shardSize(sh)
  <2>1. checkSize(sh, FALSE, size) = "nil"
    BY <1>3 DEF checkShards
  <2>2. \A i \in Index : Len(sh[i]) = size
    <3> HIDE DEF size
    <3>1. DOMAIN sh = Index
      BY <1>0
    <3> QED BY <2>1, <3>1 DEF checkSize
  <2>3. Len(sh[0]) = size /\ Len(sh[0]) \in Nat
    BY <1>0, <2>2
  <2> HIDE DEF size
  <2>4. Sized(sh, DataShards, size)
    BY <1>0, <2>2, <2>3, Counts DEF Sized, Index
  <2>5. \A i \in Index : Len(codeShard(matrix, i, DataShards, sh, size)) = size
    BY <2>4, Counts, MatrixRows, CodeSized
  <2>6. coded = [i \in Index |-> IF i \in parityOf(DataShards, sh)
                                 THEN codeShard(matrix, i, DataShards, sh, size) ELSE sh[i]]
    <3>1. DOMAIN sh = Index
      BY <1>0
    <3> QED BY <2>3, <3>1, Zenon DEF coded, codeShards
  <2>7. size <= m
    BY <1>0, <2>3 DEF Bounded
  <2>8. \A i \in Index : Len(coded[i]) <= m
    BY <2>2, <2>5, <2>6, <2>7
  <2>9. Encode(matrix, DataShards, sh).shards = coded
    BY <1>1, <1>3 DEF succeeded
  <2> QED BY <1>9, <2>8, <2>9 DEF Bounded
<1> QED BY <1>2, <1>3

-----------------------------------------------------------------------------
(* Where the stream programs stand between their steps.                    *)
SEnc == [pc : {"idle", "create", "split", "encode", "done"}, content : Seq(Byte), next : Nat,
         call : Call]
SDec == [pc : {"idle", "reconstruct", "join", "done"}, before : ShardFile, valid : ShardFile,
         call : Call, exit : {"none", "ok", "failed", "stopped"}]

Fresh(c) == \A i \in Index : c.pos[i] = 0

EncTyped(e, f) ==
  /\ e \in SEnc /\ Reading(e.call, f)
  /\ e.pc # "encode" => Fresh(e.call)
  /\ e.pc = "split" => e.next \in dataIndex
DecTyped(d) == d \in SDec /\ Reading(d.call, d.valid)

(* The decoder was started on at least DataShards shards of one content.   *)
Holding(sh, c) == Cardinality(filled(sh)) >= DataShards /\ Agree(sh, codewords[c], filled(sh))

(* So far as it has rebuilt the missing shards, they are of the content.   *)
Rebuilding(d, f, c) ==
  /\ d.valid = d.before
  /\ filled(d.before) # Index
  /\ \E p \in 0..per(c) :
       /\ Level(d.call, d.before, per(c), p)
       /\ \A i \in Index : f[i] = IF i \in filled(d.before) THEN codewords[c][i]
                                  ELSE SubSeq(codewords[c][i], 1, p)

Restoring(d, f, out, c) ==
  /\ d.pc = "reconstruct" => Rebuilding(d, f, c)
  /\ d.pc = "join" => f = codewords[c]
  /\ d.exit = "ok" => out = paddedData(c)
  /\ d.exit # "failed"

StreamSound(d, f, out) ==
  /\ d.exit # "none" => d.pc = "done"
  /\ d.pc = "join" => Agreed(f)
  /\ \A c \in Contents : Holding(d.before, c) => Restoring(d, f, out, c)

OneStream == sDec.pc \in {"reconstruct", "join"} => sEnc.pc \in {"idle", "done"}

StreamInv ==
  /\ programs \in {"commands", "streams"}
  /\ programs = "commands" => sEnc = noStreamEncoder /\ sDec = noStreamDecoder
  /\ programs = "streams" =>
       /\ file \in ShardFile
       /\ EncTyped(sEnc, file)
       /\ DecTyped(sDec)
       /\ OneStream
       /\ StreamSound(sDec, file, output)

-----------------------------------------------------------------------------
(* The calls a program starts with.                                        *)
LEMMA BlankBuffers == Buffers(blank)
<1>1. zeros(streamBS) \in Seq(Byte) /\ Len(zeros(streamBS)) = streamBS
  BY BlockAssumption, Zeros
<1> DEFINE z == zeros(streamBS)
<1>2. blank = [i \in Index |-> z]
  BY DEF blank
<1> HIDE DEF z
<1>3. z \in Seq(Byte) /\ Len(z) = streamBS
  BY <1>1 DEF z
<1> QED BY <1>2, <1>3 DEF Buffers, ShardFile

(* A call on such buffers can start on any files.                          *)
LEMMA FreshCall ==
  ASSUME NEW buf, Buffers(buf), NEW R \in ShardFile
  PROVE  Reading(createSlice(buf), R) /\ Fresh(createSlice(buf)) /\ createSlice(buf) \in Call
<1>1. Reading(createSlice(buf), R)
  BY FirstRound
<1>2. Fresh(createSlice(buf))
  BY DEF createSlice, Fresh
<1> QED BY <1>1, <1>2 DEF Reading

(* Programs that do not run are typed.                                     *)
LEMMA NoneTyped ==
  ASSUME NEW f \in ShardFile
  PROVE  /\ EncTyped(noStreamEncoder, f)
         /\ EncTyped([noStreamEncoder EXCEPT !.pc = "done"], f)
         /\ DecTyped(noStreamDecoder)
         /\ noShards \in ShardFile
<1> DEFINE c == createSlice(blank)
<1>1. noShards \in ShardFile
  BY DEF noShards, ShardFile
<1>2. Reading(c, f) /\ Fresh(c) /\ c \in Call /\ Reading(c, noShards)
  BY <1>1, BlankBuffers, FreshCall
<1>3. /\ noStreamEncoder = [pc |-> "idle", content |-> <<>>, next |-> 0, call |-> c]
      /\ noStreamDecoder = [pc |-> "idle", before |-> noShards, valid |-> noShards,
                            call |-> c, exit |-> "none"]
  BY DEF noStreamEncoder, noStreamDecoder
<1> HIDE DEF c
<1>4. EncTyped(noStreamEncoder, f)
  BY <1>2, <1>3 DEF EncTyped, SEnc
<1>5. EncTyped([noStreamEncoder EXCEPT !.pc = "done"], f)
  <2> DEFINE e == [noStreamEncoder EXCEPT !.pc = "done"]
  <2>1. e = [pc |-> "done", content |-> <<>>, next |-> 0, call |-> c]
    BY <1>3
  <2> HIDE DEF e
  <2>2. EncTyped(e, f)
    BY <1>2, <2>1 DEF EncTyped, SEnc
  <2> QED BY <2>2 DEF e
<1>6. DecTyped(noStreamDecoder)
  BY <1>1, <1>2, <1>3 DEF DecTyped, SDec
<1> QED BY <1>1, <1>4, <1>5, <1>6

(* A call that has read nothing fits any files; one that reads still fits  *)
(* files that did not get shorter.                                         *)
LEMMA StillReading ==
  ASSUME NEW c, NEW R \in ShardFile, Reading(c, R), NEW f \in ShardFile,
         Fresh(c) \/ \A i \in Index : Len(R[i]) <= Len(f[i])
  PROVE  Reading(c, f)
<1>1. \A i \in Index : c.pos[i] \in Nat /\ c.pos[i] <= Len(R[i])
  BY DEF Reading, Call
<1>2. \A i \in Index : Len(R[i]) \in Nat /\ Len(f[i]) \in Nat
  BY DEF ShardFile
<1>3. \A i \in Index : c.pos[i] <= Len(f[i])
  BY <1>1, <1>2 DEF Fresh
<1> QED BY <1>3 DEF Reading

(* The pieces a content is cut into are bytes.                             *)
LEMMA SplitPieces ==
  ASSUME NEW content \in Seq(Byte), NEW i \in dataIndex
  PROVE  splitStream(content)[i] \in Seq(Byte)
<1> DEFINE m == per(content)
           t == Shards * m
           z == zeros(t - Len(content))
           p == content \o z
<1>1. m \in Nat /\ Len(content) <= DataShards * m /\ DataShards * m \in Nat
  BY Padded
<1>2. DataShards * m <= Shards * m /\ t \in Nat
  BY <1>1, Counts, TimesMonotone, TimesNext
<1>3. Len(content) \in Nat /\ t - Len(content) \in Nat
  BY <1>1, <1>2
<1>4. splitStream(content) = [k \in dataIndex |-> SubSeq(p, k * m + 1, (k + 1) * m)]
  BY Zenon DEF splitStream, per, dataIndex
<1> HIDE DEF m, t
<1>5. z \in Seq(Byte) /\ Len(z) = t - Len(content)
  BY <1>3, Zeros
<1> HIDE DEF z
<1>6. p \in Seq(Byte) /\ Len(p) = Len(content) + Len(z)
  BY <1>5, ConcatProperties
<1>7. Len(p) = t
  BY <1>2, <1>3, <1>5, <1>6
<1> HIDE DEF p
<1>8. i \in 0..(Shards - 1)
  BY Counts DEF dataIndex
<1>9. Shards * m <= Len(p)
  BY <1>2, <1>7 DEF t
<1>10. SubSeq(p, i * m + 1, (i + 1) * m) \in Seq(Byte)
  BY <1>1, <1>6, <1>8, <1>9, Counts, PieceBytes
<1>11. splitStream(content)[i] = SubSeq(p, i * m + 1, (i + 1) * m)
  BY <1>4
<1> QED BY <1>10, <1>11

-----------------------------------------------------------------------------
(* The steps of the stream encoder.                                        *)
SEncoderStep ==
  \/ \E content \in Contents :
       sDec.pc \in {"idle", "done"} /\ StreamEncoderStarts(content)
  \/ StreamEncoderCreates \/ StreamEncoderSplits \/ StreamEncoderEncodes \/ StreamEncoderStops

EncoderReady == file \in ShardFile /\ EncTyped(sEnc, file)

(* Starting it ...                                                         *)
LEMMA StartsKeeps ==
  ASSUME EncoderReady, NEW content \in Contents, StreamEncoderStarts(content)
  PROVE  EncoderReady'
<1>1. file' = file /\ sEnc' = [noStreamEncoder EXCEPT !.pc = "create", !.content = content]
  BY DEF StreamEncoderStarts, diskVars
<1>2. EncTyped(noStreamEncoder, file)
  BY NoneTyped DEF EncoderReady
<1>3. content \in Seq(Byte)
  BY ContentsAssumption
<1> DEFINE e == noStreamEncoder
           d == [e EXCEPT !.pc = "create", !.content = content]
<1> HIDE DEF e
<1>4. e \in SEnc /\ Reading(e.call, file) /\ (e.pc # "encode" => Fresh(e.call)) /\ e.pc = "idle"
  BY <1>2 DEF EncTyped, e, noStreamEncoder
<1>5. d \in SEnc /\ d.call = e.call /\ d.pc = "create"
  BY <1>3, <1>4 DEF SEnc
<1> HIDE DEF d
<1>6. EncTyped(d, file)
  BY <1>4, <1>5 DEF EncTyped
<1>7. sEnc' = d
  BY <1>1 DEF d, e
<1> QED BY <1>1, <1>6, <1>7 DEF EncoderReady

(* ... truncating an output file ...                                       *)
LEMMA CreatesStreamKeeps ==
  ASSUME EncoderReady, StreamEncoderCreates
  PROVE  EncoderReady'
<1> DEFINE last == sEnc.next = Shards - 1
           n == IF last THEN 0 ELSE sEnc.next + 1
           pc == IF ~last THEN "create" ELSE IF sEnc.content = <<>> THEN "done" ELSE "split"
<1>0. /\ file \in ShardFile /\ sEnc \in SEnc /\ Reading(sEnc.call, file)
      /\ sEnc.pc = "create" /\ Fresh(sEnc.call)
  BY DEF EncoderReady, EncTyped, StreamEncoderCreates
<1>1. file' = [file EXCEPT ![sEnc.next] = <<>>]
  BY DEF StreamEncoderCreates
<1>2. sEnc' = [sEnc EXCEPT !.next = n, !.pc = pc]
  <2>1. sEnc' = [sEnc EXCEPT !.next = IF last THEN 0 ELSE @ + 1, !.pc = pc]
    BY Zenon DEF StreamEncoderCreates
  <2> HIDE DEF pc
  <2> QED BY <1>0, <2>1 DEF SEnc
<1>3. <<>> \in Seq(Byte)
  OBVIOUS
<1>4. file' \in ShardFile
  BY <1>0, <1>1, <1>3 DEF ShardFile
<1>5. n \in Nat /\ pc \in {"create", "done", "split"} /\ (pc = "split" => n \in dataIndex)
  <2>1. sEnc.next \in Nat /\ 0 \in dataIndex
    BY <1>0, Counts DEF SEnc, dataIndex
  <2> QED BY <2>1
<1> HIDE DEF n, pc
<1>6. sEnc' \in SEnc /\ sEnc'.pc = pc /\ sEnc'.call = sEnc.call /\ sEnc'.next = n
  BY <1>0, <1>2, <1>5 DEF SEnc
<1>7. Reading(sEnc.call, file')
  BY <1>0, <1>4, StillReading
<1>8. EncTyped(sEnc', file')
  BY <1>0, <1>5, <1>6, <1>7 DEF EncTyped
<1> QED BY <1>4, <1>8 DEF EncoderReady

(* ... writing a data file ...                                             *)
LEMMA SplitsKeeps ==
  ASSUME EncoderReady, StreamEncoderSplits
  PROVE  EncoderReady'
<1> DEFINE last == sEnc.next = DataShards - 1
           n == IF last THEN 0 ELSE sEnc.next + 1
           pc == IF last THEN "encode" ELSE "split"
           s == splitStream(sEnc.content)[sEnc.next]
<1>0. /\ file \in ShardFile /\ sEnc \in SEnc /\ Reading(sEnc.call, file)
      /\ sEnc.pc = "split" /\ Fresh(sEnc.call) /\ sEnc.next \in dataIndex
  BY DEF EncoderReady, EncTyped, StreamEncoderSplits
<1>1. file' = [file EXCEPT ![sEnc.next] = s]
  BY DEF StreamEncoderSplits
<1>2. sEnc' = [sEnc EXCEPT !.next = n, !.pc = pc]
  <2>1. sEnc' = [sEnc EXCEPT !.next = IF last THEN 0 ELSE @ + 1, !.pc = pc]
    BY Zenon DEF StreamEncoderSplits
  <2> HIDE DEF pc
  <2> QED BY <1>0, <2>1 DEF SEnc
<1>3. s \in Seq(Byte)
  <2>1. sEnc.content \in Seq(Byte)
    BY <1>0 DEF SEnc
  <2> QED BY <1>0, <2>1, SplitPieces
<1> HIDE DEF s
<1>4. file' \in ShardFile
  BY <1>0, <1>1, <1>3 DEF ShardFile
<1>5. n \in Nat /\ pc \in {"encode", "split"} /\ (pc = "split" => n \in dataIndex)
  <2>1. DataShards \in Nat \ {0}
    BY Counts
  <2> QED BY <1>0, <2>1 DEF dataIndex
<1> HIDE DEF n, pc
<1>6. sEnc' \in SEnc /\ sEnc'.pc = pc /\ sEnc'.call = sEnc.call /\ sEnc'.next = n
  BY <1>0, <1>2, <1>5 DEF SEnc
<1>7. Reading(sEnc.call, file')
  BY <1>0, <1>4, StillReading
<1>8. EncTyped(sEnc', file')
  BY <1>0, <1>5, <1>6, <1>7 DEF EncTyped
<1> QED BY <1>4, <1>8 DEF EncoderReady

(* ... coding a block ...                                                  *)
LEMMA EncodesKeeps ==
  ASSUME MatrixEncodes, EncoderReady, StreamEncoderEncodes
  PROVE  EncoderReady'
<1> DEFINE block == readBlock(sEnc.call, file, dataIndex)
           size == shardSize([i \in dataIndex |-> slices(block.call)[i]])
           trimmed == trimShards(block.call, parityIndex, size)
           coded == Encode(matrix, DataShards, slices(trimmed))
           ended == [noStreamEncoder EXCEPT !.pc = "done"]
<1>0. /\ file \in ShardFile /\ sEnc \in SEnc /\ Reading(sEnc.call, file) /\ sEnc.pc = "encode"
  BY DEF EncoderReady, EncTyped, StreamEncoderEncodes
<1>1. \/ sEnc' = ended /\ UNCHANGED file
      \/ /\ coded.err = "nil"
         /\ \E w \in reached(parityIndex) :
              /\ append(w, coded.shards)
              /\ sEnc' = [sEnc EXCEPT !.call = store(trimmed, coded.shards)] \/ sEnc' = ended
  BY Zenon DEF StreamEncoderEncodes, writesParity, encodeBlock
<1>2. dataIndex \in SUBSET Index /\ streamBS \in Nat
  BY Counts, BlockAssumption DEF dataIndex, Index
<1>3. Reading(block.call, file)
  BY <1>0, <1>2, ReadTyped
<1> HIDE DEF block
<1>4. size \in 0..streamBS
  <2> DEFINE f == [i \in dataIndex |-> slices(block.call)[i]]
  <2>1. Bounded(slices(block.call), streamBS)
    BY <1>3, SlicesBounded
  <2>2. \A i \in dataIndex : f[i] \in Seq(Byte) /\ Len(f[i]) <= streamBS
    BY <1>2, <2>1 DEF Bounded, ShardFile
  <2>3. DOMAIN f = dataIndex
    OBVIOUS
  <2> HIDE DEF f
  <2>4. shardSize(f) \in 0..streamBS
    BY <1>2, <2>2, <2>3, SliceSize
  <2> QED BY <2>4 DEF f
<1> HIDE DEF size
<1>5. Reading(trimmed, file)
  BY <1>3, <1>4, TrimReads
<1> HIDE DEF trimmed
<1>6. Bounded(coded.shards, streamBS)
  <2>1. Bounded(slices(trimmed), streamBS)
    BY <1>5, SlicesBounded
  <2> QED BY <1>2, <2>1, EncodeBounded
<1> HIDE DEF coded, ended
<1>7. ASSUME NEW f \in ShardFile PROVE EncTyped(ended, f)
  BY NoneTyped DEF ended
<1>8. CASE sEnc' = ended /\ UNCHANGED file
  BY <1>0, <1>7, <1>8 DEF EncoderReady
<1>9. ASSUME NEW w, append(w, coded.shards),
             sEnc' = [sEnc EXCEPT !.call = store(trimmed, coded.shards)] \/ sEnc' = ended
      PROVE  EncoderReady'
  <2>1. file' \in ShardFile /\ \A i \in Index : Len(file[i]) <= Len(file'[i])
    BY <1>0, <1>6, <1>9, Appended DEF Bounded
  <2>2. CASE sEnc' = ended
    BY <1>7, <2>1, <2>2 DEF EncoderReady
  <2>3. CASE sEnc' = [sEnc EXCEPT !.call = store(trimmed, coded.shards)]
    <3> DEFINE c == store(trimmed, coded.shards)
    <3>1. Reading(c, file)
      BY <1>5, <1>6, StoreReads
    <3>2. Reading(c, file')
      BY <1>0, <2>1, <3>1, StillReading
    <3> HIDE DEF c
    <3>3. sEnc' = [sEnc EXCEPT !.call = c] /\ c \in Call
      BY <2>3, <3>2 DEF c, Reading
    <3>4. sEnc' \in SEnc /\ sEnc'.call = c /\ sEnc'.pc = "encode"
      BY <1>0, <3>3 DEF SEnc
    <3>5. EncTyped(sEnc', file')
      BY <3>2, <3>4 DEF EncTyped
    <3> QED BY <2>1, <3>5 DEF EncoderReady
  <2> QED BY <1>9, <2>2, <2>3
<1> QED BY <1>1, <1>8, <1>9

(* ... and being stopped leave it where it may stand.                      *)
LEMMA StopsKeeps ==
  ASSUME EncoderReady, StreamEncoderStops
  PROVE  EncoderReady'
<1> DEFINE s == splitStream(sEnc.content)[sEnc.next]
<1>0. file \in ShardFile /\ sEnc \in SEnc /\ (sEnc.pc = "split" => sEnc.next \in dataIndex)
  BY DEF EncoderReady, EncTyped
<1>1. sEnc' = [noStreamEncoder EXCEPT !.pc = "done"]
  BY DEF StreamEncoderStops
<1>2. file' \in ShardFile
  <2>1. CASE sEnc.pc # "split"
    <3>1. file' = file
      BY <2>1 DEF StreamEncoderStops
    <3> QED BY <1>0, <3>1
  <2>2. CASE sEnc.pc = "split"
    <3>1. PICK n \in 0..Len(s) : file' = [file EXCEPT ![sEnc.next] = SubSeq(s, 1, n)]
      BY <2>2 DEF StreamEncoderStops
    <3>2. sEnc.content \in Seq(Byte)
      BY <1>0 DEF SEnc
    <3>3. s \in Seq(Byte)
      BY <1>0, <2>2, <3>2, SplitPieces
    <3> HIDE DEF s
    <3>4. SubSeq(s, 1, n) \in Seq(Byte)
      BY <3>1, <3>3, Sliced
    <3> DEFINE u == SubSeq(s, 1, n)
    <3> HIDE DEF u
    <3>5. file' = [file EXCEPT ![sEnc.next] = u] /\ u \in Seq(Byte)
      BY <3>1, <3>4 DEF u
    <3> QED BY <1>0, <3>5 DEF ShardFile
  <2> QED BY <2>1, <2>2
<1>3. EncTyped(sEnc', file')
  BY <1>1, <1>2, NoneTyped
<1> QED BY <1>2, <1>3 DEF EncoderReady

(* So every step of the encoder does, and none comes while a decoder       *)
(* works.                                                                  *)
LEMMA StreamEncoderKeeps ==
  ASSUME MatrixEncodes, EncoderReady, OneStream, SEncoderStep
  PROVE  /\ EncoderReady' /\ sDec' = sDec /\ output' = output
         /\ sDec.pc \notin {"reconstruct", "join"}
<1>1. EncoderReady'
  BY StartsKeeps, CreatesStreamKeeps, SplitsKeeps, EncodesKeeps, StopsKeeps DEF SEncoderStep
<1>2. sDec' = sDec /\ output' = output
  BY Zenon DEF SEncoderStep, StreamEncoderStarts, StreamEncoderCreates, StreamEncoderSplits,
         StreamEncoderEncodes, StreamEncoderStops, diskVars
<1>3. sDec.pc \in {"idle", "done"} \/ sEnc.pc \in {"create", "split", "encode"}
  BY Zenon DEF SEncoderStep, StreamEncoderStarts, StreamEncoderCreates, StreamEncoderSplits,
         StreamEncoderEncodes, StreamEncoderStops
<1>4. sDec.pc \notin {"reconstruct", "join"}
  BY <1>3 DEF OneStream
<1> QED BY <1>1, <1>2, <1>4

-----------------------------------------------------------------------------
(* The steps of the stream decoder.                                        *)
DecoderReady == file \in ShardFile /\ DecTyped(sDec) /\ StreamSound(sDec, file, output)

(* What a decoder that was started on shards of one content works with.    *)
LEMMA HoldingShared ==
  ASSUME MatrixEncodes, NEW R \in ShardFile, NEW c \in Contents, Holding(R, c)
  PROVE  /\ Coded(codewords[c], per(c)) /\ c # <<>>
         /\ Shared(R, codewords[c], per(c))
         /\ per(c) \in Nat \ {0}
<1>1. Cardinality(filled(R)) >= DataShards /\ Agree(R, codewords[c], filled(R))
  BY DEF Holding
<1>2. c # <<>>
  BY <1>1, ServingFull
<1>3. Coded(codewords[c], per(c))
  BY <1>2, CodewordCoded
<1>4. filled(R) # {}
  BY <1>1, Counts, FS_EmptySet
<1>5. per(c) \in Nat \ {0}
  BY <1>3 DEF Coded
<1> QED BY <1>1, <1>2, <1>3, <1>4, <1>5 DEF Shared

(* Shards of a content of which none is missing are its codeword.          *)
LEMMA HoldingAll ==
  ASSUME MatrixEncodes, NEW R \in ShardFile, NEW c \in Contents, Holding(R, c), filled(R) = Index
  PROVE  R = codewords[c]
<1> DEFINE cw == codewords[c]
<1>1. cw \in [Index -> Seq(Byte)]
  BY HoldingShared DEF Coded
<1>2. \A i \in Index : R[i] = cw[i]
  BY DEF Holding, Agree
<1> HIDE DEF cw
<1>3. R = cw
  BY <1>1, <1>2 DEF ShardFile
<1> QED BY <1>3 DEF cw

(* A decoder that ends without success, or says why, asks no more.         *)
LEMMA ExitKeeps ==
  ASSUME DecTyped(sDec), NEW x \in {"ok", "failed", "stopped"}
  PROVE  /\ DecTyped(exitDecoder(x))
         /\ exitDecoder(x).pc = "done" /\ exitDecoder(x).exit = x
         /\ exitDecoder(x).before = sDec.before
<1> DEFINE k == createSlice(blank)
           d == [sDec EXCEPT !.pc = "done", !.call = k, !.exit = x]
<1>1. sDec \in SDec /\ sDec.valid \in ShardFile
  BY DEF DecTyped, SDec
<1>2. Reading(k, sDec.valid) /\ k \in Call
  BY <1>1, BlankBuffers, FreshCall
<1> HIDE DEF k
<1>3. /\ d \in SDec /\ d.call = k /\ d.valid = sDec.valid
      /\ d.pc = "done" /\ d.exit = x /\ d.before = sDec.before
  BY <1>1, <1>2 DEF SDec
<1>4. exitDecoder(x) = d
  BY DEF exitDecoder, k
<1> HIDE DEF d
<1>5. DecTyped(d)
  BY <1>2, <1>3 DEF DecTyped
<1> QED BY <1>3, <1>4, <1>5

(* A decoder that is stopped has promised nothing.                         *)
LEMMA StopKeeps ==
  ASSUME DecoderReady, file' \in ShardFile, sDec' = exitDecoder("stopped")
  PROVE  DecoderReady'
<1>1. /\ DecTyped(sDec') /\ sDec'.pc = "done" /\ sDec'.exit = "stopped"
  BY ExitKeeps DEF DecoderReady
<1>2. StreamSound(sDec', file', output')
  BY <1>1 DEF StreamSound, Restoring
<1> QED BY <1>1, <1>2 DEF DecoderReady

(* A failure is sound when no content could have been served.              *)
LEMMA FailKeeps ==
  ASSUME DecoderReady, file' \in ShardFile, sDec' = exitDecoder("failed"),
         \A c \in Contents : ~Holding(sDec.before, c)
  PROVE  DecoderReady'
<1>1. /\ DecTyped(sDec') /\ sDec'.pc = "done" /\ sDec'.exit = "failed"
      /\ sDec'.before = sDec.before
  BY ExitKeeps DEF DecoderReady
<1>2. StreamSound(sDec', file', output')
  BY <1>1 DEF StreamSound
<1> QED BY <1>1, <1>2 DEF DecoderReady

(* The first verification: whole files go on to be joined, files of which  *)
(* some are missing to be rebuilt.                                         *)
LEMMA VerifiesKeeps ==
  ASSUME MatrixEncodes, DecoderReady, StreamDecoderVerifies
  PROVE  DecoderReady'
<1> DEFINE v == verifyStream(blank, file)
           k == createSlice(v.call.buf)
           pc == IF v.verdict = "true" THEN "join" ELSE "reconstruct"
           d == [pc |-> pc, before |-> file, valid |-> file, call |-> k, exit |-> "none"]
<1>1. file' = file /\ sDec' = d /\ file \in ShardFile
  <2>1. file' = file /\ sDec' = afterVerify(v) /\ file \in ShardFile
    BY DEF StreamDecoderVerifies, diskVars, DecoderReady
  <2>2. afterVerify(v) = [noStreamDecoder EXCEPT !.before = file, !.valid = file, !.call = k, !.pc = pc]
    BY Zenon DEF afterVerify
  <2> HIDE DEF k, pc
  <2>3. [noStreamDecoder EXCEPT !.before = file, !.valid = file, !.call = k, !.pc = pc] = d
    <3> DEFINE z == createSlice(blank)
    <3> HIDE DEF z
    <3>1. noStreamDecoder = [pc |-> "idle", before |-> noShards, valid |-> noShards,
                             call |-> z, exit |-> "none"]
      BY DEF noStreamDecoder, z
    <3> DEFINE a == [noStreamDecoder EXCEPT !.before = file]
               e == [a EXCEPT !.valid = file]
               g == [e EXCEPT !.call = k]
    <3>5. a = [pc |-> "idle", before |-> file, valid |-> noShards, call |-> z, exit |-> "none"]
      BY <3>1
    <3> HIDE DEF a
    <3>2. e = [pc |-> "idle", before |-> file, valid |-> file, call |-> z, exit |-> "none"]
      BY <3>5
    <3> HIDE DEF e
    <3>3. g = [pc |-> "idle", before |-> file, valid |-> file, call |-> k, exit |-> "none"]
      BY <3>2
    <3> HIDE DEF g
    <3>4. [g EXCEPT !.pc = pc] = d
      BY <3>3
    <3> QED BY <3>4 DEF a, e, g
  <2> QED BY <2>1, <2>2, <2>3
<1>2. Verifying(v, file)
  BY <1>1, BlankBuffers, VerifySound
<1>3. Buffers(v.call.buf)
  BY <1>2 DEF Verifying, Reading
<1>4. Reading(k, file) /\ k \in Call
  BY <1>1, <1>3, FreshCall
<1>5. pc = "join" => Agreed(file)
  BY <1>2 DEF Verifying
<1>6. ASSUME NEW c \in Contents, Holding(file, c)
      PROVE  Restoring(d, file, output', c)
  <2>0. /\ Coded(codewords[c], per(c)) /\ Shared(file, codewords[c], per(c))
        /\ per(c) \in Nat \ {0}
    BY <1>1, <1>6, HoldingShared
  <2>1. CASE filled(file) = Index
    <3>1. file = codewords[c]
      BY <1>1, <1>6, <2>1, HoldingAll
    <3>2. v.verdict = "true"
      BY <1>1, <2>0, <3>1, BlankBuffers, VerifyComplete
    <3>3. d.pc = "join" /\ d.exit = "none"
      BY <3>2
    <3> HIDE DEF d
    <3> QED BY <3>1, <3>3 DEF Restoring
  <2>2. CASE filled(file) # Index
    <3>1. ~Agreed(file)
      BY <1>1, <2>2, AgreedFilled
    <3>2. pc = "reconstruct"
      BY <1>5, <3>1
    <3>3. Level(k, file, per(c), 0)
      BY <1>3, <2>0, LevelStart
    <3>4. \A i \in Index : file[i] = IF i \in filled(file) THEN codewords[c][i]
                                     ELSE SubSeq(codewords[c][i], 1, 0)
      <4>1. ASSUME NEW i \in Index \ filled(file)
            PROVE  file[i] = SubSeq(codewords[c][i], 1, 0)
        <5>1. file[i] = <<>>
          BY <1>1 DEF filled, ShardFile
        <5> DEFINE s == codewords[c][i]
        <5> HIDE DEF s
        <5>2. SubSeq(s, 1, 0) = <<>>
          BY SubSeqEmpty
        <5> QED BY <5>1, <5>2 DEF s
      <4>2. \A i \in filled(file) : file[i] = codewords[c][i]
        BY <1>6 DEF Holding, Agree
      <4> QED BY <4>1, <4>2
    <3>5. 0 \in 0..per(c)
      BY <2>0
    <3>6. /\ d.pc = "reconstruct" /\ d.valid = file /\ d.before = file /\ d.call = k
          /\ d.exit = "none"
      BY <3>2
    <3> HIDE DEF d, k
    <3>7. Rebuilding(d, file, c)
      BY <2>2, <3>3, <3>4, <3>5, <3>6 DEF Rebuilding
    <3> QED BY <3>6, <3>7 DEF Restoring
  <2> QED BY <2>1, <2>2
<1>7. pc \in {"join", "reconstruct"}
  OBVIOUS
<1> HIDE DEF pc, k
<1>8. /\ d \in SDec /\ d.call = k /\ d.valid = file /\ d.pc = pc /\ d.exit = "none"
      /\ d.before = file
  BY <1>1, <1>4, <1>7 DEF SDec
<1> HIDE DEF d
<1>9. DecTyped(d)
  BY <1>4, <1>8 DEF DecTyped
<1>10. StreamSound(d, file, output')
  BY <1>5, <1>6, <1>8 DEF StreamSound
<1> QED BY <1>1, <1>9, <1>10 DEF DecoderReady

-----------------------------------------------------------------------------
(* A round of the reconstruction: the trimmed block it rebuilds from.      *)
trimmedBlock(k, R) ==
  trimShards(readBlock(k, R, Index).call, Index, shardSize(slices(readBlock(k, R, Index).call)))

(* It is a call that can go on.                                            *)
LEMMA TrimmedReads ==
  ASSUME NEW R \in ShardFile, NEW k, Reading(k, R)
  PROVE  Reading(trimmedBlock(k, R), R)
<1> DEFINE d == readBlock(k, R, Index).call
           n == shardSize(slices(d))
<1>1. Reading(d, R)
  BY ReadTyped
<1>2. Bounded(slices(d), streamBS)
  BY <1>1, SlicesBounded
<1> HIDE DEF d
<1>3. n \in 0..streamBS
  <2> DEFINE f == slices(d)
  <2>1. DOMAIN f = Index /\ \A i \in Index : f[i] \in Seq(Byte) /\ Len(f[i]) <= streamBS
    BY <1>2 DEF Bounded, ShardFile
  <2> HIDE DEF f
  <2>2. shardSize(f) \in 0..streamBS
    BY <2>1, BlockAssumption, SliceSize
  <2> QED BY <2>2 DEF f
<1> HIDE DEF n
<1>4. Reading(trimShards(d, Index, n), R)
  BY <1>1, <1>3, TrimReads
<1> QED BY <1>4 DEF trimmedBlock, d, n

(* A round that is in the middle of the shards of one code rebuilds the    *)
(* piece of it that the block covers.                                      *)
LEMMA RoundRebuilds ==
  ASSUME MatrixEncodes, NEW R, NEW cw, NEW size, Shared(R, cw, size),
         Cardinality(filled(R)) >= DataShards, filled(R) # Index,
         NEW k, Reading(k, R), NEW p, Level(k, R, size, p), p < size
  PROVE  LET n == blockSize(size, p)
         IN  /\ n \in Nat \ {0} /\ p + n <= size
             /\ readBlock(k, R, Index).err = "nil"
             /\ reconstructBlock(trimmedBlock(k, R), R) = succeeded(piece(cw, p, n))
             /\ Level(store(trimmedBlock(k, R), piece(cw, p, n)), R, size, p + n)
<1> DEFINE n == blockSize(size, p)
           d == readBlock(k, R, Index).call
           W == filled(R)
           sh == slices(d)
           q == piece(cw, p, n)
           t == trimShards(d, Index, shardSize(sh))
<1>0. R \in ShardFile /\ Coded(cw, size) /\ W # {} /\ p \in Nat /\ size \in Nat
  BY DEF Shared, Level, Coded
<1>1. /\ n \in Nat \ {0} /\ p + n <= size /\ n <= streamBS
      /\ readBlock(k, R, Index).err = "nil"
      /\ \A i \in W : sh[i] = q[i] /\ d.len[i] = n
      /\ \A i \in Index \ W : sh[i] = <<>> /\ d.len[i] = 0
      /\ Level(d, R, size, p + n)
  BY LevelRead
<1>2. Coded(q, n)
  BY <1>0, <1>1, PieceCoded
<1>3. Reading(d, R)
  BY <1>0, ReadTyped
<1>4. sh \in ShardFile
  BY <1>3, SlicesBounded DEF Bounded
<1>5. W \in SUBSET Index
  BY <1>0, ShardSize DEF ShardFile
<1> HIDE DEF n, d, W, q, sh
<1>6. \A i \in W : Len(sh[i]) = n
  BY <1>1, <1>2, <1>5 DEF Coded
<1>7. filled(sh) = W
  <2>1. \A i \in W : sh[i] # <<>>
    BY <1>1, <1>4, <1>5, <1>6 DEF ShardFile
  <2>2. DOMAIN sh = Index
    BY <1>4 DEF ShardFile
  <2> QED BY <1>1, <1>5, <2>1, <2>2 DEF filled
<1>8. shardSize(sh) = n
  <2>1. \E i \in filled(sh) : shardSize(sh) = Len(sh[i])
    BY <1>0, <1>4, <1>7, ShardSize DEF ShardFile
  <2> QED BY <1>6, <1>7, <2>1
<1>9. n \in 0..streamBS
  BY <1>1, BlockAssumption
<1>10. /\ Reading(t, R) /\ t.pos = d.pos /\ t.read = d.read /\ t.buf = d.buf
       /\ t.len = [i \in Index |-> IF i \in Index /\ d.len[i] # 0 THEN n ELSE d.len[i]]
  BY <1>3, <1>8, <1>9, TrimReads
<1> HIDE DEF t
<1>11. t.len = d.len
  <2>1. d.len \in [Index -> 0..streamBS]
    BY <1>3 DEF Reading, Call
  <2>2. \A i \in Index : t.len[i] = d.len[i]
    BY <1>1, <1>5, <1>10
  <2> DEFINE a == d.len
             b == t.len
  <2>3. b = [i \in Index |-> b[i]] /\ a = [i \in Index |-> a[i]]
    BY <1>10, <2>1
  <2>4. \A i \in Index : b[i] = a[i]
    BY <2>2
  <2> HIDE DEF a, b
  <2>5. a = b
    BY <2>3, <2>4
  <2> QED BY <2>5 DEF a, b
<1>12. slices(t) = sh
  BY <1>10, <1>11 DEF slices, sh
<1>13. reconstructBlock(t, R) = succeeded(q)
  <2> DEFINE only == parityIndex \subseteq filled(R)
  <2>1. reconstructBlock(t, R) = reconstruct(matrix, DataShards, sh, only)
    BY <1>12, Zenon DEF reconstructBlock
  <2>2. only \in BOOLEAN
    OBVIOUS
  <2>3. only <=> parityIndex \subseteq filled(sh)
    BY <1>7 DEF W
  <2>4. Agree(sh, q, filled(sh))
    BY <1>1, <1>7 DEF Agree
  <2>5. Cardinality(filled(sh)) >= DataShards /\ filled(sh) # Index
    BY <1>7 DEF W
  <2> HIDE DEF only
  <2>6. reconstruct(matrix, DataShards, sh, only) = succeeded(q)
    BY <1>2, <1>4, <2>2, <2>3, <2>4, <2>5, StreamRebuilds
  <2> QED BY <2>1, <2>6
<1>14. Level(store(t, q), R, size, p + n)
  <2>1. Bounded(q, streamBS)
    BY <1>1, <1>2 DEF Coded, Bounded, ShardFile
  <2> DEFINE s == store(t, q)
  <2>2. s.pos = d.pos /\ s.read = d.read /\ s.len = [i \in Index |-> Len(q[i])]
    BY <1>10, <2>1, StoreReads
  <2> HIDE DEF s
  <2>3. \A i \in W : s.len[i] = d.len[i] /\ s.pos[i] = d.pos[i]
    BY <1>1, <1>2, <1>5, <2>2 DEF Coded
  <2>4. Level(s, R, size, p + n)
    BY <1>1, <2>2, <2>3 DEF Level, W
  <2> QED BY <2>4 DEF s
<1>15. trimmedBlock(k, R) = t
  BY Zenon DEF trimmedBlock, t, sh, d
<1>16. /\ n \in Nat \ {0} /\ p + n <= size
       /\ readBlock(k, R, Index).err = "nil"
       /\ reconstructBlock(trimmedBlock(k, R), R) = succeeded(q)
       /\ Level(store(trimmedBlock(k, R), q), R, size, p + n)
  BY <1>1, <1>13, <1>14, <1>15
<1> QED BY <1>16, Zenon DEF n, q

(* The pieces that are appended make the front of the code longer.         *)
Front(f, R, cw, p) == \A i \in Index : f[i] = IF i \in filled(R) THEN cw[i] ELSE SubSeq(cw[i], 1, p)

(* So they do when the piece goes to the files that were missing ...       *)
LEMMA FrontGrows ==
  ASSUME file \in ShardFile, NEW R, NEW cw, NEW size, Coded(cw, size),
         NEW p \in Nat, NEW n \in Nat \ {0}, p + n <= size,
         Front(file, R, cw, p), append(Index \ filled(R), piece(cw, p, n))
  PROVE  Front(file', R, cw, p + n)
<1>1. piece(cw, p, n) \in ShardFile
  BY PieceCoded DEF Coded, ShardFile
<1> DEFINE q == piece(cw, p, n)
           w == Index \ filled(R)
<1>2. /\ \A i \in Index \ w : file'[i] = file[i]
      /\ \A i \in Index \cap w : file'[i] = file[i] \o q[i]
  BY <1>1, Appended
<1>3. ASSUME NEW i \in w PROVE file'[i] = SubSeq(cw[i], 1, p + n)
  <2> DEFINE s == cw[i]
  <2>1. s \in Seq(Byte) /\ Len(s) = size /\ size \in Nat
    BY DEF Coded
  <2>2. file[i] = SubSeq(s, 1, p) /\ q[i] = SubSeq(s, p + 1, p + n)
    BY DEF Front, piece
  <2> HIDE DEF s, q
  <2>3. 1 \in 1..(Len(s) + 1) /\ p \in (1 - 1)..Len(s) /\ p + n \in p..Len(s)
    BY <2>1
  <2>4. SubSeq(s, 1, p) \o SubSeq(s, p + 1, p + n) = SubSeq(s, 1, p + n)
    BY <2>1, <2>3, ConcatAdjacentSubSeq
  <2>5. file'[i] = SubSeq(s, 1, p + n)
    BY <1>2, <2>2, <2>4
  <2> QED BY <2>5 DEF s
<1> HIDE DEF q
<1>4. \A i \in Index \cap filled(R) : file'[i] = cw[i]
  BY <1>2 DEF Front
<1> QED BY <1>3, <1>4 DEF Front

(* ... and at its end the files are the code.                              *)
LEMMA FrontWhole ==
  ASSUME NEW f \in ShardFile, NEW R, NEW cw, NEW size, Coded(cw, size), Front(f, R, cw, size)
  PROVE  f = cw
<1>1. ASSUME NEW i \in Index PROVE f[i] = cw[i]
  <2> DEFINE s == cw[i]
  <2>1. s \in Seq(Byte) /\ Len(s) = size
    BY DEF Coded
  <2>2. f[i] = s \/ f[i] = SubSeq(s, 1, size)
    BY DEF Front
  <2> HIDE DEF s
  <2>3. SubSeq(s, 1, Len(s)) = s
    BY <2>1, SubSeqFull
  <2> QED BY <2>1, <2>2, <2>3 DEF s
<1>2. cw \in [Index -> Seq(Byte)]
  BY DEF Coded
<1> QED BY <1>1, <1>2 DEF ShardFile

(* Where a decoder stands that rebuilds the shards of a content.           *)
Standing(c, p) ==
  /\ sDec.valid = sDec.before /\ filled(sDec.valid) # Index
  /\ p \in 0..per(c) /\ per(c) \in Nat
  /\ Coded(codewords[c], per(c))
  /\ Shared(sDec.valid, codewords[c], per(c))
  /\ Cardinality(filled(sDec.valid)) >= DataShards
  /\ Level(sDec.call, sDec.valid, per(c), p)
  /\ Front(file, sDec.valid, codewords[c], p)

(* There is such a place while it rebuilds.                                *)
LEMMA Stands ==
  ASSUME MatrixEncodes, DecoderReady, sDec.pc = "reconstruct",
         NEW c \in Contents, Holding(sDec.before, c)
  PROVE  \E p : Standing(c, p)
<1>1. Rebuilding(sDec, file, c)
  BY DEF DecoderReady, StreamSound, Restoring
<1>2. sDec.before \in ShardFile
  BY DEF DecoderReady, DecTyped, SDec
<1>3. /\ Coded(codewords[c], per(c)) /\ Shared(sDec.before, codewords[c], per(c))
      /\ per(c) \in Nat
  BY <1>2, HoldingShared
<1>4. PICK p \in 0..per(c) :
        /\ Level(sDec.call, sDec.before, per(c), p)
        /\ \A i \in Index : file[i] = IF i \in filled(sDec.before) THEN codewords[c][i]
                                      ELSE SubSeq(codewords[c][i], 1, p)
  BY <1>1 DEF Rebuilding
<1>5. Front(file, sDec.before, codewords[c], p)
  BY <1>4, Zenon DEF Front
<1>6. sDec.valid = sDec.before /\ filled(sDec.before) # Index
  BY <1>1 DEF Rebuilding
<1>7. Standing(c, p)
  BY <1>3, <1>4, <1>5, <1>6 DEF Standing, Holding
<1> QED BY <1>7

(* A round that does not read a block stands behind the whole code.        *)
LEMMA StandsAtEnd ==
  ASSUME MatrixEncodes, DecoderReady, NEW c \in Contents, NEW p, Standing(c, p),
         readBlock(sDec.call, sDec.valid, Index).err # "nil"
  PROVE  /\ readBlock(sDec.call, sDec.valid, Index).err = "EOF" /\ sDec.call.read > 0
         /\ file = codewords[c]
<1>1. Reading(sDec.call, sDec.valid) /\ file \in ShardFile
  BY DEF DecoderReady, DecTyped
<1>2. p = per(c)
  <2>1. CASE p < per(c)
    BY <1>1, <2>1, RoundRebuilds DEF Standing
  <2>2. p \in 0..per(c) /\ per(c) \in Nat
    BY DEF Standing
  <2> QED BY <2>1, <2>2
<1>3. file = codewords[c]
  BY <1>1, <1>2, FrontWhole DEF Standing
<1>4. readBlock(sDec.call, sDec.valid, Index).err = "EOF" /\ sDec.call.read > 0
  BY <1>1, <1>2, LevelEnd DEF Standing
<1> QED BY <1>3, <1>4

(* One that does rebuilds the piece behind what is there.                  *)
LEMMA StandsBefore ==
  ASSUME MatrixEncodes, DecoderReady, NEW c \in Contents, NEW p, Standing(c, p),
         readBlock(sDec.call, sDec.valid, Index).err = "nil"
  PROVE  p < per(c)
<1>1. Reading(sDec.call, sDec.valid) /\ file \in ShardFile
  BY DEF DecoderReady, DecTyped
<1>2. CASE p = per(c)
  BY <1>1, <1>2, LevelEnd DEF Standing
<1>3. p \in 0..per(c) /\ per(c) \in Nat
  BY DEF Standing
<1> QED BY <1>2, <1>3

(* A round that rebuilds a block.                                          *)
LEMMA RoundKeeps ==
  ASSUME MatrixEncodes, DecoderReady, sDec.pc = "reconstruct",
         readBlock(sDec.call, sDec.valid, Index).err = "nil",
         NEW t, t = trimmedBlock(sDec.call, sDec.valid),
         NEW r, r = reconstructBlock(t, sDec.valid), r.err = "nil",
         append(Index \ filled(sDec.valid), r.shards),
         sDec' = [sDec EXCEPT !.call = store(t, r.shards)]
  PROVE  DecoderReady'
<1> DEFINE k == store(t, r.shards)
<1>0. /\ file \in ShardFile /\ sDec \in SDec /\ Reading(sDec.call, sDec.valid)
      /\ sDec.valid \in ShardFile /\ sDec.exit = "none"
  BY DEF DecoderReady, DecTyped, SDec, StreamSound
<1>1. Reading(t, sDec.valid)
  BY <1>0, TrimmedReads
<1>2. Bounded(r.shards, streamBS)
  <2> DEFINE only == parityIndex \subseteq filled(sDec.valid)
  <2>1. r = reconstruct(matrix, DataShards, slices(t), only)
    BY Zenon DEF reconstructBlock
  <2>2. Bounded(slices(t), streamBS)
    BY <1>1, SlicesBounded
  <2>3. only \in BOOLEAN
    OBVIOUS
  <2> HIDE DEF only
  <2> QED BY <2>1, <2>2, <2>3, BlockAssumption, ReconstructBounded
<1>3. Reading(k, sDec.valid)
  BY <1>1, <1>2, StoreReads
<1>4. file' \in ShardFile
  BY <1>0, <1>2, Appended DEF Bounded
<1>5. k \in Call
  BY <1>3 DEF Reading
<1> HIDE DEF k
<1>6. /\ sDec' \in SDec /\ sDec'.call = k /\ sDec'.valid = sDec.valid
      /\ sDec'.before = sDec.before /\ sDec'.pc = "reconstruct" /\ sDec'.exit = "none"
  <2>1. sDec' = [sDec EXCEPT !.call = k]
    BY DEF k
  <2> QED BY <1>0, <1>5, <2>1 DEF SDec
<1>7. DecTyped(sDec')
  BY <1>3, <1>6 DEF DecTyped
<1>8. ASSUME NEW c \in Contents, Holding(sDec.before, c)
      PROVE  Restoring(sDec', file', output', c)
  <2>1. PICK p : Standing(c, p)
    BY <1>8, Stands
  <2>2. p < per(c)
    BY <2>1, StandsBefore
  <2> DEFINE n == blockSize(per(c), p)
             q == piece(codewords[c], p, n)
  <2>3. /\ n \in Nat \ {0} /\ p + n <= per(c)
        /\ r = succeeded(q)
        /\ Level(store(t, q), sDec.valid, per(c), p + n)
    BY <1>0, <2>1, <2>2, RoundRebuilds DEF Standing
  <2> HIDE DEF n
  <2>4. r.shards = q
    BY <2>3 DEF succeeded
  <2>5. p \in Nat /\ per(c) \in Nat
    BY <2>1 DEF Standing
  <2>6. Front(file', sDec.valid, codewords[c], p + n)
    BY <1>0, <2>1, <2>3, <2>4, <2>5, FrontGrows DEF Standing
  <2>7. Level(k, sDec.valid, per(c), p + n)
    BY <2>3, <2>4 DEF k
  <2>8. p + n \in 0..per(c)
    BY <2>3, <2>5
  <2>9. sDec.valid = sDec.before /\ filled(sDec.before) # Index
    BY <2>1 DEF Standing
  <2> DEFINE m == p + n
  <2> HIDE DEF m
  <2>10. m \in 0..per(c) /\ Level(k, sDec.before, per(c), m) /\ Front(file', sDec.before, codewords[c], m)
    BY <2>6, <2>7, <2>8, <2>9 DEF m
  <2>11. \A i \in Index : file'[i] = IF i \in filled(sDec.before) THEN codewords[c][i]
                                     ELSE SubSeq(codewords[c][i], 1, m)
    BY <2>10, Zenon DEF Front
  <2>12. Rebuilding(sDec', file', c)
    BY <1>6, <2>9, <2>10, <2>11 DEF Rebuilding
  <2> QED BY <1>6, <2>12 DEF Restoring
<1>9. StreamSound(sDec', file', output')
  BY <1>6, <1>8 DEF StreamSound
<1> QED BY <1>4, <1>7, <1>9 DEF DecoderReady

(* The round that ends the reconstruction with files that verify.          *)
LEMMA GoesOnToJoin ==
  ASSUME MatrixEncodes, DecoderReady, sDec.pc = "reconstruct",
         readBlock(sDec.call, sDec.valid, Index).err # "nil",
         verifyStream(sDec.call.buf, file).verdict = "true",
         file' = file, sDec' = [sDec EXCEPT !.pc = "join", !.call = createSlice(blank)]
  PROVE  DecoderReady'
<1> DEFINE k == createSlice(blank)
<1>0. /\ file \in ShardFile /\ sDec \in SDec /\ Reading(sDec.call, sDec.valid)
      /\ sDec.valid \in ShardFile /\ sDec.exit = "none"
  BY DEF DecoderReady, DecTyped, SDec, StreamSound
<1>1. Agreed(file)
  <2>1. Buffers(sDec.call.buf)
    BY <1>0 DEF Reading
  <2> QED BY <1>0, <2>1, VerifySound DEF Verifying
<1>2. Reading(k, sDec.valid) /\ k \in Call
  BY <1>0, BlankBuffers, FreshCall
<1> HIDE DEF k
<1>3. /\ sDec' \in SDec /\ sDec'.call = k /\ sDec'.valid = sDec.valid
      /\ sDec'.before = sDec.before /\ sDec'.pc = "join" /\ sDec'.exit = "none"
  <2>1. sDec' = [sDec EXCEPT !.pc = "join", !.call = k]
    BY DEF k
  <2> QED BY <1>0, <1>2, <2>1 DEF SDec
<1>4. DecTyped(sDec')
  BY <1>2, <1>3 DEF DecTyped
<1>5. ASSUME NEW c \in Contents, Holding(sDec.before, c)
      PROVE  Restoring(sDec', file', output', c)
  <2>1. PICK p : Standing(c, p)
    BY <1>5, Stands
  <2>2. file = codewords[c]
    BY <2>1, StandsAtEnd
  <2> QED BY <1>3, <2>2 DEF Restoring
<1>6. StreamSound(sDec', file', output')
  BY <1>1, <1>3, <1>5 DEF StreamSound
<1> QED BY <1>0, <1>4, <1>6 DEF DecoderReady

(* With the shards of a content no round fails, and what was rebuilt       *)
(* verifies.                                                               *)
LEMMA NoRoundFails ==
  ASSUME MatrixEncodes, DecoderReady, sDec.pc = "reconstruct",
         NEW c \in Contents, Holding(sDec.before, c)
  PROVE  LET block == readBlock(sDec.call, sDec.valid, Index)
         IN  /\ block.err = "nil"
                  => reconstructBlock(trimmedBlock(sDec.call, sDec.valid), sDec.valid).err = "nil"
             /\ block.err # "nil"
                  => /\ block.err = "EOF" /\ endOfInput(sDec.call) = "EOF"
                     /\ verifyStream(sDec.call.buf, file).verdict = "true"
<1> DEFINE err == readBlock(sDec.call, sDec.valid, Index).err
           r == reconstructBlock(trimmedBlock(sDec.call, sDec.valid), sDec.valid)
<1>0. file \in ShardFile /\ Reading(sDec.call, sDec.valid) /\ Buffers(sDec.call.buf)
  BY DEF DecoderReady, DecTyped, Reading
<1>1. PICK p : Standing(c, p)
  BY Stands
<1>2. ASSUME err = "nil" PROVE r.err = "nil"
  <2>1. p < per(c)
    BY <1>1, <1>2, StandsBefore
  <2> DEFINE q == piece(codewords[c], p, blockSize(per(c), p))
  <2>2. r = succeeded(q)
    BY <1>0, <1>1, <2>1, RoundRebuilds DEF Standing
  <2> HIDE DEF q, r
  <2> QED BY <2>2 DEF succeeded
<1>3. ASSUME err # "nil"
      PROVE  /\ err = "EOF" /\ endOfInput(sDec.call) = "EOF"
             /\ verifyStream(sDec.call.buf, file).verdict = "true"
  <2>1. err = "EOF" /\ sDec.call.read > 0 /\ file = codewords[c]
    BY <1>1, <1>3, StandsAtEnd
  <2>2. sDec.call.read # 0
    BY <2>1
  <2>3. endOfInput(sDec.call) = "EOF"
    BY <2>2 DEF endOfInput
  <2>4. Coded(file, per(c))
    BY <1>1, <2>1 DEF Standing
  <2> QED BY <1>0, <2>1, <2>3, <2>4, VerifyComplete
<1> QED BY <1>2, <1>3

(* A round of the reconstruction, whichever way it ends.                   *)
LEMMA ReconstructsKeeps ==
  ASSUME MatrixEncodes, DecoderReady, StreamDecoderReconstructs
  PROVE  DecoderReady'
<1> DEFINE block == readBlock(sDec.call, sDec.valid, Index)
           t == trimmedBlock(sDec.call, sDec.valid)
           r == reconstructBlock(t, sDec.valid)
           fill == Index \ filled(sDec.valid)
           passed == /\ block.err = "EOF" /\ endOfInput(sDec.call) = "EOF"
                     /\ verifyStream(sDec.call.buf, file).verdict = "true"
<1>0. sDec.pc = "reconstruct" /\ file \in ShardFile
  BY DEF StreamDecoderReconstructs, DecoderReady
<1>1. \/ /\ block.err = "nil" /\ r.err # "nil"
         /\ sDec' = exitDecoder("failed") /\ file' = file
      \/ /\ block.err = "nil" /\ r.err = "nil"
         /\ \E w \in reached(fill) :
              /\ append(w, r.shards)
              /\ \/ w = fill /\ sDec' = [sDec EXCEPT !.call = store(t, r.shards)]
                 \/ sDec' = exitDecoder("stopped")
      \/ /\ block.err # "nil" /\ passed
         /\ sDec' = [sDec EXCEPT !.pc = "join", !.call = createSlice(blank)] /\ file' = file
      \/ /\ block.err # "nil" /\ ~passed
         /\ sDec' = exitDecoder("failed") /\ file' = file
  <2>1. IF block.err = "nil" THEN writesRebuilt(t, r)
        ELSE /\ sDec' = IF passed THEN [sDec EXCEPT !.pc = "join", !.call = createSlice(blank)]
                        ELSE exitDecoder("failed")
             /\ file' = file
    BY Zenon DEF StreamDecoderReconstructs, trimmedBlock
  <2> HIDE DEF passed, block, t, r
  <2>2. CASE block.err # "nil"
    BY <2>1, <2>2, Zenon
  <2>3. CASE block.err = "nil"
    <3>1. writesRebuilt(t, r)
      BY <2>1, <2>3, Zenon
    <3> QED BY <2>3, <3>1, Zenon DEF writesRebuilt
  <2> QED BY <2>2, <2>3, Zenon
<1>2. CASE /\ block.err = "nil" /\ r.err # "nil"
           /\ sDec' = exitDecoder("failed") /\ file' = file
  <2>1. \A c \in Contents : ~Holding(sDec.before, c)
    BY <1>0, <1>2, NoRoundFails
  <2> QED BY <1>0, <1>2, <2>1, FailKeeps
<1>5. CASE /\ block.err # "nil" /\ ~passed
           /\ sDec' = exitDecoder("failed") /\ file' = file
  <2>1. \A c \in Contents : ~Holding(sDec.before, c)
    BY <1>0, <1>5, NoRoundFails
  <2> QED BY <1>0, <1>5, <2>1, FailKeeps
<1>3. CASE /\ block.err = "nil" /\ r.err = "nil"
           /\ \E w \in reached(fill) :
                /\ append(w, r.shards)
                /\ \/ w = fill /\ sDec' = [sDec EXCEPT !.call = store(t, r.shards)]
                   \/ sDec' = exitDecoder("stopped")
  <2>0. PICK w \in reached(fill) :
          /\ append(w, r.shards)
          /\ \/ w = fill /\ sDec' = [sDec EXCEPT !.call = store(t, r.shards)]
             \/ sDec' = exitDecoder("stopped")
    BY <1>3
  <2>1. CASE w = fill /\ sDec' = [sDec EXCEPT !.call = store(t, r.shards)]
    <3>1. append(fill, r.shards) /\ sDec' = [sDec EXCEPT !.call = store(t, r.shards)]
      BY <2>0, <2>1
    <3> QED BY <1>0, <1>3, <3>1, RoundKeeps
  <2>2. CASE sDec' = exitDecoder("stopped")
    <3>1. Reading(t, sDec.valid)
      BY TrimmedReads DEF DecoderReady, DecTyped, SDec
    <3> DEFINE only == parityIndex \subseteq filled(sDec.valid)
    <3>2. r = reconstruct(matrix, DataShards, slices(t), only)
      BY Zenon DEF reconstructBlock
    <3>3. Bounded(slices(t), streamBS) /\ only \in BOOLEAN
      BY <3>1, SlicesBounded
    <3> HIDE DEF only
    <3>4. r.shards \in ShardFile
      BY <1>3, <3>2, <3>3, BlockAssumption, ReconstructBounded DEF Bounded
    <3>5. file' \in ShardFile
      BY <1>0, <2>0, <3>4, Appended
    <3> QED BY <2>2, <3>5, StopKeeps
  <2> QED BY <2>0, <2>1, <2>2
<1>4. CASE /\ block.err # "nil" /\ passed
           /\ sDec' = [sDec EXCEPT !.pc = "join", !.call = createSlice(blank)] /\ file' = file
  BY <1>0, <1>4, GoesOnToJoin
<1> HIDE DEF block, t, r, passed, fill
<1> QED BY <1>1, <1>2, <1>3, <1>4, <1>5, Zenon

(* Joining a whole codeword gives the padded content.                      *)
LEMMA InputSize ==
  ASSUME MatrixEncodes, NEW f, NEW size, Coded(f, size)
  PROVE  openInput(f) = size /\ dataIndex \subseteq filled(f)
<1>1. /\ DOMAIN f = Index /\ size \in Nat \ {0}
      /\ \A i \in Index : f[i] \in Seq(Byte) /\ Len(f[i]) = size
  BY DEF Coded
<1>2. filled(f) = Index
  <2>1. \A i \in Index : f[i] # <<>>
    BY <1>1
  <2> QED BY <1>1, <2>1 DEF filled
<1> DEFINE last == CHOOSE i \in Index : \A j \in Index : j <= i
<1>3. Shards - 1 \in Index /\ \A j \in Index : j <= Shards - 1
  BY Counts DEF Index
<1>4. last \in Index
  BY <1>3
<1>5. openInput(f) = Len(f[last])
  <2>1. filled(f) # {}
    BY <1>2, <1>3
  <2> QED BY <1>2, <2>1, Zenon DEF openInput
<1>6. dataIndex \subseteq Index
  BY Counts DEF dataIndex, Index
<1> HIDE DEF last
<1> QED BY <1>1, <1>2, <1>4, <1>5, <1>6

(* The stream's Join does so without an error.                             *)
LEMMA JoinedContent ==
  ASSUME MatrixEncodes, NEW c \in Contents, c # <<>>
  PROVE  LET joined == joinStream(codewords[c], DataShards * openInput(codewords[c]))
         IN  joined.err = "nil" /\ joined.data = paddedData(c)
<1> DEFINE f == codewords[c]
           size == DataShards * openInput(f)
           bytes == concat(f, DataShards)
           missing == dataIndex \ filled(f)
<1>1. openInput(f) = per(c) /\ dataIndex \subseteq filled(f)
  BY CodewordCoded, InputSize
<1>2. missing = {}
  BY <1>1
<1>3. bytes = paddedData(c)
  BY CodewordConcat
<1>4. bytes \in Seq(Byte) /\ Len(bytes) = size /\ size \in Nat
  BY <1>1, <1>3, ContentsAssumption, Padded
<1>5. joinStream(f, size) =
        [err |-> IF missing # {} THEN "StreamReadError"
                 ELSE IF Len(bytes) < size THEN "ErrShortData" ELSE "nil",
         data |-> IF missing # {} THEN <<>> ELSE SubSeq(bytes, 1, least(size, Len(bytes)))]
  BY Zenon DEF joinStream
<1> HIDE DEF missing, bytes, size, f
<1>6. least(size, Len(bytes)) = Len(bytes)
  BY <1>4 DEF least
<1>7. SubSeq(bytes, 1, Len(bytes)) = bytes
  BY <1>4, SubSeqFull
<1>8. ~(Len(bytes) < size)
  BY <1>4
<1>9. joinStream(f, size).err = "nil" /\ joinStream(f, size).data = bytes
  BY <1>2, <1>5, <1>6, <1>7, <1>8
<1> QED BY <1>3, <1>9 DEF f, size

(* Joining ends the decoder with the content it was started on.            *)
LEMMA StreamJoinsKeeps ==
  ASSUME MatrixEncodes, DecoderReady, StreamDecoderJoins
  PROVE  DecoderReady'
<1> DEFINE joined == joinStream(file, DataShards * openInput(file))
           x == IF joined.err = "nil" THEN "ok" ELSE "failed"
<1>1. sDec.pc = "join" /\ output' = joined.data /\ sDec' = exitDecoder(x) /\ file' = file
  BY Zenon DEF StreamDecoderJoins
<1>2. x \in {"ok", "failed"}
  OBVIOUS
<1>3. file \in ShardFile /\ DecTyped(sDec) /\ sDec.before \in ShardFile
  BY DEF DecoderReady, DecTyped, SDec
<1>4. ASSUME NEW c \in Contents, Holding(sDec.before, c)
      PROVE  x = "ok" /\ output' = paddedData(c)
  <2>1. file = codewords[c]
    BY <1>1, <1>4 DEF DecoderReady, StreamSound, Restoring
  <2>2. c # <<>>
    BY <1>3, <1>4, HoldingShared
  <2>3. joined.err = "nil" /\ joined.data = paddedData(c)
    BY <2>1, <2>2, JoinedContent
  <2> HIDE DEF joined
  <2> QED BY <1>1, <2>3
<1> HIDE DEF x, joined
<1>5. /\ DecTyped(sDec') /\ sDec'.pc = "done" /\ sDec'.exit = x /\ sDec'.before = sDec.before
  BY <1>1, <1>2, <1>3, ExitKeeps
<1>6. ASSUME NEW c \in Contents, Holding(sDec'.before, c)
      PROVE  Restoring(sDec', file', output', c)
  BY <1>4, <1>5, <1>6 DEF Restoring
<1>7. StreamSound(sDec', file', output')
  BY <1>5, <1>6 DEF StreamSound
<1> QED BY <1>1, <1>3, <1>5, <1>7 DEF DecoderReady

SDecoderStep ==
  \/ StreamDecoderVerifies \/ StreamDecoderReconstructs
  \/ StreamDecoderJoins \/ StreamDecoderStops

(* So every step of the decoder keeps what is promised of it.              *)
LEMMA StreamDecoderKeeps ==
  ASSUME MatrixEncodes, DecoderReady, OneStream, SDecoderStep
  PROVE  DecoderReady' /\ sEnc' = sEnc /\ sEnc.pc \in {"idle", "done"}
<1>1. CASE StreamDecoderStops
  <2>1. file' \in ShardFile /\ sDec' = exitDecoder("stopped")
    BY <1>1 DEF StreamDecoderStops, diskVars, DecoderReady
  <2> QED BY <1>1, <2>1, StopKeeps DEF StreamDecoderStops, OneStream
<1>2. CASE StreamDecoderVerifies
  BY <1>2, VerifiesKeeps DEF StreamDecoderVerifies
<1>3. CASE StreamDecoderReconstructs
  BY <1>3, ReconstructsKeeps DEF StreamDecoderReconstructs, OneStream
<1>4. CASE StreamDecoderJoins
  BY <1>4, StreamJoinsKeeps DEF StreamDecoderJoins, OneStream
<1> QED BY <1>1, <1>2, <1>3, <1>4 DEF SDecoderStep

-----------------------------------------------------------------------------

(* The invariant holds before any program ran ...                          *)
LEMMA StreamInvInit == Init => StreamInv
<1> SUFFICES ASSUME Init PROVE StreamInv
  OBVIOUS
<1>1. /\ programs \in {"commands", "streams"} /\ file = noShards
      /\ sEnc = noStreamEncoder /\ sDec = noStreamDecoder
  BY DEF Init, StreamsInit, DiskInit
<1>2. noShards \in ShardFile
  BY DEF noShards, ShardFile
<1>3. EncTyped(sEnc, file) /\ DecTyped(sDec)
  BY <1>1, <1>2, NoneTyped
<1>4. /\ sDec.pc = "idle" /\ sDec.exit = "none" /\ sDec.before = noShards
  BY <1>1 DEF noStreamDecoder
<1>5. OneStream /\ StreamSound(sDec, file, output)
  BY <1>4 DEF OneStream, StreamSound, Restoring
<1> QED BY <1>1, <1>2, <1>3, <1>5 DEF StreamInv

(* While it neither rebuilds nor joins, the decoder does not mind what     *)
(* happens to the files.                                                   *)
LEMMA SoundAtRest ==
  ASSUME NEW d, d.pc \notin {"reconstruct", "join"}, NEW f, NEW out, StreamSound(d, f, out), NEW g
  PROVE  StreamSound(d, g, out)
  BY DEF StreamSound, Restoring

(* ... every step keeps it ...                                             *)
LEMMA StreamInvNext ==
  ASSUME MatrixEncodes, StreamInv, [Next]_vars
  PROVE  StreamInv'
<1>0. programs \in {"commands", "streams"}
  BY DEF StreamInv
<1>1. CASE programs = "commands" /\ UNCHANGED <<sEnc, sDec, programs>>
  BY <1>1 DEF StreamInv
<1>2. CASE programs = "streams" /\ StreamStep /\ UNCHANGED <<enc, dec, programs>>
  <2>1. /\ programs = "streams" /\ programs' = programs
        /\ file \in ShardFile /\ EncTyped(sEnc, file) /\ DecTyped(sDec) /\ OneStream
        /\ StreamSound(sDec, file, output)
    BY <1>2 DEF StreamInv
  <2>2. CASE SEncoderStep
    <3>1. /\ EncoderReady' /\ sDec' = sDec /\ output' = output
          /\ sDec.pc \notin {"reconstruct", "join"}
      BY <2>1, <2>2, StreamEncoderKeeps DEF EncoderReady
    <3>2. StreamSound(sDec, file', output)
      BY <2>1, <3>1, SoundAtRest
    <3> QED BY <2>1, <3>1, <3>2 DEF StreamInv, EncoderReady, OneStream
  <2>3. CASE SDecoderStep
    <3>1. DecoderReady' /\ sEnc' = sEnc /\ sEnc.pc \in {"idle", "done"}
      BY <2>1, <2>3, StreamDecoderKeeps DEF DecoderReady
    <3>2. sEnc \in SEnc /\ Reading(sEnc.call, file) /\ Fresh(sEnc.call)
      BY <2>1, <3>1 DEF EncTyped
    <3>3. file' \in ShardFile
      BY <3>1 DEF DecoderReady
    <3>4. Reading(sEnc.call, file')
      BY <2>1, <3>2, <3>3, StillReading
    <3>5. EncTyped(sEnc', file')
      BY <3>1, <3>2, <3>4 DEF EncTyped
    <3> QED BY <2>1, <3>1, <3>5 DEF StreamInv, DecoderReady, OneStream
  <2>4. SEncoderStep \/ SDecoderStep
    BY <1>2 DEF StreamStep, SEncoderStep, SDecoderStep
  <2> QED BY <2>2, <2>3, <2>4
<1>3. CASE programs = "streams" /\ FilesDamaged
  <2>1. /\ programs = "streams" /\ programs' = programs /\ sEnc' = sEnc /\ sDec' = sDec
        /\ sEnc.pc \in {"idle", "done"} /\ sDec.pc \in {"idle", "done"}
        /\ \E i \in Index : Damage(i)
    BY <1>3 DEF FilesDamaged
  <2>2. /\ file \in ShardFile /\ EncTyped(sEnc, file) /\ DecTyped(sDec)
        /\ StreamSound(sDec, file, output)
    BY <2>1 DEF StreamInv
  <2>3. file' \in ShardFile /\ output' = output
    BY <2>1, <2>2, DamageKeeps
  <2>4. sEnc \in SEnc /\ Reading(sEnc.call, file) /\ Fresh(sEnc.call)
    BY <2>1, <2>2 DEF EncTyped
  <2>5. Reading(sEnc.call, file')
    BY <2>2, <2>3, <2>4, StillReading
  <2>6. EncTyped(sEnc', file')
    BY <2>1, <2>4, <2>5 DEF EncTyped
  <2>7. StreamSound(sDec, file', output)
    BY <2>1, <2>2, SoundAtRest
  <2> QED BY <2>1, <2>2, <2>3, <2>6, <2>7 DEF StreamInv, OneStream
<1>4. CASE programs = "commands" /\ FilesDamaged
  BY <1>1, <1>4 DEF FilesDamaged
<1>5. CASE UNCHANGED vars
  BY <1>5 DEF vars, StreamInv, OneStream
<1> QED BY <1>0, <1>1, <1>2, <1>3, <1>4, <1>5 DEF Next

(* ... so it always holds.                                                 *)
LEMMA StreamInvAlways ==
  ASSUME MatrixEncodes
  PROVE  Spec => []StreamInv
<1>1. StreamInv /\ [Next]_vars => StreamInv'
  BY StreamInvNext
<1> QED BY <1>1, StreamInvInit, PTL DEF Spec

(* It implies the verdict over files that are joined ...                   *)
LEMMA InvStreamVerdict ==
  ASSUME MatrixEncodes, StreamInv
  PROVE  StreamVerdict
<1>1. CASE sDec.pc # "join"
  BY <1>1, Zenon DEF StreamVerdict
<1>2. CASE sDec.pc = "join"
  <2>1. programs = "streams"
    <3>1. sDec # noStreamDecoder
      BY <1>2 DEF noStreamDecoder
    <3> QED BY <3>1 DEF StreamInv
  <2>2. file \in ShardFile /\ Agreed(file)
    BY <1>2, <2>1 DEF StreamInv, StreamSound
  <2> QED BY <2>2, AgreedVerdict
<1> QED BY <1>1, <1>2

(* ... and that the content is restored.                                   *)
LEMMA InvStreamServes ==
  ASSUME MatrixEncodes, StreamInv
  PROVE  StreamServes
<1> SUFFICES ASSUME NEW c \in Contents, sDec.exit \in {"ok", "failed"},
                    Cardinality(filled(sDec.before)) >= DataShards,
                    \A i \in filled(sDec.before) : sDec.before[i] = codewords[c][i]
             PROVE  sDec.exit = "ok" /\ output = paddedData(c)
  BY DEF StreamServes
<1>1. programs = "streams"
  <2>1. sDec # noStreamDecoder
    BY DEF noStreamDecoder
  <2> QED BY <2>1 DEF StreamInv
<1>2. Holding(sDec.before, c)
  BY DEF Holding, Agree
<1>3. Restoring(sDec, file, output, c)
  BY <1>1, <1>2 DEF StreamInv, StreamSound
<1> QED BY <1>3 DEF Restoring

(* When the stream decoder joins the files, whatever was lost, cut or      *)
(* altered before it started and whatever it rebuilt itself, the files     *)
(* are of one code as far as the shortest of them goes; only a file that   *)
(* goes on for a block or more behind a block boundary was overlooked.     *)
THEOREM StreamVerdictSound ==
  ASSUME ParityShards # 0
  PROVE  Spec => []StreamVerdict
<1>1. MatrixEncodes
  BY AlwaysEncodes
<1>2. StreamInv => StreamVerdict
  BY <1>1, InvStreamVerdict
<1>3. Spec => []StreamInv
  BY <1>1, StreamInvAlways
<1> QED BY <1>2, <1>3, PTL

(* DataShards or more whole shards of one content, the others missing:     *)
(* the stream decoder rebuilds them block by block, finds that they        *)
(* verify, and gives the content back with its padding, unless it is       *)
(* stopped on the way.                                                     *)
THEOREM StreamRestores ==
  ASSUME ParityShards # 0
  PROVE  Spec => []StreamServes
<1>1. MatrixEncodes
  BY AlwaysEncodes
<1>2. StreamInv => StreamServes
  BY <1>1, InvStreamServes
<1>3. Spec => []StreamInv
  BY <1>1, StreamInvAlways
<1> QED BY <1>2, <1>3, PTL

=============================================================================
