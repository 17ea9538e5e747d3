---------------------------- MODULE ErasureCode ----------------------------
(***************************************************************************)
(* The Reed-Solomon code of reedsolomon/matrix.go and                      *)
(* reedsolomon/reedsolomon.go, as operators on values: the matrices, and   *)
(* what each call of an Encoder returns for the shards it is given.  How   *)
(* the products are computed by goroutines and kernels is module Coder.    *)
(*                                                                         *)
(* A matrix is a function of a cell <<row, column>>, counted from 0.  A    *)
(* shard is a sequence of bytes; the empty one also stands for nil, which  *)
(* every call below treats alike but Join.  A call returns a record whose  *)
(* err is "nil" when it succeeds.                                          *)
(***************************************************************************)
EXTENDS Galois, Sequences, FiniteSets, Functions

Singular == <<>>

zeros(n) == [i \in 1..n |-> 0]

Sum(n, term(_)) == FoldFunction(galAdd, 0, [i \in 0..(n - 1) |-> term(i)])

-----------------------------------------------------------------------------
(* matrix.go                                                               *)

cells(rows, cols) == (0..(rows - 1)) \X (0..(cols - 1))

identityMatrix(size) == [p \in cells(size, size) |-> IF p[1] = p[2] THEN 1 ELSE 0]

Multiply(left, right, rows, inner, cols) ==
  [p \in cells(rows, cols) |->
     Sum(inner, LAMBDA i : galMultiply(left[<<p[1], i>>], right[<<i, p[2]>>]))]

(* Two square matrices side by side.                                       *)
Augment(left, right, size) ==
  [p \in cells(size, 2 * size) |->
     IF p[2] < size THEN left[p] ELSE right[<<p[1], p[2] - size>>]]

SubMatrix(m, rmin, cmin, rmax, cmax) ==
  [p \in cells(rmax - rmin, cmax - cmin) |-> m[<<p[1] + rmin, p[2] + cmin>>]]

SwapRows(m, r1, r2) ==
  [p \in DOMAIN m |->
     m[<<IF p[1] = r1 THEN r2 ELSE IF p[1] = r2 THEN r1 ELSE p[1], p[2]>>]]

(* Row d times a scale is subtracted from every row of a set so that       *)
(* column d of that row becomes 0.                                         *)
clearColumn(m, d, rows) ==
  [p \in DOMAIN m |->
     IF p[1] \in rows THEN galAdd(m[p], galMultiply(m[<<p[1], d>>], m[<<d, p[2]>>]))
     ELSE m[p]]

(* Mutant: no pivot is looked for below the diagonal.                      *)
pivotRowFixed(m, r, rows) == r

(* The first row from r on with something in column r.                     *)
pivotRow(m, r, rows) ==
  CHOOSE b \in r..(rows - 1) : m[<<b, r>>] # 0 /\ \A o \in r..(b - 1) : m[<<o, r>>] = 0

scaleRow(m, r, scale) ==
  [p \in DOMAIN m |-> IF p[1] = r THEN galMultiply(m[p], scale) ELSE m[p]]

(* One turn of the first loop, with m[r][r] # 0 after the swap: the        *)
(* diagonal is scaled to 1 and the column below it cleared.                *)
clearBelow(m, r, rows) ==
  clearColumn(scaleRow(m, r, galDivide(1, m[<<r, r>>])), r, (r + 1)..(rows - 1))

eliminateRow(m, r, rows) ==
  IF m = Singular THEN Singular
  ELSE IF \A b \in r..(rows - 1) : m[<<b, r>>] = 0 THEN Singular
  ELSE clearBelow(SwapRows(m, r, pivotRow(m, r, rows)), r, rows)

clearAbove(m, d) ==
  IF m = Singular THEN Singular ELSE clearColumn(m, d, 0..(d - 1))

gaussianElimination(m, rows) ==
  LET below[r \in 0..rows] == IF r = 0 THEN m ELSE eliminateRow(below[r - 1], r - 1, rows)
      above[d \in 0..rows] == IF d = 0 THEN below[rows] ELSE clearAbove(above[d - 1], d - 1)
  IN  above[rows]

rightHalf(work, size) ==
  IF work = Singular THEN Singular ELSE SubMatrix(work, 0, size, size, 2 * size)

Invert(m, size) ==
  rightHalf(gaussianElimination(Augment(m, identityMatrix(size), size), size), size)

vandermonde(rows, cols) == [p \in cells(rows, cols) |-> galExp(p[1], p[2])]

-----------------------------------------------------------------------------
(* The encoding matrices.                                                  *)

(* The identity above, the given rows below.                               *)
withIdentity(dataShards, totalShards, entry(_, _)) ==
  [p \in cells(totalShards, dataShards) |->
     IF p[1] >= dataShards THEN entry(p[1], p[2]) ELSE IF p[1] = p[2] THEN 1 ELSE 0]

(* Multiplying by the inverse of the top square makes that the identity.   *)
timesInverseOfTop(vm, dataShards, totalShards) ==
  Multiply(vm, Invert(SubMatrix(vm, 0, 0, dataShards, dataShards), dataShards),
           totalShards, dataShards, dataShards)

buildMatrix(dataShards, totalShards) ==
  timesInverseOfTop(vandermonde(totalShards, dataShards), dataShards, totalShards)

buildMatrixPAR1(dataShards, totalShards) ==
  withIdentity(dataShards, totalShards, LAMBDA r, c : galExp(c + 1, r - dataShards))

buildMatrixCauchy(dataShards, totalShards) ==
  withIdentity(dataShards, totalShards, LAMBDA r, c : invTable[galAdd(r, c)])

buildXorMatrix(dataShards, totalShards) ==
  withIdentity(dataShards, totalShards, LAMBDA r, c : 1)

(* The matrix New gives an encoder with these options; Singular when there *)
(* is no parity to compute.                                                *)
encodingMatrix(dataShards, parityShards, options) ==
  LET total == dataShards + parityShards
  IN  IF parityShards = 0 THEN Singular
      ELSE IF "fastOneParity" \in options /\ parityShards = 1
           THEN buildXorMatrix(dataShards, total)
      ELSE IF "useCauchy" \in options THEN buildMatrixCauchy(dataShards, total)
      ELSE IF "usePAR1Matrix" \in options THEN buildMatrixPAR1(dataShards, total)
      ELSE buildMatrix(dataShards, total)

(* What New refuses before it builds anything.                             *)
newError(dataShards, parityShards) ==
  IF dataShards <= 0 \/ parityShards < 0 THEN "ErrInvShardNum"
  ELSE IF dataShards + parityShards > 256 THEN "ErrMaxShardNum"
  ELSE "nil"

-----------------------------------------------------------------------------
(* The calls of an Encoder, for a matrix m of totalShards rows.            *)

filled(shards) == {i \in DOMAIN shards : shards[i] # <<>>}

(* Len of the first shard that has bytes, 0 when none has.                 *)
shardSize(shards) ==
  IF filled(shards) = {} THEN 0
  ELSE Len(shards[CHOOSE i \in filled(shards) : \A j \in filled(shards) : i <= j])

checkSize(shards, nilok, size) ==
  IF size = 0 THEN "ErrShardNoData"
  ELSE IF \E i \in DOMAIN shards : Len(shards[i]) # size /\ ~(nilok /\ shards[i] = <<>>)
       THEN "ErrShardSize"
  ELSE "nil"

checkShards(shards, nilok) == checkSize(shards, nilok, shardSize(shards))

(* Row r of m times the first inner shards.                                *)
codeShard(m, r, inner, shards, size) ==
  [b \in 1..size |-> Sum(inner, LAMBDA c : galMultiply(m[<<r, c>>], shards[c][b]))]

(* The shards in a set are replaced by what the rows of m make of the      *)
(* first dataShards shards.                                                *)
codeShards(m, dataShards, shards, set, size) ==
  [i \in DOMAIN shards |->
     IF i \in set THEN codeShard(m, i, dataShards, shards, size) ELSE shards[i]]

parityOf(dataShards, shards) == {i \in DOMAIN shards : i >= dataShards}

failed(err, shards) == [err |-> err, shards |-> shards]
succeeded(shards) == [err |-> "nil", shards |-> shards]

Encode(m, dataShards, shards) ==
  IF checkShards(shards, FALSE) # "nil" THEN failed(checkShards(shards, FALSE), shards)
  ELSE succeeded(codeShards(m, dataShards, shards, parityOf(dataShards, shards), Len(shards[0])))

(* Verify computes the parity again and compares it shard by shard.        *)
Verify(m, dataShards, shards) ==
  /\ checkShards(shards, FALSE) = "nil"
  /\ \A i \in parityOf(dataShards, shards) :
       shards[i] = codeShard(m, i, dataShards, shards, Len(shards[0]))

(* The first dataShards members of a set of rows, in order.                *)
firstRows(set, dataShards) ==
  [k \in 0..(dataShards - 1) |-> CHOOSE i \in set : Cardinality({j \in set : j < i}) = k]

(* The first dataShards rows whose shard is present.                       *)
validIndices(shards, dataShards) == firstRows(filled(shards), dataShards)

rowsOf(m, rows, dataShards) ==
  [p \in cells(dataShards, dataShards) |-> m[<<rows[p[1]], p[2]>>]]

(* Mutant: the first shards feed the decoding, not those of the valid      *)
(* rows.                                                                   *)
decodeDataMisaligned(decode, dataShards, shards, rows, size) ==
  [i \in DOMAIN shards |->
     IF i < dataShards /\ shards[i] = <<>>
     THEN codeShard(decode, i, dataShards,
                    [k \in DOMAIN rows |-> IF shards[k] = <<>> THEN zeros(size) ELSE shards[k]],
                    size)
     ELSE shards[i]]

(* The missing data shards are decoded from the shards of the valid rows.  *)
decodeData(decode, dataShards, shards, rows, size) ==
  [i \in DOMAIN shards |->
     IF i < dataShards /\ shards[i] = <<>>
     THEN codeShard(decode, i, dataShards, [k \in DOMAIN rows |-> shards[rows[k]]], size)
     ELSE shards[i]]

(* The missing parity is then computed from all the data shards, the       *)
(* decoded ones included.                                                  *)
rebuild(m, decode, dataShards, shards, rows, size, dataOnly) ==
  IF decode = Singular THEN failed("errSingular", shards)
  ELSE IF dataOnly THEN succeeded(decodeData(decode, dataShards, shards, rows, size))
  ELSE succeeded(codeShards(m, dataShards, decodeData(decode, dataShards, shards, rows, size),
                            parityOf(dataShards, shards) \ filled(shards), size))

reconstruct(m, dataShards, shards, dataOnly) ==
  LET rows == validIndices(shards, dataShards)
  IN  IF checkShards(shards, TRUE) # "nil" THEN failed(checkShards(shards, TRUE), shards)
      ELSE IF \A i \in DOMAIN shards \ filled(shards) : dataOnly /\ i >= dataShards
           THEN succeeded(shards)
      ELSE IF Cardinality(filled(shards)) < dataShards
           THEN failed("ErrTooFewShards", shards)
      ELSE rebuild(m, Invert(rowsOf(m, rows, dataShards), dataShards),
                   dataShards, shards, rows, shardSize(shards), dataOnly)

Reconstruct(m, dataShards, shards) == reconstruct(m, dataShards, shards, FALSE)
ReconstructData(m, dataShards, shards) == reconstruct(m, dataShards, shards, TRUE)

(* spare holds the bytes of the caller's slice between its length and its  *)
(* capacity.  A slice with room for every shard is cut where it lies and   *)
(* only dataShards bytes behind the data are cleared, wherever the slice   *)
(* ends; otherwise the spare bytes are copied behind the data and only the *)
(* rest is padding.                                                        *)
Split(dataShards, totalShards, data, spare) ==
  LET perShard == (Len(data) + dataShards - 1) \div dataShards
      whole == data \o spare
      fits == Len(whole) >= totalShards * perShard
      cleared == (Len(data) + 1)..(Len(data) + dataShards)
      padded == IF fits
                THEN [i \in 1..Len(whole) |-> IF i \in cleared THEN 0 ELSE whole[i]]
                ELSE whole \o zeros(totalShards * perShard - Len(whole))
      err == IF data = <<>> THEN "ErrShortData"
             ELSE IF fits /\ Len(spare) < dataShards THEN "panic"
             ELSE "nil"
  IN  [err |-> err,
       shards |-> [i \in 0..(totalShards - 1) |->
                     IF err # "nil" THEN <<>>
                     ELSE SubSeq(padded, i * perShard + 1, (i + 1) * perShard)]]

(* The first n shards, one behind the other.                               *)
concat(shards, n) ==
  LET joined[k \in 0..n] == IF k = 0 THEN <<>> ELSE joined[k - 1] \o shards[k - 1]
  IN  joined[n]

(* A missing shard is an error only while bytes are still wanted.          *)
Join(dataShards, shards, outSize) ==
  LET offset(i) == Len(concat(shards, i))
      data == concat(shards, dataShards)
      err == IF \E i \in 0..(dataShards - 1) : shards[i] = <<>> /\ offset(i) < outSize
             THEN "ErrReconstructRequired"
             ELSE IF Len(data) < outSize THEN "ErrShortData"
             ELSE "nil"
  IN  [err |-> err, data |-> IF err = "nil" THEN SubSeq(data, 1, outSize) ELSE <<>>]

=============================================================================
