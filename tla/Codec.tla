------------------------------- MODULE Codec -------------------------------
(***************************************************************************)
(* The programs that encode and decode files, over the shard files they    *)
(* share: either the two commands, which run side by side, or the two      *)
(* stream programs, one at a time.  Files are damaged while no program     *)
(* runs.                                                                   *)
(***************************************************************************)
EXTENDS Commands, Streams

CONSTANT Geometries     \* the <<data, parity, options>> AnyRowsInvert covers

VARIABLE programs

vars == <<file, sizeFile, output, count, enc, dec, sEnc, sDec, concurrent, programs>>

Init ==
  /\ DiskInit /\ CommandsInit /\ StreamsInit
  /\ programs \in {"commands", "streams"}
  /\ programs = "commands" => ~concurrent

CommandStep ==
  \/ \E content \in Contents : EncoderReads(content)
  \/ EncoderOpens \/ EncoderWrites \/ EncoderOpensSize \/ EncoderWritesSize \/ EncoderKilled
  \/ DecoderStarts \/ DecoderReads \/ DecoderRepairs \/ DecoderReadsSize
  \/ DecoderCreates \/ DecoderJoins \/ DecoderKilled

StreamStep ==
  \/ \E content \in Contents :
       sDec.pc \in {"idle", "done"} /\ StreamEncoderStarts(content)
  \/ StreamEncoderCreates \/ StreamEncoderSplits \/ StreamEncoderEncodes \/ StreamEncoderStops
  \/ StreamDecoderVerifies \/ StreamDecoderReconstructs
  \/ StreamDecoderJoins \/ StreamDecoderStops

FilesDamaged ==
  /\ {enc.pc, dec.pc, sEnc.pc, sDec.pc} \subseteq {"idle", "done"}
  /\ \E i \in Index : Damage(i)
  /\ UNCHANGED <<enc, dec, sEnc, sDec, concurrent, programs>>

Next ==
  \/ programs = "commands" /\ CommandStep /\ UNCHANGED <<sEnc, sDec, concurrent, programs>>
  \/ programs = "streams" /\ StreamStep /\ UNCHANGED <<enc, dec, programs>>
  \/ FilesDamaged

Spec == Init /\ [][Next]_vars

-----------------------------------------------------------------------------
(* The state in which what only depends on the constants is checked.       *)
atRest == programs = "commands" /\ count.encodes + count.decodes + count.damage = 0

(* What the comment over buildMatrix promises of the matrix: the data      *)
(* shards are unchanged by encoding, and any square subset of the rows can *)
(* be inverted.  The rows reconstruct takes are the first dataShards of    *)
(* those whose shards are there, and what it decodes with is what Invert   *)
(* finds.                                                                  *)
inverts(inverse, square, dataShards) ==
  /\ inverse \in [cells(dataShards, dataShards) -> Byte]
  /\ Multiply(inverse, square, dataShards, dataShards, dataShards) = identityMatrix(dataShards)

encodes(whole, dataShards, totalShards) ==
  /\ whole \in [cells(totalShards, dataShards) -> Byte]
  /\ \A p \in cells(dataShards, dataShards) : whole[p] = identityMatrix(dataShards)[p]
  /\ \A set \in SUBSET (0..(totalShards - 1)) :
       LET square == rowsOf(whole, firstRows(set, dataShards), dataShards)
       IN  Cardinality(set) >= dataShards => inverts(Invert(square, dataShards), square, dataShards)

(* The matrices of the geometries in the constant are what the comment     *)
(* promises: the default ones, the Cauchy and the one-parity matrices.     *)
(* Checked once, at rest.                                                  *)
AnyRowsInvert ==
  atRest => \A g \in Geometries : encodes(encodingMatrix(g[1], g[2], g[3]), g[1], g[1] + g[2])

(* Three ways to a product agree on every byte: the table the scalar loops *)
(* use, the two half tables the kernels shuffle, and what the generator    *)
(* computes from the logarithms.  Checked once, at rest.                   *)
TablesAgree ==
  atRest =>
    \A a \in Byte :
      /\ generateMulTableHalf(a) = [low |-> mulTableLow[a], high |-> mulTableHigh[a]]
      /\ \A b \in Byte : /\ shuffleProduct(a, b) = galMultiply(a, b)
                         /\ generateMulTable(a, b) = galMultiply(a, b)
                         /\ b # 0 => galDivide(galMultiply(a, b), b) = a

(* A decoder that read k shards and exits with 0 returns the content whose *)
(* codeword they come from when at most k - DataShards of them are wrong:  *)
(* what is torn, stale or altered is noticed.  With DataShards shards left *)
(* nothing can be noticed.                                                 *)
DecodeHonest ==
  dec.exit = "ok" =>
    \A c \in Contents :
      LET wrong == {i \in filled(dec.loaded) : dec.loaded[i] # codewords[c][i]}
      IN  Cardinality(wrong) + DataShards <= Cardinality(filled(dec.loaded)) =>
            output = SubSeq(paddedData(c), 1, dec.outputSize)

(* Any DataShards good shards are enough: then the decoder succeeds, and   *)
(* with the matching name.size the output is the content to the byte.      *)
DecodeServes ==
  \A c \in Contents :
    (/\ dec.exit \in {"ok", "failed"}
     /\ Cardinality(filled(dec.loaded)) >= DataShards
     /\ \A i \in filled(dec.loaded) : dec.loaded[i] = codewords[c][i]) =>
       /\ dec.exit = "ok"
       /\ (dec.sized /\ dec.outputSize = Len(c)) => output = c

(* The stream decoder, started on shards of one content of which at least  *)
(* DataShards are whole and the others missing, restores it with its       *)
(* padding, unless it is stopped.                                          *)
StreamServes ==
  \A c \in Contents :
    LET whole == filled(sDec.before)
    IN  (/\ sDec.exit \in {"ok", "failed"}
         /\ Cardinality(whole) >= DataShards
         /\ \A i \in whole : sDec.before[i] = codewords[c][i]) =>
           sDec.exit = "ok" /\ output = paddedData(c)

(* When a stream verification lets the decoder go on to join, the files    *)
(* agree as far as the shortest one goes.  A longer one is only overlooked *)
(* when the shortest ends on a block boundary and the others go on for at  *)
(* least a block: no size is compared there.                               *)
StreamVerdict ==
  sDec.pc = "join" =>
    LET sizes == {Len(file[i]) : i \in Index}
        shortest == CHOOSE n \in sizes : \A o \in sizes : n <= o
        cut == [i \in Index |-> SubSeq(file[i], 1, shortest)]
    IN  /\ Verify(matrix, DataShards, cut)
        /\ \A n \in sizes \ {shortest} : shortest % streamBS = 0 /\ n >= shortest + streamBS

=============================================================================
