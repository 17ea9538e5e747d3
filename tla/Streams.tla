------------------------------ MODULE Streams ------------------------------
(***************************************************************************)
(* The StreamEncoder of reedsolomon/streaming.go and the two programs of   *)
(* reedsolomon/examples that drive it over shard files.  A stream call     *)
(* works through its readers a block at a time, in buffers that come from  *)
(* a pool and keep their former bytes.  One program runs at a time; it may *)
(* be killed between two blocks, or fail in the middle of writing one.     *)
(***************************************************************************)
EXTENDS ShardFiles

CONSTANT streamBS     \* the block size

ASSUME BlockAssumption == streamBS \in Nat \ {0}

VARIABLES sEnc, sDec, concurrent

streamVars == <<sEnc, sDec, concurrent>>

least(a, b) == IF a <= b THEN a ELSE b
dataIndex == 0..(DataShards - 1)
parityIndex == DataShards..(Shards - 1)

blank == [i \in Index |-> zeros(streamBS)]
full == [i \in Index |-> streamBS]

(* What a call holds: the buffers, the length each is sliced to, how far   *)
(* each reader is, and how much was read.                                  *)
createSlice(buf) == [buf |-> buf, len |-> full, pos |-> [i \in Index |-> 0], read |-> 0]

noStreamEncoder == [pc |-> "idle", content |-> <<>>, next |-> 0, call |-> createSlice(blank)]
noStreamDecoder == [pc |-> "idle", before |-> noShards, valid |-> noShards,
                    call |-> createSlice(blank), exit |-> "none"]

StreamsInit ==
  /\ sEnc = noStreamEncoder
  /\ sDec = noStreamDecoder
  /\ concurrent \in BOOLEAN

-----------------------------------------------------------------------------
(* Reading and writing one block.                                          *)

(* io.ReadFull into the slice of reader i: the bytes it gets, fewer than   *)
(* the slice holds when the reader ends.                                   *)
readFull(call, readers, i) ==
  SubSeq(readers[i], call.pos[i] + 1,
         call.pos[i] + least(call.len[i], Len(readers[i]) - call.pos[i]))

(* The readers that ended within the block.  Sequential reads compare      *)
(* their sizes with that of the first one that ended.                      *)
readShards(got, ended) ==
  LET first == CHOOSE i \in ended : \A j \in ended : i <= j
  IN  IF ended = {} THEN "nil"
      ELSE IF \E i \in ended : Len(got[i]) # Len(got[first]) THEN "ErrShardSize"
      ELSE IF got[first] = <<>> THEN "EOF" ELSE "nil"

(* Concurrent reads compare them in the order in which they arrive.        *)
cReadShards(got, ended) ==
  IF \E i, j \in ended : Len(got[i]) # Len(got[j]) THEN "ErrShardSize"
  ELSE IF \E i \in ended : got[i] = <<>> THEN "EOF"
  ELSE "nil"

(* One round over the readers in a set; <<>> is a nil reader.  A buffer    *)
(* keeps the bytes that are not read over.                                 *)
readBlock(call, readers, reading) ==
  LET got == [i \in Index |-> IF i \in reading THEN readFull(call, readers, i) ELSE <<>>]
      ended == {i \in reading : readers[i] # <<>> /\ Len(got[i]) < call.len[i]}
      missing == {i \in reading : readers[i] = <<>>}
  IN  [err  |-> IF concurrent THEN cReadShards(got, ended) ELSE readShards(got, ended),
       call |-> [call EXCEPT
         !.buf = [i \in Index |-> got[i] \o SubSeq(@[i], Len(got[i]) + 1, streamBS)],
         !.len = [i \in Index |-> IF i \in ended \cup missing THEN Len(got[i]) ELSE @[i]],
         !.pos = [i \in Index |-> @[i] + Len(got[i])],
         !.read = @ + Len(concat(got, Shards))]]

slices(call) == [i \in Index |-> SubSeq(call.buf[i], 1, call.len[i])]

(* At the end of the input a call that never read a byte has failed.       *)
endOfInput(call) == IF call.read = 0 THEN "ErrShardNoData" ELSE "EOF"

(* Every slice in the set that is not empty gets the same size, whatever   *)
(* was read into it: a longer one is cut, a shorter one extended.          *)
trimShards(call, set, size) ==
  [call EXCEPT !.len = [i \in Index |->
     IF i \in set /\ @[i] # 0 THEN size ELSE @[i]]]

(* The bytes of computed shards replace those in the buffers.              *)
store(call, shards) ==
  [call EXCEPT
     !.buf = [i \in Index |-> shards[i] \o SubSeq(@[i], Len(shards[i]) + 1, streamBS)],
     !.len = [i \in Index |-> Len(shards[i])]]

(* The writers that a block reaches.  Sequential writes stop at the first  *)
(* that fails ...                                                          *)
writeShards(writers) == {w \in SUBSET writers : \A i \in w : \A j \in writers : j < i => j \in w}

(* ... concurrent ones are all made.                                       *)
cWriteShards(writers) == SUBSET writers

reached(writers) == IF concurrent THEN cWriteShards(writers) ELSE writeShards(writers)

append(written, shards) ==
  file' = [i \in Index |-> IF i \in written THEN file[i] \o shards[i] ELSE file[i]]

-----------------------------------------------------------------------------
(* The calls.                                                              *)

(* The padding covers every missing byte, so a short input is not noticed. *)
splitStream(content) ==
  LET perShard == (Len(content) + DataShards - 1) \div DataShards
      padded == content \o zeros(Shards * perShard - Len(content))
  IN  [i \in 0..(DataShards - 1) |-> SubSeq(padded, i * perShard + 1, (i + 1) * perShard)]

(* Mutant: readers that end apart count as the end of the input.           *)
verifyBlockLenient(call, block) ==
  IF block.err \in {"EOF", "ErrShardSize"}
  THEN IF endOfInput(call) = "EOF" THEN "true" ELSE "ErrShardNoData"
  ELSE IF block.err # "nil" THEN block.err
  ELSE IF Verify(matrix, DataShards, slices(block.call)) THEN "none" ELSE "false"

(* One round of Verify, after a block was read: the verdict that ends it.  *)
verifyBlock(call, block) ==
  IF block.err = "EOF" THEN IF endOfInput(call) = "EOF" THEN "true" ELSE "ErrShardNoData"
  ELSE IF block.err # "nil" THEN block.err
  ELSE IF Verify(matrix, DataShards, slices(block.call)) THEN "none" ELSE "false"

(* Verify goes on to the end of the readers, or to the first block that    *)
(* does not verify.                                                        *)
verifyStream(buf, readers) ==
  LET rounds == 1 + Len(concat(readers, Shards))
      next(last, block) == [call |-> block.call, verdict |-> verifyBlock(last.call, block)]
      round[k \in 0..rounds] ==
        IF k = 0 THEN [call |-> createSlice(buf), verdict |-> "none"]
        ELSE LET last == round[k - 1]
             IN  IF last.verdict # "none" THEN last
                 ELSE next(last, readBlock(last.call, readers, Index))
  IN  round[rounds]

(* One round of Encode, after the data blocks were read.                   *)
encodeBlock(call) == Encode(matrix, DataShards, slices(call))

(* Mutant: only the data is ever rebuilt.                                  *)
reconstructBlockDataOnly(call, readers) ==
  reconstruct(matrix, DataShards, slices(call), TRUE)

(* One round of Reconstruct: the slices that came from no reader are       *)
(* rebuilt, only the data unless parity is to be filled in.                *)
reconstructBlock(call, readers) ==
  reconstruct(matrix, DataShards, slices(call), parityIndex \subseteq filled(readers))

(* The size of the last shard that is not empty decides how much is        *)
(* joined.                                                                 *)
openInput(files) ==
  IF filled(files) = {} THEN 0
  ELSE Len(files[CHOOSE i \in filled(files) : \A j \in filled(files) : j <= i])

(* io.CopyN over the data shards, one behind the other; what there is gets *)
(* written even when it is too little.                                     *)
joinStream(files, outSize) ==
  LET bytes == concat(files, DataShards)
      missing == dataIndex \ filled(files)
  IN  [err |-> IF missing # {} THEN "StreamReadError"
               ELSE IF Len(bytes) < outSize THEN "ErrShortData" ELSE "nil",
       data |-> IF missing # {} THEN <<>> ELSE SubSeq(bytes, 1, least(outSize, Len(bytes)))]

-----------------------------------------------------------------------------
(* stream-encoder.go                                                       *)

StreamEncoderStarts(content) ==
  /\ sEnc.pc \in {"idle", "done"} /\ count.encodes < MaxEncodes
  /\ count' = [count EXCEPT !.encodes = @ + 1]
  /\ sEnc' = [noStreamEncoder EXCEPT !.pc = "create", !.content = content]
  /\ UNCHANGED <<diskVars, sDec, concurrent>>

(* Every output file is truncated before anything is written; an empty     *)
(* input is refused only then.                                             *)
StreamEncoderCreates ==
  LET last == sEnc.next = Shards - 1
  IN  /\ sEnc.pc = "create"
      /\ file' = [file EXCEPT ![sEnc.next] = <<>>]
      /\ sEnc' = [sEnc EXCEPT
           !.next = IF last THEN 0 ELSE @ + 1,
           !.pc = IF ~last THEN "create" ELSE IF sEnc.content = <<>> THEN "done" ELSE "split"]
      /\ UNCHANGED <<sizeFile, output, count, sDec, concurrent>>

StreamEncoderSplits ==
  LET last == sEnc.next = DataShards - 1
  IN  /\ sEnc.pc = "split"
      /\ file' = [file EXCEPT ![sEnc.next] = splitStream(sEnc.content)[sEnc.next]]
      /\ sEnc' = [sEnc EXCEPT !.next = IF last THEN 0 ELSE @ + 1,
                              !.pc = IF last THEN "encode" ELSE "split"]
      /\ UNCHANGED <<sizeFile, output, count, sDec, concurrent>>

(* The parity of a block goes to its files, or to some of them when a      *)
(* write fails.                                                            *)
writesParity(call, encoded) ==
  IF encoded.err # "nil"
  THEN sEnc' = [noStreamEncoder EXCEPT !.pc = "done"] /\ UNCHANGED file
  ELSE \E written \in reached(parityIndex) :
         /\ append(written, encoded.shards)
         /\ sEnc' = IF written = parityIndex
                    THEN [sEnc EXCEPT !.call = store(call, encoded.shards)]
                    ELSE [noStreamEncoder EXCEPT !.pc = "done"]

(* One round of Encode: a block of every data file is read, its parity     *)
(* computed and appended to the parity files.                              *)
StreamEncoderEncodes ==
  LET block == readBlock(sEnc.call, file, dataIndex)
      trimmed == trimShards(block.call, parityIndex,
                            shardSize([i \in dataIndex |-> slices(block.call)[i]]))
  IN  /\ sEnc.pc = "encode"
      /\ IF block.err # "nil"
         THEN sEnc' = [noStreamEncoder EXCEPT !.pc = "done"] /\ UNCHANGED file
         ELSE writesParity(trimmed, encodeBlock(trimmed))
      /\ UNCHANGED <<sizeFile, output, count, sDec, concurrent>>

(* Killed, or out of disk space, with a data file written in part.         *)
StreamEncoderStops ==
  /\ sEnc.pc \in {"create", "split", "encode"}
  /\ IF sEnc.pc = "split"
     THEN \E n \in 0..Len(splitStream(sEnc.content)[sEnc.next]) :
            file' = [file EXCEPT ![sEnc.next] = SubSeq(splitStream(sEnc.content)[sEnc.next], 1, n)]
     ELSE UNCHANGED file
  /\ sEnc' = [noStreamEncoder EXCEPT !.pc = "done"]
  /\ UNCHANGED <<sizeFile, output, count, sDec, concurrent>>

-----------------------------------------------------------------------------
(* stream-decoder.go                                                       *)

exitDecoder(exit) == [sDec EXCEPT !.pc = "done", !.call = createSlice(blank), !.exit = exit]

(* A mismatch, an error and a missing shard are treated alike: the missing *)
(* shards are rebuilt.                                                     *)
afterVerify(first) ==
  [noStreamDecoder EXCEPT
     !.before = file, !.valid = file, !.call = createSlice(first.call.buf),
     !.pc = IF first.verdict = "true" THEN "join" ELSE "reconstruct"]

StreamDecoderVerifies ==
  /\ sEnc.pc \in {"idle", "done"} /\ sDec.pc \in {"idle", "done"}
  /\ count.decodes < MaxDecodes
  /\ count' = [count EXCEPT !.decodes = @ + 1]
  /\ sDec' = afterVerify(verifyStream(blank, file))
  /\ UNCHANGED <<diskVars, sEnc, concurrent>>

(* The rebuilt part of a block goes to the files that were missing.        *)
writesRebuilt(call, rebuilt) ==
  LET fill == Index \ filled(sDec.valid)
  IN  IF rebuilt.err # "nil" THEN sDec' = exitDecoder("failed") /\ UNCHANGED file
      ELSE \E written \in reached(fill) :
             /\ append(written, rebuilt.shards)
             /\ sDec' = IF written = fill
                        THEN [sDec EXCEPT !.call = store(call, rebuilt.shards)]
                        ELSE exitDecoder("stopped")

(* When Reconstruct has ended well everything is verified again.           *)
StreamDecoderReconstructs ==
  LET block == readBlock(sDec.call, sDec.valid, Index)
      trimmed == trimShards(block.call, Index, shardSize(slices(block.call)))
  IN  /\ sDec.pc = "reconstruct"
      /\ IF block.err = "nil" THEN writesRebuilt(trimmed, reconstructBlock(trimmed, sDec.valid))
         ELSE /\ sDec' = IF /\ block.err = "EOF" /\ endOfInput(sDec.call) = "EOF"
                            /\ verifyStream(sDec.call.buf, file).verdict = "true"
                         THEN [sDec EXCEPT !.pc = "join", !.call = createSlice(blank)]
                         ELSE exitDecoder("failed")
              /\ UNCHANGED file
      /\ UNCHANGED <<sizeFile, output, count, sEnc, concurrent>>

StreamDecoderJoins ==
  LET joined == joinStream(file, DataShards * openInput(file))
  IN  /\ sDec.pc = "join"
      /\ output' = joined.data
      /\ sDec' = exitDecoder(IF joined.err = "nil" THEN "ok" ELSE "failed")
      /\ UNCHANGED <<file, sizeFile, count, sEnc, concurrent>>

StreamDecoderStops ==
  /\ sDec.pc \in {"reconstruct", "join"}
  /\ sDec' = exitDecoder("stopped")
  /\ UNCHANGED <<diskVars, count, sEnc, concurrent>>

=============================================================================
