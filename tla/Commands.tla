------------------------------ MODULE Commands ------------------------------
(***************************************************************************)
(* The encoder and decoder commands of lib/cmd, as programs that a user    *)
(* runs in one directory (docs/BUILDING.md:70-76).  The encoder replaces   *)
(* the shard files one by one, truncating each before it writes it, and    *)
(* name.size last; the decoder reads them one by one.  Neither command     *)
(* keeps the other out, and either may be killed.  The API server gives    *)
(* every decoder copies in a directory of its own: there the encoder of    *)
(* this module is at rest, at whatever step it stopped.                    *)
(***************************************************************************)
EXTENDS ShardFiles

CONSTANT MinRead     \* bound: the smallest buffer os.ReadFile allocates

ASSUME MinReadAssumption == MinRead \in Nat

VARIABLES enc, dec

commandVars == <<enc, dec>>

noEncoder == [pc |-> "idle", shards |-> noShards, next |-> 0, size |-> 0]

(* loaded is what the decoder read, shards what it made of it.             *)
noDecoder == [pc |-> "idle", loaded |-> noShards, shards |-> noShards,
              next |-> 0, outputSize |-> 0, sized |-> FALSE, exit |-> "none"]

CommandsInit ==
  /\ enc = noEncoder
  /\ dec = noDecoder

-----------------------------------------------------------------------------
(* The encoder.                                                            *)

(* os.ReadFile allocates the size of the file and a byte more, at least    *)
(* MinRead bytes: the rest of the buffer is behind the data and zero.      *)
readBuffer(content) ==
  zeros(IF Len(content) + 1 < MinRead THEN MinRead - Len(content) ELSE 1)

(* The encoder with its shards in memory, or gone when Split failed.       *)
encoderWith(split, size) ==
  IF split.err = "nil"
  THEN [noEncoder EXCEPT !.pc = "open", !.size = size,
                         !.shards = Encode(matrix, DataShards, split.shards).shards]
  ELSE [noEncoder EXCEPT !.pc = "done"]

(* The program reads the file, splits and encodes it in memory.            *)
EncoderReads(content) ==
  /\ enc.pc \in {"idle", "done"} /\ count.encodes < MaxEncodes
  /\ count' = [count EXCEPT !.encodes = @ + 1]
  /\ enc' = encoderWith(Split(DataShards, Shards, content, readBuffer(content)), Len(content))
  /\ UNCHANGED <<diskVars, dec>>

(* ioutil.WriteFile truncates the file ...                                 *)
EncoderOpens ==
  /\ enc.pc = "open" /\ enc.next < Shards
  /\ file' = [file EXCEPT ![enc.next] = <<>>]
  /\ enc' = [enc EXCEPT !.pc = "write"]
  /\ UNCHANGED <<sizeFile, output, count, dec>>

(* ... and then writes the shard.                                          *)
EncoderWrites ==
  /\ enc.pc = "write" /\ enc.next < Shards
  /\ file' = [file EXCEPT ![enc.next] = enc.shards[enc.next]]
  /\ enc' = [enc EXCEPT !.pc = "open", !.next = @ + 1]
  /\ UNCHANGED <<sizeFile, output, count, dec>>

EncoderOpensSize ==
  /\ enc.pc = "open" /\ enc.next = Shards
  /\ sizeFile' = 0
  /\ enc' = [enc EXCEPT !.pc = "write"]
  /\ UNCHANGED <<file, output, count, dec>>

EncoderWritesSize ==
  /\ enc.pc = "write" /\ enc.next = Shards
  /\ sizeFile' = enc.size
  /\ enc' = [noEncoder EXCEPT !.pc = "done"]
  /\ UNCHANGED <<file, output, count, dec>>

(* The user, or the server's timeout, kills the encoder.                   *)
EncoderKilled ==
  /\ enc.pc \in {"open", "write"}
  /\ enc' = [noEncoder EXCEPT !.pc = "done"]
  /\ UNCHANGED <<diskVars, count, dec>>

-----------------------------------------------------------------------------
(* The decoder.                                                            *)

DecoderStarts ==
  /\ dec.pc \in {"idle", "done"} /\ count.decodes < MaxDecodes
  /\ count' = [count EXCEPT !.decodes = @ + 1]
  /\ dec' = [noDecoder EXCEPT !.pc = "read"]
  /\ UNCHANGED <<diskVars, enc>>

(* A file it cannot read leaves a nil shard and is no error.               *)
DecoderReads ==
  /\ dec.pc = "read" /\ dec.next < Shards
  /\ dec' = [dec EXCEPT !.loaded[dec.next] = file[dec.next], !.next = @ + 1]
  /\ UNCHANGED <<diskVars, count, enc>>

(* Mutant: what was reconstructed is taken on trust.                       *)
verifiedAfterTrusting(rebuilt) ==
  IF rebuilt.err = "nil" THEN [dec EXCEPT !.pc = "size", !.shards = rebuilt.shards]
  ELSE [dec EXCEPT !.pc = "done", !.exit = "failed"]

(* What Reconstruct returned is verified before it is used.                *)
verifiedAfter(rebuilt) ==
  IF rebuilt.err = "nil" /\ Verify(matrix, DataShards, rebuilt.shards)
  THEN [dec EXCEPT !.pc = "size", !.shards = rebuilt.shards]
  ELSE [dec EXCEPT !.pc = "done", !.exit = "failed"]

(* Shards that do not verify are reconstructed.                            *)
DecoderRepairs ==
  /\ dec.pc = "read" /\ dec.next = Shards
  /\ dec' = IF Verify(matrix, DataShards, dec.loaded)
            THEN [dec EXCEPT !.pc = "size", !.shards = dec.loaded]
            ELSE verifiedAfter(Reconstruct(matrix, DataShards, dec.loaded))
  /\ UNCHANGED <<diskVars, count, enc>>

(* The size file counts when it holds a number no larger than the data.    *)
DecoderReadsSize ==
  LET all == Len(dec.shards[0]) * DataShards
      sized == 0 < sizeFile /\ sizeFile <= all
  IN  /\ dec.pc = "size"
      /\ dec' = [dec EXCEPT !.pc = "create", !.sized = sized,
                            !.outputSize = IF sized THEN sizeFile ELSE all]
      /\ UNCHANGED <<diskVars, count, enc>>

(* The output is created, or truncated, before anything is joined.         *)
DecoderCreates ==
  /\ dec.pc = "create"
  /\ output' = <<>>
  /\ dec' = [dec EXCEPT !.pc = "join"]
  /\ UNCHANGED <<file, sizeFile, count, enc>>

DecoderJoins ==
  LET joined == Join(DataShards, dec.shards, dec.outputSize)
  IN  /\ dec.pc = "join"
      /\ output' = joined.data
      /\ dec' = [dec EXCEPT !.pc = "done",
                            !.exit = IF joined.err = "nil" THEN "ok" ELSE "failed"]
      /\ UNCHANGED <<file, sizeFile, count, enc>>

DecoderKilled ==
  /\ dec.pc \in {"read", "size", "create", "join"}
  /\ dec' = [dec EXCEPT !.pc = "done", !.exit = "killed"]
  /\ UNCHANGED <<diskVars, count, enc>>

=============================================================================
