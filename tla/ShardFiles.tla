----------------------------- MODULE ShardFiles -----------------------------
(***************************************************************************)
(* The files the encoder and decoder programs share: name.0 ... name.n     *)
(* with one shard each, name.size with the length of the original, and     *)
(* the decoder's output.  A reader cannot tell a shard file that does not  *)
(* exist from an empty one, so both are <<>> here.                         *)
(***************************************************************************)
EXTENDS ErasureCode

CONSTANTS
  DataShards, ParityShards,   \* the flags -data and -par
  Contents,                   \* the files that may be encoded under the name
  MaxEncodes, MaxDecodes,     \* bound: program starts
  MaxDamage                   \* bound: shard files lost, cut or altered

ASSUME FlagsAssumption == DataShards \in Int /\ ParityShards \in Int
ASSUME GeometryAccepted == newError(DataShards, ParityShards) = "nil"
ASSUME ContentsAssumption == Contents \subseteq Seq(Byte)

VARIABLES
  file,       \* the shard files
  sizeFile,   \* the number in name.size, 0 when there is none to parse
  output,     \* the decoder's output file
  count       \* how often programs were started and files damaged

diskVars == <<file, sizeFile, output>>

Shards == DataShards + ParityShards
Index == 0..(Shards - 1)

(* The matrix New builds for the default options.                          *)
matrix == encodingMatrix(DataShards, ParityShards, {})

noShards == [i \in Index |-> <<>>]

DiskInit ==
  /\ file = noShards
  /\ sizeFile = 0
  /\ output = <<>>
  /\ count = [encodes |-> 0, decodes |-> 0, damage |-> 0]

(* What happens to stored files: one is lost, cut short or altered.        *)
Damage(i) ==
  /\ count.damage < MaxDamage
  /\ file[i] # <<>>
  /\ \/ file' = [file EXCEPT ![i] = <<>>]
     \/ \E n \in 1..(Len(file[i]) - 1) : file' = [file EXCEPT ![i] = SubSeq(@, 1, n)]
     \/ file' = [file EXCEPT ![i][1] = galAdd(@, 1)]
  /\ count' = [count EXCEPT !.damage = @ + 1]
  /\ UNCHANGED <<sizeFile, output>>

(* The shards a complete encode of a content leaves behind, for reference  *)
(* in the properties.                                                      *)
paddedData(content) ==
  LET perShard == (Len(content) + DataShards - 1) \div DataShards
  IN  content \o zeros(DataShards * perShard - Len(content))

codewordOf(content) ==
  LET perShard == (Len(content) + DataShards - 1) \div DataShards
      byte(i, b) == paddedData(content)[i * perShard + b]
  IN  [i \in Index |-> [b \in 1..perShard |->
         Sum(DataShards, LAMBDA c : galMultiply(matrix[<<i, c>>], byte(c, b)))]]

codewords == [c \in Contents |-> codewordOf(c)]

=============================================================================
