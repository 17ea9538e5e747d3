------------------------------- MODULE Coder -------------------------------
(***************************************************************************)
(* The in-memory encoder of the Reed-Solomon library                       *)
(* (reedsolomon/reedsolomon.go, galoisAvx512_amd64.go, options.go) as      *)
(* several callers share it: Encode, Verify, Reconstruct, ReconstructData, *)
(* Update and EncodeIdx split their work into goroutines and rounds, pick  *)
(* a kernel for it, borrow a buffer from a pool for the coefficients and   *)
(* look inverted matrices up in a tree.                                    *)
(*                                                                         *)
(* The bytes are the symbolic ones of module Kernels: the model follows    *)
(* the byte at one position, any one, of every shard.                      *)
(***************************************************************************)
EXTENDS Kernels, InversionTree, SequencesExt

CONSTANTS
  Callers,       \* the goroutines of the program that call the encoder
  Settings,      \* geometry, options and machine, one record per encoder
  Requests(_, _),\* the calls [op, n, lost, dataOnly, changed] that a caller
                 \* makes on an encoder
  Positions,     \* the positions of a byte in its shard that are followed
  MaxCalls       \* bound: calls of each caller

(* Options as the program gives them, a machine whose cores are known, and *)
(* calls on shards that are not empty.                                     *)
ASSUME SettingsAssumption ==
  \A s \in Settings :
     /\ s.D \in Nat \ {0} /\ s.P \in Nat \ {0} /\ s.D + s.P <= 256
     /\ s.maxGoroutines \in Nat /\ s.minSplitSize \in Nat /\ s.shardSize \in Nat
     /\ s.procs \in Nat \ {0} /\ s.threadsPerCore \in Int /\ s.physicalCores \in Int
     /\ s.L1D \in Int /\ s.L2 \in Int /\ s.avx2 \in BOOLEAN

ASSUME CallersAssumption == IsFiniteSet(Callers) /\ MaxCalls \in Nat

ASSUME PositionsAssumption == Positions \subseteq Nat

Call == [op : {"encode", "verify", "reconstruct", "update", "encodeIdx"},
         n : Nat \ {0}, lost : SUBSET Nat, dataOnly : BOOLEAN, changed : SUBSET Nat]

VARIABLES
  enc,        \* the encoder, as New returns it
  at,         \* the position followed
  buffer,     \* the coefficient buffers: [len, coefs]
  pool,       \* the buffers that are in the pool
  tree,       \* the inversion tree
  pc,         \* where each caller is
  call,       \* the call it makes
  job,        \* the codeSomeShards it is in: [ins, outs, path, buf, rows]
  data,       \* the inputs' bytes
  out,        \* the outputs' bytes
  start, do,  \* the next goroutine's first byte and length
  workers,    \* the goroutines: [lo, hi, next], done once next = hi
  calls       \* calls begun

vars == <<enc, at, buffer, pool, tree, pc, call, job, data, out, start, do,
          workers, calls>>

Buffers == 1..Cardinality(Callers)

least(a, b) == IF a < b THEN a ELSE b
most(a, b) == IF a > b THEN a ELSE b
roundUp(n) == ((n + 63) \div 64) * 64

ascending(indices) ==
  [k \in 1..Cardinality(indices) |->
     CHOOSE i \in indices : Cardinality({j \in indices : j < i}) = k - 1]

-----------------------------------------------------------------------------
(* Options and New.  A setting holds the geometry, the options as the      *)
(* program gives them (0: not given) and the machine's caches, cores and   *)
(* instruction sets.                                                       *)

avx2CodeGenMaxGoroutines == 8

defaultMaxGoroutines(s) == IF s.procs <= 1 THEN 1 ELSE 384

maxGoroutines(s) ==
  IF s.maxGoroutines > 0 THEN s.maxGoroutines ELSE defaultMaxGoroutines(s)

canAVX2C(s, n, ins, outs) ==
  /\ s.avx2
  /\ n >= avx2CodeGenMinSize /\ ins + outs >= avx2CodeGenMinShards
  /\ ins <= maxAvx2Inputs /\ outs <= maxAvx2Outputs

(* Bytes a goroutine codes at a time: what fits the L2 cache, or the L1    *)
(* cache where the shards are too many for one kernel.                     *)
perRound(s) ==
  LET tiled == s.avx2 /\ (s.D > maxAvx2Inputs \/ s.P > maxAvx2Outputs)
      size == IF tiled THEN s.L1D ELSE s.L2
      divide == IF tiled THEN least(s.D, maxAvx2Inputs) + least(s.P, maxAvx2Outputs)
                ELSE s.P + 1
      detected == IF size <= 0 THEN 128 * 1024 ELSE size
      shared == IF s.threadsPerCore > 1 /\ maxGoroutines(s) > s.physicalCores
                THEN detected \div s.threadsPerCore ELSE detected
  IN  roundUp(shared \div divide)

minSplitSize(s) ==
  IF s.minSplitSize > 0 THEN s.minSplitSize
  ELSE most(1024, (IF s.L1D <= 0 THEN 32 * 1024 ELSE s.L1D) \div (s.P + 1))

(* WithAutoGoroutines: the goroutines and rounds for an expected shard     *)
(* size, the goroutines a multiple of the processors.                      *)
auto(s, round, split) ==
  IF s.shardSize <= 0 THEN [g |-> maxGoroutines(s), round |-> round]
  ELSE IF s.procs = 1 \/ s.shardSize <= split * 2 THEN [g |-> 1, round |-> round]
  ELSE LET g == s.shardSize \div round
           over == g < s.procs * 2 /\ round > split * 2
           up == (IF over THEN s.procs * 2 ELSE g) + s.procs - 1
       IN  [g |-> up - (up % s.procs), round |-> IF over THEN round \div 2 ELSE round]

New(s) ==
  LET split == minSplitSize(s)
      a == auto(s, perRound(s), split)
  IN  [D |-> s.D, P |-> s.P, caching |-> s.inversionCache,
       avx512 |-> s.avx512, avx2 |-> s.avx2, ssse3 |-> s.ssse3, sse2 |-> s.sse2,
       perRound |-> a.round, minSplitSize |-> split,
       maxGoroutines |->
         IF canAVX2C(s, avx2CodeGenMinSize, maxAvx2Inputs, maxAvx2Outputs)
         THEN least(a.g, avx2CodeGenMaxGoroutines) ELSE a.g]

ASSUME CallsAssumption ==
  \A s \in Settings, c \in Callers : Requests(c, New(s)) \subseteq Call

(* The caches hold a byte of every shard.                                  *)
ASSUME CachesAssumption == \A s \in Settings : perRound(s) > 0

Shards == enc.D + enc.P

(* A buffer of the pool's New, by the coefficients it has room for.        *)
fullSize == enc.D * enc.P

-----------------------------------------------------------------------------
(* How codeSomeShards goes about a job of n bytes.                         *)

avxPLimit == 10 * 1024 * 1024

pathOf(n, ins, outs) ==
  IF outs = 0 THEN "nothing"
  ELSE IF enc.avx512 /\ ins >= 4 /\ outs >= 2
  THEN IF enc.maxGoroutines > 1 /\ n > enc.minSplitSize THEN "avx512P" ELSE "avx512"
  ELSE IF n > enc.minSplitSize
  THEN IF canAVX2C(enc, n, ins, outs) THEN "avx2P"
       ELSE IF n < avxPLimit /\ ins + outs > avx2CodeGenMinShards
               /\ canAVX2C(enc, n \div 4, maxAvx2Inputs, maxAvx2Outputs)
       THEN "planP" ELSE "roundsP"
  ELSE IF canAVX2C(enc, n, ins, outs) THEN "avx2"
  ELSE IF ins + outs > avx2CodeGenMinShards
          /\ canAVX2C(enc, n, maxAvx2Inputs, maxAvx2Outputs)
  THEN "tiled" ELSE "rounds"

(* The paths that may start goroutines, and the ones that use a buffer.    *)
splits(way) == way \in {"avx512P", "avx2P", "planP", "roundsP", "updateP"}
borrows(way) == way \in {"avx2P", "planP", "avx2", "tiled"}

(* Mutant: no floor under the size of a split.                             *)
splitSizeUnfloored(n, way) ==
  IF way = "updateP" THEN n \div enc.maxGoroutines
  ELSE roundUp(n \div enc.maxGoroutines)

(* The bytes of one goroutine.                                             *)
splitSize(n, way) ==
  LET size == most(n \div enc.maxGoroutines, enc.minSplitSize)
  IN  IF way = "updateP" THEN size ELSE roundUp(size)

(* Up to ten inputs or outputs at a time, as <<first, how many>>.          *)
tens(total) ==
  [k \in 1..((total + 9) \div 10) |-> <<10 * (k - 1), least(10, total - 10 * (k - 1))>>]

(* The tiles of a job, and where in the buffer the coefficients of each    *)
(* begin when they are laid one after the other.                           *)
tile(i, o, from) ==
  [inIdx |-> i[1], ins |-> i[2], outIdx |-> o[1], outs |-> o[2], from |-> from]

inputsOutside(ins, outs) ==
  LET i == tens(ins)
      o == tens(outs)
  IN  [k \in 1..(Len(i) * Len(o)) |->
         LET a == i[((k - 1) \div Len(o)) + 1]
             b == o[((k - 1) % Len(o)) + 1]
         IN  tile(a, b, a[1] * outs + a[2] * b[1])]

outputsOutside(ins, outs) ==
  LET i == tens(ins)
      o == tens(outs)
  IN  [k \in 1..(Len(i) * Len(o)) |->
         LET a == i[((k - 1) % Len(i)) + 1]
             b == o[((k - 1) \div Len(i)) + 1]
         IN  tile(a, b, b[1] * ins + b[2] * a[1])]

(* codeSomeShardsAVXP puts the smaller side in its inner loop.             *)
planOf(j) ==
  IF j.ins > j.outs THEN inputsOutside(j.ins, j.outs) ELSE outputsOutside(j.ins, j.outs)

-----------------------------------------------------------------------------
(* The bytes of one stretch.  d and o are the inputs' and the outputs'     *)
(* bytes, m the coefficients in the buffer.                                *)

(* Input by input, the first one overwriting.                              *)
codeRound(d, o, lo, hi) ==
  [r \in DOMAIN o |->
     FoldLeft(LAMBDA byte, c : galMulSliceXor(enc, at, lo, hi, byte, times(d[c], <<r, c>>)),
              galMulSlice(enc, at, lo, hi, o[r], times(d[0], <<r, 0>>)),
              [c \in 1..(Cardinality(DOMAIN d) - 1) |-> c])]

codeTile(m, d, o, t, lo, hi) ==
  IF t.inIdx = 0
  THEN galMulSlicesAvx2(at, m, d, o, t.inIdx, t.ins, t.outIdx, t.outs, lo, hi)
  ELSE galMulSlicesAvx2Xor(at, m, d, o, t.inIdx, t.ins, t.outIdx, t.outs, lo, hi)

(* A plan made ahead: every tile has its own stretch of the buffer.        *)
codePlan(plan, m, d, o, lo, hi) ==
  FoldLeft(LAMBDA byte, t :
             codeTile([x \in 0..(t.ins * t.outs - 1) |-> m[t.from + x]], d, byte, t, lo, hi),
           o, plan)

(* Tile after tile, each one's coefficients made just before.              *)
codeTiles(plan, d, o, lo, hi) ==
  FoldLeft(LAMBDA byte, t :
             codeTile(genAvx2Matrix(t.outIdx, t.inIdx, t.ins, t.outs), d, byte, t, lo, hi),
           o, plan)

(* Blocks of eight inputs for every batch of outputs.                      *)
codeAvx512(ins, d, o, lo, hi) ==
  LET blocks == [k \in 1..((ins + dimIn - 1) \div dimIn) |-> dimIn * (k - 1)]
      batch(byte, b) ==
        FoldLeft(LAMBDA x, inputRow :
                   galMulAVX512Parallel(at, setupMatrix(ins, inputRow, b[1], b[2]),
                                        d, x, [from |-> inputRow,
                                               to |-> least(inputRow + dimIn, ins)],
                                        b, lo, hi),
                 byte, blocks)
  IN  FoldLeft(batch, o, avx512Batches(Cardinality(DOMAIN o)))

(* One turn of a worker's loop over [w.next, w.hi): how far it gets.       *)
viaKernel(j, w) ==
  \/ j.path \in {"avx2", "avx2P"} /\ w.next = w.lo /\ w.hi - w.lo >= minAvx2Size
  \/ j.path = "tiled" /\ w.next = 0

(* Mutant: the last round of a stretch is as long as the others.           *)
turnEndUnclamped(j, w) ==
  IF viaKernel(j, w) THEN w.next + avxMasked(w.hi - w.next)
  ELSE IF j.path \in {"avx2", "tiled", "update", "updateP"} THEN w.hi
  ELSE w.next + enc.perRound

turnEnd(j, w) ==
  IF viaKernel(j, w) THEN w.next + avxMasked(w.hi - w.next)
  ELSE IF j.path \in {"avx2", "tiled", "update", "updateP"} THEN w.hi
  ELSE least(w.next + enc.perRound, w.hi)

(* What it leaves in the outputs.                                          *)
turnOut(j, w, m, d, o) ==
  LET stop == turnEnd(j, w)
      inPlan == w.next + avxMasked(stop - w.next)
  IN  CASE j.path \in {"avx512", "avx512P"} -> codeAvx512(j.ins, d, o, w.next, stop)
        [] j.path = "tiled" /\ viaKernel(j, w) ->
             codeTiles(inputsOutside(j.ins, j.outs), d, o, 0, w.hi)
        [] j.path # "tiled" /\ viaKernel(j, w) ->
             codeTile(m, d, o, inputsOutside(j.ins, j.outs)[1], w.next, w.hi)
        [] j.path = "planP" ->
             LET planned == IF inPlan = w.next THEN o
                            ELSE codePlan(planOf(j), m, d, o, w.next, stop)
             IN  IF inPlan = stop THEN planned ELSE codeRound(d, planned, inPlan, stop)
        [] OTHER -> codeRound(d, o, w.next, stop)

(* updateParityShards over [w.lo, w.hi): the old data becomes the          *)
(* difference, which is added to every parity shard.                       *)
differences(changed, d, lo, hi) ==
  [c \in DOMAIN d |->
     IF c \in changed THEN sliceXor(enc, at, lo, hi, {<<c, "new">>}, d[c]) ELSE d[c]]

updated(changed, diff, o, lo, hi) ==
  [r \in DOMAIN o |->
     FoldLeft(LAMBDA byte, c : galMulSliceXor(enc, at, lo, hi, byte, times(diff[c], <<r, c>>)),
              o[r], ascending(changed))]

-----------------------------------------------------------------------------
(* Calls.                                                                  *)

stale == {<<"stale">>}
fresh(n) == [i \in 0..(n - 1) |-> {<<i, "new">>}]

idle == [op |-> "none"]
noJob == [ins |-> 0, outs |-> 0, path |-> "nothing", buf |-> 0, rows |-> <<>>]

lostData(r) == {i \in r.lost : i < enc.D}

(* reconstruct: the rows it scans until it has found as many valid ones as *)
(* there are data shards.                                                  *)
validIndices(lost) == SubSeq(ascending((0..(Shards - 1)) \ lost), 1, enc.D)
invalidIndices(lost) ==
  ascending({i \in lost : Cardinality((0..(i - 1)) \ lost) < enc.D})

Init ==
  /\ enc \in {New(s) : s \in Settings}
  /\ at \in Positions
  /\ buffer = [b \in Buffers |-> [len |-> fullSize, coefs |-> [k \in 0..(fullSize - 1) |-> none]]]
  /\ pool = {}
  /\ tree = IF enc.caching THEN newInversionTree(enc.D, enc.P) ELSE <<>>
  /\ pc = [c \in Callers |-> "idle"]
  /\ call = [c \in Callers |-> idle]
  /\ job = [c \in Callers |-> noJob]
  /\ data = [c \in Callers |-> <<>>]
  /\ out = [c \in Callers |-> <<>>]
  /\ start = [c \in Callers |-> 0]
  /\ do = [c \in Callers |-> 0]
  /\ workers = [c \in Callers |-> {}]
  /\ calls = [c \in Callers |-> 0]

(* A call that passes its argument checks begins.  The memory of parity    *)
(* and of shards to rebuild may hold anything; Verify codes into new       *)
(* memory and EncodeIdx into memory its caller zeroed; Update starts from  *)
(* the parity of the old data.                                             *)
Begin(c, r) ==
  /\ pc[c] \in {"idle", "returned"} /\ calls[c] < MaxCalls
  /\ r.op = "reconstruct" =>
       /\ r.lost \subseteq 0..(Shards - 1) /\ Cardinality(r.lost) <= enc.P
       /\ r.lost # {} /\ (r.dataOnly => lostData(r) # {})
  /\ r.op = "update" => r.changed # {} /\ r.changed \subseteq 0..(enc.D - 1)
  /\ call' = [call EXCEPT ![c] =
       [op |-> r.op, n |-> r.n, lost |-> r.lost, dataOnly |-> r.dataOnly,
        changed |-> IF r.op = "encodeIdx" THEN 0..(enc.D - 1) ELSE r.changed,
        valid |-> validIndices(r.lost), invalid |-> invalidIndices(r.lost)]]
  /\ calls' = [calls EXCEPT ![c] = @ + 1]
  /\ pc' = [pc EXCEPT ![c] = CASE r.op = "reconstruct" -> "lookup"
                               [] r.op = "encodeIdx" -> "deliver"
                               [] OTHER -> "code"]
  /\ job' = [job EXCEPT ![c] =
       [noJob EXCEPT !.ins = enc.D,
          !.outs = IF r.op = "reconstruct" THEN Cardinality(lostData(r)) ELSE enc.P]]
  /\ data' = [data EXCEPT ![c] =
       IF r.op = "update" THEN [i \in 0..(enc.D - 1) |-> {<<i, "old">>}] ELSE fresh(enc.D)]
  /\ out' = [out EXCEPT ![c] =
       [o \in 0..(job'[c].outs - 1) |->
          CASE r.op \in {"verify", "encodeIdx"} -> {}
            [] r.op = "update" -> {<<<<i, "old">>, <<o, i>>>> : i \in 0..(enc.D - 1)}
            [] OTHER -> stale]]
  /\ UNCHANGED <<enc, at, buffer, pool, tree, start, do, workers>>

(* GetInvertedMatrix, under the read lock.                                 *)
Lookup(c) ==
  LET key == call[c].invalid
      found == GetInvertedMatrix(tree, key)
  IN  /\ pc[c] = "lookup"
      /\ pc' = [pc EXCEPT ![c] = IF ~walkable(tree, key) THEN "panicked"
                                 ELSE IF found = nil THEN "insert" ELSE "code"]
      /\ job' = [job EXCEPT ![c].rows = found]
      /\ UNCHANGED <<enc, at, buffer, pool, tree, call, data, out, start, do,
                     workers, calls>>

(* The rows are inverted and InsertInvertedMatrix takes the write lock;    *)
(* a call that looked the key up meanwhile does the same.                  *)
Insert(c) ==
  LET key == call[c].invalid
      matrix == call[c].valid
  IN  /\ pc[c] = "insert"
      /\ job' = [job EXCEPT ![c].rows = matrix]
      /\ tree' = IF enc.caching /\ key # <<>>
                 THEN insertInvertedMatrix(tree, key, matrix, Shards) ELSE tree
      /\ pc' = [pc EXCEPT ![c] = IF enc.caching /\ key = <<>> THEN "returned" ELSE "code"]
      /\ UNCHANGED <<enc, at, buffer, pool, call, data, out, start, do, workers, calls>>

-----------------------------------------------------------------------------
(* A job.                                                                  *)

held == {job[c].buf : c \in Callers}

(* The coefficients a path writes ahead, each tile's in its own stretch of *)
(* the buffer.                                                             *)
ahead(j) ==
  CASE j.path \in {"avx2", "avx2P"} -> {tile(<<0, j.ins>>, <<0, j.outs>>, 0)}
    [] j.path = "planP" -> {planOf(j)[k] : k \in DOMAIN planOf(j)}
    [] OTHER -> {}

stretch(t) == t.from..(t.from + t.ins * t.outs - 1)

written(tiles) ==
  [x \in UNION {stretch(t) : t \in tiles} |->
     LET t == CHOOSE t \in tiles : x \in stretch(t)
     IN  genAvx2Matrix(t.outIdx, t.inIdx, t.ins, t.outs)[x - t.from]]

prepared(j, coefs) == overlay(written(ahead(j)), coefs)

(* codeSomeShardsAVXP cuts each tile's coefficients off the front of the   *)
(* buffer it got: one that is shorter than the plan panics.                *)
tooShort(j, len) == j.path = "planP" /\ j.ins * j.outs > len

(* codeSomeShards and updateParityShards choose their way.                 *)
wayOf(c) ==
  IF call[c].op # "update" THEN pathOf(call[c].n, job[c].ins, job[c].outs)
  ELSE IF enc.maxGoroutines > 1 /\ call[c].n > enc.minSplitSize
  THEN "updateP" ELSE "update"

alone(way) == ~splits(way) \/ enc.maxGoroutines = 1

(* The job is set up with the buffer b, of the length len (0: with none):  *)
(* for goroutines to come, or for the caller alone.                        *)
Dispatch(c, way, b, len) ==
  LET broken == \/ splits(way) /\ enc.maxGoroutines = 0
                \/ b # 0 /\ tooShort([job[c] EXCEPT !.path = way], len)
  IN  /\ pc[c] = "code"
      /\ job' = [job EXCEPT ![c].path = way, ![c].buf = b]
      /\ pc' = [pc EXCEPT ![c] =
           IF broken THEN "panicked" ELSE IF alone(way) THEN "wait" ELSE "spawn"]
      /\ start' = [start EXCEPT ![c] = 0]
      /\ do' = [do EXCEPT ![c] =
           IF alone(way) \/ broken THEN 0 ELSE splitSize(call[c].n, way)]
      /\ workers' = [workers EXCEPT ![c] =
           IF broken \/ ~alone(way) \/ way = "nothing" THEN {}
           ELSE {[lo |-> 0, hi |-> call[c].n, next |-> 0]}]

(* With a buffer where the way needs one: from the pool as it was put      *)
(* there, or a new one.  The coefficients are written into it.             *)
Code(c) ==
  LET way == wayOf(c)
  IN  /\ IF borrows(way)
         THEN \E b \in Buffers \ held :
              \E len \in {fullSize} \cup (IF b \in pool THEN {buffer[b].len} ELSE {}) :
                 /\ Dispatch(c, way, b, len)
                 /\ buffer' = [buffer EXCEPT ![b] =
                      [len |-> len,
                       coefs |-> IF pc'[c] = "panicked" THEN @.coefs
                                 ELSE prepared(job'[c], @.coefs)]]
                 /\ pool' = pool \ {b}
         ELSE Dispatch(c, way, 0, 0) /\ UNCHANGED <<buffer, pool>>
      /\ UNCHANGED <<enc, at, tree, call, data, out, calls>>

(* Mutant: the goroutines are as long as the rounded size and begin as far *)
(* apart as the size before rounding.                                      *)
SpawnApart(c) ==
  LET size == least(do[c], call[c].n - start[c])
      apart == least(most(call[c].n \div enc.maxGoroutines, enc.minSplitSize), size)
  IN  /\ pc[c] = "spawn" /\ start[c] < call[c].n
      /\ workers' = [workers EXCEPT ![c] =
           @ \cup {[lo |-> start[c], hi |-> start[c] + size, next |-> start[c]]}]
      /\ start' = [start EXCEPT ![c] = @ + apart]
      /\ UNCHANGED <<enc, at, buffer, pool, tree, pc, call, job, data, out, do, calls>>

(* One more goroutine, the last one taking what is left.                   *)
Spawn(c) ==
  LET size == least(do[c], call[c].n - start[c])
  IN  /\ pc[c] = "spawn" /\ start[c] < call[c].n
      /\ workers' = [workers EXCEPT ![c] =
           @ \cup {[lo |-> start[c], hi |-> start[c] + size, next |-> start[c]]}]
      /\ do' = [do EXCEPT ![c] = size]
      /\ start' = [start EXCEPT ![c] = @ + size]
      /\ UNCHANGED <<enc, at, buffer, pool, tree, pc, call, job, data, out, calls>>

AllSpawned(c) ==
  /\ pc[c] = "spawn" /\ start[c] >= call[c].n
  /\ pc' = [pc EXCEPT ![c] = "wait"]
  /\ UNCHANGED <<enc, at, buffer, pool, tree, call, job, data, out, start, do,
                 workers, calls>>

allDone(c) == \A w \in workers[c] : w.next = w.hi

coefsOf(c) == IF job[c].buf = 0 THEN none ELSE buffer[job[c].buf].coefs

(* Mutant: the tiled path puts back the slice of its last tile.            *)
putBackLast(c) ==
  CASE job[c].path \in {"avx2", "avx2P"} ->
         [buffer EXCEPT ![job[c].buf].len = job[c].ins * job[c].outs]
    [] job[c].path = "tiled" ->
         [buffer EXCEPT ![job[c].buf].len =
            LET t == Last(inputsOutside(job[c].ins, job[c].outs)) IN t.ins * t.outs]
    [] OTHER -> buffer

(* What genAvx2Matrix leaves of a buffer is as long as the coefficients of *)
(* the job, and that is what goes back to the pool.                        *)
putBack(c) ==
  IF job[c].path \in {"avx2", "avx2P"}
  THEN [buffer EXCEPT ![job[c].buf].len = job[c].ins * job[c].outs] ELSE buffer

(* A worker makes one turn of its loop.                                    *)
Advance(c, w) ==
  /\ pc[c] \in {"spawn", "wait"} /\ w.next < w.hi
  /\ workers' = [workers EXCEPT ![c] =
       (@ \ {w}) \cup {[w EXCEPT !.next = turnEnd(job[c], w)]}]

(* Its turn codes a stretch.  The lone worker of the path avx2 puts its    *)
(* buffer back after the kernel, before the bytes that are left.           *)
Work(c, w) ==
  LET early == job[c].path = "avx2" /\ w.next = 0
  IN  /\ job[c].path \notin {"update", "updateP"}
      /\ Advance(c, w)
      /\ out' = [out EXCEPT ![c] = turnOut(job[c], w, coefsOf(c), data[c], @)]
      /\ pool' = IF early THEN pool \cup {job[c].buf} ELSE pool
      /\ buffer' = IF early THEN putBack(c) ELSE buffer
      /\ job' = IF early THEN [job EXCEPT ![c].buf = 0] ELSE job
      /\ UNCHANGED <<enc, at, tree, pc, call, data, start, do, calls>>

(* A worker of updateParityShards does its stretch in one turn.            *)
WorkUpdate(c, w) ==
  LET diff == differences(call[c].changed, data[c], w.lo, w.hi)
  IN  /\ job[c].path \in {"update", "updateP"}
      /\ Advance(c, w)
      /\ data' = [data EXCEPT ![c] = diff]
      /\ out' = [out EXCEPT ![c] = updated(call[c].changed, diff, @, w.lo, w.hi)]
      /\ UNCHANGED <<enc, at, buffer, pool, tree, pc, call, job, start, do, calls>>

(* The buffer goes back when every goroutine is done.  A rebuild that has  *)
(* its data goes on to the parity it lacks; any other call returns.        *)
Finish(c) ==
  LET more == job[c].rows # <<>> /\ ~call[c].dataOnly
      parity == Cardinality(call[c].lost) - Cardinality(lostData(call[c]))
  IN  /\ pc[c] = "wait" /\ allDone(c)
      /\ pool' = pool \cup ({job[c].buf} \ {0})
      /\ buffer' = IF job[c].buf = 0 THEN buffer ELSE putBack(c)
      /\ pc' = [pc EXCEPT ![c] = IF more THEN "code" ELSE "returned"]
      /\ job' = [job EXCEPT ![c] =
           IF more THEN [noJob EXCEPT !.ins = enc.D, !.outs = parity] ELSE noJob]
      /\ data' = [data EXCEPT ![c] = IF more THEN fresh(enc.D) ELSE <<>>]
      /\ out' = [out EXCEPT ![c] = IF more THEN [o \in 0..(parity - 1) |-> stale] ELSE <<>>]
      /\ call' = IF more THEN call ELSE [call EXCEPT ![c] = idle]
      /\ workers' = [workers EXCEPT ![c] = {}]
      /\ start' = [start EXCEPT ![c] = 0]
      /\ do' = [do EXCEPT ![c] = 0]
      /\ UNCHANGED <<enc, at, tree, calls>>

(* EncodeIdx of one data shard, in rounds and without goroutines; the      *)
(* caller delivers the shards one by one, in any order.                    *)
Deliver(c, idx) ==
  LET lo == roundDown(at, enc.perRound)
      hi == least(lo + enc.perRound, call[c].n)
  IN  /\ pc[c] = "deliver" /\ idx \in call[c].changed
      /\ call' = [call EXCEPT ![c].changed = @ \ {idx}]
      /\ out' = IF at >= call[c].n THEN out
                ELSE [out EXCEPT ![c] = [r \in DOMAIN @ |->
                        galMulSliceXor(enc, at, lo, hi, @[r], times(data[c][idx], <<r, idx>>))]]
      /\ pc' = [pc EXCEPT ![c] = IF call[c].changed = {idx} THEN "wait" ELSE "deliver"]
      /\ UNCHANGED <<enc, at, buffer, pool, tree, job, data, start, do, workers, calls>>

-----------------------------------------------------------------------------
Step(c) ==
  Lookup(c) \/ Insert(c) \/ Code(c) \/ Spawn(c) \/ AllSpawned(c) \/ Finish(c)

Next ==
  \E c \in Callers :
     \/ \E r \in Requests(c, enc) : Begin(c, r)
     \/ \E idx \in 0..(enc.D - 1) : Deliver(c, idx)
     \/ Step(c)
     \/ \E w \in workers[c] : Work(c, w) \/ WorkUpdate(c, w)

(* The Go scheduler lets every goroutine run, the caller's own and the     *)
(* ones of its call; a caller need not call.  Dispatch and Advance are the *)
(* control of Code and of Work.                                            *)
Fairness ==
  \A c \in Callers :
     /\ WF_vars(Lookup(c) \/ Insert(c) \/ Spawn(c) \/ AllSpawned(c) \/ Finish(c))
     /\ WF_pc(\E b \in Buffers \cup {0} : Dispatch(c, wayOf(c), b, fullSize))
     /\ WF_workers(\E w \in workers[c] : Advance(c, w))

Spec == Init /\ [][Next]_vars /\ Fairness

-----------------------------------------------------------------------------
TypeOK ==
  /\ pool \subseteq Buffers /\ pool \cap held = {}
  /\ \A b \in Buffers : buffer[b].len \in 1..fullSize
                        /\ DOMAIN buffer[b].coefs = 0..(fullSize - 1)
  /\ \A c \in Callers :
       /\ pc[c] \in {"idle", "lookup", "insert", "code", "spawn", "wait",
                     "deliver", "returned", "panicked"}
       /\ job[c].buf \in Buffers \cup {0}
       /\ \A w \in workers[c] : 0 <= w.lo /\ w.lo <= w.next /\ w.next <= w.hi
                                /\ w.hi <= call[c].n
       /\ start[c] \in Nat /\ do[c] \in Nat /\ calls[c] \in 0..MaxCalls

(* When the last goroutine of a job is done, the byte followed holds every *)
(* term of every output exactly once, whichever kernels, tiles, rounds and *)
(* goroutines made it and whatever the other callers did to the pool.      *)
rightByte(c, o) ==
  {<<<<i, IF call[c].op = "update" /\ i \notin call[c].changed THEN "old" ELSE "new">>,
     <<o, i>>>> : i \in 0..(enc.D - 1)}

CodedOnce ==
  \A c \in Callers :
     pc[c] = "wait" /\ allDone(c) /\ at < call[c].n =>
        \A o \in DOMAIN out[c] : out[c][o] = rightByte(c, o)

(* No two goroutines of a call share a byte, so none of them races; and    *)
(* once all of them run, the end of each is the beginning of another or    *)
(* the end of the shard: no byte is left out.                              *)
RangesDisjoint ==
  \A c \in Callers : \A v, w \in workers[c] :
     v # w => v.hi <= w.lo \/ w.hi <= v.lo

RangesCover ==
  \A c \in Callers :
     pc[c] = "wait" /\ workers[c] # {} =>
        {w.lo : w \in workers[c]} \cup {call[c].n} = {w.hi : w \in workers[c]} \cup {0}

RangesPartition == RangesDisjoint /\ RangesCover

(* "You can reuse this encoder": no call panics, neither on a buffer that  *)
(* an earlier call put back nor on an index into the tree nor by dividing  *)
(* by no goroutines.                                                       *)
Reusable == \A c \in Callers : pc[c] # "panicked"

(* The matrix a rebuild decodes with, cached by whichever call, inverts    *)
(* the very rows of the shards that this call has.                         *)
RowsMatch ==
  \A c \in Callers :
     job[c].rows # <<>> => job[c].rows = call[c].valid

(* The tree is a cache: see InversionCache.                                *)
Cache == INSTANCE InversionCache
           WITH cache <- cached(tree),
                geometry <- [dataShards |-> enc.D, shards |-> Shards,
                             caching |-> enc.caching]
CacheSpec == Cache!Spec

(* A call that has begun returns.                                          *)
CallsReturn ==
  \A c \in Callers :
     pc[c] \in {"lookup", "insert", "code", "spawn", "wait"} ~> pc[c] = "returned"
=============================================================================
