---------------------------- MODULE CoderProofs -----------------------------
(***************************************************************************)
(* What holds of the shared encoder for every geometry, machine, set of    *)
(* options, size of shard, number of callers and sequence of calls.        *)
(*                                                                         *)
(* The goroutines of every call divide its bytes among them: none shares a *)
(* byte with another, none is left out.  The pool never holds a buffer     *)
(* that is in use, and no buffer grows or vanishes.  The tree of inverted  *)
(* matrices implements InversionCache, and a rebuild decodes with the      *)
(* inverse of the rows it has.  No call panics, on an encoder whose        *)
(* kernels make all its parity at once or do not take all its data.        *)
(***************************************************************************)
EXTENDS Coder, InductionProofs, SequenceTheorems, TLAPS

-----------------------------------------------------------------------------
(* Sizes.                                                                  *)

LEMMA Quotient ==
  ASSUME NEW a \in Nat, NEW b \in Nat \ {0}
  PROVE  a \div b \in Nat
  OBVIOUS

LEMMA LeastMost ==
  ASSUME NEW a \in Int, NEW b \in Int
  PROVE  /\ least(a, b) \in {a, b} /\ least(a, b) <= a /\ least(a, b) <= b
         /\ most(a, b) \in {a, b} /\ a <= most(a, b) /\ b <= most(a, b)
  BY DEF least, most

LEMMA RoundedUp ==
  ASSUME NEW n \in Nat
  PROVE  roundUp(n) \in Nat /\ n <= roundUp(n)
  BY DEF roundUp

(* The options and the machine give an encoder that has goroutines, and    *)
(* rounds and splits of a byte or more.                                    *)
LEMMA NewType ==
  ASSUME NEW s \in Settings
  PROVE  /\ New(s).maxGoroutines \in Nat \ {0} /\ New(s).minSplitSize \in Nat \ {0}
         /\ New(s).perRound \in Nat \ {0}
<1> DEFINE split == minSplitSize(s)
           round == perRound(s)
           a == auto(s, round, split)
<1>1. /\ s.P \in Nat \ {0} /\ s.D \in Nat \ {0}
      /\ s.maxGoroutines \in Nat /\ s.minSplitSize \in Nat /\ s.shardSize \in Nat
      /\ s.procs \in Nat \ {0} /\ s.L1D \in Int /\ s.L2 \in Int
      /\ s.threadsPerCore \in Int /\ s.physicalCores \in Int
  BY SettingsAssumption
<1>2. maxGoroutines(s) \in Nat \ {0}
  BY <1>1 DEF maxGoroutines, defaultMaxGoroutines
<1>3. split \in Nat \ {0}
  <2> DEFINE cache == IF s.L1D <= 0 THEN 32 * 1024 ELSE s.L1D
  <2>1. cache \in Nat /\ s.P + 1 \in Nat \ {0}
    BY <1>1
  <2>2. cache \div (s.P + 1) \in Nat
    <3> HIDE DEF cache
    <3> QED BY <2>1, Quotient
  <2>3. most(1024, cache \div (s.P + 1)) \in Nat \ {0}
    <3> DEFINE share == cache \div (s.P + 1)
    <3> HIDE DEF share
    <3> QED BY <2>2 DEF most, share
  <2> QED BY <1>1, <2>3 DEF minSplitSize
<1>4. round \in Nat \ {0}
  <2> DEFINE tiled == s.avx2 /\ (s.D > maxAvx2Inputs \/ s.P > maxAvx2Outputs)
             size == IF tiled THEN s.L1D ELSE s.L2
             divide == IF tiled THEN least(s.D, maxAvx2Inputs) + least(s.P, maxAvx2Outputs)
                       ELSE s.P + 1
             detected == IF size <= 0 THEN 128 * 1024 ELSE size
             shared == IF s.threadsPerCore > 1 /\ maxGoroutines(s) > s.physicalCores
                       THEN detected \div s.threadsPerCore ELSE detected
  <2>1. size \in Int
    BY <1>1
  <2>2. detected \in Nat
    <3> HIDE DEF size
    <3> QED BY <2>1
  <2>3. shared \in Nat
    <3> HIDE DEF detected
    <3> QED BY <1>1, <2>2, Quotient
  <2>4. divide \in Nat \ {0}
    BY <1>1, LeastMost DEF maxAvx2Inputs, maxAvx2Outputs
  <2>5. shared \div divide \in Nat
    <3> HIDE DEF shared, divide
    <3> QED BY <2>3, <2>4, Quotient
  <2>6. round = roundUp(shared \div divide)
    BY DEF perRound
  <2> HIDE DEF shared, divide
  <2> QED BY <2>5, <2>6, RoundedUp, CachesAssumption
<1>5. a.g \in Nat \ {0} /\ a.round \in Nat \ {0}
  <2> DEFINE g == s.shardSize \div round
             over == g < s.procs * 2 /\ round > split * 2
             up == (IF over THEN s.procs * 2 ELSE g) + s.procs - 1
  <2>1. g \in Nat
    BY <1>1, <1>4, Quotient
  <2>2. ~(s.shardSize <= split * 2) => up \in Nat /\ up >= s.procs
    <3>1. CASE over
      <4> HIDE DEF g, round, split
      <4> QED BY <1>1, <2>1, <3>1
    <3>2. CASE ~over /\ ~(s.shardSize <= split * 2)
      <4>1. g >= 1
        <5>1. CASE round <= split * 2
          <6>1. s.shardSize >= round /\ s.shardSize \in Nat
            <7> HIDE DEF round, split
            <7> QED BY <1>1, <1>3, <1>4, <3>2, <5>1
          <6>2. s.shardSize \div round >= 1
            <7> HIDE DEF round
            <7> QED BY <1>4, <6>1
          <6> QED BY <6>2
        <5>2. CASE g >= s.procs * 2
          <6> HIDE DEF g
          <6> QED BY <1>1, <2>1, <5>2
        <5> HIDE DEF g, round, split
        <5> QED BY <1>1, <1>3, <1>4, <2>1, <3>2, <5>1, <5>2
      <4>2. up = g + s.procs - 1
        BY <3>2
      <4> HIDE DEF g, up
      <4> QED BY <1>1, <2>1, <4>1, <4>2
    <3> QED BY <3>1, <3>2
  <2>3. up \in Nat /\ up >= s.procs => up - (up % s.procs) \in Nat \ {0}
    <3> HIDE DEF up
    <3> QED BY <1>1
  <2>4. \/ a.g = maxGoroutines(s) \/ a.g = 1
        \/ a.g = up - (up % s.procs) /\ ~(s.shardSize <= split * 2)
    BY DEF auto
  <2>5. a.round = round \/ (round > split * 2 /\ a.round = round \div 2)
    BY DEF auto
  <2>6. round > split * 2 => round \div 2 \in Nat \ {0}
    <3> HIDE DEF round, split
    <3> QED BY <1>3, <1>4
  <2> HIDE DEF a, up, split, round
  <2> QED BY <1>2, <1>4, <2>2, <2>3, <2>4, <2>5, <2>6
<1>6. /\ New(s).minSplitSize = split /\ New(s).perRound = a.round
      /\ New(s).maxGoroutines \in {least(a.g, avx2CodeGenMaxGoroutines), a.g}
  BY DEF New
<1>7. least(a.g, avx2CodeGenMaxGoroutines) \in Nat \ {0}
  <2> HIDE DEF a
  <2> QED BY <1>5, LeastMost DEF avx2CodeGenMaxGoroutines
<1> HIDE DEF split, a
<1> QED BY <1>3, <1>5, <1>6, <1>7

LEMMA SplitType ==
  ASSUME enc \in {New(s) : s \in Settings}, NEW n \in Nat, NEW way
  PROVE  splitSize(n, way) \in Nat
<1>1. PICK s \in Settings : enc = New(s)
  OBVIOUS
<1>2. enc.maxGoroutines \in Nat \ {0} /\ enc.minSplitSize \in Nat
  BY <1>1, NewType
<1>3. n \div enc.maxGoroutines \in Nat
  BY <1>2, Quotient
<1>4. most(n \div enc.maxGoroutines, enc.minSplitSize) \in Nat
  BY <1>2, <1>3, LeastMost
<1> QED BY <1>4, RoundedUp DEF splitSize

-----------------------------------------------------------------------------
(* The inductive invariant.                                                *)

busy == {"lookup", "insert", "code", "spawn", "wait", "deliver"}

(* What a goroutine is, and what a caller that starts them has divided up  *)
(* so far: the bytes before start.                                         *)
Ranges(c) ==
  /\ \A w \in workers[c] :
       /\ {"lo", "hi", "next"} \subseteq DOMAIN w
       /\ w.lo \in Nat /\ w.hi \in Nat /\ w.lo <= w.hi
  /\ \A v, w \in workers[c] : v # w => v.hi <= w.lo \/ w.hi <= v.lo

Divided(c) ==
  /\ start[c] \in Nat /\ do[c] \in Nat /\ start[c] <= call[c].n
  /\ \A w \in workers[c] : w.hi <= start[c]
  /\ {w.lo : w \in workers[c]} \cup {start[c]} = {w.hi : w \in workers[c]} \cup {0}

Covered(c) ==
  workers[c] # {} =>
    {w.lo : w \in workers[c]} \cup {call[c].n} = {w.hi : w \in workers[c]} \cup {0}

Caller(c) ==
  /\ pc[c] \in busy => "n" \in DOMAIN call[c] /\ call[c].n \in Nat \ {0}
  /\ pc[c] \notin {"spawn", "wait"} => workers[c] = {}
  /\ Ranges(c)
  /\ pc[c] = "spawn" => Divided(c)
  /\ pc[c] = "wait" => Covered(c)

Domains ==
  /\ DOMAIN pc = Callers /\ DOMAIN call = Callers /\ DOMAIN workers = Callers
  /\ DOMAIN start = Callers /\ DOMAIN do = Callers

RangesInv ==
  /\ enc \in {New(s) : s \in Settings}
  /\ Domains
  /\ \A c \in Callers : Caller(c)

mine(c) == <<pc[c], call[c], workers[c], start[c], do[c]>>

LEMMA RangesInit == Init => RangesInv
  BY DEF Init, RangesInv, Domains, Caller, Ranges, busy, idle

(* A step of one caller leaves what the others have divided.               *)
LEMMA OthersKeep ==
  ASSUME RangesInv, enc' = enc, NEW c \in Callers, Caller(c)', Domains',
         \A d \in Callers \ {c} : mine(d)' = mine(d)
  PROVE  RangesInv'
<1>1. ASSUME NEW d \in Callers \ {c} PROVE Caller(d)'
  <2>1. Caller(d)
    BY DEF RangesInv
  <2>2. /\ pc'[d] = pc[d] /\ call'[d] = call[d] /\ workers'[d] = workers[d]
        /\ start'[d] = start[d] /\ do'[d] = do[d]
    BY DEF mine
  <2> QED BY <2>1, <2>2 DEF Caller, Ranges, Divided, Covered
<1> QED BY <1>1 DEF RangesInv

LEMMA RangesBegin ==
  ASSUME RangesInv, NEW c \in Callers, NEW r \in Requests(c, enc), Begin(c, r)
  PROVE  RangesInv'
<1> USE DEF RangesInv, Domains
<1>1. r \in Call
  BY CallsAssumption
<1>2. "n" \in DOMAIN call'[c] /\ call'[c].n = r.n
  BY <1>1 DEF Begin, Call
<1>3. workers[c] = {} /\ workers' = workers
  BY DEF Begin, Caller
<1>4. pc'[c] \in {"lookup", "deliver", "code"}
  BY DEF Begin
<1>5. Caller(c)'
  BY <1>1, <1>2, <1>3, <1>4 DEF Caller, Ranges, Call
<1>6. \A d \in Callers \ {c} : mine(d)' = mine(d)
  BY DEF Begin, mine
<1>7. Domains' /\ enc' = enc
  BY DEF Begin
<1> QED BY <1>5, <1>6, <1>7, OthersKeep

(* Lookup, Insert and Deliver only move on.                                *)
LEMMA RangesOn ==
  ASSUME RangesInv, NEW c \in Callers, enc' = enc,
         pc[c] \in {"lookup", "insert", "deliver"},
         NEW there \in busy \cup {"panicked", "returned"}, there # "spawn",
         pc' = [pc EXCEPT ![c] = there],
         \/ call' = call
         \/ \E x : call' = [call EXCEPT ![c].changed = x],
         workers' = workers, start' = start, do' = do
  PROVE  RangesInv'
<1> USE DEF RangesInv, Domains
<1>1. workers[c] = {} /\ "n" \in DOMAIN call[c] /\ call[c].n \in Nat \ {0}
  BY DEF Caller, busy
<1>2. "n" \in DOMAIN call'[c] /\ call'[c].n \in Nat \ {0}
  BY <1>1
<1>3. Caller(c)'
  BY <1>1, <1>2 DEF Caller, Ranges, Covered
<1>4. \A d \in Callers \ {c} : mine(d)' = mine(d)
  BY DEF mine
<1> QED BY <1>3, <1>4, OthersKeep

LEMMA RangesDispatch ==
  ASSUME RangesInv, NEW c \in Callers, NEW way, NEW b, NEW len,
         Dispatch(c, way, b, len), enc' = enc, call' = call
  PROVE  RangesInv'
<1> USE DEF RangesInv, Domains
<1> DEFINE n == call[c].n
           broken == \/ splits(way) /\ enc.maxGoroutines = 0
                     \/ b # 0 /\ tooShort([job[c] EXCEPT !.path = way], len)
<1>1. "n" \in DOMAIN call[c] /\ n \in Nat \ {0}
  BY DEF Dispatch, Caller, busy
<1>2. ASSUME broken PROVE Caller(c)'
  <2>1. pc'[c] = "panicked" /\ workers'[c] = {}
    BY <1>2 DEF Dispatch
  <2>2. Ranges(c)'
    BY ONLY <2>1 DEF Ranges
  <2> QED BY ONLY <2>1, <2>2 DEF Caller, busy
<1>3. ASSUME ~broken, alone(way) PROVE Caller(c)'
  <2>1. pc'[c] = "wait"
    BY <1>3 DEF Dispatch
  <2> DEFINE w0 == [lo |-> 0, hi |-> n, next |-> 0]
  <2>2. workers'[c] \in {{}, {w0}}
    BY <1>3 DEF Dispatch
  <2>3. {"lo", "hi", "next"} \subseteq DOMAIN w0 /\ w0.lo = 0 /\ w0.hi = n
    OBVIOUS
  <2>4. call'[c] = call[c]
    OBVIOUS
  <2> HIDE DEF broken, w0
  <2>5. Ranges(c)'
    BY <1>1, <2>2, <2>3 DEF Ranges
  <2>6. Covered(c)'
    BY <1>1, <2>2, <2>3, <2>4 DEF Covered
  <2> QED BY ONLY <1>1, <2>1, <2>4, <2>5, <2>6 DEF Caller
<1>4. ASSUME ~broken, ~alone(way) PROVE Caller(c)'
  <2>1. /\ pc'[c] = "spawn" /\ workers'[c] = {} /\ start'[c] = 0
        /\ do'[c] = splitSize(n, way)
    BY <1>4 DEF Dispatch
  <2>3. splitSize(n, way) \in Nat
    BY <1>1, SplitType
  <2>4. Ranges(c)'
    BY <2>1 DEF Ranges
  <2>5. Divided(c)'
    BY <1>1, <2>1, <2>3 DEF Divided
  <2>6. call'[c] = call[c]
    OBVIOUS
  <2> QED BY ONLY <1>1, <2>1, <2>4, <2>5, <2>6 DEF Caller
<1>5. \A d \in Callers \ {c} : mine(d)' = mine(d)
  BY DEF Dispatch, mine
<1>6. Domains'
  BY DEF Dispatch
<1>7. Caller(c)'
  <2> HIDE DEF broken
  <2> QED BY <1>2, <1>3, <1>4
<1> QED BY <1>5, <1>6, <1>7, OthersKeep

LEMMA RangesSpawn ==
  ASSUME RangesInv, NEW c \in Callers, Spawn(c)
  PROVE  RangesInv'
<1> USE DEF RangesInv, Domains
<1> DEFINE size == least(do[c], call[c].n - start[c])
           w0 == [lo |-> start[c], hi |-> start[c] + size, next |-> start[c]]
<1>1. /\ Ranges(c) /\ Divided(c)
      /\ "n" \in DOMAIN call[c] /\ call[c].n \in Nat \ {0}
  BY DEF Spawn, Caller, busy
<1>2. size \in Nat /\ start[c] + size <= call[c].n
  BY <1>1, LeastMost DEF Spawn, Divided
<1>3. /\ workers'[c] = workers[c] \cup {w0}
      /\ start'[c] = start[c] + size /\ do'[c] = size
      /\ pc' = pc /\ call' = call /\ pc[c] = "spawn"
  BY DEF Spawn
<1>4. Ranges(c)'
  <2>1. {"lo", "hi", "next"} \subseteq DOMAIN w0 /\ w0.lo = start[c] /\ w0.hi = start[c] + size
    OBVIOUS
  <2> HIDE DEF size, w0
  <2> QED BY <1>1, <1>2, <1>3, <2>1 DEF Ranges, Divided
<1>5. Divided(c)'
  <2>0. w0.lo = start[c] /\ w0.hi = start'[c]
    BY <1>3
  <2>1. {w.lo : w \in workers'[c]} = {w.lo : w \in workers[c]} \cup {start[c]}
    <3> HIDE DEF size, w0
    <3> QED BY <1>3, <2>0
  <2>2. {w.hi : w \in workers'[c]} = {w.hi : w \in workers[c]} \cup {start'[c]}
    <3> HIDE DEF size, w0
    <3> QED BY <1>3, <2>0
  <2>3. {w.lo : w \in workers'[c]} \cup {start'[c]} = {w.hi : w \in workers'[c]} \cup {0}
    BY <1>1, <2>1, <2>2 DEF Divided
  <2>4. \A w \in workers'[c] : w.hi <= start'[c]
    <3> HIDE DEF size, w0
    <3> QED BY <1>1, <1>2, <1>3, <2>0 DEF Divided, Ranges
  <2>5. start'[c] \in Nat /\ do'[c] \in Nat /\ start'[c] <= call'[c].n
    <3> HIDE DEF size
    <3> QED BY <1>1, <1>2, <1>3 DEF Divided
  <2> QED BY ONLY <2>3, <2>4, <2>5 DEF Divided
<1>6. Caller(c)'
  BY <1>1, <1>3, <1>4, <1>5 DEF Caller
<1>7. \A d \in Callers \ {c} : mine(d)' = mine(d)
  BY DEF Spawn, mine
<1>8. Domains' /\ enc' = enc
  BY DEF Spawn
<1> QED BY <1>6, <1>7, <1>8, OthersKeep

LEMMA RangesAllSpawned ==
  ASSUME RangesInv, NEW c \in Callers, AllSpawned(c)
  PROVE  RangesInv'
<1> USE DEF RangesInv, Domains
<1>1. /\ Ranges(c) /\ Divided(c)
      /\ "n" \in DOMAIN call[c] /\ call[c].n \in Nat \ {0}
  BY DEF AllSpawned, Caller, busy
<1>2. start[c] = call[c].n
  BY <1>1 DEF AllSpawned, Divided
<1>3. pc'[c] = "wait" /\ workers' = workers /\ call' = call
  BY DEF AllSpawned
<1>4. Caller(c)'
  BY <1>1, <1>2, <1>3 DEF Caller, Ranges, Divided, Covered
<1>5. \A d \in Callers \ {c} : mine(d)' = mine(d)
  BY DEF AllSpawned, mine
<1>6. Domains' /\ enc' = enc
  BY DEF AllSpawned
<1> QED BY <1>4, <1>5, <1>6, OthersKeep

(* A turn of a goroutine moves it in its own range.                        *)
LEMMA RangesAdvance ==
  ASSUME RangesInv, NEW c \in Callers, NEW w \in workers[c], Advance(c, w),
         UNCHANGED <<enc, pc, call, start, do>>
  PROVE  RangesInv'
<1> USE DEF RangesInv, Domains
<1> DEFINE v == [w EXCEPT !.next = turnEnd(job[c], w)]
<1>1. Caller(c) /\ Ranges(c) /\ pc[c] \in {"spawn", "wait"}
  BY DEF Caller, Advance
<1>2. {"lo", "hi", "next"} \subseteq DOMAIN v /\ v.lo = w.lo /\ v.hi = w.hi
  BY <1>1 DEF Ranges
<1>3. workers'[c] = (workers[c] \ {w}) \cup {v}
  BY DEF Advance
<1> HIDE DEF v
<1>4. /\ {u.lo : u \in workers'[c]} = {u.lo : u \in workers[c]}
      /\ {u.hi : u \in workers'[c]} = {u.hi : u \in workers[c]}
      /\ workers[c] # {}
  BY <1>2, <1>3
<1>5. Ranges(c)'
  BY <1>1, <1>2, <1>3 DEF Ranges
<1>6. pc[c] = "spawn" => Divided(c)'
  BY <1>1, <1>2, <1>3, <1>4 DEF Caller, Divided
<1>7. pc[c] = "wait" => Covered(c)'
  BY <1>1, <1>4 DEF Caller, Covered
<1>8. Caller(c)'
  BY <1>1, <1>5, <1>6, <1>7 DEF Caller
<1>9. \A d \in Callers \ {c} : mine(d)' = mine(d)
  BY DEF Advance, mine
<1>10. Domains'
  BY DEF Advance
<1> QED BY <1>8, <1>9, <1>10, OthersKeep

LEMMA RangesFinish ==
  ASSUME RangesInv, NEW c \in Callers, Finish(c)
  PROVE  RangesInv'
<1> USE DEF RangesInv, Domains
<1> DEFINE more == job[c].rows # <<>> /\ ~call[c].dataOnly
<1>1. "n" \in DOMAIN call[c] /\ call[c].n \in Nat \ {0}
  BY DEF Finish, Caller, busy
<1>2. /\ pc'[c] = IF more THEN "code" ELSE "returned"
      /\ call' = IF more THEN call ELSE [call EXCEPT ![c] = idle]
      /\ workers'[c] = {}
  BY DEF Finish
<1>3. Caller(c)'
  <2> HIDE DEF more
  <2> QED BY <1>1, <1>2 DEF Caller, Ranges, busy
<1>4. \A d \in Callers \ {c} : mine(d)' = mine(d)
  <2> HIDE DEF more
  <2> QED BY DEF Finish, mine
<1>5. Domains' /\ enc' = enc
  BY DEF Finish
<1> QED BY <1>3, <1>4, <1>5, OthersKeep

LEMMA RangesStep ==
  ASSUME RangesInv, [Next]_vars
  PROVE  RangesInv'
<1>1. CASE UNCHANGED vars
  BY <1>1 DEF vars, RangesInv, Domains, Caller, Ranges, Divided, Covered
<1>2. ASSUME NEW c \in Callers, NEW r \in Requests(c, enc), Begin(c, r)
      PROVE  RangesInv'
  BY <1>2, RangesBegin
<1>3. ASSUME NEW c \in Callers, Lookup(c) PROVE RangesInv'
  <2>1. PICK there \in {"panicked", "insert", "code"} : pc' = [pc EXCEPT ![c] = there]
    BY <1>3 DEF Lookup
  <2> QED BY <1>3, <2>1, RangesOn DEF Lookup, busy
<1>4. ASSUME NEW c \in Callers, Insert(c) PROVE RangesInv'
  <2>1. PICK there \in {"returned", "code"} : pc' = [pc EXCEPT ![c] = there]
    BY <1>4 DEF Insert
  <2> QED BY <1>4, <2>1, RangesOn DEF Insert, busy
<1>5. ASSUME NEW c \in Callers, NEW idx \in 0..(enc.D - 1), Deliver(c, idx)
      PROVE  RangesInv'
  <2>1. PICK there \in {"wait", "deliver"} : pc' = [pc EXCEPT ![c] = there]
    BY <1>5 DEF Deliver
  <2> QED BY <1>5, <2>1, RangesOn DEF Deliver, busy
<1>6. ASSUME NEW c \in Callers, Code(c) PROVE RangesInv'
  <2>1. PICK b, len : Dispatch(c, wayOf(c), b, len)
    BY <1>6 DEF Code
  <2>2. enc' = enc /\ call' = call
    BY <1>6 DEF Code
  <2> QED BY <2>1, <2>2, RangesDispatch
<1>7. ASSUME NEW c \in Callers, Spawn(c) PROVE RangesInv'
  BY <1>7, RangesSpawn
<1>8. ASSUME NEW c \in Callers, AllSpawned(c) PROVE RangesInv'
  BY <1>8, RangesAllSpawned
<1>9. ASSUME NEW c \in Callers, Finish(c) PROVE RangesInv'
  BY <1>9, RangesFinish
<1>10. ASSUME NEW c \in Callers, NEW w \in workers[c], Work(c, w) PROVE RangesInv'
  BY <1>10, RangesAdvance DEF Work
<1>11. ASSUME NEW c \in Callers, NEW w \in workers[c], WorkUpdate(c, w) PROVE RangesInv'
  BY <1>11, RangesAdvance DEF WorkUpdate
<1> QED BY <1>1, <1>2, <1>3, <1>4, <1>5, <1>6, <1>7, <1>8, <1>9, <1>10, <1>11
        DEF Next, Step

(* The bytes of a call are divided among its goroutines without overlap    *)
(* and without a gap (codeSomeShardsP, codeSomeShardsAvx512P,              *)
(* codeSomeShardsAVXP and updateParityShardsP).                            *)
THEOREM GoroutinesPartition == Spec => []RangesPartition
<1>1. RangesInv => RangesPartition
  BY DEF RangesInv, Caller, Ranges, Covered, RangesPartition, RangesDisjoint, RangesCover
<1> QED BY RangesInit, RangesStep, <1>1, PTL DEF Spec

-----------------------------------------------------------------------------
(* Numbers in ascending order.                                             *)

rank(S, i) == Cardinality({j \in S : j < i})

LEMMA RankLess ==
  ASSUME NEW S \in SUBSET Int, IsFiniteSet(S), NEW i \in S, NEW k \in Int, i < k
  PROVE  rank(S, i) \in Nat /\ rank(S, k) \in Nat /\ rank(S, i) < rank(S, k)
<1> DEFINE below(x) == {j \in S : j < x}
<1>1. IsFiniteSet(below(k)) /\ IsFiniteSet(below(i))
  BY FS_Subset
<1>2. below(i) \in SUBSET below(k) /\ i \in below(k) /\ i \notin below(i)
  <2>1. \A j \in S : j \in Int
    OBVIOUS
  <2>2. \A j \in S : j < i => j < k
    BY <2>1
  <2>3. ~(i < i)
    BY <2>1
  <2> QED BY <2>2, <2>3
<1>3. /\ Cardinality(below(i)) \in Nat /\ Cardinality(below(k)) \in Nat
      /\ Cardinality(below(i)) <= Cardinality(below(k))
      /\ Cardinality(below(k)) = Cardinality(below(i)) => below(k) = below(i)
  <2> HIDE DEF below
  <2> QED BY <1>1, <1>2, FS_Subset, FS_CardinalityType
<1> QED BY <1>2, <1>3 DEF rank

LEMMA RankOnto ==
  ASSUME NEW S \in SUBSET Int, IsFiniteSet(S)
  PROVE  /\ Cardinality(S) \in Nat
         /\ \A i \in S : rank(S, i) \in 0..(Cardinality(S) - 1)
         /\ \A n \in 0..(Cardinality(S) - 1) : \E i \in S : rank(S, i) = n
<1> DEFINE n == Cardinality(S)
           T == 0..(n - 1)
           f == [i \in S |-> rank(S, i)]
<1>1. n \in Nat
  BY FS_CardinalityType
<1>2. ASSUME NEW i \in S PROVE rank(S, i) \in T
  <2> DEFINE b == {j \in S : j < i}
  <2>1. b \in SUBSET S /\ i \in S /\ i \notin b
    OBVIOUS
  <2>2. /\ Cardinality(b) \in Nat /\ Cardinality(b) <= Cardinality(S)
        /\ Cardinality(S) = Cardinality(b) => S = b
    <3> HIDE DEF b
    <3> QED BY <2>1, FS_Subset, FS_CardinalityType
  <2> QED BY <1>1, <2>1, <2>2 DEF rank
<1>3. f \in Injection(S, T)
  <2>1. f \in [S -> T]
    BY <1>2
  <2>2. ASSUME NEW i \in S, NEW k \in S, rank(S, i) = rank(S, k) PROVE i = k
    <3>1. CASE i < k
      BY <2>2, <3>1, RankLess
    <3>2. CASE k < i
      BY <2>2, <3>2, RankLess
    <3> QED BY <3>1, <3>2
  <2> QED BY <2>1, <2>2 DEF Injection, IsInjective
<1>4. IsFiniteSet(T) /\ Cardinality(T) = n
  BY <1>1, FS_Interval
<1>5. f \in Surjection(S, T)
  <2> HIDE DEF f, T, n
  <2> QED BY <1>3, <1>4, FS_Injection DEF n
<1>6. \A m \in T : \E i \in S : f[i] = m
  BY <1>5 DEF Surjection
<1> QED BY <1>1, <1>2, <1>6

(* Equal ranks are equal numbers.                                          *)
LEMMA RankOne ==
  ASSUME NEW S \in SUBSET Int, IsFiniteSet(S), NEW i \in S, NEW k \in S,
         rank(S, i) = rank(S, k)
  PROVE  i = k
<1>1. CASE i < k
  BY <1>1, RankLess
<1>2. CASE k < i
  BY <1>2, RankLess
<1> QED BY <1>1, <1>2

LEMMA SequenceOf ==
  ASSUME NEW S, NEW n \in Nat, NEW f \in [1..n -> S]
  PROVE  f \in Seq(S) /\ Len(f) = n
<1>1. f \in Seq(S)
  BY SeqDef
<1> QED BY <1>1, LenProperties

LEMMA Ascends ==
  ASSUME NEW S \in SUBSET Int, IsFiniteSet(S)
  PROVE  /\ Cardinality(S) \in Nat
         /\ ascending(S) \in [1..Cardinality(S) -> S]
         /\ ascending(S) \in Seq(S) /\ Len(ascending(S)) = Cardinality(S)
         /\ \A k \in 1..Cardinality(S) : rank(S, ascending(S)[k]) = k - 1
         /\ \A k, l \in 1..Cardinality(S) : k < l => ascending(S)[k] < ascending(S)[l]
         /\ \A i \in S : \E k \in 1..Cardinality(S) : ascending(S)[k] = i
<1> DEFINE n == Cardinality(S)
           a == ascending(S)
<1>1. n \in Nat
  BY FS_CardinalityType
<1>2. a = [k \in 1..n |-> CHOOSE i \in S : rank(S, i) = k - 1]
  BY DEF ascending, rank
<1>3. \A k \in 1..n : \E i \in S : rank(S, i) = k - 1
  <2>1. \A k \in 1..n : k - 1 \in 0..(n - 1)
    BY <1>1
  <2> QED BY <2>1, RankOnto
<1>4. \A k \in 1..n : a[k] \in S /\ rank(S, a[k]) = k - 1
  <2> HIDE DEF a, n
  <2> QED BY <1>2, <1>3
<1>5. a \in [1..n -> S]
  <2> HIDE DEF a, n
  <2> QED BY <1>2, <1>4
<1>6. ASSUME NEW k \in 1..n, NEW l \in 1..n, k < l PROVE a[k] < a[l]
  <2>1. a[k] \in S /\ a[l] \in S /\ rank(S, a[k]) = k - 1 /\ rank(S, a[l]) = l - 1
    BY <1>4
  <2>2. CASE a[k] = a[l]
    BY <2>1, <2>2, <1>6, <1>1
  <2>3. CASE a[l] < a[k]
    <3>1. rank(S, a[l]) < rank(S, a[k])
      BY <2>1, <2>3, RankLess
    <3> QED BY <2>1, <3>1, <1>6, <1>1
  <2>4. a[k] \in Int /\ a[l] \in Int
    BY <2>1
  <2> HIDE DEF a
  <2> QED BY <2>2, <2>3, <2>4
<1>7. ASSUME NEW i \in S PROVE \E k \in 1..n : a[k] = i
  <2>1. rank(S, i) \in 0..(n - 1)
    BY RankOnto
  <2>2. rank(S, i) + 1 \in 1..n
    BY <1>1, <2>1
  <2>3. /\ a[rank(S, i) + 1] \in S
        /\ rank(S, a[rank(S, i) + 1]) = rank(S, i)
    BY <1>4, <2>1, <2>2
  <2>4. a[rank(S, i) + 1] = i
    <3> DEFINE b == a[rank(S, i) + 1]
    <3>1. b \in S /\ rank(S, b) = rank(S, i)
      BY <2>3
    <3> HIDE DEF b
    <3>2. b = i
      BY <3>1, RankOne
    <3> QED BY <3>2 DEF b
  <2> HIDE DEF a, n
  <2> QED BY <2>2, <2>4
<1>8. a \in Seq(S) /\ Len(a) = n
  <2> HIDE DEF a, n
  <2> QED BY <1>1, <1>5, SequenceOf
<1> QED BY <1>1, <1>4, <1>5, <1>6, <1>7, <1>8

-----------------------------------------------------------------------------
(* The rows a rebuild has, and the ones it looks its matrix up by.         *)

EncOK == enc \in {New(s) : s \in Settings}

rows == 0..(Shards - 1)
CanRebuild(lost) == lost \in SUBSET rows /\ Cardinality(lost) <= enc.P

(* The lost rows that it meets before it has rows enough.                  *)
marked(lost) == {i \in lost : Cardinality((0..(i - 1)) \ lost) < enc.D}

firstRows(missing) ==
  [k \in 1..enc.D |-> CHOOSE r \in rows \ missing : rank(rows \ missing, r) = k - 1]

rising(key) ==
  /\ key \in Seq(rows)
  /\ \A k, l \in 1..Len(key) : k < l => key[k] < key[l]

range(key) == {key[k] : k \in 1..Len(key)}

LEMMA Geometry ==
  ASSUME EncOK
  PROVE  /\ enc.D \in Nat \ {0} /\ enc.P \in Nat \ {0} /\ Shards \in Nat \ {0}
         /\ Shards = enc.D + enc.P
         /\ IsFiniteSet(rows) /\ Cardinality(rows) = Shards
         /\ rows \in SUBSET Int
<1>1. PICK s \in Settings : enc = New(s)
  BY DEF EncOK
<1>2. enc.D = s.D /\ enc.P = s.P
  BY <1>1 DEF New
<1>3. enc.D \in Nat \ {0} /\ enc.P \in Nat \ {0} /\ Shards \in Nat \ {0}
  BY <1>2, SettingsAssumption DEF Shards
<1>4. IsFiniteSet(0..(Shards - 1)) /\ Cardinality(0..(Shards - 1)) = Shards
  <2>1. Shards - 1 \in Int /\ ~(0 > Shards - 1) /\ Shards - 1 - 0 + 1 = Shards
    BY <1>3
  <2> HIDE DEF Shards
  <2> QED BY <2>1, FS_Interval
<1> QED BY <1>3, <1>4 DEF Shards, rows

LEMMA RowsLeft ==
  ASSUME EncOK, NEW lost, CanRebuild(lost)
  PROVE  /\ IsFiniteSet(lost) /\ Cardinality(lost) \in Nat
         /\ rows \ lost \in SUBSET Int /\ IsFiniteSet(rows \ lost)
         /\ Cardinality(rows \ lost) \in Nat /\ enc.D <= Cardinality(rows \ lost)
         /\ \A i \in rows : rank(rows \ lost, i) = Cardinality((0..(i - 1)) \ lost)
<1>1. lost \in SUBSET rows /\ IsFiniteSet(rows) /\ Cardinality(rows) = Shards
  BY Geometry DEF CanRebuild
<1>2. IsFiniteSet(lost) /\ Cardinality(lost) \in Nat /\ rows \cap lost = lost
  BY <1>1, FS_Subset, FS_CardinalityType
<1>3. IsFiniteSet(rows \ lost) /\ Cardinality(rows \ lost) = Cardinality(rows) - Cardinality(rows \cap lost)
  BY <1>1, FS_Difference
<1>4. ASSUME NEW i \in rows PROVE rank(rows \ lost, i) = Cardinality((0..(i - 1)) \ lost)
  <2>1. {j \in rows \ lost : j < i} = (0..(i - 1)) \ lost
    BY Geometry DEF rows
  <2> QED BY <2>1 DEF rank
<1>5. Cardinality(rows \ lost) \in Nat
  BY <1>3, FS_CardinalityType
<1>6. enc.D <= Cardinality(rows \ lost)
  <2>1. Cardinality(rows \ lost) = Shards - Cardinality(lost)
    BY <1>1, <1>2, <1>3
  <2>2. enc.D \in Nat /\ enc.P \in Nat /\ Shards = enc.D + enc.P /\ Cardinality(lost) <= enc.P
    BY Geometry DEF CanRebuild
  <2> QED BY <1>2, <2>1, <2>2
<1>7. rows \ lost \in SUBSET Int
  BY Geometry
<1> QED BY <1>2, <1>3, <1>4, <1>5, <1>6, <1>7

LEMMA ValidRows ==
  ASSUME EncOK, NEW lost, CanRebuild(lost)
  PROVE  /\ validIndices(lost) \in [1..enc.D -> rows \ lost]
         /\ \A k \in 1..enc.D : rank(rows \ lost, validIndices(lost)[k]) = k - 1
         /\ validIndices(lost) # <<>>
<1> DEFINE V == rows \ lost
           a == ascending(V)
           v == validIndices(lost)
<1>1. /\ enc.D \in Nat \ {0} /\ enc.D <= Cardinality(V) /\ Cardinality(V) \in Nat
      /\ V \in SUBSET Int /\ IsFiniteSet(V)
  BY Geometry, RowsLeft
<1>2. v = SubSeq(a, 1, enc.D)
  BY DEF validIndices, rows
<1>3. /\ a \in [1..Cardinality(V) -> V]
      /\ \A k \in 1..Cardinality(V) : rank(V, a[k]) = k - 1
  <2> HIDE DEF V
  <2> QED BY <1>1, Ascends
<1>4. \A k \in 1..enc.D : k \in 1..Cardinality(V) /\ a[k] \in V
  <2> HIDE DEF V, a
  <2> QED BY <1>1, <1>3
<1>5. /\ v \in Seq(V) /\ Len(v) = enc.D
      /\ \A k \in 1..enc.D : v[k] = a[k]
  <2> HIDE DEF V, a, v
  <2>1. /\ SubSeq(a, 1, enc.D) \in Seq(V)
        /\ Len(SubSeq(a, 1, enc.D)) = IF 1 <= enc.D THEN enc.D - 1 + 1 ELSE 0
        /\ \A i \in 1..(enc.D - 1 + 1) : SubSeq(a, 1, enc.D)[i] = a[1 + i - 1]
    BY <1>1, <1>4, SubSeqProperties
  <2>2. \A k \in 1..enc.D : k \in 1..(enc.D - 1 + 1) /\ 1 + k - 1 = k
    BY <1>1
  <2>3. (IF 1 <= enc.D THEN enc.D - 1 + 1 ELSE 0) = enc.D
    BY <1>1
  <2> QED BY <1>2, <2>1, <2>2, <2>3
<1>6. v \in [1..enc.D -> V]
  <2> HIDE DEF V, v
  <2> QED BY <1>5, LenProperties
<1>7. v # <<>>
  <2> HIDE DEF V, v
  <2> QED BY <1>1, <1>5, EmptySeq
<1>8. \A k \in 1..enc.D : rank(V, v[k]) = k - 1
  <2> HIDE DEF V, v, a
  <2> QED BY <1>3, <1>4, <1>5
<1> HIDE DEF v
<1> QED BY <1>6, <1>7, <1>8 DEF v

(* The rows before the last one it takes are lost only if they are marked, *)
(* so the marked rows decide which ones it takes.                          *)
LEMMA MarkedDecide ==
  ASSUME EncOK, NEW lost, CanRebuild(lost)
  PROVE  validIndices(lost) = firstRows(marked(lost))
<1> DEFINE V == rows \ lost
           W == rows \ marked(lost)
           v == validIndices(lost)
<1>1. /\ V \in SUBSET Int /\ IsFiniteSet(V) /\ W \in SUBSET Int /\ IsFiniteSet(W)
      /\ enc.D \in Nat
  BY Geometry, RowsLeft, FS_Subset
<1>2. v \in [1..enc.D -> V] /\ \A k \in 1..enc.D : rank(V, v[k]) = k - 1
  BY ValidRows
<1>3. ASSUME NEW k \in 1..enc.D
      PROVE  /\ v[k] \in W
             /\ rank(W, v[k]) = k - 1
             /\ \A r \in W : rank(W, r) = k - 1 => r = v[k]
  <2>1. v[k] \in V /\ rank(V, v[k]) = k - 1
    <3> HIDE DEF V, v
    <3> QED BY <1>2
  <2>2. v[k] \in W
    BY <2>1 DEF marked
  <2>3. ASSUME NEW j \in rows, j < v[k] PROVE j \in V <=> j \in W
    <3>1. CASE j \in V
      BY <3>1 DEF marked
    <3>2. CASE j \in lost
      <4>1. rank(V, j) <= rank(V, v[k]) /\ rank(V, j) \in Nat
        <5>1. {i \in V : i < j} \in SUBSET {i \in V : i < v[k]}
          <6>1. \A i \in V : i < j => i < v[k]
            <7>1. v[k] \in Int /\ j \in Int /\ \A i \in V : i \in Int
              BY <2>1, <1>1, Geometry
            <7> HIDE DEF v, V
            <7> QED BY <2>3, <7>1
          <6> QED BY <6>1
        <5>2. IsFiniteSet({i \in V : i < v[k]})
          <6> HIDE DEF v, V
          <6> QED BY <1>1, FS_Subset
        <5>3. IsFiniteSet({i \in V : i < j})
          <6> HIDE DEF v, V
          <6> QED BY <1>1, FS_Subset
        <5> HIDE DEF v, V
        <5> QED BY <5>1, <5>2, <5>3, FS_Subset, FS_CardinalityType DEF rank
      <4>2. rank(V, j) < enc.D
        <5> HIDE DEF v, V
        <5> QED BY <1>1, <2>1, <4>1
      <4>3. Cardinality((0..(j - 1)) \ lost) < enc.D
        BY <4>2, RowsLeft
      <4> QED BY <3>2, <4>3 DEF marked
    <3> QED BY <3>1, <3>2
  <2>4. {j \in V : j < v[k]} = {j \in W : j < v[k]}
    <3> HIDE DEF v
    <3> QED BY <2>3
  <2>5. rank(W, v[k]) = k - 1
    BY <2>1, <2>4 DEF rank
  <2>6. ASSUME NEW r \in W, rank(W, r) = k - 1 PROVE r = v[k]
    <3> DEFINE vk == v[k]
    <3>1. vk \in W /\ rank(W, vk) = rank(W, r)
      BY <2>2, <2>5, <2>6
    <3> HIDE DEF W, V, vk
    <3>2. r = vk
      BY <1>1, <3>1, RankOne
    <3> QED BY <3>2 DEF vk
  <2> QED BY <2>2, <2>5, <2>6
<1>4. \A k \in 1..enc.D : v[k] = CHOOSE r \in W : rank(W, r) = k - 1
  <2> HIDE DEF W, V, v
  <2> QED BY <1>3
<1>5. v = [k \in 1..enc.D |-> CHOOSE r \in W : rank(W, r) = k - 1]
  <2> HIDE DEF W, V, v
  <2> QED BY <1>2, <1>4
<1> QED BY <1>5 DEF firstRows

LEMMA MarkedKey ==
  ASSUME EncOK, NEW lost, CanRebuild(lost)
  PROVE  /\ rising(invalidIndices(lost))
         /\ range(invalidIndices(lost)) = marked(lost)
         /\ Len(invalidIndices(lost)) <= enc.P
<1> DEFINE M == marked(lost)
           a == ascending(M)
<1>1. invalidIndices(lost) = a
  BY DEF invalidIndices, marked
<1>2. M \in SUBSET lost /\ M \in SUBSET rows /\ M \in SUBSET Int
  BY Geometry DEF CanRebuild, marked
<1>3. IsFiniteSet(M) /\ Cardinality(M) <= Cardinality(lost) /\ Cardinality(M) \in Nat
  <2> HIDE DEF M
  <2> QED BY <1>2, RowsLeft, FS_Subset, FS_CardinalityType
<1>4. /\ a \in [1..Cardinality(M) -> M]
      /\ Len(a) = Cardinality(M)
      /\ \A k, l \in 1..Cardinality(M) : k < l => a[k] < a[l]
      /\ \A i \in M : \E k \in 1..Cardinality(M) : a[k] = i
  <2> HIDE DEF M
  <2> QED BY <1>2, <1>3, Ascends
<1>5. a \in Seq(rows)
  <2>1. a \in [1..Cardinality(M) -> rows]
    <3> HIDE DEF M, a
    <3> QED BY <1>2, <1>4
  <2> HIDE DEF M, a
  <2> QED BY <1>3, <2>1, SequenceOf
<1>6. range(a) = M
  <2> HIDE DEF M, a
  <2> QED BY <1>4 DEF range
<1>7. Len(a) <= enc.P
  <2> HIDE DEF M, a
  <2>1. Cardinality(lost) <= enc.P /\ Cardinality(lost) \in Nat /\ enc.P \in Nat
    BY RowsLeft, Geometry DEF CanRebuild
  <2> QED BY <1>3, <1>4, <2>1
<1> HIDE DEF a
<1>8. rising(a)
  <2> HIDE DEF M
  <2> QED BY <1>4, <1>5 DEF rising
<1> QED BY <1>1, <1>6, <1>7, <1>8

-----------------------------------------------------------------------------
(* The way to a key tells the key.                                         *)

LEMMA PathType ==
  ASSUME NEW key, NEW n \in Nat, \A j \in 1..n : key[j] \in Int
  PROVE  /\ path(key, n) \in [1..n -> Int] /\ Len(path(key, n)) = n
         /\ n = 0 => path(key, n) = <<>>
<1>1. ASSUME NEW j \in 1..n PROVE child(key, j) \in Int
  <2>1. CASE j = 1
    BY <2>1 DEF child
  <2>2. CASE j # 1
    <3>1. j - 1 \in 1..n
      BY <2>2
    <3> QED BY <2>2, <3>1 DEF child
  <2> QED BY <2>1, <2>2
<1>2. path(key, n) \in [1..n -> Int]
  BY <1>1 DEF path
<1>3. Len(path(key, n)) = n /\ path(key, n) \in Seq(Int)
  BY <1>2, SequenceOf
<1> QED BY <1>2, <1>3, EmptySeq

LEMMA PathSame ==
  ASSUME NEW a, NEW b, NEW n \in Nat, NEW m \in Nat,
         \A j \in 1..n : a[j] \in Int, \A j \in 1..m : b[j] \in Int,
         path(a, n) = path(b, m)
  PROVE  n = m /\ \A j \in 1..n : a[j] = b[j]
<1>1. n = m
  BY PathType
<1> DEFINE B == {j \in 1..n : a[j] # b[j]}
<1>2. SUFFICES ASSUME B # {} PROVE FALSE
  BY <1>1
<1>3. PICK j \in B : \A i \in B : j <= i
  <2>1. B \in SUBSET Nat
    OBVIOUS
  <2> HIDE DEF B
  <2> QED BY <1>2, <2>1, LeastNumber
<1>4. child(a, j) = child(b, j)
  <2>1. path(a, n)[j] = path(b, n)[j]
    BY <1>1
  <2> QED BY <2>1 DEF path
<1>5. CASE j = 1
  BY <1>1, <1>4, <1>5 DEF child
<1>6. CASE j # 1
  <2>1. j - 1 \in 1..n /\ j - 1 \notin B
    BY <1>3, <1>6
  <2>2. a[j - 1] = b[j - 1] /\ a[j - 1] \in Int /\ a[j] \in Int /\ b[j] \in Int
    BY <1>1, <2>1
  <2> QED BY <1>4, <1>6, <2>2 DEF child
<1> QED BY <1>5, <1>6

LEMMA KeyOfPath ==
  ASSUME NEW key \in Seq(Int)
  PROVE  keyOf(path(key, Len(key))) = key
<1> DEFINE n == Len(key)
           p == path(key, n)
           Reads(g) == g = [k \in 1..n |-> p[k] + (IF k = 1 THEN 0 ELSE g[k - 1] + 1)]
           g == CHOOSE g : Reads(g)
<1>1. n \in Nat /\ key \in [1..n -> Int]
  BY LenProperties
<1>2. p \in [1..n -> Int] /\ Len(p) = n
  <2> HIDE DEF n
  <2> QED BY <1>1, PathType
<1>3. Reads(key)
  <2>1. ASSUME NEW k \in 1..n
        PROVE  key[k] = p[k] + (IF k = 1 THEN 0 ELSE key[k - 1] + 1)
    <3>1. p[k] = child(key, k)
      BY DEF path
    <3>2. k # 1 => k - 1 \in 1..n
      BY <1>1
    <3> HIDE DEF p, n
    <3> QED BY <1>1, <3>1, <3>2 DEF child
  <2> HIDE DEF p, n
  <2> QED BY <1>1, <2>1
<1>4. Reads(g)
  <2> HIDE DEF Reads
  <2> QED BY <1>3
<1>5. ASSUME NEW k \in 1..n PROVE g[k] = key[k]
  <2> DEFINE B == {j \in 1..n : g[j] # key[j]}
  <2>1. SUFFICES ASSUME B # {} PROVE FALSE
    OBVIOUS
  <2>2. PICK j \in B : \A i \in B : j <= i
    <3>1. B \in SUBSET Nat
      BY <1>1
    <3> HIDE DEF B
    <3> QED BY <2>1, <3>1, LeastNumber
  <2>3. /\ g[j] = p[j] + (IF j = 1 THEN 0 ELSE g[j - 1] + 1)
        /\ key[j] = p[j] + (IF j = 1 THEN 0 ELSE key[j - 1] + 1)
    <3> HIDE DEF g, p
    <3> QED BY <1>3, <1>4
  <2>4. j # 1 => j - 1 \in 1..n /\ j - 1 \notin B
    <3> HIDE DEF g, p
    <3> QED BY <1>1, <2>2
  <2>5. j # 1 => g[j - 1] = key[j - 1]
    BY <2>4
  <2> HIDE DEF g, p
  <2> QED BY <2>2, <2>3, <2>5
<1>6. keyOf(p) = [k \in 1..n |-> g[k]]
  <2> HIDE DEF p
  <2> QED BY <1>2 DEF keyOf, n
<1> HIDE DEF p, g, n
<1>7. keyOf(p) = key
  BY <1>1, <1>5, <1>6
<1> QED BY <1>7 DEF p, n

-----------------------------------------------------------------------------
(* The inversion tree.                                                     *)

wayTo(key) == path(key, Len(key))
keyLost(lost) == invalidIndices(lost)

(* A node stands for a sequence of rows in ascending order, and its list   *)
(* of children is long enough for every row after the last of them.        *)
NodeFits(p) ==
  \E key : /\ rising(key) /\ p = wayTo(key)
           /\ tree[p].children = Shards - (IF Len(key) = 0 THEN 0 ELSE key[Len(key)])

(* Its matrix inverts the rows that are taken without those.               *)
NodeRight(p) ==
  tree[p].matrix # nil =>
    \E lost : /\ CanRebuild(lost) /\ p = wayTo(keyLost(lost))
              /\ tree[p].matrix = validIndices(lost)

TreeInv ==
  IF enc.caching
  THEN <<>> \in DOMAIN tree /\ \A p \in DOMAIN tree : NodeFits(p) /\ NodeRight(p)
  ELSE DOMAIN tree = {}

LEMMA RisingType ==
  ASSUME EncOK, NEW key, rising(key)
  PROVE  /\ key \in Seq(Int) /\ Len(key) \in Nat
         /\ \A k \in 1..Len(key) : key[k] \in Int /\ 0 <= key[k] /\ key[k] <= Shards - 1
<1>1. key \in Seq(rows) /\ rows \in SUBSET Int
  BY Geometry DEF rising
<1>2. key \in Seq(Int)
  BY <1>1, SeqMonotonic
<1>3. Len(key) \in Nat /\ \A k \in 1..Len(key) : key[k] \in rows
  BY <1>1, LenProperties
<1>4. \A i \in rows : i \in Int /\ 0 <= i /\ i <= Shards - 1
  BY Geometry DEF rows
<1> QED BY <1>2, <1>3, <1>4

LEMMA WaysApart ==
  ASSUME EncOK, NEW key, rising(key), NEW other, rising(other), wayTo(key) = wayTo(other)
  PROVE  key = other
<1>1. /\ key \in Seq(Int) /\ Len(key) \in Nat
      /\ other \in Seq(Int) /\ Len(other) \in Nat
      /\ \A k \in 1..Len(key) : key[k] \in Int
      /\ \A k \in 1..Len(other) : other[k] \in Int
  BY RisingType
<1>2. Len(key) = Len(other) /\ \A k \in 1..Len(key) : key[k] = other[k]
  BY <1>1, PathSame DEF wayTo
<1> QED BY <1>1, <1>2, SeqEqual

(* The way to a prefix of a key is the beginning of the way to the key.    *)
LEMMA KeyParts ==
  ASSUME EncOK, NEW key, rising(key), NEW k \in 0..Len(key)
  PROVE  \E part : /\ rising(part) /\ Len(part) = k /\ wayTo(part) = path(key, k)
                   /\ \A j \in 1..k : part[j] = key[j]
<1> DEFINE part == [j \in 1..k |-> key[j]]
<1>1. Len(key) \in Nat /\ key \in Seq(rows) /\ \A j \in 1..Len(key) : key[j] \in rows
  BY RisingType, LenProperties DEF rising
<1>2. k \in Nat /\ \A j \in 1..k : j \in 1..Len(key)
  BY <1>1
<1>3. part \in [1..k -> rows]
  BY <1>1, <1>2
<1>4. part \in Seq(rows) /\ Len(part) = k
  <2> HIDE DEF part
  <2> QED BY <1>2, <1>3, SequenceOf
<1>5. rising(part)
  BY <1>2, <1>4 DEF rising
<1>6. \A j \in 1..k : child(part, j) = child(key, j)
  <2> SUFFICES ASSUME NEW j \in 1..k PROVE child(part, j) = child(key, j)
    OBVIOUS
  <2>1. part[j] = key[j] /\ (j # 1 => j - 1 \in 1..k)
    BY <1>2
  <2>2. j # 1 => part[j - 1] = key[j - 1]
    BY <2>1
  <2> QED BY <2>1, <2>2 DEF child
<1>7. wayTo(part) = path(key, k)
  BY <1>4, <1>6 DEF wayTo, path
<1> QED BY <1>4, <1>5, <1>7

LEMMA TreeInit ==
  ASSUME EncOK, tree = IF enc.caching THEN newInversionTree(enc.D, enc.P) ELSE <<>>
  PROVE  TreeInv
<1>1. CASE ~enc.caching
  BY <1>1 DEF TreeInv
<1>2. CASE enc.caching
  <2>1. DOMAIN tree = {<<>>} /\ tree[<<>>].children = Shards
    BY <1>2 DEF newInversionTree, Shards
  <2>2. CanRebuild({})
    BY FS_EmptySet, Geometry DEF CanRebuild
  <2>3. tree[<<>>].matrix = validIndices({})
    <3> DEFINE v == validIndices({})
    <3>1. v \in [1..enc.D -> rows \ {}] /\ \A k \in 1..enc.D : rank(rows \ {}, v[k]) = k - 1
      BY <2>2, ValidRows
    <3>2. ASSUME NEW k \in 1..enc.D PROVE v[k] = k - 1
      <4>1. v[k] \in rows /\ rank(rows, v[k]) = k - 1
        <5>1. rows \ {} = rows
          OBVIOUS
        <5> HIDE DEF v
        <5> QED BY <3>1, <5>1
      <4>2. k - 1 \in rows
        BY Geometry DEF rows
      <4>3. rank(rows, k - 1) = k - 1
        <5>1. {j \in rows : j < k - 1} = 0..(k - 2)
          BY <4>2, Geometry DEF rows
        <5>2. Cardinality(0..(k - 2)) = k - 1
          <6>1. k \in Int /\ k >= 1
            BY Geometry
          <6>2. k - 2 \in Int /\ (IF 0 > k - 2 THEN 0 ELSE k - 2 - 0 + 1) = k - 1
            BY <6>1
          <6> QED BY <6>2, FS_Interval
        <5> QED BY <5>1, <5>2 DEF rank
      <4> HIDE DEF v
      <4> QED BY <4>1, <4>2, <4>3, Geometry, RankOne
    <3>3. tree[<<>>].matrix = [k \in 1..enc.D |-> k - 1]
      BY <1>2 DEF newInversionTree
    <3> HIDE DEF v
    <3>4. v = [k \in 1..enc.D |-> k - 1]
      BY <3>1, <3>2
    <3> QED BY <3>3, <3>4 DEF v
  <2>4. rising(<<>>) /\ Len(<<>>) = 0 /\ wayTo(<<>>) = <<>>
    <3>1. <<>> \in Seq(rows) /\ Len(<<>>) = 0
      BY EmptySeq
    <3>2. path(<<>>, 0) = <<>>
      <4>1. \A j \in 1..0 : <<>>[j] \in Int
        OBVIOUS
      <4> QED BY <4>1, PathType
    <3>3. rising(<<>>)
      BY <3>1 DEF rising
    <3> QED BY <3>1, <3>2, <3>3 DEF wayTo
  <2>5. keyLost({}) = <<>>
    <3>1. rising(keyLost({})) /\ range(keyLost({})) = marked({})
      BY <2>2, MarkedKey DEF keyLost
    <3>2. marked({}) = {}
      BY DEF marked
    <3>3. Len(keyLost({})) = 0
      <4>1. Len(keyLost({})) \in Nat
        BY <3>1, RisingType
      <4>2. CASE Len(keyLost({})) # 0
        <5>1. 1 \in 1..Len(keyLost({}))
          BY <4>1, <4>2
        <5>2. keyLost({})[1] \in range(keyLost({}))
          BY <5>1 DEF range
        <5> QED BY <3>1, <3>2, <5>2
      <4> QED BY <4>2
    <3> QED BY <3>1, <3>3, RisingType, EmptySeq
  <2>6. NodeFits(<<>>)
    BY <2>1, <2>4, Geometry DEF NodeFits
  <2>7. NodeRight(<<>>)
    BY <2>2, <2>3, <2>4, <2>5 DEF NodeRight
  <2> QED BY <1>2, <2>1, <2>6, <2>7 DEF TreeInv
<1> QED BY <1>1, <1>2

(* No walk leaves a list of children.                                      *)
LEMMA Walkable ==
  ASSUME EncOK, TreeInv, NEW key, rising(key)
  PROVE  walkable(tree, key)
<1> SUFFICES ASSUME NEW k \in 1..Len(key), path(key, k - 1) \in DOMAIN tree
             PROVE  child(key, k) \in 0..(tree[path(key, k - 1)].children - 1)
  BY DEF walkable
<1>1. NodeFits(path(key, k - 1))
  BY DEF TreeInv
<1>2. PICK other : /\ rising(other) /\ path(key, k - 1) = wayTo(other)
                   /\ tree[path(key, k - 1)].children
                        = Shards - (IF Len(other) = 0 THEN 0 ELSE other[Len(other)])
  BY <1>1 DEF NodeFits
<1>3. /\ Len(key) \in Nat /\ Len(other) \in Nat /\ Shards \in Nat
      /\ \A j \in 1..Len(key) : key[j] \in Int /\ 0 <= key[j] /\ key[j] <= Shards - 1
      /\ \A j \in 1..Len(other) : other[j] \in Int
  BY <1>2, RisingType, Geometry
<1>4. k - 1 \in Nat /\ \A j \in 1..(k - 1) : j \in 1..Len(key)
  BY <1>3
<1>5. k - 1 = Len(other) /\ \A j \in 1..(k - 1) : key[j] = other[j]
  <2>1. path(key, k - 1) = path(other, Len(other))
    BY <1>2 DEF wayTo
  <2>2. \A j \in 1..(k - 1) : key[j] \in Int
    BY <1>3, <1>4
  <2> QED BY <1>3, <1>4, <2>1, <2>2, PathSame
<1>6. CASE k = 1
  BY <1>2, <1>3, <1>5, <1>6 DEF child
<1>7. CASE k # 1
  <2>1. k - 1 \in 1..(k - 1) /\ k - 1 \in 1..Len(key) /\ k - 1 < k
    BY <1>4, <1>7
  <2>2. key[k - 1] < key[k]
    BY <2>1 DEF rising
  <2>3. tree[path(key, k - 1)].children = Shards - key[k - 1]
    BY <1>2, <1>5, <1>7, <2>1
  <2>4. key[k - 1] \in Int /\ key[k] \in Int /\ key[k] <= Shards - 1
    BY <1>3, <2>1
  <2>5. child(key, k) = key[k] - (key[k - 1] + 1)
    BY <1>7 DEF child
  <2> QED BY <1>3, <2>2, <2>3, <2>4, <2>5
<1> QED BY <1>6, <1>7

(* What is looked up is nothing or the right rows.                         *)
LEMMA LookedUp ==
  ASSUME EncOK, TreeInv, NEW lost, CanRebuild(lost)
  PROVE  GetInvertedMatrix(tree, keyLost(lost)) \in {nil, validIndices(lost)}
<1> DEFINE key == keyLost(lost)
<1>1. rising(key) /\ Len(key) \in Nat
  BY MarkedKey, RisingType DEF keyLost
<1>2. CASE ~ \A k \in 0..Len(key) : path(key, k) \in DOMAIN tree
  BY <1>2 DEF GetInvertedMatrix
<1>3. CASE \A k \in 0..Len(key) : path(key, k) \in DOMAIN tree
  <2>1. wayTo(key) \in DOMAIN tree
    BY <1>1, <1>3 DEF wayTo
  <2>2. GetInvertedMatrix(tree, key) = tree[wayTo(key)].matrix
    BY <1>3 DEF GetInvertedMatrix, wayTo
  <2>3. CASE tree[wayTo(key)].matrix # nil
    <3>1. NodeRight(wayTo(key))
      BY <2>1 DEF TreeInv
    <3>2. PICK his : /\ CanRebuild(his) /\ wayTo(key) = wayTo(keyLost(his))
                       /\ tree[wayTo(key)].matrix = validIndices(his)
      BY <2>3, <3>1 DEF NodeRight
    <3>3. rising(keyLost(his)) /\ range(keyLost(his)) = marked(his) /\ range(key) = marked(lost)
      BY <3>2, MarkedKey DEF keyLost
    <3>4. key = keyLost(his)
      <4> HIDE DEF key
      <4> QED BY <1>1, <3>2, <3>3, WaysApart
    <3>5. validIndices(his) = validIndices(lost)
      <4>1. marked(his) = marked(lost)
        BY <3>3, <3>4
      <4> QED BY <3>2, <4>1, MarkedDecide
    <3> QED BY <2>2, <3>2, <3>5
  <2> QED BY <2>2, <2>3
<1> QED BY <1>2, <1>3

LEMMA TreeInsert ==
  ASSUME EncOK, TreeInv, NEW lost, CanRebuild(lost), enc.caching, enc' = enc,
         tree' = insertInvertedMatrix(tree, keyLost(lost), validIndices(lost), Shards)
  PROVE  TreeInv'
<1> DEFINE key == keyLost(lost)
           v == validIndices(lost)
           new == {path(key, k) : k \in 1..Len(key)}
<1>1. rising(key) /\ Len(key) \in Nat
  BY MarkedKey, RisingType DEF keyLost
<1>2. /\ DOMAIN tree' = new \cup DOMAIN tree
      /\ \A p \in DOMAIN tree \ new : tree'[p] = tree[p]
      /\ \A p \in new :
           /\ tree'[p].matrix = IF Len(p) = Len(key) THEN v
                                ELSE IF p \in DOMAIN tree THEN tree[p].matrix ELSE nil
           /\ tree'[p].children = IF p \in DOMAIN tree THEN tree[p].children
                                  ELSE Shards - key[Len(p)]
  <2> HIDE DEF key, v
  <2> QED BY DEF insertInvertedMatrix, overlay, key, v
<1>3. Shards' = Shards /\ (\A l : CanRebuild(l)' <=> CanRebuild(l))
      /\ (\A q : rising(q)' <=> rising(q))
      /\ (\A l : keyLost(l)' = keyLost(l)) /\ (\A l : validIndices(l)' = validIndices(l))
  BY DEF Shards, CanRebuild, rows, rising, keyLost, invalidIndices, validIndices, ascending
<1>4. ASSUME NEW k \in 1..Len(key), NEW p, p = path(key, k)
      PROVE  Len(p) = k /\ (p \notin DOMAIN tree => NodeFits(p)')
  <2>1. k \in Nat /\ k \in 0..Len(key) /\ \A j \in 1..k : key[j] \in Int
    <3>1. \A j \in 1..Len(key) : key[j] \in Int
      BY <1>1, RisingType
    <3> HIDE DEF key
    <3> QED BY <1>1, <3>1
  <2>2. Len(p) = k
    <3> HIDE DEF key
    <3> QED BY <1>4, <2>1, PathType
  <2>3. PICK part : /\ rising(part) /\ Len(part) = k /\ wayTo(part) = p
                    /\ \A j \in 1..k : part[j] = key[j]
    <3> HIDE DEF key
    <3> QED BY <1>1, <1>4, <2>1, KeyParts
  <2>4. ASSUME p \notin DOMAIN tree PROVE NodeFits(p)'
    <3>0. p \in new
      BY <1>4
    <3>1. tree'[p].children = Shards - key[k]
      <4> HIDE DEF key, new
      <4> QED BY <1>2, <2>2, <2>4, <3>0
    <3>2. k # 0 /\ key[k] = part[k]
      <4> HIDE DEF key
      <4> QED BY <1>1, <2>3
    <3>3. /\ rising(part)' /\ p = wayTo(part)'
          /\ tree'[p].children = Shards' - (IF Len(part) = 0 THEN 0 ELSE part[Len(part)])
      <4> HIDE DEF key
      <4> QED BY <1>3, <2>3, <3>1, <3>2 DEF wayTo
    <3> QED BY <3>3 DEF NodeFits
  <2> QED BY <2>2, <2>4
<1>5. ASSUME NEW p \in DOMAIN tree' PROVE NodeFits(p)'
  <2>1. CASE p \in DOMAIN tree
    <3>1. NodeFits(p) /\ tree'[p].children = tree[p].children
      BY <1>2, <2>1 DEF TreeInv
    <3> QED BY <1>3, <3>1 DEF NodeFits, wayTo
  <2>2. CASE p \notin DOMAIN tree
    <3>1. PICK k \in 1..Len(key) : p = path(key, k)
      BY <1>2, <2>2
    <3> QED BY <1>4, <2>2, <3>1
  <2> QED BY <2>1, <2>2
<1>6. ASSUME NEW p \in DOMAIN tree' PROVE NodeRight(p)'
  <2>1. CASE p \in DOMAIN tree /\ tree'[p].matrix = tree[p].matrix
    <3>1. NodeRight(p)
      BY <2>1 DEF TreeInv
    <3> QED BY <1>3, <2>1, <3>1 DEF NodeRight, wayTo
  <2>2. CASE tree'[p].matrix = nil
    BY <2>2 DEF NodeRight
  <2>3. CASE p \in new /\ Len(p) = Len(key)
    <3>1. p = path(key, Len(key)) /\ tree'[p].matrix = v
      <4>1. PICK k \in 1..Len(key) : p = path(key, k)
        BY <2>3
      <4> HIDE DEF key
      <4> QED BY <1>2, <1>4, <2>3, <4>1
    <3> QED BY <1>3, <3>1 DEF NodeRight, wayTo
  <2> QED BY <1>2, <2>1, <2>2, <2>3
<1>7. <<>> \in DOMAIN tree'
  BY <1>2 DEF TreeInv
<1> QED BY <1>5, <1>6, <1>7 DEF TreeInv

-----------------------------------------------------------------------------
(* The coefficients a path writes ahead stay in the buffer.                *)

LEMMA TimesMore ==
  ASSUME NEW a \in Nat, NEW b \in Nat, NEW c \in Nat, a <= b
  PROVE  a * c <= b * c /\ c * a <= c * b /\ a * c \in Nat
<1>1. PICK d \in Nat : b = a + d
  <2>1. b - a \in Nat /\ b = a + (b - a)
    OBVIOUS
  <2> QED BY <2>1
<1>2. b * c = a * c + d * c
  BY <1>1
<1>3. a * c \in Nat /\ d * c \in Nat
  OBVIOUS
<1>4. c * a = a * c /\ c * b = b * c
  OBVIOUS
<1> DEFINE x == a * c
           y == d * c
<1> HIDE DEF x, y
<1>5. x <= x + y
  BY <1>3 DEF x, y
<1> QED BY <1>2, <1>3, <1>4, <1>5 DEF x, y

LEMMA QuotientLess ==
  ASSUME NEW k \in Nat, NEW a \in Nat, NEW b \in Nat \ {0}, k < a * b
  PROVE  k \div b \in 0..(a - 1)
<1> DEFINE q == k \div b
<1>1. q \in Nat /\ b * q <= k
  OBVIOUS
<1>2. CASE q >= a
  <2>1. b * a <= b * q
    <3> HIDE DEF q
    <3> QED BY <1>1, <1>2, TimesMore
  <2>2. b * a = a * b /\ b * q \in Nat /\ b * a \in Nat
    <3> HIDE DEF q
    <3> QED BY <1>1
  <2> HIDE DEF q
  <2> QED BY <1>1, <2>1, <2>2
<1> HIDE DEF q
<1>3. q < a => q \in 0..(a - 1)
  BY <1>1
<1> QED BY <1>1, <1>2, <1>3 DEF q

(* A run of at most ten that is within a total.                            *)
Within(run, total) ==
  /\ run[1] \in Nat /\ run[2] \in Nat /\ run[1] + run[2] <= total

LEMMA Tens ==
  ASSUME NEW total \in Nat \ {0}
  PROVE  /\ Len(tens(total)) \in Nat \ {0}
         /\ \A k \in 1..Len(tens(total)) : Within(tens(total)[k], total)
<1> DEFINE m == (total + 9) \div 10
           run(k) == <<10 * (k - 1), least(10, total - 10 * (k - 1))>>
<1>1. m \in Nat \ {0} /\ 10 * m <= total + 9
  OBVIOUS
<1>2. tens(total) = [k \in 1..m |-> run(k)]
  BY DEF tens
<1> HIDE DEF m
<1>3. ASSUME NEW k \in 1..m PROVE Within(run(k), total)
  <2>1. 10 * (k - 1) \in Nat /\ total - 10 * (k - 1) \in Nat
    BY <1>1
  <2> QED BY <2>1 DEF Within, least
<1>4. Len(tens(total)) = m
  <2>1. tens(total) \in [1..m -> {run(k) : k \in 1..m}]
    <3> HIDE DEF run
    <3> QED BY <1>2
  <2> HIDE DEF run
  <2> QED BY <1>1, <2>1, SequenceOf
<1>5. \A k \in 1..m : tens(total)[k] = run(k)
  <2> HIDE DEF run
  <2> QED BY <1>2
<1> HIDE DEF run
<1> QED BY <1>1, <1>3, <1>4, <1>5

(* One tile's coefficients among those of a job.                           *)
LEMMA TileWithin ==
  ASSUME NEW ins \in Nat, NEW outs \in Nat,
         NEW a1 \in Nat, NEW a2 \in Nat, NEW b1 \in Nat, NEW b2 \in Nat,
         a1 + a2 <= ins, b1 + b2 <= outs
  PROVE  /\ a1 * outs + a2 * b1 \in Nat
         /\ (a1 * outs + a2 * b1) + a2 * b2 <= ins * outs
<1>1. a2 * (b1 + b2) <= a2 * outs
  <2>1. b1 + b2 \in Nat
    OBVIOUS
  <2> DEFINE b == b1 + b2
  <2> HIDE DEF b
  <2>2. a2 * b <= a2 * outs
    BY <2>1, TimesMore DEF b
  <2> QED BY <2>2 DEF b
<1>2. (a1 + a2) * outs <= ins * outs
  <2> DEFINE a == a1 + a2
  <2>1. a \in Nat
    OBVIOUS
  <2> HIDE DEF a
  <2>2. a * outs <= ins * outs
    BY <2>1, TimesMore DEF a
  <2> QED BY <2>2 DEF a
<1>3. /\ a2 * (b1 + b2) = a2 * b1 + a2 * b2
      /\ (a1 + a2) * outs = a1 * outs + a2 * outs
      /\ a1 * outs \in Nat /\ a2 * outs \in Nat /\ a2 * b1 \in Nat /\ a2 * b2 \in Nat
      /\ ins * outs \in Nat
  OBVIOUS
<1> DEFINE u == a1 * outs
           v == a2 * b1
           w == a2 * b2
           x == a2 * outs
           y == ins * outs
<1>4. u \in Nat /\ v \in Nat /\ w \in Nat /\ x \in Nat /\ y \in Nat
  BY <1>3
<1>5. v + w <= x /\ u + x <= y
  BY <1>1, <1>2, <1>3
<1>6. u + v \in Nat /\ (u + v) + w <= y
  <2> HIDE DEF u, v, w, x, y
  <2> QED BY <1>4, <1>5
<1> QED BY <1>6

LEMMA PlanWithin ==
  ASSUME NEW j, j.ins \in Nat \ {0}, j.outs \in Nat \ {0},
         NEW t \in ahead(j)
  PROVE  t.from \in Nat /\ t.ins * t.outs \in Nat /\ t.from + t.ins * t.outs <= j.ins * j.outs
<1> DEFINE ins == j.ins
           outs == j.outs
           i == tens(ins)
           o == tens(outs)
<1> SUFFICES ASSUME t \in ahead(j)
             PROVE  /\ t.from \in Nat /\ t.ins * t.outs \in Nat
                    /\ t.from + t.ins * t.outs <= ins * outs
  OBVIOUS
<1>1. /\ ins \in Nat \ {0} /\ outs \in Nat \ {0}
      /\ Len(i) \in Nat \ {0} /\ Len(o) \in Nat \ {0}
      /\ \A k \in 1..Len(i) : Within(i[k], ins)
      /\ \A k \in 1..Len(o) : Within(o[k], outs)
  BY Tens
<1>2. CASE j.path \in {"avx2", "avx2P"}
  <2>1. t = tile(<<0, ins>>, <<0, outs>>, 0)
    BY <1>2 DEF ahead
  <2>2. t.from = 0 /\ t.ins = ins /\ t.outs = outs
    BY <2>1 DEF tile
  <2>3. ins * outs \in Nat /\ 0 + ins * outs <= ins * outs
    <3> DEFINE y == ins * outs
    <3>1. y \in Nat
      BY <1>1
    <3> HIDE DEF y
    <3>2. 0 + y <= y
      BY <3>1
    <3> QED BY <3>1, <3>2 DEF y
  <2> QED BY <2>2, <2>3
<1>3. CASE j.path = "planP" /\ ins > outs
  <2> DEFINE at_(k) == i[((k - 1) \div Len(o)) + 1]
             bt(k) == o[((k - 1) % Len(o)) + 1]
             f == [k \in 1..(Len(i) * Len(o)) |->
                     tile(at_(k), bt(k), at_(k)[1] * outs + at_(k)[2] * bt(k)[1])]
  <2>1. planOf(j) = f
    BY <1>3 DEF planOf, inputsOutside
  <2>2. ahead(j) = {f[k] : k \in DOMAIN f}
    <3> HIDE DEF f
    <3> QED BY <1>3, <2>1 DEF ahead
  <2>3. PICK k \in 1..(Len(i) * Len(o)) : t = f[k]
    BY <2>2
  <2> DEFINE a == at_(k)
             b == bt(k)
  <2>4. Within(a, ins) /\ Within(b, outs)
    <3> HIDE DEF i, o, ins, outs
    <3>1. k - 1 \in Nat /\ k - 1 < Len(i) * Len(o)
      BY <1>1
    <3>2. (k - 1) \div Len(o) \in 0..(Len(i) - 1)
      BY <1>1, <3>1, QuotientLess
    <3>3. (k - 1) % Len(o) \in 0..(Len(o) - 1)
      BY <1>1, <3>1
    <3>4. /\ ((k - 1) \div Len(o)) + 1 \in 1..Len(i)
          /\ ((k - 1) % Len(o)) + 1 \in 1..Len(o)
      BY <1>1, <3>2, <3>3
    <3> QED BY <1>1, <3>4
  <2>5. t = tile(a, b, a[1] * outs + a[2] * b[1])
    <3> HIDE DEF at_, bt
    <3> QED BY <2>3
  <2> HIDE DEF a, b, ins, outs
  <2>6. t.from = a[1] * outs + a[2] * b[1] /\ t.ins = a[2] /\ t.outs = b[2]
    BY <2>5 DEF tile
  <2>7. /\ a[1] * outs + a[2] * b[1] \in Nat
        /\ (a[1] * outs + a[2] * b[1]) + a[2] * b[2] <= ins * outs
        /\ a[2] * b[2] \in Nat
    <3>1. /\ a[1] \in Nat /\ a[2] \in Nat /\ b[1] \in Nat /\ b[2] \in Nat
          /\ a[1] + a[2] <= ins /\ b[1] + b[2] <= outs
      BY <2>4 DEF Within
    <3>2. a[2] * b[2] \in Nat
      BY <3>1
    <3> QED BY <1>1, <3>1, <3>2, TileWithin
  <2> QED BY <2>6, <2>7
<1>4. CASE j.path = "planP" /\ ~(ins > outs)
  <2> DEFINE at_(k) == i[((k - 1) % Len(i)) + 1]
             bt(k) == o[((k - 1) \div Len(i)) + 1]
             f == [k \in 1..(Len(i) * Len(o)) |->
                     tile(at_(k), bt(k), bt(k)[1] * ins + bt(k)[2] * at_(k)[1])]
  <2>1. planOf(j) = f
    BY <1>4 DEF planOf, outputsOutside
  <2>2. ahead(j) = {f[k] : k \in DOMAIN f}
    <3> HIDE DEF f
    <3> QED BY <1>4, <2>1 DEF ahead
  <2>3. PICK k \in 1..(Len(i) * Len(o)) : t = f[k]
    BY <2>2
  <2> DEFINE a == at_(k)
             b == bt(k)
  <2>4. Within(a, ins) /\ Within(b, outs)
    <3> HIDE DEF i, o, ins, outs
    <3>1. k - 1 \in Nat /\ k - 1 < Len(o) * Len(i)
      BY <1>1
    <3>2. (k - 1) \div Len(i) \in 0..(Len(o) - 1)
      BY <1>1, <3>1, QuotientLess
    <3>3. (k - 1) % Len(i) \in 0..(Len(i) - 1)
      BY <1>1, <3>1
    <3>4. /\ ((k - 1) \div Len(i)) + 1 \in 1..Len(o)
          /\ ((k - 1) % Len(i)) + 1 \in 1..Len(i)
      BY <1>1, <3>2, <3>3
    <3> QED BY <1>1, <3>4
  <2>5. t = tile(a, b, b[1] * ins + b[2] * a[1])
    <3> HIDE DEF at_, bt
    <3> QED BY <2>3
  <2> HIDE DEF a, b, ins, outs
  <2>6. t.from = b[1] * ins + b[2] * a[1] /\ t.ins = a[2] /\ t.outs = b[2]
    BY <2>5 DEF tile
  <2>7. /\ b[1] * ins + b[2] * a[1] \in Nat
        /\ (b[1] * ins + b[2] * a[1]) + b[2] * a[2] <= outs * ins
        /\ a[2] * b[2] \in Nat /\ b[2] * a[2] = a[2] * b[2] /\ outs * ins = ins * outs
    <3>1. /\ a[1] \in Nat /\ a[2] \in Nat /\ b[1] \in Nat /\ b[2] \in Nat
          /\ a[1] + a[2] <= ins /\ b[1] + b[2] <= outs
      BY <2>4 DEF Within
    <3>2. a[2] * b[2] \in Nat /\ b[2] * a[2] = a[2] * b[2] /\ outs * ins = ins * outs
      BY <1>1, <3>1
    <3>3. /\ b[1] * ins + b[2] * a[1] \in Nat
          /\ (b[1] * ins + b[2] * a[1]) + b[2] * a[2] <= outs * ins
      BY <1>1, <3>1, TileWithin
    <3> QED BY <3>2, <3>3
  <2> QED BY <2>6, <2>7
<1> HIDE DEF ins, outs
<1> QED BY <1>2, <1>3, <1>4 DEF ahead

LEMMA PreparedDomain ==
  ASSUME NEW j, j.ins \in Nat \ {0}, j.outs \in Nat \ {0}, NEW size \in Nat,
         j.ins * j.outs <= size, NEW coefs, DOMAIN coefs = 0..(size - 1)
  PROVE  DOMAIN prepared(j, coefs) = 0..(size - 1)
<1>1. \A t \in ahead(j) : stretch(t) \subseteq 0..(size - 1)
  <2> SUFFICES ASSUME NEW t \in ahead(j) PROVE stretch(t) \subseteq 0..(size - 1)
    OBVIOUS
  <2> DEFINE x == t.ins * t.outs
             y == j.ins * j.outs
  <2>1. t.from \in Nat /\ x \in Nat /\ t.from + x <= y
    BY PlanWithin
  <2>2. y \in Nat /\ y <= size
    OBVIOUS
  <2> HIDE DEF x, y
  <2>3. t.from..(t.from + x - 1) \subseteq 0..(size - 1)
    BY <2>1, <2>2
  <2> QED BY <2>3 DEF stretch, x
<1>2. DOMAIN prepared(j, coefs) = (UNION {stretch(t) : t \in ahead(j)}) \cup DOMAIN coefs
  BY DEF prepared, overlay, written
<1> QED BY <1>1, <1>2

-----------------------------------------------------------------------------
(* Jobs, buffers and the tree.                                             *)

steps == {"idle", "lookup", "insert", "code", "spawn", "wait", "deliver",
          "returned", "panicked"}

(* The call rebuilds shards, by the rows that Begin found for it.          *)
Rebuilds(c) ==
  /\ CanRebuild(call[c].lost)
  /\ call[c].valid = validIndices(call[c].lost)
  /\ call[c].invalid = keyLost(call[c].lost)

(* A job codes from as many inputs as there are data shards; it holds a    *)
(* buffer only while it is at work, and the lone goroutine of the path     *)
(* avx2 has not put it back before its first turn.                         *)
Working(c) ==
  pc[c] \in {"spawn", "wait"} =>
    /\ borrows(job[c].path) => job[c].ins = enc.D /\ job[c].outs # 0
    /\ job[c].path \in {"avx2", "avx2P"} => enc.D <= maxAvx2Inputs
    /\ job[c].path = "avx2" =>
         pc[c] = "wait" /\ \E w : workers[c] = {w} /\ (w.next = 0 => job[c].buf # 0)

Turns(c) ==
  \A w \in workers[c] :
     w.next \in Nat /\ w.lo <= w.next /\ w.next <= w.hi /\ w.hi <= call[c].n

Job(c) ==
  /\ pc[c] \in steps
  /\ start[c] \in Nat /\ do[c] \in Nat /\ calls[c] \in 0..MaxCalls
  /\ {"ins", "outs", "path", "buf", "rows"} \subseteq DOMAIN job[c]
  /\ job[c].outs \in 0..enc.P
  /\ job[c].buf \in Buffers \cup {0}
  /\ pc[c] \in {"lookup", "insert", "code"} => job[c].ins = enc.D
  /\ pc[c] \notin {"spawn", "wait", "panicked"} => job[c].buf = 0
  /\ pc[c] = "deliver" => job[c].path = "nothing"
  /\ pc[c] \in {"lookup", "insert"} \/ job[c].rows # <<>> => Rebuilds(c)
  /\ job[c].rows # <<>> => job[c].rows = call[c].valid
  /\ Working(c)
  /\ Turns(c)

Wholes == DOMAIN job = Callers /\ DOMAIN calls = Callers /\ DOMAIN buffer = Buffers

(* No two callers hold the same buffer, nor one that is in the pool.       *)
Apart ==
  \A c, d \in Callers : c # d => job[c].buf = 0 \/ job[c].buf # job[d].buf

Pooled == pool \subseteq Buffers /\ \A c \in Callers : job[c].buf \notin pool

(* Only a path whose inputs fit one kernel shortens a buffer.              *)
Buffer(b) ==
  /\ {"len", "coefs"} \subseteq DOMAIN buffer[b]
  /\ buffer[b].len \in 1..fullSize /\ DOMAIN buffer[b].coefs = 0..(fullSize - 1)
  /\ enc.D > maxAvx2Inputs => buffer[b].len = fullSize

CoderInv ==
  /\ RangesInv /\ TreeInv /\ Wholes /\ Apart /\ Pooled
  /\ \A b \in Buffers : Buffer(b)
  /\ \A c \in Callers : Job(c)

hers(c) == <<pc[c], call[c], job[c], workers[c], start[c], do[c], calls[c]>>

LEMMA FullSize ==
  ASSUME EncOK
  PROVE  fullSize \in Nat \ {0}
  BY Geometry DEF fullSize

LEMMA RowsNotNone ==
  ASSUME EncOK, enc' = enc
  PROVE  /\ Shards' = Shards /\ fullSize' = fullSize
         /\ \A l : CanRebuild(l)' <=> CanRebuild(l)
         /\ \A l : keyLost(l)' = keyLost(l)
         /\ \A l : validIndices(l)' = validIndices(l)
  BY DEF Shards, fullSize, CanRebuild, rows, keyLost, invalidIndices, validIndices, ascending

LEMMA TreeKeeps ==
  ASSUME EncOK, TreeInv, UNCHANGED <<enc, tree>>
  PROVE  TreeInv'
<1>1. \A q : rising(q)' <=> rising(q)
  BY DEF rising, rows, Shards
<1>2. \A p \in DOMAIN tree : NodeFits(p) => NodeFits(p)'
  BY <1>1, RowsNotNone DEF NodeFits, wayTo
<1>3. \A p \in DOMAIN tree : NodeRight(p) => NodeRight(p)'
  BY RowsNotNone DEF NodeRight, wayTo
<1> QED BY <1>2, <1>3 DEF TreeInv

LEMMA CoderInit == Init => CoderInv
<1> SUFFICES ASSUME Init PROVE CoderInv
  OBVIOUS
<1>1. RangesInv /\ EncOK
  BY RangesInit DEF Init, EncOK
<1>2. TreeInv
  BY <1>1, TreeInit DEF Init
<1>3. ASSUME NEW b \in Buffers PROVE Buffer(b)
  <2>1. fullSize \in Nat \ {0}
    BY <1>1, FullSize
  <2>2. buffer[b] = [len |-> fullSize, coefs |-> [k \in 0..(fullSize - 1) |-> none]]
    BY DEF Init
  <2> QED BY <2>1, <2>2 DEF Buffer
<1>4. ASSUME NEW c \in Callers PROVE Job(c)
  BY <1>1, Geometry, CallersAssumption DEF Init, Job, noJob, steps, Working, Turns
<1>5. Wholes /\ Apart /\ Pooled
  BY DEF Init, Wholes, Apart, Pooled, noJob
<1> QED BY <1>1, <1>2, <1>3, <1>4, <1>5 DEF CoderInv

(* A step of one caller leaves what the others are at.                     *)
LEMMA JobsKeep ==
  ASSUME CoderInv, enc' = enc, NEW c \in Callers, Job(c)',
         \A d \in Callers \ {c} : hers(d)' = hers(d)
  PROVE  \A d \in Callers : Job(d)'
<1>0. EncOK
  BY DEF CoderInv, RangesInv, EncOK
<1>1. ASSUME NEW d \in Callers \ {c} PROVE Job(d)'
  <2>1. Job(d)
    BY DEF CoderInv
  <2>2. /\ pc'[d] = pc[d] /\ call'[d] = call[d] /\ workers'[d] = workers[d]
        /\ start'[d] = start[d] /\ do'[d] = do[d] /\ calls'[d] = calls[d] /\ job'[d] = job[d]
    BY DEF hers
  <2>3. Rebuilds(d) => Rebuilds(d)'
    BY <1>0, <2>2, RowsNotNone DEF Rebuilds
  <2>4. Working(d)' /\ Turns(d)'
    BY <2>1, <2>2 DEF Job, Working, Turns
  <2> QED BY <2>1, <2>2, <2>3, <2>4 DEF Job
<1> QED BY <1>1

(* No buffer changes hands.                                                *)
LEMMA BuffersKeep ==
  ASSUME CoderInv, UNCHANGED <<enc, buffer, pool>>, NEW c \in Callers,
         job'[c].buf = job[c].buf,
         \A d \in Callers \ {c} : job'[d] = job[d]
  PROVE  Apart' /\ Pooled' /\ \A b \in Buffers : Buffer(b)'
<1>1. \A d \in Callers : job'[d].buf = job[d].buf
  OBVIOUS
<1>2. Apart' /\ Pooled'
  BY <1>1 DEF CoderInv, Apart, Pooled
<1>3. \A b \in Buffers : Buffer(b)'
  BY DEF CoderInv, Buffer, fullSize
<1> QED BY <1>2, <1>3

(* A caller that works puts its buffer back.                               *)
LEMMA BuffersReturn ==
  ASSUME CoderInv, enc' = enc, NEW c \in Callers, pc[c] = "wait", job[c].buf # 0,
         pool' = pool \cup {job[c].buf}, buffer' = putBack(c),
         job'[c].buf = 0,
         \A d \in Callers \ {c} : job'[d] = job[d]
  PROVE  Apart' /\ Pooled' /\ (\A b \in Buffers : Buffer(b)') /\ DOMAIN buffer' = Buffers
<1>0. EncOK
  BY DEF CoderInv, RangesInv, EncOK
<1> DEFINE mb == job[c].buf
           size == job[c].ins * job[c].outs
<1>1. mb \in Buffers /\ 0 \notin Buffers /\ DOMAIN buffer = Buffers
  BY DEF CoderInv, Job, Wholes, Buffers
<1>2. Pooled'
  <2>1. \A d \in Callers \ {c} : job[d].buf # mb
    BY DEF CoderInv, Apart
  <2> HIDE DEF mb
  <2> QED BY <1>1, <2>1 DEF CoderInv, Pooled, mb
<1>3. Apart'
  BY DEF CoderInv, Apart
<1>4. CASE job[c].path \notin {"avx2", "avx2P"}
  <2>1. buffer' = buffer
    BY <1>4 DEF putBack
  <2>2. \A b \in Buffers : Buffer(b)'
    BY <2>1 DEF CoderInv, Buffer, fullSize
  <2> QED BY <1>1, <1>2, <1>3, <2>1, <2>2
<1>5. CASE job[c].path \in {"avx2", "avx2P"}
  <2>1. buffer' = [buffer EXCEPT ![mb].len = size]
    BY <1>5 DEF putBack
  <2>2. job[c].ins = enc.D /\ job[c].outs \in 1..enc.P /\ enc.D <= maxAvx2Inputs
    BY <1>0, <1>5, Geometry DEF CoderInv, Job, Working, borrows
  <2>3. size \in 1..fullSize
    <3>1. enc.D \in Nat \ {0} /\ enc.P \in Nat /\ job[c].outs \in Nat \ {0} /\ job[c].outs <= enc.P
      BY <1>0, <2>2, Geometry
    <3> DEFINE o == job[c].outs
    <3>2. enc.D * o <= enc.D * enc.P /\ enc.D * o \in Nat \ {0} /\ enc.D * enc.P \in Nat
      <4> HIDE DEF o
      <4> QED BY <3>1, TimesMore DEF o
    <3> DEFINE x == enc.D * o
               y == enc.D * enc.P
    <3>3. x <= y /\ x \in Nat \ {0} /\ y \in Nat
      BY <3>2
    <3> HIDE DEF x, y
    <3>4. x \in 1..y
      BY <3>3
    <3> QED BY <2>2, <3>4 DEF x, y, fullSize
  <2>4. ASSUME NEW b \in Buffers PROVE Buffer(b)'
    <3>1. Buffer(b)
      BY DEF CoderInv
    <3> HIDE DEF size, mb
    <3>2. CASE b = mb
      <4>1. buffer'[b] = [buffer[b] EXCEPT !.len = size]
        BY <1>1, <2>1, <3>2
      <4> QED BY <1>0, <2>2, <2>3, <3>1, <4>1, Geometry DEF Buffer, fullSize, maxAvx2Inputs
    <3>3. CASE b # mb
      <4>1. buffer'[b] = buffer[b]
        BY <1>1, <2>1, <3>3
      <4> QED BY <3>1, <4>1 DEF Buffer, fullSize
    <3> QED BY <3>2, <3>3
  <2> QED BY <1>1, <1>2, <1>3, <2>1, <2>4
<1> QED BY <1>4, <1>5

LEMMA StepBegin ==
  ASSUME CoderInv, NEW c \in Callers, NEW r \in Requests(c, enc), Begin(c, r)
  PROVE  CoderInv'
<1> USE DEF CoderInv
<1>0. EncOK /\ enc' = enc /\ DOMAIN pc = Callers /\ DOMAIN call = Callers
      /\ DOMAIN start = Callers /\ DOMAIN do = Callers
  BY DEF RangesInv, EncOK, Begin, Domains
<1>1. RangesInv'
  BY RangesBegin
<1>2. r \in Call
  <2>1. PICK s \in Settings : enc = New(s)
    BY <1>0 DEF EncOK
  <2> QED BY <2>1, CallsAssumption
<1>3. /\ job'[c] = [noJob EXCEPT !.ins = enc.D,
                    !.outs = IF r.op = "reconstruct" THEN Cardinality(lostData(r)) ELSE enc.P]
      /\ \A d \in Callers \ {c} : job'[d] = job[d]
      /\ DOMAIN job' = Callers
  BY DEF Begin, Wholes
<1>4. /\ call'[c].lost = r.lost /\ call'[c].valid = validIndices(r.lost)
      /\ call'[c].invalid = keyLost(r.lost)
  BY <1>0 DEF Begin, keyLost
<1>5. pc[c] \in {"idle", "returned"} /\ job[c].buf = 0 /\ workers'[c] = {}
  BY <1>1 DEF Begin, Job, RangesInv, Caller
<1>6. r.op = "reconstruct" => CanRebuild(r.lost) /\ Cardinality(lostData(r)) \in 0..enc.P
  <2> SUFFICES ASSUME r.op = "reconstruct"
               PROVE  CanRebuild(r.lost) /\ Cardinality(lostData(r)) \in 0..enc.P
    OBVIOUS
  <2>1. CanRebuild(r.lost)
    BY DEF Begin, CanRebuild, rows
  <2>2. lostData(r) \in SUBSET r.lost /\ IsFiniteSet(r.lost) /\ Cardinality(r.lost) \in Nat
    BY <1>0, <2>1, RowsLeft DEF lostData
  <2>3. /\ Cardinality(lostData(r)) \in Nat
        /\ Cardinality(lostData(r)) <= Cardinality(r.lost)
    BY <2>2, FS_Subset, FS_CardinalityType
  <2>4. Cardinality(r.lost) <= enc.P /\ enc.P \in Nat
    BY <1>0, <2>1, Geometry DEF CanRebuild
  <2> QED BY <2>1, <2>2, <2>3, <2>4
<1>7. /\ pc'[c] = CASE r.op = "reconstruct" -> "lookup"
                    [] r.op = "encodeIdx" -> "deliver"
                    [] OTHER -> "code"
      /\ calls'[c] = calls[c] + 1 /\ calls[c] < MaxCalls /\ calls[c] \in 0..MaxCalls
      /\ start' = start /\ do' = do
  BY <1>0 DEF Begin, Wholes, Job
<1>8. Job(c)'
  <2>1. Rebuilds(c)' \/ pc'[c] \notin {"lookup", "insert"}
    BY <1>0, <1>4, <1>6, <1>7, RowsNotNone DEF Rebuilds
  <2>2. /\ job'[c].rows = <<>> /\ job'[c].path = "nothing" /\ job'[c].buf = 0
        /\ job'[c].ins = enc.D /\ job'[c].outs \in 0..enc.P
        /\ {"ins", "outs", "path", "buf", "rows"} \subseteq DOMAIN job'[c]
    BY <1>0, <1>3, <1>6, Geometry DEF noJob
  <2>3. calls'[c] \in 0..MaxCalls /\ start'[c] \in Nat /\ do'[c] \in Nat
    BY <1>7, CallersAssumption DEF Job
  <2>4. pc'[c] \in {"lookup", "deliver", "code"}
    BY <1>7
  <2> QED BY <1>0, <1>5, <2>1, <2>2, <2>3, <2>4 DEF Job, Working, Turns, steps
<1>9. \A d \in Callers \ {c} : hers(d)' = hers(d)
  BY <1>3 DEF Begin, hers
<1>10. \A d \in Callers : Job(d)'
  BY <1>0, <1>8, <1>9, JobsKeep
<1>11. TreeInv' /\ Apart' /\ Pooled' /\ \A b \in Buffers : Buffer(b)'
  <2>1. UNCHANGED <<enc, tree, buffer, pool>>
    BY DEF Begin
  <2>2. job'[c].buf = job[c].buf
    BY <1>3, <1>5 DEF noJob
  <2> QED BY <1>0, <1>3, <2>1, <2>2, TreeKeeps, BuffersKeep
<1>12. Wholes'
  BY <1>3 DEF Begin, Wholes
<1> QED BY <1>1, <1>10, <1>11, <1>12 DEF Buffers

LEMMA StepLookup ==
  ASSUME CoderInv, RangesInv', NEW c \in Callers, Lookup(c)
  PROVE  CoderInv'
<1> USE DEF CoderInv
<1> DEFINE found == GetInvertedMatrix(tree, call[c].invalid)
<1>0. EncOK /\ enc' = enc /\ DOMAIN pc = Callers
  BY DEF RangesInv, EncOK, Lookup, Domains
<1>1. Rebuilds(c) /\ pc[c] = "lookup" /\ Job(c)
  BY DEF Lookup, Job
<1>2. found \in {nil, call[c].valid}
  BY <1>0, <1>1, LookedUp DEF Rebuilds
<1>3. /\ job' = [job EXCEPT ![c].rows = found]
      /\ pc'[c] \in {"panicked", "insert", "code"}
  BY <1>0 DEF Lookup
<1> HIDE DEF found
<1>4. /\ job'[c].rows = found /\ job'[c].ins = job[c].ins /\ job'[c].outs = job[c].outs
      /\ job'[c].path = job[c].path /\ job'[c].buf = job[c].buf
      /\ {"ins", "outs", "path", "buf", "rows"} \subseteq DOMAIN job'[c]
      /\ DOMAIN job' = Callers
      /\ \A d \in Callers \ {c} : job'[d] = job[d]
  BY <1>1, <1>3 DEF Job, Wholes
<1>5. UNCHANGED <<enc, tree, buffer, pool, call, workers, start, do, calls>>
  BY DEF Lookup
<1>6. Rebuilds(c)'
  BY <1>0, <1>1, <1>5, RowsNotNone DEF Rebuilds
<1>7. workers[c] = {}
  BY <1>1 DEF RangesInv, Caller
<1>8. Job(c)'
  BY <1>0, <1>1, <1>2, <1>3, <1>4, <1>5, <1>6, <1>7 DEF Job, Working, Turns, steps, nil
<1>9. \A d \in Callers \ {c} : hers(d)' = hers(d)
  BY <1>4, <1>5 DEF Lookup, hers
<1>10. \A d \in Callers : Job(d)'
  BY <1>0, <1>8, <1>9, JobsKeep
<1>11. TreeInv' /\ Apart' /\ Pooled' /\ \A b \in Buffers : Buffer(b)'
  BY <1>0, <1>4, <1>5, TreeKeeps, BuffersKeep
<1> QED BY <1>4, <1>5, <1>10, <1>11 DEF Wholes, Buffers

LEMMA StepInsert ==
  ASSUME CoderInv, RangesInv', NEW c \in Callers, Insert(c)
  PROVE  CoderInv'
<1> USE DEF CoderInv
<1> DEFINE matrix == call[c].valid
<1>0. EncOK /\ enc' = enc /\ DOMAIN pc = Callers
  BY DEF RangesInv, EncOK, Insert, Domains
<1>1. Rebuilds(c) /\ pc[c] = "insert" /\ Job(c)
  BY DEF Insert, Job
<1>3. /\ job' = [job EXCEPT ![c].rows = matrix]
      /\ pc'[c] \in {"returned", "code"}
  BY <1>0 DEF Insert
<1> HIDE DEF matrix
<1>4. /\ job'[c].rows = matrix /\ job'[c].ins = job[c].ins /\ job'[c].outs = job[c].outs
      /\ job'[c].path = job[c].path /\ job'[c].buf = job[c].buf
      /\ {"ins", "outs", "path", "buf", "rows"} \subseteq DOMAIN job'[c]
      /\ DOMAIN job' = Callers
      /\ \A d \in Callers \ {c} : job'[d] = job[d]
  BY <1>1, <1>3 DEF Job, Wholes
<1>5. UNCHANGED <<enc, buffer, pool, call, workers, start, do, calls>>
  BY DEF Insert
<1>6. Rebuilds(c)'
  BY <1>0, <1>1, <1>5, RowsNotNone DEF Rebuilds
<1>7. workers[c] = {}
  BY <1>1 DEF RangesInv, Caller
<1>8. Job(c)'
  BY <1>0, <1>1, <1>3, <1>4, <1>5, <1>6, <1>7 DEF Job, Working, Turns, steps, matrix
<1>9. \A d \in Callers \ {c} : hers(d)' = hers(d)
  BY <1>4, <1>5 DEF Insert, hers
<1>10. \A d \in Callers : Job(d)'
  BY <1>0, <1>8, <1>9, JobsKeep
<1>11. Apart' /\ Pooled' /\ \A b \in Buffers : Buffer(b)'
  BY <1>4, <1>5, BuffersKeep
<1>12. TreeInv'
  <2>1. CASE tree' = tree
    BY <1>0, <1>5, <2>1, TreeKeeps
  <2>2. CASE enc.caching /\ tree' = insertInvertedMatrix(tree, call[c].invalid, call[c].valid, Shards)
    <3> PICK lost : lost = call[c].lost
      OBVIOUS
    <3>1. /\ CanRebuild(lost)
          /\ tree' = insertInvertedMatrix(tree, keyLost(lost), validIndices(lost), Shards)
      BY <1>1, <2>2 DEF Rebuilds
    <3> QED BY <1>0, <2>2, <3>1, TreeInsert
  <2> QED BY <2>1, <2>2 DEF Insert
<1> QED BY <1>4, <1>5, <1>10, <1>11, <1>12 DEF Wholes, Buffers

LEMMA StepDeliver ==
  ASSUME CoderInv, RangesInv', NEW c \in Callers, NEW idx \in 0..(enc.D - 1), Deliver(c, idx)
  PROVE  CoderInv'
<1> USE DEF CoderInv
<1>0. EncOK /\ enc' = enc /\ DOMAIN pc = Callers /\ DOMAIN call = Callers
  BY DEF RangesInv, EncOK, Deliver, Domains
<1>1. pc[c] = "deliver" /\ Job(c)
  BY DEF Deliver
<1>2. /\ pc'[c] \in {"wait", "deliver"}
      /\ call' = [call EXCEPT ![c].changed = @ \ {idx}]
      /\ UNCHANGED <<enc, tree, buffer, pool, job, workers, start, do, calls>>
  BY <1>0 DEF Deliver
<1>3. call'[c].lost = call[c].lost /\ call'[c].valid = call[c].valid
      /\ call'[c].invalid = call[c].invalid
  BY <1>0, <1>2
<1>4. workers[c] = {}
  BY <1>1 DEF RangesInv, Caller
<1>5. Rebuilds(c) => Rebuilds(c)'
  BY <1>0, <1>3, RowsNotNone DEF Rebuilds
<1>6. Job(c)'
  BY <1>0, <1>1, <1>2, <1>3, <1>4, <1>5 DEF Job, Working, Turns, steps, borrows
<1>7. \A d \in Callers \ {c} : hers(d)' = hers(d)
  BY <1>2 DEF Deliver, hers
<1>8. \A d \in Callers : Job(d)'
  BY <1>0, <1>6, <1>7, JobsKeep
<1>9. TreeInv' /\ Apart' /\ Pooled' /\ \A b \in Buffers : Buffer(b)'
  BY <1>0, <1>2, TreeKeeps, BuffersKeep
<1> QED BY <1>2, <1>8, <1>9 DEF Wholes, Buffers

LEMMA StepSpawn ==
  ASSUME CoderInv, RangesInv', NEW c \in Callers, Spawn(c)
  PROVE  CoderInv'
<1> USE DEF CoderInv
<1> DEFINE size == least(do[c], call[c].n - start[c])
           w0 == [lo |-> start[c], hi |-> start[c] + size, next |-> start[c]]
<1>0. EncOK /\ enc' = enc /\ DOMAIN start = Callers /\ DOMAIN do = Callers /\ DOMAIN workers = Callers
  BY DEF RangesInv, EncOK, Spawn, Domains
<1>1. pc[c] = "spawn" /\ Job(c) /\ Divided(c) /\ call[c].n \in Nat
  BY DEF Spawn, RangesInv, Caller, busy
<1>2. size \in Nat /\ start[c] + size <= call[c].n /\ start[c] \in Nat
  BY <1>1, LeastMost DEF Spawn, Divided
<1>3. /\ workers'[c] = workers[c] \cup {w0}
      /\ start'[c] = start[c] + size /\ do'[c] = size
      /\ UNCHANGED <<enc, pc, call, tree, buffer, pool, job, calls>>
  BY <1>0 DEF Spawn
<1>4. Turns(c)'
  <2>1. w0.lo = start[c] /\ w0.hi = start[c] + size /\ w0.next = start[c]
    OBVIOUS
  <2> HIDE DEF size, w0
  <2> QED BY <1>1, <1>2, <1>3, <2>1 DEF Job, Turns
<1>5. Rebuilds(c) => Rebuilds(c)'
  BY <1>0, <1>3, RowsNotNone DEF Rebuilds
<1>6. Working(c)'
  BY <1>1, <1>3 DEF Job, Working
<1>7. Job(c)'
  <2> HIDE DEF size, w0
  <2> QED BY <1>0, <1>1, <1>2, <1>3, <1>4, <1>5, <1>6 DEF Job
<1>8. \A d \in Callers \ {c} : hers(d)' = hers(d)
  BY DEF Spawn, hers
<1>9. \A d \in Callers : Job(d)'
  BY <1>0, <1>7, <1>8, JobsKeep
<1>10. TreeInv' /\ Apart' /\ Pooled' /\ \A b \in Buffers : Buffer(b)'
  BY <1>0, <1>3, TreeKeeps, BuffersKeep
<1> QED BY <1>3, <1>9, <1>10 DEF Wholes, Buffers

LEMMA StepAllSpawned ==
  ASSUME CoderInv, RangesInv', NEW c \in Callers, AllSpawned(c)
  PROVE  CoderInv'
<1> USE DEF CoderInv
<1>0. EncOK /\ enc' = enc /\ DOMAIN pc = Callers
  BY DEF RangesInv, EncOK, AllSpawned, Domains
<1>1. pc[c] = "spawn" /\ Job(c)
  BY DEF AllSpawned
<1>2. /\ pc'[c] = "wait"
      /\ UNCHANGED <<enc, call, tree, buffer, pool, job, workers, start, do, calls>>
  BY <1>0 DEF AllSpawned
<1>3. Rebuilds(c) => Rebuilds(c)'
  BY <1>0, <1>2, RowsNotNone DEF Rebuilds
<1>4. Working(c)' /\ Turns(c)'
  BY <1>1, <1>2 DEF Job, Working, Turns
<1>5. Job(c)'
  BY <1>0, <1>1, <1>2, <1>3, <1>4 DEF Job, steps
<1>6. \A d \in Callers \ {c} : hers(d)' = hers(d)
  BY <1>2 DEF AllSpawned, hers
<1>7. \A d \in Callers : Job(d)'
  BY <1>0, <1>5, <1>6, JobsKeep
<1>8. TreeInv' /\ Apart' /\ Pooled' /\ \A b \in Buffers : Buffer(b)'
  BY <1>0, <1>2, TreeKeeps, BuffersKeep
<1> QED BY <1>2, <1>7, <1>8 DEF Wholes, Buffers

(* A path that borrows a buffer has something to code, and the kernel for  *)
(* every input at once is taken only where the inputs fit it.              *)
LEMMA WayFits ==
  ASSUME NEW c \in Callers
  PROVE  /\ borrows(wayOf(c)) => job[c].outs # 0
         /\ wayOf(c) \in {"avx2", "avx2P"} => job[c].ins <= maxAvx2Inputs
<1>1. borrows(wayOf(c)) => wayOf(c) = pathOf(call[c].n, job[c].ins, job[c].outs)
  BY DEF borrows, wayOf
<1>2. pathOf(call[c].n, job[c].ins, job[c].outs) # "nothing" => job[c].outs # 0
  BY DEF pathOf
<1>3. pathOf(call[c].n, job[c].ins, job[c].outs) \in {"avx2", "avx2P"} =>
        canAVX2C(enc, call[c].n, job[c].ins, job[c].outs)
  BY DEF pathOf
<1> QED BY <1>1, <1>2, <1>3 DEF borrows, canAVX2C

LEMMA DispatchJob ==
  ASSUME CoderInv, NEW c \in Callers, NEW b \in Buffers \cup {0}, NEW len,
         Dispatch(c, wayOf(c), b, len), borrows(wayOf(c)) => b # 0,
         UNCHANGED <<enc, call, calls>>
  PROVE  /\ Job(c)' /\ \A d \in Callers \ {c} : hers(d)' = hers(d)
         /\ \A d \in Callers \ {c} : job'[d] = job[d]
         /\ job'[c].buf = b /\ job'[c].path = wayOf(c) /\ job'[c].ins = enc.D
         /\ job'[c].outs = job[c].outs /\ DOMAIN job' = Callers
         /\ pc[c] = "code"
<1> USE DEF CoderInv
<1> DEFINE way == wayOf(c)
           n == call[c].n
           broken == \/ splits(way) /\ enc.maxGoroutines = 0
                     \/ b # 0 /\ tooShort([job[c] EXCEPT !.path = way], len)
           w0 == [lo |-> 0, hi |-> n, next |-> 0]
<1>0. EncOK /\ DOMAIN pc = Callers /\ DOMAIN start = Callers /\ DOMAIN do = Callers
      /\ DOMAIN workers = Callers /\ DOMAIN job = Callers
  BY DEF RangesInv, EncOK, Domains, Wholes
<1>1. pc[c] = "code" /\ Job(c) /\ n \in Nat \ {0} /\ job[c].ins = enc.D
  BY DEF Dispatch, RangesInv, Caller, busy, Job
<1>2. /\ job' = [job EXCEPT ![c].path = way, ![c].buf = b]
      /\ pc'[c] = IF broken THEN "panicked" ELSE IF alone(way) THEN "wait" ELSE "spawn"
      /\ start'[c] = 0
      /\ do'[c] = IF alone(way) \/ broken THEN 0 ELSE splitSize(n, way)
      /\ workers'[c] = IF broken \/ ~alone(way) \/ way = "nothing" THEN {} ELSE {w0}
  BY <1>0 DEF Dispatch
<1>3. splitSize(n, way) \in Nat
  BY <1>0, <1>1, SplitType DEF EncOK
<1>4. way = "avx2" => alone(way)
  BY DEF alone, splits
<1>5. /\ borrows(way) => job[c].outs # 0
      /\ way \in {"avx2", "avx2P"} => job[c].ins <= maxAvx2Inputs
  BY WayFits
<1> HIDE DEF broken, way
<1>6. /\ job'[c].rows = job[c].rows /\ job'[c].ins = job[c].ins /\ job'[c].outs = job[c].outs
      /\ job'[c].path = way /\ job'[c].buf = b
      /\ {"ins", "outs", "path", "buf", "rows"} \subseteq DOMAIN job'[c]
      /\ DOMAIN job' = Callers
      /\ \A d \in Callers \ {c} : job'[d] = job[d]
  BY <1>0, <1>1, <1>2 DEF Job
<1>7. Turns(c)'
  <2>1. w0.lo = 0 /\ w0.hi = n /\ w0.next = 0
    OBVIOUS
  <2>2. workers'[c] \in {{}, {w0}} /\ call'[c].n = n
    BY <1>2
  <2> HIDE DEF w0, n
  <2> QED BY <1>1, <2>1, <2>2 DEF Turns
<1>8. Working(c)'
  <2> SUFFICES ASSUME pc'[c] \in {"spawn", "wait"}
               PROVE  /\ borrows(way) => job'[c].ins = enc'.D /\ job'[c].outs # 0
                      /\ way \in {"avx2", "avx2P"} => enc'.D <= maxAvx2Inputs
                      /\ way = "avx2" =>
                           pc'[c] = "wait"
                           /\ \E w : workers'[c] = {w} /\ (w.next = 0 => job'[c].buf # 0)
    BY <1>6 DEF Working
  <2>1. way = "avx2" => b # 0
    BY DEF borrows, way
  <2>2. ~broken
    BY <1>2
  <2>3. way = "avx2" => workers'[c] = {w0} /\ pc'[c] = "wait"
    BY <1>2, <1>4, <2>2
  <2> QED BY <1>1, <1>5, <1>6, <2>1, <2>3
<1>9. Rebuilds(c) => Rebuilds(c)'
  BY <1>0, RowsNotNone DEF Rebuilds
<1>10. Job(c)'
  <2>1. pc'[c] \in {"panicked", "wait", "spawn"} /\ start'[c] \in Nat /\ do'[c] \in Nat
    BY <1>2, <1>3
  <2>2. calls' = calls /\ call' = call /\ enc' = enc /\ Buffers' = Buffers
    BY DEF Buffers
  <2> QED BY <1>1, <1>6, <1>7, <1>8, <1>9, <2>1, <2>2 DEF Job, steps
<1>11. \A d \in Callers \ {c} : hers(d)' = hers(d)
  BY <1>6 DEF Dispatch, hers
<1> QED BY <1>1, <1>6, <1>10, <1>11 DEF way

LEMMA StepCode ==
  ASSUME CoderInv, RangesInv', NEW c \in Callers, Code(c)
  PROVE  CoderInv'
<1> USE DEF CoderInv
<1> DEFINE way == wayOf(c)
<1>0. EncOK /\ enc' = enc /\ tree' = tree /\ calls' = calls /\ call' = call
      /\ Buffers' = Buffers /\ 0 \notin Buffers
  BY DEF RangesInv, EncOK, Code, Buffers
<1>1. CASE ~borrows(way)
  <2>1. Dispatch(c, way, 0, 0) /\ UNCHANGED <<buffer, pool>>
    BY <1>1 DEF Code
  <2>2. /\ Job(c)' /\ \A d \in Callers \ {c} : hers(d)' = hers(d)
        /\ \A d \in Callers \ {c} : job'[d] = job[d]
        /\ job'[c].buf = 0 /\ DOMAIN job' = Callers /\ pc[c] = "code"
    BY <1>0, <1>1, <2>1, DispatchJob
  <2>3. job[c].buf = 0
    BY <2>2 DEF Job
  <2>4. \A d \in Callers : Job(d)'
    BY <1>0, <2>2, JobsKeep
  <2>5. TreeInv' /\ Apart' /\ Pooled' /\ \A b \in Buffers : Buffer(b)'
    BY <1>0, <2>1, <2>2, <2>3, TreeKeeps, BuffersKeep
  <2> QED BY <1>0, <2>1, <2>2, <2>4, <2>5 DEF Wholes
<1>2. CASE borrows(way)
  <2>0. PICK b \in Buffers \ held :
          \E len \in {fullSize} \cup (IF b \in pool THEN {buffer[b].len} ELSE {}) :
             /\ Dispatch(c, way, b, len)
             /\ buffer' = [buffer EXCEPT ![b] =
                  [len |-> len,
                   coefs |-> IF pc'[c] = "panicked" THEN @.coefs
                             ELSE prepared(job'[c], @.coefs)]]
             /\ pool' = pool \ {b}
    BY <1>2 DEF Code
  <2>1. PICK len \in {fullSize} \cup (IF b \in pool THEN {buffer[b].len} ELSE {}) :
          /\ Dispatch(c, way, b, len)
          /\ buffer' = [buffer EXCEPT ![b] =
               [len |-> len,
                coefs |-> IF pc'[c] = "panicked" THEN @.coefs
                          ELSE prepared(job'[c], @.coefs)]]
          /\ pool' = pool \ {b}
    BY <2>0
  <2>2. b \in Buffers /\ b # 0 /\ \A d \in Callers : job[d].buf # b
    BY <1>0, <2>1 DEF held
  <2>3. /\ Job(c)' /\ \A d \in Callers \ {c} : hers(d)' = hers(d)
        /\ \A d \in Callers \ {c} : job'[d] = job[d]
        /\ job'[c].buf = b /\ job'[c].path = way /\ job'[c].ins = enc.D
        /\ job'[c].outs = job[c].outs /\ DOMAIN job' = Callers
    BY <1>0, <2>1, <2>2, DispatchJob
  <2>4. \A d \in Callers : Job(d)'
    BY <1>0, <2>3, JobsKeep
  <2>5. Apart' /\ Pooled'
    <3>1. Pooled'
      <4>1. \A d \in Callers : job'[d].buf \notin pool'
        <5> SUFFICES ASSUME NEW d \in Callers PROVE job'[d].buf \notin pool'
          OBVIOUS
        <5>1. CASE d = c
          BY <2>1, <2>3, <5>1
        <5>2. CASE d # c
          BY <2>1, <2>3, <5>2 DEF Pooled
        <5> QED BY <5>1, <5>2
      <4> QED BY <1>0, <2>1, <4>1 DEF Pooled
    <3>2. Apart'
      BY <2>2, <2>3 DEF Apart
    <3> QED BY <3>1, <3>2
  <2>6. Buffer(b)'
    <3>1. Buffer(b) /\ b \in DOMAIN buffer
      BY <2>2 DEF Wholes
    <3>2. /\ buffer'[b].len = len /\ {"len", "coefs"} \subseteq DOMAIN buffer'[b]
          /\ buffer'[b].coefs = IF pc'[c] = "panicked" THEN buffer[b].coefs
                                ELSE prepared(job'[c], buffer[b].coefs)
      BY <2>1, <3>1
    <3>3. len \in 1..fullSize /\ (enc.D > maxAvx2Inputs => len = fullSize)
      BY <1>0, <2>1, <3>1, FullSize DEF Buffer
    <3>4. DOMAIN prepared(job'[c], buffer[b].coefs) = 0..(fullSize - 1)
      <4> DEFINE j == job'[c]
                 y == buffer[b].coefs
                 o == j.outs
      <4>1. enc.D \in Nat \ {0} /\ enc.P \in Nat /\ o \in Nat \ {0} /\ o <= enc.P
        <5>1. job[c].outs # 0
          BY <1>2, WayFits
        <5> QED BY <1>0, <2>3, <5>1, Geometry DEF Job
      <4>2. j.ins = enc.D /\ j.outs = o
        BY <2>3
      <4>3. DOMAIN y = 0..(fullSize - 1)
        BY <3>1 DEF Buffer
      <4>4. fullSize \in Nat /\ fullSize = enc.D * enc.P
        BY <1>0, FullSize DEF fullSize
      <4> HIDE DEF j, y, o
      <4>5. enc.D * o <= enc.D * enc.P
        BY <4>1, TimesMore
      <4>6. j.ins \in Nat \ {0} /\ j.outs \in Nat \ {0} /\ j.ins * j.outs <= fullSize
        BY <4>1, <4>2, <4>4, <4>5
      <4>7. DOMAIN prepared(j, y) = 0..(fullSize - 1)
        BY <4>3, <4>4, <4>6, PreparedDomain
      <4> QED BY <4>7 DEF j, y
    <3>5. DOMAIN buffer'[b].coefs = 0..(fullSize - 1)
      BY <3>1, <3>2, <3>4 DEF Buffer
    <3> QED BY <1>0, <3>2, <3>3, <3>5 DEF Buffer, fullSize
  <2>7. ASSUME NEW d \in Buffers, d # b PROVE Buffer(d)'
    <3>1. buffer'[d] = buffer[d]
      BY <2>1, <2>7 DEF Wholes
    <3> QED BY <1>0, <3>1 DEF Buffer, fullSize
  <2>8. DOMAIN buffer' = Buffers
    BY <2>1 DEF Wholes
  <2> QED BY <1>0, <2>3, <2>4, <2>5, <2>6, <2>7, <2>8, TreeKeeps DEF Wholes
<1> QED BY <1>1, <1>2

(* A turn gets a goroutine on, and not beyond its end.                     *)
LEMMA TurnEnds ==
  ASSUME EncOK, NEW j, NEW w, w.next \in Nat, w.hi \in Nat, w.lo \in Nat, w.next < w.hi,
         w.lo <= w.next
  PROVE  /\ turnEnd(j, w) \in Nat /\ w.next <= turnEnd(j, w) /\ turnEnd(j, w) <= w.hi
         /\ j.path = "avx2" /\ w.next = 0 => turnEnd(j, w) # 0
<1>1. PICK s \in Settings : enc = New(s)
  BY DEF EncOK
<1>2. enc.perRound \in Nat
  BY <1>1, NewType
<1> DEFINE left == w.hi - w.next
           kernel == w.next + avxMasked(left)
           round == least(w.next + enc.perRound, w.hi)
<1>3. left \in Nat /\ left # 0 /\ w.next + left = w.hi
  OBVIOUS
<1>4. /\ avxMasked(left) \in Nat /\ avxMasked(left) <= left
      /\ left >= 64 => avxMasked(left) # 0
  <2> HIDE DEF left
  <2> QED BY <1>3 DEF avxMasked, minAvx2Size
<1>5. kernel \in Nat /\ w.next <= kernel /\ kernel <= w.hi
  <2> DEFINE a == avxMasked(left)
  <2> HIDE DEF a, left
  <2> QED BY <1>3, <1>4 DEF a
<1>6. round \in Nat /\ w.next <= round /\ round <= w.hi
  BY <1>2, LeastMost
<1>7. turnEnd(j, w) = IF viaKernel(j, w) THEN kernel
                      ELSE IF j.path \in {"avx2", "tiled", "update", "updateP"} THEN w.hi
                      ELSE round
  BY DEF turnEnd
<1>8. /\ turnEnd(j, w) \in Nat /\ w.next <= turnEnd(j, w) /\ turnEnd(j, w) <= w.hi
  <2> HIDE DEF kernel, round
  <2> QED BY <1>5, <1>6, <1>7
<1>9. ASSUME j.path = "avx2", w.next = 0 PROVE turnEnd(j, w) # 0
  <2>1. CASE viaKernel(j, w)
    <3>1. w.hi - w.lo >= 64 /\ w.next = w.lo
      BY <1>9, <2>1 DEF viaKernel, minAvx2Size
    <3>2. left >= 64
      BY <3>1
    <3>3. avxMasked(left) # 0 /\ kernel = 0 + avxMasked(left)
      BY <1>4, <1>9, <3>2
    <3> HIDE DEF left, kernel
    <3> QED BY <1>4, <1>7, <2>1, <3>3
  <2>2. CASE ~viaKernel(j, w)
    <3>1. turnEnd(j, w) = w.hi
      BY <1>7, <1>9, <2>2
    <3> QED BY <3>1
  <2> QED BY <2>1, <2>2
<1> QED BY <1>8, <1>9

(* What Advance does to the caller's goroutines.                           *)
LEMMA Advanced ==
  ASSUME CoderInv, NEW c \in Callers, NEW w \in workers[c], Advance(c, w),
         UNCHANGED <<enc, pc, call>>
  PROVE  /\ Turns(c)'
         /\ job[c].path = "avx2" =>
              \E v : workers'[c] = {v} /\ (w.next = 0 => v.next # 0)
                     /\ (w.next # 0 => v.next # 0)
         /\ pc[c] \in {"spawn", "wait"} /\ Job(c)
         /\ job[c].path = "avx2" => pc[c] = "wait" /\ workers[c] = {w}
         /\ job[c].path = "avx2" /\ w.next = 0 => job[c].buf # 0
<1> USE DEF CoderInv
<1> DEFINE v == [w EXCEPT !.next = turnEnd(job[c], w)]
<1>0. EncOK /\ DOMAIN workers = Callers
  BY DEF RangesInv, EncOK, Domains
<1>1. pc[c] \in {"spawn", "wait"} /\ Job(c) /\ w.next < w.hi /\ call[c].n \in Nat
  BY DEF Advance, RangesInv, Caller, busy
<1>2. /\ {"lo", "hi", "next"} \subseteq DOMAIN w /\ w.lo \in Nat /\ w.hi \in Nat
      /\ w.next \in Nat /\ w.lo <= w.next /\ w.next <= w.hi /\ w.hi <= call[c].n
  BY <1>1 DEF Job, Turns, RangesInv, Caller, Ranges
<1>3. /\ turnEnd(job[c], w) \in Nat /\ w.next <= turnEnd(job[c], w)
      /\ turnEnd(job[c], w) <= w.hi
      /\ job[c].path = "avx2" /\ w.next = 0 => turnEnd(job[c], w) # 0
  BY <1>0, <1>1, <1>2, TurnEnds
<1>4. v.lo = w.lo /\ v.hi = w.hi /\ v.next = turnEnd(job[c], w)
  BY <1>2
<1>5. workers'[c] = (workers[c] \ {w}) \cup {v}
  BY <1>0 DEF Advance
<1> HIDE DEF v
<1>6. v.next \in Nat /\ v.lo <= v.next /\ v.next <= v.hi /\ v.hi <= call[c].n
  BY <1>2, <1>3, <1>4
<1>7. Turns(c)'
  BY <1>1, <1>5, <1>6 DEF Job, Turns
<1>8. ASSUME job[c].path = "avx2"
      PROVE  /\ pc[c] = "wait" /\ workers[c] = {w} /\ (w.next = 0 => job[c].buf # 0)
             /\ workers'[c] = {v} /\ v.next # 0
  <2>1. PICK u : workers[c] = {u} /\ (u.next = 0 => job[c].buf # 0)
    BY <1>1, <1>8 DEF Job, Working
  <2>2. u = w
    BY <2>1
  <2>3. workers'[c] = {v}
    BY <1>5, <2>1, <2>2
  <2>4. v.next # 0
    BY <1>2, <1>3, <1>4, <1>8
  <2>5. pc[c] = "wait"
    BY <1>1, <1>8 DEF Job, Working
  <2> QED BY <2>1, <2>2, <2>3, <2>4, <2>5
<1> QED BY <1>1, <1>7, <1>8

LEMMA StepWork ==
  ASSUME CoderInv, RangesInv', NEW c \in Callers, NEW w \in workers[c], Work(c, w)
  PROVE  CoderInv'
<1> USE DEF CoderInv
<1> DEFINE early == job[c].path = "avx2" /\ w.next = 0
<1>0. EncOK /\ enc' = enc /\ Buffers' = Buffers
  BY DEF RangesInv, EncOK, Work, Buffers
<1>1. UNCHANGED <<enc, pc, call, tree, start, do, calls>> /\ Advance(c, w)
  BY DEF Work
<1>2. /\ Turns(c)' /\ pc[c] \in {"spawn", "wait"} /\ Job(c)
      /\ job[c].path = "avx2" =>
           \E v : workers'[c] = {v} /\ v.next # 0
      /\ job[c].path = "avx2" => pc[c] = "wait"
      /\ early => job[c].buf # 0
  BY <1>1, Advanced
<1>3. /\ pool' = IF early THEN pool \cup {job[c].buf} ELSE pool
      /\ buffer' = IF early THEN putBack(c) ELSE buffer
      /\ job' = IF early THEN [job EXCEPT ![c].buf = 0] ELSE job
  BY DEF Work
<1> HIDE DEF early
<1>4. /\ job'[c].rows = job[c].rows /\ job'[c].ins = job[c].ins /\ job'[c].outs = job[c].outs
      /\ job'[c].path = job[c].path /\ job'[c].buf \in {0, job[c].buf}
      /\ early => job'[c].buf = 0
      /\ {"ins", "outs", "path", "buf", "rows"} \subseteq DOMAIN job'[c]
      /\ DOMAIN job' = Callers
      /\ \A d \in Callers \ {c} : job'[d] = job[d]
  BY <1>2, <1>3 DEF Job, Wholes
<1>5. Rebuilds(c) => Rebuilds(c)'
  BY <1>0, <1>1, RowsNotNone DEF Rebuilds
<1>6. Working(c)'
  <2>1. /\ borrows(job[c].path) => job[c].ins = enc.D /\ job[c].outs # 0
        /\ job[c].path \in {"avx2", "avx2P"} => enc.D <= maxAvx2Inputs
    BY <1>2 DEF Job, Working
  <2> QED BY <1>1, <1>2, <1>4, <2>1 DEF Working
<1>7. Job(c)'
  BY <1>0, <1>1, <1>2, <1>4, <1>5, <1>6 DEF Job
<1>8. \A d \in Callers \ {c} : hers(d)' = hers(d)
  BY <1>1, <1>4 DEF Advance, hers
<1>9. \A d \in Callers : Job(d)'
  BY <1>0, <1>7, <1>8, JobsKeep
<1>10. Apart' /\ Pooled' /\ (\A b \in Buffers : Buffer(b)') /\ DOMAIN buffer' = Buffers
  <2>1. CASE ~early
    <3>1. UNCHANGED <<enc, buffer, pool, job>>
      BY <1>0, <1>3, <2>1
    <3> QED BY <1>4, <3>1, BuffersKeep DEF Wholes
  <2>2. CASE early
    <3>1. pc[c] = "wait" /\ job[c].buf # 0
      BY <1>2, <2>2 DEF early
    <3> QED BY <1>0, <1>3, <1>4, <2>2, <3>1, BuffersReturn
  <2> QED BY <2>1, <2>2
<1>11. TreeInv'
  BY <1>0, <1>1, TreeKeeps
<1>12. Wholes'
  BY <1>0, <1>1, <1>4, <1>10 DEF Wholes
<1> QED BY <1>0, <1>9, <1>10, <1>11, <1>12

LEMMA StepWorkUpdate ==
  ASSUME CoderInv, RangesInv', NEW c \in Callers, NEW w \in workers[c], WorkUpdate(c, w)
  PROVE  CoderInv'
<1> USE DEF CoderInv
<1>0. EncOK /\ enc' = enc /\ Buffers' = Buffers
  BY DEF RangesInv, EncOK, WorkUpdate, Buffers
<1>1. UNCHANGED <<enc, pc, call, tree, start, do, calls, job, buffer, pool>> /\ Advance(c, w)
      /\ job[c].path \in {"update", "updateP"}
  BY DEF WorkUpdate
<1>2. Turns(c)' /\ Job(c)
  BY <1>1, Advanced
<1>5. Rebuilds(c) => Rebuilds(c)'
  BY <1>0, <1>1, RowsNotNone DEF Rebuilds
<1>6. Working(c)'
  BY <1>1 DEF Working, borrows
<1>7. Job(c)'
  BY <1>0, <1>1, <1>2, <1>5, <1>6 DEF Job
<1>8. \A d \in Callers \ {c} : hers(d)' = hers(d)
  BY <1>1 DEF Advance, hers
<1>9. \A d \in Callers : Job(d)'
  BY <1>0, <1>7, <1>8, JobsKeep
<1>10. TreeInv' /\ Apart' /\ Pooled' /\ \A b \in Buffers : Buffer(b)'
  BY <1>0, <1>1, TreeKeeps, BuffersKeep
<1> QED BY <1>0, <1>1, <1>9, <1>10 DEF Wholes

LEMMA StepFinish ==
  ASSUME CoderInv, RangesInv', NEW c \in Callers, Finish(c)
  PROVE  CoderInv'
<1> USE DEF CoderInv
<1> DEFINE more == job[c].rows # <<>> /\ ~call[c].dataOnly
           parity == Cardinality(call[c].lost) - Cardinality(lostData(call[c]))
<1>0. EncOK /\ enc' = enc /\ Buffers' = Buffers /\ DOMAIN pc = Callers /\ DOMAIN start = Callers
      /\ DOMAIN do = Callers /\ DOMAIN workers = Callers
  BY DEF RangesInv, EncOK, Finish, Buffers, Domains
<1>1. pc[c] = "wait" /\ Job(c) /\ UNCHANGED <<tree, calls>>
  BY DEF Finish
<1>2. /\ pc'[c] = IF more THEN "code" ELSE "returned"
      /\ job' = [job EXCEPT ![c] =
           IF more THEN [noJob EXCEPT !.ins = enc.D, !.outs = parity] ELSE noJob]
      /\ call' = IF more THEN call ELSE [call EXCEPT ![c] = idle]
      /\ workers'[c] = {} /\ start'[c] = 0 /\ do'[c] = 0
  BY <1>0 DEF Finish
<1>3. more => parity \in 0..enc.P
  <2> SUFFICES ASSUME more PROVE parity \in 0..enc.P
    OBVIOUS
  <2>1. CanRebuild(call[c].lost)
    BY <1>1 DEF Job, Rebuilds
  <2>2. IsFiniteSet(call[c].lost) /\ Cardinality(call[c].lost) \in Nat
        /\ Cardinality(call[c].lost) <= enc.P /\ enc.P \in Nat
    BY <1>0, <2>1, RowsLeft, Geometry DEF CanRebuild
  <2>3. lostData(call[c]) \in SUBSET call[c].lost
    BY DEF lostData
  <2>4. /\ Cardinality(lostData(call[c])) \in Nat
        /\ Cardinality(lostData(call[c])) <= Cardinality(call[c].lost)
    BY <2>2, <2>3, FS_Subset, FS_CardinalityType
  <2> QED BY <2>2, <2>4
<1> HIDE DEF more, parity
<1>4. /\ job'[c].rows = <<>> /\ job'[c].path = "nothing" /\ job'[c].buf = 0
      /\ (more => job'[c].ins = enc.D) /\ job'[c].outs \in 0..enc.P
      /\ {"ins", "outs", "path", "buf", "rows"} \subseteq DOMAIN job'[c]
      /\ DOMAIN job' = Callers
      /\ \A d \in Callers \ {c} : job'[d] = job[d]
  BY <1>0, <1>2, <1>3, Geometry DEF Wholes, noJob
<1>5. Job(c)'
  BY <1>0, <1>1, <1>2, <1>4 DEF Job, Working, Turns, steps
<1>6. \A d \in Callers \ {c} : hers(d)' = hers(d)
  <2>1. \A d \in Callers \ {c} : call'[d] = call[d] /\ job'[d] = job[d]
    BY <1>2, <1>4
  <2> QED BY <1>1, <2>1 DEF Finish, hers
<1>7. \A d \in Callers : Job(d)'
  BY <1>0, <1>5, <1>6, JobsKeep
<1>8. Apart' /\ Pooled' /\ (\A b \in Buffers : Buffer(b)') /\ DOMAIN buffer' = Buffers
  <2>1. /\ pool' = pool \cup ({job[c].buf} \ {0})
        /\ buffer' = IF job[c].buf = 0 THEN buffer ELSE putBack(c)
    BY DEF Finish
  <2>2. CASE job[c].buf = 0
    <3>1. UNCHANGED <<enc, buffer, pool>>
      BY <1>0, <2>1, <2>2
    <3> QED BY <1>4, <2>2, <3>1, BuffersKeep DEF Wholes
  <2>3. CASE job[c].buf # 0
    <3>1. pool' = pool \cup {job[c].buf} /\ buffer' = putBack(c)
      BY <2>1, <2>3
    <3> QED BY <1>0, <1>1, <1>4, <2>3, <3>1, BuffersReturn
  <2> QED BY <2>2, <2>3
<1>9. TreeInv'
  BY <1>0, <1>1, TreeKeeps
<1>10. Wholes'
  BY <1>0, <1>1, <1>4, <1>8 DEF Wholes
<1> QED BY <1>0, <1>7, <1>8, <1>9, <1>10

LEMMA StepNone ==
  ASSUME CoderInv, RangesInv', UNCHANGED vars
  PROVE  CoderInv'
<1> USE DEF CoderInv
<1>0. EncOK /\ Buffers' = Buffers
  BY DEF RangesInv, EncOK, Buffers
<1>1. UNCHANGED <<enc, tree, buffer, pool, job, calls>>
      /\ \A d \in Callers : hers(d)' = hers(d)
  BY DEF vars, hers
<1>2. ASSUME NEW d \in Callers PROVE Job(d)'
  <2>1. Job(d)
    OBVIOUS
  <2>2. /\ pc' = pc /\ call' = call /\ workers' = workers
        /\ start' = start /\ do' = do /\ calls' = calls /\ job' = job
    BY DEF vars
  <2>3. Rebuilds(d) => Rebuilds(d)'
    BY <1>0, <1>1, <2>2, RowsNotNone DEF Rebuilds
  <2>4. Working(d)' /\ Turns(d)'
    BY <1>1, <2>1, <2>2 DEF Job, Working, Turns
  <2> QED BY <1>0, <1>1, <2>1, <2>2, <2>3, <2>4 DEF Job
<1>3. TreeInv'
  BY <1>0, <1>1, TreeKeeps
<1>4. Apart' /\ Pooled' /\ \A b \in Buffers : Buffer(b)'
  BY <1>0, <1>1 DEF Apart, Pooled, Buffer, fullSize
<1> QED BY <1>0, <1>1, <1>2, <1>3, <1>4 DEF Wholes

LEMMA CoderStep ==
  ASSUME CoderInv, [Next]_vars
  PROVE  CoderInv'
<1>1. RangesInv'
  BY RangesStep DEF CoderInv
<1>2. CASE UNCHANGED vars
  BY <1>1, <1>2, StepNone
<1>3. ASSUME NEW c \in Callers, NEW r \in Requests(c, enc), Begin(c, r)
      PROVE  CoderInv'
  BY <1>3, StepBegin
<1>4. ASSUME NEW c \in Callers, Lookup(c) PROVE CoderInv'
  BY <1>1, <1>4, StepLookup
<1>5. ASSUME NEW c \in Callers, Insert(c) PROVE CoderInv'
  BY <1>1, <1>5, StepInsert
<1>6. ASSUME NEW c \in Callers, NEW idx \in 0..(enc.D - 1), Deliver(c, idx)
      PROVE  CoderInv'
  BY <1>1, <1>6, StepDeliver
<1>7. ASSUME NEW c \in Callers, Code(c) PROVE CoderInv'
  BY <1>1, <1>7, StepCode
<1>8. ASSUME NEW c \in Callers, Spawn(c) PROVE CoderInv'
  BY <1>1, <1>8, StepSpawn
<1>9. ASSUME NEW c \in Callers, AllSpawned(c) PROVE CoderInv'
  BY <1>1, <1>9, StepAllSpawned
<1>10. ASSUME NEW c \in Callers, Finish(c) PROVE CoderInv'
  BY <1>1, <1>10, StepFinish
<1>11. ASSUME NEW c \in Callers, NEW w \in workers[c], Work(c, w) PROVE CoderInv'
  BY <1>1, <1>11, StepWork
<1>12. ASSUME NEW c \in Callers, NEW w \in workers[c], WorkUpdate(c, w) PROVE CoderInv'
  BY <1>1, <1>12, StepWorkUpdate
<1> QED BY <1>2, <1>3, <1>4, <1>5, <1>6, <1>7, <1>8, <1>9, <1>10, <1>11, <1>12
        DEF Next, Step

-----------------------------------------------------------------------------
LEMMA CoderTypes == CoderInv => TypeOK
<1> SUFFICES ASSUME CoderInv PROVE TypeOK
  OBVIOUS
<1> USE DEF CoderInv
<1>1. pool \subseteq Buffers /\ pool \cap held = {}
  BY DEF Pooled, held
<1>2. \A b \in Buffers : buffer[b].len \in 1..fullSize
                         /\ DOMAIN buffer[b].coefs = 0..(fullSize - 1)
  BY DEF Buffer
<1>3. ASSUME NEW c \in Callers
      PROVE /\ pc[c] \in {"idle", "lookup", "insert", "code", "spawn", "wait",
                     "deliver", "returned", "panicked"}
            /\ job[c].buf \in Buffers \cup {0}
            /\ start[c] \in Nat /\ do[c] \in Nat /\ calls[c] \in 0..MaxCalls
  <2>1. Job(c)
    OBVIOUS
  <2> QED BY <2>1 DEF Job, steps
<1>4. ASSUME NEW c \in Callers, NEW w \in workers[c]
      PROVE  0 <= w.lo /\ w.lo <= w.next /\ w.next <= w.hi /\ w.hi <= call[c].n
  <2>1. Turns(c) /\ Ranges(c)
    BY DEF Job, RangesInv, Caller
  <2> QED BY <2>1 DEF Turns, Ranges
<1> QED BY <1>1, <1>2, <1>3, <1>4 DEF TypeOK

(* The pool of buffers, the goroutines and the calls are what they should  *)
(* be: no buffer is both in the pool and in use, none has shrunk to        *)
(* nothing or grown, and every goroutine is within its range               *)
(* (reedsolomon.go: getTmpSlice, putTmpSlice, codeSomeShardsP).            *)
THEOREM CoderTypeOK == Spec => []TypeOK
  BY CoderInit, CoderStep, CoderTypes, PTL DEF Spec

(* A rebuild decodes with the inverse of the very rows that it has,        *)
(* whichever call computed it and whatever was inserted into the tree in   *)
(* between (reedsolomon.go: reconstruct; inversion_tree.go).               *)
THEOREM RightMatrix == Spec => []RowsMatch
<1>1. CoderInv => RowsMatch
  BY DEF CoderInv, Job, RowsMatch
<1> QED BY CoderInit, CoderStep, <1>1, PTL DEF Spec
-----------------------------------------------------------------------------
(* No call panics on an encoder whose kernels take all its outputs, or not *)
(* all its inputs.                                                         *)
Fit == \A s \in Settings : s.avx2 => s.D > maxAvx2Inputs \/ s.P <= maxAvx2Outputs

LEMMA NotTooShort ==
  ASSUME CoderInv, Fit, NEW c \in Callers, pc[c] = "code", NEW len,
         enc.D > maxAvx2Inputs => len = fullSize
  PROVE  ~tooShort([job[c] EXCEPT !.path = wayOf(c)], len)
<1> USE DEF CoderInv
<1> DEFINE j == [job[c] EXCEPT !.path = wayOf(c)]
           o == job[c].outs
<1>0. EncOK /\ Job(c) /\ job[c].ins = enc.D /\ call[c].n \in Nat \ {0}
  BY DEF RangesInv, EncOK, Job, Caller, busy
<1>1. PICK s \in Settings : enc = New(s)
  BY <1>0 DEF EncOK
<1>2. enc.D = s.D /\ enc.P = s.P /\ enc.avx2 = s.avx2 /\ s.avx2 \in BOOLEAN
  BY <1>1, SettingsAssumption DEF New
<1>3. enc.D \in Nat \ {0} /\ enc.P \in Nat \ {0} /\ o \in 0..enc.P
  BY <1>0, Geometry DEF Job
<1>4. j.path = wayOf(c) /\ j.ins = enc.D /\ j.outs = o
  BY <1>0 DEF Job
<1>5. SUFFICES ASSUME wayOf(c) = "planP" PROVE ~(enc.D * o > len)
  BY <1>4 DEF tooShort
<1>6. /\ ~canAVX2C(enc, call[c].n, enc.D, o)
      /\ canAVX2C(enc, call[c].n \div 4, maxAvx2Inputs, maxAvx2Outputs)
      /\ enc.D + o > avx2CodeGenMinShards
  BY <1>0, <1>5 DEF wayOf, pathOf
<1>7. enc.avx2 /\ call[c].n \div 4 >= 64
  BY <1>6 DEF canAVX2C, avx2CodeGenMinSize
<1>8. call[c].n >= 64
  <2> DEFINE n == call[c].n
  <2>1. n \in Nat /\ n \div 4 >= 64
    BY <1>0, <1>7
  <2> HIDE DEF n
  <2>2. n >= 64
    BY <2>1
  <2> QED BY <2>2 DEF n
<1>9. ~(enc.D <= 10 /\ o <= 10)
  BY <1>3, <1>6, <1>7, <1>8 DEF canAVX2C, avx2CodeGenMinSize, avx2CodeGenMinShards,
     maxAvx2Inputs, maxAvx2Outputs
<1>10. enc.D > maxAvx2Inputs
  <2>1. s.avx2
    BY <1>2, <1>7
  <2>2. s.D > 10 \/ s.P <= 10
    BY <2>1 DEF Fit, maxAvx2Inputs, maxAvx2Outputs
  <2>3. enc.D > 10 \/ enc.P <= 10
    BY <1>2, <2>2
  <2> HIDE DEF o
  <2>4. o <= enc.P /\ o \in Nat
    BY <1>3
  <2> QED BY <1>3, <1>9, <2>3, <2>4 DEF maxAvx2Inputs
<1>11. len = enc.D * enc.P
  BY <1>10 DEF fullSize
<1> HIDE DEF o, j
<1>12. o \in Nat /\ o <= enc.P
  BY <1>3
<1>13. enc.D * o <= enc.D * enc.P /\ enc.D * o \in Nat
  BY <1>3, <1>12, TimesMore
<1>14. enc.D * enc.P \in Nat
  BY <1>3
<1> DEFINE x == enc.D * o
           y == enc.D * enc.P
<1> HIDE DEF x, y
<1>15. x <= y => ~(x > y)
  BY <1>13, <1>14 DEF x, y
<1> QED BY <1>11, <1>13, <1>15 DEF x, y

LEMMA NoPanic ==
  ASSUME CoderInv, Fit, Reusable, [Next]_vars
  PROVE  Reusable'
<1> USE DEF CoderInv
<1>0. EncOK /\ DOMAIN pc = Callers
  BY DEF RangesInv, EncOK, Domains
<1> SUFFICES ASSUME NEW d \in Callers PROVE pc'[d] # "panicked"
  BY DEF Reusable
<1>1. pc[d] # "panicked"
  BY DEF Reusable
<1>2. CASE pc' = pc
  BY <1>1, <1>2
<1>3. ASSUME NEW c \in Callers, NEW r \in Requests(c, enc), Begin(c, r)
      PROVE  pc'[d] # "panicked"
  BY <1>0, <1>1, <1>3 DEF Begin
<1>4. ASSUME NEW c \in Callers, Lookup(c) PROVE pc'[d] # "panicked"
  <2>1. Rebuilds(c)
    BY <1>4 DEF Lookup, Job
  <2>2. rising(call[c].invalid)
    BY <1>0, <2>1, MarkedKey DEF Rebuilds, keyLost
  <2>3. walkable(tree, call[c].invalid)
    BY <1>0, <2>2, Walkable
  <2> QED BY <1>0, <1>1, <1>4, <2>3 DEF Lookup
<1>5. ASSUME NEW c \in Callers, Insert(c) PROVE pc'[d] # "panicked"
  BY <1>0, <1>1, <1>5 DEF Insert
<1>6. ASSUME NEW c \in Callers, NEW idx \in 0..(enc.D - 1), Deliver(c, idx)
      PROVE  pc'[d] # "panicked"
  BY <1>0, <1>1, <1>6 DEF Deliver
<1>7. ASSUME NEW c \in Callers, Code(c) PROVE pc'[d] # "panicked"
  <2>1. enc.maxGoroutines # 0
    BY <1>0, NewType DEF EncOK
  <2>2. PICK b, len : /\ Dispatch(c, wayOf(c), b, len)
                      /\ b # 0 => b \in Buffers
                                  /\ len \in {fullSize, buffer[b].len}
    BY <1>7 DEF Code
  <2>3. b # 0 => ~tooShort([job[c] EXCEPT !.path = wayOf(c)], len)
    <3>1. ASSUME b # 0, enc.D > maxAvx2Inputs PROVE len = fullSize
      BY <2>2, <3>1 DEF Buffer
    <3>2. pc[c] = "code"
      BY <2>2 DEF Dispatch
    <3> QED BY <3>1, <3>2, NotTooShort
  <2> QED BY <1>0, <1>1, <2>1, <2>2, <2>3 DEF Dispatch
<1>9. ASSUME NEW c \in Callers, AllSpawned(c) PROVE pc'[d] # "panicked"
  BY <1>0, <1>1, <1>9 DEF AllSpawned
<1>10. ASSUME NEW c \in Callers, Finish(c) PROVE pc'[d] # "panicked"
  BY <1>0, <1>1, <1>10 DEF Finish
<1>11. ASSUME NEW c \in Callers, NEW w \in workers[c], Work(c, w) \/ WorkUpdate(c, w)
       PROVE  pc' = pc
  BY <1>11 DEF Work, WorkUpdate
<1>12. ASSUME NEW c \in Callers, Spawn(c) PROVE pc' = pc
  BY <1>12 DEF Spawn
<1> QED BY <1>2, <1>3, <1>4, <1>5, <1>6, <1>7, <1>9, <1>10, <1>11, <1>12
        DEF Next, Step, vars

(* "You can reuse this encoder": no call panics, however the calls of many *)
(* goroutines follow each other, on an encoder with at most as many parity *)
(* shards as a kernel makes, or with more data shards than one takes       *)
(* (reedsolomon.go: codeSomeShardsAVXP, getTmpSlice; inversion_tree.go).   *)
(* With fewer data and more parity shards a call may panic: PoolReuse.     *)
THEOREM EncodersReusable ==
  ASSUME Fit
  PROVE  Spec => []Reusable
<1>1. Init => Reusable
  BY DEF Init, Reusable
<1>2. CoderInv /\ Reusable /\ [Next]_vars => CoderInv' /\ Reusable'
  BY CoderStep, NoPanic
<1> QED BY CoderInit, <1>1, <1>2, PTL DEF Spec

-----------------------------------------------------------------------------
(* The tree is a cache.                                                    *)

matrices == {p \in DOMAIN tree : tree[p].matrix # nil}
keys == {keyOf(p) : p \in matrices}

LEMMA KeyOfWay ==
  ASSUME EncOK, NEW lost, CanRebuild(lost)
  PROVE  keyOf(wayTo(keyLost(lost))) = keyLost(lost)
<1> DEFINE key == keyLost(lost)
<1>1. key \in Seq(Int)
  BY MarkedKey, RisingType DEF keyLost
<1> HIDE DEF key
<1>2. keyOf(path(key, Len(key))) = key
  BY <1>1, KeyOfPath
<1> QED BY <1>2 DEF key, wayTo

(* What it caches under a key is decided by the key.                       *)
LEMMA CachedRows ==
  ASSUME EncOK, \A p \in DOMAIN tree : NodeRight(p)
  PROVE  cached(tree) = [key \in keys |-> firstRows(range(key))]
<1> DEFINE chosen(key) == CHOOSE p \in matrices : keyOf(p) = key
<1>1. ASSUME NEW p \in matrices
      PROVE  tree[p].matrix = firstRows(range(keyOf(p)))
  <2>1. PICK lost : /\ CanRebuild(lost) /\ p = wayTo(keyLost(lost))
                    /\ tree[p].matrix = validIndices(lost)
    BY DEF matrices, NodeRight
  <2>2. keyOf(p) = keyLost(lost)
    BY <2>1, KeyOfWay
  <2>3. range(keyOf(p)) = marked(lost)
    BY <2>1, <2>2, MarkedKey DEF keyLost
  <2> QED BY <2>1, <2>3, MarkedDecide
<1>2. cached(tree) = [key \in keys |-> tree[chosen(key)].matrix]
  BY DEF cached, matrices, keys
<1>3. ASSUME NEW key \in keys PROVE tree[chosen(key)].matrix = firstRows(range(key))
  <2>1. \E p \in matrices : keyOf(p) = key
    BY DEF keys
  <2>2. chosen(key) \in matrices /\ keyOf(chosen(key)) = key
    BY <2>1
  <2> HIDE DEF chosen
  <2> QED BY <1>1, <2>2
<1> HIDE DEF chosen
<1> QED BY <1>2, <1>3

LEMMA CachedRowsNext ==
  (EncOK /\ (\A p \in DOMAIN tree : NodeRight(p))
     => cached(tree) = [key \in keys |-> firstRows(range(key))])'
<1>1. EncOK /\ (\A p \in DOMAIN tree : NodeRight(p))
        => cached(tree) = [key \in keys |-> firstRows(range(key))]
  BY CachedRows
<1> QED BY <1>1, PTL

LEMMA InsertedKeys ==
  ASSUME EncOK, NEW lost, CanRebuild(lost), keyLost(lost) # <<>>,
         tree' = insertInvertedMatrix(tree, keyLost(lost), validIndices(lost), Shards)
  PROVE  keys' = keys \cup {keyLost(lost)}
<1> DEFINE key == keyLost(lost)
           v == validIndices(lost)
           new == {path(key, k) : k \in 1..Len(key)}
<1>1. rising(key) /\ Len(key) \in Nat /\ key \in Seq(Int) /\ \A j \in 1..Len(key) : key[j] \in Int
  BY MarkedKey, RisingType DEF keyLost
<1>2. Len(key) # 0 /\ v # nil
  <2>1. v # nil
    BY ValidRows DEF nil
  <2>2. key # <<>>
    OBVIOUS
  <2> HIDE DEF key, v
  <2> QED BY <1>1, <2>1, <2>2, EmptySeq
<1>3. /\ DOMAIN tree' = new \cup DOMAIN tree
      /\ \A p \in DOMAIN tree \ new : tree'[p] = tree[p]
      /\ \A p \in new :
           tree'[p].matrix = IF Len(p) = Len(key) THEN v
                             ELSE IF p \in DOMAIN tree THEN tree[p].matrix ELSE nil
  <2> HIDE DEF key, v
  <2> QED BY DEF insertInvertedMatrix, overlay, key, v
<1>4. \A k \in 1..Len(key) : Len(path(key, k)) = k
  <2> SUFFICES ASSUME NEW k \in 1..Len(key) PROVE Len(path(key, k)) = k
    OBVIOUS
  <2> HIDE DEF key
  <2>1. k \in Nat /\ \A j \in 1..k : key[j] \in Int
    BY <1>1
  <2> QED BY <2>1, PathType
<1>5. wayTo(key) \in new /\ \A p \in new : Len(p) = Len(key) <=> p = wayTo(key)
  <2> HIDE DEF key
  <2> QED BY <1>1, <1>2, <1>4 DEF wayTo
<1>6. matrices' = matrices \cup {wayTo(key)}
  <2> HIDE DEF key, v, new
  <2> QED BY <1>2, <1>3, <1>5 DEF matrices
<1>7. keyOf(wayTo(key)) = key
  BY KeyOfWay
<1> HIDE DEF key
<1> QED BY <1>6, <1>7 DEF keys, key

LEMMA CacheInit == Init => Cache!Init
<1> SUFFICES ASSUME Init PROVE Cache!Init
  OBVIOUS
<1>1. CASE ~enc.caching
  <2>1. DOMAIN tree = {}
    BY <1>1 DEF Init
  <2>2. cached(tree) = <<>>
    <3>1. cached(tree) = [key \in keys |-> tree[CHOOSE p \in matrices : keyOf(p) = key].matrix]
      BY DEF cached, keys, matrices
    <3>2. keys = {}
      BY <2>1 DEF keys, matrices
    <3> QED BY <3>1, <3>2
  <2> QED BY <1>1, <2>2 DEF Cache!Init
<1>2. CASE enc.caching
  <2>1. EncOK /\ TreeInv
    BY CoderInit DEF CoderInv, RangesInv, EncOK
  <2>2. tree = newInversionTree(enc.D, enc.P)
    BY <1>2 DEF Init
  <2>3. DOMAIN tree = {<<>>} /\ tree[<<>>].matrix = [k \in 1..enc.D |-> k - 1]
    BY <2>2 DEF newInversionTree
  <2>4. tree[<<>>].matrix # nil
    <3> DEFINE m == [k \in 1..enc.D |-> k - 1]
    <3>1. 1 \in DOMAIN m
      BY <2>1, Geometry
    <3>2. DOMAIN <<>> = {}
      OBVIOUS
    <3> HIDE DEF m
    <3>3. m # <<>>
      BY <3>1, <3>2
    <3> QED BY <2>3, <3>3 DEF m, nil
  <2>5. matrices = {<<>>}
    BY <2>3, <2>4 DEF matrices
  <2>6. keyOf(<<>>) = <<>>
    BY DEF keyOf
  <2>7. cached(tree) = [key \in {<<>>} |-> tree[<<>>].matrix]
    <3>1. keys = {<<>>}
      BY <2>5, <2>6 DEF keys
    <3>2. cached(tree) = [key \in keys |-> tree[CHOOSE p \in matrices : keyOf(p) = key].matrix]
      BY DEF cached, keys, matrices
    <3> DEFINE chosen(key) == CHOOSE p \in matrices : keyOf(p) = key
    <3>3. ASSUME NEW key \in keys PROVE chosen(key) = <<>>
      <4>1. key = <<>>
        BY <3>1, <3>3
      <4>2. \E p \in matrices : keyOf(p) = key
        BY <2>5, <2>6, <4>1
      <4>3. chosen(key) \in matrices
        BY <4>2
      <4> QED BY <2>5, <4>3
    <3>4. cached(tree) = [key \in keys |-> tree[chosen(key)].matrix]
      BY <3>2
    <3> HIDE DEF chosen
    <3> QED BY <3>1, <3>3, <3>4
  <2> QED BY <1>2, <2>3, <2>7 DEF Cache!Init
<1> QED BY <1>1, <1>2

LEMMA CacheInsert ==
  ASSUME CoderInv, CoderInv', NEW c \in Callers, Insert(c), tree' # tree
  PROVE  Cache!Next \/ UNCHANGED <<cached(tree), [dataShards |-> enc.D, shards |-> Shards,
                                                  caching |-> enc.caching]>>
<1> USE DEF CoderInv
<1>0. EncOK /\ enc' = enc /\ Shards' = Shards /\ TreeInv /\ TreeInv'
  BY DEF RangesInv, EncOK, Insert, Shards
<1>1. Rebuilds(c) /\ enc.caching /\ call[c].invalid # <<>>
      /\ tree' = insertInvertedMatrix(tree, call[c].invalid, call[c].valid, Shards)
  BY DEF Insert, Job
<1>2. PICK lost : lost = call[c].lost
  OBVIOUS
<1>3. /\ CanRebuild(lost) /\ keyLost(lost) # <<>>
      /\ tree' = insertInvertedMatrix(tree, keyLost(lost), validIndices(lost), Shards)
  BY <1>1, <1>2 DEF Rebuilds
<1> DEFINE key == keyLost(lost)
<1>4. keys' = keys \cup {key}
  BY <1>0, <1>3, InsertedKeys
<1>5. cached(tree) = [other \in keys |-> firstRows(range(other))]
  <2>1. \A p \in DOMAIN tree : NodeRight(p)
    BY <1>0, <1>1 DEF TreeInv
  <2> QED BY <1>0, <2>1, CachedRows
<1>6. cached(tree)' = [other \in keys' |-> firstRows(range(other))]
  <2>1. EncOK' /\ \A p \in DOMAIN tree' : NodeRight(p)'
    BY <1>0, <1>1 DEF TreeInv, EncOK
  <2>3. cached(tree)' = [other \in keys' |-> firstRows(range(other))']
    BY <2>1, CachedRowsNext
  <2>4. \A other : firstRows(range(other))' = firstRows(range(other))
    BY <1>0 DEF firstRows, range, rows, rank
  <2> QED BY <2>3, <2>4
<1>7. CASE key \in keys
  <2>1. keys' = keys
    BY <1>4, <1>7
  <2> QED BY <1>0, <1>5, <1>6, <2>1
<1>8. CASE key \notin keys
  <2>1. /\ rising(key) /\ Len(key) \in Nat /\ Len(key) <= enc.P
        /\ \A k \in 1..Len(key) : key[k] \in rows
    <3>1. rising(key) /\ Len(key) <= enc.P
      BY <1>0, <1>3, MarkedKey DEF keyLost
    <3> HIDE DEF key
    <3> QED BY <1>0, <3>1, RisingType, LenProperties DEF rising
  <2>2. Len(key) \in 1..enc.P
    <3>1. Len(key) # 0
      <4>1. key # <<>> /\ key \in Seq(Int)
        BY <1>0, <1>3, <2>1, RisingType
      <4> HIDE DEF key
      <4> QED BY <4>1, EmptySeq
    <3> HIDE DEF key
    <3> QED BY <1>0, <2>1, <3>1, Geometry
  <2>3. Cache!rows = rows
    BY DEF Cache!rows, rows
  <2>4. Cache!isKey(key)
    <3>1. Shards - enc.D = enc.P
      BY <1>0, Geometry
    <3>2. \A k \in 2..Len(key) : key[k - 1] < key[k]
      <4> SUFFICES ASSUME NEW k \in 2..Len(key) PROVE key[k - 1] < key[k]
        OBVIOUS
      <4> HIDE DEF key
      <4>1. k \in 1..Len(key) /\ k - 1 \in 1..Len(key) /\ k - 1 < k
        BY <2>1
      <4> QED BY <2>1, <4>1 DEF rising
    <3> HIDE DEF key
    <3> QED BY <2>1, <2>2, <2>3, <3>1, <3>2 DEF Cache!isKey
  <2>5. \A missing : Cache!firstRows(missing) = firstRows(missing)
    <3> SUFFICES ASSUME NEW missing PROVE Cache!firstRows(missing) = firstRows(missing)
      OBVIOUS
    <3> DEFINE W == rows \ missing
               theirs(k) == CHOOSE r \in W : Cache!Cardinality({q \in W : q < r}) = k - 1
               ours(k) == CHOOSE r \in W : Cardinality({q \in W : q < r}) = k - 1
    <3>1. \A k : theirs(k) = ours(k)
      BY DEF Cache!Cardinality, Cardinality
    <3>2. Cache!firstRows(missing) = [k \in 1..enc.D |-> theirs(k)]
      BY <2>3 DEF Cache!firstRows
    <3>3. firstRows(missing) = [k \in 1..enc.D |-> ours(k)]
      BY DEF firstRows, rank
    <3> HIDE DEF theirs, ours
    <3> QED BY <3>1, <3>2, <3>3
  <2>6. DOMAIN cached(tree) = keys /\ DOMAIN cached(tree)' = keys \cup {key}
    BY <1>4, <1>5, <1>6
  <2> HIDE DEF key
  <2>7. cached(tree)' = [other \in keys \cup {key} |->
             IF other = key THEN Cache!firstRows({key[k] : k \in 1..Len(key)})
             ELSE cached(tree)[other]]
    <3>1. Cache!firstRows({key[k] : k \in 1..Len(key)}) = firstRows(range(key))
      BY <2>5 DEF range
    <3> QED BY <1>4, <1>5, <1>6, <3>1
  <2>8. Cache!Insert
    BY <1>1, <1>8, <2>4, <2>6, <2>7 DEF Cache!Insert
  <2> QED BY <1>0, <2>8 DEF Cache!Next
<1> QED BY <1>7, <1>8

LEMMA CacheStep ==
  CoderInv /\ CoderInv' /\ [Next]_vars =>
    Cache!Next \/ UNCHANGED <<cached(tree), [dataShards |-> enc.D, shards |-> Shards,
                                             caching |-> enc.caching]>>
<1> SUFFICES ASSUME CoderInv, CoderInv', [Next]_vars
             PROVE  Cache!Next \/ UNCHANGED <<cached(tree), [dataShards |-> enc.D,
                                                   shards |-> Shards, caching |-> enc.caching]>>
  OBVIOUS
<1>1. CASE \E c \in Callers : Insert(c) /\ tree' # tree
  BY <1>1, CacheInsert
<1>2. CASE UNCHANGED <<tree, enc>>
  BY <1>2 DEF Shards
<1>3. UNCHANGED <<tree, enc>> \/ \E c \in Callers : Insert(c)
  <2>1. ASSUME NEW c \in Callers, NEW r \in Requests(c, enc), Begin(c, r)
        PROVE  UNCHANGED <<tree, enc>>
    BY <2>1 DEF Begin
  <2>2. ASSUME NEW c \in Callers, NEW idx \in 0..(enc.D - 1), Deliver(c, idx)
        PROVE  UNCHANGED <<tree, enc>>
    BY <2>2 DEF Deliver
  <2>3. ASSUME NEW c \in Callers, Step(c), ~Insert(c)
        PROVE  UNCHANGED <<tree, enc>>
    BY <2>3 DEF Step, Lookup, Code, Spawn, AllSpawned, Finish
  <2>4. ASSUME NEW c \in Callers, NEW w \in workers[c], Work(c, w) \/ WorkUpdate(c, w)
        PROVE  UNCHANGED <<tree, enc>>
    BY <2>4 DEF Work, WorkUpdate
  <2> QED BY <2>1, <2>2, <2>3, <2>4 DEF Next, vars
<1>4. ASSUME NEW c \in Callers, Insert(c) PROVE enc' = enc
  BY <1>4 DEF Insert
<1> QED BY <1>1, <1>2, <1>3, <1>4

(* The tree implements the cache: entries are only added, each one the     *)
(* right rows for its key, whatever nodes it makes on the way to them      *)
(* (inversion_tree.go: GetInvertedMatrix, InsertInvertedMatrix).           *)
THEOREM TreeIsCache == Spec => CacheSpec
<1>1. CoderInv /\ [Next]_vars => CoderInv'
  BY CoderStep
<1> QED BY CoderInit, CacheInit, CacheStep, <1>1, PTL DEF Spec, CacheSpec, Cache!Spec

-----------------------------------------------------------------------------
(* The bytes.  Folds first, for the loops of the kernels and of the plans. *)

(* A fold over 1..n by the step functions h.                               *)
Folded(g, h, base, n) ==
  g = [s \in SUBSET (1..n) |-> IF s = {} THEN base ELSE h[Max(s)][g[s \ {Max(s)}]]]

LEMMA GreatestOf ==
  ASSUME NEW n \in Nat, NEW s \in SUBSET (1..n), s # {}
  PROVE  Max(s) \in s /\ \A x \in s : Max(s) >= x
<1> DEFINE T == {n - x : x \in s}
<1>0. \A x \in s : x \in 1..n /\ n - x \in Nat
  OBVIOUS
<1>1. T \in SUBSET Nat /\ T # {}
  BY <1>0
<1>2. PICK m \in T : \A k \in T : m <= k
  <2> HIDE DEF T
  <2> QED BY <1>1, LeastNumber
<1>3. PICK x \in s : m = n - x
  BY <1>2
<1>4. ASSUME NEW y \in s PROVE x >= y
  <2>1. n - x <= n - y
    BY <1>2, <1>3
  <2> QED BY <1>0, <2>1
<1>5. \E z \in s : \A y \in s : z >= y
  BY <1>4
<1> QED BY <1>5 DEF Max

LEMMA UpTo ==
  ASSUME NEW k \in Nat \ {0}
  PROVE  1..k # {} /\ Max(1..k) = k /\ (1..k) \ {k} = 1..(k - 1)
<1>1. 1..k \in SUBSET (1..k) /\ 1..k # {} /\ k \in 1..k
  OBVIOUS
<1>2. Max(1..k) \in 1..k /\ Max(1..k) >= k
  BY <1>1, GreatestOf
<1> QED BY <1>1, <1>2

(* A fold has a value after every prefix of 1..n.                          *)
LEMMA FoldExists ==
  ASSUME NEW n \in Nat, NEW Y, NEW base \in Y, NEW h \in [1..n -> [Y -> Y]]
  PROVE  \E g : Folded(g, h, base, n) /\ \A s \in SUBSET (1..n) : g[s] \in Y
<1> DEFINE Has(m) == \E g : Folded(g, h, base, m) /\ \A s \in SUBSET (1..m) : g[s] \in Y
           B == {m \in 0..n : ~Has(m)}
<1>1. SUFFICES ASSUME B # {} PROVE FALSE
  <2> HIDE DEF Has
  <2>1. n \in 0..n
    OBVIOUS
  <2>2. Has(n)
    BY <2>1
  <2> QED BY <2>2 DEF Has
<1>2. PICK m \in B : \A k \in B : m <= k
  <2>1. B \in SUBSET Nat
    OBVIOUS
  <2> HIDE DEF B
  <2> QED BY <1>1, <2>1, LeastNumber
<1>3. CASE m = 0
  <2> DEFINE g == [s \in SUBSET (1..0) |-> base]
  <2>1. \A s \in SUBSET (1..0) : s = {}
    OBVIOUS
  <2>2. Folded(g, h, base, 0) /\ \A s \in SUBSET (1..0) : g[s] \in Y
    BY <2>1 DEF Folded
  <2>3. Has(0)
    <3> HIDE DEF g
    <3> QED BY <2>2
  <2> QED BY <1>2, <1>3, <2>3
<1>4. CASE m # 0
  <2>1. m \in 1..n /\ m - 1 \in 0..n /\ m - 1 \notin B
    BY <1>2, <1>4
  <2>2. PICK e : Folded(e, h, base, m - 1) /\ \A s \in SUBSET (1..(m - 1)) : e[s] \in Y
    BY <2>1
  <2> DEFINE g == [s \in SUBSET (1..m) |-> IF m \in s THEN h[m][e[s \ {m}]] ELSE e[s]]
  <2>3. \A s \in SUBSET (1..m) : s \ {m} \in SUBSET (1..(m - 1))
                                  /\ (m \notin s => s \in SUBSET (1..(m - 1)))
    BY <2>1
  <2>4. \A s \in SUBSET (1..m) : g[s] \in Y
    BY <2>1, <2>2, <2>3
  <2>5. ASSUME NEW s \in SUBSET (1..m), m \in s
        PROVE  Max(s) = m /\ g[s \ {m}] = e[s \ {m}]
    <3>1. Max(s) \in s /\ Max(s) >= m
      <4>1. s # {} /\ m \in Nat
        BY <2>5
      <4> QED BY <2>5, <4>1, GreatestOf
    <3>2. Max(s) = m
      <4>1. Max(s) \in 1..m
        BY <3>1
      <4> QED BY <3>1, <4>1
    <3>3. s \ {m} \in SUBSET (1..m) /\ m \notin s \ {m}
      OBVIOUS
    <3> QED BY <3>2, <3>3
  <2>6. ASSUME NEW s \in SUBSET (1..m), m \notin s, s # {}
        PROVE  /\ g[s] = h[Max(s)][e[s \ {Max(s)}]]
               /\ g[s \ {Max(s)}] = e[s \ {Max(s)}]
    <3>1. s \in SUBSET (1..(m - 1)) /\ s \ {Max(s)} \in SUBSET (1..m) /\ m \notin s \ {Max(s)}
      BY <2>3, <2>6
    <3>2. e[s] = h[Max(s)][e[s \ {Max(s)}]]
      <4> HIDE DEF g
      <4> QED BY <2>2, <2>6, <3>1 DEF Folded
    <3> QED BY <2>6, <3>1, <3>2
  <2>7. m \notin {} /\ e[{}] = base
    <3>1. {} \in SUBSET (1..(m - 1))
      OBVIOUS
    <3> HIDE DEF g
    <3> QED BY <2>2, <3>1 DEF Folded
  <2>8. ASSUME NEW s \in SUBSET (1..m)
        PROVE  g[s] = IF s = {} THEN base ELSE h[Max(s)][g[s \ {Max(s)}]]
    <3>1. CASE s = {}
      BY <2>7, <3>1
    <3>2. CASE m \in s
      <4>1. g[s] = h[m][e[s \ {m}]]
        BY <3>2
      <4> HIDE DEF g
      <4> QED BY <2>5, <3>2, <4>1
    <3>3. CASE m \notin s /\ s # {}
      <4> HIDE DEF g
      <4> QED BY <2>6, <3>3
    <3> QED BY <3>1, <3>2, <3>3
  <2>9. Folded(g, h, base, m)
    <3>1. g = [s \in SUBSET (1..m) |-> g[s]]
      OBVIOUS
    <3> HIDE DEF g
    <3> QED BY <2>8, <3>1 DEF Folded
  <2>10. Has(m)
    <3> HIDE DEF g
    <3> QED BY <2>4, <2>9
  <2> QED BY <1>2, <2>10
<1> QED BY <1>3, <1>4

(* What a fold is after each of its steps.                                 *)
LEMMA FoldPrefix ==
  ASSUME NEW n \in Nat, NEW g, NEW F, g[{}] = F[0],
         \A k \in 1..n : g[1..(k - 1)] = F[k - 1] => g[1..k] = F[k]
  PROVE  g[1..n] = F[n]
<1> DEFINE B == {m \in 0..n : g[1..m] # F[m]}
<1>1. SUFFICES ASSUME B # {} PROVE FALSE
  <2>1. n \in 0..n
    OBVIOUS
  <2> QED BY <2>1
<1>2. PICK m \in B : \A k \in B : m <= k
  <2>1. B \in SUBSET Nat
    OBVIOUS
  <2> HIDE DEF B
  <2> QED BY <1>1, <2>1, LeastNumber
<1>3. CASE m = 0
  <2>1. 1..0 = {}
    OBVIOUS
  <2> QED BY <1>2, <1>3, <2>1
<1>4. CASE m # 0
  <2>1. m \in 1..n /\ m - 1 \in 0..n /\ m - 1 \notin B
    BY <1>2, <1>4
  <2> QED BY <1>2, <2>1
<1> QED BY <1>3, <1>4

-----------------------------------------------------------------------------
(* The loops over a slice reach every byte of it once.                     *)

Reached(lo, hi) == lo <= at /\ at < hi

LEMMA RoundedDown ==
  ASSUME NEW n \in Nat, NEW step \in Nat \ {0}
  PROVE  /\ roundDown(n, step) \in Nat /\ roundDown(n, step) <= n
         /\ n < roundDown(n, step) + step
<1> DEFINE q == n \div step
<1>1. q \in Nat /\ step * q <= n /\ n < step * q + step /\ q * step = step * q
  OBVIOUS
<1>2. roundDown(n, step) = q * step
  BY DEF roundDown
<1>3. q * step \in Nat
  <2> HIDE DEF q
  <2> QED BY <1>1
<1> HIDE DEF q
<1> QED BY <1>1, <1>2, <1>3

LEMMA PartsWithin ==
  ASSUME NEW n \in Nat, NEW wide \in {0, 64}, NEW narrow \in {0, 16, 32}, NEW m \in Nat
  PROVE  /\ vectorPart(n, wide, narrow, m)[1] \in Nat
         /\ vectorPart(n, wide, narrow, m)[2] \in Nat
         /\ vectorPart(n, wide, narrow, m)[1] + vectorPart(n, wide, narrow, m)[2] <= n
<1> DEFINE big == IF wide > 0 /\ n >= bigSwitchover THEN roundDown(n, wide) ELSE 0
           small == IF narrow > 0 /\ n - big >= m THEN roundDown(n - big, narrow) ELSE 0
<1>1. big \in Nat /\ big <= n
  BY RoundedDown
<1>2. small \in Nat /\ small <= n - big
  <2> HIDE DEF big
  <2>1. n - big \in Nat
    BY <1>1
  <2>2. narrow # 0 => roundDown(n - big, narrow) \in Nat /\ roundDown(n - big, narrow) <= n - big
    BY <2>1, RoundedDown
  <2> QED BY <2>1, <2>2
<1>3. vectorPart(n, wide, narrow, m) = <<big, small>>
  BY DEF vectorPart
<1> HIDE DEF big, small
<1> QED BY <1>1, <1>2, <1>3

LEMMA PassesOnce ==
  ASSUME NEW i \in Int, NEW n \in Nat, NEW part, part[1] \in Nat, part[2] \in Nat,
         part[1] + part[2] <= n
  PROVE  passes(i, n, part) = 1 <=> 0 <= i /\ i < n
  BY DEF passes

(* galMulSlice and its kin pass the byte followed once, by whichever of    *)
(* their loops, exactly if it is in the slice.                             *)
LEMMA SliceReached ==
  ASSUME at \in Nat, NEW lo \in Nat, NEW hi \in Nat, lo <= hi, NEW m \in Nat
  PROVE  /\ passes(at - lo, hi - lo, mulPart(enc, hi - lo, m)) = 1 <=> Reached(lo, hi)
         /\ passes(at - lo, hi - lo, xorPart(enc, hi - lo)) = 1 <=> Reached(lo, hi)
<1>1. hi - lo \in Nat /\ at - lo \in Int
  OBVIOUS
<1>2. Reached(lo, hi) <=> 0 <= at - lo /\ at - lo < hi - lo
  BY DEF Reached
<1>3. ASSUME NEW part, part \in {<<0, 0>>, vectorPart(hi - lo, 64, 32, m),
                                 vectorPart(hi - lo, 0, 16, 0), vectorPart(hi - lo, 64, 16, 16)}
      PROVE  part[1] \in Nat /\ part[2] \in Nat /\ part[1] + part[2] <= hi - lo
  <2>1. CASE part = <<0, 0>>
    BY <1>1, <2>1
  <2>2. CASE part = vectorPart(hi - lo, 64, 32, m)
    BY <1>1, <2>2, PartsWithin
  <2>3. CASE part = vectorPart(hi - lo, 0, 16, 0)
    BY <1>1, <2>3, PartsWithin
  <2>4. CASE part = vectorPart(hi - lo, 64, 16, 16)
    BY <1>1, <2>4, PartsWithin
  <2> QED BY <1>3, <2>1, <2>2, <2>3, <2>4
<1>4. /\ mulPart(enc, hi - lo, m) \in {<<0, 0>>, vectorPart(hi - lo, 64, 32, m),
                                       vectorPart(hi - lo, 0, 16, 0)}
      /\ xorPart(enc, hi - lo) \in {<<0, 0>>, vectorPart(hi - lo, 64, 16, 16)}
  BY DEF mulPart, xorPart
<1> DEFINE a == mulPart(enc, hi - lo, m)
           b == xorPart(enc, hi - lo)
<1>5. /\ a[1] \in Nat /\ a[2] \in Nat /\ a[1] + a[2] <= hi - lo
      /\ b[1] \in Nat /\ b[2] \in Nat /\ b[1] + b[2] <= hi - lo
  BY <1>3, <1>4
<1> HIDE DEF a, b
<1>6. /\ passes(at - lo, hi - lo, a) = 1 <=> 0 <= at - lo /\ at - lo < hi - lo
      /\ passes(at - lo, hi - lo, b) = 1 <=> 0 <= at - lo /\ at - lo < hi - lo
  BY <1>1, <1>5, PassesOnce
<1> QED BY <1>2, <1>6 DEF a, b

LEMMA SlicesCoded ==
  ASSUME at \in Nat, NEW lo \in Nat, NEW hi \in Nat, lo <= hi, NEW o, NEW terms
  PROVE  /\ galMulSlice(enc, at, lo, hi, o, terms) = IF Reached(lo, hi) THEN terms ELSE o
         /\ galMulSliceXor(enc, at, lo, hi, o, terms)
              = IF Reached(lo, hi) THEN SymDiff(o, terms) ELSE o
         /\ sliceXor(enc, at, lo, hi, terms, o)
              = IF Reached(lo, hi) THEN SymDiff(o, terms) ELSE o
<1>1. /\ passes(at - lo, hi - lo, mulPart(enc, hi - lo, 32)) = 1 <=> Reached(lo, hi)
      /\ passes(at - lo, hi - lo, mulPart(enc, hi - lo, 33)) = 1 <=> Reached(lo, hi)
      /\ passes(at - lo, hi - lo, xorPart(enc, hi - lo)) = 1 <=> Reached(lo, hi)
  BY SliceReached
<1> QED BY <1>1 DEF galMulSlice, galMulSliceXor, sliceXor, put

-----------------------------------------------------------------------------
(* The terms of an output, and input by input.                             *)

termsOf(d, r, ins) == UNION {times(d[i], <<r, i>>) : i \in ins}

LEMMA TermsAdd ==
  ASSUME NEW d, NEW r, NEW A, NEW B, A \cap B = {}
  PROVE  SymDiff(termsOf(d, r, A), termsOf(d, r, B)) = termsOf(d, r, A \cup B)
<1>1. ASSUME NEW t \in termsOf(d, r, A), t \in termsOf(d, r, B) PROVE FALSE
  <2>1. PICK i \in A : \E s \in d[i] : t = <<s, <<r, i>>>>
    BY DEF termsOf, times
  <2>2. PICK k \in B : \E u \in d[k] : t = <<u, <<r, k>>>>
    BY <1>1 DEF termsOf, times
  <2>3. i = k
    BY <2>1, <2>2
  <2> QED BY <2>1, <2>2, <2>3
<1>2. termsOf(d, r, A \cup B) = termsOf(d, r, A) \cup termsOf(d, r, B)
  BY DEF termsOf
<1> QED BY <1>1, <1>2 DEF SymDiff

LEMMA TermsOne ==
  ASSUME NEW d, NEW r, NEW i
  PROVE  termsOf(d, r, {i}) = times(d[i], <<r, i>>)
  BY DEF termsOf

(* The byte of output r once the inputs up to n are coded into it.         *)
rowCoded(d, o, r, n, lo, hi) ==
  FoldLeft(LAMBDA byte, c : galMulSliceXor(enc, at, lo, hi, byte, times(d[c], <<r, c>>)),
           galMulSlice(enc, at, lo, hi, o, times(d[0], <<r, 0>>)),
           [c \in 1..n |-> c])

(* The byte of an output after the loop over the inputs: their terms, if   *)
(* it is in the stretch, the old one otherwise.                            *)
LEMMA RowFold ==
  ASSUME at \in Nat, NEW lo \in Nat, NEW hi \in Nat, lo <= hi, NEW d, NEW r, NEW o,
         NEW n \in Nat
  PROVE  rowCoded(d, o, r, n, lo, hi) = IF Reached(lo, hi) THEN termsOf(d, r, 0..n) ELSE o
<1> DEFINE seq == [c \in 1..n |-> c]
           base == galMulSlice(enc, at, lo, hi, o, times(d[0], <<r, 0>>))
           add(byte, c) == galMulSliceXor(enc, at, lo, hi, byte, times(d[c], <<r, c>>))
           E(g) == g = [s \in SUBSET (1..n) |-> IF s = {} THEN base
                                               ELSE add(g[s \ {Max(s)}], seq[Max(s)])]
           g0 == CHOOSE g : E(g)
           T == o \cup termsOf(d, r, 0..n)
           h == [c \in 1..n |-> [byte \in SUBSET T |-> add(byte, c)]]
           F == [k \in 0..n |-> IF Reached(lo, hi) THEN termsOf(d, r, 0..k) ELSE o]
<1>1. rowCoded(d, o, r, n, lo, hi) = g0[1..n]
  <2>0. rowCoded(d, o, r, n, lo, hi) = FoldLeft(LAMBDA byte, c : add(byte, c), base, seq)
    BY DEF rowCoded
  <2>1. DOMAIN seq = 1..n
    OBVIOUS
  <2>2. FoldLeft(LAMBDA byte, c : add(byte, c), base, seq) =
          (CHOOSE g : g = [s \in SUBSET DOMAIN seq |-> IF s = {} THEN base
                             ELSE add(g[s \ {Max(s)}], seq[Max(s)])])[DOMAIN seq]
    <3> HIDE DEF add, base, seq
    <3> QED BY Zenon DEF FoldLeft, MapThenFoldSet
  <2> HIDE DEF seq, add, base
  <2> QED BY <2>0, <2>1, <2>2, Zenon
<1>2. base = IF Reached(lo, hi) THEN times(d[0], <<r, 0>>) ELSE o
  BY SlicesCoded
<1>3. \A byte, c : add(byte, c) = IF Reached(lo, hi) THEN SymDiff(byte, times(d[c], <<r, c>>))
                                  ELSE byte
  BY SlicesCoded
<1>4. \A c \in 0..n : times(d[c], <<r, c>>) \subseteq T
  BY DEF termsOf
<1>5. base \in SUBSET T
  <2>1. 0 \in 0..n
    OBVIOUS
  <2> HIDE DEF base
  <2> QED BY <1>2, <1>4, <2>1
<1>6. ASSUME NEW c \in 1..n, NEW byte \in SUBSET T PROVE add(byte, c) \in SUBSET T
  <2>1. c \in 0..n
    OBVIOUS
  <2>2. times(d[c], <<r, c>>) \subseteq T
    BY <1>4, <2>1
  <2> HIDE DEF add, T
  <2> QED BY <1>3, <2>2 DEF SymDiff
<1>7. h \in [1..n -> [SUBSET T -> SUBSET T]]
  <2> HIDE DEF add, T
  <2> QED BY <1>6
<1>8. PICK g1 : Folded(g1, h, base, n) /\ \A s \in SUBSET (1..n) : g1[s] \in SUBSET T
  <2> HIDE DEF h, T, base
  <2> QED BY <1>5, <1>7, FoldExists
<1>9. E(g1)
  <2>1. ASSUME NEW s \in SUBSET (1..n), s # {}
        PROVE  h[Max(s)][g1[s \ {Max(s)}]] = add(g1[s \ {Max(s)}], seq[Max(s)])
    <3>1. Max(s) \in 1..n
      BY <2>1, GreatestOf
    <3>2. g1[s \ {Max(s)}] \in SUBSET T
      <4>1. s \ {Max(s)} \in SUBSET (1..n)
        OBVIOUS
      <4> HIDE DEF T
      <4> QED BY <1>8, <4>1
    <3> HIDE DEF T, add
    <3> QED BY <3>1, <3>2
  <2> HIDE DEF h, T, base, add, seq
  <2> QED BY <1>8, <2>1 DEF Folded
<1>10. E(g0)
  <2> HIDE DEF E
  <2> QED BY <1>9
<1>11. g0[{}] = F[0]
  <2>1. g0[{}] = base
    <3> HIDE DEF base, add, seq, g0
    <3> QED BY <1>10
  <2>2. F[0] = IF Reached(lo, hi) THEN termsOf(d, r, {0}) ELSE o
    OBVIOUS
  <2> HIDE DEF F, base, g0
  <2> QED BY <1>2, <2>1, <2>2, TermsOne
<1>12. ASSUME NEW k \in 1..n, g0[1..(k - 1)] = F[k - 1] PROVE g0[1..k] = F[k]
  <2>1. 1..k \in SUBSET (1..n) /\ 1..k # {} /\ Max(1..k) = k /\ (1..k) \ {k} = 1..(k - 1)
    BY UpTo
  <2>2. g0[1..k] = add(g0[1..(k - 1)], k)
    <3>1. seq[k] = k
      OBVIOUS
    <3> HIDE DEF base, add, seq, g0
    <3> QED BY <1>10, <2>1, <3>1
  <2>3. F[k - 1] = IF Reached(lo, hi) THEN termsOf(d, r, 0..(k - 1)) ELSE o
    OBVIOUS
  <2>4. F[k] = IF Reached(lo, hi) THEN termsOf(d, r, 0..k) ELSE o
    OBVIOUS
  <2>5. SymDiff(termsOf(d, r, 0..(k - 1)), times(d[k], <<r, k>>)) = termsOf(d, r, 0..k)
    <3> DEFINE A == 0..(k - 1)
               B == {k}
    <3>1. A \cap B = {} /\ A \cup B = 0..k
      OBVIOUS
    <3>2. termsOf(d, r, B) = times(d[k], <<r, k>>)
      BY TermsOne
    <3> HIDE DEF A, B
    <3>3. SymDiff(termsOf(d, r, A), termsOf(d, r, B)) = termsOf(d, r, 0..k)
      BY <3>1, TermsAdd
    <3> QED BY <3>2, <3>3 DEF A
  <2> HIDE DEF F, add, g0
  <2> QED BY <1>3, <1>12, <2>2, <2>3, <2>4, <2>5
<1>13. g0[1..n] = F[n]
  <2> HIDE DEF F, g0
  <2> QED BY <1>11, <1>12, FoldPrefix
<1>14. F[n] = IF Reached(lo, hi) THEN termsOf(d, r, 0..n) ELSE o
  OBVIOUS
<1> HIDE DEF F, g0
<1> QED BY <1>1, <1>13, <1>14

LEMMA RoundCoded ==
  ASSUME at \in Nat, NEW lo \in Nat, NEW hi \in Nat, lo <= hi, NEW d, NEW o,
         NEW ins \in Nat \ {0}, DOMAIN d = 0..(ins - 1)
  PROVE  codeRound(d, o, lo, hi) =
           [r \in DOMAIN o |-> IF Reached(lo, hi) THEN termsOf(d, r, 0..(ins - 1)) ELSE o[r]]
<1>1. Cardinality(DOMAIN d) - 1 = ins - 1 /\ ins - 1 \in Nat
  <2>1. Cardinality(0..(ins - 1)) = ins
    BY FS_Interval
  <2> QED BY <2>1
<1>2. codeRound(d, o, lo, hi) = [r \in DOMAIN o |-> rowCoded(d, o[r], r, ins - 1, lo, hi)]
  BY <1>1 DEF codeRound, rowCoded
<1>3. \A r : rowCoded(d, o[r], r, ins - 1, lo, hi)
               = IF Reached(lo, hi) THEN termsOf(d, r, 0..(ins - 1)) ELSE o[r]
  BY <1>1, RowFold
<1> QED BY <1>2, <1>3

-----------------------------------------------------------------------------
(* The tiles of the AVX2 kernels.                                          *)

LEMMA CellOf ==
  ASSUME NEW i \in Nat, NEW j \in Nat, NEW l \in Nat \ {0}, j < l
  PROVE  /\ (i * l + j) \div l = i /\ (i * l + j) % l = j
         /\ i * l + j \in Nat
<1> DEFINE x == i * l + j
           q == x \div l
           r == x % l
<1>1. i * l \in Nat
  OBVIOUS
<1>2. x \in Nat
  <2> DEFINE y == i * l
  <2> HIDE DEF y
  <2> QED BY <1>1 DEF y
<1>3. q \in Nat /\ r \in Nat /\ r < l /\ x = l * q + r
  <2> HIDE DEF x
  <2> QED BY <1>2
<1> HIDE DEF q, r
<1>4. i * l + j = q * l + r
  <2>1. l * q = q * l
    BY <1>3
  <2> QED BY <1>3, <2>1
<1>5. q = i
  <2>1. CASE q < i
    <3>1. q + 1 \in Nat /\ q + 1 <= i
      BY <1>3, <2>1
    <3>2. (q + 1) * l <= i * l
      <4> DEFINE p == q + 1
      <4> HIDE DEF p
      <4>1. p * l <= i * l
        BY <3>1, TimesMore DEF p
      <4> QED BY <4>1 DEF p
    <3>3. (q + 1) * l = q * l + l /\ q * l \in Nat
      BY <1>3
    <3> DEFINE a == i * l
               b == q * l
    <3> HIDE DEF a, b
    <3>4. a + j = b + r /\ b + l <= a /\ a \in Nat /\ b \in Nat
      BY <1>1, <1>4, <3>2, <3>3 DEF a, b
    <3> QED BY <1>3, <3>4
  <2>2. CASE i < q
    <3>1. i + 1 \in Nat /\ i + 1 <= q
      BY <1>3, <2>2
    <3>2. (i + 1) * l <= q * l
      <4> DEFINE p == i + 1
      <4> HIDE DEF p
      <4>1. p * l <= q * l
        BY <1>3, <3>1, TimesMore DEF p
      <4> QED BY <4>1 DEF p
    <3>3. (i + 1) * l = i * l + l /\ q * l \in Nat
      BY <1>3
    <3> DEFINE a == i * l
               b == q * l
    <3> HIDE DEF a, b
    <3>4. a + j = b + r /\ a + l <= b /\ a \in Nat /\ b \in Nat
      BY <1>1, <1>4, <3>2, <3>3 DEF a, b
    <3> QED BY <1>3, <3>4
  <2> QED BY <1>3, <2>1, <2>2
<1>6. r = j
  <2> DEFINE a == i * l
  <2> HIDE DEF a
  <2>1. a + j = a + r /\ a \in Nat
    BY <1>1, <1>4, <1>5 DEF a
  <2> QED BY <1>3, <2>1
<1> QED BY <1>2, <1>5, <1>6 DEF q, r

LEMMA Masked ==
  ASSUME NEW n \in Nat
  PROVE  /\ avxMasked(n) \in Nat /\ avxMasked(n) <= n
         /\ avxMasked(n) % 64 = 0 /\ avxMasked(avxMasked(n)) = avxMasked(n)
         /\ n >= 64 => avxMasked(n) >= 64
  BY DEF avxMasked, minAvx2Size

LEMMA TurnsReach ==
  ASSUME at \in Nat, NEW lo \in Nat, NEW n \in Nat, n % 64 = 0,
         NEW ins, NEW outs
  PROVE  (\E t \in 0..(n \div perLoop(sixty64(outs)) - 1) :
            LET first == storesAt(ins, outs, sixty64(outs), lo, t)
            IN  first <= at /\ at < first + perLoop(sixty64(outs)))
         <=> Reached(lo, lo + n)
<1> DEFINE step == perLoop(sixty64(outs))
           turns == n \div step
<1>1. step \in {32, 64}
  BY DEF perLoop
<1>2. \A t \in Nat : storesAt(ins, outs, sixty64(outs), lo, t) = lo + t * step
  BY <1>1 DEF storesAt
<1> SUFFICES (\E t \in 0..(turns - 1) : lo + t * step <= at /\ at < lo + t * step + step)
             <=> Reached(lo, lo + n)
  BY <1>2
<1>3. turns \in Nat /\ turns * step = n
  BY <1>1
<1> HIDE DEF step, turns
<1>4. ASSUME NEW t \in 0..(turns - 1), lo + t * step <= at, at < lo + t * step + step
      PROVE  Reached(lo, lo + n)
  <2>1. t * step + step <= turns * step /\ t * step >= 0
    BY <1>1, <1>3
  <2> QED BY <1>1, <1>3, <1>4, <2>1 DEF Reached
<1>5. ASSUME Reached(lo, lo + n)
      PROVE  \E t \in 0..(turns - 1) : lo + t * step <= at /\ at < lo + t * step + step
  <2> DEFINE q == (at - lo) \div step
  <2>1. at - lo \in Nat /\ at - lo < n
    BY <1>5 DEF Reached
  <2>2. q \in 0..(turns - 1) /\ lo + q * step <= at /\ at < lo + q * step + step
    BY <1>1, <1>3, <2>1
  <2> QED BY <2>2
<1> QED BY <1>4, <1>5

inputsOf(t) == t.inIdx..(t.inIdx + t.ins - 1)
outputsOf(t) == t.outIdx..(t.outIdx + t.outs - 1)

Tile(t) == t.inIdx \in Nat /\ t.ins \in Nat /\ t.outIdx \in Nat /\ t.outs \in Nat

coefficients(t) == genAvx2Matrix(t.outIdx, t.inIdx, t.ins, t.outs)

(* m holds the coefficients of a tile.                                     *)
Holds(m, t) == \A x \in 0..(t.ins * t.outs - 1) : m[x] = coefficients(t)[x]

IsMap(y) == y = [r \in DOMAIN y |-> y[r]]

(* A kernel reads the coefficient of every input and output of its tile.   *)
LEMMA KernelReads ==
  ASSUME NEW t, Tile(t), NEW d, NEW m,
         \A x \in 0..(t.ins * t.outs - 1) : m[x] = coefficients(t)[x],
         NEW r \in outputsOf(t)
  PROVE  UNION {times(d[t.inIdx + i], m[i * t.outs + (r - t.outIdx)]) : i \in 0..(t.ins - 1)}
           = termsOf(d, r, inputsOf(t))
<1> DEFINE j == r - t.outIdx
<1>1. j \in Nat /\ j < t.outs /\ t.outs \in Nat \ {0} /\ t.outIdx + j = r
  BY DEF Tile, outputsOf
<1> HIDE DEF j
<1>2. ASSUME NEW i \in 0..(t.ins - 1)
      PROVE  m[i * t.outs + j] = <<r, t.inIdx + i>>
  <2>0. i \in Nat /\ t.ins \in Nat
    BY DEF Tile
  <2>1. /\ (i * t.outs + j) \div t.outs = i /\ (i * t.outs + j) % t.outs = j
        /\ i * t.outs + j \in Nat
    BY <1>1, <2>0, CellOf
  <2>2. i * t.outs + j \in 0..(t.ins * t.outs - 1)
    <3>1. (i + 1) * t.outs <= t.ins * t.outs /\ (i + 1) * t.outs = i * t.outs + t.outs
      <4> DEFINE p == i + 1
      <4>1. p \in Nat /\ p <= t.ins
        BY <2>0
      <4>2. p * t.outs = i * t.outs + t.outs
        BY <1>1, <2>0
      <4> HIDE DEF p
      <4>3. p * t.outs <= t.ins * t.outs
        BY <1>1, <2>0, <4>1, TimesMore
      <4> QED BY <4>2, <4>3 DEF p
    <3>2. i * t.outs \in Nat /\ t.ins * t.outs \in Nat
      BY <1>1, <2>0
    <3> DEFINE a == i * t.outs
               b == t.ins * t.outs
    <3> HIDE DEF a, b
    <3>3. a + t.outs <= b /\ a \in Nat /\ b \in Nat
      BY <3>1, <3>2 DEF a, b
    <3>4. a + j \in 0..(b - 1)
      BY <1>1, <3>3
    <3> QED BY <3>4 DEF a, b
  <2> DEFINE x == i * t.outs + j
  <2>3. coefficients(t)[x] = <<t.outIdx + (x % t.outs), t.inIdx + (x \div t.outs)>>
    BY <2>2 DEF coefficients, genAvx2Matrix
  <2> HIDE DEF x
  <2>4. m[x] = <<r, t.inIdx + i>>
    BY <1>1, <2>1, <2>2, <2>3 DEF x
  <2> QED BY <2>4 DEF x
<1>3. UNION {times(d[t.inIdx + i], m[i * t.outs + j]) : i \in 0..(t.ins - 1)}
        = UNION {times(d[t.inIdx + i], <<r, t.inIdx + i>>) : i \in 0..(t.ins - 1)}
  BY <1>2
<1>4. {t.inIdx + i : i \in 0..(t.ins - 1)} = inputsOf(t)
  <2>1. ASSUME NEW k \in inputsOf(t) PROVE \E i \in 0..(t.ins - 1) : k = t.inIdx + i
    <3>1. k - t.inIdx \in 0..(t.ins - 1) /\ k = t.inIdx + (k - t.inIdx)
      BY DEF Tile, inputsOf
    <3> QED BY <3>1
  <2>2. ASSUME NEW i \in 0..(t.ins - 1) PROVE t.inIdx + i \in inputsOf(t)
    BY DEF Tile, inputsOf
  <2> QED BY <2>1, <2>2
<1>5. UNION {times(d[t.inIdx + i], <<r, t.inIdx + i>>) : i \in 0..(t.ins - 1)}
        = UNION {times(d[k], <<r, k>>) : k \in {t.inIdx + i : i \in 0..(t.ins - 1)}}
  OBVIOUS
<1> QED BY <1>3, <1>4, <1>5 DEF termsOf, j

(* What a tile leaves in the outputs: the one of the first inputs          *)
(* overwrites.                                                             *)
adds(t, old, terms) == IF t.inIdx = 0 THEN terms ELSE SymDiff(old, terms)

tiled(d, o, t, reached) ==
  [r \in DOMAIN o |->
     IF reached /\ r \in outputsOf(t)
     THEN adds(t, o[r], termsOf(d, r, inputsOf(t))) ELSE o[r]]

(* A kernel with the coefficients of its tile leaves in every output of    *)
(* the tile the terms of its inputs.                                       *)
LEMMA TileCoded ==
  ASSUME at \in Nat, NEW lo \in Nat, NEW hi \in Nat, lo <= hi,
         NEW t, Tile(t), NEW d, NEW m, Holds(m, t), NEW o, IsMap(o)
  PROVE  codeTile(m, d, o, t, lo, hi)
           = tiled(d, o, t, Reached(lo, lo + avxMasked(hi - lo)))
<1> DEFINE n == avxMasked(hi - lo)
           touched == \E u \in 0..(n \div perLoop(sixty64(t.outs)) - 1) :
                        LET first == storesAt(t.ins, t.outs, sixty64(t.outs), lo, u)
                        IN  first <= at /\ at < first + perLoop(sixty64(t.outs))
           terms(r) == UNION {times(d[t.inIdx + i], m[i * t.outs + (r - t.outIdx)]) :
                                i \in 0..(t.ins - 1)}
<1>1. n \in Nat /\ n % 64 = 0
  <2>1. hi - lo \in Nat
    OBVIOUS
  <2> QED BY <2>1, Masked
<1>2. touched <=> Reached(lo, lo + n)
  <2> HIDE DEF n
  <2> QED BY <1>1, TurnsReach
<1>3. ASSUME NEW xor
      PROVE  mulAvxTwo(xor, at, m, d, o, t.inIdx, t.ins, t.outIdx, t.outs, lo, n)
               = IF ~touched THEN o
                 ELSE [r \in DOMAIN o |->
                         IF r \in outputsOf(t) THEN put(xor, o[r], terms(r)) ELSE o[r]]
  <2> HIDE DEF n
  <2> QED BY Zenon DEF mulAvxTwo, outputsOf
<1>4. codeTile(m, d, o, t, lo, hi)
        = IF t.inIdx = 0 THEN mulAvxTwo(FALSE, at, m, d, o, t.inIdx, t.ins, t.outIdx, t.outs, lo, n)
          ELSE mulAvxTwo(TRUE, at, m, d, o, t.inIdx, t.ins, t.outIdx, t.outs, lo, n)
  BY Zenon DEF codeTile, galMulSlicesAvx2, galMulSlicesAvx2Xor
<1>5. \A r \in outputsOf(t) : terms(r) = termsOf(d, r, inputsOf(t))
  BY KernelReads DEF Holds
<1> HIDE DEF touched, terms, n
<1>6. CASE ~touched
  <2>1. codeTile(m, d, o, t, lo, hi) = o
    BY <1>3, <1>4, <1>6
  <2>2. tiled(d, o, t, Reached(lo, lo + n)) = [r \in DOMAIN o |-> o[r]]
    BY <1>2, <1>6 DEF tiled
  <2>3. o = [r \in DOMAIN o |-> o[r]]
    BY Zenon DEF IsMap
  <2> QED BY <2>1, <2>2, <2>3 DEF n
<1>7. CASE touched
  <2>1. codeTile(m, d, o, t, lo, hi)
          = [r \in DOMAIN o |->
               IF r \in outputsOf(t) THEN adds(t, o[r], terms(r)) ELSE o[r]]
    <3>1. CASE t.inIdx = 0
      <4>1. codeTile(m, d, o, t, lo, hi)
              = [r \in DOMAIN o |->
                   IF r \in outputsOf(t) THEN put(FALSE, o[r], terms(r)) ELSE o[r]]
        BY <1>3, <1>4, <1>7, <3>1, Zenon
      <4>2. \A r : put(FALSE, o[r], terms(r)) = adds(t, o[r], terms(r))
        BY <3>1 DEF put, adds
      <4> QED BY <4>1, <4>2, Zenon
    <3>2. CASE t.inIdx # 0
      <4>1. codeTile(m, d, o, t, lo, hi)
              = [r \in DOMAIN o |->
                   IF r \in outputsOf(t) THEN put(TRUE, o[r], terms(r)) ELSE o[r]]
        BY <1>3, <1>4, <1>7, <3>2, Zenon
      <4>2. \A r : put(TRUE, o[r], terms(r)) = adds(t, o[r], terms(r))
        BY <3>2 DEF put, adds
      <4> QED BY <4>1, <4>2, Zenon
    <3> QED BY <3>1, <3>2
  <2>2. tiled(d, o, t, Reached(lo, lo + n))
          = [r \in DOMAIN o |-> IF r \in outputsOf(t)
               THEN adds(t, o[r], termsOf(d, r, inputsOf(t))) ELSE o[r]]
    BY <1>2, <1>7 DEF tiled
  <2>3. tiled(d, o, t, Reached(lo, lo + n)) = codeTile(m, d, o, t, lo, hi)
    BY <1>5, <2>1, <2>2
  <2> QED BY <2>3 DEF n
<1> QED BY <1>6, <1>7

-----------------------------------------------------------------------------
(* A plan whose tiles come in such an order that the first one of every    *)
(* output overwrites it, and every input is coded into it once.            *)

Orderly(plan, n, ins, outs) ==
  /\ \A k \in 1..n : /\ Tile(plan[k])
                     /\ inputsOf(plan[k]) \subseteq 0..(ins - 1)
  /\ \A k \in 1..n : \A r \in outputsOf(plan[k]) :
        plan[k].inIdx = 0 <=> \A j \in 1..(k - 1) : r \notin outputsOf(plan[j])
  /\ \A k \in 1..n : \A j \in 1..(k - 1) :
        outputsOf(plan[j]) \cap outputsOf(plan[k]) = {}
        \/ inputsOf(plan[j]) \cap inputsOf(plan[k]) = {}
  /\ \A r \in 0..(outs - 1), i \in 0..(ins - 1) :
        \E k \in 1..n : r \in outputsOf(plan[k]) /\ i \in inputsOf(plan[k])

(* What the first k tiles leave.                                           *)
makers(plan, k, r) == {j \in 1..k : r \in outputsOf(plan[j])}
madeOf(plan, k, r) == UNION {inputsOf(plan[j]) : j \in makers(plan, k, r)}

planned(d, o, plan, k, reached) ==
  [r \in DOMAIN o |-> IF reached /\ makers(plan, k, r) # {}
                      THEN termsOf(d, r, madeOf(plan, k, r)) ELSE o[r]]

LEMMA PlanStep ==
  ASSUME NEW n \in Nat, NEW ins, NEW outs, NEW plan, Orderly(plan, n, ins, outs),
         NEW k \in 1..n, NEW d, NEW o, NEW reached \in BOOLEAN
  PROVE  tiled(d, planned(d, o, plan, k - 1, reached), plan[k], reached)
           = planned(d, o, plan, k, reached)
<1> DEFINE before == planned(d, o, plan, k - 1, reached)
           after == planned(d, o, plan, k, reached)
           t == plan[k]
<1>1. DOMAIN before = DOMAIN o /\ DOMAIN after = DOMAIN o
  BY DEF planned
<1>2. 1..k = 1..(k - 1) \cup {k} /\ k \notin 1..(k - 1)
  OBVIOUS
<1>3. ASSUME NEW r \in DOMAIN o, reached, r \in outputsOf(t)
      PROVE  adds(t, before[r], termsOf(d, r, inputsOf(t))) = after[r]
  <2>1. makers(plan, k, r) = makers(plan, k - 1, r) \cup {k}
    BY <1>2, <1>3 DEF makers
  <2>2. madeOf(plan, k, r) = madeOf(plan, k - 1, r) \cup inputsOf(t)
    BY <2>1 DEF madeOf
  <2>3. after[r] = termsOf(d, r, madeOf(plan, k, r))
    BY <1>3, <2>1 DEF planned
  <2>4. CASE makers(plan, k - 1, r) = {}
    <3>1. t.inIdx = 0
      BY <1>3, <2>4 DEF Orderly, makers
    <3>2. madeOf(plan, k - 1, r) = {}
      BY <2>4 DEF madeOf
    <3> QED BY <2>2, <2>3, <3>1, <3>2 DEF adds
  <2>5. CASE makers(plan, k - 1, r) # {}
    <3>1. t.inIdx # 0
      BY <1>3, <2>5 DEF Orderly, makers
    <3>2. before[r] = termsOf(d, r, madeOf(plan, k - 1, r))
      BY <1>3, <2>5 DEF planned
    <3>3. madeOf(plan, k - 1, r) \cap inputsOf(t) = {}
      BY <1>3 DEF Orderly, madeOf, makers
    <3> QED BY <2>2, <2>3, <3>1, <3>2, <3>3, TermsAdd DEF adds
  <2> QED BY <2>4, <2>5
<1>4. ASSUME NEW r \in DOMAIN o, ~(reached /\ r \in outputsOf(t))
      PROVE  before[r] = after[r]
  <2>1. CASE ~reached
    BY <2>1 DEF planned
  <2>2. CASE r \notin outputsOf(t)
    <3>1. makers(plan, k, r) = makers(plan, k - 1, r)
      BY <1>2, <2>2 DEF makers
    <3> QED BY <3>1 DEF planned, madeOf
  <2> QED BY <1>4, <2>1, <2>2
<1>5. after = [r \in DOMAIN o |-> after[r]]
  BY DEF planned
<1>6. tiled(d, before, t, reached)
        = [r \in DOMAIN o |-> IF reached /\ r \in outputsOf(t)
             THEN adds(t, before[r], termsOf(d, r, inputsOf(t))) ELSE before[r]]
  BY <1>1 DEF tiled
<1> HIDE DEF before, after
<1>7. tiled(d, before, t, reached) = after
  BY <1>3, <1>4, <1>5, <1>6
<1> QED BY <1>7 DEF before, after

coded(d, o, ins, reached) ==
  [r \in DOMAIN o |-> IF reached THEN termsOf(d, r, 0..(ins - 1)) ELSE o[r]]

(* At the end of an orderly plan every output has the terms of every       *)
(* input, and nothing else.                                                *)
LEMMA PlanEnds ==
  ASSUME NEW n \in Nat, NEW ins \in Nat \ {0}, NEW outs, NEW plan,
         Orderly(plan, n, ins, outs),
         NEW d, NEW o, o = [r \in DOMAIN o |-> o[r]], DOMAIN o = 0..(outs - 1),
         NEW reached \in BOOLEAN
  PROVE  /\ planned(d, o, plan, 0, reached) = o
         /\ planned(d, o, plan, n, reached) = coded(d, o, ins, reached)
<1>1. planned(d, o, plan, 0, reached) = o
  <2>1. \A r : makers(plan, 0, r) = {}
    BY DEF makers
  <2>2. planned(d, o, plan, 0, reached) = [r \in DOMAIN o |-> o[r]]
    BY <2>1 DEF planned
  <2> QED BY <2>2
<1>2. ASSUME NEW r \in 0..(outs - 1)
      PROVE  makers(plan, n, r) # {} /\ madeOf(plan, n, r) = 0..(ins - 1)
  <2>1. 0 \in 0..(ins - 1)
    OBVIOUS
  <2>2. makers(plan, n, r) # {}
    BY <2>1 DEF Orderly, makers
  <2>3. 0..(ins - 1) \subseteq madeOf(plan, n, r)
    BY DEF Orderly, madeOf, makers
  <2>4. madeOf(plan, n, r) \subseteq 0..(ins - 1)
    BY DEF Orderly, madeOf, makers
  <2> QED BY <2>2, <2>3, <2>4
<1> QED BY <1>1, <1>2 DEF planned, coded

(* A fold over the tiles of a plan, with the coefficients M[k] for the     *)
(* k-th.                                                                   *)
TilesFold(g, M, plan, n, d, o, lo, hi) ==
  g = [s \in SUBSET (1..n) |->
         IF s = {} THEN o
         ELSE codeTile(M[Max(s)], d, g[s \ {Max(s)}], plan[Max(s)], lo, hi)]

CoefsOf(M, plan, n) ==
  \A k \in 1..n : \A x \in 0..(plan[k].ins * plan[k].outs - 1) :
     M[k][x] = coefficients(plan[k])[x]

(* Tile after tile, each with its own coefficients, codes what an orderly  *)
(* plan codes.                                                             *)
LEMMA TilesCoded ==
  ASSUME at \in Nat, NEW lo \in Nat, NEW hi \in Nat, lo <= hi,
         NEW n \in Nat, NEW ins \in Nat \ {0}, NEW outs, NEW plan,
         Orderly(plan, n, ins, outs), NEW M, CoefsOf(M, plan, n),
         NEW d, NEW o, IsMap(o), DOMAIN o = 0..(outs - 1)
  PROVE  /\ \E g : TilesFold(g, M, plan, n, d, o, lo, hi)
         /\ \A g : TilesFold(g, M, plan, n, d, o, lo, hi) =>
               g[1..n] = coded(d, o, ins, Reached(lo, lo + avxMasked(hi - lo)))
<1> DEFINE reached == Reached(lo, lo + avxMasked(hi - lo))
           T == (UNION {o[r] : r \in DOMAIN o})
                  \cup UNION {termsOf(d, r, inputsOf(plan[k])) : r \in DOMAIN o, k \in 1..n}
           Y == [DOMAIN o -> SUBSET T]
           h == [k \in 1..n |-> [y \in Y |-> codeTile(M[k], d, y, plan[k], lo, hi)]]
           F == [k \in 0..n |-> planned(d, o, plan, k, reached)]
<1>0. reached \in BOOLEAN /\ o = [r \in DOMAIN o |-> o[r]]
  BY DEF Reached, IsMap
<1>1. ASSUME NEW k \in 1..n, NEW y, y = [r \in DOMAIN y |-> y[r]]
      PROVE  codeTile(M[k], d, y, plan[k], lo, hi) = tiled(d, y, plan[k], reached)
  <2>1. Tile(plan[k])
    BY DEF Orderly
  <2>2. Holds(M[k], plan[k])
    BY DEF CoefsOf, Holds
  <2>3. IsMap(y)
    BY <1>1, Zenon DEF IsMap
  <2> QED BY <2>1, <2>2, <2>3, TileCoded
<1> HIDE DEF reached
<1>2. o \in Y
  <2>0. o = [r \in DOMAIN o |-> o[r]]
    BY <1>0
  <2>1. \A r \in DOMAIN o : o[r] \in SUBSET T
    OBVIOUS
  <2> HIDE DEF T
  <2> QED BY <2>0, <2>1
<1>3. ASSUME NEW k \in 1..n, NEW y \in Y
      PROVE  codeTile(M[k], d, y, plan[k], lo, hi) \in Y
  <2>1. codeTile(M[k], d, y, plan[k], lo, hi) = tiled(d, y, plan[k], reached)
    <3> HIDE DEF T
    <3> QED BY <1>1
  <2>2. \A r \in DOMAIN o : termsOf(d, r, inputsOf(plan[k])) \in SUBSET T
    OBVIOUS
  <2> HIDE DEF T
  <2>3. \A r \in DOMAIN o : y[r] \in SUBSET T
    OBVIOUS
  <2>4. \A r \in DOMAIN o : adds(plan[k], y[r], termsOf(d, r, inputsOf(plan[k]))) \in SUBSET T
    BY <2>2, <2>3 DEF adds, SymDiff
  <2>5. DOMAIN y = DOMAIN o
    OBVIOUS
  <2> QED BY <2>1, <2>3, <2>4, <2>5 DEF tiled
<1>4. h \in [1..n -> [Y -> Y]]
  <2> HIDE DEF Y
  <2> QED BY <1>3
<1>5. PICK g1 : Folded(g1, h, o, n) /\ \A s \in SUBSET (1..n) : g1[s] \in Y
  <2> HIDE DEF h, Y
  <2> QED BY <1>2, <1>4, FoldExists
<1>6. TilesFold(g1, M, plan, n, d, o, lo, hi)
  <2>1. ASSUME NEW s \in SUBSET (1..n), s # {}
        PROVE  h[Max(s)][g1[s \ {Max(s)}]]
                 = codeTile(M[Max(s)], d, g1[s \ {Max(s)}], plan[Max(s)], lo, hi)
    <3>1. Max(s) \in 1..n
      BY <2>1, GreatestOf
    <3>2. g1[s \ {Max(s)}] \in Y
      <4>1. s \ {Max(s)} \in SUBSET (1..n)
        OBVIOUS
      <4> HIDE DEF Y
      <4> QED BY <1>5, <4>1
    <3> HIDE DEF Y
    <3> QED BY <3>1, <3>2
  <2> HIDE DEF h, Y
  <2> QED BY <1>5, <2>1 DEF Folded, TilesFold
<1>7. SUFFICES ASSUME NEW g0, TilesFold(g0, M, plan, n, d, o, lo, hi)
             PROVE  g0[1..n] = coded(d, o, ins, reached)
  BY <1>6 DEF reached
<1>8. g0[{}] = F[0]
  <2>1. g0[{}] = o
    BY <1>7 DEF TilesFold
  <2>2. F[0] = planned(d, o, plan, 0, reached)
    OBVIOUS
  <2> HIDE DEF F
  <2> QED BY <1>0, <2>1, <2>2, PlanEnds DEF reached
<1>9. ASSUME NEW k \in 1..n, g0[1..(k - 1)] = F[k - 1] PROVE g0[1..k] = F[k]
  <2>0. k \in Nat \ {0} /\ 1..k \in SUBSET (1..n)
    OBVIOUS
  <2>1. 1..k # {} /\ Max(1..k) = k /\ (1..k) \ {k} = 1..(k - 1)
    BY <2>0, UpTo
  <2>2. g0[1..k] = codeTile(M[k], d, g0[1..(k - 1)], plan[k], lo, hi)
    BY <1>7, <2>0, <2>1 DEF TilesFold
  <2>3. F[k - 1] = planned(d, o, plan, k - 1, reached) /\ F[k] = planned(d, o, plan, k, reached)
    OBVIOUS
  <2> DEFINE y == planned(d, o, plan, k - 1, reached)
  <2>4. y = [r \in DOMAIN y |-> y[r]]
    BY DEF planned
  <2>5. tiled(d, y, plan[k], reached) = planned(d, o, plan, k, reached)
    BY <1>0, PlanStep DEF reached
  <2> HIDE DEF F, y
  <2>6. codeTile(M[k], d, y, plan[k], lo, hi) = tiled(d, y, plan[k], reached)
    BY <1>1, <2>4
  <2> QED BY <1>9, <2>2, <2>3, <2>5, <2>6 DEF y
<1>10. g0[1..n] = F[n]
  <2> HIDE DEF F
  <2> QED BY <1>8, <1>9, FoldPrefix
<1>11. F[n] = planned(d, o, plan, n, reached)
  OBVIOUS
<1>12. planned(d, o, plan, n, reached) = coded(d, o, ins, reached)
  BY <1>0, PlanEnds DEF reached
<1> HIDE DEF F
<1> QED BY <1>10, <1>11, <1>12

(* The runs of ten, one after the other up to the total.                   *)
LEMMA TensRuns ==
  ASSUME NEW total \in Nat \ {0}
  PROVE  /\ Len(tens(total)) \in Nat \ {0}
         /\ \A k \in 1..Len(tens(total)) :
              /\ tens(total)[k][1] \in Nat /\ tens(total)[k][2] \in Nat \ {0}
              /\ tens(total)[k][1] + tens(total)[k][2] <= total
              /\ tens(total)[k][1] = 0 <=> k = 1
         /\ \A k, l \in 1..Len(tens(total)) :
              k < l => tens(total)[k][1] + tens(total)[k][2] <= tens(total)[l][1]
         /\ \A x \in 0..(total - 1) : \E k \in 1..Len(tens(total)) :
              x \in tens(total)[k][1]..(tens(total)[k][1] + tens(total)[k][2] - 1)
         /\ total <= 10 => tens(total)[1] = <<0, total>>
<1> DEFINE m == (total + 9) \div 10
           run(k) == <<10 * (k - 1), least(10, total - 10 * (k - 1))>>
<1>1. m \in Nat \ {0} /\ 10 * m <= total + 9 /\ total <= 10 * m
  OBVIOUS
<1>2. tens(total) = [k \in 1..m |-> run(k)]
  BY DEF tens
<1> HIDE DEF m
<1>4. Len(tens(total)) = m
  <2>1. tens(total) \in [1..m -> {run(k) : k \in 1..m}]
    <3> HIDE DEF run
    <3> QED BY <1>2
  <2> HIDE DEF run
  <2> QED BY <1>1, <2>1, SequenceOf
<1>5. \A k \in 1..m : tens(total)[k] = run(k)
  <2> HIDE DEF run
  <2> QED BY <1>2
<1>6. ASSUME NEW k \in 1..m
      PROVE  /\ run(k)[1] \in Nat /\ run(k)[2] \in Nat \ {0}
             /\ run(k)[1] + run(k)[2] <= total
             /\ run(k)[1] = 0 <=> k = 1
             /\ run(k)[1] = 10 * (k - 1) /\ run(k)[2] <= 10
  BY <1>1 DEF least
<1>7. ASSUME NEW k \in 1..m, NEW l \in 1..m, k < l
      PROVE  run(k)[1] + run(k)[2] <= run(l)[1]
  <2>1. run(k)[1] = 10 * (k - 1) /\ run(k)[2] <= 10 /\ run(l)[1] = 10 * (l - 1)
        /\ run(k)[2] \in Nat
    BY <1>6
  <2> HIDE DEF run
  <2> QED BY <1>1, <1>7, <2>1
<1>8. ASSUME NEW x \in 0..(total - 1)
      PROVE  \E k \in 1..m : x \in run(k)[1]..(run(k)[1] + run(k)[2] - 1)
  <2> DEFINE k == x \div 10 + 1
  <2>1. k \in 1..m /\ 10 * (k - 1) <= x /\ x < 10 * (k - 1) + 10
    BY <1>1
  <2> HIDE DEF k
  <2>2. x \in run(k)[1]..(run(k)[1] + run(k)[2] - 1)
    BY <2>1 DEF least
  <2> HIDE DEF run
  <2> QED BY <2>1, <2>2
<1>9. total <= 10 => run(1) = <<0, total>>
  BY DEF least
<1> HIDE DEF run
<1>10. 1 \in 1..m
  BY <1>1
<1> QED BY <1>1, <1>4, <1>5, <1>6, <1>7, <1>8, <1>9, <1>10

(* Tile k of a plan is of the A[k]-th run of inputs and the B[k]-th of     *)
(* outputs; every pair once, the first inputs of every run of outputs      *)
(* before the others.                                                      *)
Grid(plan, n, A, B, ins, outs) ==
  /\ \A k \in 1..n :
       /\ A[k] \in 1..Len(tens(ins)) /\ B[k] \in 1..Len(tens(outs))
       /\ plan[k].inIdx = tens(ins)[A[k]][1] /\ plan[k].ins = tens(ins)[A[k]][2]
       /\ plan[k].outIdx = tens(outs)[B[k]][1] /\ plan[k].outs = tens(outs)[B[k]][2]
  /\ \A k, j \in 1..n : A[k] = A[j] /\ B[k] = B[j] => k = j
  /\ \A a \in 1..Len(tens(ins)), b \in 1..Len(tens(outs)) :
        \E k \in 1..n : A[k] = a /\ B[k] = b
  /\ \A k \in 1..n : A[k] = 1 <=> \A j \in 1..(k - 1) : B[j] # B[k]

(* Runs of ten do not meet.                                                *)
LEMMA RunsApart ==
  ASSUME NEW total \in Nat \ {0}, NEW k \in 1..Len(tens(total)), NEW l \in 1..Len(tens(total)),
         NEW x \in tens(total)[k][1]..(tens(total)[k][1] + tens(total)[k][2] - 1),
         x \in tens(total)[l][1]..(tens(total)[l][1] + tens(total)[l][2] - 1)
  PROVE  k = l
<1> DEFINE a == tens(total)[k][1]
           b == tens(total)[k][2]
           c == tens(total)[l][1]
           e == tens(total)[l][2]
<1>1. /\ a \in Nat /\ b \in Nat /\ c \in Nat /\ e \in Nat
      /\ Len(tens(total)) \in Nat
      /\ k < l => a + b <= c
      /\ l < k => c + e <= a
  BY TensRuns
<1>2. x \in a..(a + b - 1) /\ x \in c..(c + e - 1)
  OBVIOUS
<1> HIDE DEF a, b, c, e
<1>3. k \in Nat /\ l \in Nat
  BY <1>1
<1>4. ~(k < l) /\ ~(l < k)
  BY <1>1, <1>2
<1> QED BY <1>3, <1>4

(* A grid of runs of inputs and runs of outputs is an orderly plan.        *)
LEMMA GridOrderly ==
  ASSUME NEW ins \in Nat \ {0}, NEW outs \in Nat \ {0}, NEW n \in Nat, NEW plan,
         NEW A, NEW B, Grid(plan, n, A, B, ins, outs)
  PROVE  Orderly(plan, n, ins, outs)
<1> DEFINE i == tens(ins)
           o == tens(outs)
<1>1. ASSUME NEW k \in 1..n
      PROVE  /\ A[k] \in 1..Len(i) /\ B[k] \in 1..Len(o)
             /\ inputsOf(plan[k]) = i[A[k]][1]..(i[A[k]][1] + i[A[k]][2] - 1)
             /\ outputsOf(plan[k]) = o[B[k]][1]..(o[B[k]][1] + o[B[k]][2] - 1)
             /\ plan[k].inIdx = i[A[k]][1]
  BY DEF Grid, inputsOf, outputsOf
<1>2. ASSUME NEW k \in 1..n
      PROVE Tile(plan[k]) /\ inputsOf(plan[k]) \subseteq 0..(ins - 1)
            /\ outputsOf(plan[k]) # {}
            /\ (plan[k].inIdx = 0 <=> A[k] = 1)
  <2> DEFINE a == i[A[k]]
             b == o[B[k]]
  <2>1. /\ a[1] \in Nat /\ a[2] \in Nat \ {0} /\ a[1] + a[2] <= ins
        /\ b[1] \in Nat /\ b[2] \in Nat \ {0} /\ b[1] + b[2] <= outs
        /\ a[1] = 0 <=> A[k] = 1
    BY <1>1, TensRuns
  <2>2. /\ plan[k].inIdx = a[1] /\ plan[k].ins = a[2]
        /\ plan[k].outIdx = b[1] /\ plan[k].outs = b[2]
    BY DEF Grid
  <2> HIDE DEF a, b
  <2> QED BY <2>1, <2>2 DEF Tile, inputsOf, outputsOf
<1>3. ASSUME NEW k \in 1..n, NEW r \in outputsOf(plan[k]), NEW j \in 1..(k - 1)
      PROVE  r \in outputsOf(plan[j]) <=> B[j] = B[k]
  <2>1. j \in 1..n
    OBVIOUS
  <2>2. B[j] = B[k] => outputsOf(plan[j]) = outputsOf(plan[k])
    BY <1>1, <2>1
  <2>3. ASSUME r \in outputsOf(plan[j]) PROVE B[j] = B[k]
    <3>1. /\ B[j] \in 1..Len(o) /\ B[k] \in 1..Len(o)
          /\ r \in o[B[k]][1]..(o[B[k]][1] + o[B[k]][2] - 1)
          /\ r \in o[B[j]][1]..(o[B[j]][1] + o[B[j]][2] - 1)
      BY <1>1, <2>1, <2>3
    <3> QED BY <3>1, RunsApart
  <2> QED BY <2>2, <2>3
<1>4. ASSUME NEW k \in 1..n, NEW r \in outputsOf(plan[k])
      PROVE  plan[k].inIdx = 0 <=> \A j \in 1..(k - 1) : r \notin outputsOf(plan[j])
  <2>1. A[k] = 1 <=> \A j \in 1..(k - 1) : B[j] # B[k]
    BY DEF Grid
  <2> QED BY <1>2, <1>3, <2>1
<1>5. ASSUME NEW k \in 1..n, NEW j \in 1..(k - 1),
             NEW r \in outputsOf(plan[k]), r \in outputsOf(plan[j]),
             NEW x \in inputsOf(plan[k]), x \in inputsOf(plan[j])
      PROVE  FALSE
  <2>1. j \in 1..n /\ j # k
    OBVIOUS
  <2>2. B[j] = B[k]
    BY <1>3, <1>5
  <2>3. A[j] = A[k]
    <3>1. /\ A[j] \in 1..Len(i) /\ A[k] \in 1..Len(i)
          /\ x \in i[A[k]][1]..(i[A[k]][1] + i[A[k]][2] - 1)
          /\ x \in i[A[j]][1]..(i[A[j]][1] + i[A[j]][2] - 1)
      BY <1>1, <1>5, <2>1
    <3> QED BY <3>1, RunsApart
  <2> QED BY <2>1, <2>2, <2>3 DEF Grid
<1>6. ASSUME NEW r \in 0..(outs - 1), NEW x \in 0..(ins - 1)
      PROVE  \E k \in 1..n : r \in outputsOf(plan[k]) /\ x \in inputsOf(plan[k])
  <2>1. PICK a \in 1..Len(i) : x \in i[a][1]..(i[a][1] + i[a][2] - 1)
    BY TensRuns
  <2>2. PICK b \in 1..Len(o) : r \in o[b][1]..(o[b][1] + o[b][2] - 1)
    BY TensRuns
  <2>3. PICK k \in 1..n : A[k] = a /\ B[k] = b
    BY DEF Grid
  <2> QED BY <1>1, <2>1, <2>2, <2>3
<1> QED BY <1>2, <1>4, <1>5, <1>6 DEF Orderly

(* Rows and columns of a grid, counted row by row.                         *)
cells(a, l) == a * l
rowOf(k, l) == ((k - 1) \div l) + 1
columnOf(k, l) == ((k - 1) % l) + 1

LEMMA Cells ==
  ASSUME NEW a \in Nat, NEW l \in Nat \ {0}, NEW k \in 1..(a * l)
  PROVE  /\ ((k - 1) \div l) + 1 \in 1..a /\ ((k - 1) % l) + 1 \in 1..l
         /\ k = ((k - 1) \div l) * l + ((k - 1) % l) + 1
         /\ ((k - 1) \div l) * l \in Nat
<1>1. a * l \in Nat
  OBVIOUS
<1>2. k - 1 \in Nat /\ k - 1 < a * l
  BY <1>1
<1>3. (k - 1) \div l \in 0..(a - 1)
  BY <1>2, QuotientLess
<1> DEFINE x == k - 1
           q == x \div l
           r == x % l
<1>4. q \in Nat /\ r \in Nat /\ r < l /\ x = l * q + r
  <2> HIDE DEF x
  <2> QED BY <1>2 DEF x
<1> HIDE DEF q, r
<1>5. l * q = q * l /\ q * l \in Nat
  BY <1>4
<1>6. q \in 0..(a - 1)
  BY <1>3 DEF q
<1>7. q + 1 \in 1..a /\ r + 1 \in 1..l /\ k = q * l + r + 1
  <2> DEFINE y == q * l
  <2> HIDE DEF y
  <2>1. k - 1 = y + r /\ y \in Nat
    BY <1>4, <1>5 DEF y, x
  <2>2. k = y + r + 1
    BY <1>2, <1>4, <2>1
  <2> QED BY <1>4, <1>6, <2>2 DEF y
<1> QED BY <1>5, <1>7 DEF q, r

LEMMA CellBack ==
  ASSUME NEW total \in Nat, NEW l \in Nat \ {0}, NEW a \in 1..total, NEW b \in 1..l,
         NEW n, n = cells(total, l)
  PROVE  \E k \in 1..n : rowOf(k, l) = a /\ columnOf(k, l) = b
<1> DEFINE k == (a - 1) * l + b
           p == a - 1
<1>1. a - 1 \in Nat /\ b - 1 \in Nat /\ b - 1 < l /\ a \in Nat
  OBVIOUS
<1>2. (p * l + (b - 1)) \div l = p /\ (p * l + (b - 1)) % l = b - 1
  <2> HIDE DEF p
  <2> QED BY <1>1, CellOf DEF p
<1>3. p * l + l = a * l /\ p * l \in Nat /\ a * l <= total * l
  <2>1. a * l <= total * l
    BY TimesMore
  <2>2. a * l = (a - 1) * l + l
    OBVIOUS
  <2> QED BY <1>1, <2>1, <2>2
<1>4. k - 1 = p * l + (b - 1) /\ k \in 1..(total * l)
  <2> DEFINE y == p * l
             z == a * l
             u == total * l
  <2>0. k = y + b /\ u \in Nat /\ z \in Nat
    BY <1>1
  <2> HIDE DEF y, z, u, k
  <2>1. y + l = z /\ y \in Nat /\ z <= u
    BY <1>3 DEF y, z, u
  <2>2. k - 1 = y + (b - 1) /\ k \in 1..u
    BY <2>0, <2>1
  <2> QED BY <2>2 DEF y, u
<1>5. ((k - 1) \div l) + 1 = a /\ ((k - 1) % l) + 1 = b
  <2> HIDE DEF k
  <2>1. ((k - 1) \div l) = p /\ ((k - 1) % l) = b - 1
    BY <1>2, <1>4
  <2> QED BY <1>1, <2>1 DEF p
<1> HIDE DEF k
<1> QED BY <1>4, <1>5 DEF rowOf, columnOf, cells

gridSize(ins, outs) == Len(tens(ins)) * Len(tens(outs))

inRow(l, n) == [k \in 1..n |-> ((k - 1) \div l) + 1]
inColumn(l, n) == [k \in 1..n |-> ((k - 1) % l) + 1]

(* The tiles of inputsOutside and outputsOutside, by their runs.           *)
LEMMA GridOfInputs ==
  ASSUME NEW ins \in Nat \ {0}, NEW outs \in Nat \ {0}
  PROVE  LET l == Len(tens(outs))
             n == gridSize(ins, outs)
             plan == inputsOutside(ins, outs)
             A == inRow(l, n)
             B == inColumn(l, n)
         IN  /\ n \in Nat \ {0} /\ DOMAIN plan = 1..n
             /\ Grid(plan, n, A, B, ins, outs)
             /\ \A k \in 1..n :
                  plan[k] = tile(tens(ins)[A[k]], tens(outs)[B[k]],
                                 tens(ins)[A[k]][1] * outs
                                   + tens(ins)[A[k]][2] * tens(outs)[B[k]][1])
<1> DEFINE i == tens(ins)
           o == tens(outs)
           li == Len(i)
           l == Len(o)
           n == gridSize(ins, outs)
           plan == inputsOutside(ins, outs)
           A == inRow(l, n)
           B == inColumn(l, n)
           t(a, b) == tile(a, b, a[1] * outs + a[2] * b[1])
<1>1. li \in Nat \ {0} /\ l \in Nat \ {0} /\ n = li * l
  BY TensRuns DEF gridSize
<1>2. n \in Nat \ {0}
  <2>1. 1 * l <= li * l
    <3>1. 1 \in Nat /\ 1 <= li
      BY <1>1
    <3> HIDE DEF li, l
    <3> QED BY <1>1, <3>1, TimesMore
  <2> HIDE DEF li, l, n
  <2>2. li * l \in Nat /\ 1 * l = l
    BY <1>1
  <2> QED BY <1>1, <2>1, <2>2
<1>3. plan = [k \in 1..n |-> t(i[((k - 1) \div l) + 1], o[((k - 1) % l) + 1])]
  <2> HIDE DEF i, o
  <2> QED BY <1>1 DEF inputsOutside, i, o
<1>4. \A k \in 1..n : A[k] = ((k - 1) \div l) + 1 /\ B[k] = ((k - 1) % l) + 1
  <2> HIDE DEF n, l
  <2> QED BY DEF inRow, inColumn
<1>5. DOMAIN plan = 1..n /\ \A k \in 1..n : plan[k] = t(i[A[k]], o[B[k]])
  <2> HIDE DEF plan, A, B, i, o, n, t, l
  <2> QED BY <1>3, <1>4
<1> HIDE DEF plan, A, B, i, o, n, l, li
<1>6. \A k \in 1..n : /\ A[k] \in 1..li /\ B[k] \in 1..l
                      /\ k = (A[k] - 1) * l + B[k] /\ (A[k] - 1) * l \in Nat
  <2> SUFFICES ASSUME NEW k \in 1..n
               PROVE  /\ A[k] \in 1..li /\ B[k] \in 1..l
                      /\ k = (A[k] - 1) * l + B[k] /\ (A[k] - 1) * l \in Nat
    OBVIOUS
  <2>1. k \in 1..(li * l)
    BY <1>1
  <2>2. /\ ((k - 1) \div l) + 1 \in 1..li /\ ((k - 1) % l) + 1 \in 1..l
        /\ k = ((k - 1) \div l) * l + ((k - 1) % l) + 1
        /\ ((k - 1) \div l) * l \in Nat
    BY <1>1, <2>1, Cells
  <2> DEFINE p == (k - 1) \div l
             q == (k - 1) % l
  <2> HIDE DEF p, q
  <2>3. A[k] = p + 1 /\ B[k] = q + 1 /\ p \in Int /\ q \in Int
    <3>1. k - 1 \in Int
      BY <1>2
    <3> QED BY <1>1, <1>4, <3>1 DEF p, q
  <2>4. A[k] - 1 = p
    BY <2>3
  <2> DEFINE y == p * l
  <2>5. k = y + q + 1 /\ y \in Nat
    BY <2>2 DEF p, q
  <2> HIDE DEF y
  <2>6. k = y + (q + 1)
    BY <2>3, <2>5
  <2> QED BY <2>2, <2>3, <2>4, <2>5, <2>6 DEF p, q, y
<1>7. \A k, j \in 1..n : A[k] = A[j] /\ B[k] = B[j] => k = j
  BY <1>6
<1>8. ASSUME NEW a \in 1..li, NEW b \in 1..l PROVE \E k \in 1..n : A[k] = a /\ B[k] = b
  <2>1. PICK k \in 1..n : rowOf(k, l) = a /\ columnOf(k, l) = b
    <3>1. li \in Nat /\ l \in Nat \ {0} /\ n = cells(li, l)
      BY <1>1 DEF cells
    <3> QED BY <3>1, CellBack
  <2> QED BY <1>4, <2>1 DEF rowOf, columnOf
<1>9. ASSUME NEW k \in 1..n PROVE A[k] = 1 <=> \A j \in 1..(k - 1) : B[j] # B[k]
  <2>1. ASSUME A[k] = 1, NEW j \in 1..(k - 1), B[j] = B[k] PROVE FALSE
    <3>1. j \in 1..n /\ j < k
      BY <1>2
    <3> DEFINE y == (A[j] - 1) * l
    <3>2. j = y + B[j] /\ y \in Nat /\ B[j] \in 1..l /\ B[k] \in 1..l
          /\ k = (A[k] - 1) * l + B[k]
      BY <1>6, <3>1
    <3>3. (A[k] - 1) * l = 0
      BY <1>1, <2>1
    <3> HIDE DEF y
    <3>4. B[k] \in Int /\ k = B[k] /\ l \in Nat
      BY <1>1, <3>2, <3>3
    <3> QED BY <2>1, <3>1, <3>2, <3>4
  <2>2. ASSUME A[k] # 1 PROVE \E j \in 1..(k - 1) : B[j] = B[k]
    <3>1. A[k] \in 1..li /\ B[k] \in 1..l /\ li \in Nat /\ l \in Nat \ {0}
      BY <1>1, <1>6
    <3>2. A[k] - 1 \in 1..li
      BY <2>2, <3>1
    <3>3. PICK j \in 1..n : A[j] = A[k] - 1 /\ B[j] = B[k]
      BY <1>8, <3>1, <3>2
    <3>4. k = (A[k] - 1) * l + B[k] /\ j = (A[k] - 2) * l + B[k]
          /\ (A[k] - 1) * l = (A[k] - 2) * l + l
          /\ (A[k] - 2) * l \in Int
      <4>1. A[j] - 1 = A[k] - 2
        BY <3>1, <3>3
      <4>2. (A[k] - 1) * l = (A[k] - 2) * l + l
        BY <3>1
      <4> QED BY <1>6, <3>1, <3>3, <4>1, <4>2
    <3> DEFINE y == (A[k] - 2) * l
               z == (A[k] - 1) * l
    <3>5. k = z + B[k] /\ j = y + B[k] /\ z = y + l /\ y \in Int /\ B[k] \in Nat
      BY <3>1, <3>4
    <3> HIDE DEF y, z
    <3>6. j < k
      BY <3>1, <3>5
    <3>7. j \in 1..(k - 1)
      BY <1>2, <3>6
    <3> QED BY <3>3, <3>7
  <2> QED BY <2>1, <2>2
<1>10. \A k \in 1..n : /\ plan[k].inIdx = i[A[k]][1] /\ plan[k].ins = i[A[k]][2]
                       /\ plan[k].outIdx = o[B[k]][1] /\ plan[k].outs = o[B[k]][2]
  BY <1>5 DEF tile
<1>11. Grid(plan, n, A, B, ins, outs)
  BY <1>6, <1>7, <1>8, <1>9, <1>10 DEF Grid, i, o, li, l
<1> QED BY <1>2, <1>5, <1>11 DEF plan, n, A, B, i, o, l

(* The same for outputsOutside.                                            *)
LEMMA GridOfOutputs ==
  ASSUME NEW ins \in Nat \ {0}, NEW outs \in Nat \ {0}
  PROVE  LET l == Len(tens(ins))
             n == gridSize(ins, outs)
             plan == outputsOutside(ins, outs)
             A == inColumn(l, n)
             B == inRow(l, n)
         IN  /\ n \in Nat \ {0} /\ DOMAIN plan = 1..n
             /\ Grid(plan, n, A, B, ins, outs)
             /\ \A k \in 1..n :
                  plan[k] = tile(tens(ins)[A[k]], tens(outs)[B[k]],
                                 tens(outs)[B[k]][1] * ins
                                   + tens(outs)[B[k]][2] * tens(ins)[A[k]][1])
<1> DEFINE i == tens(ins)
           o == tens(outs)
           l == Len(i)
           lo == Len(o)
           n == gridSize(ins, outs)
           plan == outputsOutside(ins, outs)
           A == inColumn(l, n)
           B == inRow(l, n)
           t(a, b) == tile(a, b, b[1] * ins + b[2] * a[1])
<1>1. lo \in Nat \ {0} /\ l \in Nat \ {0} /\ n = l * lo /\ n = lo * l
  BY TensRuns DEF gridSize
<1>2. n \in Nat \ {0}
  <2>1. 1 * l <= lo * l
    <3>1. 1 \in Nat /\ 1 <= lo
      BY <1>1
    <3> HIDE DEF lo, l
    <3> QED BY <1>1, <3>1, TimesMore
  <2> HIDE DEF lo, l, n
  <2>2. lo * l \in Nat /\ 1 * l = l
    BY <1>1
  <2> QED BY <1>1, <2>1, <2>2
<1>3. plan = [k \in 1..n |-> t(i[((k - 1) % l) + 1], o[((k - 1) \div l) + 1])]
  <2> HIDE DEF i, o
  <2> QED BY <1>1 DEF outputsOutside, i, o
<1>4. \A k \in 1..n : A[k] = ((k - 1) % l) + 1 /\ B[k] = ((k - 1) \div l) + 1
  <2> HIDE DEF n, l
  <2> QED BY DEF inRow, inColumn
<1>5. DOMAIN plan = 1..n /\ \A k \in 1..n : plan[k] = t(i[A[k]], o[B[k]])
  <2> HIDE DEF plan, A, B, i, o, n, t, l
  <2> QED BY <1>3, <1>4
<1> HIDE DEF plan, A, B, i, o, n, l, lo
<1>6. \A k \in 1..n : /\ B[k] \in 1..lo /\ A[k] \in 1..l
                      /\ k = (B[k] - 1) * l + A[k] /\ (B[k] - 1) * l \in Nat
  <2> SUFFICES ASSUME NEW k \in 1..n
               PROVE  /\ B[k] \in 1..lo /\ A[k] \in 1..l
                      /\ k = (B[k] - 1) * l + A[k] /\ (B[k] - 1) * l \in Nat
    OBVIOUS
  <2>1. k \in 1..(lo * l)
    BY <1>1
  <2>2. /\ ((k - 1) \div l) + 1 \in 1..lo /\ ((k - 1) % l) + 1 \in 1..l
        /\ k = ((k - 1) \div l) * l + ((k - 1) % l) + 1
        /\ ((k - 1) \div l) * l \in Nat
    BY <1>1, <2>1, Cells
  <2> DEFINE p == (k - 1) \div l
             q == (k - 1) % l
  <2> HIDE DEF p, q
  <2>3. B[k] = p + 1 /\ A[k] = q + 1 /\ p \in Int /\ q \in Int
    <3>1. k - 1 \in Int
      BY <1>2
    <3> QED BY <1>1, <1>4, <3>1 DEF p, q
  <2>4. B[k] - 1 = p
    BY <2>3
  <2> DEFINE y == p * l
  <2>5. k = y + q + 1 /\ y \in Nat
    BY <2>2 DEF p, q
  <2> HIDE DEF y
  <2>6. k = y + (q + 1)
    BY <2>3, <2>5
  <2> QED BY <2>2, <2>3, <2>4, <2>5, <2>6 DEF p, q, y
<1>7. \A k, j \in 1..n : A[k] = A[j] /\ B[k] = B[j] => k = j
  BY <1>6
<1>8. ASSUME NEW a \in 1..l, NEW b \in 1..lo PROVE \E k \in 1..n : A[k] = a /\ B[k] = b
  <2>1. PICK k \in 1..n : rowOf(k, l) = b /\ columnOf(k, l) = a
    <3>1. lo \in Nat /\ l \in Nat \ {0} /\ n = cells(lo, l)
      BY <1>1 DEF cells
    <3> QED BY <3>1, CellBack
  <2> QED BY <1>4, <2>1 DEF rowOf, columnOf
<1>9. ASSUME NEW k \in 1..n PROVE A[k] = 1 <=> \A j \in 1..(k - 1) : B[j] # B[k]
  <2>1. ASSUME A[k] = 1, NEW j \in 1..(k - 1), B[j] = B[k] PROVE FALSE
    <3>1. j \in 1..n /\ j < k
      BY <1>2
    <3>2. /\ A[j] \in 1..l /\ j = (B[j] - 1) * l + A[j] /\ (B[j] - 1) * l \in Nat
          /\ k = (B[k] - 1) * l + 1
      BY <1>6, <2>1, <3>1
    <3> DEFINE y == (B[k] - 1) * l
    <3>3. j = y + A[j] /\ y \in Nat /\ k = y + 1 /\ A[j] \in 1..l
      BY <2>1, <3>2
    <3> HIDE DEF y
    <3> QED BY <3>1, <3>3
  <2>2. ASSUME A[k] # 1 PROVE \E j \in 1..(k - 1) : B[j] = B[k]
    <3>1. A[k] \in 1..l /\ B[k] \in 1..lo /\ lo \in Nat /\ l \in Nat \ {0}
      BY <1>1, <1>6
    <3>2. A[k] - 1 \in 1..l
      BY <2>2, <3>1
    <3>3. PICK j \in 1..n : A[j] = A[k] - 1 /\ B[j] = B[k]
      BY <1>8, <3>1, <3>2
    <3> DEFINE y == (B[k] - 1) * l
    <3>4. k = y + A[k] /\ j = y + (A[k] - 1) /\ y \in Nat
      BY <1>6, <3>3
    <3> HIDE DEF y
    <3>6. j < k
      BY <3>1, <3>4
    <3>7. j \in 1..(k - 1)
      BY <1>2, <3>6
    <3> QED BY <3>3, <3>7
  <2> QED BY <2>1, <2>2
<1>10. \A k \in 1..n : /\ plan[k].inIdx = i[A[k]][1] /\ plan[k].ins = i[A[k]][2]
                       /\ plan[k].outIdx = o[B[k]][1] /\ plan[k].outs = o[B[k]][2]
  BY <1>5 DEF tile
<1>11. Grid(plan, n, A, B, ins, outs)
  BY <1>6, <1>7, <1>8, <1>9, <1>10 DEF Grid, i, o, lo, l
<1> QED BY <1>2, <1>5, <1>11 DEF plan, n, A, B, i, o, l

(* Every tile of a plan reads its own coefficients.                        *)

CoefsRight(j, coefs) ==
  \A t \in ahead(j) : \A x \in 0..(t.ins * t.outs - 1) :
     coefs[t.from + x] = coefficients(t)[x]

(* The stretches of a plan stay within ins * outs coefficients.            *)
LEMMA StretchEnds ==
  ASSUME NEW total \in Nat, NEW p1 \in Nat, NEW p2 \in Nat, NEW q1 \in Nat, NEW q2 \in Nat,
         NEW r1 \in Nat, NEW r2 \in Nat, NEW s1 \in Nat, q1 + q2 <= total,
         p1 + p2 <= r1 \/ (p1 = r1 /\ p2 = r2 /\ q1 + q2 <= s1)
  PROVE  p1 * total + p2 * q1 + p2 * q2 <= r1 * total + r2 * s1
<1>1. /\ p1 * total \in Nat /\ p2 * q1 \in Nat /\ p2 * q2 \in Nat
      /\ r1 * total \in Nat /\ r2 * s1 \in Nat /\ p2 * total \in Nat
  OBVIOUS
<1>2. p2 * (q1 + q2) = p2 * q1 + p2 * q2
  OBVIOUS
<1>3. CASE p1 + p2 <= r1
  <2>1. (p1 + p2) * total <= r1 * total
    <3> DEFINE u == p1 + p2
    <3>1. u \in Nat /\ u <= r1
      BY <1>3
    <3> HIDE DEF u
    <3>2. u * total <= r1 * total
      BY <3>1, TimesMore
    <3> QED BY <3>2 DEF u
  <2>2. (p1 + p2) * total = p1 * total + p2 * total
    OBVIOUS
  <2>3. (q1 + q2) * p2 <= total * p2
    <3> DEFINE v == q1 + q2
    <3>1. v \in Nat /\ v <= total
      OBVIOUS
    <3> HIDE DEF v
    <3>2. v * p2 <= total * p2
      BY <3>1, TimesMore
    <3> QED BY <3>2 DEF v
  <2>4. (q1 + q2) * p2 = p2 * q1 + p2 * q2 /\ total * p2 = p2 * total
    OBVIOUS
  <2> DEFINE a == p1 * total
             b == p2 * q1
             c == p2 * q2
             e == r1 * total
             f == r2 * s1
             g == p2 * total
  <2> HIDE DEF a, b, c, e, f, g
  <2>5. a + g <= e /\ b + c <= g
    BY <2>1, <2>2, <2>3, <2>4 DEF a, b, c, e, g
  <2>6. a + b + c <= e + f
    <3>1. a \in Nat /\ b \in Nat /\ c \in Nat /\ e \in Nat /\ f \in Nat /\ g \in Nat
      BY <1>1 DEF a, b, c, e, f, g
    <3> QED BY <2>5, <3>1
  <2> QED BY <2>6 DEF a, b, c, e, f
<1>4. CASE p1 = r1 /\ p2 = r2 /\ q1 + q2 <= s1
  <2>1. (q1 + q2) * p2 <= s1 * p2
    <3> DEFINE v == q1 + q2
    <3>1. v \in Nat /\ v <= s1
      BY <1>4
    <3> HIDE DEF v
    <3>2. v * p2 <= s1 * p2
      BY <3>1, TimesMore
    <3> QED BY <3>2 DEF v
  <2>2. (q1 + q2) * p2 = p2 * q1 + p2 * q2 /\ s1 * p2 = r2 * s1
    BY <1>4
  <2> DEFINE a == p1 * total
             b == p2 * q1
             c == p2 * q2
             e == r1 * total
             f == r2 * s1
  <2> HIDE DEF a, b, c, e, f
  <2>3. a = e /\ b + c <= f
    BY <1>4, <2>1, <2>2 DEF a, b, c, e, f
  <2>4. a + b + c <= e + f
    <3>1. a \in Nat /\ b \in Nat /\ c \in Nat /\ e \in Nat /\ f \in Nat
      BY <1>1 DEF a, b, c, e, f
    <3> QED BY <2>3, <3>1
  <2> QED BY <2>4 DEF a, b, c, e, f
<1> QED BY <1>3, <1>4

(* The tiles whose stretches do not meet.                                  *)
StretchesApart(tiles) ==
  /\ \A t \in tiles : t.from \in Nat /\ t.ins \in Nat /\ t.outs \in Nat
  /\ \A t, u \in tiles :
       t = u \/ t.from + t.ins * t.outs <= u.from \/ u.from + u.ins * u.outs <= t.from

(* Where stretches are apart, each tile finds its own coefficients in what *)
(* was written for all.                                                    *)
LEMMA WrittenRight ==
  ASSUME NEW tiles, StretchesApart(tiles), NEW t \in tiles,
         NEW x \in 0..(t.ins * t.outs - 1)
  PROVE  t.from + x \in DOMAIN written(tiles)
         /\ written(tiles)[t.from + x] = coefficients(t)[x]
<1> DEFINE y == t.from + x
           u == CHOOSE u \in tiles : y \in stretch(u)
<1>1. t.from \in Nat /\ t.ins * t.outs \in Nat /\ x \in Nat
  <2>1. t.from \in Nat /\ t.ins \in Nat /\ t.outs \in Nat
    BY DEF StretchesApart
  <2> QED BY <2>1
<1>2. y \in stretch(t) /\ y - t.from = x /\ y \in Nat
  <2> DEFINE l == t.ins * t.outs
  <2>1. l \in Nat /\ x \in 0..(l - 1)
    BY <1>1
  <2> HIDE DEF l
  <2>2. y \in t.from..(t.from + l - 1) /\ y - t.from = x /\ y \in Nat
    BY <1>1, <2>1
  <2> QED BY <2>2 DEF l, stretch
<1> HIDE DEF y
<1>3. u \in tiles /\ y \in stretch(u)
  BY <1>2
<1> HIDE DEF u
<1>4. u = t
  <2> DEFINE l == t.ins * t.outs
             k == u.ins * u.outs
  <2>1. u.from \in Nat /\ k \in Nat /\ l \in Nat /\ t.from \in Nat
    <3>1. u.from \in Nat /\ u.ins \in Nat /\ u.outs \in Nat
      BY <1>3 DEF StretchesApart
    <3> QED BY <1>1, <3>1
  <2>2. u = t \/ t.from + l <= u.from \/ u.from + k <= t.from
    BY <1>3 DEF StretchesApart
  <2>3. y \in t.from..(t.from + l - 1) /\ y \in u.from..(u.from + k - 1)
    BY <1>2, <1>3 DEF stretch
  <2> HIDE DEF l, k
  <2> QED BY <2>1, <2>2, <2>3
<1>5. y \in UNION {stretch(v) : v \in tiles}
  BY <1>2
<1>6. written(tiles)[y] = coefficients(u)[y - u.from] /\ y \in DOMAIN written(tiles)
  BY <1>5, Zenon DEF written, coefficients, u
<1> QED BY <1>2, <1>4, <1>6 DEF y

LEMMA RunOf ==
  ASSUME NEW total \in Nat \ {0}, NEW k \in 1..Len(tens(total)), NEW l \in 1..Len(tens(total))
  PROVE  /\ tens(total)[k][1] \in Nat /\ tens(total)[k][2] \in Nat
         /\ tens(total)[k][1] + tens(total)[k][2] <= total
         /\ \/ k = l \/ tens(total)[k][1] + tens(total)[k][2] <= tens(total)[l][1]
            \/ tens(total)[l][1] + tens(total)[l][2] <= tens(total)[k][1]
<1>1. Len(tens(total)) \in Nat
  BY TensRuns
<1>2. k \in Nat /\ l \in Nat
  BY <1>1
<1>3. k = l \/ k < l \/ l < k
  BY <1>2
<1>4. k < l => tens(total)[k][1] + tens(total)[k][2] <= tens(total)[l][1]
  BY TensRuns
<1>5. l < k => tens(total)[l][1] + tens(total)[l][2] <= tens(total)[k][1]
  BY TensRuns
<1> QED BY <1>3, <1>4, <1>5, TensRuns

(* The runs of one side of a grid, A, go by as rows, those of the other, B,*)
(* within each.                                                            *)
ByRows(plan, n, A, B, one, other) ==
  /\ \A k, j \in 1..n : A[k] = A[j] /\ B[k] = B[j] => k = j
  /\ \A k \in 1..n :
       /\ A[k] \in 1..Len(tens(one)) /\ B[k] \in 1..Len(tens(other))
       /\ plan[k].from = tens(one)[A[k]][1] * other
                          + tens(one)[A[k]][2] * tens(other)[B[k]][1]
       /\ plan[k].ins \in Nat /\ plan[k].outs \in Nat
       /\ plan[k].ins * plan[k].outs = tens(one)[A[k]][2] * tens(other)[B[k]][2]

(* Laid one after the other along the rows, stretches do not meet.         *)
LEMMA RowsApart ==
  ASSUME NEW one \in Nat \ {0}, NEW other \in Nat \ {0}, NEW n \in Nat,
         NEW plan, NEW A, NEW B, ByRows(plan, n, A, B, one, other)
  PROVE  StretchesApart({plan[k] : k \in 1..n})
<1> DEFINE i == tens(one)
           o == tens(other)
<1>2. ASSUME NEW k \in 1..n
      PROVE  /\ A[k] \in 1..Len(i) /\ B[k] \in 1..Len(o)
             /\ plan[k].from = i[A[k]][1] * other + i[A[k]][2] * o[B[k]][1]
             /\ plan[k].ins * plan[k].outs = i[A[k]][2] * o[B[k]][2]
             /\ plan[k].ins \in Nat /\ plan[k].outs \in Nat
  BY DEF ByRows
<1>3. ASSUME NEW k \in 1..n PROVE plan[k].from \in Nat
  <2> DEFINE a == i[A[k]][1] * other
             b == i[A[k]][2] * o[B[k]][1]
  <2>1. i[A[k]][1] \in Nat /\ i[A[k]][2] \in Nat /\ o[B[k]][1] \in Nat
    BY <1>2, RunOf
  <2>2. a \in Nat /\ b \in Nat
    <3>1. \A x, y \in Nat : x * y \in Nat
      OBVIOUS
    <3>2. other \in Nat
      OBVIOUS
    <3> QED BY <2>1, <3>1, <3>2, Zenon
  <2>3. plan[k].from = a + b
    BY <1>2
  <2> HIDE DEF a, b
  <2> QED BY <2>2, <2>3
<1>4. ASSUME NEW k \in 1..n, NEW j \in 1..n
      PROVE  \/ k = j \/ plan[k].from + plan[k].ins * plan[k].outs <= plan[j].from
             \/ plan[j].from + plan[j].ins * plan[j].outs <= plan[k].from
  <2> DEFINE p1 == i[A[k]][1]
             p2 == i[A[k]][2]
             q1 == o[B[k]][1]
             q2 == o[B[k]][2]
             r1 == i[A[j]][1]
             r2 == i[A[j]][2]
             s1 == o[B[j]][1]
             s2 == o[B[j]][2]
  <2>1. /\ p1 \in Nat /\ p2 \in Nat /\ r1 \in Nat /\ r2 \in Nat
        /\ A[k] = A[j] \/ p1 + p2 <= r1 \/ r1 + r2 <= p1
    BY <1>2, RunOf
  <2>2. /\ q1 \in Nat /\ q2 \in Nat /\ s1 \in Nat /\ s2 \in Nat
        /\ q1 + q2 <= other /\ s1 + s2 <= other
        /\ B[k] = B[j] \/ q1 + q2 <= s1 \/ s1 + s2 <= q1
    BY <1>2, RunOf
  <2>3. A[k] = A[j] => p1 = r1 /\ p2 = r2
    OBVIOUS
  <2>4. A[k] = A[j] /\ B[k] = B[j] => k = j
    BY DEF ByRows
  <2>5. /\ plan[k].from + plan[k].ins * plan[k].outs = p1 * other + p2 * q1 + p2 * q2
        /\ plan[j].from + plan[j].ins * plan[j].outs = r1 * other + r2 * s1 + r2 * s2
        /\ plan[k].from = p1 * other + p2 * q1 /\ plan[j].from = r1 * other + r2 * s1
    BY <1>2, Zenon
  <2> HIDE DEF p1, p2, q1, q2, r1, r2, s1, s2
  <2>0. other \in Nat
    OBVIOUS
  <2>6. p1 + p2 <= r1 \/ (p1 = r1 /\ p2 = r2 /\ q1 + q2 <= s1) =>
          p1 * other + p2 * q1 + p2 * q2 <= r1 * other + r2 * s1
    BY <2>0, <2>1, <2>2, StretchEnds
  <2>7. r1 + r2 <= p1 \/ (r1 = p1 /\ r2 = p2 /\ s1 + s2 <= q1) =>
          r1 * other + r2 * s1 + r2 * s2 <= p1 * other + p2 * q1
    BY <2>0, <2>1, <2>2, StretchEnds
  <2>8. \/ k = j \/ p1 + p2 <= r1 \/ (p1 = r1 /\ p2 = r2 /\ q1 + q2 <= s1)
        \/ r1 + r2 <= p1 \/ (r1 = p1 /\ r2 = p2 /\ s1 + s2 <= q1)
    BY <2>1, <2>2, <2>3, <2>4, Zenon
  <2> QED BY <2>5, <2>6, <2>7, <2>8, Zenon
<1> DEFINE S == {plan[k] : k \in 1..n}
<1>5. ASSUME NEW t \in S, NEW u \in S
      PROVE  /\ t.from \in Nat /\ t.ins \in Nat /\ t.outs \in Nat
             /\ t = u \/ t.from + t.ins * t.outs <= u.from \/ u.from + u.ins * u.outs <= t.from
  <2>1. PICK k \in 1..n : t = plan[k]
    OBVIOUS
  <2>2. PICK j \in 1..n : u = plan[j]
    OBVIOUS
  <2>3. k = j => t = u
    BY <2>1, <2>2
  <2> HIDE DEF S
  <2> QED BY <1>2, <1>3, <1>4, <2>1, <2>2, <2>3, Zenon
<1> HIDE DEF S
<1>6. StretchesApart(S)
  BY <1>5 DEF StretchesApart
<1> QED BY <1>6 DEF S

LEMMA InputsApart ==
  ASSUME NEW ins \in Nat \ {0}, NEW outs \in Nat \ {0}
  PROVE  StretchesApart({inputsOutside(ins, outs)[k] : k \in DOMAIN inputsOutside(ins, outs)})
<1> DEFINE i == tens(ins)
           o == tens(outs)
           n == gridSize(ins, outs)
           plan == inputsOutside(ins, outs)
           A == inRow(Len(o), n)
           B == inColumn(Len(o), n)
<1>1. /\ n \in Nat /\ DOMAIN plan = 1..n
      /\ Grid(plan, n, A, B, ins, outs)
      /\ \A k \in 1..n :
           plan[k] = tile(i[A[k]], o[B[k]], i[A[k]][1] * outs + i[A[k]][2] * o[B[k]][1])
  BY GridOfInputs
<1> HIDE DEF plan, A, B, n
<1>2. ASSUME NEW k \in 1..n
      PROVE  /\ A[k] \in 1..Len(i) /\ B[k] \in 1..Len(o)
             /\ plan[k].from = i[A[k]][1] * outs + i[A[k]][2] * o[B[k]][1]
             /\ plan[k].ins \in Nat /\ plan[k].outs \in Nat
             /\ plan[k].ins * plan[k].outs = i[A[k]][2] * o[B[k]][2]
  <2>1. A[k] \in 1..Len(i) /\ B[k] \in 1..Len(o)
    BY <1>1 DEF Grid
  <2>2. i[A[k]][2] \in Nat /\ o[B[k]][2] \in Nat
    BY <2>1, RunOf
  <2> HIDE DEF i, o
  <2>3. /\ plan[k].from = i[A[k]][1] * outs + i[A[k]][2] * o[B[k]][1]
        /\ plan[k].ins = i[A[k]][2] /\ plan[k].outs = o[B[k]][2]
    BY <1>1 DEF tile
  <2> QED BY <2>1, <2>2, <2>3
<1>3. \A k, j \in 1..n : A[k] = A[j] /\ B[k] = B[j] => k = j
  BY <1>1 DEF Grid
<1>4. ByRows(plan, n, A, B, ins, outs)
  BY <1>2, <1>3, Zenon DEF ByRows
<1>5. StretchesApart({plan[k] : k \in 1..n})
  <2>1. n \in Nat
    BY <1>1
  <2> HIDE DEF i, o
  <2> QED BY <1>4, <2>1, RowsApart
<1> QED BY <1>1, <1>5 DEF plan

LEMMA OutputsApart ==
  ASSUME NEW ins \in Nat \ {0}, NEW outs \in Nat \ {0}
  PROVE  StretchesApart({outputsOutside(ins, outs)[k] : k \in DOMAIN outputsOutside(ins, outs)})
<1> DEFINE i == tens(ins)
           o == tens(outs)
           n == gridSize(ins, outs)
           plan == outputsOutside(ins, outs)
           A == inColumn(Len(i), n)
           B == inRow(Len(i), n)
<1>1. /\ n \in Nat /\ DOMAIN plan = 1..n
      /\ Grid(plan, n, A, B, ins, outs)
      /\ \A k \in 1..n :
           plan[k] = tile(i[A[k]], o[B[k]], o[B[k]][1] * ins + o[B[k]][2] * i[A[k]][1])
  BY GridOfOutputs
<1> HIDE DEF plan, A, B, n
<1>2. ASSUME NEW k \in 1..n
      PROVE  /\ A[k] \in 1..Len(i) /\ B[k] \in 1..Len(o)
             /\ plan[k].from = o[B[k]][1] * ins + o[B[k]][2] * i[A[k]][1]
             /\ plan[k].ins \in Nat /\ plan[k].outs \in Nat
             /\ plan[k].ins * plan[k].outs = o[B[k]][2] * i[A[k]][2]
  <2>1. A[k] \in 1..Len(i) /\ B[k] \in 1..Len(o)
    BY <1>1 DEF Grid
  <2>2. i[A[k]][2] \in Nat /\ o[B[k]][2] \in Nat
    BY <2>1, RunOf
  <2> HIDE DEF i, o
  <2>3. /\ plan[k].from = o[B[k]][1] * ins + o[B[k]][2] * i[A[k]][1]
        /\ plan[k].ins = i[A[k]][2] /\ plan[k].outs = o[B[k]][2]
    BY <1>1 DEF tile
  <2>4. i[A[k]][2] * o[B[k]][2] = o[B[k]][2] * i[A[k]][2]
    BY <2>2
  <2> QED BY <2>1, <2>2, <2>3, <2>4
<1>3. \A k, j \in 1..n : B[k] = B[j] /\ A[k] = A[j] => k = j
  BY <1>1 DEF Grid
<1>4. ByRows(plan, n, B, A, outs, ins)
  BY <1>2, <1>3, Zenon DEF ByRows
<1>5. StretchesApart({plan[k] : k \in 1..n})
  <2>1. n \in Nat
    BY <1>1
  <2> HIDE DEF i, o
  <2> QED BY <1>4, <2>1, RowsApart
<1> QED BY <1>1, <1>5 DEF plan

(* Where every tile starts is a number of the plan.                        *)
LEMMA AheadApart ==
  ASSUME NEW j, j.ins \in Nat \ {0}, j.outs \in Nat \ {0}
  PROVE  StretchesApart(ahead(j))
<1>1. CASE j.path \in {"avx2", "avx2P"}
  <2>1. ahead(j) = {tile(<<0, j.ins>>, <<0, j.outs>>, 0)}
    BY <1>1 DEF ahead
  <2> QED BY <2>1 DEF StretchesApart, tile
<1>2. CASE j.path = "planP"
  <2>1. ahead(j) = {planOf(j)[k] : k \in DOMAIN planOf(j)}
    BY <1>2 DEF ahead
  <2>2. planOf(j) \in {inputsOutside(j.ins, j.outs), outputsOutside(j.ins, j.outs)}
    BY DEF planOf
  <2> QED BY <2>1, <2>2, InputsApart, OutputsApart
<1>3. CASE j.path \notin {"avx2", "avx2P", "planP"}
  <2>1. ahead(j) = {}
    BY <1>3 DEF ahead
  <2> QED BY <2>1 DEF StretchesApart
<1> QED BY <1>1, <1>2, <1>3

(* codeSomeShards leaves in the buffer the coefficients that its job       *)
(* reads.                                                                  *)
LEMMA PreparedRight ==
  ASSUME NEW j, j.ins \in Nat \ {0}, j.outs \in Nat \ {0}, NEW coefs
  PROVE  CoefsRight(j, prepared(j, coefs))
<1> SUFFICES ASSUME NEW t \in ahead(j), NEW x \in 0..(t.ins * t.outs - 1)
             PROVE  prepared(j, coefs)[t.from + x] = coefficients(t)[x]
  BY DEF CoefsRight
<1>1. t.from + x \in DOMAIN written(ahead(j)) /\ written(ahead(j))[t.from + x] = coefficients(t)[x]
  BY AheadApart, WrittenRight
<1> QED BY <1>1 DEF prepared, overlay

(* m holds the coefficients of the tiles of a plan, each in its stretch.   *)
LaidOut(m, plan, n) ==
  \A k \in 1..n : \A x \in 0..(plan[k].ins * plan[k].outs - 1) :
     m[plan[k].from + x] = coefficients(plan[k])[x]

(* codeSomeShardsAVXP and codeSomeShardsAvx2: a plan made ahead codes      *)
(* every output.                                                           *)
LEMMA PlanCoded ==
  ASSUME at \in Nat, NEW lo \in Nat, NEW hi \in Nat, lo <= hi,
         NEW n \in Nat, NEW ins \in Nat \ {0}, NEW outs, NEW plan,
         DOMAIN plan = 1..n, Orderly(plan, n, ins, outs), NEW m, LaidOut(m, plan, n),
         NEW d, NEW o, IsMap(o), DOMAIN o = 0..(outs - 1)
  PROVE  /\ codePlan(plan, m, d, o, lo, hi)
              = coded(d, o, ins, Reached(lo, lo + avxMasked(hi - lo)))
         /\ codeTiles(plan, d, o, lo, hi)
              = coded(d, o, ins, Reached(lo, lo + avxMasked(hi - lo)))
<1> DEFINE final == coded(d, o, ins, Reached(lo, lo + avxMasked(hi - lo)))
           cut(t) == [x \in 0..(t.ins * t.outs - 1) |-> m[t.from + x]]
           M == [k \in 1..n |-> cut(plan[k])]
           N == [k \in 1..n |-> coefficients(plan[k])]
           ofBuffer(byte, t) == codeTile(cut(t), d, byte, t, lo, hi)
           made(byte, t) == codeTile(coefficients(t), d, byte, t, lo, hi)
           E(g) == g = [s \in SUBSET (1..n) |-> IF s = {} THEN o
                          ELSE ofBuffer(g[s \ {Max(s)}], plan[Max(s)])]
           G(g) == g = [s \in SUBSET (1..n) |-> IF s = {} THEN o
                          ELSE made(g[s \ {Max(s)}], plan[Max(s)])]
<1>1. CoefsOf(M, plan, n) /\ CoefsOf(N, plan, n)
  BY DEF CoefsOf, LaidOut
<1>2. \A k \in 1..n : M[k] = cut(plan[k]) /\ N[k] = coefficients(plan[k])
  OBVIOUS
<1> HIDE DEF M, N, cut, E, G, ofBuffer, made
<1>0. ASSUME NEW K, CoefsOf(K, plan, n)
      PROVE  /\ \E g : TilesFold(g, K, plan, n, d, o, lo, hi)
             /\ \A g : TilesFold(g, K, plan, n, d, o, lo, hi) => g[1..n] = final
  <2>1. \A g : TilesFold(g, K, plan, n, d, o, lo, hi) => g[1..n] = final
    BY <1>0, TilesCoded
  <2>2. \E g : TilesFold(g, K, plan, n, d, o, lo, hi)
    BY <1>0, TilesCoded
  <2> QED BY <2>1, <2>2
<1>3. /\ \E g : TilesFold(g, M, plan, n, d, o, lo, hi)
      /\ \A g : TilesFold(g, M, plan, n, d, o, lo, hi) => g[1..n] = final
  BY <1>0, <1>1
<1>4. /\ \E g : TilesFold(g, N, plan, n, d, o, lo, hi)
      /\ \A g : TilesFold(g, N, plan, n, d, o, lo, hi) => g[1..n] = final
  BY <1>0, <1>1
<1> HIDE DEF final
<1>5. \A s \in SUBSET (1..n) : s # {} => Max(s) \in 1..n
  BY GreatestOf
<1>6. \A g : (E(g) <=> TilesFold(g, M, plan, n, d, o, lo, hi))
             /\ (G(g) <=> TilesFold(g, N, plan, n, d, o, lo, hi))
  <2> SUFFICES ASSUME NEW g
               PROVE  (E(g) <=> TilesFold(g, M, plan, n, d, o, lo, hi))
                      /\ (G(g) <=> TilesFold(g, N, plan, n, d, o, lo, hi))
    OBVIOUS
  <2>1. \A s \in SUBSET (1..n) : s # {} =>
           /\ ofBuffer(g[s \ {Max(s)}], plan[Max(s)])
                = codeTile(M[Max(s)], d, g[s \ {Max(s)}], plan[Max(s)], lo, hi)
           /\ made(g[s \ {Max(s)}], plan[Max(s)])
                = codeTile(N[Max(s)], d, g[s \ {Max(s)}], plan[Max(s)], lo, hi)
    BY <1>2, <1>5 DEF ofBuffer, made
  <2> QED BY <2>1 DEF TilesFold, E, G
<1>7. (CHOOSE g : E(g))[1..n] = final /\ (CHOOSE g : G(g))[1..n] = final
  BY <1>3, <1>4, <1>6
<1>8. codePlan(plan, m, d, o, lo, hi) = (CHOOSE g : E(g))[1..n]
  <2>1. codePlan(plan, m, d, o, lo, hi) = FoldLeft(LAMBDA byte, t : ofBuffer(byte, t), o, plan)
    BY Zenon DEF codePlan, cut, ofBuffer
  <2>2. FoldLeft(LAMBDA byte, t : ofBuffer(byte, t), o, plan) =
          (CHOOSE g : g = [s \in SUBSET DOMAIN plan |-> IF s = {} THEN o
                             ELSE ofBuffer(g[s \ {Max(s)}], plan[Max(s)])])[DOMAIN plan]
    BY Zenon DEF FoldLeft, MapThenFoldSet
  <2> QED BY <2>1, <2>2, Zenon DEF E
<1>9. codeTiles(plan, d, o, lo, hi) = (CHOOSE g : G(g))[1..n]
  <2>1. codeTiles(plan, d, o, lo, hi) = FoldLeft(LAMBDA byte, t : made(byte, t), o, plan)
    BY Zenon DEF codeTiles, coefficients, made
  <2>2. FoldLeft(LAMBDA byte, t : made(byte, t), o, plan) =
          (CHOOSE g : g = [s \in SUBSET DOMAIN plan |-> IF s = {} THEN o
                             ELSE made(g[s \ {Max(s)}], plan[Max(s)])])[DOMAIN plan]
    BY Zenon DEF FoldLeft, MapThenFoldSet
  <2> QED BY <2>1, <2>2, Zenon DEF G
<1> QED BY <1>7, <1>8, <1>9 DEF final

-----------------------------------------------------------------------------
(* The blocks and the batches of the AVX512 kernels.                       *)

block(ins, from, b) == tile(<<from, least(from + dimIn, ins) - from>>, b, 0)

(* galMulAVX512Parallel over a block of at most eight inputs is a tile.    *)
LEMMA BlockCoded ==
  ASSUME at \in Nat, NEW lo \in Nat, NEW hi \in Nat, lo <= hi,
         NEW ins \in Nat \ {0}, NEW from \in Nat, from < ins,
         NEW b, b[1] \in Nat, b[2] \in Nat, NEW d, NEW o, o = [r \in DOMAIN o |-> o[r]]
  PROVE  galMulAVX512Parallel(at, setupMatrix(ins, from, b[1], b[2]), d, o,
                              [from |-> from, to |-> least(from + dimIn, ins)], b, lo, hi)
           = tiled(d, o, block(ins, from, b), Reached(lo, hi))
<1> DEFINE end == least(from + dimIn, ins)
           t == block(ins, from, b)
           m == setupMatrix(ins, from, b[1], b[2])
           done == lo + roundDown(hi - lo, 64)
           terms(r) == UNION {times(d[from + c], m[r * dimIn + c]) : c \in 0..(end - from - 1)}
           outputs == b[1]..(b[1] + b[2] - 1)
<1>1. end \in Nat /\ from < end /\ end <= ins /\ end <= from + 8
  BY DEF least, dimIn
<1> HIDE DEF end
<1>2. /\ t.inIdx = from /\ inputsOf(t) = from..(end - 1) /\ outputsOf(t) = outputs
  <2>1. t.inIdx = from /\ t.ins = end - from /\ t.outIdx = b[1] /\ t.outs = b[2]
    BY DEF block, tile, end
  <2>2. from + (end - from) - 1 = end - 1
    BY <1>1
  <2> HIDE DEF t
  <2> QED BY <2>1, <2>2 DEF inputsOf, outputsOf
<1>3. done \in Nat /\ lo <= done /\ done <= hi
  <2>1. hi - lo \in Nat
    OBVIOUS
  <2>2. roundDown(hi - lo, 64) \in Nat /\ roundDown(hi - lo, 64) <= hi - lo
    BY <2>1, RoundedDown
  <2> QED BY <2>2
<1>4. ASSUME NEW r \in outputs PROVE terms(r - b[1]) = termsOf(d, r, inputsOf(t))
  <2> DEFINE j == r - b[1]
  <2>1. j \in Nat /\ j < b[2] /\ b[1] + j = r
    OBVIOUS
  <2> HIDE DEF j
  <2>2. ASSUME NEW c \in 0..(end - from - 1) PROVE m[j * dimIn + c] = <<r, from + c>>
    <3>1. c \in Nat /\ c < 8 /\ from + c < ins
      BY <1>1
    <3> DEFINE x == j * dimIn + c
    <3>2. x \div 8 = j /\ x % 8 = c /\ x \in 0..(8 * b[2] - 1)
      <4>1. x = j * 8 + c
        BY DEF dimIn
      <4> HIDE DEF x
      <4> QED BY <2>1, <3>1, <4>1
    <3>3. m[x] = LET k == from + (x % 8)
                 IN  IF k < ins THEN <<b[1] + (x \div 8), k>> ELSE none
      <4> HIDE DEF x
      <4> QED BY <3>2 DEF setupMatrix, dimIn
    <3> HIDE DEF x, m
    <3> QED BY <2>1, <3>1, <3>2, <3>3 DEF x
  <2>3. terms(j) = UNION {times(d[from + c], <<r, from + c>>) : c \in 0..(end - from - 1)}
    <3> HIDE DEF m
    <3> QED BY <2>2
  <2>4. {from + c : c \in 0..(end - from - 1)} = from..(end - 1)
    <3>1. ASSUME NEW k \in from..(end - 1) PROVE \E c \in 0..(end - from - 1) : k = from + c
      <4>1. k - from \in 0..(end - from - 1) /\ k = from + (k - from)
        BY <1>1
      <4> QED BY <4>1
    <3>2. ASSUME NEW c \in 0..(end - from - 1) PROVE from + c \in from..(end - 1)
      BY <1>1
    <3> QED BY <3>1, <3>2
  <2>5. UNION {times(d[from + c], <<r, from + c>>) : c \in 0..(end - from - 1)}
          = UNION {times(d[k], <<r, k>>) : k \in {from + c : c \in 0..(end - from - 1)}}
    OBVIOUS
  <2> HIDE DEF terms
  <2> QED BY <1>2, <2>3, <2>4, <2>5 DEF termsOf, j
<1>5. galMulAVX512Parallel(at, m, d, o, [from |-> from, to |-> end], b, lo, hi)
        = IF lo <= at /\ at < done
          THEN [r \in DOMAIN o |-> IF r \in outputs
                  THEN put(from # 0, o[r], terms(r - b[1])) ELSE o[r]]
          ELSE IF done <= at /\ at < hi
          THEN [r \in DOMAIN o |-> IF r \in outputs
                  THEN put(from # 0, o[r], termsOf(d, r, from..(end - 1))) ELSE o[r]]
          ELSE o
  BY Zenon DEF galMulAVX512Parallel, galMulAVX512LastInput, termsOf
<1>6. \A r, y : put(from # 0, o[r], y) = adds(t, o[r], y)
  <2>1. CASE from = 0
    <3>1. ~(from # 0) /\ t.inIdx = 0
      BY <1>2, <2>1
    <3> HIDE DEF t
    <3> QED BY <3>1, Zenon DEF put, adds
  <2>2. CASE from # 0
    <3>1. t.inIdx # 0
      BY <1>2, <2>2
    <3> HIDE DEF t
    <3> QED BY <2>2, <3>1, Zenon DEF put, adds
  <2> QED BY <2>1, <2>2
<1> HIDE DEF terms, done, m, t
<1>7. tiled(d, o, t, Reached(lo, hi))
        = [r \in DOMAIN o |-> IF Reached(lo, hi) /\ r \in outputs
             THEN adds(t, o[r], termsOf(d, r, inputsOf(t))) ELSE o[r]]
  BY <1>2 DEF tiled
<1>8. CASE lo <= at /\ at < done
  <2>1. Reached(lo, hi)
    BY <1>3, <1>8 DEF Reached
  <2>2. galMulAVX512Parallel(at, m, d, o, [from |-> from, to |-> end], b, lo, hi)
          = [r \in DOMAIN o |-> IF r \in outputs
               THEN put(from # 0, o[r], terms(r - b[1])) ELSE o[r]]
    BY <1>5, <1>8, Zenon
  <2>3. \A r \in outputs : put(from # 0, o[r], terms(r - b[1]))
                             = adds(t, o[r], termsOf(d, r, inputsOf(t)))
    BY <1>4, <1>6, Zenon
  <2>4. galMulAVX512Parallel(at, m, d, o, [from |-> from, to |-> end], b, lo, hi)
          = tiled(d, o, t, Reached(lo, hi))
    <3> DEFINE made == galMulAVX512Parallel(at, m, d, o, [from |-> from, to |-> end], b, lo, hi)
    <3>1. tiled(d, o, t, Reached(lo, hi))
            = [r \in DOMAIN o |-> IF r \in outputs
                 THEN adds(t, o[r], termsOf(d, r, inputsOf(t))) ELSE o[r]]
      BY <1>7, <2>1
    <3> HIDE DEF outputs, made
    <3>2. made = tiled(d, o, t, Reached(lo, hi))
      BY <2>2, <2>3, <3>1 DEF made
    <3> QED BY <3>2 DEF made
  <2> QED BY <2>4 DEF m, t, end
<1>9. CASE ~(lo <= at /\ at < done) /\ done <= at /\ at < hi
  <2>1. Reached(lo, hi)
    BY <1>3, <1>9 DEF Reached
  <2>2. galMulAVX512Parallel(at, m, d, o, [from |-> from, to |-> end], b, lo, hi)
          = [r \in DOMAIN o |-> IF r \in outputs
               THEN put(from # 0, o[r], termsOf(d, r, from..(end - 1))) ELSE o[r]]
    BY <1>5, <1>9, Zenon
  <2>3. \A r \in outputs : put(from # 0, o[r], termsOf(d, r, from..(end - 1)))
                             = adds(t, o[r], termsOf(d, r, inputsOf(t)))
    BY <1>2, <1>6, Zenon
  <2>4. galMulAVX512Parallel(at, m, d, o, [from |-> from, to |-> end], b, lo, hi)
          = tiled(d, o, t, Reached(lo, hi))
    <3> DEFINE made == galMulAVX512Parallel(at, m, d, o, [from |-> from, to |-> end], b, lo, hi)
    <3>1. tiled(d, o, t, Reached(lo, hi))
            = [r \in DOMAIN o |-> IF r \in outputs
                 THEN adds(t, o[r], termsOf(d, r, inputsOf(t))) ELSE o[r]]
      BY <1>7, <2>1
    <3> HIDE DEF outputs, made
    <3>2. made = tiled(d, o, t, Reached(lo, hi))
      BY <2>2, <2>3, <3>1 DEF made
    <3> QED BY <3>2 DEF made
  <2> QED BY <2>4 DEF m, t, end
<1>10. CASE ~(lo <= at /\ at < done) /\ ~(done <= at /\ at < hi)
  <2>1. ~Reached(lo, hi)
    BY <1>3, <1>10 DEF Reached
  <2>2. galMulAVX512Parallel(at, m, d, o, [from |-> from, to |-> end], b, lo, hi) = o
    BY <1>5, <1>10, Zenon
  <2>3. tiled(d, o, t, Reached(lo, hi)) = [r \in DOMAIN o |-> o[r]]
    BY <1>7, <2>1
  <2> QED BY <2>2, <2>3 DEF m, t, end
<1> QED BY <1>8, <1>9, <1>10

TiledFold(g, plan, n, d, o, reached) ==
  /\ g = [s \in SUBSET (1..n) |->
            IF s = {} THEN o ELSE tiled(d, g[s \ {Max(s)}], plan[Max(s)], reached)]
  /\ \A s \in SUBSET (1..n) : IsMap(g[s])

LEMMA TiledFolds ==
  ASSUME NEW n \in Nat, NEW plan, NEW d, NEW o, IsMap(o), NEW reached \in BOOLEAN
  PROVE  \E g : TiledFold(g, plan, n, d, o, reached)
<1> DEFINE T == (UNION {o[r] : r \in DOMAIN o})
                  \cup UNION {termsOf(d, r, inputsOf(plan[k])) : r \in DOMAIN o, k \in 1..n}
           Y == [DOMAIN o -> SUBSET T]
           h == [k \in 1..n |-> [y \in Y |-> tiled(d, y, plan[k], reached)]]
<1>1. o \in Y
  <2>1. \A r \in DOMAIN o : o[r] \in SUBSET T
    OBVIOUS
  <2> HIDE DEF T
  <2> QED BY <2>1 DEF IsMap
<1>2. ASSUME NEW k \in 1..n, NEW y \in Y PROVE tiled(d, y, plan[k], reached) \in Y
  <2>1. \A r \in DOMAIN o : termsOf(d, r, inputsOf(plan[k])) \in SUBSET T
    OBVIOUS
  <2> HIDE DEF T
  <2>2. \A r \in DOMAIN o : y[r] \in SUBSET T
    OBVIOUS
  <2>3. \A r \in DOMAIN o : adds(plan[k], y[r], termsOf(d, r, inputsOf(plan[k]))) \in SUBSET T
    BY <2>1, <2>2 DEF adds, SymDiff
  <2>4. DOMAIN y = DOMAIN o
    OBVIOUS
  <2> QED BY <2>2, <2>3, <2>4 DEF tiled
<1>3. h \in [1..n -> [Y -> Y]]
  <2> HIDE DEF Y
  <2> QED BY <1>2
<1>4. PICK g : Folded(g, h, o, n) /\ \A s \in SUBSET (1..n) : g[s] \in Y
  <2> HIDE DEF h, Y
  <2> QED BY <1>1, <1>3, FoldExists
<1>5. ASSUME NEW s \in SUBSET (1..n), s # {}
      PROVE  h[Max(s)][g[s \ {Max(s)}]] = tiled(d, g[s \ {Max(s)}], plan[Max(s)], reached)
  <2>1. Max(s) \in 1..n
    BY <1>5, GreatestOf
  <2>2. g[s \ {Max(s)}] \in Y
    <3>1. s \ {Max(s)} \in SUBSET (1..n)
      OBVIOUS
    <3> HIDE DEF Y
    <3> QED BY <1>4, <3>1
  <2> HIDE DEF Y
  <2> QED BY <2>1, <2>2
<1>6. g = [s \in SUBSET (1..n) |->
             IF s = {} THEN o ELSE tiled(d, g[s \ {Max(s)}], plan[Max(s)], reached)]
  <2> HIDE DEF h, Y
  <2> QED BY <1>4, <1>5 DEF Folded
<1>7. \A s \in SUBSET (1..n) : IsMap(g[s])
  <2>1. \A y \in Y : IsMap(y)
    <3> HIDE DEF T
    <3> QED BY DEF IsMap
  <2> HIDE DEF Y
  <2> QED BY <1>4, <2>1
<1> QED BY <1>6, <1>7 DEF TiledFold

(* What is left of a fold of which every step is that of a tile.           *)
LEMMA PlanFolds ==
  ASSUME NEW n \in Nat, NEW ins, NEW outs, NEW plan, Orderly(plan, n, ins, outs),
         NEW d, NEW o, IsMap(o), NEW reached \in BOOLEAN, NEW g, g[{}] = o,
         \A k \in 1..n : IsMap(g[1..(k - 1)]) =>
            g[1..k] = tiled(d, g[1..(k - 1)], plan[k], reached)
  PROVE  g[1..n] = planned(d, o, plan, n, reached)
<1> DEFINE F == [k \in 0..n |-> planned(d, o, plan, k, reached)]
<1>1. g[{}] = F[0]
  <2>1. \A r : makers(plan, 0, r) = {}
    BY DEF makers
  <2>2. planned(d, o, plan, 0, reached) = [r \in DOMAIN o |-> o[r]]
    BY <2>1 DEF planned
  <2>3. F[0] = planned(d, o, plan, 0, reached)
    OBVIOUS
  <2> HIDE DEF F
  <2> QED BY <2>2, <2>3 DEF IsMap
<1>2. ASSUME NEW k \in 1..n, g[1..(k - 1)] = F[k - 1] PROVE g[1..k] = F[k]
  <2>1. F[k - 1] = planned(d, o, plan, k - 1, reached) /\ F[k] = planned(d, o, plan, k, reached)
    OBVIOUS
  <2> HIDE DEF F
  <2>2. IsMap(planned(d, o, plan, k - 1, reached))
    BY DEF planned, IsMap
  <2>3. tiled(d, planned(d, o, plan, k - 1, reached), plan[k], reached)
          = planned(d, o, plan, k, reached)
    BY PlanStep
  <2> QED BY <1>2, <2>1, <2>2, <2>3
<1>3. F[n] = planned(d, o, plan, n, reached)
  OBVIOUS
<1> HIDE DEF F
<1>4. g[1..n] = F[n]
  BY <1>1, <1>2, FoldPrefix
<1> QED BY <1>3, <1>4

(* All the blocks of eight inputs, over one batch of outputs.              *)
blocks(ins) == [k \in 1..((ins + dimIn - 1) \div dimIn) |-> dimIn * (k - 1)]

blockStep(ins, d, b, lo, hi, y, from) ==
  galMulAVX512Parallel(at, setupMatrix(ins, from, b[1], b[2]), d, y,
                       [from |-> from, to |-> least(from + dimIn, ins)], b, lo, hi)

batchOf(ins, d, b, lo, hi, o) ==
  FoldLeft(LAMBDA y, from : blockStep(ins, d, b, lo, hi, y, from), o, blocks(ins))

LEMMA BlocksOrderly ==
  ASSUME NEW ins \in Nat \ {0}, NEW b, b[1] \in Nat, b[2] \in Nat
  PROVE  LET n == (ins + dimIn - 1) \div dimIn
             plan == [k \in 1..n |-> block(ins, 8 * (k - 1), b)]
         IN  /\ n \in Nat \ {0} /\ DOMAIN blocks(ins) = 1..n
             /\ \A k \in 1..n : blocks(ins)[k] = 8 * (k - 1) /\ 8 * (k - 1) < ins
             /\ Orderly(plan, n, ins, 0)
             /\ \A r : makers(plan, n, r) # {} <=> r \in b[1]..(b[1] + b[2] - 1)
             /\ \A r : makers(plan, n, r) # {} => madeOf(plan, n, r) = 0..(ins - 1)
<1> DEFINE n == (ins + dimIn - 1) \div dimIn
           plan == [k \in 1..n |-> block(ins, 8 * (k - 1), b)]
           end(k) == least(8 * (k - 1) + 8, ins)
           batch == b[1]..(b[1] + b[2] - 1)
<1>1. n \in Nat \ {0} /\ 8 * n <= ins + 7 /\ ins <= 8 * n
  BY DEF dimIn
<1>2. blocks(ins) = [k \in 1..n |-> 8 * (k - 1)]
  BY DEF blocks, dimIn
<1> HIDE DEF n
<1>3. ASSUME NEW k \in 1..n
      PROVE  /\ 8 * (k - 1) \in Nat /\ 8 * (k - 1) < end(k) /\ end(k) <= ins /\ end(k) \in Nat
             /\ end(k) <= 8 * k
             /\ k - 1 \in Nat
             /\ blocks(ins)[k] = 8 * (k - 1)
  BY <1>1, <1>2 DEF least
<1>4. ASSUME NEW k \in 1..n
      PROVE  /\ plan[k].inIdx = 8 * (k - 1) /\ plan[k].ins = end(k) - 8 * (k - 1)
             /\ plan[k].outIdx = b[1] /\ plan[k].outs = b[2]
             /\ inputsOf(plan[k]) = 8 * (k - 1)..(end(k) - 1)
             /\ outputsOf(plan[k]) = batch
             /\ Tile(plan[k])
  <2>1. plan[k] = block(ins, 8 * (k - 1), b)
    OBVIOUS
  <2> HIDE DEF plan
  <2>2. /\ plan[k].inIdx = 8 * (k - 1) /\ plan[k].ins = end(k) - 8 * (k - 1)
        /\ plan[k].outIdx = b[1] /\ plan[k].outs = b[2]
    BY <2>1 DEF block, tile, dimIn
  <2> HIDE DEF end
  <2>3. 8 * (k - 1) + (end(k) - 8 * (k - 1)) - 1 = end(k) - 1
        /\ end(k) - 8 * (k - 1) \in Nat
    BY <1>3
  <2> QED BY <1>3, <2>2, <2>3 DEF inputsOf, outputsOf, Tile
<1>5. ASSUME NEW k \in 1..n, NEW j \in 1..(k - 1)
      PROVE  inputsOf(plan[j]) \cap inputsOf(plan[k]) = {}
  <2>1. j \in 1..n /\ j \in Nat /\ k \in Nat /\ j <= k - 1
    BY <1>1
  <2>2. end(j) <= 8 * (k - 1) /\ end(j) \in Nat
    <3>1. end(j) <= 8 * j /\ end(j) \in Nat
      BY <1>3, <2>1
    <3> HIDE DEF end
    <3> QED BY <2>1, <3>1
  <2>3. inputsOf(plan[j]) = 8 * (j - 1)..(end(j) - 1) /\ inputsOf(plan[k]) = 8 * (k - 1)..(end(k) - 1)
    BY <1>4, <2>1
  <2> HIDE DEF end, plan
  <2> QED BY <1>3, <2>1, <2>2, <2>3
<1>6. ASSUME NEW x \in 0..(ins - 1) PROVE \E k \in 1..n : x \in inputsOf(plan[k])
  <2> DEFINE k == x \div 8 + 1
  <2>1. k \in 1..n /\ 8 * (k - 1) <= x /\ x < 8 * (k - 1) + 8
    BY <1>1
  <2> HIDE DEF k
  <2>2. x \in 8 * (k - 1)..(end(k) - 1)
    BY <2>1 DEF least
  <2> HIDE DEF plan, end
  <2> QED BY <1>4, <2>1, <2>2
<1>7. ASSUME NEW k \in 1..n PROVE inputsOf(plan[k]) \subseteq 0..(ins - 1)
  <2>1. inputsOf(plan[k]) = 8 * (k - 1)..(end(k) - 1)
    BY <1>4
  <2> HIDE DEF plan, end
  <2> QED BY <1>3, <2>1
<1>8. ASSUME NEW k \in 1..n, NEW r \in outputsOf(plan[k])
      PROVE  plan[k].inIdx = 0 <=> \A j \in 1..(k - 1) : r \notin outputsOf(plan[j])
  <2>1. plan[k].inIdx = 8 * (k - 1) /\ k \in Nat /\ n \in Nat
    BY <1>1, <1>4
  <2>2. CASE k = 1
    <3>1. plan[k].inIdx = 0 /\ 1..(k - 1) = {}
      BY <2>1, <2>2
    <3> HIDE DEF plan
    <3> QED BY <3>1
  <2>3. CASE k # 1
    <3>1. plan[k].inIdx # 0 /\ 1 \in 1..(k - 1) /\ 1 \in 1..n
      BY <2>1, <2>3
    <3>2. r \in outputsOf(plan[1])
      BY <1>4, <3>1
    <3> HIDE DEF plan
    <3> QED BY <3>1, <3>2
  <2> QED BY <2>2, <2>3
<1> HIDE DEF plan
<1>9. Orderly(plan, n, ins, 0)
  <2>1. 0..(0 - 1) = {}
    OBVIOUS
  <2>2. \A k \in 1..n : Tile(plan[k])
    BY <1>4
  <2> QED BY <1>5, <1>7, <1>8, <2>1, <2>2 DEF Orderly
<1>10. ASSUME NEW r PROVE makers(plan, n, r) # {} <=> r \in batch
  <2>1. 1 \in 1..n
    BY <1>1
  <2> QED BY <1>4, <2>1 DEF makers
<1>11. ASSUME NEW r, makers(plan, n, r) # {} PROVE madeOf(plan, n, r) = 0..(ins - 1)
  <2>1. makers(plan, n, r) = 1..n
    BY <1>4, <1>10, <1>11 DEF makers
  <2>2. madeOf(plan, n, r) = UNION {inputsOf(plan[k]) : k \in 1..n}
    BY <2>1 DEF madeOf
  <2> QED BY <1>6, <1>7, <2>2
<1>12. \A k \in 1..n : blocks(ins)[k] = 8 * (k - 1) /\ 8 * (k - 1) < ins
  <2> SUFFICES ASSUME NEW k \in 1..n PROVE 8 * (k - 1) < ins
    BY <1>3
  <2>1. 8 * (k - 1) \in Nat /\ 8 * (k - 1) < end(k) /\ end(k) <= ins /\ end(k) \in Nat
    BY <1>3
  <2> HIDE DEF end
  <2> QED BY <2>1
<1>13. DOMAIN blocks(ins) = 1..n
  BY <1>2
<1> QED BY <1>1, <1>9, <1>10, <1>11, <1>12, <1>13 DEF plan, n

(* Block after block of eight inputs codes a batch of outputs.             *)
LEMMA BatchCoded ==
  ASSUME at \in Nat, NEW lo \in Nat, NEW hi \in Nat, lo <= hi,
         NEW ins \in Nat \ {0}, NEW b, b[1] \in Nat, b[2] \in Nat,
         NEW d, NEW o, IsMap(o)
  PROVE  batchOf(ins, d, b, lo, hi, o) = tiled(d, o, tile(<<0, ins>>, b, 0), Reached(lo, hi))
<1> DEFINE n == (ins + dimIn - 1) \div dimIn
           seq == blocks(ins)
           plan == [k \in 1..n |-> block(ins, 8 * (k - 1), b)]
           reached == Reached(lo, hi)
           step(y, from) == blockStep(ins, d, b, lo, hi, y, from)
           E(g) == g = [s \in SUBSET (1..n) |-> IF s = {} THEN o
                          ELSE step(g[s \ {Max(s)}], seq[Max(s)])]
           g0 == CHOOSE g : E(g)
           batch == b[1]..(b[1] + b[2] - 1)
<1>1. /\ n \in Nat \ {0} /\ DOMAIN seq = 1..n
      /\ \A k \in 1..n : seq[k] = 8 * (k - 1) /\ 8 * (k - 1) < ins
      /\ Orderly(plan, n, ins, 0)
      /\ \A r : makers(plan, n, r) # {} <=> r \in batch
      /\ \A r : makers(plan, n, r) # {} => madeOf(plan, n, r) = 0..(ins - 1)
  BY BlocksOrderly
<1> HIDE DEF n
<1>2. ASSUME NEW k \in 1..n, NEW y, IsMap(y)
      PROVE  step(y, seq[k]) = tiled(d, y, plan[k], reached)
  <2>1. 8 * (k - 1) \in Nat /\ 8 * (k - 1) < ins /\ seq[k] = 8 * (k - 1)
    BY <1>1
  <2>2. plan[k] = block(ins, 8 * (k - 1), b)
    OBVIOUS
  <2> DEFINE from == 8 * (k - 1)
  <2> HIDE DEF from, plan
  <2>3. blockStep(ins, d, b, lo, hi, y, from) = tiled(d, y, block(ins, from, b), Reached(lo, hi))
    BY <1>2, <2>1, BlockCoded DEF blockStep, IsMap, from
  <2> QED BY <2>1, <2>2, <2>3 DEF from
<1> HIDE DEF plan
<1>3. batchOf(ins, d, b, lo, hi, o) = g0[1..n]
  <2>0. batchOf(ins, d, b, lo, hi, o) = FoldLeft(LAMBDA y, from : step(y, from), o, seq)
    BY Zenon DEF batchOf
  <2>1. FoldLeft(LAMBDA y, from : step(y, from), o, seq) =
          (CHOOSE g : g = [s \in SUBSET DOMAIN seq |-> IF s = {} THEN o
                             ELSE step(g[s \ {Max(s)}], seq[Max(s)])])[DOMAIN seq]
    <3> HIDE DEF step, seq
    <3> QED BY Zenon DEF FoldLeft, MapThenFoldSet
  <2> HIDE DEF step, seq
  <2> QED BY <1>1, <2>0, <2>1, Zenon
<1> HIDE DEF step, seq
<1>4. reached \in BOOLEAN
  BY DEF Reached
<1> HIDE DEF reached
<1>0. n \in Nat
  BY <1>1
<1>5. PICK g1 : TiledFold(g1, plan, n, d, o, reached)
  BY <1>0, <1>4, TiledFolds
<1>6. E(g1)
  <2>1. ASSUME NEW s \in SUBSET (1..n), s # {}
        PROVE  tiled(d, g1[s \ {Max(s)}], plan[Max(s)], reached)
                 = step(g1[s \ {Max(s)}], seq[Max(s)])
    <3>1. Max(s) \in 1..n /\ s \ {Max(s)} \in SUBSET (1..n)
      BY <1>1, <2>1, GreatestOf
    <3>2. IsMap(g1[s \ {Max(s)}])
      BY <1>5, <3>1 DEF TiledFold
    <3> QED BY <1>2, <3>1, <3>2
  <2> QED BY <1>5, <2>1 DEF TiledFold
<1>7. E(g0)
  <2> HIDE DEF E
  <2> QED BY <1>6
<1> HIDE DEF g0
<1>8. g0[{}] = o
  BY <1>7
<1>9. ASSUME NEW k \in 1..n, IsMap(g0[1..(k - 1)])
      PROVE  g0[1..k] = tiled(d, g0[1..(k - 1)], plan[k], reached)
  <2>1. 1..k \in SUBSET (1..n) /\ 1..k # {} /\ Max(1..k) = k /\ (1..k) \ {k} = 1..(k - 1)
    <3>1. k \in Nat \ {0} /\ 1..k \subseteq 1..n
      BY <1>0
    <3> QED BY <3>1, UpTo
  <2>2. g0[1..k] = step(g0[1..(k - 1)], seq[k])
    BY <1>7, <2>1
  <2> QED BY <1>2, <1>9, <2>2
<1>10. g0[1..n] = planned(d, o, plan, n, reached)
  BY <1>0, <1>1, <1>4, <1>8, <1>9, PlanFolds
<1> DEFINE t == tile(<<0, ins>>, b, 0)
<1>11. t.inIdx = 0 /\ inputsOf(t) = 0..(ins - 1) /\ outputsOf(t) = batch
  BY DEF tile, inputsOf, outputsOf
<1>12. planned(d, o, plan, n, reached)
         = [r \in DOMAIN o |-> IF reached /\ r \in batch THEN termsOf(d, r, 0..(ins - 1)) ELSE o[r]]
  BY <1>1 DEF planned
<1>13. tiled(d, o, t, reached)
         = [r \in DOMAIN o |-> IF reached /\ r \in batch THEN termsOf(d, r, 0..(ins - 1)) ELSE o[r]]
  <2> HIDE DEF t, batch
  <2> QED BY <1>11 DEF tiled, adds
<1> QED BY <1>3, <1>10, <1>12, <1>13 DEF reached

(* The batches of outputs are runs of four or of two, one after the other. *)
LEMMA BatchRuns ==
  ASSUME NEW outs \in Nat
  PROVE  LET bs == avx512Batches(outs)
         IN  /\ Len(bs) \in Nat /\ DOMAIN bs = 1..Len(bs)
             /\ \A k \in 1..Len(bs) : bs[k][1] \in Nat /\ bs[k][2] \in Nat
             /\ \A k \in 1..Len(bs) : \A j \in 1..(k - 1) : bs[j][1] + bs[j][2] <= bs[k][1]
             /\ \A r \in 0..(outs - 1) : \E k \in 1..Len(bs) :
                   r \in bs[k][1]..(bs[k][1] + bs[k][2] - 1)
<1> DEFINE fours == outs \div 4
           left == outs % 4
           f == [b \in 1..fours |-> <<4 * (b - 1), 4>>]
           two == IF left >= 2 THEN <<<<4 * fours, 2>>>> ELSE <<>>
           one == IF left % 2 = 1 THEN <<<<outs - 1, 1>>>> ELSE <<>>
           bs == avx512Batches(outs)
           C == Nat \X Nat
           len == fours + (IF left >= 2 THEN 1 ELSE 0) + (IF left % 2 = 1 THEN 1 ELSE 0)
           at4(k) == IF k <= fours THEN <<4 * (k - 1), 4>>
                     ELSE IF k = fours + 1 /\ left >= 2 THEN <<4 * fours, 2>>
                     ELSE <<outs - 1, 1>>
<1>1. fours \in Nat /\ left \in 0..3 /\ outs = 4 * fours + left
  OBVIOUS
<1>2. bs = (f \o two) \o one
  BY Zenon DEF avx512Batches
<1> HIDE DEF fours, left, bs
<1>3. Len(f) = fours /\ f \in Seq(C)
  <2>1. f \in [1..fours -> C]
    BY <1>1
  <2> HIDE DEF f
  <2> QED BY <1>1, <2>1, SequenceOf
<1>4. /\ two \in Seq(C) /\ Len(two) = IF left >= 2 THEN 1 ELSE 0
      /\ left >= 2 => two[1] = <<4 * fours, 2>>
  <2> DEFINE x == <<4 * fours, 2>>
  <2>1. x \in C
    BY <1>1
  <2> HIDE DEF x, C
  <2>2. <<x>> \in Seq(C) /\ <<>> \in Seq(C)
    BY <2>1
  <2>3. CASE left >= 2
    <3>1. two = <<x>>
      BY <2>3 DEF x
    <3> HIDE DEF two
    <3>2. two \in Seq(C) /\ Len(two) = 1 /\ two[1] = x
      BY <2>2, <3>1
    <3> QED BY <2>3, <3>2 DEF x
  <2>4. CASE ~(left >= 2)
    BY <2>2, <2>4
  <2> QED BY <2>3, <2>4
<1>5. /\ one \in Seq(C) /\ Len(one) = IF left % 2 = 1 THEN 1 ELSE 0
      /\ left % 2 = 1 => one[1] = <<outs - 1, 1>>
  BY <1>1
<1>6. \A k \in 1..fours : f[k] = <<4 * (k - 1), 4>>
  OBVIOUS
<1> DEFINE g == f \o two
<1> HIDE DEF f, two, one, C
<1>17. /\ g \in Seq(C) /\ Len(g) = Len(f) + Len(two)
       /\ \A k \in 1..(Len(f) + Len(two)) : g[k] = IF k <= Len(f) THEN f[k] ELSE two[k - Len(f)]
  BY <1>3, <1>4, ConcatProperties
<1> HIDE DEF g
<1>18. /\ bs \in Seq(C) /\ Len(bs) = Len(g) + Len(one)
       /\ \A k \in 1..(Len(g) + Len(one)) : bs[k] = IF k <= Len(g) THEN g[k] ELSE one[k - Len(g)]
  <2>1. bs = g \o one
    BY <1>2 DEF g
  <2> QED BY <1>5, <1>17, <2>1, ConcatProperties
<1>7. bs \in Seq(C) /\ Len(bs) = len
  BY <1>1, <1>3, <1>4, <1>5, <1>17, <1>18
<1>8. ASSUME NEW k \in 1..len PROVE bs[k] = at4(k)
  <2>0. k \in Nat \ {0}
    BY <1>1
  <2>1. Len(g) = fours + Len(two) /\ len = Len(g) + Len(one)
    BY <1>3, <1>4, <1>5, <1>17
  <2>2. k <= Len(g) => bs[k] = g[k]
    BY <1>18, <2>1
  <2>3. k > Len(g) => bs[k] = one[k - Len(g)]
    BY <1>1, <1>4, <1>18, <2>0, <2>1
  <2>4. k <= fours => g[k] = f[k]
    BY <1>1, <1>3, <1>4, <1>17, <2>0
  <2>5. k > fours /\ k <= Len(g) => g[k] = two[k - fours]
    BY <1>1, <1>3, <1>4, <1>17, <2>0, <2>1
  <2>6. CASE k <= fours
    <3>1. k <= Len(g)
      BY <1>1, <1>4, <2>1, <2>6
    <3> QED BY <1>6, <2>0, <2>2, <2>4, <2>6, <3>1
  <2>7. CASE k > fours /\ left >= 2 /\ k = fours + 1
    <3>1. Len(two) = 1 /\ k <= Len(g) /\ k - fours = 1
      BY <1>1, <1>4, <2>1, <2>7
    <3>2. bs[k] = two[1]
      BY <2>2, <2>5, <2>7, <3>1
    <3>3. at4(k) = <<4 * fours, 2>>
      BY <1>1, <2>7
    <3> QED BY <1>4, <2>7, <3>2, <3>3
  <2>8. CASE k > fours /\ ~(left >= 2 /\ k = fours + 1)
    <3>1. k > Len(g) /\ left % 2 = 1 /\ k - Len(g) = 1
      BY <1>1, <1>4, <1>5, <2>0, <2>1, <2>8
    <3>2. at4(k) = <<outs - 1, 1>>
      BY <1>1, <2>8
    <3> QED BY <1>5, <2>3, <3>1, <3>2
  <2> QED BY <1>1, <2>0, <2>6, <2>7, <2>8
<1>9. ASSUME NEW k \in 1..len PROVE at4(k)[1] \in Nat /\ at4(k)[2] \in Nat
  BY <1>1
<1>10. ASSUME NEW k \in 1..len, NEW j \in 1..(k - 1) PROVE at4(j)[1] + at4(j)[2] <= at4(k)[1]
  BY <1>1
<1>11. ASSUME NEW r \in 0..(outs - 1)
       PROVE  \E k \in 1..len : r \in at4(k)[1]..(at4(k)[1] + at4(k)[2] - 1)
  <2>1. CASE r < 4 * fours
    <3> DEFINE k == r \div 4 + 1
    <3>1. k \in 1..len /\ k <= fours /\ 4 * (k - 1) <= r /\ r < 4 * (k - 1) + 4
      BY <1>1, <2>1
    <3> HIDE DEF k
    <3> QED BY <3>1
  <2>2. CASE r >= 4 * fours /\ left >= 2 /\ r < 4 * fours + 2
    <3>1. fours + 1 \in 1..len /\ at4(fours + 1) = <<4 * fours, 2>>
      BY <1>1, <2>2
    <3> QED BY <1>1, <2>2, <3>1
  <2>3. CASE r >= 4 * fours /\ ~(left >= 2 /\ r < 4 * fours + 2)
    <3>1. r = outs - 1 /\ left % 2 = 1 /\ len \in 1..len /\ at4(len) = <<outs - 1, 1>>
      BY <1>1, <2>3
    <3> HIDE DEF len, at4
    <3> QED BY <3>1
  <2> QED BY <1>1, <2>1, <2>2, <2>3
<1>12. len \in Nat
  BY <1>1
<1>13. DOMAIN bs = 1..len
  <2> HIDE DEF C, len
  <2> QED BY <1>7
<1> HIDE DEF at4, len
<1>14. ASSUME NEW k \in 1..len, NEW j \in 1..(k - 1) PROVE bs[j][1] + bs[j][2] <= bs[k][1]
  <2>1. j \in 1..len
    BY <1>12
  <2> QED BY <1>8, <1>10, <2>1
<1>15. Len(bs) = len
  BY <1>7
<1>16. ASSUME NEW r \in 0..(outs - 1)
       PROVE  \E k \in 1..len : r \in bs[k][1]..(bs[k][1] + bs[k][2] - 1)
  BY <1>8, <1>11
<1> QED BY <1>8, <1>9, <1>12, <1>13, <1>14, <1>15, <1>16 DEF bs

(* Every output is in one batch.                                           *)
LEMMA BatchesOrderly ==
  ASSUME NEW ins \in Nat \ {0}, NEW outs \in Nat
  PROVE  LET bs == avx512Batches(outs)
         IN  Orderly([k \in 1..Len(bs) |-> tile(<<0, ins>>, bs[k], 0)], Len(bs), ins, outs)
<1> DEFINE bs == avx512Batches(outs)
           n == Len(bs)
           plan == [k \in 1..n |-> tile(<<0, ins>>, bs[k], 0)]
           batch(k) == bs[k][1]..(bs[k][1] + bs[k][2] - 1)
<1>1. /\ n \in Nat /\ DOMAIN bs = 1..n
      /\ \A k \in 1..n : bs[k][1] \in Nat /\ bs[k][2] \in Nat
      /\ \A k \in 1..n : \A j \in 1..(k - 1) : bs[j][1] + bs[j][2] <= bs[k][1]
      /\ \A r \in 0..(outs - 1) : \E k \in 1..n : r \in batch(k)
  BY BatchRuns
<1> HIDE DEF bs, n
<1>2. ASSUME NEW k \in 1..n
      PROVE  /\ plan[k].inIdx = 0 /\ Tile(plan[k])
             /\ inputsOf(plan[k]) = 0..(ins - 1) /\ outputsOf(plan[k]) = batch(k)
  <2>1. /\ plan[k].inIdx = 0 /\ plan[k].ins = ins
        /\ plan[k].outIdx = bs[k][1] /\ plan[k].outs = bs[k][2]
    BY DEF tile
  <2> HIDE DEF plan
  <2> QED BY <1>1, <2>1 DEF Tile, inputsOf, outputsOf
<1>3. ASSUME NEW k \in 1..n, NEW j \in 1..(k - 1)
      PROVE  outputsOf(plan[j]) \cap outputsOf(plan[k]) = {}
  <2>1. j \in 1..n
    BY <1>1
  <2>2. outputsOf(plan[j]) = batch(j) /\ outputsOf(plan[k]) = batch(k)
    BY <1>2, <2>1
  <2>3. bs[j][1] + bs[j][2] <= bs[k][1] /\ bs[j][1] \in Nat /\ bs[j][2] \in Nat
        /\ bs[k][1] \in Nat /\ bs[k][2] \in Nat
    BY <1>1, <2>1
  <2>4. batch(j) \cap batch(k) = {}
    BY <2>3
  <2> HIDE DEF plan, batch
  <2> QED BY <2>2, <2>4
<1> HIDE DEF plan
<1>4. ASSUME NEW k \in 1..n, NEW r \in outputsOf(plan[k])
      PROVE  plan[k].inIdx = 0 <=> \A j \in 1..(k - 1) : r \notin outputsOf(plan[j])
  BY <1>2, <1>3
<1>5. ASSUME NEW r \in 0..(outs - 1), NEW i \in 0..(ins - 1)
      PROVE  \E k \in 1..n : r \in outputsOf(plan[k]) /\ i \in inputsOf(plan[k])
  BY <1>1, <1>2
<1>6. \A k \in 1..n : Tile(plan[k]) /\ inputsOf(plan[k]) \subseteq 0..(ins - 1)
  BY <1>2
<1>7. Orderly(plan, n, ins, outs)
  BY <1>3, <1>4, <1>5, <1>6 DEF Orderly
<1> QED BY <1>7 DEF plan, n, bs

(* codeSomeShardsAvx512: batch after batch codes every output.             *)
LEMMA Avx512Coded ==
  ASSUME at \in Nat, NEW lo \in Nat, NEW hi \in Nat, lo <= hi,
         NEW ins \in Nat \ {0}, NEW outs \in Nat,
         NEW d, NEW o, IsMap(o), DOMAIN o = 0..(outs - 1)
  PROVE  codeAvx512(ins, d, o, lo, hi) = coded(d, o, ins, Reached(lo, hi))
<1> DEFINE bs == avx512Batches(outs)
           n == Len(bs)
           plan == [k \in 1..n |-> tile(<<0, ins>>, bs[k], 0)]
           reached == Reached(lo, hi)
           step(y, b) == batchOf(ins, d, b, lo, hi, y)
           E(g) == g = [s \in SUBSET (1..n) |-> IF s = {} THEN o
                          ELSE step(g[s \ {Max(s)}], bs[Max(s)])]
           g0 == CHOOSE g : E(g)
<1>1. /\ n \in Nat /\ DOMAIN bs = 1..n
      /\ \A k \in 1..n : bs[k][1] \in Nat /\ bs[k][2] \in Nat
  BY BatchRuns
<1>2. Orderly(plan, n, ins, outs)
  BY BatchesOrderly
<1>3. codeAvx512(ins, d, o, lo, hi) = g0[1..n]
  <2>1. Cardinality(DOMAIN o) = outs
    <3>1. Cardinality(0..(outs - 1)) = outs
      BY FS_Interval
    <3> QED BY <3>1
  <2>2. codeAvx512(ins, d, o, lo, hi)
          = FoldLeft(LAMBDA y, b : step(y, b), o, avx512Batches(Cardinality(DOMAIN o)))
    BY Zenon DEF codeAvx512, batchOf, blockStep, blocks
  <2>3. FoldLeft(LAMBDA y, b : step(y, b), o, bs) =
          (CHOOSE g : g = [s \in SUBSET DOMAIN bs |-> IF s = {} THEN o
                             ELSE step(g[s \ {Max(s)}], bs[Max(s)])])[DOMAIN bs]
    <3> HIDE DEF step, bs
    <3> QED BY Zenon DEF FoldLeft, MapThenFoldSet
  <2> HIDE DEF step
  <2> QED BY <1>1, <2>1, <2>2, <2>3, Zenon
<1> HIDE DEF bs, n
<1>4. ASSUME NEW k \in 1..n, NEW y, IsMap(y)
      PROVE  step(y, bs[k]) = tiled(d, y, plan[k], reached)
  <2>1. plan[k] = tile(<<0, ins>>, bs[k], 0)
    OBVIOUS
  <2> HIDE DEF plan
  <2> QED BY <1>1, <1>4, <2>1, BatchCoded
<1> HIDE DEF plan, step
<1>5. reached \in BOOLEAN
  BY DEF Reached
<1> HIDE DEF reached
<1>6. PICK g1 : TiledFold(g1, plan, n, d, o, reached)
  BY <1>1, <1>5, TiledFolds
<1>7. E(g1)
  <2>1. ASSUME NEW s \in SUBSET (1..n), s # {}
        PROVE  tiled(d, g1[s \ {Max(s)}], plan[Max(s)], reached)
                 = step(g1[s \ {Max(s)}], bs[Max(s)])
    <3>1. Max(s) \in 1..n /\ s \ {Max(s)} \in SUBSET (1..n)
      BY <1>1, <2>1, GreatestOf
    <3>2. IsMap(g1[s \ {Max(s)}])
      BY <1>6, <3>1 DEF TiledFold
    <3> QED BY <1>4, <3>1, <3>2
  <2> QED BY <1>6, <2>1 DEF TiledFold
<1>8. E(g0)
  <2> HIDE DEF E
  <2> QED BY <1>7
<1> HIDE DEF g0
<1>9. g0[{}] = o
  BY <1>8
<1>10. ASSUME NEW k \in 1..n, IsMap(g0[1..(k - 1)])
       PROVE  g0[1..k] = tiled(d, g0[1..(k - 1)], plan[k], reached)
  <2>1. 1..k \in SUBSET (1..n) /\ 1..k # {} /\ Max(1..k) = k /\ (1..k) \ {k} = 1..(k - 1)
    <3>1. k \in Nat \ {0} /\ 1..k \subseteq 1..n
      BY <1>1
    <3> QED BY <3>1, UpTo
  <2>2. g0[1..k] = step(g0[1..(k - 1)], bs[k])
    BY <1>8, <2>1
  <2> QED BY <1>4, <1>10, <2>2
<1>11. g0[1..n] = planned(d, o, plan, n, reached)
  BY <1>1, <1>2, <1>5, <1>9, <1>10, PlanFolds
<1>12. planned(d, o, plan, n, reached) = coded(d, o, ins, reached)
  BY <1>1, <1>2, <1>5, PlanEnds DEF IsMap
<1> QED BY <1>3, <1>11, <1>12 DEF reached

-----------------------------------------------------------------------------
(* Updating parity: term after term, the old one goes and the new one      *)
(* comes.                                                                  *)

partly(r, changed) ==
  {<<<<i, IF i \notin changed THEN "old" ELSE "new">>, <<r, i>>>> : i \in 0..(enc.D - 1)}

bothOf(c, r) == {<<<<c, "old">>, <<r, c>>>>, <<<<c, "new">>, <<r, c>>>>}

(* Adding a changed input's old term and its new one replaces it.          *)
LEMMA Toggled ==
  ASSUME NEW r, NEW S, NEW c \in 0..(enc.D - 1), c \notin S
  PROVE  SymDiff(partly(r, S), bothOf(c, r)) = partly(r, S \cup {c})
<1> DEFINE A == partly(r, S)
           B == partly(r, S \cup {c})
           C == bothOf(c, r)
<1>1. ASSUME NEW x \in A, x \notin C PROVE x \in B
  <2>1. PICK i \in 0..(enc.D - 1) :
          x = <<<<i, IF i \notin S THEN "old" ELSE "new">>, <<r, i>>>>
    BY DEF partly
  <2>2. i # c
    BY <1>1, <2>1 DEF bothOf
  <2>3. x = <<<<i, IF i \notin S \cup {c} THEN "old" ELSE "new">>, <<r, i>>>>
    BY <2>1, <2>2
  <2> QED BY <2>3 DEF partly
<1>2. ASSUME NEW x \in C, x \notin A PROVE x \in B
  <2>1. <<<<c, "old">>, <<r, c>>>> \in A
    BY DEF partly
  <2>2. x = <<<<c, "new">>, <<r, c>>>>
    BY <1>2, <2>1 DEF bothOf
  <2> QED BY <2>2 DEF partly
<1>3. ASSUME NEW x \in B PROVE (x \in A /\ x \notin C) \/ (x \in C /\ x \notin A)
  <2>1. PICK i \in 0..(enc.D - 1) :
          x = <<<<i, IF i \notin S \cup {c} THEN "old" ELSE "new">>, <<r, i>>>>
    BY DEF partly
  <2>2. CASE i = c
    <3>1. x = <<<<c, "new">>, <<r, c>>>>
      BY <2>1, <2>2
    <3>2. x \in C
      BY <3>1 DEF bothOf
    <3>3. x \notin A
      BY <3>1 DEF partly
    <3> QED BY <3>2, <3>3
  <2>3. CASE i # c
    <3>1. x = <<<<i, IF i \notin S THEN "old" ELSE "new">>, <<r, i>>>>
      BY <2>1, <2>3
    <3>2. x \in A
      BY <3>1 DEF partly
    <3>3. x \notin C
      BY <2>3, <3>1 DEF bothOf
    <3> QED BY <3>2, <3>3
  <2> QED BY <2>2, <2>3
<1> HIDE DEF A, B, C
<1>4. SymDiff(A, C) = B
  BY <1>1, <1>2, <1>3 DEF SymDiff
<1> QED BY <1>4 DEF A, B, C

(* The byte of output r once the first n of the changed inputs are coded.  *)
rowUpdated(diff, o, r, asc, lo, hi) ==
  FoldLeft(LAMBDA byte, c : galMulSliceXor(enc, at, lo, hi, byte, times(diff[c], <<r, c>>)),
           o, asc)

Once(asc, n) == \A k, l \in 1..n : asc[k] = asc[l] => k = l

valuesOf(asc, n) == {asc[k] : k \in 1..n}

Differs(diff, o, r, asc, n) ==
  /\ o = partly(r, {})
  /\ \A k \in 1..n : times(diff[asc[k]], <<r, asc[k]>>) = bothOf(asc[k], r)

(* A parity byte after the differences of the changed inputs are added to  *)
(* it.                                                                     *)
LEMMA RowUpdated ==
  ASSUME at \in Nat, NEW lo \in Nat, NEW hi \in Nat, lo <= hi,
         NEW n \in Nat, NEW asc \in [1..n -> 0..(enc.D - 1)],
         Once(asc, n), NEW r, NEW diff, NEW o,
         Reached(lo, hi) => Differs(diff, o, r, asc, n)
  PROVE  rowUpdated(diff, o, r, asc, lo, hi)
           = IF Reached(lo, hi) THEN partly(r, valuesOf(asc, n)) ELSE o
<1> DEFINE add(byte, c) == galMulSliceXor(enc, at, lo, hi, byte, times(diff[c], <<r, c>>))
           E(g) == g = [s \in SUBSET (1..n) |-> IF s = {} THEN o
                                               ELSE add(g[s \ {Max(s)}], asc[Max(s)])]
           g0 == CHOOSE g : E(g)
           T == o \cup UNION {times(diff[asc[k]], <<r, asc[k]>>) : k \in 1..n}
           h == [k \in 1..n |-> [byte \in SUBSET T |-> add(byte, asc[k])]]
           done(k) == {asc[l] : l \in 1..k}
           F == [k \in 0..n |-> IF Reached(lo, hi) THEN partly(r, done(k)) ELSE o]
<1>1. rowUpdated(diff, o, r, asc, lo, hi) = g0[1..n]
  <2>0. rowUpdated(diff, o, r, asc, lo, hi) = FoldLeft(LAMBDA byte, c : add(byte, c), o, asc)
    BY DEF rowUpdated
  <2>1. DOMAIN asc = 1..n
    OBVIOUS
  <2>2. FoldLeft(LAMBDA byte, c : add(byte, c), o, asc) =
          (CHOOSE g : g = [s \in SUBSET DOMAIN asc |-> IF s = {} THEN o
                             ELSE add(g[s \ {Max(s)}], asc[Max(s)])])[DOMAIN asc]
    <3> HIDE DEF add
    <3> QED BY Zenon DEF FoldLeft, MapThenFoldSet
  <2> HIDE DEF add
  <2> QED BY <2>0, <2>1, <2>2, Zenon
<1>2. \A byte, c : add(byte, c) = IF Reached(lo, hi) THEN SymDiff(byte, times(diff[c], <<r, c>>))
                                  ELSE byte
  BY SlicesCoded
<1> HIDE DEF add
<1>3. o \in SUBSET T
  OBVIOUS
<1>4. ASSUME NEW k \in 1..n, NEW byte \in SUBSET T PROVE add(byte, asc[k]) \in SUBSET T
  <2>1. times(diff[asc[k]], <<r, asc[k]>>) \subseteq T
    OBVIOUS
  <2> HIDE DEF T
  <2> QED BY <1>2, <2>1 DEF SymDiff
<1> HIDE DEF T
<1>5. h \in [1..n -> [SUBSET T -> SUBSET T]]
  BY <1>4
<1>6. PICK g1 : Folded(g1, h, o, n) /\ \A s \in SUBSET (1..n) : g1[s] \in SUBSET T
  <2> HIDE DEF h
  <2> QED BY <1>3, <1>5, FoldExists
<1>7. E(g1)
  <2>1. ASSUME NEW s \in SUBSET (1..n), s # {}
        PROVE  h[Max(s)][g1[s \ {Max(s)}]] = add(g1[s \ {Max(s)}], asc[Max(s)])
    <3>1. Max(s) \in 1..n
      BY <2>1, GreatestOf
    <3>2. g1[s \ {Max(s)}] \in SUBSET T
      <4>1. s \ {Max(s)} \in SUBSET (1..n)
        OBVIOUS
      <4> QED BY <1>6, <4>1
    <3> QED BY <3>1, <3>2
  <2> HIDE DEF h
  <2> QED BY <1>6, <2>1 DEF Folded
<1>8. E(g0)
  <2> HIDE DEF E
  <2> QED BY <1>7
<1> HIDE DEF g0, h
<1>9. g0[{}] = F[0]
  <2>1. g0[{}] = o
    BY <1>8
  <2>2. done(0) = {}
    OBVIOUS
  <2>3. F[0] = IF Reached(lo, hi) THEN partly(r, done(0)) ELSE o
    OBVIOUS
  <2>4. Reached(lo, hi) => o = partly(r, {})
    BY DEF Differs
  <2> HIDE DEF F, done
  <2> QED BY <2>1, <2>2, <2>3, <2>4
<1>10. ASSUME NEW k \in 1..n, g0[1..(k - 1)] = F[k - 1] PROVE g0[1..k] = F[k]
  <2>1. 1..k \in SUBSET (1..n) /\ 1..k # {} /\ Max(1..k) = k /\ (1..k) \ {k} = 1..(k - 1)
    <3>1. k \in Nat \ {0} /\ 1..k \subseteq 1..n
      OBVIOUS
    <3> QED BY <3>1, UpTo
  <2>2. g0[1..k] = add(g0[1..(k - 1)], asc[k])
    BY <1>8, <2>1
  <2>3. F[k - 1] = IF Reached(lo, hi) THEN partly(r, done(k - 1)) ELSE o
    OBVIOUS
  <2>4. F[k] = IF Reached(lo, hi) THEN partly(r, done(k)) ELSE o
    OBVIOUS
  <2>5. done(k) = done(k - 1) \cup {asc[k]} /\ asc[k] \notin done(k - 1)
    <3>1. 1..k = 1..(k - 1) \cup {k} /\ k \notin 1..(k - 1) /\ 1..k \subseteq 1..n
      OBVIOUS
    <3> QED BY <3>1 DEF Once
  <2>6. asc[k] \in 0..(enc.D - 1)
    OBVIOUS
  <2>7. Reached(lo, hi) => times(diff[asc[k]], <<r, asc[k]>>) = bothOf(asc[k], r)
    BY DEF Differs
  <2> HIDE DEF F, done
  <2>8. SymDiff(partly(r, done(k - 1)), bothOf(asc[k], r)) = partly(r, done(k))
    BY <2>5, <2>6, Toggled
  <2> QED BY <1>2, <1>10, <2>2, <2>3, <2>4, <2>7, <2>8
<1>11. g0[1..n] = F[n]
  <2> HIDE DEF F
  <2> QED BY <1>9, <1>10, FoldPrefix
<1>12. F[n] = IF Reached(lo, hi) THEN partly(r, valuesOf(asc, n)) ELSE o
  BY DEF valuesOf
<1> HIDE DEF F
<1> QED BY <1>1, <1>11, <1>12

(* A goroutine of updateParityShards.                                      *)
oldData(d) == \A i \in 0..(enc.D - 1) : d[i] = {<<i, "old">>}
oldParity(o) == \A r \in DOMAIN o : o[r] = partly(r, {})

UpdateRight(changed, d, o, diff, o2, lo, hi) ==
  /\ DOMAIN diff = 0..(enc.D - 1) /\ IsMap(diff)
  /\ DOMAIN o2 = DOMAIN o /\ IsMap(o2)
  /\ ~Reached(lo, hi) => diff = d /\ o2 = o
  /\ Reached(lo, hi) => \A r \in DOMAIN o : o2[r] = partly(r, changed)

(* updateParityShards turns the parity of the old data into the one of the *)
(* new data where it passes, and leaves the rest alone.                    *)
LEMMA UpdateCoded ==
  ASSUME EncOK, at \in Nat, NEW lo \in Nat, NEW hi \in Nat, lo <= hi,
         NEW changed \in SUBSET (0..(enc.D - 1)), NEW d, NEW o, IsMap(d), IsMap(o),
         DOMAIN d = 0..(enc.D - 1),
         Reached(lo, hi) => oldData(d) /\ oldParity(o)
  PROVE  UpdateRight(changed, d, o, differences(changed, d, lo, hi),
                     updated(changed, differences(changed, d, lo, hi), o, lo, hi), lo, hi)
<1> DEFINE diff == differences(changed, d, lo, hi)
           o2 == updated(changed, diff, o, lo, hi)
           asc == ascending(changed)
           n == Cardinality(changed)
<1>1. diff = [c \in DOMAIN d |->
                IF c \in changed /\ Reached(lo, hi) THEN SymDiff(d[c], {<<c, "new">>}) ELSE d[c]]
  <2>1. \A c : sliceXor(enc, at, lo, hi, {<<c, "new">>}, d[c])
                 = IF Reached(lo, hi) THEN SymDiff(d[c], {<<c, "new">>}) ELSE d[c]
    BY SlicesCoded
  <2> QED BY <2>1 DEF differences
<1>2. DOMAIN diff = 0..(enc.D - 1) /\ IsMap(diff) /\ (~Reached(lo, hi) => diff = d)
  <2> HIDE DEF diff
  <2> QED BY <1>1 DEF IsMap
<1>3. o2 = [r \in DOMAIN o |-> rowUpdated(diff, o[r], r, asc, lo, hi)]
  <2> HIDE DEF diff
  <2> QED BY Zenon DEF updated, rowUpdated
<1>4. ASSUME Reached(lo, hi), NEW c \in changed, NEW r
      PROVE  times(diff[c], <<r, c>>) = bothOf(c, r)
  <2>1. diff[c] = SymDiff({<<c, "old">>}, {<<c, "new">>})
    <3>1. c \in DOMAIN d /\ d[c] = {<<c, "old">>}
      BY <1>4 DEF oldData
    <3> HIDE DEF diff
    <3> QED BY <1>1, <1>4, <3>1
  <2>2. diff[c] = {<<c, "old">>, <<c, "new">>}
    <3> HIDE DEF diff
    <3> QED BY <2>1 DEF SymDiff
  <2> HIDE DEF diff
  <2> QED BY <2>2 DEF times, bothOf
<1> HIDE DEF diff
<1>5. changed \in SUBSET Int /\ IsFiniteSet(changed)
  <2>1. enc.D \in Nat
    BY Geometry
  <2>2. IsFiniteSet(0..(enc.D - 1)) /\ 0..(enc.D - 1) \in SUBSET Int
    BY <2>1, FS_Interval
  <2> QED BY <2>2, FS_Subset
<1>6. /\ n \in Nat /\ asc \in [1..n -> changed] /\ Once(asc, n)
      /\ valuesOf(asc, n) = changed
  <2>1. /\ n \in Nat /\ asc \in [1..n -> changed]
        /\ \A k, l \in 1..n : k < l => asc[k] < asc[l]
        /\ \A i \in changed : \E k \in 1..n : asc[k] = i
    BY <1>5, Ascends
  <2> HIDE DEF n, asc
  <2>2. ASSUME NEW k \in 1..n, NEW l \in 1..n, asc[k] = asc[l] PROVE k = l
    <3>1. k \in Int /\ l \in Int /\ asc[k] \in Int
      <4>1. asc[k] \in changed /\ n \in Nat
        BY <2>1
      <4>2. k \in Int /\ l \in Int
        BY <4>1
      <4>3. \A x \in changed : x \in Int
        BY <1>5
      <4> QED BY <4>1, <4>2, <4>3, Zenon
    <3>2. ~(asc[k] < asc[l]) /\ ~(asc[l] < asc[k])
      BY <2>2, <3>1
    <3> QED BY <2>1, <3>1, <3>2
  <2>3. valuesOf(asc, n) = changed
    BY <2>1 DEF valuesOf
  <2> QED BY <2>1, <2>2, <2>3 DEF Once
<1> HIDE DEF n, asc
<1>7. ASSUME NEW r \in DOMAIN o
      PROVE  rowUpdated(diff, o[r], r, asc, lo, hi)
               = IF Reached(lo, hi) THEN partly(r, changed) ELSE o[r]
  <2>1. asc \in [1..n -> 0..(enc.D - 1)]
    BY <1>6
  <2>2. Reached(lo, hi) => Differs(diff, o[r], r, asc, n)
    BY <1>4, <1>6 DEF oldParity, Differs
  <2>3. rowUpdated(diff, o[r], r, asc, lo, hi)
          = IF Reached(lo, hi) THEN partly(r, valuesOf(asc, n)) ELSE o[r]
    BY <1>6, <2>1, <2>2, RowUpdated
  <2> QED BY <1>6, <2>3
<1> HIDE DEF o2
<1>8. /\ DOMAIN o2 = DOMAIN o /\ IsMap(o2)
      /\ ~Reached(lo, hi) => o2 = o
      /\ Reached(lo, hi) => \A r \in DOMAIN o : o2[r] = partly(r, changed)
  BY <1>3, <1>7 DEF IsMap
<1>9. UpdateRight(changed, d, o, diff, o2, lo, hi)
  BY <1>2, <1>8 DEF UpdateRight
<1> QED BY <1>9 DEF diff, o2

-----------------------------------------------------------------------------
(* One turn of a goroutine's loop codes the bytes up to where it ends.     *)

LEMMA OneTile ==
  ASSUME NEW ins \in Nat \ {0}, NEW outs \in Nat \ {0}, ins <= 10, outs <= 10
  PROVE  inputsOutside(ins, outs)[1] = tile(<<0, ins>>, <<0, outs>>, 0)
<1> DEFINE l == Len(tens(outs))
           n == gridSize(ins, outs)
           A == inRow(l, n)
           B == inColumn(l, n)
<1>1. /\ n \in Nat \ {0} /\ l \in Nat \ {0}
      /\ \A k \in 1..n :
           inputsOutside(ins, outs)[k] = tile(tens(ins)[A[k]], tens(outs)[B[k]],
                                              tens(ins)[A[k]][1] * outs
                                                + tens(ins)[A[k]][2] * tens(outs)[B[k]][1])
  BY GridOfInputs, TensRuns
<1>2. 1 \in 1..n /\ A[1] = 1 /\ B[1] = 1
  <2> HIDE DEF l, n
  <2>1. 1 \in 1..n /\ (1 - 1) \div l = 0 /\ (1 - 1) % l = 0
    BY <1>1
  <2> QED BY <2>1 DEF inRow, inColumn
<1>3. tens(ins)[1] = <<0, ins>> /\ tens(outs)[1] = <<0, outs>>
  BY TensRuns
<1>4. 0 * outs + ins * 0 = 0
  OBVIOUS
<1> HIDE DEF A, B, n, l
<1> QED BY <1>1, <1>2, <1>3, <1>4

LEMMA KernelCoded ==
  ASSUME at \in Nat, NEW lo \in Nat, NEW hi \in Nat, lo <= hi,
         NEW ins \in Nat \ {0}, NEW outs \in Nat \ {0}, ins <= 10, outs <= 10,
         NEW m, NEW t, t = tile(<<0, ins>>, <<0, outs>>, 0), Holds(m, t),
         NEW d, NEW o, IsMap(o), DOMAIN o = 0..(outs - 1)
  PROVE  codeTile(m, d, o, t, lo, hi) = coded(d, o, ins, Reached(lo, lo + avxMasked(hi - lo)))
<1> DEFINE reached == Reached(lo, lo + avxMasked(hi - lo))
<1>1. /\ t.inIdx = 0 /\ inputsOf(t) = 0..(ins - 1) /\ outputsOf(t) = 0..(outs - 1) /\ Tile(t)
  BY DEF tile, inputsOf, outputsOf, Tile
<1>2. codeTile(m, d, o, t, lo, hi) = tiled(d, o, t, reached)
  BY <1>1, TileCoded
<1> HIDE DEF reached
<1>3. tiled(d, o, t, reached) = coded(d, o, ins, reached)
  BY <1>1 DEF tiled, adds, coded
<1> QED BY <1>2, <1>3 DEF reached

LEMMA CodedMap ==
  ASSUME NEW d, NEW o, NEW ins, NEW reached
  PROVE  IsMap(coded(d, o, ins, reached)) /\ DOMAIN coded(d, o, ins, reached) = DOMAIN o
  BY DEF coded, IsMap

LEMMA CodedNot ==
  ASSUME NEW d, NEW o, NEW ins, IsMap(o), NEW reached, ~reached
  PROVE  coded(d, o, ins, reached) = o
  BY DEF coded, IsMap

LEMMA CodedTwice ==
  ASSUME at \in Nat, NEW lo \in Nat, NEW mid \in Nat, NEW hi \in Nat, lo <= mid, mid <= hi,
         NEW d, NEW o, NEW ins
  PROVE  coded(d, coded(d, o, ins, Reached(lo, mid)), ins, Reached(mid, hi))
           = coded(d, o, ins, Reached(lo, hi))
<1>1. Reached(lo, hi) <=> Reached(lo, mid) \/ Reached(mid, hi)
  BY DEF Reached
<1> QED BY <1>1 DEF coded

LEMMA PlanTurn ==
  ASSUME at \in Nat, NEW lo \in Nat, NEW hi \in Nat, lo <= hi,
         NEW j, j.ins \in Nat \ {0}, j.outs \in Nat \ {0}, j.path = "planP",
         NEW m, CoefsRight(j, m),
         NEW d, NEW o, IsMap(o), DOMAIN o = 0..(j.outs - 1)
  PROVE  codePlan(planOf(j), m, d, o, lo, hi)
           = coded(d, o, j.ins, Reached(lo, lo + avxMasked(hi - lo)))
<1> DEFINE plan == planOf(j)
           n == gridSize(j.ins, j.outs)
           l == Len(tens(j.outs))
           k == Len(tens(j.ins))
<1>1. n \in Nat /\ DOMAIN plan = 1..n /\ Orderly(plan, n, j.ins, j.outs)
  <2>1. CASE j.ins > j.outs
    <3>1. /\ n \in Nat /\ DOMAIN inputsOutside(j.ins, j.outs) = 1..n
          /\ Grid(inputsOutside(j.ins, j.outs), n, inRow(l, n), inColumn(l, n), j.ins, j.outs)
      BY GridOfInputs
    <3>2. plan = inputsOutside(j.ins, j.outs)
      BY <2>1 DEF planOf
    <3> HIDE DEF plan, n, l
    <3> QED BY <3>1, <3>2, GridOrderly
  <2>2. CASE ~(j.ins > j.outs)
    <3>1. /\ n \in Nat /\ DOMAIN outputsOutside(j.ins, j.outs) = 1..n
          /\ Grid(outputsOutside(j.ins, j.outs), n, inColumn(k, n), inRow(k, n), j.ins, j.outs)
      BY GridOfOutputs
    <3>2. plan = outputsOutside(j.ins, j.outs)
      BY <2>2 DEF planOf
    <3> HIDE DEF plan, n, k
    <3> QED BY <3>1, <3>2, GridOrderly
  <2> QED BY <2>1, <2>2
<1>2. \A i \in 1..n : plan[i] \in ahead(j)
  <2>1. ahead(j) = {plan[i] : i \in DOMAIN plan}
    BY DEF ahead
  <2> HIDE DEF plan, n
  <2> QED BY <1>1, <2>1
<1> HIDE DEF plan, n
<1>3. LaidOut(m, plan, n)
  BY <1>2 DEF CoefsRight, LaidOut
<1>5. codePlan(plan, m, d, o, lo, hi)
        = coded(d, o, j.ins, Reached(lo, lo + avxMasked(hi - lo)))
  <2> DEFINE ins == j.ins
             outs == j.outs
  <2>1. ins \in Nat \ {0} /\ Orderly(plan, n, ins, outs) /\ DOMAIN o = 0..(outs - 1)
    BY <1>1
  <2> HIDE DEF ins, outs
  <2> SUFFICES codePlan(plan, m, d, o, lo, hi)
                 = coded(d, o, ins, Reached(lo, lo + avxMasked(hi - lo)))
    BY DEF ins
  <2> QED BY <1>1, <1>3, <2>1, PlanCoded
<1> QED BY <1>5 DEF plan

LEMMA TiledTurn ==
  ASSUME at \in Nat, NEW hi \in Nat, NEW ins \in Nat \ {0}, NEW outs \in Nat \ {0},
         NEW d, NEW o, IsMap(o), DOMAIN o = 0..(outs - 1)
  PROVE  codeTiles(inputsOutside(ins, outs), d, o, 0, hi)
           = coded(d, o, ins, Reached(0, avxMasked(hi)))
<1> DEFINE plan == inputsOutside(ins, outs)
           n == gridSize(ins, outs)
           l == Len(tens(outs))
           m == written({plan[k] : k \in DOMAIN plan})
<1>1. n \in Nat /\ DOMAIN plan = 1..n /\ Orderly(plan, n, ins, outs)
  <2>1. /\ n \in Nat /\ DOMAIN plan = 1..n
        /\ Grid(plan, n, inRow(l, n), inColumn(l, n), ins, outs)
    BY GridOfInputs
  <2> HIDE DEF plan, n, l
  <2> QED BY <2>1, GridOrderly
<1>2. StretchesApart({plan[k] : k \in DOMAIN plan})
  BY InputsApart
<1> HIDE DEF plan, n
<1>3. LaidOut(m, plan, n)
  <2>1. \A k \in 1..n : \A x \in 0..(plan[k].ins * plan[k].outs - 1) :
           m[plan[k].from + x] = coefficients(plan[k])[x]
    BY <1>1, <1>2, WrittenRight
  <2> QED BY <2>1, Zenon DEF LaidOut
<1> HIDE DEF m
<1>4. codeTiles(plan, d, o, 0, hi) = coded(d, o, ins, Reached(0, 0 + avxMasked(hi - 0)))
  <2>1. 0 \in Nat /\ 0 <= hi
    OBVIOUS
  <2> QED BY <1>1, <1>3, <2>1, PlanCoded
<1>5. 0 + avxMasked(hi - 0) = avxMasked(hi)
  <2>1. hi - 0 = hi /\ avxMasked(hi) \in Nat
    BY Masked
  <2> DEFINE a == avxMasked(hi)
  <2> HIDE DEF a
  <2>2. 0 + a = a
    BY <2>1 DEF a
  <2> QED BY <2>1, <2>2 DEF a
<1> QED BY <1>4, <1>5 DEF plan

LEMMA RoundIsCoded ==
  ASSUME at \in Nat, NEW lo \in Nat, NEW hi \in Nat, lo <= hi,
         NEW ins \in Nat \ {0}, NEW d, DOMAIN d = 0..(ins - 1), NEW o
  PROVE  codeRound(d, o, lo, hi) = coded(d, o, ins, Reached(lo, hi))
<1>1. codeRound(d, o, lo, hi)
        = [r \in DOMAIN o |-> IF Reached(lo, hi) THEN termsOf(d, r, 0..(ins - 1)) ELSE o[r]]
  BY RoundCoded
<1> QED BY <1>1, Zenon DEF coded

(* Whatever the way of a job, the turn of a goroutine codes the bytes from *)
(* where it is to where it gets, and leaves the others alone.              *)
LEMMA TurnCoded ==
  ASSUME EncOK, at \in Nat, NEW w, w.next \in Nat, w.hi \in Nat, w.lo \in Nat, w.next < w.hi,
         w.lo <= w.next,
         NEW j, j.ins \in Nat \ {0}, j.outs \in Nat \ {0},
         j.path \in {"avx2", "avx2P"} => j.ins <= 10 /\ j.outs <= 10,
         NEW m, (j.path \in {"avx2", "avx2P"} /\ w.next = w.lo) \/ j.path = "planP"
                  => CoefsRight(j, m),
         NEW d, DOMAIN d = 0..(j.ins - 1),
         NEW o, IsMap(o), DOMAIN o = 0..(j.outs - 1)
  PROVE  turnOut(j, w, m, d, o) = coded(d, o, j.ins, Reached(w.next, turnEnd(j, w)))
<1> DEFINE stop == turnEnd(j, w)
           inPlan == w.next + avxMasked(stop - w.next)
           kernel == viaKernel(j, w)
           result == turnOut(j, w, m, d, o)
           final == coded(d, o, j.ins, Reached(w.next, stop))
           first == inputsOutside(j.ins, j.outs)[1]
           planOut == IF inPlan = w.next THEN o
                      ELSE codePlan(planOf(j), m, d, o, w.next, stop)
<1>1. stop \in Nat /\ w.next <= stop /\ stop <= w.hi
  BY TurnEnds
<1>2. result =
        CASE j.path \in {"avx512", "avx512P"} -> codeAvx512(j.ins, d, o, w.next, stop)
          [] j.path = "tiled" /\ kernel -> codeTiles(inputsOutside(j.ins, j.outs), d, o, 0, w.hi)
          [] j.path # "tiled" /\ kernel -> codeTile(m, d, o, first, w.next, w.hi)
          [] j.path = "planP" ->
               IF inPlan = stop THEN planOut ELSE codeRound(d, planOut, inPlan, stop)
          [] OTHER -> codeRound(d, o, w.next, stop)
  BY Zenon DEF turnOut
<1>3. kernel => /\ \/ j.path \in {"avx2", "avx2P"} /\ w.next = w.lo
                   \/ j.path = "tiled" /\ w.next = 0
                /\ stop = w.next + avxMasked(w.hi - w.next)
  <2>1. kernel => \/ j.path \in {"avx2", "avx2P"} /\ w.next = w.lo
                  \/ j.path = "tiled" /\ w.next = 0
    BY Zenon DEF viaKernel
  <2>2. kernel => stop = w.next + avxMasked(w.hi - w.next)
    BY Zenon DEF turnEnd
  <2> QED BY <2>1, <2>2, Zenon
<1> HIDE DEF kernel, stop, result, final, first, planOut, inPlan
<1>4. CASE j.path \in {"avx512", "avx512P"}
  <2>1. result = codeAvx512(j.ins, d, o, w.next, stop)
    BY <1>2, <1>3, <1>4
  <2>2. j.outs \in Nat
    OBVIOUS
  <2> QED BY <1>1, <2>1, <2>2, Avx512Coded DEF final, result, stop
<1>5. CASE j.path = "tiled" /\ kernel
  <2>1. result = codeTiles(inputsOutside(j.ins, j.outs), d, o, 0, w.hi)
    BY <1>2, <1>3, <1>5
  <2>2. w.next = 0 /\ stop = 0 + avxMasked(w.hi - 0)
    BY <1>3, <1>5
  <2>3. stop = avxMasked(w.hi)
    <3>1. w.hi - 0 = w.hi /\ avxMasked(w.hi) \in Nat
      BY Masked
    <3> DEFINE a == avxMasked(w.hi)
    <3> HIDE DEF a
    <3>2. 0 + a = a
      BY <3>1 DEF a
    <3> QED BY <2>2, <3>1, <3>2 DEF a
  <2>4. codeTiles(inputsOutside(j.ins, j.outs), d, o, 0, w.hi)
          = coded(d, o, j.ins, Reached(0, avxMasked(w.hi)))
    BY TiledTurn
  <2> QED BY <2>1, <2>2, <2>3, <2>4 DEF final, result, stop
<1>6. CASE j.path # "tiled" /\ kernel
  <2>1. result = codeTile(m, d, o, first, w.next, w.hi) /\ j.path \in {"avx2", "avx2P"}
        /\ w.next = w.lo
    BY <1>2, <1>3, <1>6
  <2>2. first = tile(<<0, j.ins>>, <<0, j.outs>>, 0)
    BY <2>1, OneTile DEF first
  <2>3. first \in ahead(j)
    BY <2>1, <2>2 DEF ahead
  <2>4. \A x \in 0..(first.ins * first.outs - 1) : m[first.from + x] = coefficients(first)[x]
    BY <2>1, <2>3 DEF CoefsRight
  <2>5. Holds(m, first)
    <3>1. first.from = 0
      BY <2>2 DEF tile
    <3>2. \A x \in 0..(first.ins * first.outs - 1) : 0 + x = x
      OBVIOUS
    <3> QED BY <2>4, <3>1, <3>2 DEF Holds
  <2>6. w.next <= w.hi
    OBVIOUS
  <2>7. codeTile(m, d, o, first, w.next, w.hi)
          = coded(d, o, j.ins, Reached(w.next, w.next + avxMasked(w.hi - w.next)))
    <3>1. \A ins, outs \in Nat \ {0}, lo, h \in Nat :
             /\ lo <= h /\ ins <= 10 /\ outs <= 10
             /\ first = tile(<<0, ins>>, <<0, outs>>, 0) /\ DOMAIN o = 0..(outs - 1)
             => codeTile(m, d, o, first, lo, h)
                  = coded(d, o, ins, Reached(lo, lo + avxMasked(h - lo)))
      <4> SUFFICES ASSUME NEW ins \in Nat \ {0}, NEW outs \in Nat \ {0}, NEW lo \in Nat,
                          NEW h \in Nat, lo <= h, ins <= 10, outs <= 10,
                          first = tile(<<0, ins>>, <<0, outs>>, 0), DOMAIN o = 0..(outs - 1)
                   PROVE  codeTile(m, d, o, first, lo, h)
                            = coded(d, o, ins, Reached(lo, lo + avxMasked(h - lo)))
        OBVIOUS
      <4> QED BY <2>5, KernelCoded
    <3> QED BY <2>1, <2>2, <2>6, <3>1
  <2> QED BY <1>3, <1>6, <2>1, <2>7 DEF final, result, stop
<1>7. CASE j.path = "planP"
  <2>1. ~kernel
    BY <1>3, <1>7
  <2>2. result = IF inPlan = stop THEN planOut ELSE codeRound(d, planOut, inPlan, stop)
    BY <1>2, <1>7, <2>1
  <2>3. inPlan \in Nat /\ w.next <= inPlan /\ inPlan <= stop
    <3> DEFINE a == avxMasked(stop - w.next)
    <3>1. stop - w.next \in Nat
      BY <1>1
    <3>2. a \in Nat /\ a <= stop - w.next
      BY <3>1, Masked
    <3> HIDE DEF a
    <3>3. inPlan = w.next + a
      BY DEF inPlan, a
    <3> QED BY <1>1, <3>2, <3>3
  <2>4. planOut = coded(d, o, j.ins, Reached(w.next, inPlan))
    <3>1. CASE inPlan = w.next
      <4>1. ~Reached(w.next, inPlan)
        BY <3>1 DEF Reached
      <4> QED BY <3>1, <4>1, CodedNot DEF planOut
    <3>2. CASE inPlan # w.next
      <4>1. codePlan(planOf(j), m, d, o, w.next, stop)
              = coded(d, o, j.ins, Reached(w.next, w.next + avxMasked(stop - w.next)))
        BY <1>1, <1>7, PlanTurn
      <4> QED BY <3>2, <4>1 DEF planOut, inPlan
    <3> QED BY <3>1, <3>2
  <2>5. CASE inPlan = stop
    BY <2>2, <2>4, <2>5 DEF final, result, stop
  <2>6. CASE inPlan # stop
    <3>1. codeRound(d, planOut, inPlan, stop) = coded(d, planOut, j.ins, Reached(inPlan, stop))
      BY <1>1, <2>3, RoundIsCoded
    <3>2. coded(d, planOut, j.ins, Reached(inPlan, stop)) = final
      BY <1>1, <2>3, <2>4, CodedTwice DEF final
    <3> QED BY <2>2, <2>6, <3>1, <3>2 DEF final, result, stop
  <2> QED BY <2>5, <2>6
<1>8. CASE j.path \notin {"avx512", "avx512P", "planP"} /\ ~kernel
  <2>1. result = codeRound(d, o, w.next, stop)
    BY <1>2, <1>8
  <2>2. codeRound(d, o, w.next, stop) = coded(d, o, j.ins, Reached(w.next, stop))
    <3>1. w.next \in Nat
      OBVIOUS
    <3> QED BY <1>1, <3>1, RoundIsCoded
  <2> QED BY <2>1, <2>2 DEF final, result, stop
<1> QED BY <1>4, <1>5, <1>6, <1>7, <1>8

-----------------------------------------------------------------------------
(* The bytes of every call, while its goroutines are at them.              *)

(* A goroutine of the call is past the byte followed.                      *)
passed(c) == \E w \in workers[c] : Reached(w.lo, w.next)

(* Every output has the terms that it should have.                         *)
Right(c) ==
  \A r \in DOMAIN out[c] :
     out[c][r] = IF call[c].op = "update" THEN partly(r, call[c].changed)
                 ELSE termsOf(data[c], r, 0..(enc.D - 1))

(* Inputs and outputs are as many as the job has, and the call does not    *)
(* change its kind.                                                        *)
Shaped(c) ==
  /\ {"op", "changed"} \subseteq DOMAIN call[c]
  /\ job[c].ins = enc.D
  /\ IsMap(data[c]) /\ DOMAIN data[c] = 0..(enc.D - 1)
  /\ IsMap(out[c]) /\ DOMAIN out[c] = 0..(job[c].outs - 1)
  /\ call[c].op \in {"update", "encodeIdx"} => call[c].changed \subseteq 0..(enc.D - 1)
  /\ pc[c] \in {"lookup", "insert"} \/ job[c].rows # <<>> => call[c].op = "reconstruct"
  /\ pc[c] = "deliver" => call[c].op = "encodeIdx"
  /\ call[c].op = "encodeIdx" => pc[c] \in {"deliver", "wait"}

(* What is coded is right, and what is not is as it was before.            *)
Coded(c) ==
  /\ call[c].op # "update" => data[c] = fresh(enc.D)
  /\ call[c].op = "update" /\ ~passed(c) => oldData(data[c]) /\ oldParity(out[c])
  /\ passed(c) => Right(c)

(* EncodeIdx adds the terms of the shards delivered so far.                *)
Delivered(c) ==
  call[c].op = "encodeIdx" =>
    /\ workers[c] = {}
    /\ pc[c] = "deliver" /\ at < call[c].n =>
         \A r \in DOMAIN out[c] :
            out[c][r] = termsOf(data[c], r, (0..(enc.D - 1)) \ call[c].changed)
    /\ pc[c] = "wait" /\ at < call[c].n => Right(c)

(* The goroutines of a job: none has nothing to do, the caller waits for   *)
(* one unless there is no output, and the coefficients they read are the   *)
(* ones of the job.                                                        *)
Goroutines(c) ==
  /\ \A w \in workers[c] : w.lo < w.hi
  /\ pc[c] = "spawn" => do[c] # 0
  /\ pc[c] = "wait" /\ workers[c] = {} => call[c].op = "encodeIdx" \/ job[c].outs = 0

(* What the way of a job says of the call, of its outputs and of its       *)
(* goroutines.                                                             *)
OnItsWay(c) ==
  /\ call[c].op = "update" <=> job[c].path \in {"update", "updateP"}
  /\ job[c].path \in {"update", "updateP"} => \A w \in workers[c] : w.next \in {w.lo, w.hi}
  /\ job[c].path \notin {"nothing", "update", "updateP"} => job[c].outs # 0
  /\ pc[c] = "spawn" => splits(job[c].path)
  /\ job[c].path = "nothing" => workers[c] = {}
  /\ job[c].path \in {"avx2", "avx2P"} => job[c].ins <= 10 /\ job[c].outs <= 10
  /\ job[c].path \in {"avx2P", "planP"} => job[c].buf # 0
  /\ job[c].path = "avx2" => \A w \in workers[c] : w.lo = 0 /\ (w.next = 0 => job[c].buf # 0)

(* A buffer that is borrowed holds the coefficients of the job.            *)
Prepared(c) ==
  job[c].path \in {"avx2", "avx2P", "planP"} /\ job[c].buf # 0 =>
    CoefsRight(job[c], buffer[job[c].buf].coefs)

Bytes(c) ==
  /\ pc[c] \in busy => Shaped(c) /\ Coded(c) /\ Delivered(c) /\ Goroutines(c)
  /\ pc[c] \in {"spawn", "wait"} => OnItsWay(c) /\ Prepared(c)

(* The inductive invariant, with CoderInv.                                 *)
BytesInv ==
  /\ at \in Nat /\ DOMAIN data = Callers /\ DOMAIN out = Callers
  /\ \A c \in Callers : Bytes(c)

LEMMA BytesSame ==
  ASSUME enc' = enc, at' = at
  PROVE  /\ \A r, S : partly(r, S)' = partly(r, S)
         /\ \A d : oldData(d)' <=> oldData(d)
         /\ \A o : oldParity(o)' <=> oldParity(o)
         /\ \A lo, hi : Reached(lo, hi)' <=> Reached(lo, hi)
  BY DEF partly, oldData, oldParity, Reached

LEMMA CoefsSame == \A j, m : CoefsRight(j, m)' <=> CoefsRight(j, m)
  BY DEF CoefsRight

LEMMA BytesHold ==
  ASSUME enc' = enc, at' = at, NEW d \in Callers, Bytes(d), hers(d)' = hers(d),
         data'[d] = data[d], out'[d] = out[d],
         job[d].buf # 0 => buffer'[job[d].buf].coefs = buffer[job[d].buf].coefs
  PROVE  Bytes(d)'
<1>1. /\ pc'[d] = pc[d] /\ call'[d] = call[d] /\ job'[d] = job[d] /\ workers'[d] = workers[d]
      /\ do'[d] = do[d]
  BY DEF hers
<1>2. Shaped(d) => Shaped(d)'
  BY <1>1 DEF Shaped, IsMap
<1>3. passed(d)' <=> passed(d)
  BY <1>1, BytesSame DEF passed
<1>4. Right(d) => Right(d)'
  BY <1>1, BytesSame DEF Right
<1>5. Coded(d) => Coded(d)'
  BY <1>1, <1>3, <1>4, BytesSame DEF Coded
<1>6. Delivered(d) => Delivered(d)'
  BY <1>1, <1>4 DEF Delivered
<1>7. Goroutines(d) => Goroutines(d)'
  BY <1>1 DEF Goroutines
<1>8. OnItsWay(d) => OnItsWay(d)'
  BY <1>1 DEF OnItsWay
<1>9. Prepared(d) => Prepared(d)'
  BY <1>1, CoefsSame DEF Prepared
<1> QED BY <1>1, <1>2, <1>5, <1>6, <1>7, <1>8, <1>9 DEF Bytes

(* A step of one caller leaves the bytes of the others, and the            *)
(* coefficients in the buffers that they hold.                             *)
LEMMA BytesKeep ==
  ASSUME BytesInv, enc' = enc, at' = at, NEW c \in Callers, Bytes(c)',
         DOMAIN data' = Callers, DOMAIN out' = Callers,
         \A d \in Callers \ {c} :
            /\ hers(d)' = hers(d) /\ data'[d] = data[d] /\ out'[d] = out[d]
            /\ job[d].buf # 0 => buffer'[job[d].buf].coefs = buffer[job[d].buf].coefs
  PROVE  BytesInv'
<1>1. ASSUME NEW d \in Callers \ {c} PROVE Bytes(d)'
  <2>1. Bytes(d)
    BY DEF BytesInv
  <2>2. /\ hers(d)' = hers(d) /\ data'[d] = data[d] /\ out'[d] = out[d]
        /\ job[d].buf # 0 => buffer'[job[d].buf].coefs = buffer[job[d].buf].coefs
    OBVIOUS
  <2> QED BY <2>1, <2>2, BytesHold
<1> QED BY <1>1 DEF BytesInv

LEMMA BytesInit == Init => BytesInv
<1> SUFFICES ASSUME Init PROVE BytesInv
  OBVIOUS
<1>1. at \in Nat
  BY PositionsAssumption DEF Init
<1>2. \A c \in Callers : Bytes(c)
  BY DEF Init, Bytes, busy
<1> QED BY <1>1, <1>2 DEF Init, BytesInv

LEMMA NoTerms ==
  ASSUME NEW d, NEW r
  PROVE  termsOf(d, r, {}) = {}
  BY DEF termsOf

(* A call begins with bytes that are as they should be.                    *)
LEMMA BytesBegin ==
  ASSUME CoderInv, BytesInv, NEW c \in Callers, NEW r \in Requests(c, enc), Begin(c, r)
  PROVE  BytesInv'
<1> DEFINE outs == IF r.op = "reconstruct" THEN Cardinality(lostData(r)) ELSE enc.P
           first(o) == CASE r.op \in {"verify", "encodeIdx"} -> {}
                         [] r.op = "update" -> {<<<<i, "old">>, <<o, i>>>> : i \in 0..(enc.D - 1)}
                         [] OTHER -> stale
<1>0. /\ UNCHANGED <<enc, at, buffer, workers, do>> /\ DOMAIN pc = Callers /\ DOMAIN call = Callers
      /\ DOMAIN job = Callers /\ DOMAIN data = Callers /\ DOMAIN out = Callers
  BY DEF Begin, CoderInv, RangesInv, Domains, Wholes, BytesInv
<1>1. workers[c] = {}
  BY DEF Begin, CoderInv, RangesInv, Caller
<1>2. /\ pc'[c] = CASE r.op = "reconstruct" -> "lookup"
                    [] r.op = "encodeIdx" -> "deliver"
                    [] OTHER -> "code"
      /\ job'[c] = [noJob EXCEPT !.ins = enc.D, !.outs = outs]
  BY <1>0 DEF Begin
<1>3. /\ {"op", "changed"} \subseteq DOMAIN call'[c] /\ call'[c].op = r.op
      /\ call'[c].changed = IF r.op = "encodeIdx" THEN 0..(enc.D - 1) ELSE r.changed
      /\ r.op = "update" => r.changed \subseteq 0..(enc.D - 1)
  BY <1>0 DEF Begin
<1>4. /\ data'[c] = IF r.op = "update" THEN [i \in 0..(enc.D - 1) |-> {<<i, "old">>}]
                    ELSE fresh(enc.D)
      /\ out'[c] = [o \in 0..(job'[c].outs - 1) |-> first(o)]
  BY <1>0 DEF Begin
<1>5. job'[c].ins = enc.D /\ job'[c].outs = outs /\ job'[c].rows = <<>>
  BY <1>2 DEF noJob
<1> HIDE DEF outs, first
<1>6. IsMap(data'[c]) /\ DOMAIN data'[c] = 0..(enc.D - 1)
  BY <1>4 DEF IsMap, fresh
<1>7. IsMap(out'[c]) /\ DOMAIN out'[c] = 0..(job'[c].outs - 1)
      /\ \A o \in DOMAIN out'[c] : out'[c][o] = first(o)
  BY <1>4 DEF IsMap
<1>8. Shaped(c)'
  <2>1. IsMap(data[c])' /\ IsMap(out[c])'
    BY <1>6, <1>7 DEF IsMap
  <2> QED BY <1>0, <1>2, <1>3, <1>5, <1>6, <1>7, <2>1 DEF Shaped
<1>9. Coded(c)'
  <2>1. ~passed(c)'
    BY <1>0, <1>1 DEF passed
  <2>2. r.op = "update" => oldData(data[c])' /\ oldParity(out[c])'
    <3> SUFFICES ASSUME r.op = "update" PROVE oldData(data[c])' /\ oldParity(out[c])'
      OBVIOUS
    <3>1. oldData(data[c])'
      BY <1>0, <1>4 DEF oldData
    <3>2. \A o : first(o) = partly(o, {})'
      BY <1>0 DEF first, partly
    <3>3. oldParity(out[c])'
      BY <1>7, <3>2 DEF oldParity
    <3> QED BY <3>1, <3>3
  <2> QED BY <1>0, <1>3, <1>4, <2>1, <2>2 DEF Coded
<1>10. Delivered(c)'
  <2> SUFFICES ASSUME r.op = "encodeIdx"
               PROVE  \A o \in DOMAIN out'[c] :
                         out'[c][o] = termsOf(data'[c], o, (0..(enc.D - 1)) \ (0..(enc.D - 1)))
    BY <1>0, <1>1, <1>2, <1>3 DEF Delivered
  <2>1. \A o : first(o) = {}
    BY DEF first
  <2> QED BY <1>7, <2>1, NoTerms
<1>11. Bytes(c)'
  BY <1>0, <1>1, <1>2, <1>8, <1>9, <1>10 DEF Bytes, Goroutines
<1>12. \A d \in Callers \ {c} : hers(d)' = hers(d) /\ data'[d] = data[d] /\ out'[d] = out[d]
  BY DEF Begin, hers
<1>13. DOMAIN data' = Callers /\ DOMAIN out' = Callers
  BY <1>0 DEF Begin
<1> QED BY <1>0, <1>11, <1>12, <1>13, BytesKeep

(* Lookup and Insert only find the rows.                                   *)
LEMMA BytesRows ==
  ASSUME CoderInv, BytesInv, NEW c \in Callers, pc[c] \in {"lookup", "insert"},
         NEW there \in {"panicked", "insert", "code", "returned"}, NEW x,
         pc' = [pc EXCEPT ![c] = there], job' = [job EXCEPT ![c].rows = x],
         UNCHANGED <<enc, at, buffer, call, data, out, start, do, workers, calls>>
  PROVE  BytesInv'
<1>0. DOMAIN pc = Callers /\ DOMAIN job = Callers /\ DOMAIN data = Callers /\ DOMAIN out = Callers
  BY DEF CoderInv, RangesInv, Domains, Wholes, BytesInv
<1>1. workers[c] = {}
  BY DEF CoderInv, RangesInv, Caller
<1>2. Shaped(c) /\ Coded(c) /\ Delivered(c)
  BY DEF BytesInv, Bytes, busy
<1>3. /\ pc'[c] = there /\ job'[c].ins = job[c].ins /\ job'[c].outs = job[c].outs
      /\ \A d \in Callers \ {c} : pc'[d] = pc[d] /\ job'[d] = job[d]
  BY <1>0
<1>4. call[c].op = "reconstruct"
  BY <1>2 DEF Shaped
<1>5. Shaped(c)'
  BY <1>2, <1>3, <1>4 DEF Shaped, IsMap
<1>6. Coded(c)'
  <2>1. ~passed(c)' /\ ~passed(c)
    BY <1>1 DEF passed
  <2> QED BY <1>2, <1>4, <2>1 DEF Coded
<1>7. Delivered(c)' /\ (pc'[c] \in busy => Goroutines(c)')
  BY <1>1, <1>3, <1>4 DEF Delivered, Goroutines, busy
<1>8. Bytes(c)'
  BY <1>3, <1>5, <1>6, <1>7 DEF Bytes
<1>9. \A d \in Callers \ {c} : hers(d)' = hers(d)
  BY <1>3 DEF hers
<1> QED BY <1>0, <1>8, <1>9, BytesKeep

LEMMA BytesLookup ==
  ASSUME CoderInv, BytesInv, NEW c \in Callers, Lookup(c)
  PROVE  BytesInv'
<1> DEFINE found == GetInvertedMatrix(tree, call[c].invalid)
           there == IF ~walkable(tree, call[c].invalid) THEN "panicked"
                    ELSE IF found = nil THEN "insert" ELSE "code"
<1>1. /\ pc[c] \in {"lookup", "insert"}
      /\ pc' = [pc EXCEPT ![c] = there] /\ job' = [job EXCEPT ![c].rows = found]
      /\ UNCHANGED <<enc, at, buffer, call, data, out, start, do, workers, calls>>
  BY DEF Lookup
<1>2. there \in {"panicked", "insert", "code", "returned"}
  OBVIOUS
<1> HIDE DEF found, there
<1> QED BY <1>1, <1>2, BytesRows

LEMMA BytesInsert ==
  ASSUME CoderInv, BytesInv, NEW c \in Callers, Insert(c)
  PROVE  BytesInv'
<1> DEFINE there == IF enc.caching /\ call[c].invalid = <<>> THEN "returned" ELSE "code"
           matrix == call[c].valid
<1>1. /\ pc[c] \in {"lookup", "insert"}
      /\ pc' = [pc EXCEPT ![c] = there] /\ job' = [job EXCEPT ![c].rows = matrix]
      /\ UNCHANGED <<enc, at, buffer, call, data, out, start, do, workers, calls>>
  BY DEF Insert
<1>2. there \in {"panicked", "insert", "code", "returned"}
  OBVIOUS
<1> HIDE DEF there, matrix
<1> QED BY <1>1, <1>2, BytesRows

(* A goroutine starts at its first byte.                                   *)
LEMMA BytesSpawn ==
  ASSUME CoderInv, BytesInv, NEW c \in Callers, Spawn(c)
  PROVE  BytesInv'
<1> DEFINE share == least(do[c], call[c].n - start[c])
           w0 == [lo |-> start[c], hi |-> start[c] + share, next |-> start[c]]
<1>0. /\ DOMAIN workers = Callers /\ DOMAIN do = Callers /\ DOMAIN start = Callers
      /\ DOMAIN data = Callers /\ DOMAIN out = Callers
      /\ UNCHANGED <<enc, at, buffer, pc, call, job, data, out, calls>>
  BY DEF CoderInv, RangesInv, Domains, BytesInv, Spawn
<1>1. pc[c] = "spawn" /\ start[c] \in Nat /\ do[c] \in Nat /\ call[c].n \in Nat /\ start[c] < call[c].n
  BY DEF Spawn, CoderInv, RangesInv, Caller, Job, busy
<1>2. Shaped(c) /\ Coded(c) /\ Delivered(c) /\ Goroutines(c) /\ OnItsWay(c) /\ Prepared(c)
  BY <1>1 DEF BytesInv, Bytes, busy
<1>3. workers'[c] = workers[c] \cup {w0} /\ do'[c] = share
      /\ \A d \in Callers \ {c} : workers'[d] = workers[d] /\ do'[d] = do[d] /\ start'[d] = start[d]
  BY <1>0 DEF Spawn
<1>4. share \in Nat \ {0}
  BY <1>1, <1>2 DEF least, Goroutines
<1>5. w0.lo = start[c] /\ w0.hi = start[c] + share /\ w0.next = start[c]
  OBVIOUS
<1> HIDE DEF share, w0
<1>6. at \in Nat /\ ~Reached(w0.lo, w0.next)
  BY <1>1, <1>5 DEF BytesInv, Reached
<1>7. passed(c)' <=> passed(c)
  BY <1>0, <1>3, <1>6, BytesSame DEF passed
<1>8. Shaped(c)'
  BY <1>0, <1>2 DEF Shaped, IsMap
<1>9. Right(c)' <=> Right(c)
  BY <1>0, BytesSame DEF Right
<1>10. Coded(c)'
  BY <1>0, <1>2, <1>7, <1>9, BytesSame DEF Coded
<1>11. call[c].op # "encodeIdx"
  BY <1>1, <1>2 DEF Shaped
<1>12. Delivered(c)' /\ Goroutines(c)'
  BY <1>0, <1>1, <1>2, <1>3, <1>4, <1>5, <1>11 DEF Delivered, Goroutines
<1>13. OnItsWay(c)'
  <2>1. job[c].path # "nothing" /\ job[c].path # "avx2"
    BY <1>1, <1>2 DEF OnItsWay, splits
  <2> QED BY <1>0, <1>2, <1>3, <1>5, <2>1 DEF OnItsWay, splits
<1>14. Prepared(c)'
  BY <1>0, <1>2, CoefsSame DEF Prepared
<1>15. Bytes(c)'
  BY <1>8, <1>10, <1>12, <1>13, <1>14 DEF Bytes
<1>16. \A d \in Callers \ {c} : hers(d)' = hers(d)
  BY <1>0, <1>3 DEF hers
<1> QED BY <1>0, <1>15, <1>16, BytesKeep

LEMMA BytesAllSpawned ==
  ASSUME CoderInv, BytesInv, NEW c \in Callers, AllSpawned(c)
  PROVE  BytesInv'
<1>0. /\ DOMAIN pc = Callers /\ DOMAIN data = Callers /\ DOMAIN out = Callers
      /\ UNCHANGED <<enc, at, buffer, call, job, data, out, start, do, workers, calls>>
  BY DEF CoderInv, RangesInv, Domains, BytesInv, AllSpawned
<1>1. pc[c] = "spawn" /\ pc'[c] = "wait" /\ Divided(c) /\ call[c].n \in Nat \ {0}
      /\ start[c] >= call[c].n /\ start[c] \in Nat
      /\ \A d \in Callers \ {c} : pc'[d] = pc[d]
  BY <1>0 DEF AllSpawned, CoderInv, RangesInv, Caller, Divided, busy
<1>2. Shaped(c) /\ Coded(c) /\ Delivered(c) /\ Goroutines(c) /\ OnItsWay(c) /\ Prepared(c)
  BY <1>1 DEF BytesInv, Bytes, busy
<1>3. workers[c] # {}
  BY <1>1 DEF Divided
<1>4. passed(c)' <=> passed(c)
  BY <1>0, BytesSame DEF passed
<1>5. Right(c)' <=> Right(c)
  BY <1>0, BytesSame DEF Right
<1>6. call[c].op # "encodeIdx"
  BY <1>1, <1>2 DEF Shaped
<1>7. Shaped(c)' /\ Delivered(c)' /\ Goroutines(c)'
  BY <1>0, <1>1, <1>2, <1>3, <1>6 DEF Shaped, IsMap, Delivered, Goroutines
<1>8. Coded(c)'
  BY <1>0, <1>2, <1>4, <1>5, BytesSame DEF Coded
<1>9. OnItsWay(c)' /\ Prepared(c)'
  BY <1>0, <1>1, <1>2, CoefsSame DEF OnItsWay, Prepared
<1>10. Bytes(c)'
  BY <1>7, <1>8, <1>9 DEF Bytes
<1>11. \A d \in Callers \ {c} : hers(d)' = hers(d)
  BY <1>0, <1>1 DEF hers
<1> QED BY <1>0, <1>10, <1>11, BytesKeep

LEMMA RoundOf ==
  ASSUME EncOK, at \in Nat, NEW n \in Nat, at < n
  PROVE  LET lo == roundDown(at, enc.perRound)
             hi == least(lo + enc.perRound, n)
         IN  lo \in Nat /\ hi \in Nat /\ lo <= hi /\ Reached(lo, hi)
<1> DEFINE lo == roundDown(at, enc.perRound)
           hi == least(lo + enc.perRound, n)
<1>1. enc.perRound \in Nat \ {0}
  <2>1. PICK s \in Settings : enc = New(s)
    BY DEF EncOK
  <2> QED BY <2>1, NewType
<1>2. lo \in Nat /\ lo <= at /\ at < lo + enc.perRound
  BY <1>1, RoundedDown
<1> HIDE DEF lo
<1>3. hi \in Nat /\ lo <= hi /\ at < hi
  BY <1>1, <1>2 DEF least
<1> HIDE DEF hi
<1>4. lo \in Nat /\ hi \in Nat /\ lo <= hi /\ Reached(lo, hi)
  BY <1>2, <1>3 DEF Reached
<1> QED BY <1>4 DEF lo, hi

(* EncodeIdx adds the terms of the shard delivered.                        *)
LEMMA BytesDeliver ==
  ASSUME CoderInv, BytesInv, NEW c \in Callers, NEW idx \in 0..(enc.D - 1), Deliver(c, idx)
  PROVE  BytesInv'
<1> DEFINE lo == roundDown(at, enc.perRound)
           hi == least(lo + enc.perRound, call[c].n)
           more(r) == galMulSliceXor(enc, at, lo, hi, out[c][r], times(data[c][idx], <<r, idx>>))
           all == 0..(enc.D - 1)
<1>0. /\ DOMAIN pc = Callers /\ DOMAIN call = Callers /\ DOMAIN data = Callers
      /\ DOMAIN out = Callers
      /\ UNCHANGED <<enc, at, buffer, job, data, start, do, workers, calls>>
      /\ EncOK
  BY DEF CoderInv, RangesInv, Domains, BytesInv, Deliver, EncOK
<1>1. /\ pc[c] = "deliver" /\ idx \in call[c].changed /\ call[c].n \in Nat /\ at \in Nat
      /\ job[c].path = "nothing" /\ job[c].buf = 0 /\ workers[c] = {}
  BY DEF Deliver, CoderInv, RangesInv, Caller, Job, BytesInv, busy
<1>2. Shaped(c) /\ Coded(c) /\ Delivered(c) /\ call[c].op = "encodeIdx"
  BY <1>1 DEF BytesInv, Bytes, Shaped, busy
<1>3. /\ pc'[c] = IF call[c].changed = {idx} THEN "wait" ELSE "deliver"
      /\ call'[c].changed = call[c].changed \ {idx} /\ call'[c].op = call[c].op
      /\ call'[c].n = call[c].n /\ DOMAIN call'[c] = DOMAIN call[c]
      /\ \A d \in Callers \ {c} : pc'[d] = pc[d] /\ call'[d] = call[d] /\ out'[d] = out[d]
      /\ DOMAIN out' = Callers
  BY <1>0, <1>2 DEF Deliver, Shaped
<1>4. out'[c] = IF at >= call[c].n THEN out[c] ELSE [r \in DOMAIN out[c] |-> more(r)]
  BY <1>0 DEF Deliver
<1> HIDE DEF more
<1>5. DOMAIN out'[c] = DOMAIN out[c] /\ IsMap(out[c])'
  BY <1>2, <1>4 DEF Shaped, IsMap
<1>6. ASSUME at < call[c].n, NEW r \in DOMAIN out'[c]
      PROVE  out'[c][r] = termsOf(data[c], r, all \ call'[c].changed)
  <2>1. out'[c][r] = more(r)
    BY <1>1, <1>4, <1>5, <1>6
  <2>2. lo \in Nat /\ hi \in Nat /\ lo <= hi /\ Reached(lo, hi)
    BY <1>0, <1>1, <1>6, RoundOf
  <2>3. more(r) = SymDiff(out[c][r], times(data[c][idx], <<r, idx>>))
    <3> HIDE DEF lo, hi
    <3> QED BY <1>1, <2>2, SlicesCoded DEF more
  <2>4. out[c][r] = termsOf(data[c], r, all \ call[c].changed)
    BY <1>1, <1>2, <1>5, <1>6 DEF Delivered
  <2>5. times(data[c][idx], <<r, idx>>) = termsOf(data[c], r, {idx})
    BY TermsOne
  <2>6. (all \ call[c].changed) \cap {idx} = {}
        /\ (all \ call[c].changed) \cup {idx} = all \ call'[c].changed
    BY <1>1, <1>3
  <2> HIDE DEF all
  <2> QED BY <2>1, <2>3, <2>4, <2>5, <2>6, TermsAdd
<1>7. Shaped(c)'
  <2>1. call'[c].changed \subseteq 0..(enc.D - 1)
    BY <1>2, <1>3 DEF Shaped
  <2> QED BY <1>0, <1>2, <1>3, <1>5, <2>1 DEF Shaped, IsMap
<1>8. ~passed(c)'
  BY <1>0, <1>1 DEF passed
<1>9. Coded(c)'
  BY <1>0, <1>2, <1>3, <1>8 DEF Coded
<1>10. Delivered(c)'
  <2>1. at < call[c].n /\ pc'[c] = "wait" => Right(c)'
    <3> SUFFICES ASSUME at < call[c].n, pc'[c] = "wait",
                        NEW r \in DOMAIN out'[c]
                 PROVE  out'[c][r] = termsOf(data[c], r, all)
      BY <1>0, <1>2, <1>3 DEF Right
    <3>1. all \ call'[c].changed = all
      BY <1>3
    <3> QED BY <1>6, <3>1
  <2>2. pc'[c] = "deliver" /\ at < call[c].n =>
          \A r \in DOMAIN out'[c] : out'[c][r] = termsOf(data[c], r, all \ call'[c].changed)
    BY <1>6
  <2> QED BY <1>0, <1>1, <1>3, <2>1, <2>2 DEF Delivered
<1>11. Goroutines(c)' /\ OnItsWay(c)' /\ Prepared(c)'
  BY <1>0, <1>1, <1>2, <1>3 DEF Goroutines, OnItsWay, Prepared, splits
<1>12. Bytes(c)'
  BY <1>7, <1>9, <1>10, <1>11 DEF Bytes
<1>13. \A d \in Callers \ {c} : hers(d)' = hers(d)
  BY <1>0, <1>3 DEF hers
<1> QED BY <1>0, <1>3, <1>12, <1>13, BytesKeep

LEMMA SplitSome ==
  ASSUME EncOK, NEW n \in Nat, NEW way
  PROVE  splitSize(n, way) \in Nat \ {0}
<1>1. PICK s \in Settings : enc = New(s)
  BY DEF EncOK
<1>2. enc.maxGoroutines \in Nat \ {0} /\ enc.minSplitSize \in Nat \ {0}
  BY <1>1, NewType
<1>3. n \div enc.maxGoroutines \in Nat
  BY <1>2, Quotient
<1> DEFINE most0 == most(n \div enc.maxGoroutines, enc.minSplitSize)
<1>4. most0 \in Nat \ {0}
  <2> DEFINE q == n \div enc.maxGoroutines
  <2> HIDE DEF q
  <2> QED BY <1>2, <1>3 DEF most, q
<1>5. splitSize(n, way) = IF way = "updateP" THEN most0 ELSE roundUp(most0)
  BY DEF splitSize
<1> HIDE DEF most0
<1> QED BY <1>4, <1>5, RoundedUp

(* What a way says of the call and of its outputs.                         *)
LEMMA WayKind ==
  ASSUME NEW c \in Callers
  PROVE  /\ call[c].op = "update" <=> wayOf(c) \in {"update", "updateP"}
         /\ wayOf(c) \notin {"nothing", "update", "updateP"} => job[c].outs # 0
         /\ wayOf(c) = "nothing" => job[c].outs = 0
         /\ wayOf(c) \in {"avx2", "avx2P"} => job[c].ins <= 10 /\ job[c].outs <= 10
<1> DEFINE n == call[c].n
           ins == job[c].ins
           outs == job[c].outs
<1>1. /\ pathOf(n, ins, outs) \notin {"update", "updateP"}
      /\ pathOf(n, ins, outs) = "nothing" <=> outs = 0
      /\ pathOf(n, ins, outs) \in {"avx2", "avx2P"} => canAVX2C(enc, n, ins, outs)
  <2> HIDE DEF n, ins, outs
  <2> QED BY DEF pathOf
<1>2. canAVX2C(enc, n, ins, outs) => ins <= 10 /\ outs <= 10
  BY DEF canAVX2C, maxAvx2Inputs, maxAvx2Outputs
<1>3. wayOf(c) = IF call[c].op # "update" THEN pathOf(n, ins, outs)
                 ELSE IF enc.maxGoroutines > 1 /\ n > enc.minSplitSize THEN "updateP" ELSE "update"
  BY DEF wayOf
<1> HIDE DEF n
<1> QED BY <1>1, <1>2, <1>3

(* The job is set up with the coefficients it will read.                   *)
LEMMA BytesDispatch ==
  ASSUME CoderInv, BytesInv, NEW c \in Callers, NEW b \in Buffers \cup {0}, NEW len,
         Dispatch(c, wayOf(c), b, len), borrows(wayOf(c)) => b # 0,
         UNCHANGED <<enc, at, call, calls, data, out>>,
         pc'[c] # "panicked" => Prepared(c)',
         \A d \in Callers \ {c} :
            job[d].buf # 0 => buffer'[job[d].buf].coefs = buffer[job[d].buf].coefs
  PROVE  BytesInv'
<1> DEFINE way == wayOf(c)
           n == call[c].n
           broken == \/ splits(way) /\ enc.maxGoroutines = 0
                     \/ b # 0 /\ tooShort([job[c] EXCEPT !.path = way], len)
           w0 == [lo |-> 0, hi |-> n, next |-> 0]
<1>0. /\ EncOK /\ DOMAIN pc = Callers /\ DOMAIN start = Callers /\ DOMAIN do = Callers
      /\ DOMAIN workers = Callers /\ DOMAIN job = Callers
      /\ DOMAIN data = Callers /\ DOMAIN out = Callers
  BY DEF CoderInv, RangesInv, EncOK, Domains, Wholes, BytesInv
<1>1. pc[c] = "code" /\ n \in Nat \ {0} /\ workers[c] = {} /\ at \in Nat
  BY DEF Dispatch, CoderInv, RangesInv, Caller, busy, BytesInv
<1>2. /\ job' = [job EXCEPT ![c].path = way, ![c].buf = b]
      /\ pc'[c] = IF broken THEN "panicked" ELSE IF alone(way) THEN "wait" ELSE "spawn"
      /\ do'[c] = IF alone(way) \/ broken THEN 0 ELSE splitSize(n, way)
      /\ workers'[c] = IF broken \/ ~alone(way) \/ way = "nothing" THEN {} ELSE {w0}
      /\ \A d \in Callers \ {c} : pc'[d] = pc[d] /\ start'[d] = start[d] /\ do'[d] = do[d]
                                  /\ workers'[d] = workers[d]
  BY <1>0 DEF Dispatch
<1>3. splitSize(n, way) \in Nat \ {0}
  BY <1>0, <1>1, SplitSome
<1>4. /\ call[c].op = "update" <=> way \in {"update", "updateP"}
      /\ way \notin {"nothing", "update", "updateP"} => job[c].outs # 0
      /\ way = "nothing" => job[c].outs = 0
      /\ way \in {"avx2", "avx2P"} => job[c].ins <= 10 /\ job[c].outs <= 10
      /\ borrows(way) => b # 0
  BY WayKind
<1>5. /\ job'[c].rows = job[c].rows /\ job'[c].ins = job[c].ins /\ job'[c].outs = job[c].outs
      /\ job'[c].path = way /\ job'[c].buf = b
      /\ \A d \in Callers \ {c} : job'[d] = job[d]
  <2>1. Job(c)
    BY DEF CoderInv
  <2> HIDE DEF way
  <2> QED BY <1>0, <1>2, <2>1 DEF Job
<1>6. w0.lo = 0 /\ w0.hi = n /\ w0.next = 0
  OBVIOUS
<1>7. Shaped(c) /\ Coded(c) /\ call[c].op # "encodeIdx"
  BY <1>1 DEF BytesInv, Bytes, Shaped, busy
<1> HIDE DEF broken, way, n, w0
<1>8. ~passed(c) /\ ~passed(c)'
  <2>1. \A w \in workers'[c] : w.lo = 0 /\ w.next = 0
    BY <1>2, <1>6
  <2>2. ~Reached(0, 0) /\ ~Reached(0, 0)'
    BY <1>1 DEF Reached
  <2>3. ~passed(c)
    BY <1>1 DEF passed
  <2>4. ASSUME NEW w \in workers'[c], Reached(w.lo, w.next)' PROVE FALSE
    <3>1. Reached(0, 0)'
      BY <2>1, <2>4 DEF Reached
    <3> QED BY <2>2, <3>1
  <2> QED BY <2>3, <2>4 DEF passed
<1>9. pc'[c] \in {"panicked", "wait", "spawn"}
  BY <1>2
<1>10. Shaped(c)'
  BY <1>5, <1>7, <1>9, <1>1 DEF Shaped, IsMap
<1>11. Coded(c)'
  BY <1>7, <1>8, BytesSame DEF Coded
<1>12. Delivered(c)'
  BY <1>7 DEF Delivered
<1>13. pc'[c] # "panicked" => Goroutines(c)'
  BY <1>1, <1>2, <1>3, <1>4, <1>5, <1>6 DEF Goroutines
<1>14. pc'[c] # "panicked" => OnItsWay(c)'
  <2> SUFFICES ASSUME pc'[c] # "panicked" PROVE OnItsWay(c)'
    OBVIOUS
  <2>1. pc'[c] = "spawn" => splits(way)
    BY <1>2 DEF alone
  <2>2. way \in {"avx2P", "planP", "avx2"} => b # 0
    BY <1>4 DEF borrows
  <2>3. \A w \in workers'[c] : w.next = w.lo /\ w.lo = 0
    BY <1>2, <1>6
  <2>4. way = "nothing" => workers'[c] = {}
    BY <1>2
  <2> QED BY <1>4, <1>5, <2>1, <2>2, <2>3, <2>4 DEF OnItsWay, splits
<1>15. Bytes(c)'
  BY <1>9, <1>10, <1>11, <1>12, <1>13, <1>14 DEF Bytes, busy
<1>16. \A d \in Callers \ {c} : hers(d)' = hers(d) /\ data'[d] = data[d] /\ out'[d] = out[d]
  BY <1>2, <1>5 DEF hers
<1> QED BY <1>0, <1>15, <1>16, BytesKeep

LEMMA BytesCode ==
  ASSUME CoderInv, BytesInv, NEW c \in Callers, Code(c)
  PROVE  BytesInv'
<1> DEFINE way == wayOf(c)
<1>0. EncOK /\ UNCHANGED <<enc, at, call, calls, data, out>> /\ 0 \notin Buffers
      /\ DOMAIN job = Callers /\ DOMAIN buffer = Buffers
  BY DEF CoderInv, RangesInv, EncOK, Code, Wholes, Buffers
<1>1. CASE ~borrows(way)
  <2>1. Dispatch(c, way, 0, 0) /\ buffer' = buffer
    BY <1>1 DEF Code
  <2>2. job'[c].buf = 0
    <3>1. Job(c)
      BY DEF CoderInv
    <3> QED BY <1>0, <2>1, <3>1 DEF Dispatch, Job
  <2>3. Prepared(c)'
    BY <2>2 DEF Prepared
  <2> QED BY <1>0, <1>1, <2>1, <2>3, BytesDispatch
<1>2. CASE borrows(way)
  <2>0. PICK b \in Buffers \ held :
          \E len \in {fullSize} \cup (IF b \in pool THEN {buffer[b].len} ELSE {}) :
             /\ Dispatch(c, way, b, len)
             /\ buffer' = [buffer EXCEPT ![b] =
                  [len |-> len,
                   coefs |-> IF pc'[c] = "panicked" THEN @.coefs
                             ELSE prepared(job'[c], @.coefs)]]
             /\ pool' = pool \ {b}
    BY <1>2 DEF Code
  <2>1. PICK len \in {fullSize} \cup (IF b \in pool THEN {buffer[b].len} ELSE {}) :
          /\ Dispatch(c, way, b, len)
          /\ buffer' = [buffer EXCEPT ![b] =
               [len |-> len,
                coefs |-> IF pc'[c] = "panicked" THEN @.coefs
                          ELSE prepared(job'[c], @.coefs)]]
          /\ pool' = pool \ {b}
    BY <2>0
  <2>2. b \in Buffers /\ b # 0 /\ \A d \in Callers : job[d].buf # b
    BY <1>0, <2>1 DEF held
  <2>3. job'[c].buf = b /\ job'[c].outs = job[c].outs /\ job'[c].ins = enc.D
    BY <1>0, <1>2, <2>1, <2>2, DispatchJob
  <2>4. job'[c].ins \in Nat \ {0} /\ job'[c].outs \in Nat \ {0}
    <3>1. job[c].outs # 0 /\ job[c].outs \in 0..enc.P
      BY <1>2, WayFits DEF CoderInv, Job
    <3> QED BY <1>0, <2>3, <3>1, Geometry
  <2>5. pc'[c] # "panicked" => Prepared(c)'
    <3> SUFFICES ASSUME pc'[c] # "panicked" PROVE Prepared(c)'
      OBVIOUS
    <3>1. buffer'[b].coefs = prepared(job'[c], buffer[b].coefs)
      BY <1>0, <2>1, <2>2
    <3>2. CoefsRight(job'[c], buffer'[b].coefs)
      <4> DEFINE j == job'[c]
                 y == buffer[b].coefs
      <4>1. CoefsRight(j, prepared(j, y))
        <5>1. j.ins \in Nat \ {0} /\ j.outs \in Nat \ {0}
          BY <2>4
        <5> HIDE DEF j, y
        <5> QED BY <5>1, PreparedRight
      <4> QED BY <3>1, <4>1
    <3>3. CoefsRight(job[c], buffer[job[c].buf].coefs)'
      BY <2>3, <3>2 DEF CoefsRight
    <3> QED BY <3>3 DEF Prepared
  <2>6. \A d \in Callers \ {c} :
           job[d].buf # 0 => buffer'[job[d].buf].coefs = buffer[job[d].buf].coefs
    <3> SUFFICES ASSUME NEW d \in Callers \ {c}, job[d].buf # 0
                 PROVE  buffer'[job[d].buf].coefs = buffer[job[d].buf].coefs
      OBVIOUS
    <3>1. job[d].buf \in Buffers /\ job[d].buf # b
      BY <2>2 DEF CoderInv, Job
    <3> QED BY <1>0, <2>1, <3>1
  <2> QED BY <1>0, <2>1, <2>2, <2>5, <2>6, BytesDispatch
<1> QED BY <1>1, <1>2

(* What Advance does to the ones of the caller's goroutines that are past  *)
(* the byte followed.                                                      *)
LEMMA PassedOn ==
  ASSUME CoderInv, BytesInv, NEW c \in Callers, NEW w \in workers[c], Advance(c, w),
         UNCHANGED <<enc, at>>
  PROVE  LET stop == turnEnd(job[c], w)
             v == [w EXCEPT !.next = stop]
         IN  /\ w.lo \in Nat /\ w.next \in Nat /\ w.hi \in Nat
             /\ w.lo <= w.next /\ w.next < w.hi
             /\ stop \in Nat /\ w.next <= stop /\ stop <= w.hi
             /\ v.lo = w.lo /\ v.hi = w.hi /\ v.next = stop
             /\ workers'[c] = (workers[c] \ {w}) \cup {v}
             /\ \A d \in Callers \ {c} : workers'[d] = workers[d]
             /\ passed(c)' <=> passed(c) \/ Reached(w.next, stop)
             /\ Reached(w.lo, w.hi) /\ passed(c) => Reached(w.lo, w.next)
<1> DEFINE stop == turnEnd(job[c], w)
           v == [w EXCEPT !.next = stop]
<1>0. EncOK /\ DOMAIN workers = Callers /\ at \in Nat
  BY DEF CoderInv, RangesInv, EncOK, Domains, BytesInv
<1>1. pc[c] \in {"spawn", "wait"} /\ w.next < w.hi /\ Job(c)
  BY DEF Advance, CoderInv
<1>2. /\ \A u \in workers[c] : /\ {"lo", "hi", "next"} \subseteq DOMAIN u
                               /\ u.lo \in Nat /\ u.hi \in Nat /\ u.next \in Nat
                               /\ u.lo <= u.next /\ u.next <= u.hi
      /\ \A u \in workers[c] : u # w => u.hi <= w.lo \/ w.hi <= u.lo
  BY <1>1 DEF CoderInv, RangesInv, Caller, Ranges, Job, Turns
<1>3. stop \in Nat /\ w.next <= stop /\ stop <= w.hi
  BY <1>0, <1>1, <1>2, TurnEnds
<1>4. v.lo = w.lo /\ v.hi = w.hi /\ v.next = stop
  BY <1>2
<1>5. /\ workers'[c] = (workers[c] \ {w}) \cup {v}
      /\ \A d \in Callers \ {c} : workers'[d] = workers[d]
  BY <1>0 DEF Advance
<1> HIDE DEF stop, v
<1>6. Reached(w.lo, stop) <=> Reached(w.lo, w.next) \/ Reached(w.next, stop)
  BY <1>0, <1>2, <1>3 DEF Reached
<1>7. passed(c)' <=> passed(c) \/ Reached(w.next, stop)
  <2>1. passed(c)' <=> \E u \in workers'[c] : Reached(u.lo, u.next)
    BY BytesSame DEF passed
  <2> QED BY <1>4, <1>5, <1>6, <2>1 DEF passed
<1>8. Reached(w.lo, w.hi) /\ passed(c) => Reached(w.lo, w.next)
  <2> SUFFICES ASSUME Reached(w.lo, w.hi), NEW u \in workers[c], Reached(u.lo, u.next)
               PROVE  Reached(w.lo, w.next)
    BY DEF passed
  <2>1. u = w
    BY <1>0, <1>2 DEF Reached
  <2> QED BY <2>1
<1> QED BY <1>1, <1>2, <1>3, <1>4, <1>5, <1>7, <1>8 DEF stop, v

(* A turn of a goroutine: if it passes the byte followed it codes it,      *)
(* once, since no other goroutine has it in its range.                     *)
LEMMA BytesWork ==
  ASSUME CoderInv, BytesInv, NEW c \in Callers, NEW w \in workers[c], Work(c, w)
  PROVE  BytesInv'
<1> DEFINE early == job[c].path = "avx2" /\ w.next = 0
           j == job[c]
           stop == turnEnd(job[c], w)
           v == [w EXCEPT !.next = stop]
<1>0. /\ EncOK /\ DOMAIN out = Callers /\ DOMAIN data = Callers
      /\ UNCHANGED <<enc, at, pc, call, data, start, do, calls>>
      /\ Advance(c, w) /\ at \in Nat
  BY DEF CoderInv, RangesInv, EncOK, Wholes, BytesInv, Work
<1>1. /\ w.lo \in Nat /\ w.next \in Nat /\ w.hi \in Nat
      /\ w.lo <= w.next /\ w.next < w.hi
      /\ stop \in Nat /\ w.next <= stop /\ stop <= w.hi
      /\ v.lo = w.lo /\ v.hi = w.hi /\ v.next = stop
      /\ workers'[c] = (workers[c] \ {w}) \cup {v}
      /\ \A d \in Callers \ {c} : workers'[d] = workers[d]
      /\ passed(c)' <=> passed(c) \/ Reached(w.next, stop)
  BY <1>0, PassedOn
<1> HIDE DEF v
<1>2. /\ pc[c] \in {"spawn", "wait"} /\ Job(c)
      /\ job[c].path = "avx2" => \E u : workers'[c] = {u} /\ u.next # 0
  BY <1>0, Advanced
<1>3. Shaped(c) /\ Coded(c) /\ Delivered(c) /\ Goroutines(c) /\ OnItsWay(c) /\ Prepared(c)
  BY <1>2 DEF BytesInv, Bytes, busy
<1>4. /\ j.path \notin {"nothing", "update", "updateP"} /\ j.outs \in Nat \ {0}
      /\ j.ins = enc.D /\ enc.D \in Nat \ {0} /\ call[c].op # "update"
  <2>1. j.path \notin {"nothing", "update", "updateP"}
    BY <1>3 DEF Work, OnItsWay
  <2>2. j.outs \in Nat
    BY <1>0, <1>2, Geometry DEF Job
  <2> QED BY <1>0, <1>3, <2>1, <2>2, Geometry DEF OnItsWay, Shaped
<1>5. (j.path \in {"avx2", "avx2P"} /\ w.next = w.lo) \/ j.path = "planP"
        => CoefsRight(j, coefsOf(c))
  <2> SUFFICES ASSUME (j.path \in {"avx2", "avx2P"} /\ w.next = w.lo) \/ j.path = "planP"
               PROVE  CoefsRight(j, coefsOf(c))
    OBVIOUS
  <2>1. j.buf # 0
    BY <1>3 DEF OnItsWay
  <2> QED BY <1>3, <2>1 DEF Prepared, coefsOf
<1>6. out'[c] = coded(data[c], out[c], enc.D, Reached(w.next, stop))
  <2>1. out'[c] = turnOut(j, w, coefsOf(c), data[c], out[c])
    BY <1>0 DEF Work
  <2>2. j.path \in {"avx2", "avx2P"} => j.ins <= 10 /\ j.outs <= 10
    BY <1>3 DEF OnItsWay
  <2>3. /\ DOMAIN data[c] = 0..(j.ins - 1) /\ IsMap(out[c]) /\ DOMAIN out[c] = 0..(j.outs - 1)
    BY <1>3, <1>4 DEF Shaped
  <2> DEFINE m == coefsOf(c)
             d == data[c]
             o == out[c]
  <2> HIDE DEF j, m, d, o
  <2>4. turnOut(j, w, m, d, o) = coded(d, o, j.ins, Reached(w.next, turnEnd(j, w)))
    BY <1>0, <1>1, <1>4, <1>5, <2>2, <2>3, TurnCoded DEF m, d, o
  <2> QED BY <1>4, <2>1, <2>4 DEF j, m, d, o
<1>7. /\ early => job' = [job EXCEPT ![c].buf = 0] /\ buffer' = putBack(c)
      /\ ~early => job' = job /\ buffer' = buffer
  BY DEF Work
<1> HIDE DEF early, stop
<1>8. /\ job'[c].rows = j.rows /\ job'[c].ins = j.ins /\ job'[c].outs = j.outs
      /\ job'[c].path = j.path /\ job'[c].buf = IF early THEN 0 ELSE j.buf
      /\ \A d \in Callers \ {c} : job'[d] = job[d]
  BY <1>2, <1>7 DEF CoderInv, Wholes, Job
<1>9. IsMap(out[c])' /\ DOMAIN out'[c] = DOMAIN out[c]
  BY <1>6, CodedMap DEF IsMap
<1>10. Shaped(c)'
  BY <1>0, <1>3, <1>8, <1>9 DEF Shaped, IsMap
<1>11. Coded(c)'
  <2>1. CASE Reached(w.next, stop)
    <3>1. \A r \in DOMAIN out'[c] : out'[c][r] = termsOf(data[c], r, 0..(enc.D - 1))
      BY <1>6, <2>1 DEF coded
    <3>2. Right(c)'
      BY <1>0, <1>4, <3>1 DEF Right
    <3> QED BY <1>0, <1>3, <1>4, <3>2 DEF Coded
  <2>2. CASE ~Reached(w.next, stop)
    <3>1. out'[c] = out[c]
      BY <1>3, <1>6, <2>2, CodedNot DEF Shaped
    <3>2. Right(c)' <=> Right(c)
      BY <1>0, <3>1, BytesSame DEF Right
    <3> QED BY <1>0, <1>1, <1>3, <1>4, <2>2, <3>2 DEF Coded
  <2> QED BY <2>1, <2>2
<1>12. call[c].op # "encodeIdx"
  BY <1>3 DEF Delivered
<1>13. Delivered(c)'
  BY <1>0, <1>12 DEF Delivered
<1>14. Goroutines(c)'
  BY <1>0, <1>1, <1>3 DEF Goroutines
<1>15. OnItsWay(c)'
  <2>1. j.path = "avx2" => \A u \in workers'[c] : u.lo = 0 /\ u.next # 0
    <3> SUFFICES ASSUME j.path = "avx2", NEW u \in workers'[c] PROVE u.lo = 0 /\ u.next # 0
      OBVIOUS
    <3>1. u.next # 0
      BY <1>2
    <3>2. w.lo = 0 /\ \A x \in workers[c] : x.lo = 0
      BY <1>3 DEF OnItsWay
    <3> QED BY <1>1, <3>1, <3>2
  <2>2. early => j.path = "avx2"
    BY DEF early
  <2> HIDE DEF j
  <2>3. /\ pc[c] = "spawn" => splits(j.path)
        /\ j.path \in {"avx2", "avx2P"} => j.ins <= 10 /\ j.outs <= 10
        /\ j.path \in {"avx2P", "planP"} => j.buf # 0
    BY <1>3 DEF OnItsWay, j
  <2> QED BY <1>0, <1>4, <1>8, <2>1, <2>2, <2>3 DEF OnItsWay, splits
<1>16. \A b \in Buffers : buffer'[b].coefs = buffer[b].coefs
  <2>1. \A b \in Buffers : {"len", "coefs"} \subseteq DOMAIN buffer[b]
    BY DEF CoderInv, Buffer
  <2>2. DOMAIN buffer = Buffers
    BY DEF CoderInv, Wholes
  <2> QED BY <1>7, <2>1, <2>2 DEF putBack
<1>17. Prepared(c)'
  <2> SUFFICES ASSUME j.path \in {"avx2", "avx2P", "planP"}, job'[c].buf # 0
               PROVE  CoefsRight(job[c], buffer[job[c].buf].coefs)'
    BY <1>8 DEF Prepared
  <2>1. job'[c] = j /\ buffer' = buffer
    BY <1>7, <1>8
  <2> QED BY <1>3, <2>1, CoefsSame DEF Prepared
<1>18. Bytes(c)'
  BY <1>10, <1>11, <1>13, <1>14, <1>15, <1>17 DEF Bytes
<1>19. \A d \in Callers \ {c} :
          /\ hers(d)' = hers(d) /\ data'[d] = data[d] /\ out'[d] = out[d]
          /\ job[d].buf # 0 => buffer'[job[d].buf].coefs = buffer[job[d].buf].coefs
  <2> SUFFICES ASSUME NEW d \in Callers \ {c}
               PROVE  /\ hers(d)' = hers(d) /\ data'[d] = data[d] /\ out'[d] = out[d]
                      /\ job[d].buf # 0 => buffer'[job[d].buf].coefs = buffer[job[d].buf].coefs
    OBVIOUS
  <2>1. out'[d] = out[d]
    BY DEF Work
  <2>2. job[d].buf \in Buffers \cup {0}
    BY DEF CoderInv, Job
  <2> QED BY <1>0, <1>1, <1>8, <1>16, <2>1, <2>2 DEF hers
<1>20. DOMAIN data' = Callers /\ DOMAIN out' = Callers
  BY <1>0 DEF Work
<1> QED BY <1>0, <1>18, <1>19, <1>20, BytesKeep

(* A goroutine of updateParityShards.                                      *)
LEMMA BytesWorkUpdate ==
  ASSUME CoderInv, BytesInv, NEW c \in Callers, NEW w \in workers[c], WorkUpdate(c, w)
  PROVE  BytesInv'
<1> DEFINE changed == call[c].changed
           diff == differences(changed, data[c], w.lo, w.hi)
           o2 == updated(changed, diff, out[c], w.lo, w.hi)
           stop == turnEnd(job[c], w)
           v == [w EXCEPT !.next = stop]
<1>0. /\ EncOK /\ DOMAIN out = Callers /\ DOMAIN data = Callers
      /\ UNCHANGED <<enc, at, buffer, pc, call, job, start, do, calls>>
      /\ Advance(c, w) /\ at \in Nat /\ job[c].path \in {"update", "updateP"}
  BY DEF CoderInv, RangesInv, EncOK, Wholes, BytesInv, WorkUpdate
<1>1. /\ w.lo \in Nat /\ w.next \in Nat /\ w.hi \in Nat
      /\ w.lo <= w.next /\ w.next < w.hi
      /\ v.lo = w.lo /\ v.hi = w.hi /\ v.next = stop
      /\ workers'[c] = (workers[c] \ {w}) \cup {v}
      /\ \A d \in Callers \ {c} : workers'[d] = workers[d]
      /\ passed(c)' <=> passed(c) \/ Reached(w.next, stop)
      /\ Reached(w.lo, w.hi) /\ passed(c) => Reached(w.lo, w.next)
  BY <1>0, PassedOn
<1>2. stop = w.hi
  <2>1. ~viaKernel(job[c], w)
    BY <1>0 DEF viaKernel
  <2> QED BY <1>0, <2>1 DEF turnEnd
<1> HIDE DEF v, stop
<1>3. pc[c] \in {"spawn", "wait"} /\ Shaped(c) /\ Coded(c) /\ Delivered(c) /\ Goroutines(c)
      /\ OnItsWay(c) /\ Prepared(c)
  BY <1>0 DEF BytesInv, Bytes, busy, Advance
<1>4. call[c].op = "update" /\ w.next = w.lo
  BY <1>0, <1>1, <1>3 DEF OnItsWay
<1>5. /\ changed \in SUBSET (0..(enc.D - 1)) /\ IsMap(data[c]) /\ IsMap(out[c])
      /\ DOMAIN data[c] = 0..(enc.D - 1)
  BY <1>3, <1>4 DEF Shaped
<1>6. Reached(w.lo, w.hi) => ~passed(c) /\ oldData(data[c]) /\ oldParity(out[c])
  <2>1. ~Reached(w.lo, w.next)
    BY <1>0, <1>1, <1>4 DEF Reached
  <2> QED BY <1>1, <1>3, <1>4, <2>1 DEF Coded
<1> HIDE DEF diff, o2, changed
<1>7. /\ DOMAIN diff = 0..(enc.D - 1) /\ IsMap(diff)
      /\ DOMAIN o2 = DOMAIN out[c] /\ IsMap(o2)
      /\ ~Reached(w.lo, w.hi) => diff = data[c] /\ o2 = out[c]
      /\ Reached(w.lo, w.hi) => \A r \in DOMAIN out[c] : o2[r] = partly(r, changed)
  <2> DEFINE d == data[c]
             o == out[c]
             lo == w.lo
             hi == w.hi
  <2>1. lo \in Nat /\ hi \in Nat /\ lo <= hi
    BY <1>1
  <2>2. IsMap(d) /\ IsMap(o) /\ DOMAIN d = 0..(enc.D - 1)
        /\ (Reached(lo, hi) => oldData(d) /\ oldParity(o))
    BY <1>5, <1>6
  <2>3. diff = differences(changed, d, lo, hi) /\ o2 = updated(changed, diff, o, lo, hi)
    BY DEF diff, o2
  <2> HIDE DEF d, o, lo, hi
  <2>4. UpdateRight(changed, d, o, diff, o2, lo, hi)
    BY <1>0, <1>5, <2>1, <2>2, <2>3, UpdateCoded
  <2> QED BY <2>4 DEF UpdateRight, d, o, lo, hi
<1>8. /\ data'[c] = diff /\ out'[c] = o2
      /\ \A d \in Callers \ {c} : data'[d] = data[d] /\ out'[d] = out[d]
      /\ DOMAIN data' = Callers /\ DOMAIN out' = Callers
  BY <1>0 DEF WorkUpdate, diff, o2, changed
<1>9. Shaped(c)'
  <2>1. IsMap(data[c])' /\ IsMap(out[c])'
    BY <1>7, <1>8 DEF IsMap
  <2> QED BY <1>0, <1>3, <1>7, <1>8, <2>1 DEF Shaped
<1>10. Coded(c)'
  <2>1. CASE Reached(w.lo, w.hi)
    <3>1. passed(c)'
      BY <1>1, <1>2, <1>4, <2>1
    <3>2. Right(c)'
      <4>1. \A r \in DOMAIN out'[c] : out'[c][r] = partly(r, changed)'
        BY <1>0, <1>7, <1>8, <2>1, BytesSame DEF changed
      <4> QED BY <1>0, <1>4, <4>1 DEF Right, changed
    <3> QED BY <1>0, <1>4, <3>1, <3>2 DEF Coded
  <2>2. CASE ~Reached(w.lo, w.hi)
    <3>1. data'[c] = data[c] /\ out'[c] = out[c]
      BY <1>7, <1>8, <2>2
    <3>2. passed(c)' <=> passed(c)
      BY <1>1, <1>2, <1>4, <2>2
    <3>3. Right(c)' <=> Right(c)
      BY <1>0, <3>1, BytesSame DEF Right
    <3> QED BY <1>0, <1>3, <3>1, <3>2, <3>3, BytesSame DEF Coded
  <2> QED BY <2>1, <2>2
<1>11. Delivered(c)' /\ Goroutines(c)'
  BY <1>0, <1>1, <1>3, <1>4 DEF Delivered, Goroutines
<1>12. OnItsWay(c)'
  <2>1. \A u \in workers'[c] : u.next \in {u.lo, u.hi}
    BY <1>0, <1>1, <1>2, <1>3 DEF OnItsWay
  <2>2. /\ call[c].op = "update" <=> job[c].path \in {"update", "updateP"}
        /\ pc[c] = "spawn" => splits(job[c].path)
    BY <1>3 DEF OnItsWay
  <2> QED BY <1>0, <2>1, <2>2 DEF OnItsWay, splits
<1>13. Prepared(c)'
  BY <1>0 DEF Prepared
<1>14. Bytes(c)'
  BY <1>9, <1>10, <1>11, <1>12, <1>13 DEF Bytes
<1>15. \A d \in Callers \ {c} : hers(d)' = hers(d)
  BY <1>0, <1>1 DEF hers
<1> QED BY <1>0, <1>8, <1>14, <1>15, BytesKeep

(* The job ends, or the parity shards that are lost follow.                *)
LEMMA BytesFinish ==
  ASSUME CoderInv, BytesInv, NEW c \in Callers, Finish(c)
  PROVE  BytesInv'
<1> DEFINE more == job[c].rows # <<>> /\ ~call[c].dataOnly
           parity == Cardinality(call[c].lost) - Cardinality(lostData(call[c]))
<1>0. /\ UNCHANGED <<enc, at, calls>> /\ DOMAIN pc = Callers /\ DOMAIN workers = Callers
      /\ DOMAIN start = Callers /\ DOMAIN do = Callers /\ DOMAIN job = Callers
      /\ DOMAIN data = Callers /\ DOMAIN out = Callers /\ pc[c] = "wait" /\ Job(c)
  BY DEF CoderInv, RangesInv, Domains, Wholes, BytesInv, Finish
<1>1. /\ pc' = [pc EXCEPT ![c] = IF more THEN "code" ELSE "returned"]
      /\ job' = [job EXCEPT ![c] =
           IF more THEN [noJob EXCEPT !.ins = enc.D, !.outs = parity] ELSE noJob]
      /\ call' = IF more THEN call ELSE [call EXCEPT ![c] = idle]
      /\ data' = [data EXCEPT ![c] = IF more THEN fresh(enc.D) ELSE <<>>]
      /\ out' = [out EXCEPT ![c] = IF more THEN [o \in 0..(parity - 1) |-> stale] ELSE <<>>]
      /\ workers' = [workers EXCEPT ![c] = {}] /\ start' = [start EXCEPT ![c] = 0]
      /\ do' = [do EXCEPT ![c] = 0]
      /\ buffer' = IF job[c].buf = 0 THEN buffer ELSE putBack(c)
  BY DEF Finish
<1> HIDE DEF more, parity
<1>2. \A d \in Callers \ {c} :
         /\ hers(d)' = hers(d) /\ data'[d] = data[d] /\ out'[d] = out[d]
         /\ job[d].buf # 0 => buffer'[job[d].buf].coefs = buffer[job[d].buf].coefs
  <2> SUFFICES ASSUME NEW d \in Callers \ {c}
               PROVE  /\ hers(d)' = hers(d) /\ data'[d] = data[d] /\ out'[d] = out[d]
                      /\ job[d].buf # 0 => buffer'[job[d].buf].coefs = buffer[job[d].buf].coefs
    OBVIOUS
  <2>1. \A b \in Buffers : buffer'[b].coefs = buffer[b].coefs
    <3>1. \A b \in Buffers : {"len", "coefs"} \subseteq DOMAIN buffer[b]
      BY DEF CoderInv, Buffer
    <3>2. DOMAIN buffer = Buffers
      BY DEF CoderInv, Wholes
    <3> QED BY <1>1, <3>1, <3>2 DEF putBack
  <2>2. job[d].buf \in Buffers \cup {0}
    BY DEF CoderInv, Job
  <2>3. hers(d)' = hers(d)
    <3>1. call'[d] = call[d] /\ job'[d] = job[d]
      BY <1>1
    <3> QED BY <1>0, <1>1, <3>1 DEF hers
  <2> QED BY <1>1, <2>1, <2>2, <2>3
<1>3. Bytes(c)'
  <2>1. CASE ~more
    BY <1>0, <1>1, <2>1 DEF Bytes, busy
  <2>2. CASE more
    <3>1. /\ pc'[c] = "code" /\ job'[c].ins = enc.D /\ job'[c].outs = parity
          /\ job'[c].rows = <<>> /\ call'[c] = call[c] /\ data'[c] = fresh(enc.D)
          /\ out'[c] = [o \in 0..(parity - 1) |-> stale] /\ workers'[c] = {}
      BY <1>0, <1>1, <2>2 DEF noJob
    <3>2. Shaped(c) /\ call[c].op = "reconstruct"
      BY <1>0, <2>2 DEF BytesInv, Bytes, Shaped, busy, more
    <3>3. IsMap(data[c])' /\ DOMAIN data'[c] = 0..(enc.D - 1)
      BY <3>1 DEF IsMap, fresh
    <3>4. IsMap(out[c])' /\ DOMAIN out'[c] = 0..(parity - 1)
      BY <3>1 DEF IsMap
    <3>5. Shaped(c)'
      BY <1>0, <3>1, <3>2, <3>3, <3>4 DEF Shaped
    <3>6. Coded(c)' /\ Delivered(c)' /\ Goroutines(c)'
      <4>1. ~passed(c)'
        BY <3>1 DEF passed
      <4> QED BY <1>0, <3>1, <3>2, <4>1 DEF Coded, Delivered, Goroutines
    <3> QED BY <3>1, <3>5, <3>6 DEF Bytes
  <2> QED BY <2>1, <2>2
<1> QED BY <1>0, <1>1, <1>2, <1>3, BytesKeep

LEMMA BytesNone ==
  ASSUME CoderInv, BytesInv, UNCHANGED vars
  PROVE  BytesInv'
<1>1. /\ UNCHANGED <<enc, at, data, out, buffer>>
      /\ \A d \in Callers : hers(d)' = hers(d)
  BY DEF vars, hers
<1>2. \A d \in Callers : Bytes(d)'
  BY <1>1, BytesHold DEF BytesInv
<1> QED BY <1>1, <1>2 DEF BytesInv

(* BytesInv is inductive relative to CoderInv.                             *)
LEMMA BytesStep ==
  ASSUME CoderInv, BytesInv, [Next]_vars
  PROVE  BytesInv'
<1>1. CASE UNCHANGED vars
  BY <1>1, BytesNone
<1>2. ASSUME NEW c \in Callers, NEW r \in Requests(c, enc), Begin(c, r)
      PROVE  BytesInv'
  BY <1>2, BytesBegin
<1>3. ASSUME NEW c \in Callers, Lookup(c) PROVE BytesInv'
  BY <1>3, BytesLookup
<1>4. ASSUME NEW c \in Callers, Insert(c) PROVE BytesInv'
  BY <1>4, BytesInsert
<1>5. ASSUME NEW c \in Callers, NEW idx \in 0..(enc.D - 1), Deliver(c, idx)
      PROVE  BytesInv'
  BY <1>5, BytesDeliver
<1>6. ASSUME NEW c \in Callers, Code(c) PROVE BytesInv'
  BY <1>6, BytesCode
<1>7. ASSUME NEW c \in Callers, Spawn(c) PROVE BytesInv'
  BY <1>7, BytesSpawn
<1>8. ASSUME NEW c \in Callers, AllSpawned(c) PROVE BytesInv'
  BY <1>8, BytesAllSpawned
<1>9. ASSUME NEW c \in Callers, Finish(c) PROVE BytesInv'
  BY <1>9, BytesFinish
<1>10. ASSUME NEW c \in Callers, NEW w \in workers[c], Work(c, w) PROVE BytesInv'
  BY <1>10, BytesWork
<1>11. ASSUME NEW c \in Callers, NEW w \in workers[c], WorkUpdate(c, w) PROVE BytesInv'
  BY <1>11, BytesWorkUpdate
<1> QED BY <1>1, <1>2, <1>3, <1>4, <1>5, <1>6, <1>7, <1>8, <1>9, <1>10, <1>11 DEF Next, Step

(* Bytes that follow one another from the first to the last are passed by  *)
(* the goroutines once all of them are through: one of them has the byte   *)
(* followed in its range.                                                  *)
LEMMA SomeOneHas ==
  ASSUME CoderInv, BytesInv, NEW c \in Callers, pc[c] = "wait", allDone(c),
         at < call[c].n, workers[c] # {}
  PROVE  passed(c)
<1> DEFINE n == call[c].n
           W == workers[c]
           H == {i \in 1..n : i <= at /\ \E w \in W : w.hi = i}
<1>1. n \in Nat \ {0} /\ at \in Nat /\ Covered(c) /\ Ranges(c) /\ Turns(c) /\ Goroutines(c)
  BY DEF CoderInv, RangesInv, Caller, Job, BytesInv, Bytes, busy
<1>2. \A w \in W : /\ w.lo \in Nat /\ w.hi \in 1..n /\ w.lo < w.hi /\ w.next = w.hi
  BY <1>1 DEF Ranges, Turns, Goroutines, allDone
<1>3. {w.lo : w \in W} \cup {n} = {w.hi : w \in W} \cup {0}
  BY <1>1 DEF Covered
<1>4. ASSUME NEW i, i = 0 \/ (\E w \in W : w.hi = i), i # n
      PROVE  \E w \in W : w.lo = i
  <2>1. i \in {w.hi : w \in W} \cup {0}
    BY <1>4
  <2>2. i \in {w.lo : w \in W}
    BY <1>3, <1>4, <2>1
  <2> QED BY <2>2
<1>5. \E w \in W : w.lo <= at /\ at < w.hi
  <2>1. CASE H = {}
    <3>1. PICK w \in W : w.lo = 0
      BY <1>1, <1>4
    <3>2. ~(w.hi <= at)
      BY <1>2, <2>1
    <3> QED BY <1>1, <1>2, <3>1, <3>2
  <2>2. CASE H # {}
    <3> DEFINE m == Max(H)
    <3>1. m \in H /\ \A x \in H : m >= x
      BY <1>1, <2>2, GreatestOf
    <3> HIDE DEF m
    <3>2. PICK w \in W : w.lo = m
      BY <1>1, <1>4, <3>1
    <3>3. w.hi \in 1..n /\ m < w.hi
      BY <1>2, <3>2
    <3>4. ~(w.hi <= at)
      BY <1>1, <3>1, <3>3
    <3> QED BY <1>1, <3>1, <3>2, <3>3, <3>4
  <2> QED BY <2>1, <2>2
<1> QED BY <1>2, <1>5 DEF passed, Reached

(* The terms of new data, written out.                                     *)
LEMMA NewTerms ==
  ASSUME NEW n \in Nat, NEW r
  PROVE  termsOf(fresh(n), r, 0..(n - 1)) = {<<<<i, "new">>, <<r, i>>>> : i \in 0..(n - 1)}
<1>1. \A i \in 0..(n - 1) : times(fresh(n)[i], <<r, i>>) = {<<<<i, "new">>, <<r, i>>>>}
  BY DEF times, fresh
<1> DEFINE L == termsOf(fresh(n), r, 0..(n - 1))
           R == {<<<<i, "new">>, <<r, i>>>> : i \in 0..(n - 1)}
<1>2. ASSUME NEW t PROVE t \in L <=> \E i \in 0..(n - 1) : t \in times(fresh(n)[i], <<r, i>>)
  BY Zenon DEF termsOf
<1>3. ASSUME NEW t PROVE t \in L <=> \E i \in 0..(n - 1) : t = <<<<i, "new">>, <<r, i>>>>
  <2>1. ASSUME NEW i \in 0..(n - 1)
        PROVE  t \in times(fresh(n)[i], <<r, i>>) <=> t = <<<<i, "new">>, <<r, i>>>>
    <3>1. times(fresh(n)[i], <<r, i>>) = {<<<<i, "new">>, <<r, i>>>>}
      BY <1>1
    <3> QED BY <3>1
  <2> HIDE DEF L
  <2> QED BY <1>2, <2>1, Zenon
<1>4. ASSUME NEW t PROVE t \in R <=> \E i \in 0..(n - 1) : t = <<<<i, "new">>, <<r, i>>>>
  BY Zenon
<1>5. L = R
  <2> HIDE DEF L, R
  <2> QED BY <1>3, <1>4
<1> QED BY <1>5

(* Right says what CodedOnce says.                                         *)
LEMMA RightIsRight ==
  ASSUME CoderInv, BytesInv, NEW c \in Callers, pc[c] = "wait", Right(c), NEW r \in DOMAIN out[c]
  PROVE  out[c][r] = rightByte(c, r)
<1>1. Coded(c) /\ enc.D \in Nat
  BY Geometry DEF CoderInv, TreeInv, RangesInv, EncOK, BytesInv, Bytes, busy
<1>2. CASE call[c].op = "update"
  <2>1. out[c][r] = partly(r, call[c].changed)
    BY <1>2 DEF Right
  <2>2. partly(r, call[c].changed) = rightByte(c, r)
    BY <1>2 DEF partly, rightByte
  <2> QED BY <2>1, <2>2
<1>3. CASE call[c].op # "update"
  <2>1. out[c][r] = termsOf(fresh(enc.D), r, 0..(enc.D - 1))
    BY <1>1, <1>3 DEF Right, Coded
  <2>2. rightByte(c, r) = {<<<<i, "new">>, <<r, i>>>> : i \in 0..(enc.D - 1)}
    BY <1>3 DEF rightByte
  <2> QED BY <1>1, <2>1, <2>2, NewTerms
<1> QED BY <1>2, <1>3

(* The invariant gives the property.                                       *)
LEMMA BytesAreCoded ==
  ASSUME CoderInv, BytesInv
  PROVE  CodedOnce
<1> SUFFICES ASSUME NEW c \in Callers, pc[c] = "wait", allDone(c), at < call[c].n,
                    NEW r \in DOMAIN out[c]
             PROVE  out[c][r] = rightByte(c, r)
  BY DEF CodedOnce
<1>1. Shaped(c) /\ Coded(c) /\ Delivered(c) /\ Goroutines(c)
  BY DEF BytesInv, Bytes, busy
<1>2. Right(c)
  <2>1. CASE workers[c] # {}
    BY <1>1, <2>1, SomeOneHas DEF Coded
  <2>2. CASE workers[c] = {}
    <3>1. call[c].op = "encodeIdx" \/ job[c].outs = 0
      BY <1>1, <2>2 DEF Goroutines
    <3>2. job[c].outs # 0
      BY <1>1 DEF Shaped
    <3> QED BY <1>1, <3>1, <3>2 DEF Delivered
  <2> QED BY <2>1, <2>2
<1> QED BY <1>2, RightIsRight

(* When the last goroutine of a job is done, the byte followed holds in    *)
(* every output each term of the matrix product exactly once and nothing   *)
(* left from before: for every geometry, machine, size of shard, division  *)
(* into goroutines and rounds, kernel, tile plan, buffer from the pool and *)
(* sequence of calls of the callers, and any position of the byte          *)
(* (reedsolomon.go: codeSomeShards, codeSomeShardsP, codeSomeShardsAVXP,   *)
(* updateParityShards, EncodeIdx; galoisAvx512_amd64.go).                  *)
THEOREM BytesCodedOnce == Spec => []CodedOnce
<1>1. Init => CoderInv /\ BytesInv
  BY CoderInit, BytesInit
<1>2. CoderInv /\ BytesInv /\ [Next]_vars => (CoderInv /\ BytesInv)'
  BY CoderStep, BytesStep
<1>3. CoderInv /\ BytesInv => CodedOnce
  BY BytesAreCoded
<1> QED BY <1>1, <1>2, <1>3, PTL DEF Spec
=============================================================================
