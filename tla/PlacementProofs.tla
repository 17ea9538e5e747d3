-------------------------- MODULE PlacementProofs ---------------------------
(***************************************************************************)
(* The loop of plan_placement computes RingPlan, and therefore never gives *)
(* a peer more than ParityShards shards, for every list of peers and every *)
(* erasure code.  The argument: a closed form of what the loop carries     *)
(* from shard to shard satisfies the loop's recursion, and only one        *)
(* function does.                                                          *)
(***************************************************************************)
EXTENDS Placement, InductionProofs

(* What a list of peers is: a sequence without repetitions.                *)
LEMMA RingUrls ==
    ASSUME NEW urls \in Ring
    PROVE  /\ Len(urls) \in Nat
           /\ urls \in [1..Len(urls) -> Peer]
           /\ \A j, k \in 1..Len(urls) : urls[j] = urls[k] => j = k
<1>1. PICK l \in 0..Cardinality(Peer) : urls \in [1..l -> Peer]
  BY DEF Ring
<1>2. Cardinality(Peer) \in Nat
  BY FS_CardinalityType, ShardsAssumption
<1>3. l \in Nat /\ Len(urls) = l
  BY <1>1, <1>2
<1> QED
  BY <1>1, <1>3 DEF Ring

(* The placement rule: a plan gives no peer more than ParityShards shards. *)
THEOREM RingPlanWithinParity ==
    ASSUME NEW urls \in Ring
    PROVE  WithinParity(RingPlan(urls))
<1>1. SUFFICES ASSUME NEW p \in Peer
               PROVE  Cardinality(ShardsAt(RingPlan(urls), p)) <= ParityShards
  BY DEF WithinParity
<1>2. \A i \in ShardsAt(RingPlan(urls), p) :
        i \in Nat /\ i < Len(urls) * ParityShards /\ urls[(i % Len(urls)) + 1] = p
  BY ShardsAssumption DEF ShardsAt, RingPlan, Shard
<1> QED
  BY <1>2, RingUrls, DealWithin, ShardsAssumption

-----------------------------------------------------------------------------
(* What the loop carries after k shards: while the ring is being dealt,    *)
(* k \div n rounds and the first k % n peers of the next one are done;     *)
(* after it every peer is full.                                            *)

RoomOf(n, k, j) ==
    IF k < n * ParityShards
    THEN IF j <= k % n THEN ParityShards - (k \div n) - 1 ELSE ParityShards - (k \div n)
    ELSE 0

CursorOf(n, k) == IF k < n * ParityShards THEN k % n ELSE 0

PlacedOf(urls, k) == [i \in Shard |-> IF i < k THEN RingPlan(urls)[i] ELSE Here]

Dealt(urls, k) ==
    [placement |-> PlacedOf(urls, k),
     capacity |-> [j \in 1..Len(urls) |-> RoomOf(Len(urls), k, j)],
     cursor |-> CursorOf(Len(urls), k)]

LEMMA DealtStart ==
    ASSUME NEW urls \in Ring, urls # <<>>, ParityShards # 0
    PROVE  LoopStart(urls) = Dealt(urls, 0)
<1> DEFINE n == Len(urls)
<1>1. n \in Nat \ {0} /\ ParityShards \in Nat \ {0} /\ DOMAIN urls = 1..n
  <2>1. urls \in [1..n -> Peer] /\ n \in Nat
    BY RingUrls
  <2>2. urls \in Seq(Peer)
    BY <2>1
  <2> QED BY <2>1, <2>2, ShardsAssumption
<1>2. \A j \in 1..n : RoomOf(n, 0, j) = ParityShards
  BY <1>1 DEF RoomOf
<1>3. CursorOf(n, 0) = 0
  BY <1>1 DEF CursorOf
<1>4. PlacedOf(urls, 0) = NothingPlaced
  BY DEF PlacedOf, NothingPlaced, Shard
<1>5. [j \in 1..n |-> RoomOf(n, 0, j)] = [j \in DOMAIN urls |-> ParityShards]
  BY <1>1, <1>2
<1> HIDE DEF n
<1> QED BY <1>3, <1>4, <1>5, Zenon DEF LoopStart, Dealt, n

LEMMA RowAndColumn ==
    ASSUME NEW n \in Nat \ {0}, NEW i \in Nat
    PROVE  i = n * (i \div n) + (i % n) /\ i \div n \in Nat
  OBVIOUS

(* The numbers of one turn: a peer loses a place, the cursor moves on.     *)
LEMMA RoomTurns ==
    ASSUME NEW n \in Nat \ {0}, ParityShards \in Nat, NEW k \in Nat, k < n * ParityShards
    PROVE  /\ k % n \in 0..(n - 1)
           /\ RoomOf(n, k, (k % n) + 1) > 0
           /\ \A j \in 1..n : RoomOf(n, k + 1, j) =
                IF j = (k % n) + 1 THEN RoomOf(n, k, j) - 1 ELSE RoomOf(n, k, j)
           /\ CursorOf(n, k + 1) = ((k % n) + 1) % n
<1> DEFINE q == k \div n
           r == k % n
<1>1. q \in 0..(ParityShards - 1) /\ r \in 0..(n - 1) /\ k = n * q + r
  BY RowBound
<1> HIDE DEF q, r
<1>2. q \in Nat /\ r \in Nat /\ q + 1 <= ParityShards
  BY <1>1
<1>3. \A j \in 1..n : RoomOf(n, k, j) =
          IF j <= r THEN ParityShards - q - 1 ELSE ParityShards - q
  BY DEF RoomOf, q, r
<1>4. RoomOf(n, k, r + 1) > 0
  BY <1>1, <1>2, <1>3
<1>5. CASE r < n - 1
  <2>1. (k + 1) % n = r + 1 /\ (k + 1) \div n = q
    <3>1. k + 1 = q * n + (r + 1) /\ r + 1 \in 0..(n - 1)
      BY <1>1, <1>2, <1>5
    <3>2. (k + 1) % n = r + 1
      BY <3>1, <1>2, RowColumn
    <3>3. (k + 1) = n * ((k + 1) \div n) + ((k + 1) % n) /\ (k + 1) \div n \in Nat
      <4>1. k + 1 \in Nat
        OBVIOUS
      <4> QED BY <4>1, RowAndColumn, Zenon
    <3>4. n * ((k + 1) \div n) = n * q
      BY <1>2, <3>1, <3>2, <3>3
    <3> QED BY <1>2, <3>2, <3>3, <3>4
  <2>2. k + 1 < n * ParityShards
    <3>1. PICK d \in Nat : ParityShards = q + 1 + d
      <4>1. ParityShards - (q + 1) \in Nat /\ ParityShards = q + 1 + (ParityShards - (q + 1))
        BY <1>2
      <4> QED BY <4>1
    <3>2. n * ParityShards = n * q + n + n * d /\ n * d \in Nat /\ n * q \in Nat
      BY <1>2, <3>1
    <3> QED BY <1>1, <1>2, <1>5, <3>2
  <2>3. \A j \in 1..n : RoomOf(n, k + 1, j) =
            IF j <= r + 1 THEN ParityShards - q - 1 ELSE ParityShards - q
    BY <2>1, <2>2 DEF RoomOf
  <2>4. CursorOf(n, k + 1) = (r + 1) % n
    BY <1>2, <1>5, <2>1, <2>2 DEF CursorOf
  <2>5. \A j \in 1..n : RoomOf(n, k + 1, j) =
                IF j = r + 1 THEN RoomOf(n, k, j) - 1 ELSE RoomOf(n, k, j)
    BY <1>2, <1>3, <2>3
  <2> QED BY <1>1, <1>4, <2>4, <2>5 DEF r
<1>6. CASE r = n - 1
  <2>1. k + 1 = n * (q + 1)
    BY <1>1, <1>2, <1>6
  <2>2. (k + 1) % n = 0 /\ (k + 1) \div n = q + 1
    <3>1. k + 1 = (q + 1) * n + 0 /\ 0 \in 0..(n - 1) /\ q + 1 \in Nat
      BY <1>2, <2>1
    <3>2. (k + 1) % n = 0
      BY <3>1, RowColumn
    <3>3. (k + 1) = n * ((k + 1) \div n) + ((k + 1) % n) /\ (k + 1) \div n \in Nat
      <4>1. k + 1 \in Nat
        OBVIOUS
      <4> QED BY <4>1, RowAndColumn, Zenon
    <3>4. n * ((k + 1) \div n) = n * (q + 1)
      BY <2>1, <3>2, <3>3
    <3> QED BY <1>2, <3>2, <3>3, <3>4
  <2>3. (r + 1) % n = 0
    BY <1>6
  <2>4. CursorOf(n, k + 1) = (r + 1) % n
    BY <2>2, <2>3 DEF CursorOf
  <2>5. \A j \in 1..n : RoomOf(n, k + 1, j) = ParityShards - q - 1
    <3>1. CASE q + 1 < ParityShards
      <4>1. n * (q + 1) < n * ParityShards
        BY <1>2, <3>1
      <4> QED BY <1>2, <2>1, <2>2, <4>1 DEF RoomOf
    <3>2. CASE q + 1 = ParityShards
      <4>1. ~(k + 1 < n * ParityShards)
        BY <2>1, <3>2
      <4> QED BY <1>2, <3>2, <4>1 DEF RoomOf
    <3> QED BY <1>2, <3>1, <3>2
  <2>6. \A j \in 1..n : RoomOf(n, k + 1, j) =
                IF j = r + 1 THEN RoomOf(n, k, j) - 1 ELSE RoomOf(n, k, j)
    BY <1>2, <1>3, <1>6, <2>5
  <2> QED BY <1>1, <1>4, <2>4, <2>6 DEF r
<1> QED BY <1>1, <1>5, <1>6

(* While the ring is being dealt the peer under the cursor has room, so    *)
(* the walk stops at its first step; after it no peer has.                 *)
LEMMA DealtTurn ==
    ASSUME NEW urls \in Ring, urls # <<>>, ParityShards # 0, NEW k \in 0..(Total - 1)
    PROVE  Turn(urls, Dealt(urls, k), k) = Dealt(urls, k + 1)
<1> DEFINE n == Len(urls)
           w == Dealt(urls, k)
<1>1. n \in Nat \ {0} /\ ParityShards \in Nat \ {0} /\ k \in Nat /\ k \in Shard
  <2>1. urls \in [1..n -> Peer] /\ n \in Nat
    BY RingUrls
  <2>2. urls \in Seq(Peer)
    BY <2>1
  <2> QED BY <2>1, <2>2, ShardsAssumption DEF Shard, Total
<1>2. /\ w.placement = PlacedOf(urls, k) /\ w.cursor = CursorOf(n, k)
      /\ w.capacity = [j \in 1..n |-> RoomOf(n, k, j)]
  BY DEF Dealt
<1>3. \A offset \in 0..(n - 1) : Candidate(urls, w, offset) \in 1..n
  <2>1. CursorOf(n, k) \in Nat
    BY <1>1 DEF CursorOf
  <2> QED BY <1>1, <1>2, <2>1 DEF Candidate
<1>4. \A i \in Shard : i < k + 1 <=> i < k \/ i = k
  BY <1>1 DEF Shard
<1> HIDE DEF w, n
<1>5. CASE k < n * ParityShards
  <2> DEFINE r == k % n
  <2>1. /\ r \in 0..(n - 1) /\ RoomOf(n, k, r + 1) > 0
        /\ \A j \in 1..n : RoomOf(n, k + 1, j) =
             IF j = r + 1 THEN RoomOf(n, k, j) - 1 ELSE RoomOf(n, k, j)
        /\ CursorOf(n, k + 1) = (r + 1) % n
    BY <1>1, <1>5, RoomTurns
  <2>2. w.cursor = r
    BY <1>2, <1>5 DEF CursorOf
  <2> HIDE DEF r
  <2>3. Candidate(urls, w, 0) = r + 1 /\ r + 1 \in 1..n
    BY <1>1, <2>1, <2>2 DEF Candidate, n
  <2>4. HasRoom(urls, w, 0)
    BY <1>1, <1>2, <2>1, <2>3 DEF HasRoom, n
  <2>5. FirstWithRoom(urls, w) = 0
    <3> DEFINE First(offset) == /\ HasRoom(urls, w, offset)
                                /\ \A o \in 0..(offset - 1) : ~HasRoom(urls, w, o)
    <3>1. 0 \in 0..(n - 1) /\ First(0)
      BY <1>1, <2>4
    <3>2. \A offset \in 0..(n - 1) : First(offset) => offset = 0
      BY <1>1, <2>4
    <3>3. FirstWithRoom(urls, w) = CHOOSE offset \in 0..(n - 1) : First(offset)
      BY Zenon DEF FirstWithRoom, n
    <3> HIDE DEF First
    <3> QED BY <3>1, <3>2, <3>3
  <2>6. Turn(urls, w, k) = Assign(urls, w, k)
    BY <1>1, <2>4 DEF Turn, n
  <2>7. Assign(urls, w, k) = [placement |-> [w.placement EXCEPT ![k] = urls[r + 1]],
                              capacity |-> [w.capacity EXCEPT ![r + 1] = @ - 1],
                              cursor |-> (r + 1) % n]
    BY <2>3, <2>5 DEF Assign, n
  <2>8. RingPlan(urls)[k] = urls[r + 1]
    BY <1>1, <1>5 DEF RingPlan, n, r
  <2>9. [w.placement EXCEPT ![k] = urls[r + 1]] = PlacedOf(urls, k + 1)
    BY <1>1, <1>2, <1>4, <2>8 DEF PlacedOf
  <2>10. [w.capacity EXCEPT ![r + 1] = @ - 1] = [j \in 1..n |-> RoomOf(n, k + 1, j)]
    BY <1>2, <2>1, <2>3
  <2> QED BY <2>1, <2>6, <2>7, <2>9, <2>10, Zenon DEF Dealt, n, w
<1>6. CASE ~(k < n * ParityShards)
  <2>1. \A j \in 1..n : RoomOf(n, k, j) = 0 /\ RoomOf(n, k + 1, j) = 0
    BY <1>1, <1>6 DEF RoomOf
  <2>2. \A offset \in 0..(n - 1) : ~HasRoom(urls, w, offset)
    BY <1>2, <1>3, <2>1 DEF HasRoom, n
  <2>3. Turn(urls, w, k) = w
    BY <2>2 DEF Turn, n
  <2>4. CursorOf(n, k + 1) = CursorOf(n, k)
    BY <1>1, <1>6 DEF CursorOf
  <2>5. RingPlan(urls)[k] = Here
    BY <1>1, <1>6 DEF RingPlan, n
  <2>6. PlacedOf(urls, k + 1) = PlacedOf(urls, k)
    BY <1>1, <1>4, <2>5 DEF PlacedOf
  <2>7. [j \in 1..n |-> RoomOf(n, k + 1, j)] = [j \in 1..n |-> RoomOf(n, k, j)]
    BY <2>1
  <2> QED BY <2>3, <2>4, <2>6, <2>7, Zenon DEF Dealt, n, w
<1> QED BY <1>5, <1>6 DEF w

(* The loop runs as the closed form does.                                  *)
LEMMA LoopIsDealt ==
    ASSUME NEW urls \in Ring, urls # <<>>, ParityShards # 0
    PROVE  \A k \in 0..Total : LoopOf(urls)[k] = Dealt(urls, k)
<1> DEFINE Body(g, k) == IF k = 0 THEN LoopStart(urls) ELSE Turn(urls, g[k - 1], k - 1)
           E(g) == g = [k \in 0..Total |-> Body(g, k)]
           closed == [k \in 0..Total |-> Dealt(urls, k)]
           loop == LoopOf(urls)
<1>1. Total \in Nat
  BY ShardsAssumption DEF Total
<1>2. E(closed)
  <2>1. ASSUME NEW k \in 0..Total PROVE Dealt(urls, k) = Body(closed, k)
    <3>1. CASE k = 0
      BY <3>1, DealtStart
    <3>2. CASE k # 0
      <4>1. k - 1 \in 0..(Total - 1) /\ k - 1 \in 0..Total /\ (k - 1) + 1 = k
        BY <1>1, <3>2
      <4>2. Turn(urls, Dealt(urls, k - 1), k - 1) = Dealt(urls, k)
        BY <4>1, DealtTurn
      <4>3. closed[k - 1] = Dealt(urls, k - 1)
        BY <4>1
      <4> QED BY <3>2, <4>2, <4>3
    <3> QED BY <3>1, <3>2
  <2> HIDE DEF Body
  <2> QED BY <2>1
<1>3. loop = CHOOSE g : E(g)
  BY Zenon DEF LoopOf
<1>4. E(loop)
  <2> HIDE DEF E, closed, loop
  <2> QED BY <1>2, <1>3, Zenon
<1>5. \A k \in 0..Total : loop[k] = Body(loop, k)
  <2> HIDE DEF Body, loop
  <2> QED BY <1>4
<1> DEFINE B == {k \in 0..Total : loop[k] # Dealt(urls, k)}
<1>6. SUFFICES ASSUME B # {} PROVE FALSE
  BY DEF loop
<1>7. PICK k \in B : \A m \in B : k <= m
  <2>1. B \in SUBSET Nat
    OBVIOUS
  <2> HIDE DEF B
  <2> QED BY <1>6, <2>1, LeastNumber
<1> HIDE DEF loop
<1>8. k # 0
  BY <1>5, <1>7, DealtStart
<1>9. k - 1 \in 0..(Total - 1) /\ k - 1 \in 0..Total /\ k - 1 \notin B /\ (k - 1) + 1 = k
  BY <1>1, <1>7, <1>8
<1>10. loop[k] = Turn(urls, Dealt(urls, k - 1), k - 1)
  BY <1>5, <1>8, <1>9
<1>11. Turn(urls, Dealt(urls, k - 1), k - 1) = Dealt(urls, k)
  BY <1>9, DealtTurn
<1> QED BY <1>10, <1>11

(* The walk of plan_placement with its cursor, its capacities and its      *)
(* wrap-around computes exactly the round-robin deal.                      *)
THEOREM PlanIsRingPlan ==
    \A urls \in Ring : PlanPlacement(urls) = RingPlan(urls)
<1> SUFFICES ASSUME NEW urls \in Ring PROVE PlanPlacement(urls) = RingPlan(urls)
  OBVIOUS
<1>1. ParityShards \in Nat /\ Len(urls) \in Nat /\ Total \in Nat
  BY RingUrls, ShardsAssumption DEF Total
<1>2. CASE urls = <<>> \/ ParityShards = 0
  <2>1. Len(urls) * ParityShards = 0
    BY <1>1, <1>2
  <2>2. RingPlan(urls) = NothingPlaced
    BY <2>1 DEF RingPlan, NothingPlaced, Shard
  <2> QED BY <1>2, <2>2 DEF PlanPlacement
<1>3. CASE urls # <<>> /\ ParityShards # 0
  <2>1. LoopOf(urls)[Total] = Dealt(urls, Total)
    BY <1>1, <1>3, LoopIsDealt
  <2>2. Dealt(urls, Total).placement = PlacedOf(urls, Total)
    BY DEF Dealt
  <2>3. PlacedOf(urls, Total) = RingPlan(urls)
    BY <1>1 DEF PlacedOf, RingPlan, Shard
  <2> QED BY <1>3, <2>1, <2>2, <2>3 DEF PlanPlacement
<1> QED BY <1>2, <1>3

(* No list of peers makes plan_placement give one of them more than        *)
(* ParityShards shards (api/replication.py:8-10).                          *)
THEOREM PlacementCap == \A urls \in Ring : WithinParity(PlanPlacement(urls))
  BY PlanIsRingPlan, RingPlanWithinParity

=============================================================================
