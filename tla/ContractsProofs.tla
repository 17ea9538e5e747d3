-------------------------- MODULE ContractsProofs ---------------------------
(***************************************************************************)
(* Contracts survive restarts, an evicted one stays evicted, a peer that   *)
(* passes its challenges is never suspended, no challenge counts twice,    *)
(* and an eviction drops the peer's shards: for every number of shards,    *)
(* challenges, checks and crashes.                                         *)
(***************************************************************************)
EXTENDS Contracts, FiniteSetTheorems, TLAPS

-----------------------------------------------------------------------------
(* The score                                                               *)

(* A peer that passed every challenge has at least the 0.4 that the        *)
(* challenges contribute, whatever the other three components are.         *)
LEMMA QuotientBound ==
    ASSUME NEW d \in Nat \ {0}, NEW x \in Nat
    PROVE  (2 * (4000 * d + x) + d) \div (2 * d) >= 4000
<1> DEFINE a == 2 * (4000 * d + x) + d
           b == 2 * d
           q == a \div b
<1>1. /\ a \in Nat
      /\ b \in Nat \ {0}
      /\ a >= 4000 * b
  OBVIOUS
<1>2. q \in Int /\ b * q <= a /\ a < b * (q + 1)
  <2> HIDE DEF a, b
  <2> QED
    BY <1>1
<1>3. b * 4000 < b * (q + 1)
  <2> HIDE DEF a, b, q
  <2> QED
    BY <1>1, <1>2
<1>4. 4000 < q + 1
  <2> HIDE DEF a, b, q
  <2> QED
    BY <1>1, <1>2, <1>3
<1> QED
  BY <1>2, <1>4

LEMMA PartsType ==
    ASSUME NEW c \in Contract
    PROVE  /\ Answered(c) \in Nat /\ Required(c) \in Nat
           /\ Reached(c) \in Nat /\ Contributed(c) \in Nat
           /\ \A x \in Nat : OrOne(x) \in Nat \ {0}
<1>1. Multiplier[c.tier] \in Nat
  BY DEF Contract, Tier, Multiplier
<1>2. Required(c) \in Nat
  BY <1>1 DEF Required, Contract
<1>3. Answered(c) \in Nat /\ Reached(c) \in Nat
  BY DEF Answered, Reached, Contract
<1>4. \A x \in Nat : OrOne(x) \in Nat \ {0}
  BY DEF OrOne
<1>5. Contributed(c) \in Nat
  BY <1>2, <1>4 DEF Contributed, Contract
<1> QED
  BY <1>2, <1>3, <1>4, <1>5

LEMMA ScoreType ==
    ASSUME NEW c \in Contract
    PROVE  Score(c) \in Int
<1> DEFINE t == OrOne(Answered(c))
           u == OrOne(c.checks)
           r == OrOne(Required(c))
           sum == 4000 * Passed(c) * u * r + 2500 * Reached(c) * t * r
                  + 20 * c.latency * t * u * r + 1500 * Contributed(c) * t * u
           whole == t * u * r
<1>1. /\ t \in Nat \ {0} /\ u \in Nat \ {0} /\ r \in Nat \ {0}
      /\ c.latency \in Nat /\ Passed(c) \in Nat
      /\ Reached(c) \in Nat /\ Contributed(c) \in Nat
  BY PartsType DEF Contract, Passed
<1>2. sum \in Nat /\ whole \in Nat \ {0}
  <2> HIDE DEF t, u, r
  <2> QED
    BY <1>1
<1>3. Score(c) = (2 * sum + whole) \div (2 * whole)
  BY DEF Score
<1> HIDE DEF sum, whole
<1> QED
  BY <1>2, <1>3

LEMMA HonestScore ==
    ASSUME NEW c \in Contract, c.failed = 0, c.timeouts = 0
    PROVE  Score(c) >= 4000
<1> DEFINE t == OrOne(Answered(c))
           u == OrOne(c.checks)
           r == OrOne(Required(c))
           l == 20 * c.latency
           x == 2500 * Reached(c) * t * r + l * t * u * r
                + 1500 * Contributed(c) * t * u
<1>1. /\ t \in Nat \ {0} /\ u \in Nat \ {0} /\ r \in Nat \ {0}
      /\ l \in Nat /\ Reached(c) \in Nat /\ Contributed(c) \in Nat
  BY PartsType DEF Contract
<1>2. Passed(c) = t
  BY DEF Passed, Answered, OrOne, Contract
<1>3. x \in Nat /\ t * u * r \in Nat \ {0}
  <2> HIDE DEF t, u, r, l
  <2> QED
    BY <1>1
<1>4. 4000 * t * u * r = 4000 * (t * u * r)
  <2> HIDE DEF t, u, r
  <2> QED
    BY <1>1
<1>5. Score(c) = (2 * (4000 * (t * u * r) + x) + t * u * r) \div (2 * (t * u * r))
  <2>1. 4000 * t * u * r + 2500 * Reached(c) * t * r + l * t * u * r
          + 1500 * Contributed(c) * t * u
        = 4000 * (t * u * r) + x
    <3> HIDE DEF t, u, r, l
    <3> QED
      BY <1>1, <1>4
  <2> QED
    BY <1>2, <2>1 DEF Score
<1> HIDE DEF t, u, r, x
<1> QED
  BY <1>3, <1>5, QuotientBound

-----------------------------------------------------------------------------
(* The status machine                                                      *)

LEMMA EnforcedType ==
    ASSUME NEW c \in Contract
    PROVE  /\ Enforced(c) \in Contract
           /\ Enforced(c).passed = c.passed
           /\ Enforced(c).failed = c.failed
           /\ Enforced(c).timeouts = c.timeouts
  BY DEF Enforced, Contract, Status

LEMMA EnforcedTerminal ==
    ASSUME NEW c \in Contract, c.status = "evicted"
    PROVE  Enforced(c).status = "evicted"
  BY DEF Enforced

(* A contract without a failed challenge.                                  *)
Honest(c) == c.failed = 0 /\ c.timeouts = 0

(* ... and how it stands.                                                  *)
GoodStanding(c) == c.violations = 0 /\ c.status \in {"active", "probation"}

LEMMA EnforcedKeepsStanding ==
    ASSUME NEW c \in Contract, Honest(c), GoodStanding(c)
    PROVE  GoodStanding(Enforced(c))
<1>1. ~Hopeless(c)
  <2>1. EvictAt[c.tier] <= 3000 /\ EvictAt[c.tier] \in Nat
    BY DEF Contract, Tier, EvictAt
  <2>2. Score(c) \in Int /\ Score(c) >= 4000
    BY HonestScore, ScoreType DEF Honest
  <2> QED
    BY <2>1, <2>2 DEF Hopeless
<1>2. c.violations < MaxViolations[c.tier]
  BY DEF GoodStanding, Contract, Tier, MaxViolations
<1>3. CASE c.status = "active"
  BY <1>3 DEF Enforced, GoodStanding, Contract
<1>4. CASE c.status = "probation"
  <2>1. ~(c.violations >= MaxViolations[c.tier])
    BY <1>2 DEF GoodStanding, Contract, Tier, MaxViolations
  <2> QED
    BY <1>1, <1>4, <2>1 DEF Enforced, GoodStanding, Contract
<1> QED
  BY <1>3, <1>4 DEF GoodStanding

-----------------------------------------------------------------------------
(* The inductive invariant                                                 *)

(* Someone is to blame for an eviction, and for nothing else.              *)
Blamed == mem.status = "evicted" <=> evictedBy # "nobody"

Standing == evictedBy # "operator" /\ Honest(mem) => GoodStanding(mem)

ContractInv == TypeOK /\ Persisted /\ Blamed /\ Standing /\ CountedOnce

LEMMA ContractInit == Init => ContractInv
<1> SUFFICES ASSUME Init PROVE ContractInv
  OBVIOUS
<1> PICK tier \in TierChoice : mem = NewContract(tier)
  BY DEF Init
<1>1. mem \in Contract
  BY ContractsAssumption DEF NewContract, Contract, Status
<1>2. TypeOK
  <2>1. disk = mem /\ cycle = [pc |-> "idle", id |-> 0] /\ issued = 0 /\ crashes = 0
    BY DEF Init, Idle
  <2>2. issued \in 0..MaxIssued /\ crashes \in 0..MaxCrash
    BY <2>1, ContractsAssumption
  <2>3. cycle \in [pc : {"idle", "challenge", "ping"}, id : 0..issued]
    BY <2>1
  <2> QED
    BY <1>1, <2>1, <2>2, <2>3 DEF Init, TypeOK
<1>3. CountedOnce
  BY FS_EmptySet DEF Init, CountedOnce, Answered, NewContract
<1> QED
  BY <1>2, <1>3
     DEF Init, ContractInv, Persisted, Blamed, Standing, GoodStanding, NewContract

(* Whatever leaves the contract and the challenges alone.                  *)
LEMMA MildStep ==
    ASSUME ContractInv, TypeOK',
           UNCHANGED <<issued, pending, evictedBy>>,
           mem'.status = mem.status, mem'.violations = mem.violations,
           mem'.passed = mem.passed, mem'.failed = mem.failed,
           mem'.timeouts = mem.timeouts,
           Persisted'
    PROVE  ContractInv'
  BY DEF ContractInv, Blamed, Standing, GoodStanding, Honest, CountedOnce, Answered

LEMMA ContractFields ==
    ASSUME NEW c \in Contract
    PROVE  /\ c.passed + 1 \in Nat /\ c.failed + 1 \in Nat /\ c.timeouts + 1 \in Nat
           /\ c.violations + 1 \in Nat /\ c.checks + 1 \in Nat
           /\ \A n \in Nat : c.reached + n \in Nat
           /\ c.contributed + 1 \in Nat /\ c.consumed + 1 \in Nat
           /\ \A s \in TheirShard : c.theirs \cup {s} \in SUBSET TheirShard
           /\ \A s \in OurShard : c.ours \cup {s} \in SUBSET OurShard
           /\ \A S : c.ours \ S \in SUBSET OurShard
  BY DEF Contract

(* A contract with other values of the fields that an action changes.      *)
LEMMA ContractPut ==
    ASSUME NEW c \in Contract, NEW l \in 0..100, NEW m \in Nat, NEW n \in Nat,
           NEW T \in SUBSET TheirShard, NEW O \in SUBSET OurShard
    PROVE  /\ \A t \in Tier : [c EXCEPT !.tier = t, !.latency = l] \in Contract
           /\ [c EXCEPT !.latency = l, !.passed = n] \in Contract
           /\ [c EXCEPT !.latency = l, !.failed = n, !.violations = m] \in Contract
           /\ [c EXCEPT !.latency = l, !.timeouts = n, !.violations = m] \in Contract
           /\ [c EXCEPT !.checks = m, !.reached = n] \in Contract
           /\ [c EXCEPT !.theirs = T, !.consumed = n] \in Contract
           /\ [c EXCEPT !.ours = O, !.contributed = n] \in Contract
           /\ [c EXCEPT !.ours = O] \in Contract
  BY DEF Contract

(* The updates of a contract that the actions make.                        *)
LEMMA ContractUpdates ==
    ASSUME NEW c \in Contract
    PROVE  /\ \A l \in 0..100 :
                 /\ [c EXCEPT !.latency = l, !.passed = @ + 1] \in Contract
                 /\ [c EXCEPT !.latency = l, !.failed = @ + 1,
                              !.violations = @ + 1] \in Contract
                 /\ [c EXCEPT !.latency = l, !.timeouts = @ + 1,
                              !.violations = @ + 1] \in Contract
           /\ \A n \in Nat : [c EXCEPT !.checks = @ + 1, !.reached = @ + n] \in Contract
           /\ \A s \in TheirShard :
                 [c EXCEPT !.theirs = @ \cup {s}, !.consumed = @ + 1] \in Contract
           /\ \A s \in OurShard :
                 [c EXCEPT !.ours = @ \cup {s}, !.contributed = @ + 1] \in Contract
           /\ \A S : [c EXCEPT !.ours = @ \ S] \in Contract
<1>1. {} \in SUBSET TheirShard /\ {} \in SUBSET OurShard /\ 0 \in Nat /\ 0 \in 0..100
  OBVIOUS
<1>2. \A l \in 0..100 : [c EXCEPT !.latency = l, !.passed = @ + 1] \in Contract
  BY <1>1, ContractFields, ContractPut, Zenon
<1>3. \A l \in 0..100 :
         [c EXCEPT !.latency = l, !.failed = @ + 1, !.violations = @ + 1] \in Contract
  BY <1>1, ContractFields, ContractPut, Zenon
<1>4. \A l \in 0..100 :
         [c EXCEPT !.latency = l, !.timeouts = @ + 1, !.violations = @ + 1] \in Contract
  BY <1>1, ContractFields, ContractPut, Zenon
<1>5. \A n \in Nat : [c EXCEPT !.checks = @ + 1, !.reached = @ + n] \in Contract
  BY <1>1, ContractFields, ContractPut, Zenon
<1>6. \A s \in TheirShard :
         [c EXCEPT !.theirs = @ \cup {s}, !.consumed = @ + 1] \in Contract
  BY <1>1, ContractFields, ContractPut, Zenon
<1>7. \A s \in OurShard :
         [c EXCEPT !.ours = @ \cup {s}, !.contributed = @ + 1] \in Contract
  BY <1>1, ContractFields, ContractPut, Zenon
<1>8. \A S : [c EXCEPT !.ours = @ \ S] \in Contract
  BY <1>1, ContractFields, ContractPut, Zenon
<1> QED
  BY <1>2, <1>3, <1>4, <1>5, <1>6, <1>7, <1>8

LEMMA PendingFinite ==
    ASSUME TypeOK
    PROVE  IsFiniteSet(pending) /\ Cardinality(pending) \in Nat
<1>1. IsFiniteSet(1..issued)
  BY FS_Interval, ContractsAssumption DEF TypeOK
<1> QED
  BY <1>1, FS_Subset, FS_CardinalityType DEF TypeOK

LEMMA IssueStep ==
    ASSUME ContractInv, Issue, known, UNCHANGED <<mem, known, evictedBy, drop, files, owed, crashes>>,
           cycle' \in [pc : {"idle", "challenge", "ping"}, id : 0..issued']
    PROVE  ContractInv'
<1>1. issued' \in 0..MaxIssued /\ issued' = issued + 1 /\ 1..issued \subseteq 1..issued'
  BY ContractsAssumption DEF ContractInv, TypeOK, Issue
<1>2. TypeOK'
  BY <1>1 DEF ContractInv, TypeOK, Issue, Save
<1>3. CountedOnce'
  <2>1. Cardinality(pending') <= Cardinality(pending) + 1 /\ Cardinality(pending') \in Nat
    <3>1. IsFiniteSet(pending) /\ Cardinality(pending) \in Nat
      BY PendingFinite DEF ContractInv
    <3>2. pending' = pending \cup {issued'}
      BY DEF Issue
    <3>3. Cardinality(pending \cup {issued'})
            = IF issued' \in pending THEN Cardinality(pending) ELSE Cardinality(pending) + 1
      BY <3>1, FS_AddElement
    <3> QED
      BY <3>1, <3>2, <3>3
  <2> QED
    BY <1>1, <2>1, PendingFinite DEF ContractInv, TypeOK, CountedOnce, Answered, Contract
<1> QED
  BY <1>2, <1>3
     DEF ContractInv, Persisted, Blamed, Standing, Issue, Save

LEMMA CountedType ==
    ASSUME TypeOK, NEW outcome \in {"passed", "failed", "timeout"},
           NEW latency \in 0..100
    PROVE  /\ Counted(outcome, latency) \in Contract
           /\ Counted(outcome, latency).status = mem.status
           /\ Answered(Counted(outcome, latency)) = Answered(mem) + 1
           /\ Honest(Counted(outcome, latency)) =>
                 Honest(mem) /\ Counted(outcome, latency).violations = mem.violations
<1>1. CASE outcome = "passed"
  <2> DEFINE c == [mem EXCEPT !.latency = latency, !.passed = @ + 1]
  <2>1. Counted(outcome, latency) = c
    BY <1>1 DEF Counted
  <2>2. c \in Contract
    BY ContractUpdates DEF TypeOK
  <2>3. c.status = mem.status /\ Answered(c) = Answered(mem) + 1
    BY DEF TypeOK, Contract, Answered
  <2>4. Honest(c) => Honest(mem) /\ c.violations = mem.violations
    BY DEF TypeOK, Contract, Honest
  <2> HIDE DEF c
  <2> QED
    BY <2>1, <2>2, <2>3, <2>4
<1>2. CASE outcome = "failed"
  <2> DEFINE c == [mem EXCEPT !.latency = latency, !.failed = @ + 1, !.violations = @ + 1]
  <2>1. Counted(outcome, latency) = c
    BY <1>2 DEF Counted
  <2>2. c \in Contract
    BY ContractUpdates DEF TypeOK
  <2>3. c.status = mem.status /\ Answered(c) = Answered(mem) + 1
    BY DEF TypeOK, Contract, Answered
  <2>4. Honest(c) => Honest(mem) /\ c.violations = mem.violations
    BY DEF TypeOK, Contract, Honest
  <2> HIDE DEF c
  <2> QED
    BY <2>1, <2>2, <2>3, <2>4
<1>3. CASE outcome = "timeout"
  <2> DEFINE c == [mem EXCEPT !.latency = latency, !.timeouts = @ + 1, !.violations = @ + 1]
  <2>1. Counted(outcome, latency) = c
    BY <1>3 DEF Counted
  <2>2. c \in Contract
    BY ContractUpdates DEF TypeOK
  <2>3. c.status = mem.status /\ Answered(c) = Answered(mem) + 1
    BY DEF TypeOK, Contract, Answered
  <2>4. Honest(c) => Honest(mem) /\ c.violations = mem.violations
    BY DEF TypeOK, Contract, Honest
  <2> HIDE DEF c
  <2> QED
    BY <2>1, <2>2, <2>3, <2>4
<1> QED
  BY <1>1, <1>2, <1>3

(* An enforcement of the contract, whose counters went from mem to c.      *)
LEMMA EnforceStep ==
    ASSUME ContractInv, NEW c \in Contract, NEW who \in {"hand", "cycle"},
           c.status = mem.status,
           Honest(c) => Honest(mem) /\ c.violations = mem.violations,
           mem' = Enforced(c), Blame(who, mem')
    PROVE  /\ mem' \in Contract
           /\ Answered(mem') = Answered(c)
           /\ evictedBy' \in {"nobody", "operator", "hand", "cycle"}
           /\ owed' \subseteq OurShard
           /\ Blamed' /\ Standing'
           /\ mem.status = "evicted" => mem'.status = "evicted"
<1>1. /\ mem' \in Contract
      /\ Answered(mem') = Answered(c)
      /\ Honest(mem') <=> Honest(c)
  BY EnforcedType DEF Answered, Honest
<1>2. mem.status = "evicted" => mem'.status = "evicted"
  BY EnforcedTerminal
<1>3. /\ evictedBy' \in {"nobody", "operator", "hand", "cycle"}
      /\ owed' \subseteq OurShard
  BY DEF ContractInv, TypeOK, Contract, Blame
<1>4. Blamed'
  BY <1>2 DEF ContractInv, Blamed, Blame
<1>5. ASSUME evictedBy' # "operator", Honest(mem')
      PROVE  GoodStanding(mem')
  <2>1. evictedBy # "operator"
    BY <1>5 DEF ContractInv, Blamed, Blame
  <2>2. GoodStanding(mem)
    BY <1>1, <1>5, <2>1 DEF ContractInv, Standing
  <2>3. GoodStanding(c) /\ Honest(c)
    BY <1>1, <1>5, <2>2 DEF GoodStanding
  <2> QED
    BY <2>3, EnforcedKeepsStanding
<1> QED
  BY <1>1, <1>2, <1>3, <1>4, <1>5 DEF Standing

LEMMA ResolveStep ==
    ASSUME ContractInv, NEW id \in 0..issued, NEW who \in {"hand", "cycle"},
           NEW outcome \in {"passed", "failed", "timeout"},
           NEW latency \in NextLatency,
           Resolve(id, outcome, latency, who),
           UNCHANGED <<known, issued, drop, files, crashes>>,
           cycle' \in [pc : {"idle", "challenge", "ping"}, id : 0..issued]
    PROVE  ContractInv' /\ (mem.status = "evicted" => mem'.status = "evicted")
<1>1. /\ pending' \subseteq pending
      /\ IsFiniteSet(pending')
      /\ Cardinality(pending') \in Nat
      /\ Cardinality(pending') = IF id \in pending THEN Cardinality(pending) - 1
                                 ELSE Cardinality(pending)
  BY PendingFinite, FS_RemoveElement, FS_CardinalityType DEF ContractInv, Resolve, Pop
<1>2. CASE id \in pending /\ known
  <2> DEFINE c == Counted(outcome, latency)
  <2>1. latency \in 0..100
    BY ContractsAssumption DEF NextLatency, ContractInv, TypeOK, Contract
  <2>2. /\ c \in Contract
        /\ c.status = mem.status
        /\ Answered(c) = Answered(mem) + 1
        /\ Honest(c) => Honest(mem) /\ c.violations = mem.violations
    BY <2>1, CountedType DEF ContractInv
  <2>3. mem' = Enforced(c) /\ Save(mem') /\ Blame(who, mem')
    BY <1>2 DEF Resolve
  <2> HIDE DEF c
  <2>4. /\ mem' \in Contract
        /\ Answered(mem') = Answered(c)
        /\ evictedBy' \in {"nobody", "operator", "hand", "cycle"}
        /\ owed' \subseteq OurShard
        /\ Blamed' /\ Standing'
        /\ mem.status = "evicted" => mem'.status = "evicted"
    BY <2>2, <2>3, EnforceStep
  <2>5. TypeOK'
    BY <1>1, <2>3, <2>4 DEF ContractInv, TypeOK, Save
  <2>6. CountedOnce'
    BY <1>1, <1>2, <2>2, <2>4, PendingFinite
       DEF ContractInv, TypeOK, CountedOnce, Answered, Contract
  <2> QED
    BY <2>3, <2>4, <2>5, <2>6 DEF ContractInv, Persisted, Save
<1>3. CASE ~(id \in pending /\ known)
  <2>1. UNCHANGED <<mem, disk, saved, evictedBy, owed>>
    BY <1>3 DEF Resolve
  <2>2. TypeOK'
    BY <1>1, <2>1 DEF ContractInv, TypeOK
  <2>3. CountedOnce'
    BY <1>1, <2>1, PendingFinite
       DEF ContractInv, TypeOK, CountedOnce, Answered, Contract
  <2> QED
    BY <2>1, <2>2, <2>3 DEF ContractInv, Persisted, Blamed, Standing
<1> QED
  BY <1>2, <1>3

LEMMA ContractStep ==
    ContractInv /\ [Next]_vars =>
        ContractInv' /\ (mem.status = "evicted" => mem'.status = "evicted")
<1> SUFFICES ASSUME ContractInv, [Next]_vars
             PROVE  ContractInv' /\ (mem.status = "evicted" => mem'.status = "evicted")
  OBVIOUS
<1> USE DEF store, history
<1>1. ASSUME NEW tier \in TierChoice, UpdateTier(tier)
      PROVE  ContractInv' /\ mem'.status = mem.status
  <2> PICK latency \in NextLatency : mem' = [mem EXCEPT !.tier = tier, !.latency = latency]
    BY <1>1 DEF UpdateTier
  <2>1. latency \in 0..100 /\ tier \in Tier
    BY ContractsAssumption DEF NextLatency, ContractInv, TypeOK, Contract
  <2>2. mem' \in Contract
    <3>1. {} \in SUBSET TheirShard /\ {} \in SUBSET OurShard /\ 0 \in Nat
      OBVIOUS
    <3> QED
      BY <2>1, <3>1, ContractPut DEF ContractInv, TypeOK
  <2>3. TypeOK' /\ Persisted'
    BY <1>1, <2>2 DEF ContractInv, TypeOK, Persisted, UpdateTier, Save
  <2> QED
    BY <1>1, <2>3, MildStep DEF UpdateTier, ContractInv, TypeOK, Contract
<1>2. CASE EvictPeer
  <2>1. TypeOK' /\ Persisted'
    BY <1>2 DEF ContractInv, TypeOK, Persisted, EvictPeer, Save, Blame, Contract, Status
  <2>2. mem'.status = "evicted" /\ Answered(mem') = Answered(mem) /\ (Honest(mem') <=> Honest(mem))
    BY <1>2 DEF EvictPeer, Answered, Honest, ContractInv, TypeOK, Contract
  <2>3. Blamed' /\ Standing'
    BY <1>2, <2>2
       DEF EvictPeer, Blame, ContractInv, Blamed, Standing, GoodStanding
  <2> QED
    BY <1>2, <2>1, <2>2, <2>3 DEF ContractInv, CountedOnce, EvictPeer
<1>3. CASE RemoveContract
  <2>1. TypeOK' /\ Persisted'
    BY <1>3 DEF ContractInv, TypeOK, Persisted, RemoveContract
  <2> QED
    BY <1>3, <2>1, MildStep DEF RemoveContract
<1>4. ASSUME NEW s \in TheirShard, RegisterTheirs(s)
      PROVE  ContractInv' /\ mem'.status = mem.status
  <2>1. TypeOK' /\ Persisted'
    BY <1>4, ContractUpdates DEF ContractInv, TypeOK, Persisted, RegisterTheirs, Save
  <2> QED
    BY <1>4, <2>1, MildStep DEF RegisterTheirs, ContractInv, TypeOK, Contract
<1>5. ASSUME NEW s \in OurShard, RegisterOurs(s)
      PROVE  ContractInv' /\ mem'.status = mem.status
  <2>1. TypeOK' /\ Persisted'
    BY <1>5, ContractUpdates DEF ContractInv, TypeOK, Persisted, RegisterOurs, Save
  <2> QED
    BY <1>5, <2>1, MildStep DEF RegisterOurs, ContractInv, TypeOK, Contract
<1>6. CASE IssueByHand
  <2>1. cycle' \in [pc : {"idle", "challenge", "ping"}, id : 0..issued']
    BY <1>6, ContractsAssumption DEF IssueByHand, Issue, ContractInv, TypeOK
  <2> QED
    BY <1>6, <2>1, IssueStep DEF IssueByHand
<1>7. ASSUME NEW id \in pending, ResolveByHand(id)
      PROVE  ContractInv' /\ (mem.status = "evicted" => mem'.status = "evicted")
  <2>1. id \in 0..issued /\ cycle' \in [pc : {"idle", "challenge", "ping"}, id : 0..issued]
    BY <1>7, ContractsAssumption DEF ContractInv, TypeOK, ResolveByHand
  <2> QED
    BY <1>7, <2>1, ResolveStep DEF ResolveByHand
<1>8. CASE StartTurn
  <2>1. cycle' \in [pc : {"idle", "challenge", "ping"}, id : 0..issued']
    BY <1>8, ContractsAssumption DEF StartTurn, Issue, ContractInv, TypeOK
  <2> QED
    BY <1>8, <2>1, IssueStep DEF StartTurn
<1>9. CASE TakeAnswer
  <2>1. /\ cycle.id \in 0..issued
        /\ cycle' \in [pc : {"idle", "challenge", "ping"}, id : 0..issued]
    BY <1>9 DEF TakeAnswer, ContractInv, TypeOK
  <2> QED
    BY <1>9, <2>1, ResolveStep DEF TakeAnswer
<1>10. CASE AbortTurn
  <2>1. TypeOK' /\ Persisted'
    BY <1>10, ContractsAssumption DEF ContractInv, TypeOK, Persisted, AbortTurn, Idle
  <2> QED
    BY <1>10, <2>1, MildStep DEF AbortTurn
<1>11. CASE FinishTurn
  <2> PICK reachable \in {0, 1} :
          mem' = Enforced([mem EXCEPT !.checks = @ + 1, !.reached = @ + reachable])
    BY <1>11 DEF FinishTurn
  <2> DEFINE c == [mem EXCEPT !.checks = @ + 1, !.reached = @ + reachable]
  <2>1. /\ c \in Contract
        /\ c.status = mem.status
        /\ Answered(c) = Answered(mem)
        /\ Honest(c) => Honest(mem) /\ c.violations = mem.violations
    <3>1. c \in Contract
      BY ContractUpdates DEF ContractInv, TypeOK
    <3> QED
      BY <3>1 DEF ContractInv, TypeOK, Contract, Answered, Honest
  <2>2. mem' = Enforced(c) /\ Save(mem') /\ Blame("cycle", mem')
    BY <1>11 DEF FinishTurn
  <2> HIDE DEF c
  <2>3. /\ mem' \in Contract
        /\ Answered(mem') = Answered(mem)
        /\ evictedBy' \in {"nobody", "operator", "hand", "cycle"}
        /\ owed' \subseteq OurShard
        /\ Blamed' /\ Standing'
        /\ mem.status = "evicted" => mem'.status = "evicted"
    BY <2>1, <2>2, EnforceStep
  <2>4. TypeOK'
    BY <1>11, <2>2, <2>3, ContractsAssumption
       DEF ContractInv, TypeOK, Save, FinishTurn, Idle, MustDrop
  <2> QED
    BY <1>11, <2>2, <2>3, <2>4 DEF ContractInv, Persisted, Save, CountedOnce, FinishTurn
<1>12. CASE DropShards
  <2>1. TypeOK' /\ Persisted'
    <3>1. [mem EXCEPT !.ours = @ \ files] \in Contract
      BY ContractUpdates DEF ContractInv, TypeOK
    <3> QED
      BY <1>12, <3>1 DEF ContractInv, TypeOK, Persisted, DropShards, Save
  <2> QED
    BY <1>12, <2>1, MildStep DEF DropShards, ContractInv, TypeOK, Contract
<1>13. CASE Crash
  <2>1. mem' = mem
    BY <1>13 DEF Crash, ContractInv, Persisted
  <2>2. TypeOK' /\ Persisted'
    <3>1. crashes' \in 0..MaxCrash /\ cycle' = [pc |-> "idle", id |-> 0]
      BY <1>13, ContractsAssumption DEF ContractInv, TypeOK, Crash, Idle
    <3>2. cycle' \in [pc : {"idle", "challenge", "ping"}, id : 0..issued']
      BY <1>13, <3>1, ContractsAssumption DEF ContractInv, TypeOK, Crash
    <3> QED
      BY <1>13, <2>1, <3>1, <3>2 DEF ContractInv, TypeOK, Persisted, Crash
  <2>3. CountedOnce'
    <3>1. Cardinality(pending') = 0
      BY <1>13, FS_EmptySet DEF Crash
    <3> QED
      BY <1>13, <2>1, <3>1, PendingFinite
         DEF Crash, ContractInv, TypeOK, CountedOnce, Answered, Contract
  <2> QED
    BY <1>13, <2>1, <2>2, <2>3 DEF ContractInv, Blamed, Standing, Crash
<1>14. CASE UNCHANGED vars
  BY <1>14, MildStep DEF vars, ContractInv, TypeOK, Persisted
<1> QED
  BY <1>1, <1>2, <1>3, <1>4, <1>5, <1>6, <1>7, <1>8, <1>9, <1>10, <1>11, <1>12, <1>13,
     <1>14 DEF Next, RemoveContract, IssueByHand, StartTurn, AbortTurn

(* The types, and what a restart reads back: memory and disk agree for     *)
(* every contract that has a file (contracts.py:384-402).                  *)
THEOREM ContractsTypeCorrect == Spec => []TypeOK
<1>1. ContractInv => TypeOK
  BY DEF ContractInv
<1> QED
  BY ContractInit, ContractStep, <1>1, PTL DEF Spec

(* The contract in memory and its file agree through every request, cycle  *)
(* and crash.                                                              *)
THEOREM ContractPersisted == Spec => []Persisted
<1>1. ContractInv => Persisted
  BY DEF ContractInv
<1> QED
  BY ContractInit, ContractStep, <1>1, PTL DEF Spec

(* A peer that never failed a challenge is not suspended or evicted by the *)
(* scoring, for any latency, reachability, tier changes and ledger.        *)
THEOREM HonestPeerIsKept == Spec => []HonestPeerKept
<1>1. ContractInv => HonestPeerKept
  BY DEF ContractInv, Standing, Honest, GoodStanding, HonestPeerKept
<1> QED
  BY ContractInit, ContractStep, <1>1, PTL DEF Spec

(* No challenge is counted twice, however requests and the cycle interleave*)
(* and whatever a crash forgets.                                           *)
THEOREM ChallengesCountOnce == Spec => []CountedOnce
<1>1. ContractInv => CountedOnce
  BY DEF ContractInv
<1> QED
  BY ContractInit, ContractStep, <1>1, PTL DEF Spec

(* EVICTED is terminal (contracts.py:307).                                 *)
THEOREM EvictionIsTerminal == Spec => EvictedIsTerminal
<1>1. ContractInv /\ [Next]_vars =>
        [mem.status = "evicted" /\ known /\ known' => mem'.status = "evicted"]_vars
  BY ContractStep
<1> QED
  BY ContractInit, ContractStep, <1>1, PTL DEF Spec, EvictedIsTerminal

-----------------------------------------------------------------------------
(* What an eviction collects                                               *)

(* The shards owed at an eviction that still have files are shards the     *)
(* contract lists, so a drop finds them; and once whoever evicted the peer *)
(* has come to its end, none of them has a file.                           *)
Collected ==
    crashes = 0 /\ known /\ ~drop
    /\ (evictedBy = "operator" \/ (evictedBy = "cycle" /\ cycle.pc # "ping"))
    => owed \cap files = {}

CollectInv == owed \cap files \subseteq mem.ours /\ Collected

LEMMA CollectInit == Init => CollectInv
  BY DEF Init, CollectInv, Collected

LEMMA EnforcedOurs ==
    ASSUME NEW c \in Contract
    PROVE  Enforced(c).ours = c.ours
  BY DEF Enforced, Contract

LEMMA CountedOurs ==
    ASSUME TypeOK, NEW outcome \in {"passed", "failed", "timeout"}, NEW latency
    PROVE  Counted(outcome, latency).ours = mem.ours
  BY DEF Counted, TypeOK, Contract

(* Whatever drops nothing and evicts nobody.                               *)
LEMMA CollectFrame ==
    ASSUME CollectInv, UNCHANGED <<drop, files, evictedBy, owed, crashes>>,
           mem'.ours = mem.ours, known' => known,
           cycle'.pc = "ping" \/ cycle.pc # "ping"
    PROVE  CollectInv'
  BY DEF CollectInv, Collected

(* A resolved challenge: an eviction by hand is not promised a drop, and   *)
(* one by the cycle is still to be followed by the ping and the drop.      *)
LEMMA CollectResolve ==
    ASSUME ContractInv, CollectInv, NEW id \in 0..issued, NEW who \in {"hand", "cycle"},
           NEW outcome \in {"passed", "failed", "timeout"},
           NEW latency \in NextLatency,
           Resolve(id, outcome, latency, who),
           UNCHANGED <<known, drop, files, crashes>>,
           cycle' = cycle \/ cycle'.pc = "ping",
           who = "cycle" => cycle'.pc = "ping"
    PROVE  CollectInv'
<1>1. CASE id \in pending /\ known
  <2> DEFINE c == Counted(outcome, latency)
  <2>1. latency \in 0..100
    BY ContractsAssumption DEF NextLatency, ContractInv, TypeOK, Contract
  <2>2. c \in Contract /\ c.ours = mem.ours
    BY <2>1, CountedType, CountedOurs DEF ContractInv
  <2>3. mem' = Enforced(c) /\ Blame(who, mem')
    BY <1>1 DEF Resolve
  <2> HIDE DEF c
  <2>4. mem'.ours = mem.ours
    BY <2>2, <2>3, EnforcedOurs
  <2>5. CASE evictedBy' = who /\ owed' = mem.ours
    BY <2>4, <2>5 DEF CollectInv, Collected
  <2>6. CASE UNCHANGED <<evictedBy, owed>>
    BY <2>4, <2>6 DEF CollectInv, Collected
  <2> QED
    BY <2>3, <2>5, <2>6 DEF Blame
<1>2. CASE ~(id \in pending /\ known)
  BY <1>2 DEF Resolve, CollectInv, Collected
<1> QED
  BY <1>1, <1>2

LEMMA CollectStep == ContractInv /\ CollectInv /\ [Next]_vars => CollectInv'
<1> SUFFICES ASSUME ContractInv, CollectInv, [Next]_vars PROVE CollectInv'
  OBVIOUS
<1> USE DEF store, history
<1>1. ASSUME NEW tier \in TierChoice, UpdateTier(tier) PROVE CollectInv'
  <2>1. mem'.ours = mem.ours
    BY <1>1 DEF UpdateTier, ContractInv, TypeOK, Contract
  <2> QED
    BY <1>1, <2>1, CollectFrame DEF UpdateTier
<1>2. CASE EvictPeer
  <2>1. mem'.ours = mem.ours /\ drop' /\ files' = files
    BY <1>2 DEF EvictPeer, ContractInv, TypeOK, Contract
  <2>2. owed' = mem.ours \/ owed' = owed
    BY <1>2 DEF EvictPeer, Blame
  <2> QED
    BY <2>1, <2>2 DEF CollectInv, Collected
<1>3. CASE RemoveContract
  BY <1>3, CollectFrame DEF RemoveContract
<1>4. ASSUME NEW s \in TheirShard, RegisterTheirs(s) PROVE CollectInv'
  <2>1. mem'.ours = mem.ours
    BY <1>4 DEF RegisterTheirs, ContractInv, TypeOK, Contract
  <2> QED
    BY <1>4, <2>1, CollectFrame DEF RegisterTheirs
<1>5. ASSUME NEW s \in OurShard, RegisterOurs(s) PROVE CollectInv'
  <2>1. /\ mem'.ours = mem.ours \cup {s}
        /\ files' = files \cup {s}
        /\ s \notin owed
        /\ UNCHANGED <<known, cycle, drop, evictedBy, owed, crashes>>
    BY <1>5 DEF RegisterOurs, ContractInv, TypeOK, Contract
  <2>2. owed' \cap files' = owed \cap files
    BY <2>1
  <2> QED
    BY <2>1, <2>2 DEF CollectInv, Collected
<1>6. CASE IssueByHand
  BY <1>6, CollectFrame DEF IssueByHand
<1>7. ASSUME NEW id \in pending, ResolveByHand(id) PROVE CollectInv'
  <2>1. id \in 0..issued
    BY <1>7, ContractsAssumption DEF ContractInv, TypeOK
  <2> QED
    BY <1>7, <2>1, CollectResolve DEF ResolveByHand
<1>8. CASE StartTurn
  BY <1>8, CollectFrame DEF StartTurn
<1>9. CASE TakeAnswer
  <2>1. cycle.id \in 0..issued /\ cycle'.pc = "ping"
    BY <1>9 DEF TakeAnswer, ContractInv, TypeOK
  <2>2. PICK outcome \in {"passed", "failed", "timeout"}, latency \in NextLatency :
           Resolve(cycle.id, outcome, latency, "cycle")
    BY <1>9 DEF TakeAnswer
  <2> QED
    BY <1>9, <2>1, <2>2, CollectResolve DEF TakeAnswer
<1>10. CASE AbortTurn
  BY <1>10, CollectFrame DEF AbortTurn
<1>11. CASE FinishTurn
  <2> PICK reachable \in {0, 1} :
          mem' = Enforced([mem EXCEPT !.checks = @ + 1, !.reached = @ + reachable])
    BY <1>11 DEF FinishTurn
  <2> DEFINE c == [mem EXCEPT !.checks = @ + 1, !.reached = @ + reachable]
  <2>1. c \in Contract /\ c.ours = mem.ours
    <3>1. c \in Contract
      BY ContractUpdates DEF ContractInv, TypeOK
    <3> QED
      BY <3>1 DEF ContractInv, TypeOK, Contract
  <2>2. mem'.ours = mem.ours
    <3> HIDE DEF c
    <3>1. mem' = Enforced(c)
      BY DEF c
    <3> QED
      BY <2>1, <3>1, EnforcedOurs
  <2>3. /\ Blame("cycle", mem')
        /\ drop' = (known /\ mem'.status = "evicted")
        /\ UNCHANGED <<known, files, crashes>>
    BY <1>11 DEF FinishTurn, MustDrop
  <2>4. evictedBy' # "nobody" => mem'.status = "evicted"
    <3>1. Blamed'
      BY <1>11, ContractStep DEF Next, ContractInv
    <3> QED
      BY <3>1 DEF Blamed
  <2>5. known' /\ evictedBy' # "nobody" => drop'
    BY <2>3, <2>4
  <2>6. owed' = mem.ours \/ owed' = owed
    BY <2>3 DEF Blame
  <2>7. owed' \cap files' \subseteq mem'.ours
    BY <2>2, <2>3, <2>6 DEF CollectInv
  <2> QED
    BY <2>5, <2>7 DEF CollectInv, Collected
<1>12. CASE DropShards
  <2>1. files' = files \ mem.ours /\ owed' = owed
    BY <1>12 DEF DropShards
  <2>2. owed' \cap files' = {}
    BY <2>1 DEF CollectInv
  <2> QED
    BY <2>2 DEF CollectInv, Collected
<1>13. CASE Crash
  <2>1. mem' = mem
    BY <1>13 DEF Crash, ContractInv, Persisted
  <2>2. crashes' # 0
    BY <1>13 DEF Crash, ContractInv, TypeOK
  <2> QED
    BY <1>13, <2>1, <2>2 DEF Crash, CollectInv, Collected
<1>14. CASE UNCHANGED vars
  BY <1>14 DEF vars, CollectInv, Collected
<1> QED
  BY <1>1, <1>2, <1>3, <1>4, <1>5, <1>6, <1>7, <1>8, <1>9, <1>10, <1>11, <1>12, <1>13,
     <1>14 DEF Next

(* An evicted peer's shards are gone (contracts.py:10) once the operator's *)
(* request or the cycle that evicted it has run to its end, whatever was   *)
(* registered, resolved or moved between tiers while the drop was still to *)
(* come, unless the node crashed or the contract was removed.              *)
THEOREM EvictionIsCollected == Spec => []EvictionCollects
<1>1. CollectInv => EvictionCollects
  BY DEF CollectInv, Collected, EvictionCollects
<1> QED
  BY ContractInit, ContractStep, CollectInit, CollectStep, <1>1, PTL DEF Spec

=============================================================================
