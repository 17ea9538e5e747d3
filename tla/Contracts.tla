----------------------------- MODULE Contracts ------------------------------
(***************************************************************************)
(* One peer contract of api/contracts.py: its status machine, its proof-   *)
(* of-storage challenges, the enforcement cycle that keeps a reference to  *)
(* the contract across its awaits, and the requests that change the        *)
(* contract meanwhile.                                                     *)
(*                                                                         *)
(* The manager's dictionary and the cycle refer to the same Python object: *)
(* `mem` is that object and `known` says whether the dictionary has it.    *)
(***************************************************************************)
EXTENDS Integers, FiniteSets

CONSTANTS
    TheirShard,     \* our shards the peer may hold
    OurShard,       \* the peer's shards we may hold
    TierChoice,     \* the tiers contracts are made with and moved between
    LatencyScore,   \* values of the latency component, in percent
    MaxIssued,      \* bound: challenges issued
    MaxChecks,      \* bound: uptime checks
    MaxCrash,       \* bound: crashes of the node
    Events          \* the requests and failures that may happen

Tier == {"hot", "warm", "cold"}
EventName == {"tier", "evict", "remove", "byhand", "crash", "timeout", "reset",
              "unreachable"}

ASSUME ContractsAssumption ==
    /\ TierChoice \subseteq Tier
    /\ LatencyScore \subseteq 0..100
    /\ IsFiniteSet(TheirShard)
    /\ IsFiniteSet(OurShard)
    /\ MaxIssued \in Nat
    /\ MaxChecks \in Nat
    /\ MaxCrash \in Nat
    /\ Events \subseteq EventName

(* TIER_CONFIGS.  Scores are in ten-thousandths, as compute_qos_score      *)
(* rounds them, and the storage multiplier is in halves.                   *)
ProbationAt == [hot |-> 8000, warm |-> 7000, cold |-> 6000]
EvictAt == [hot |-> 3000, warm |-> 3000, cold |-> 2000]
MaxViolations == [hot |-> 3, warm |-> 5, cold |-> 10]
Multiplier == [hot |-> 4, warm |-> 2, cold |-> 1]

Status == {"active", "probation", "suspended", "evicted"}

(* PeerContract with its QoSMetrics.  Shards have size one.                *)
Contract == [tier : Tier, status : Status, violations : Nat,
             passed : Nat, failed : Nat, timeouts : Nat,
             checks : Nat, reached : Nat, latency : 0..100,
             theirs : SUBSET TheirShard, ours : SUBSET OurShard,
             contributed : Nat, consumed : Nat]

NewContract(tier) ==
    [tier |-> tier, status |-> "active", violations |-> 0,
     passed |-> 0, failed |-> 0, timeouts |-> 0,
     checks |-> 0, reached |-> 0, latency |-> 100,
     theirs |-> {}, ours |-> {}, contributed |-> 0, consumed |-> 0]

VARIABLES
    mem,       \* the contract object
    known,     \* _contracts has it
    disk,      \* contracts/<id>.json
    saved,     \* that file exists
    pending,   \* _pending_challenges
    issued,    \* challenges issued so far; they are numbered
    cycle,     \* where the enforcement cycle is with this contract
    drop,      \* a handler is about to execute the reciprocal eviction
    files,     \* the peer's shards on our disk
    evictedBy, \* history: who moved the contract to "evicted"
    owed,      \* history: the peer's shards we held at that moment
    crashes

store == <<mem, known, disk, saved>>
history == <<evictedBy, owed, crashes>>
vars == <<mem, known, disk, saved, pending, issued, cycle, drop, files,
          evictedBy, owed, crashes>>

-----------------------------------------------------------------------------
(* compute_qos_score and enforce_contract                                  *)

Answered(c) == c.passed + c.failed + c.timeouts

(* The four components of the score as fractions with the denominators     *)
(* Answered, checks, 100 and Required; each is 1 while its denominator     *)
(* is 0.                                                                   *)
Required(c) == c.consumed * Multiplier[c.tier]
OrOne(x) == IF x = 0 THEN 1 ELSE x

(* Mutant: without an answer yet, the pass rate is 0.                      *)
PassedNoDefault(c) == c.passed

Passed(c) == IF Answered(c) = 0 THEN 1 ELSE c.passed
Reached(c) == IF c.checks = 0 THEN 1 ELSE c.reached
Contributed(c) == IF Required(c) = 0 \/ 2 * c.contributed >= Required(c)
                  THEN OrOne(Required(c)) ELSE 2 * c.contributed

(* Their weighted sum, rounded to the nearest ten-thousandth.              *)
Score(c) ==
    LET t == OrOne(Answered(c))
        u == OrOne(c.checks)
        r == OrOne(Required(c))
        sum == 4000 * Passed(c) * u * r + 2500 * Reached(c) * t * r
               + 20 * c.latency * t * u * r + 1500 * Contributed(c) * t * u
        whole == t * u * r
    IN  (2 * sum + whole) \div (2 * whole)

Recovered(c) == Score(c) >= ProbationAt[c.tier]
Hopeless(c) == Score(c) < EvictAt[c.tier]

(* Mutant: a score that has recovered revives every contract.              *)
EnforcedReviving(c) ==
    CASE c.status = "active" /\ ~Recovered(c) ->
            [c EXCEPT !.status = "probation"]
      [] c.status = "probation" /\ Recovered(c) ->
            [c EXCEPT !.status = "active", !.violations = 0]
      [] c.status = "probation" /\ ~Recovered(c) /\ Hopeless(c) ->
            [c EXCEPT !.status = "suspended"]
      [] c.status \in {"suspended", "evicted"} /\ Recovered(c) ->
            [c EXCEPT !.status = "probation"]
      [] c.status = "suspended" /\ Hopeless(c) ->
            [c EXCEPT !.status = "evicted"]
      [] OTHER -> c

Enforced(c) ==
    CASE c.status = "active" /\ ~Recovered(c) ->
            [c EXCEPT !.status = "probation"]
      [] c.status = "probation" /\ Recovered(c) ->
            [c EXCEPT !.status = "active", !.violations = 0]
      [] c.status = "probation" /\ ~Recovered(c)
            /\ (Hopeless(c) \/ c.violations >= MaxViolations[c.tier]) ->
            [c EXCEPT !.status = "suspended"]
      [] c.status = "suspended" /\ Recovered(c) ->
            [c EXCEPT !.status = "probation"]
      [] c.status = "suspended" /\ Hopeless(c) ->
            [c EXCEPT !.status = "evicted"]
      [] OTHER -> c

-----------------------------------------------------------------------------

Idle == [pc |-> "idle", id |-> 0]

(* The contract as create_contract leaves it.                              *)
Init ==
    /\ \E tier \in TierChoice : mem = NewContract(tier)
    /\ known = TRUE
    /\ disk = mem
    /\ saved = TRUE
    /\ pending = {}
    /\ issued = 0
    /\ cycle = Idle
    /\ drop = FALSE
    /\ files = {}
    /\ evictedBy = "nobody"
    /\ owed = {}
    /\ crashes = 0

(* A handler runs between two awaits of the others.                        *)
OnLoop == ~drop

(* Mutant: the contract is written back only on shutdown.                  *)
SaveLater(c) == UNCHANGED <<disk, saved>>

Save(c) == disk' = c /\ saved' = TRUE

(* Bookkeeping of the history variables when the contract becomes c.       *)
Blame(who, c) ==
    IF mem.status # "evicted" /\ c.status = "evicted"
    THEN evictedBy' = who /\ owed' = mem.ours
    ELSE UNCHANGED <<evictedBy, owed>>

(* The average response time against the tier's deadline: what an answer,  *)
(* or another tier, may make of it.                                        *)
NextLatency == LatencyScore \cup {mem.latency}

UpdateTier(tier) ==
    /\ "tier" \in Events
    /\ OnLoop
    /\ known
    /\ \E latency \in NextLatency :
          /\ Answered(mem) = 0 => latency = mem.latency
          /\ mem' = [mem EXCEPT !.tier = tier, !.latency = latency]
    /\ Save(mem')
    /\ UNCHANGED <<known, pending, issued, cycle, drop, files, history>>

(* evict_peer: retire the contract, then drop the peer's shards.           *)
EvictPeer ==
    /\ "evict" \in Events
    /\ OnLoop
    /\ known
    /\ mem' = [mem EXCEPT !.status = "evicted"]
    /\ Save(mem')
    /\ Blame("operator", mem')
    /\ drop' = TRUE
    /\ UNCHANGED <<known, pending, issued, cycle, files, crashes>>

RemoveContract ==
    /\ "remove" \in Events
    /\ OnLoop
    /\ known
    /\ known' = FALSE
    /\ saved' = FALSE
    /\ UNCHANGED <<mem, disk, pending, issued, cycle, drop, files, history>>

RegisterTheirs(s) ==
    /\ OnLoop
    /\ known
    /\ s \notin mem.theirs
    /\ mem' = [mem EXCEPT !.theirs = @ \cup {s}, !.consumed = @ + 1]
    /\ Save(mem')
    /\ UNCHANGED <<known, pending, issued, cycle, drop, files, history>>

(* Registered once the peer has stored the shard here.  Bound: as many     *)
(* registrations as there are shards; an id dropped is not used again.     *)
RegisterOurs(s) ==
    /\ OnLoop
    /\ known
    /\ s \notin mem.ours \cup files \cup owed
    /\ mem.contributed < Cardinality(OurShard)
    /\ mem' = [mem EXCEPT !.ours = @ \cup {s}, !.contributed = @ + 1]
    /\ Save(mem')
    /\ files' = files \cup {s}
    /\ UNCHANGED <<known, pending, issued, cycle, drop, history>>

-----------------------------------------------------------------------------
(* Challenges                                                              *)

(* issue_challenge: the challenge is recorded and is pending.              *)
Issue ==
    /\ issued < MaxIssued
    /\ issued' = issued + 1
    /\ pending' = pending \cup {issued'}
    /\ Save(mem)

(* Mutant: a passed challenge forgives a violation.                        *)
CountedForgiving(outcome, latency) ==
    CASE outcome = "passed" -> [mem EXCEPT !.latency = latency, !.passed = @ + 1,
                                           !.violations = @ - 1]
      [] outcome = "failed" -> [mem EXCEPT !.latency = latency, !.failed = @ + 1]
      [] OTHER              -> [mem EXCEPT !.latency = latency, !.timeouts = @ + 1]

(* update_qos_after_challenge and the count of violations.                 *)
Counted(outcome, latency) ==
    CASE outcome = "passed"  -> [mem EXCEPT !.latency = latency, !.passed = @ + 1]
      [] outcome = "failed"  -> [mem EXCEPT !.latency = latency, !.failed = @ + 1,
                                            !.violations = @ + 1]
      [] outcome = "timeout" -> [mem EXCEPT !.latency = latency, !.timeouts = @ + 1,
                                            !.violations = @ + 1]

(* Mutant: the challenge stays pending.                                    *)
PopNever(id) == pending' = pending

Pop(id) == pending' = pending \ {id}

(* resolve_challenge: a challenge that is no longer pending, or whose      *)
(* contract was removed, counts for nothing.                               *)
Resolve(id, outcome, latency, who) ==
    /\ Pop(id)
    /\ IF id \in pending /\ known
       THEN /\ mem' = Enforced(Counted(outcome, latency))
            /\ Save(mem')
            /\ Blame(who, mem')
       ELSE UNCHANGED <<mem, disk, saved, evictedBy, owed>>

(* The routes to issue and to resolve a challenge by hand.                 *)
IssueByHand ==
    /\ "byhand" \in Events
    /\ OnLoop
    /\ known
    /\ Issue
    /\ UNCHANGED <<mem, known, cycle, drop, files, history>>

ResolveByHand(id) ==
    /\ "byhand" \in Events
    /\ OnLoop
    /\ id \in pending
    /\ \E outcome \in {"passed", "failed", "timeout"}, latency \in NextLatency :
          Resolve(id, outcome, latency, "hand")
    /\ UNCHANGED <<known, issued, cycle, drop, files, crashes>>

-----------------------------------------------------------------------------
(* _run_enforcement_cycle for this contract                                *)

(* The contract's turn, when it is due and the peer holds a shard we have  *)
(* a copy of: a challenge goes out.                                        *)
StartTurn ==
    /\ OnLoop
    /\ cycle.pc = "idle"
    /\ known
    /\ mem.status # "evicted"
    /\ mem.theirs # {}
    /\ mem.checks < MaxChecks
    /\ Issue
    /\ cycle' = [pc |-> "challenge", id |-> issued']
    /\ UNCHANGED <<mem, known, drop, files, history>>

(* The answer, or the lack of one.                                         *)
TakeAnswer ==
    /\ OnLoop
    /\ cycle.pc = "challenge"
    /\ \E outcome \in {"passed", "failed"} \cup ({"timeout"} \cap Events),
          latency \in NextLatency :
          Resolve(cycle.id, outcome, latency, "cycle")
    /\ cycle' = [cycle EXCEPT !.pc = "ping"]
    /\ UNCHANGED <<known, issued, drop, files, crashes>>

(* Any other exception, such as a connection reset or an answer that is    *)
(* not JSON, ends the cycle: the challenge stays pending and nothing is    *)
(* held against the peer.                                                  *)
AbortTurn ==
    /\ "reset" \in Events
    /\ OnLoop
    /\ cycle.pc = "challenge"
    /\ cycle' = Idle
    /\ UNCHANGED <<store, pending, issued, drop, files, history>>

(* Mutant: only the enforcement that evicts drops the peer's shards.       *)
MustDropOnTransition(c) == mem.status # "evicted" /\ c.status = "evicted"

MustDrop(c) == c.status = "evicted"

(* The uptime check and the second enforcement.  The contract is saved     *)
(* whether or not it still exists; get_shards_to_drop looks it up again.   *)
FinishTurn ==
    /\ OnLoop
    /\ cycle.pc = "ping"
    /\ \E reachable \in {1} \cup (IF "unreachable" \in Events THEN {0} ELSE {}) :
          mem' = Enforced([mem EXCEPT !.checks = @ + 1, !.reached = @ + reachable])
    /\ Save(mem')
    /\ Blame("cycle", mem')
    /\ drop' = (known /\ MustDrop(mem'))
    /\ cycle' = Idle
    /\ UNCHANGED <<known, pending, issued, files, crashes>>

(* execute_reciprocal_eviction: unlink the peer's shards.  What the ledger *)
(* counts as contributed does not shrink.                                  *)
DropShards ==
    /\ drop
    /\ files' = files \ mem.ours
    /\ IF mem.ours = {}
       THEN UNCHANGED <<mem, disk, saved>>
       ELSE mem' = [mem EXCEPT !.ours = @ \ files] /\ Save(mem')
    /\ drop' = FALSE
    /\ UNCHANGED <<known, pending, issued, cycle, history>>

(* A restarted node reads the contracts back; challenges are forgotten.    *)
Crash ==
    /\ "crash" \in Events
    /\ crashes < MaxCrash
    /\ crashes' = crashes + 1
    /\ mem' = IF saved THEN disk ELSE mem
    /\ known' = saved
    /\ pending' = {}
    /\ cycle' = Idle
    /\ drop' = FALSE
    /\ UNCHANGED <<disk, saved, issued, files, evictedBy, owed>>

-----------------------------------------------------------------------------

Next ==
    \/ \E tier \in TierChoice : UpdateTier(tier)
    \/ EvictPeer \/ RemoveContract
    \/ \E s \in TheirShard : RegisterTheirs(s)
    \/ \E s \in OurShard : RegisterOurs(s)
    \/ IssueByHand
    \/ \E id \in pending : ResolveByHand(id)
    \/ StartTurn \/ TakeAnswer \/ AbortTurn \/ FinishTurn
    \/ DropShards
    \/ Crash

Spec == Init /\ [][Next]_vars

-----------------------------------------------------------------------------
(* Properties                                                              *)

TypeOK ==
    /\ mem \in Contract
    /\ known \in BOOLEAN
    /\ disk \in Contract
    /\ saved \in BOOLEAN
    /\ pending \subseteq 1..issued
    /\ issued \in 0..MaxIssued
    /\ cycle \in [pc : {"idle", "challenge", "ping"}, id : 0..issued]
    /\ drop \in BOOLEAN
    /\ files \subseteq OurShard
    /\ evictedBy \in {"nobody", "operator", "hand", "cycle"}
    /\ owed \subseteq OurShard
    /\ crashes \in 0..MaxCrash

(* What a restart reads back is what the node works with, also for a       *)
(* contract the cycle saved after it was removed.                          *)
Persisted == (known => saved) /\ (saved => disk = mem)

(* A peer that never failed a challenge is at worst on probation, however  *)
(* seldom it can be pinged, however slow it is and however little we hold  *)
(* for it, unless the operator evicts it.                                  *)
HonestPeerKept ==
    mem.failed = 0 /\ mem.timeouts = 0 /\ evictedBy # "operator" =>
        mem.status \in {"active", "probation"}

(* Each challenge is held for or against the peer at most once, though the *)
(* cycle and a request may both resolve it and a crash may forget it.      *)
CountedOnce == Answered(mem) + Cardinality(pending) <= issued

(* "EVICTED is terminal" (contracts.py:307), whatever the enforcement, the *)
(* requests and a restart do.                                              *)
EvictedIsTerminal ==
    [][mem.status = "evicted" /\ known /\ known' => mem'.status = "evicted"]_vars

(* An evicted peer's shards are dropped (contracts.py:10): those we held   *)
(* when the cycle or the operator evicted it are gone once the handler is  *)
(* done, unless the node crashed on the way.                               *)
EvictionCollects ==
    /\ mem.status = "evicted" /\ evictedBy \in {"operator", "cycle"}
    /\ ~drop /\ cycle.pc = "idle" /\ crashes = 0
    /\ known
    => owed \cap files = {}

=============================================================================
