------------------------------- MODULE Shards -------------------------------
(***************************************************************************)
(* The vocabulary shared by the modules about one stored file: its         *)
(* Reed-Solomon shards, the peers that may hold them and the placement     *)
(* plan that api/replication.py computes for them.                         *)
(*                                                                         *)
(* A shard is named by its position in the file's chunk_list.  That        *)
(* position is also its numeric suffix as long as there are at most ten    *)
(* shards; with more, the list is in lexicographic order, and a plan is    *)
(* the same up to the renaming of shards.  The .size sidecar is never      *)
(* placed on a peer and is not a shard.                                    *)
(***************************************************************************)
EXTENDS Naturals, Sequences, FiniteSets

CONSTANTS
    Peer,          \* the URLs of the other nodes, one per node
    Here,          \* the placement of a shard that stays at its origin
    DataShards,    \* shards needed to reconstruct the file
    ParityShards   \* shards that may be missing

ASSUME ShardsAssumption ==
    /\ IsFiniteSet(Peer)
    /\ Here \notin Peer
    /\ DataShards \in Nat \ {0}
    /\ ParityShards \in Nat

Total == DataShards + ParityShards
Shard == 0..(Total - 1)
Site == Peer \cup {Here}
Plan == [Shard -> Site]

(* The peer lists a plan can be given: _peers is keyed by URL, so no URL   *)
(* is listed twice.                                                        *)
Ring == {urls \in UNION {[1..n -> Peer] : n \in 0..Cardinality(Peer)} :
            \A j, k \in DOMAIN urls : urls[j] = urls[k] => j = k}

(* What plan_placement returns: shards dealt round the ring until every    *)
(* peer is full, the rest kept here.                                       *)
RingPlan(urls) ==
    [i \in Shard |-> IF i < Len(urls) * ParityShards
                     THEN urls[(i % Len(urls)) + 1]
                     ELSE Here]

(* The placement rule: the shards one site is given by a plan.             *)
ShardsAt(plan, p) == {i \in Shard : plan[i] = p}
WithinParity(plan) ==
    \A p \in Peer : Cardinality(ShardsAt(plan, p)) <= ParityShards

=============================================================================
