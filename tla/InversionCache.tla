--------------------------- MODULE InversionCache ---------------------------
(***************************************************************************)
(* What the cache of inverted matrices promises to the calls that rebuild  *)
(* shards (reedsolomon/inversion_tree.go): a partial map from the rows     *)
(* that are missing to the matrix that decodes without them.  A matrix     *)
(* stands for the sequence of rows of the coding matrix it inverts.  An    *)
(* entry is only ever added, and always the right one; an encoder without  *)
(* a cache never has an entry.                                             *)
(***************************************************************************)
EXTENDS Integers, Sequences, FiniteSets

VARIABLES cache,      \* from sequences of missing rows to sequences of rows
          geometry    \* the encoder: [dataShards, shards, caching], fixed

rows == 0..(geometry.shards - 1)

(* The first rows, as many as there are data shards, that are not missing. *)
firstRows(missing) ==
  [k \in 1..geometry.dataShards |->
     CHOOSE r \in rows \ missing :
        Cardinality({q \in rows \ missing : q < r}) = k - 1]

(* The rows that are missing, in ascending order; any others are there.    *)
isKey(key) ==
  /\ Len(key) \in 1..(geometry.shards - geometry.dataShards)
  /\ \A k \in 1..Len(key) : key[k] \in rows
  /\ \A k \in 2..Len(key) : key[k - 1] < key[k]

Init ==
  cache = IF geometry.caching
          THEN [key \in {<<>>} |-> [k \in 1..geometry.dataShards |-> k - 1]] ELSE <<>>

(* One more key, with the matrix that belongs to it.                       *)
Insert ==
  /\ geometry.caching
  /\ \E key \in DOMAIN cache' \ DOMAIN cache :
        /\ isKey(key)
        /\ cache' = [other \in DOMAIN cache \cup {key} |->
             IF other = key THEN firstRows({key[k] : k \in 1..Len(key)})
             ELSE cache[other]]

Next == Insert /\ UNCHANGED geometry

Spec == Init /\ [][Next]_<<cache, geometry>>
=============================================================================
