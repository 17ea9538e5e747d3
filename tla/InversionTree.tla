--------------------------- MODULE InversionTree ---------------------------
(***************************************************************************)
(* The tree of inverted matrices (reedsolomon/inversion_tree.go).  A node  *)
(* is known by the path of child indices that leads to it; it holds a      *)
(* matrix, or none where it only leads further, and a list of children.    *)
(* A matrix stands for the sequence of rows of the coding matrix that it   *)
(* inverts.  The tree of an encoder without a cache has no node at all.    *)
(***************************************************************************)
EXTENDS Integers, Sequences

nil == <<>>

newInversionTree(dataShards, parityShards) ==
  [root \in {<<>>} |-> [matrix   |-> [k \in 1..dataShards |-> k - 1],
                        children |-> dataShards + parityShards]]

(* f where it is defined, g elsewhere.                                     *)
overlay(f, g) ==
  [x \in DOMAIN f \cup DOMAIN g |-> IF x \in DOMAIN f THEN f[x] ELSE g[x]]

(* The child taken at the k-th step on the way to a key: the index relative *)
(* to the parent, the parent being one more than the index before.         *)
child(key, k) == key[k] - (IF k = 1 THEN 0 ELSE key[k - 1] + 1)

path(key, k) == [j \in 1..k |-> child(key, j)]

(* Every step of the walk so far stays within a list of children; reading  *)
(* beyond one panics.                                                      *)
walkable(tree, key) ==
  \A k \in 1..Len(key) :
     path(key, k - 1) \in DOMAIN tree =>
        child(key, k) \in 0..(tree[path(key, k - 1)].children - 1)

(* GetInvertedMatrix with its recursion: the walk stops at the first node  *)
(* that is not there.                                                      *)
GetInvertedMatrix(tree, key) ==
  IF \A k \in 0..Len(key) : path(key, k) \in DOMAIN tree
  THEN tree[path(key, Len(key))].matrix ELSE nil

(* Mutant: the nodes made on the way get the matrix too.                   *)
insertAlongTheWay(tree, key, matrix, shards) ==
  overlay([p \in {path(key, k) : k \in 1..Len(key)} |->
        [matrix |-> matrix, children |-> shards - key[Len(p)]]], tree)

(* Mutant: the nodes on the way are made anew.                             *)
insertAnew(tree, key, matrix, shards) ==
  overlay([p \in {path(key, k) : k \in 1..Len(key)} |->
        [matrix   |-> IF Len(p) = Len(key) THEN matrix ELSE nil,
         children |-> shards - key[Len(p)]]], tree)

(* InsertInvertedMatrix with its recursion: the nodes that are missing on  *)
(* the way are made without a matrix, the last one gets it.                *)
insertInvertedMatrix(tree, key, matrix, shards) ==
  overlay([p \in {path(key, k) : k \in 1..Len(key)} |->
        [matrix   |-> IF Len(p) = Len(key) THEN matrix
                      ELSE IF p \in DOMAIN tree THEN tree[p].matrix ELSE nil,
         children |-> IF p \in DOMAIN tree THEN tree[p].children
                      ELSE shards - key[Len(p)]]], tree)

(* What the tree caches: the key of every node that holds a matrix.        *)
keyOf(p) ==
  LET key[k \in 1..Len(p)] == p[k] + (IF k = 1 THEN 0 ELSE key[k - 1] + 1)
  IN  [k \in 1..Len(p) |-> key[k]]

cached(tree) ==
  LET held == {p \in DOMAIN tree : tree[p].matrix # nil}
  IN  [key \in {keyOf(p) : p \in held} |->
         tree[CHOOSE p \in held : keyOf(p) = key].matrix]
=============================================================================
