----------------------------- MODULE Placement ------------------------------
(***************************************************************************)
(* plan_placement of api/replication.py as the loop it is: one turn for    *)
(* each shard of the chunk list, walking the ring of peers from a cursor   *)
(* to the first one with room left.                                        *)
(***************************************************************************)
EXTENDS Shards

NothingPlaced == [i \in Shard |-> Here]

(* What the loop carries from one shard to the next: the placement so far, *)
(* the room left at each position of urls and the position the next walk   *)
(* starts from.                                                            *)
LoopStart(urls) ==
    [placement |-> NothingPlaced,
     capacity |-> [k \in DOMAIN urls |-> ParityShards],
     cursor |-> 0]

(* The position `offset` places after the cursor.                          *)
Candidate(urls, walk, offset) == ((walk.cursor + offset) % Len(urls)) + 1

(* Mutant: the peer under the cursor is taken whether it has room or not.  *)
HasRoomAlways(urls, walk, offset) == offset \in 0..(Len(urls) - 1)

HasRoom(urls, walk, offset) ==
    /\ offset \in 0..(Len(urls) - 1)
    /\ walk.capacity[Candidate(urls, walk, offset)] > 0

(* The walk stops at the first peer with room.                             *)
FirstWithRoom(urls, walk) ==
    CHOOSE offset \in 0..(Len(urls) - 1) :
        /\ HasRoom(urls, walk, offset)
        /\ \A o \in 0..(offset - 1) : ~HasRoom(urls, walk, o)

(* Mutant: the next walk starts at the peer just used, not past it.        *)
AssignSticky(urls, walk, i) ==
    LET k == Candidate(urls, walk, FirstWithRoom(urls, walk))
    IN  [placement |-> [walk.placement EXCEPT ![i] = urls[k]],
         capacity |-> [walk.capacity EXCEPT ![k] = @ - 1],
         cursor |-> k - 1]

Assign(urls, walk, i) ==
    LET k == Candidate(urls, walk, FirstWithRoom(urls, walk))
    IN  [placement |-> [walk.placement EXCEPT ![i] = urls[k]],
         capacity |-> [walk.capacity EXCEPT ![k] = @ - 1],
         cursor |-> k % Len(urls)]

(* One turn of the loop; the shard stays here when the walk comes round    *)
(* without finding room.                                                   *)
Turn(urls, walk, i) ==
    IF \E offset \in 0..(Len(urls) - 1) : HasRoom(urls, walk, offset)
    THEN Assign(urls, walk, i)
    ELSE walk

(* The loop after each number of shards.                                   *)
LoopOf(urls) ==
    LET state[done \in 0..Total] ==
            IF done = 0 THEN LoopStart(urls)
            ELSE Turn(urls, state[done - 1], done - 1)
    IN  state

PlanPlacement(urls) ==
    IF urls = <<>> \/ ParityShards = 0 THEN NothingPlaced
    ELSE LoopOf(urls)[Total].placement

=============================================================================
