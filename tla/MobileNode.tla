----------------------------- MODULE MobileNode -----------------------------
(***************************************************************************)
(* The embeddable node (lib/mobile/node.go) with the two programs that run *)
(* it (lib/cmd/android-node, lib/cmd/mobile-node): objects are encrypted   *)
(* shards in a directory of their own, committed by a metadata file that   *)
(* is written last.  Handlers of uploads and downloads run concurrently;   *)
(* the process may die at any step, shards may be damaged, secrets lost    *)
(* and restored, and a stop that times out leaves its handlers running     *)
(* beside the node that is opened next.                                    *)
(*                                                                         *)
(* Left out: the removal of a file that fails (its error is ignored), and  *)
(* power loss of what is not synced.                                       *)
(***************************************************************************)
EXTENDS Integers, FiniteSets, FiniteSetsExt

CONSTANTS
  Handlers,                    \* HTTP handlers that may run at a time
  Uploads,                     \* token, name, folder and content of an upload
  Objects,                     \* the UUIDs that may be drawn
  Nodes,                       \* bound: Node values in the process's memory,
                               \* 1 .. how many
  DataShards, ParityShards,    \* 8 and 4 in the code
  Length(_),                   \* bytes of an upload
  Overhead,                    \* nonce and tag of a sealed shard: 28
  MetaSize, Margin,            \* bytes of metadata.json; 8192
  Quota,
  MaxFaults                    \* bound: objects damaged, secrets lost, syncs
                               \* that fail and stops that time out

none == "none"

ASSUME ShardsAssumption == DataShards \in Nat \ {0} /\ ParityShards \in Nat
ASSUME NamesAssumption == none \notin Uploads \cup Handlers

VARIABLES
  key,        \* encryption.key on the disk: its version, 0 for none
  made,       \* versions of the key made so far, the last in the backup
  identity,   \* whether node_id is on the disk
  objects,    \* directories under objects/
  shard,      \* the shard files of each: intact ones
  bad,        \* and the ones damaged since
  meta,       \* metadata.json: the upload it commits, or none
  temp,       \* bytes in temporary files
  sealed,     \* the version of the key the object's shards are sealed with
  content,    \* the upload the object's shards are made of
  life,       \* where each node is in its life
  aead,       \* the version of the key it has read
  files,      \* its map
  lock,       \* the handler that holds its mutex for writing
  pc, on, up, obj, next, got,  \* of each handler: step, node, upload,
                               \* object, next shard, shards that are good
  acked,      \* objects whose upload was answered with success
  withdrawn,  \* objects whose put failed when their metadata was in place
  outlived,   \* whether a handler ever outlived the stop of its node
  faults      \* objects damaged, secrets lost, failed syncs, stops timed out

secrets == <<key, made, identity>>
disk == <<objects, shard, bad, meta, temp, sealed, content>>
nodes == <<life, aead, files>>
handler == <<on, up, obj, next, got>>
ghosts == <<acked, withdrawn, outlived, faults>>
vars == <<secrets, disk, nodes, lock, pc, handler, ghosts>>

Shards == 0..(DataShards + ParityShards - 1)

(* Sizes on the disk; put reserves twice the data and a margin.            *)
shardFile(u) == (Length(u) + DataShards - 1) \div DataShards + Overhead

reserve(u) == 2 * Length(u) + Margin

ASSUME SizesAssumption ==
  /\ \A u \in Uploads : Length(u) \in Nat
  /\ Overhead \in Nat /\ MetaSize \in Nat /\ Margin \in Nat /\ Quota \in Nat

ASSUME ReserveAssumption ==
  \A u \in Uploads : (DataShards + ParityShards) * shardFile(u) + MetaSize <= reserve(u)

objectSize(o) ==
  Cardinality(shard[o] \cup bad[o]) * shardFile(content[o]) + temp[o]
  + (IF meta[o] = none THEN 0 ELSE MetaSize)

usage == MapThenSumSet(objectSize, objects)

Init ==
  /\ key = 0 /\ made = 0 /\ identity = FALSE
  /\ objects = {}
  /\ shard = [o \in Objects |-> {}] /\ bad = [o \in Objects |-> {}]
  /\ meta = [o \in Objects |-> none] /\ temp = [o \in Objects |-> 0]
  /\ sealed = [o \in Objects |-> 0] /\ content = [o \in Objects |-> none]
  /\ life = [k \in Nodes |-> "gone"] /\ aead = [k \in Nodes |-> 0]
  /\ files = [k \in Nodes |-> {}] /\ lock = [k \in Nodes |-> none]
  /\ pc = [h \in Handlers |-> "idle"]
  /\ on = [h \in Handlers |-> 0] /\ up = [h \in Handlers |-> none]
  /\ obj = [h \in Handlers |-> none]
  /\ next = [h \in Handlers |-> 0] /\ got = [h \in Handlers |-> {}]
  /\ acked = {} /\ withdrawn = {} /\ outlived = FALSE /\ faults = 0

-----------------------------------------------------------------------------
(* Open and Start.                                                         *)

busyOn(k) == {h \in Handlers : pc[h] # "idle" /\ on[h] = k}

to(k, stage) == life' = [life EXCEPT ![k] = stage]

(* Mutant: existing objects ask for the node id alone.                     *)
secretsKeptIdentity == objects = {} \/ identity

(* Existing objects without the key or the node id: Open refuses.          *)
secretsKept == objects = {} \/ (key # 0 /\ identity)

(* CFSStart under its mutex, or the program's main: one node at a time.    *)
CFSStart(k) ==
  /\ \A j \in Nodes : life[j] = "gone"
  /\ busyOn(k) = {} /\ \A j \in 1..(k - 1) : busyOn(j) # {}
  /\ secretsKept
  /\ to(k, "key")
  /\ UNCHANGED <<secrets, disk, aead, files, lock, pc, handler, ghosts>>

(* secret: the key as it is, or a new one.                                 *)
OpenKey(k) ==
  /\ life[k] = "key"
  /\ to(k, "identity")
  /\ made' = IF key = 0 THEN made + 1 ELSE made
  /\ key' = IF key = 0 THEN made' ELSE key
  /\ aead' = [aead EXCEPT ![k] = key']
  /\ UNCHANGED <<identity, disk, files, lock, pc, handler, ghosts>>

OpenIdentity(k) ==
  /\ life[k] = "identity"
  /\ to(k, "files")
  /\ identity' = TRUE
  /\ UNCHANGED <<key, made, disk, aead, files, lock, pc, handler, ghosts>>

(* Every directory with metadata is in the map; one without is skipped.    *)
(* Then Start listens.                                                     *)
OpenFiles(k) ==
  /\ life[k] = "files"
  /\ to(k, "up")
  /\ files' = [files EXCEPT ![k] = {o \in objects : meta[o] # none}]
  /\ UNCHANGED <<secrets, disk, aead, lock, pc, handler, ghosts>>

(* An error on the way, before or after a secret is in place: a write or a *)
(* sync that fails, a secret of the wrong length, local.capability,        *)
(* damaged metadata, an address that is taken.  The node is dropped.       *)
OpenFails(k) ==
  /\ life[k] \in {"key", "identity", "files"}
  /\ to(k, "gone")
  /\ aead' = [aead EXCEPT ![k] = 0]
  /\ UNCHANGED <<secrets, disk, files, lock, pc, handler, ghosts>>

Opening(k) ==
  CFSStart(k) \/ OpenKey(k) \/ OpenIdentity(k) \/ OpenFiles(k) \/ OpenFails(k)

-----------------------------------------------------------------------------
(* Close, and the end of the process.                                      *)

(* Shutdown stops listening and waits for the handlers, five seconds.      *)
CFSStop(k) ==
  /\ life[k] = "up"
  /\ to(k, "stopping")
  /\ UNCHANGED <<secrets, disk, aead, files, lock, pc, handler, ghosts>>

(* The handlers are done, or the time is up: then the connections are      *)
(* closed and the handlers run on.                                         *)
Stopped(k) ==
  /\ life[k] = "stopping"
  /\ to(k, "gone")
  /\ \/ /\ busyOn(k) = {}
        /\ files' = [files EXCEPT ![k] = {}] /\ aead' = [aead EXCEPT ![k] = 0]
        /\ UNCHANGED <<outlived, faults>>
     \/ /\ busyOn(k) # {} /\ faults < MaxFaults
        /\ outlived' = TRUE /\ faults' = faults + 1
        /\ UNCHANGED <<files, aead>>
  /\ UNCHANGED <<secrets, disk, lock, pc, handler, acked, withdrawn>>

(* The process dies, or mobile-node's main returns: nothing in memory is   *)
(* left.                                                                   *)
Crash ==
  /\ life' = [k \in Nodes |-> "gone"] /\ aead' = [k \in Nodes |-> 0]
  /\ files' = [k \in Nodes |-> {}] /\ lock' = [k \in Nodes |-> none]
  /\ pc' = [h \in Handlers |-> "idle"]
  /\ on' = [h \in Handlers |-> 0] /\ up' = [h \in Handlers |-> none]
  /\ obj' = [h \in Handlers |-> none]
  /\ next' = [h \in Handlers |-> 0] /\ got' = [h \in Handlers |-> {}]
  /\ UNCHANGED <<secrets, disk, ghosts>>

-----------------------------------------------------------------------------
(* What happens to the disk.                                               *)

Damage(o, lost) ==
  /\ faults < MaxFaults /\ meta[o] # none
  /\ lost # {} /\ lost \subseteq shard[o]
  /\ shard' = [shard EXCEPT ![o] = @ \ lost]
  /\ bad' = [bad EXCEPT ![o] = @ \cup lost]
  /\ faults' = faults + 1
  /\ UNCHANGED <<secrets, objects, meta, temp, sealed, content, nodes, lock, pc,
                 handler, acked, withdrawn, outlived>>

(* The user deletes a secret, not in the instant in which Open reads it.   *)
LoseSecret ==
  /\ faults < MaxFaults
  /\ \A k \in Nodes : life[k] \in {"gone", "up", "stopping"}
  /\ \/ key # 0 /\ key' = 0 /\ identity' = identity
     \/ identity /\ identity' = FALSE /\ key' = key
  /\ faults' = faults + 1
  /\ UNCHANGED <<made, disk, nodes, lock, pc, handler, acked, withdrawn, outlived>>

(* "restore the original node backup"                                      *)
RestoreSecrets ==
  /\ \A k \in Nodes : life[k] = "gone"
  /\ made # 0 /\ (key = 0 \/ ~identity)
  /\ key' = made /\ identity' = TRUE
  /\ UNCHANGED <<made, disk, nodes, lock, pc, handler, ghosts>>

-----------------------------------------------------------------------------
(* Uploads: put runs under the node's mutex.                               *)

step(h, at) == pc' = [pc EXCEPT ![h] = at]

leave(h) ==
  /\ step(h, "idle")
  /\ on' = [on EXCEPT ![h] = 0] /\ up' = [up EXCEPT ![h] = none]
  /\ obj' = [obj EXCEPT ![h] = none]
  /\ next' = [next EXCEPT ![h] = 0] /\ got' = [got EXCEPT ![h] = {}]

unlock(h) == lock' = [lock EXCEPT ![on[h]] = none]

(* The answer reaches its client unless the connection has been closed.    *)
answered(h, o) ==
  IF life[on[h]] \in {"up", "stopping"} THEN acked \cup {o} ELSE acked

(* A request that is well formed and that its body has been read of.       *)
Upload(h, k, u) ==
  /\ pc[h] = "idle" /\ life[k] = "up"
  /\ step(h, "lock")
  /\ on' = [on EXCEPT ![h] = k] /\ up' = [up EXCEPT ![h] = u]
  /\ UNCHANGED <<secrets, disk, nodes, lock, obj, next, got, ghosts>>

(* Mutant: put takes the mutex for reading.                                *)
mayWriteShared(h) == TRUE
mayWrite(h) == lock[on[h]] = none

Lock(h) ==
  /\ pc[h] = "lock" /\ mayWrite(h)
  /\ step(h, "search")
  /\ lock' = [lock EXCEPT ![on[h]] = h]
  /\ UNCHANGED <<secrets, disk, nodes, handler, ghosts>>

(* The objects of the map that match, as they were when they came into it. *)
known(h) == {o \in files[on[h]] : content[o] = up[h]}

(* An object of this upload is answered again.                             *)
Deduplicate(h) ==
  /\ pc[h] = "search"
  /\ \E o \in known(h) : acked' = answered(h, o)
  /\ unlock(h) /\ leave(h)
  /\ UNCHANGED <<secrets, disk, nodes, withdrawn, outlived, faults>>

(* Mutant: room for the data itself is enough.                             *)
fitsData(h) == usage + Length(up[h]) <= Quota
fits(h) == usage + reserve(up[h]) <= Quota

Reserve(h) ==
  /\ pc[h] = "search" /\ known(h) = {} /\ fits(h)
  /\ step(h, "mkdir")
  /\ UNCHANGED <<secrets, disk, nodes, lock, handler, ghosts>>

(* Mutant: the refusal forgets the mutex.                                  *)
RefuseLocked(h) ==
  /\ pc[h] = "search" /\ known(h) = {} /\ ~fits(h)
  /\ leave(h)
  /\ UNCHANGED <<secrets, disk, nodes, lock, ghosts>>

Refuse(h) ==
  /\ pc[h] = "search" /\ known(h) = {} /\ ~fits(h)
  /\ unlock(h) /\ leave(h)
  /\ UNCHANGED <<secrets, disk, nodes, ghosts>>

(* A directory under a UUID that none has had, whichever.                  *)
fresh == Objects \ (objects \cup withdrawn)

Mkdir(h, o) ==
  /\ pc[h] = "mkdir"
  /\ o \in fresh /\ o = CHOOSE p \in fresh : TRUE
  /\ step(h, "write")
  /\ objects' = objects \cup {o}
  /\ content' = [content EXCEPT ![o] = up[h]]
  /\ sealed' = [sealed EXCEPT ![o] = aead[on[h]]]
  /\ obj' = [obj EXCEPT ![h] = o]
  /\ UNCHANGED <<secrets, shard, bad, meta, temp, nodes, lock, on, up, next, got, ghosts>>

MkdirFails(h) ==
  /\ pc[h] = "mkdir"
  /\ unlock(h) /\ leave(h)
  /\ UNCHANGED <<secrets, disk, nodes, ghosts>>

(* atomic: a temporary file beside the target, then a rename.  The shards  *)
(* come first, in order, and metadata.json last.                           *)
(* Mutant: metadata.json as soon as the data shards are there.             *)
shardsLeftParity(h) == next[h] < DataShards

(* Mutant: one shard too many.                                             *)
shardsLeftMore(h) == next[h] \in 0..(DataShards + ParityShards)
shardsLeft(h) == next[h] \in Shards

sizeOf(h) == IF shardsLeft(h) THEN shardFile(up[h]) ELSE MetaSize

Write(h) ==
  /\ pc[h] = "write"
  /\ step(h, "rename")
  /\ temp' = [temp EXCEPT ![obj[h]] = @ + sizeOf(h)]
  /\ UNCHANGED <<secrets, objects, shard, bad, meta, sealed, content, nodes, lock,
                 handler, ghosts>>

(* The temporary file takes its place.                                     *)
place(h) ==
  /\ temp' = [temp EXCEPT ![obj[h]] = @ - sizeOf(h)]
  /\ IF shardsLeft(h)
     THEN shard' = [shard EXCEPT ![obj[h]] = @ \cup {next[h]}] /\ meta' = meta
     ELSE meta' = [meta EXCEPT ![obj[h]] = up[h]] /\ shard' = shard

Rename(h) ==
  /\ pc[h] = "rename"
  /\ place(h)
  /\ step(h, IF shardsLeft(h) THEN "write" ELSE "register")
  /\ next' = [next EXCEPT ![h] = @ + 1]
  /\ UNCHANGED <<secrets, objects, bad, sealed, content, nodes, lock, on, up, obj,
                 got, ghosts>>

(* The directory cannot be opened or synced: atomic fails with the file,   *)
(* be it metadata.json, in its place.                                      *)
SyncFails(h) ==
  /\ pc[h] = "rename" /\ faults < MaxFaults
  /\ place(h)
  /\ step(h, "remove")
  /\ withdrawn' = IF shardsLeft(h) THEN withdrawn ELSE withdrawn \cup {obj[h]}
  /\ faults' = faults + 1
  /\ UNCHANGED <<secrets, objects, bad, sealed, content, nodes, lock, handler,
                 acked, outlived>>

(* The disk is full or fails before that: atomic removes its temporary     *)
(* file.                                                                   *)
WriteFails(h) ==
  /\ pc[h] \in {"write", "rename"}
  /\ step(h, "remove")
  /\ temp' = [temp EXCEPT ![obj[h]] = IF pc[h] = "rename" THEN @ - sizeOf(h) ELSE @]
  /\ UNCHANGED <<secrets, objects, shard, bad, meta, sealed, content, nodes, lock,
                 handler, ghosts>>

(* put's deferred RemoveAll: file by file, metadata.json before, between   *)
(* or after the shards, as the directory happens to list them ...          *)
RemoveFile(h) ==
  LET o == obj[h]
  IN  /\ pc[h] = "remove"
      /\ \/ /\ shard[o] # {}
            /\ shard' = [shard EXCEPT ![o] = @ \ {Max(@)}] /\ UNCHANGED <<bad, meta>>
         \/ /\ bad[o] # {}
            /\ bad' = [bad EXCEPT ![o] = @ \ {Max(@)}] /\ UNCHANGED <<shard, meta>>
         \/ /\ meta[o] # none
            /\ meta' = [meta EXCEPT ![o] = none] /\ UNCHANGED <<shard, bad>>
      /\ UNCHANGED <<secrets, objects, temp, sealed, content, nodes, lock, pc, handler,
                     ghosts>>

(* ... then the directory.  A map may hold the object all the same.        *)
RemoveDirectory(h) ==
  LET o == obj[h]
  IN  /\ pc[h] = "remove"
      /\ shard[o] = {} /\ bad[o] = {} /\ meta[o] = none
      /\ objects' = objects \ {o}
      /\ content' = [content EXCEPT ![o] = IF o \in withdrawn THEN @ ELSE none]
      /\ sealed' = [sealed EXCEPT ![o] = 0]
      /\ unlock(h) /\ leave(h)
      /\ UNCHANGED <<secrets, shard, bad, meta, temp, nodes, ghosts>>

Register(h) ==
  /\ pc[h] = "register"
  /\ files' = [files EXCEPT ![on[h]] = @ \cup {obj[h]}]
  /\ acked' = answered(h, obj[h])
  /\ unlock(h) /\ leave(h)
  /\ UNCHANGED <<secrets, disk, life, aead, withdrawn, outlived, faults>>

-----------------------------------------------------------------------------
(* Downloads: the map under the read lock, the shards without a lock.      *)

Download(h, k) ==
  /\ pc[h] = "idle" /\ life[k] = "up"
  /\ step(h, "find")
  /\ on' = [on EXCEPT ![h] = k]
  /\ UNCHANGED <<secrets, disk, nodes, lock, up, obj, next, got, ghosts>>

(* Any object of the map may be the one that is asked for, or one that it  *)
(* does not hold for this token: 404.                                      *)
Find(h) ==
  /\ pc[h] = "find" /\ lock[on[h]] = none
  /\ \/ leave(h)
     \/ \E o \in files[on[h]] :
          /\ step(h, "read")
          /\ obj' = [obj EXCEPT ![h] = o]
          /\ UNCHANGED <<on, up, next, got>>
  /\ UNCHANGED <<secrets, disk, nodes, lock, ghosts>>

(* A shard counts when its hash is right and the node's key opens it.      *)
good(h) == next[h] \in shard[obj[h]] /\ sealed[obj[h]] = aead[on[h]]

ReadShard(h) ==
  /\ pc[h] = "read" /\ shardsLeft(h)
  /\ next' = [next EXCEPT ![h] = @ + 1]
  /\ got' = [got EXCEPT ![h] = IF good(h) THEN @ \cup {next[h]} ELSE @]
  /\ UNCHANGED <<secrets, disk, nodes, lock, pc, on, up, obj, ghosts>>

(* Mutant: one shard more than Reconstruct needs.                          *)
enoughAndOne(shards) == Cardinality(shards) > DataShards
enough(shards) == Cardinality(shards) >= DataShards

Serve(h) ==
  /\ pc[h] = "read" /\ ~shardsLeft(h) /\ enough(got[h])
  /\ leave(h)
  /\ UNCHANGED <<secrets, disk, nodes, lock, ghosts>>

(* "insufficient valid shards to recover object"                           *)
Insufficient(h) ==
  /\ pc[h] = "read" /\ ~shardsLeft(h) /\ ~enough(got[h])
  /\ leave(h)
  /\ UNCHANGED <<secrets, disk, nodes, lock, ghosts>>

-----------------------------------------------------------------------------
Put(h) ==
  \/ Deduplicate(h) \/ Reserve(h) \/ Refuse(h)
  \/ (\E o \in Objects : Mkdir(h, o)) \/ MkdirFails(h)
  \/ Write(h) \/ Rename(h) \/ SyncFails(h) \/ WriteFails(h)
  \/ RemoveFile(h) \/ RemoveDirectory(h) \/ Register(h)

Get(h) == ReadShard(h) \/ Serve(h) \/ Insufficient(h)

Next ==
  \/ \E k \in Nodes : Opening(k) \/ CFSStop(k) \/ Stopped(k)
  \/ Crash
  \/ \E o \in Objects : \E lost \in SUBSET Shards : Damage(o, lost)
  \/ LoseSecret \/ RestoreSecrets
  \/ \E h \in Handlers :
       \/ \E k \in Nodes : Download(h, k) \/ \E u \in Uploads : Upload(h, k, u)
       \/ Lock(h) \/ Find(h) \/ Put(h) \/ Get(h)

(* The handler that holds a mutex runs.  Clients, owners, crashes and the  *)
(* stop are up to themselves.                                              *)
Fairness == \A h \in Handlers : WF_<<pc, disk>>(Put(h))

Spec == Init /\ [][Next]_vars /\ Fairness

-----------------------------------------------------------------------------
TypeOK ==
  /\ key \in {0, made} /\ made \in Nat /\ identity \in BOOLEAN
  /\ objects \subseteq Objects
  /\ \A o \in Objects :
       /\ shard[o] \subseteq Shards /\ bad[o] \subseteq Shards /\ shard[o] \cap bad[o] = {}
       /\ meta[o] \in {none, content[o]} /\ temp[o] \in Nat
       /\ o \notin objects => shard[o] = {} /\ meta[o] = none /\ temp[o] = 0
  /\ withdrawn \subseteq Objects
  /\ \A k \in Nodes :
       files[k] \subseteq objects \cup withdrawn /\ lock[k] \in Handlers \cup {none}
  /\ \A h \in Handlers :
       /\ pc[h] \in {"idle", "lock", "search", "mkdir", "write", "rename", "remove",
                     "register", "find", "read"}
       /\ next[h] \in 0..(DataShards + ParityShards + 1) /\ got[h] \subseteq Shards
  /\ acked \subseteq objects \cup withdrawn

(* An object is committed only whole: whenever the process dies, metadata  *)
(* on the disk means that every shard was written, and an upload that was  *)
(* answered with success is one of those and in the map of the node that   *)
(* serves, also after restarts.  Not so for an object whose put failed     *)
(* when its metadata was in place.                                         *)
CommittedWhole ==
  /\ \A o \in Objects \ withdrawn : meta[o] # none => shard[o] \cup bad[o] = Shards
  /\ \A o \in acked \ withdrawn : meta[o] # none
  /\ ~outlived => \A k \in Nodes : life[k] \in {"up", "stopping"} => acked \subseteq files[k]

(* "Atomic metadata commits" (docs/ANDROID.md:13): of an upload that was   *)
(* answered with success, every shard is there.                            *)
AcknowledgedWhole == \A o \in acked : shard[o] \cup bad[o] = Shards

(* However often a client repeats an upload, at the same time or after a   *)
(* crash, one object of it is committed.                                   *)
OncePerUpload ==
  outlived \/ \A o, p \in Objects : meta[o] # none /\ meta[o] = meta[p] => o = p

(* The quota holds with what put writes in its course, the temporary files *)
(* and the directories a crash left behind.                                *)
QuotaHeld == outlived \/ usage <= Quota

(* Whatever is lost and restored, every object is sealed with the last key *)
(* made: opening never makes a new one over existing objects.              *)
KeyKept == outlived \/ \A o \in objects : sealed[o] = made

(* A download of an object fails only if more shards are damaged than      *)
(* there is parity, or the object's put failed and was being undone.       *)
DownloadServes ==
  [][\A h \in Handlers :
       Insufficient(h) => \/ outlived \/ obj[h] \in withdrawn
                          \/ Cardinality(bad[obj[h]]) > ParityShards]_vars

(* No request keeps the mutex, whatever fails: the others wait for an      *)
(* upload, never for ever.                                                 *)
MutexReleased == \A k \in Nodes : lock[k] # none ~> lock[k] = none
=============================================================================
