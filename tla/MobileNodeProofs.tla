-------------------------- MODULE MobileNodeProofs --------------------------
(***************************************************************************)
(* An object is committed only whole, one whose put failed on its last     *)
(* sync apart, and an answered upload is found again after every restart;  *)
(* opening never makes a new key over objects.  For every number of        *)
(* handlers, uploads, objects, shards, faults and crashes.                 *)
(* As long as no handler outlives its node, an upload is stored once and   *)
(* the quota holds, and a download fails only over damaged shards.         *)
(***************************************************************************)
EXTENDS MobileNode, InductionProofs, TLAPS

-----------------------------------------------------------------------------
(* What is on the disk and how far each upload is.                         *)

Asking(h) == up[h] \in Uploads /\ next[h] = 0

Writing(h) ==
  /\ up[h] \in Uploads /\ obj[h] \in objects /\ meta[obj[h]] = none
  /\ obj[h] \notin withdrawn
  /\ next[h] \in 0..(DataShards + ParityShards)
  /\ \A i \in Shards : i < next[h] => i \in shard[obj[h]]

(* An object that a map may hold.                                          *)
Committed(o) == meta[o] # none \/ o \in withdrawn

Removing(h) == obj[h] \in objects /\ (meta[obj[h]] = none \/ obj[h] \in withdrawn)
Registering(h) == obj[h] \in objects /\ meta[obj[h]] # none /\ obj[h] \notin withdrawn

HandlerInv(h) ==
  /\ pc[h] # "idle" => on[h] \in Nodes
  /\ pc[h] \in {"idle", "find"} => next[h] = 0
  /\ pc[h] \in {"lock", "search", "mkdir"} => Asking(h)
  /\ pc[h] \in {"write", "rename"} => Writing(h)
  /\ pc[h] = "remove" => Removing(h)
  /\ pc[h] = "register" => Registering(h)

owning == {"write", "rename", "remove", "register"}

Exclusive ==
  \A g, h \in Handlers :
     g # h /\ pc[g] \in owning /\ pc[h] \in owning => obj[g] # obj[h]

Domains ==
  /\ DOMAIN pc = Handlers /\ DOMAIN on = Handlers /\ DOMAIN up = Handlers
  /\ DOMAIN obj = Handlers /\ DOMAIN next = Handlers /\ DOMAIN got = Handlers
  /\ DOMAIN files = Nodes /\ DOMAIN life = Nodes /\ DOMAIN aead = Nodes
  /\ DOMAIN sealed = Objects

DiskInv ==
  /\ objects \subseteq Objects
  /\ shard \in [Objects -> SUBSET Shards] /\ bad \in [Objects -> SUBSET Shards]
  /\ meta \in [Objects -> Uploads \cup {none}]
  /\ withdrawn \subseteq Objects
  /\ \A o \in Objects : meta[o] # none => o \in objects
  /\ \A o \in Objects \ withdrawn : meta[o] # none => shard[o] \cup bad[o] = Shards
  /\ \A k \in Nodes : \A o \in files[k] : o \in Objects /\ Committed(o)
  /\ \A o \in acked : o \in Objects /\ Committed(o)

WholeInv == Domains /\ DiskInv /\ Exclusive /\ \A h \in Handlers : HandlerInv(h)

LEMMA WholeInit == Init => WholeInv
  BY DEF Init, WholeInv, Domains, DiskInv, Exclusive, HandlerInv, owning

mine(h) == <<pc[h], on[h], up[h], obj[h], next[h]>>

(* What one handler does to its own state, the disk as it is.              *)
LEMMA WholeMoves ==
  ASSUME WholeInv, Domains', NEW h \in Handlers,
         UNCHANGED <<objects, shard, bad, meta, files, withdrawn>>,
         \A o \in acked' : o \in acked \/ (o \in Objects /\ Committed(o)),
         \A g \in Handlers \ {h} : mine(g)' = mine(g),
         pc'[h] \in owning => pc[h] \in owning /\ obj'[h] = obj[h],
         HandlerInv(h)'
  PROVE  WholeInv'
<1>1. DiskInv'
  BY DEF WholeInv, DiskInv, Committed
<1>2. \A g \in Handlers \ {h} :
        /\ pc'[g] = pc[g] /\ on'[g] = on[g] /\ up'[g] = up[g]
        /\ obj'[g] = obj[g] /\ next'[g] = next[g]
  BY DEF mine
<1>3. \A g \in Handlers \ {h} : HandlerInv(g)'
  BY <1>2 DEF WholeInv, HandlerInv, Asking, Writing, Removing, Registering
<1>4. Exclusive'
  BY <1>2 DEF WholeInv, Exclusive
<1> QED BY <1>1, <1>3, <1>4 DEF WholeInv

LEMMA WholeLeaves ==
  ASSUME WholeInv, NEW h \in Handlers, leave(h),
         UNCHANGED <<disk, life, aead, files, withdrawn>>,
         \A o \in acked' : o \in acked \/ (o \in Objects /\ Committed(o))
  PROVE  WholeInv'
<1>1. pc'[h] = "idle" /\ next'[h] = 0
  BY DEF leave, step, WholeInv, Domains
<1>2. HandlerInv(h)'
  BY <1>1 DEF HandlerInv
<1>3. \A g \in Handlers \ {h} : mine(g)' = mine(g)
  BY DEF leave, step, mine, WholeInv, Domains
<1>4. Domains'
  BY DEF leave, step, WholeInv, Domains, disk
<1> QED BY <1>1, <1>2, <1>3, <1>4, WholeMoves DEF disk, owning

LEMMA WholeNodes ==
  ASSUME WholeInv, UNCHANGED <<disk, pc, handler, acked, withdrawn>>,
         DOMAIN life' = Nodes, DOMAIN aead' = Nodes, DOMAIN files' = Nodes,
         \A k \in Nodes : \A o \in files'[k] : o \in Objects /\ Committed(o)
  PROVE  WholeInv'
<1>1. Domains' /\ DiskInv' /\ Exclusive'
  BY DEF WholeInv, Domains, DiskInv, Exclusive, Committed, disk, handler
<1>2. \A h \in Handlers : HandlerInv(h)'
  BY DEF WholeInv, HandlerInv, Asking, Writing, Removing, Registering, disk, handler
<1> QED BY <1>1, <1>2 DEF WholeInv

LEMMA WholeDamage ==
  ASSUME WholeInv, NEW o \in Objects, NEW lost \in SUBSET Shards, Damage(o, lost)
  PROVE  WholeInv'
<1>1. /\ meta[o] # none
      /\ shard' = [shard EXCEPT ![o] = @ \ lost] /\ bad' = [bad EXCEPT ![o] = @ \cup lost]
      /\ UNCHANGED <<objects, meta, files, acked, withdrawn, pc, handler>> /\ Domains'
  BY DEF Damage, WholeInv, Domains, nodes, handler
<1>2. DiskInv'
  BY <1>1 DEF WholeInv, DiskInv, Committed
<1>3. \A h \in Handlers : HandlerInv(h)'
  BY <1>1 DEF WholeInv, DiskInv, HandlerInv, Asking, Writing, Removing, Registering, handler
<1>4. Exclusive'
  BY <1>1 DEF WholeInv, Exclusive, handler
<1> QED BY <1>1, <1>2, <1>3, <1>4 DEF WholeInv

LEMMA WholeMkdir ==
  ASSUME WholeInv, NEW h \in Handlers, NEW o \in Objects, Mkdir(h, o)
  PROVE  WholeInv'
<1>1. /\ pc' = [pc EXCEPT ![h] = "write"] /\ pc[h] = "mkdir" /\ o \notin objects
      /\ o \notin withdrawn
      /\ objects' = objects \cup {o} /\ obj' = [obj EXCEPT ![h] = o]
      /\ UNCHANGED <<shard, bad, meta, files, acked, withdrawn, on, up, next>> /\ Domains'
  BY DEF Mkdir, fresh, step, WholeInv, Domains, nodes, ghosts
<1>2. DiskInv'
  BY <1>1 DEF WholeInv, DiskInv, Committed
<1>3. meta[o] = none
  BY <1>1 DEF WholeInv, DiskInv
<1>4. HandlerInv(h)'
  <2>1. Asking(h)
    BY <1>1 DEF WholeInv, HandlerInv
  <2>2. Writing(h)'
    BY <1>1, <1>3, <2>1, ShardsAssumption DEF WholeInv, Domains, Asking, Writing, Shards
  <2> QED BY <1>1, <2>2 DEF HandlerInv, WholeInv, Domains
<1>5. \A g \in Handlers \ {h} : HandlerInv(g)'
  BY <1>1 DEF WholeInv, Domains, HandlerInv, Asking, Writing, Removing, Registering
<1>6. Exclusive'
  BY <1>1 DEF WholeInv, Domains, Exclusive, HandlerInv, Writing, Removing, Registering,
              owning
<1> QED BY <1>1, <1>2, <1>4, <1>5, <1>6 DEF WholeInv

LEMMA WholeRename ==
  ASSUME WholeInv, NEW h \in Handlers, Rename(h)
  PROVE  WholeInv'
<1> DEFINE o == obj[h]
<1>1. /\ pc[h] = "rename" /\ next' = [next EXCEPT ![h] = @ + 1]
      /\ UNCHANGED <<objects, bad, files, acked, withdrawn, on, up, obj>> /\ Domains'
  BY DEF Rename, place, step, WholeInv, Domains, nodes, ghosts
<1>2. Writing(h) /\ o \in Objects /\ up[h] # none
  BY <1>1, NamesAssumption DEF WholeInv, DiskInv, HandlerInv, Writing
<1>3. \A g \in Handlers \ {h} :
        /\ pc'[g] = pc[g] /\ next'[g] = next[g] /\ on' = on
        /\ pc[g] \in owning => obj[g] # o
  BY <1>1 DEF Rename, step, WholeInv, Domains, Exclusive, owning
<1>4. CASE shardsLeft(h)
  <2>1. /\ shard' = [shard EXCEPT ![o] = @ \cup {next[h]}] /\ meta' = meta
        /\ pc'[h] = "write"
    BY <1>4 DEF Rename, place, step, WholeInv, Domains
  <2>2. next[h] \in Shards
    BY <1>4 DEF shardsLeft
  <2>3. DiskInv'
    BY <1>1, <1>2, <2>1, <2>2 DEF WholeInv, DiskInv, Committed
  <2>4. Writing(h)'
    <3>1. next'[h] = next[h] + 1
      BY <1>1 DEF WholeInv, Domains
    <3>2. shard'[o] = shard[o] \cup {next[h]}
      BY <1>2, <2>1 DEF WholeInv, DiskInv
    <3> QED BY <1>1, <1>2, <2>1, <2>2, <3>1, <3>2, ShardsAssumption DEF Writing, Shards
  <2>5. \A g \in Handlers \ {h} : HandlerInv(g)'
    BY <1>1, <1>2, <1>3, <2>1
       DEF WholeInv, DiskInv, HandlerInv, Asking, Writing, Removing, Registering
  <2>6. Exclusive'
    BY <1>1, <1>3, <2>1 DEF WholeInv, Exclusive, owning
  <2> QED BY <1>1, <2>1, <2>3, <2>4, <2>5, <2>6 DEF WholeInv, HandlerInv
<1>5. CASE ~shardsLeft(h)
  <2>1. /\ meta' = [meta EXCEPT ![o] = up[h]] /\ shard' = shard
        /\ pc'[h] = "register"
    BY <1>5 DEF Rename, place, step, WholeInv, Domains
  <2>2. shard[o] = Shards
    <3>1. \A i \in Shards : i < next[h]
      BY <1>2, <1>5, ShardsAssumption DEF Writing, shardsLeft, Shards
    <3>2. Shards \subseteq shard[o]
      BY <1>2, <3>1 DEF Writing
    <3>3. shard[o] \subseteq Shards
      BY <1>2 DEF WholeInv, DiskInv
    <3> QED BY <3>2, <3>3
  <2>3. DiskInv'
    <3>1. up[h] \in Uploads /\ o \in objects
      BY <1>2 DEF Writing
    <3> QED BY <1>1, <1>2, <2>1, <2>2, <3>1 DEF WholeInv, DiskInv, Committed
  <2>4. Registering(h)'
    BY <1>1, <1>2, <2>1 DEF WholeInv, DiskInv, Writing, Registering
  <2>5. \A g \in Handlers \ {h} : HandlerInv(g)'
    BY <1>1, <1>2, <1>3, <2>1
       DEF WholeInv, DiskInv, HandlerInv, Asking, Writing, Removing, Registering, owning
  <2>6. Exclusive'
    BY <1>1, <1>3, <2>1 DEF WholeInv, Exclusive, owning
  <2> QED BY <1>1, <2>1, <2>3, <2>4, <2>5, <2>6 DEF WholeInv, HandlerInv
<1> QED BY <1>4, <1>5

LEMMA WholeSyncFails ==
  ASSUME WholeInv, NEW h \in Handlers, SyncFails(h)
  PROVE  WholeInv'
<1> DEFINE o == obj[h]
<1>1. /\ pc[h] = "rename" /\ pc'[h] = "remove" /\ next' = next
      /\ UNCHANGED <<objects, bad, files, acked, on, up, obj>> /\ Domains'
  BY DEF SyncFails, place, step, WholeInv, Domains, nodes, handler
<1>2. Writing(h) /\ o \in Objects /\ o \in objects /\ up[h] \in Uploads
  BY <1>1 DEF WholeInv, DiskInv, HandlerInv, Writing
<1>3. \A g \in Handlers \ {h} : pc'[g] = pc[g] /\ (pc[g] \in owning => obj[g] # o)
  BY <1>1 DEF SyncFails, step, WholeInv, Domains, Exclusive, owning
<1>4. CASE shardsLeft(h)
  <2>1. /\ shard' = [shard EXCEPT ![o] = @ \cup {next[h]}] /\ meta' = meta
        /\ withdrawn' = withdrawn /\ next[h] \in Shards
    BY <1>4 DEF SyncFails, place, shardsLeft
  <2>2. DiskInv'
    BY <1>1, <1>2, <2>1 DEF WholeInv, DiskInv, Committed
  <2>3. Removing(h)'
    BY <1>1, <1>2, <2>1 DEF Writing, Removing
  <2>4. \A g \in Handlers \ {h} : HandlerInv(g)'
    BY <1>1, <1>2, <1>3, <2>1
       DEF WholeInv, DiskInv, HandlerInv, Asking, Writing, Removing, Registering
  <2> QED BY <1>1, <1>3, <2>2, <2>3, <2>4 DEF WholeInv, HandlerInv, Exclusive, owning
<1>5. CASE ~shardsLeft(h)
  <2>1. /\ meta' = [meta EXCEPT ![o] = up[h]] /\ shard' = shard
        /\ withdrawn' = withdrawn \cup {o}
    BY <1>5 DEF SyncFails, place
  <2>2. DiskInv'
    BY <1>1, <1>2, <2>1 DEF WholeInv, DiskInv, Committed
  <2>3. Removing(h)'
    BY <1>1, <1>2, <2>1 DEF Removing
  <2>4. \A g \in Handlers \ {h} : HandlerInv(g)'
    BY <1>1, <1>2, <1>3, <2>1
       DEF WholeInv, DiskInv, HandlerInv, Asking, Writing, Removing, Registering, owning
  <2> QED BY <1>1, <1>3, <2>2, <2>3, <2>4 DEF WholeInv, HandlerInv, Exclusive, owning
<1> QED BY <1>4, <1>5

LEMMA WholeRemoveFile ==
  ASSUME WholeInv, NEW h \in Handlers, RemoveFile(h)
  PROVE  WholeInv'
<1> DEFINE o == obj[h]
<1>1. /\ pc[h] = "remove" /\ UNCHANGED <<objects, files, acked, withdrawn, pc, handler>>
      /\ Domains'
  BY DEF RemoveFile, WholeInv, Domains, nodes, ghosts, handler
<1>2. o \in objects /\ o \in Objects /\ (meta[o] = none \/ o \in withdrawn)
  BY <1>1 DEF WholeInv, DiskInv, HandlerInv, Removing
<1>3. \A g \in Handlers \ {h} : pc[g] \in owning => obj[g] # o
  BY <1>1 DEF WholeInv, Exclusive, owning
<1>4. Exclusive'
  BY <1>1 DEF WholeInv, Exclusive, handler
<1>5. CASE \E i : shard' = [shard EXCEPT ![o] = @ \ {i}] /\ UNCHANGED <<bad, meta>>
  <2>1. DiskInv'
    BY <1>1, <1>2, <1>5 DEF WholeInv, DiskInv, Committed
  <2>2. \A g \in Handlers : HandlerInv(g)'
    BY <1>1, <1>2, <1>3, <1>5
       DEF WholeInv, DiskInv, HandlerInv, Asking, Writing, Removing, Registering, handler,
           owning
  <2> QED BY <1>1, <1>4, <2>1, <2>2 DEF WholeInv
<1>6. CASE \E i : bad' = [bad EXCEPT ![o] = @ \ {i}] /\ UNCHANGED <<shard, meta>>
  <2>1. DiskInv'
    BY <1>1, <1>2, <1>6 DEF WholeInv, DiskInv, Committed
  <2>2. \A g \in Handlers : HandlerInv(g)'
    BY <1>1, <1>2, <1>3, <1>6
       DEF WholeInv, DiskInv, HandlerInv, Asking, Writing, Removing, Registering, handler,
           owning
  <2> QED BY <1>1, <1>4, <2>1, <2>2 DEF WholeInv
<1>7. CASE /\ meta[o] # none /\ meta' = [meta EXCEPT ![o] = none]
           /\ UNCHANGED <<shard, bad>>
  <2>1. o \in withdrawn
    BY <1>2, <1>7
  <2>2. DiskInv'
    BY <1>1, <1>2, <1>7, <2>1 DEF WholeInv, DiskInv, Committed
  <2>3. \A g \in Handlers : HandlerInv(g)'
    BY <1>1, <1>2, <1>3, <1>7
       DEF WholeInv, DiskInv, HandlerInv, Asking, Writing, Removing, Registering, handler,
           owning
  <2> QED BY <1>1, <1>4, <2>2, <2>3 DEF WholeInv
<1> QED BY <1>5, <1>6, <1>7 DEF RemoveFile

LEMMA WholeRemoveDirectory ==
  ASSUME WholeInv, NEW h \in Handlers, RemoveDirectory(h)
  PROVE  WholeInv'
<1> DEFINE o == obj[h]
<1>1. /\ pc[h] = "remove" /\ UNCHANGED <<shard, bad, meta, files, acked, withdrawn>>
      /\ meta[o] = none /\ objects' = objects \ {o} /\ leave(h) /\ Domains'
  BY DEF RemoveDirectory, leave, step, WholeInv, Domains, nodes, ghosts, handler
<1>2. o \in objects /\ o \in Objects
  BY <1>1 DEF WholeInv, DiskInv, HandlerInv, Removing
<1>3. \A g \in Handlers \ {h} : pc[g] \in owning => obj[g] # o
  BY <1>1 DEF WholeInv, Exclusive, owning
<1>4. DiskInv'
  BY <1>1, <1>2 DEF WholeInv, DiskInv, Committed
<1>5. /\ pc'[h] = "idle" /\ next'[h] = 0
      /\ \A g \in Handlers \ {h} : /\ pc'[g] = pc[g] /\ on'[g] = on[g] /\ up'[g] = up[g]
                                   /\ obj'[g] = obj[g] /\ next'[g] = next[g]
  BY <1>1 DEF leave, step, WholeInv, Domains
<1>6. \A g \in Handlers \ {h} : HandlerInv(g)'
  BY <1>1, <1>2, <1>3, <1>5
     DEF WholeInv, DiskInv, HandlerInv, Asking, Writing, Removing, Registering, owning
<1>7. HandlerInv(h)'
  BY <1>5 DEF HandlerInv
<1>8. Exclusive'
  BY <1>5 DEF WholeInv, Exclusive, owning
<1> QED BY <1>1, <1>4, <1>6, <1>7, <1>8 DEF WholeInv

LEMMA WholeRegister ==
  ASSUME WholeInv, NEW h \in Handlers, Register(h)
  PROVE  WholeInv'
<1>1. /\ pc[h] = "register" /\ files' = [files EXCEPT ![on[h]] = @ \cup {obj[h]}]
      /\ acked' \subseteq acked \cup {obj[h]} /\ leave(h)
      /\ UNCHANGED <<objects, shard, bad, meta, life, aead, sealed, withdrawn>>
  BY DEF Register, answered, disk
<1>2. obj[h] \in Objects /\ meta[obj[h]] # none
  BY <1>1 DEF WholeInv, DiskInv, HandlerInv, Registering
<1>3. DiskInv'
  BY <1>1, <1>2 DEF WholeInv, Domains, DiskInv, Committed
<1>4. /\ pc'[h] = "idle" /\ next'[h] = 0 /\ Domains'
      /\ \A g \in Handlers \ {h} : /\ pc'[g] = pc[g] /\ on'[g] = on[g] /\ up'[g] = up[g]
                                   /\ obj'[g] = obj[g] /\ next'[g] = next[g]
  BY <1>1 DEF leave, step, WholeInv, Domains
<1>5. \A g \in Handlers \ {h} : HandlerInv(g)'
  BY <1>1, <1>4 DEF WholeInv, HandlerInv, Asking, Writing, Removing, Registering
<1>6. HandlerInv(h)'
  BY <1>4 DEF HandlerInv
<1>7. Exclusive'
  BY <1>4 DEF WholeInv, Exclusive, owning
<1> QED BY <1>3, <1>4, <1>5, <1>6, <1>7 DEF WholeInv

LEMMA WholeNext ==
  ASSUME WholeInv, [Next]_vars
  PROVE  WholeInv'
<1> USE DEF secrets, disk, nodes, handler, ghosts
<1>1. CASE UNCHANGED vars
  BY <1>1, WholeNodes DEF vars, WholeInv, Domains, DiskInv, Committed
<1>2. ASSUME NEW k \in Nodes, Opening(k) \/ CFSStop(k) \/ Stopped(k)
      PROVE  WholeInv'
  <2>1. UNCHANGED <<disk, pc, handler, acked, withdrawn>> /\ DOMAIN life' = Nodes
    BY <1>2 DEF Opening, CFSStart, OpenKey, OpenIdentity, OpenFiles, OpenFails, CFSStop,
                Stopped, to, WholeInv, Domains
  <2>2. /\ DOMAIN aead' = Nodes /\ DOMAIN files' = Nodes
        /\ \A j \in Nodes : files'[j] \subseteq files[j] \cup {o \in objects : meta[o] # none}
    BY <1>2 DEF Opening, CFSStart, OpenKey, OpenIdentity, OpenFiles, OpenFails, CFSStop,
                Stopped, to, WholeInv, Domains
  <2>3. \A j \in Nodes : \A o \in files'[j] : o \in Objects /\ Committed(o)
    BY <2>2 DEF WholeInv, DiskInv, Committed
  <2> QED BY <2>1, <2>2, <2>3, WholeNodes
<1>3. CASE Crash
  BY <1>3 DEF Crash, WholeInv, Domains, DiskInv, Exclusive, HandlerInv, Committed, owning
<1>4. ASSUME NEW o \in Objects, NEW lost \in SUBSET Shards, Damage(o, lost)
      PROVE  WholeInv'
  BY <1>4, WholeDamage
<1>5. CASE LoseSecret \/ RestoreSecrets
  <2>1. UNCHANGED <<disk, pc, handler, acked, withdrawn, nodes>>
    BY <1>5 DEF LoseSecret, RestoreSecrets
  <2> QED BY <2>1, WholeNodes DEF WholeInv, Domains, DiskInv
<1>6. ASSUME NEW h \in Handlers, NEW k \in Nodes, Download(h, k)
      PROVE  WholeInv'
  <2>1. /\ pc'[h] = "find" /\ on'[h] = k /\ next' = next /\ pc[h] = "idle" /\ Domains'
        /\ \A g \in Handlers \ {h} : mine(g)' = mine(g)
    BY <1>6 DEF Download, step, mine, WholeInv, Domains
  <2>2. HandlerInv(h)'
    BY <2>1 DEF WholeInv, HandlerInv
  <2> QED BY <1>6, <2>1, <2>2, WholeMoves DEF Download, owning
<1>7. ASSUME NEW h \in Handlers, NEW k \in Nodes, NEW u \in Uploads, Upload(h, k, u)
      PROVE  WholeInv'
  <2>1. /\ pc'[h] = "lock" /\ on'[h] = k /\ up'[h] = u /\ next' = next /\ pc[h] = "idle" /\ Domains'
        /\ \A g \in Handlers \ {h} : mine(g)' = mine(g)
    BY <1>7 DEF Upload, step, mine, WholeInv, Domains
  <2>2. next[h] = 0
    BY <2>1 DEF WholeInv, HandlerInv
  <2>3. HandlerInv(h)'
    BY <2>1, <2>2 DEF HandlerInv, Asking
  <2> QED BY <1>7, <2>1, <2>3, WholeMoves DEF Upload, owning
<1>8. ASSUME NEW h \in Handlers, Lock(h) \/ Reserve(h) PROVE WholeInv'
  <2>1. /\ pc[h] \in {"lock", "search"} /\ pc'[h] \in {"search", "mkdir"} /\ Domains'
        /\ \A g \in Handlers \ {h} : mine(g)' = mine(g)
        /\ UNCHANGED <<on, up, next, objects, shard, bad, meta, files, acked, withdrawn>>
    BY <1>8 DEF Lock, Reserve, step, mine, WholeInv, Domains
  <2>2. HandlerInv(h)'
    BY <2>1 DEF WholeInv, HandlerInv, Asking
  <2> QED BY <2>1, <2>2, WholeMoves DEF owning
<1>9. ASSUME NEW h \in Handlers, Find(h) \/ ReadShard(h) PROVE WholeInv'
  <2>1. CASE leave(h) /\ UNCHANGED <<disk, nodes, acked, withdrawn>>
    BY <2>1, WholeLeaves
  <2>2. CASE /\ pc[h] \in {"find", "read"} /\ pc'[h] = "read" /\ on' = on /\ Domains'
             /\ \A g \in Handlers \ {h} : mine(g)' = mine(g)
             /\ UNCHANGED <<objects, shard, bad, meta, files, acked, withdrawn>>
    <3>1. HandlerInv(h)'
      BY <2>2 DEF WholeInv, HandlerInv
    <3> QED BY <2>2, <3>1, WholeMoves DEF owning
  <2>3. CASE Find(h)
    BY <2>1, <2>2, <2>3 DEF Find, step, mine, WholeInv, Domains
  <2>4. CASE ReadShard(h)
    BY <2>2, <2>4 DEF ReadShard, mine, WholeInv, Domains
  <2> QED BY <1>9, <2>3, <2>4
<1>10. ASSUME NEW h \in Handlers, Deduplicate(h) PROVE WholeInv'
  <2>1. PICK o \in known(h) : acked' = answered(h, o)
    BY <1>10 DEF Deduplicate
  <2>2. on[h] \in Nodes
    BY <1>10 DEF Deduplicate, WholeInv, HandlerInv
  <2>3. o \in Objects /\ Committed(o)
    BY <2>1, <2>2 DEF known, WholeInv, DiskInv
  <2> QED BY <1>10, <2>1, <2>3, WholeLeaves DEF Deduplicate, answered
<1>11. ASSUME NEW h \in Handlers,
              Refuse(h) \/ MkdirFails(h) \/ Serve(h) \/ Insufficient(h)
       PROVE  WholeInv'
  BY <1>11, WholeLeaves DEF Refuse, MkdirFails, Serve, Insufficient
<1>12. ASSUME NEW h \in Handlers, NEW o \in Objects, Mkdir(h, o) PROVE WholeInv'
  BY <1>12, WholeMkdir
<1>13. ASSUME NEW h \in Handlers, Write(h) \/ WriteFails(h) PROVE WholeInv'
  <2>1. /\ pc[h] \in {"write", "rename"} /\ pc'[h] \in {"rename", "remove"} /\ Domains'
        /\ \A g \in Handlers \ {h} : mine(g)' = mine(g)
        /\ UNCHANGED <<on, up, obj, next, objects, shard, bad, meta, files, acked, withdrawn>>
    BY <1>13 DEF Write, WriteFails, step, mine, WholeInv, Domains
  <2>2. HandlerInv(h)'
    BY <2>1 DEF WholeInv, HandlerInv, Writing, Removing
  <2> QED BY <2>1, <2>2, WholeMoves DEF owning
<1>14. ASSUME NEW h \in Handlers, Rename(h) \/ SyncFails(h) PROVE WholeInv'
  BY <1>14, WholeRename, WholeSyncFails
<1>15. ASSUME NEW h \in Handlers, RemoveFile(h) \/ RemoveDirectory(h) PROVE WholeInv'
  BY <1>15, WholeRemoveFile, WholeRemoveDirectory
<1>16. ASSUME NEW h \in Handlers, Register(h) PROVE WholeInv'
  BY <1>16, WholeRegister
<1> QED BY <1>1, <1>2, <1>3, <1>4, <1>5, <1>6, <1>7, <1>8, <1>9, <1>10, <1>11, <1>12,
           <1>13, <1>14, <1>15, <1>16
        DEF Next, Put, Get

-----------------------------------------------------------------------------
(* One node at a time serves, with the last key and every answered upload, *)
(* as long as no handler outlives the stop of its node.                    *)

serving == {"up", "stopping"}

Served == \A h \in Handlers : pc[h] # "idle" => life[on[h]] \in serving
OneNode == \A j, k \in Nodes : life[j] # "gone" /\ life[k] # "gone" => j = k
KeyRead == \A k \in Nodes : life[k] \in {"identity", "files"} \cup serving => aead[k] = made
KeyThere == \A k \in Nodes : life[k] = "key" => objects = {} \/ key # 0
Sealed == \A o \in objects : sealed[o] = made
Found == \A k \in Nodes : life[k] \in serving => acked \subseteq files[k]

NodesInv ==
  /\ key \in {0, made} /\ made \in Nat
  /\ outlived \/ (Served /\ OneNode /\ KeyRead /\ KeyThere /\ Sealed /\ Found)

LEMMA NodesInit == Init => NodesInv
  BY DEF Init, NodesInv, Served, OneNode, KeyRead, KeyThere, Sealed, Found, serving

(* A handler's step: its node serves, so none is being opened.             *)
LEMMA NodesServe ==
  ASSUME WholeInv, NodesInv, NEW h \in Handlers, pc[h] # "idle",
         UNCHANGED <<key, made, life, aead, outlived>>,
         \A g \in Handlers : pc'[g] # "idle" => pc[g] # "idle" /\ on'[g] = on[g],
         \A o \in objects' :
            (o \in objects /\ sealed'[o] = sealed[o]) \/ sealed'[o] = aead[on[h]],
         \A k \in Nodes : files[k] \subseteq files'[k],
         \A o \in acked' : o \in acked \/ o \in files'[on[h]]
  PROVE  NodesInv'
<1> DEFINE n == on[h]
<1>1. CASE outlived
  BY <1>1 DEF NodesInv
<1>2. CASE ~outlived
  <2>1. Served /\ OneNode /\ KeyRead /\ Sealed /\ Found
    BY <1>2 DEF NodesInv
  <2>2. n \in Nodes /\ life[n] \in serving
    BY <2>1 DEF WholeInv, HandlerInv, Served
  <2>3. \A k \in Nodes : life[k] # "gone" => k = n
    BY <2>1, <2>2 DEF OneNode, serving
  <2>4. Served' /\ OneNode' /\ KeyRead'
    BY <2>1 DEF Served, OneNode, KeyRead
  <2>5. KeyThere'
    BY <2>2, <2>3 DEF KeyThere, serving
  <2>6. Sealed'
    BY <2>1, <2>2 DEF Sealed, KeyRead
  <2>7. Found'
    BY <2>1, <2>3 DEF Found, serving
  <2> QED BY <2>4, <2>5, <2>6, <2>7 DEF NodesInv
<1> QED BY <1>1, <1>2

(* What a map holds, and what was answered, has its metadata: no handler   *)
(* is removing it.                                                         *)
Mapped(o) == o \in acked \/ \E k \in Nodes : o \in files[k]
Unlisted == \A h \in Handlers : pc[h] = "remove" => ~Mapped(obj[h])
Present == \A o \in Objects : Mapped(o) => meta[o] # none

PresentInv == outlived \/ (Unlisted /\ Present)

LEMMA PresentInit == Init => PresentInv
  BY DEF Init, PresentInv, Unlisted, Present, Mapped

(* A handler's step.                                                       *)
LEMMA PresentMoves ==
  ASSUME WholeInv, Unlisted, Present, NEW h \in Handlers, NEW p, p = obj[h],
         \A g \in Handlers \ {h} : mine(g)' = mine(g),
         \A o \in Objects \ {p} : meta[o] # none => meta'[o] # none,
         p \in Objects /\ Mapped(p)' => meta'[p] # none,
         \A o : Mapped(o)' => \/ Mapped(o) \/ (pc[h] = "register" /\ o = p),
         pc'[h] = "remove" => ~Mapped(p) /\ obj'[h] = p /\ pc[h] # "register"
  PROVE  Unlisted' /\ Present'
<1>1. \A g \in Handlers \ {h} : pc'[g] = pc[g] /\ obj'[g] = obj[g]
  BY DEF mine
<1>2. Unlisted'
  <2>1. ASSUME NEW g \in Handlers, pc'[g] = "remove", NEW q, q = obj'[g] PROVE ~Mapped(q)'
    <3>1. CASE g = h
      BY <2>1, <3>1
    <3>2. CASE g # h
      <4>1. pc[g] = "remove" /\ q = obj[g]
        BY <1>1, <2>1, <3>2
      <4>2. pc[h] = "register" => q # p
        BY <3>2, <4>1 DEF WholeInv, Exclusive, owning
      <4> QED BY <4>1, <4>2 DEF Unlisted
    <3> QED BY <3>1, <3>2
  <2> QED BY <2>1 DEF Unlisted, Mapped
<1>3. Present'
  <2>1. ASSUME NEW o \in Objects, Mapped(o)' PROVE meta'[o] # none
    BY <2>1 DEF Present
  <2> QED BY <2>1 DEF Present
<1> QED BY <1>2, <1>3

LEMMA PresentHandler ==
  ASSUME WholeInv, Unlisted, Present, NEW h \in Handlers,
         \/ \E k \in Nodes : Download(h, k) \/ \E u \in Uploads : Upload(h, k, u)
         \/ Lock(h) \/ Find(h) \/ Put(h) \/ Get(h)
  PROVE  Unlisted' /\ Present'
<1> USE DEF mine, handler, nodes, disk, ghosts, step, leave
<1>1. CASE \/ \E k \in Nodes : Download(h, k) \/ \E u \in Uploads : Upload(h, k, u)
           \/ Lock(h) \/ Find(h) \/ Get(h) \/ Reserve(h) \/ Refuse(h) \/ MkdirFails(h)
           \/ (\E o \in Objects : Mkdir(h, o)) \/ Write(h)
  <2>1. /\ UNCHANGED <<meta, files, acked>> /\ pc'[h] # "remove"
        /\ \A g \in Handlers \ {h} : mine(g)' = mine(g)
    BY <1>1 DEF Download, Upload, Lock, Find, Get, ReadShard, Serve, Insufficient, Reserve,
                Refuse, MkdirFails, Mkdir, Write, WholeInv, Domains
  <2>2. \A o : Mapped(o)' <=> Mapped(o)
    BY <2>1 DEF Mapped
  <2>3. \A o \in Objects : Mapped(o)' => meta'[o] # none
    BY <2>1, <2>2 DEF Present
  <2> HIDE DEF mine
  <2> QED BY <2>1, <2>2, <2>3, PresentMoves
<1>2. CASE Deduplicate(h)
  <2>1. /\ UNCHANGED <<meta, files>> /\ pc'[h] # "remove" /\ on[h] \in Nodes
        /\ \A o \in acked' : o \in acked \/ o \in files[on[h]]
        /\ \A g \in Handlers \ {h} : mine(g)' = mine(g)
    BY <1>2 DEF Deduplicate, known, answered, WholeInv, Domains, HandlerInv
  <2>2. \A o : Mapped(o)' => Mapped(o)
    BY <2>1 DEF Mapped
  <2>3. \A o \in Objects : Mapped(o)' => meta'[o] # none
    BY <2>1, <2>2 DEF Present
  <2> HIDE DEF mine
  <2> QED BY <2>1, <2>2, <2>3, PresentMoves
<1>3. CASE WriteFails(h) \/ Rename(h) \/ SyncFails(h)
  <2>1. /\ pc[h] \in {"write", "rename"} /\ UNCHANGED <<files, acked>> /\ obj' = obj
        /\ \A g \in Handlers \ {h} : mine(g)' = mine(g)
    BY <1>3 DEF WriteFails, Rename, SyncFails, WholeInv, Domains
  <2>2. obj[h] \in Objects /\ meta[obj[h]] = none
    BY <2>1 DEF WholeInv, HandlerInv, Writing, DiskInv
  <2>3. ~Mapped(obj[h]) /\ \A o : Mapped(o)' <=> Mapped(o)
    BY <2>1, <2>2 DEF Present, Mapped
  <2>4. \A o \in Objects \ {obj[h]} : meta'[o] = meta[o]
    BY <1>3, <2>2 DEF WriteFails, Rename, SyncFails, place, WholeInv, DiskInv
  <2> HIDE DEF mine
  <2> QED BY <2>1, <2>3, <2>4, PresentMoves
<1>4. CASE RemoveFile(h) \/ RemoveDirectory(h)
  <2>1. /\ pc[h] = "remove" /\ UNCHANGED <<files, acked>>
        /\ pc'[h] = "remove" => obj'[h] = obj[h]
        /\ \A g \in Handlers \ {h} : mine(g)' = mine(g)
    BY <1>4 DEF RemoveFile, RemoveDirectory, WholeInv, Domains
  <2>2. obj[h] \in Objects /\ ~Mapped(obj[h]) /\ \A o : Mapped(o)' <=> Mapped(o)
    <3>1. \A o : Mapped(o)' <=> Mapped(o)
      BY <2>1 DEF Mapped
    <3> QED BY <2>1, <3>1 DEF WholeInv, HandlerInv, Removing, DiskInv, Unlisted
  <2>3. \A o \in Objects \ {obj[h]} : meta'[o] = meta[o]
    BY <1>4, <2>2 DEF RemoveFile, RemoveDirectory, WholeInv, DiskInv
  <2> HIDE DEF mine
  <2> QED BY <2>1, <2>2, <2>3, PresentMoves
<1>5. CASE Register(h)
  <2>1. /\ pc[h] = "register" /\ meta' = meta /\ pc'[h] # "remove"
        /\ files' = [files EXCEPT ![on[h]] = @ \cup {obj[h]}]
        /\ acked' \subseteq acked \cup {obj[h]} /\ on[h] \in Nodes
        /\ \A g \in Handlers \ {h} : mine(g)' = mine(g)
    BY <1>5 DEF Register, answered, WholeInv, Domains, HandlerInv
  <2>2. meta[obj[h]] # none
    BY <2>1 DEF WholeInv, HandlerInv, Registering
  <2>3. \A o : Mapped(o)' => Mapped(o) \/ o = obj[h]
    BY <2>1 DEF Mapped, WholeInv, Domains
  <2> HIDE DEF mine
  <2> QED BY <2>1, <2>2, <2>3, PresentMoves
<1> QED BY <1>1, <1>2, <1>3, <1>4, <1>5 DEF Put

LEMMA PresentNext ==
  ASSUME WholeInv, NodesInv, PresentInv, [Next]_vars
  PROVE  PresentInv'
<1> SUFFICES ASSUME ~outlived' PROVE Unlisted' /\ Present'
  BY DEF PresentInv
<1> USE DEF secrets, disk, nodes, handler, ghosts
<1>1. CASE UNCHANGED vars
  BY <1>1 DEF vars, PresentInv, Unlisted, Present, Mapped
<1>2. ASSUME NEW k \in Nodes, Opening(k) \/ CFSStop(k) \/ Stopped(k)
      PROVE  Unlisted' /\ Present'
  <2>1. UNCHANGED <<meta, objects, pc, obj, acked>> /\ ~outlived
    BY <1>2 DEF Opening, CFSStart, OpenKey, OpenIdentity, OpenFiles, OpenFails, CFSStop,
                Stopped
  <2>2. CASE OpenFiles(k)
    <3>1. \A h \in Handlers : pc[h] = "idle"
      BY <2>1, <2>2 DEF OpenFiles, NodesInv, Served, OneNode, serving, WholeInv, HandlerInv
    <3>2. \A j \in Nodes : \A o \in files'[j] : o \in files[j] \/ meta[o] # none
      BY <2>2 DEF OpenFiles, WholeInv, Domains
    <3> QED BY <2>1, <3>1, <3>2 DEF PresentInv, Unlisted, Present, Mapped
  <2>3. CASE ~OpenFiles(k)
    <3>1. \A j \in Nodes : files'[j] \subseteq files[j]
      BY <1>2, <2>3 DEF Opening, CFSStart, OpenKey, OpenIdentity, OpenFails, CFSStop,
                        Stopped, WholeInv, Domains
    <3> QED BY <2>1, <3>1 DEF PresentInv, Unlisted, Present, Mapped
  <2> QED BY <2>2, <2>3
<1>3. CASE Crash
  BY <1>3 DEF Crash, PresentInv, Unlisted, Present, Mapped
<1>4. CASE \/ LoseSecret \/ RestoreSecrets
           \/ \E o \in Objects : \E lost \in SUBSET Shards : Damage(o, lost)
  BY <1>4 DEF LoseSecret, RestoreSecrets, Damage, PresentInv, Unlisted, Present, Mapped
<1>5. ASSUME NEW h \in Handlers,
             \/ \E k \in Nodes : Download(h, k) \/ \E u \in Uploads : Upload(h, k, u)
             \/ Lock(h) \/ Find(h) \/ Put(h) \/ Get(h)
      PROVE  Unlisted' /\ Present'
  <2>1. outlived' = outlived
    BY <1>5 DEF Download, Upload, Lock, Find, Put, Get, ReadShard, Serve, Insufficient,
       Deduplicate, Reserve, Refuse, Mkdir, MkdirFails, Write, Rename, SyncFails, WriteFails,
       RemoveFile, RemoveDirectory, Register
  <2> QED BY <1>5, <2>1, PresentHandler DEF PresentInv
<1> QED BY <1>1, <1>2, <1>3, <1>4, <1>5 DEF Next

(* No handler of another node, and no object, changes when a node does.    *)
LEMMA NodesOpen ==
  ASSUME WholeInv, NodesInv, PresentInv, NEW k \in Nodes, Opening(k)
  PROVE  NodesInv'
<1> USE DEF WholeInv, Domains, to, serving, disk, handler, ghosts
<1>1. UNCHANGED <<objects, sealed, meta, pc, on, acked, outlived>>
  BY DEF Opening, CFSStart, OpenKey, OpenIdentity, OpenFiles, OpenFails
<1>2. ASSUME outlived PROVE NodesInv'
  BY <1>1, <1>2 DEF NodesInv, Opening, CFSStart, OpenKey, OpenIdentity, OpenFiles, OpenFails,
                    secrets
<1>3. ASSUME ~outlived, CFSStart(k) PROVE NodesInv'
  <2>1. /\ UNCHANGED <<key, made, aead, files>> /\ secretsKept
        /\ \A j \in Nodes : life[j] = "gone" /\ life'[j] = IF j = k THEN "key" ELSE "gone"
    BY <1>3 DEF CFSStart, secrets
  <2>2. \A h \in Handlers : pc[h] = "idle"
    BY <1>3, <2>1 DEF NodesInv, Served, HandlerInv
  <2> QED BY <1>1, <1>3, <2>1, <2>2
          DEF NodesInv, Served, OneNode, KeyRead, KeyThere, Sealed, Found, secretsKept
<1>4. ASSUME ~outlived, OpenKey(k) PROVE NodesInv'
  <2>1. /\ life[k] = "key" /\ files' = files
        /\ made' = (IF key = 0 THEN made + 1 ELSE made)
        /\ key' = (IF key = 0 THEN made' ELSE key)
        /\ aead' = [aead EXCEPT ![k] = key']
        /\ life' = [life EXCEPT ![k] = "identity"]
    BY <1>4 DEF OpenKey
  <2>2. /\ \A j \in Nodes \ {k} : life[j] = "gone"
        /\ \A h \in Handlers : pc[h] = "idle"
        /\ objects = {} \/ key # 0
    BY <1>4, <2>1 DEF NodesInv, Served, OneNode, KeyThere, HandlerInv
  <2>3. key' = made' /\ made' \in Nat /\ (objects = {} \/ made' = made)
    BY <2>1, <2>2 DEF NodesInv
  <2> QED BY <1>1, <1>4, <2>1, <2>2, <2>3
          DEF NodesInv, Served, OneNode, KeyRead, KeyThere, Sealed, Found
<1>5. ASSUME ~outlived, OpenIdentity(k) PROVE NodesInv'
  BY <1>1, <1>5 DEF OpenIdentity, NodesInv, Served, OneNode, KeyRead, KeyThere, Sealed,
                    Found, HandlerInv
<1>6. ASSUME ~outlived, OpenFiles(k) PROVE NodesInv'
  <2>1. /\ life[k] = "files" /\ UNCHANGED <<key, made>>
        /\ \A j \in Nodes \ {k} : life[j] = "gone" /\ life'[j] = "gone"
        /\ \A h \in Handlers : pc[h] = "idle"
    BY <1>6 DEF OpenFiles, NodesInv, Served, OneNode, HandlerInv, secrets
  <2>2. /\ life'[k] = "up" /\ aead' = aead
        /\ files' = [files EXCEPT ![k] = {o \in objects : meta[o] # none}]
    BY <1>6 DEF OpenFiles
  <2>3. \A o \in acked : o \in files'[k]
    <3>1. \A o \in acked : o \in Objects /\ meta[o] # none
      BY <1>6 DEF DiskInv, PresentInv, Present, Mapped
    <3> QED BY <2>2, <3>1 DEF DiskInv
  <2> QED BY <1>1, <1>6, <2>1, <2>2, <2>3
          DEF NodesInv, Served, OneNode, KeyRead, KeyThere, Sealed, Found
<1>7. ASSUME ~outlived, OpenFails(k) PROVE NodesInv'
  BY <1>1, <1>7 DEF OpenFails, NodesInv, Served, OneNode, KeyRead, KeyThere, Sealed, Found,
                    HandlerInv, secrets
<1> QED BY <1>2, <1>3, <1>4, <1>5, <1>6, <1>7 DEF Opening

LEMMA NodesStop ==
  ASSUME WholeInv, NodesInv, NEW k \in Nodes, CFSStop(k) \/ Stopped(k)
  PROVE  NodesInv'
<1> USE DEF WholeInv, Domains, to, serving, disk, handler, ghosts, secrets
<1>1. UNCHANGED <<key, made, objects, sealed, pc, on, acked>>
  BY DEF CFSStop, Stopped
<1>2. ASSUME outlived' PROVE NodesInv'
  BY <1>1, <1>2 DEF NodesInv
<1>3. ASSUME ~outlived', CFSStop(k) PROVE NodesInv'
  BY <1>1, <1>3 DEF CFSStop, NodesInv, Served, OneNode, KeyRead, KeyThere, Sealed, Found,
                    HandlerInv
<1>4. ASSUME ~outlived', Stopped(k) PROVE NodesInv'
  <2>1. /\ busyOn(k) = {} /\ ~outlived
        /\ life' = [life EXCEPT ![k] = "gone"]
        /\ files' = [files EXCEPT ![k] = {}] /\ aead' = [aead EXCEPT ![k] = 0]
    BY <1>4 DEF Stopped
  <2>2. \A h \in Handlers : pc[h] # "idle" => on[h] \in Nodes \ {k}
    BY <2>1 DEF busyOn, HandlerInv
  <2> QED BY <1>1, <2>1, <2>2
          DEF NodesInv, Served, OneNode, KeyRead, KeyThere, Sealed, Found
<1> QED BY <1>2, <1>3, <1>4

LEMMA NodesNext ==
  ASSUME WholeInv, NodesInv, PresentInv, [Next]_vars
  PROVE  NodesInv'
<1> USE DEF secrets, disk, nodes, handler, ghosts
<1>1. CASE UNCHANGED vars
  BY <1>1 DEF vars, NodesInv, Served, OneNode, KeyRead, KeyThere, Sealed, Found
<1>2. ASSUME NEW k \in Nodes, Opening(k) \/ CFSStop(k) \/ Stopped(k)
      PROVE  NodesInv'
  BY <1>2, NodesOpen, NodesStop
<1>3. CASE Crash
  BY <1>3 DEF Crash, NodesInv, Served, OneNode, KeyRead, KeyThere, Sealed, Found, serving
<1>4. ASSUME NEW o \in Objects, NEW lost \in SUBSET Shards, Damage(o, lost)
      PROVE  NodesInv'
  BY <1>4 DEF Damage, NodesInv, Served, OneNode, KeyRead, KeyThere, Sealed, Found
<1>5. CASE LoseSecret \/ RestoreSecrets
  <2>1. \A k \in Nodes : life[k] # "key"
    BY <1>5 DEF LoseSecret, RestoreSecrets
  <2>2. key' \in {0, key, made}
        /\ UNCHANGED <<made, life, aead, files, objects, sealed, pc, on, acked, outlived>>
    BY <1>5 DEF LoseSecret, RestoreSecrets
  <2> QED BY <2>1, <2>2 DEF NodesInv, Served, OneNode, KeyRead, KeyThere, Sealed, Found
<1>6. ASSUME NEW h \in Handlers, NEW k \in Nodes,
             Download(h, k) \/ \E u \in Uploads : Upload(h, k, u)
      PROVE  NodesInv'
  <2>1. /\ life[k] = "up" /\ on' = [on EXCEPT ![h] = k]
        /\ \A g \in Handlers \ {h} : pc'[g] = pc[g]
        /\ UNCHANGED <<key, made, life, aead, files, objects, sealed, acked, outlived>>
    BY <1>6 DEF Download, Upload, step, WholeInv, Domains
  <2> QED BY <2>1 DEF NodesInv, WholeInv, Domains, Served, OneNode, KeyRead, KeyThere,
                      Sealed, Found, serving
<1>7. ASSUME NEW h \in Handlers,
             \/ Lock(h) \/ Reserve(h) \/ Write(h) \/ Rename(h) \/ SyncFails(h)
             \/ WriteFails(h) \/ RemoveFile(h) \/ Find(h) \/ ReadShard(h)
             \/ Refuse(h) \/ MkdirFails(h) \/ Serve(h) \/ Insufficient(h)
      PROVE  NodesInv'
  <2>1. /\ pc[h] # "idle"
        /\ UNCHANGED <<key, made, life, aead, files, objects, sealed, acked, outlived>>
    BY <1>7 DEF Lock, Reserve, Write, Rename, SyncFails, WriteFails, RemoveFile, Find,
                ReadShard, Refuse, MkdirFails, Serve, Insufficient
  <2>2. \A g \in Handlers : pc'[g] # "idle" => pc[g] # "idle" /\ on'[g] = on[g]
    BY <1>7, <2>1 DEF Lock, Reserve, Write, Rename, SyncFails, WriteFails, RemoveFile, Find,
                ReadShard, Refuse, MkdirFails, Serve, Insufficient, step, leave, WholeInv,
                Domains
  <2> QED BY <2>1, <2>2, NodesServe
<1>8. ASSUME NEW h \in Handlers, Deduplicate(h) PROVE NodesInv'
  <2>1. /\ pc[h] # "idle" /\ leave(h)
        /\ UNCHANGED <<key, made, life, aead, files, objects, sealed, outlived>>
        /\ \A o \in acked' : o \in acked \/ o \in files[on[h]]
    BY <1>8 DEF Deduplicate, answered, known
  <2>2. \A g \in Handlers : pc'[g] # "idle" => pc[g] # "idle" /\ on'[g] = on[g]
    BY <2>1 DEF leave, step, WholeInv, Domains
  <2> QED BY <2>1, <2>2, NodesServe
<1>9. ASSUME NEW h \in Handlers, NEW o \in Objects, Mkdir(h, o) PROVE NodesInv'
  <2>1. /\ pc[h] # "idle" /\ objects' = objects \cup {o}
        /\ sealed' = [sealed EXCEPT ![o] = aead[on[h]]]
        /\ UNCHANGED <<key, made, life, aead, files, acked, on, outlived>>
        /\ \A g \in Handlers \ {h} : pc'[g] = pc[g]
    BY <1>9 DEF Mkdir, step, WholeInv, Domains
  <2>2. \A p \in objects' :
           (p \in objects /\ sealed'[p] = sealed[p]) \/ sealed'[p] = aead[on[h]]
    BY <2>1 DEF WholeInv, Domains, DiskInv
  <2> QED BY <2>1, <2>2, NodesServe
<1>10. ASSUME NEW h \in Handlers, RemoveDirectory(h) PROVE NodesInv'
  <2>1. /\ pc[h] # "idle"
        /\ UNCHANGED <<key, made, life, aead, files, acked, outlived>>
    BY <1>10 DEF RemoveDirectory
  <2>2. \A p \in objects' : p \in objects /\ sealed'[p] = sealed[p]
    <3>1. obj[h] \in objects
      BY <1>10 DEF RemoveDirectory, WholeInv, HandlerInv, Removing
    <3> QED BY <1>10, <3>1 DEF RemoveDirectory, WholeInv, Domains, DiskInv
  <2>3. \A g \in Handlers : pc'[g] # "idle" => pc[g] # "idle" /\ on'[g] = on[g]
    BY <1>10 DEF RemoveDirectory, leave, step, WholeInv, Domains
  <2> QED BY <2>1, <2>2, <2>3, NodesServe
<1>11. ASSUME NEW h \in Handlers, Register(h) PROVE NodesInv'
  <2>1. /\ pc[h] # "idle" /\ leave(h) /\ on[h] \in Nodes
        /\ files' = [files EXCEPT ![on[h]] = @ \cup {obj[h]}]
        /\ acked' \subseteq acked \cup {obj[h]}
        /\ UNCHANGED <<key, made, life, aead, objects, sealed, outlived>>
    BY <1>11 DEF Register, answered, WholeInv, HandlerInv
  <2>2. \A g \in Handlers : pc'[g] # "idle" => pc[g] # "idle" /\ on'[g] = on[g]
    BY <2>1 DEF leave, step, WholeInv, Domains
  <2>3. /\ \A k \in Nodes : files[k] \subseteq files'[k]
        /\ obj[h] \in files'[on[h]]
    BY <2>1 DEF WholeInv, Domains
  <2> QED BY <2>1, <2>2, <2>3, NodesServe
<1> QED BY <1>1, <1>2, <1>3, <1>4, <1>5, <1>6, <1>7, <1>8, <1>9, <1>10, <1>11
        DEF Next, Put, Get

-----------------------------------------------------------------------------
HandlerStep(h) ==
  \/ \E k \in Nodes : Download(h, k) \/ \E u \in Uploads : Upload(h, k, u)
  \/ Lock(h) \/ Find(h) \/ Put(h) \/ Get(h)

(* A step of a handler is nobody else's: the other handlers and the lives  *)
(* of the nodes stay as they are.                                          *)
LEMMA OthersStay ==
  ASSUME WholeInv, NEW h \in Handlers, HandlerStep(h)
  PROVE  /\ \A g \in Handlers \ {h} : mine(g)' = mine(g)
         /\ UNCHANGED <<secrets, life, aead, outlived>>
<1> USE DEF mine, WholeInv, Domains, handler, nodes, ghosts, secrets, step, leave
<1>1. CASE \/ \E k \in Nodes : Download(h, k) \/ \E u \in Uploads : Upload(h, k, u)
           \/ Lock(h) \/ Find(h) \/ Get(h)
  BY <1>1 DEF Download, Upload, Lock, Find, Get, ReadShard, Serve, Insufficient
<1>2. CASE Put(h)
  BY <1>2 DEF Put, Deduplicate, Reserve, Refuse, Mkdir, MkdirFails, Write, Rename,
              SyncFails, WriteFails, RemoveFile, RemoveDirectory, Register
<1> QED BY <1>1, <1>2 DEF HandlerStep

LEMMA OutlivedStays == ASSUME WholeInv, [Next]_vars PROVE outlived => outlived'
<1>1. ASSUME NEW h \in Handlers, HandlerStep(h) PROVE outlived' = outlived
  BY <1>1, OthersStay
<1> QED BY <1>1 DEF Next, HandlerStep, vars, ghosts, Opening, CFSStart, OpenKey, OpenIdentity,
                    OpenFiles, OpenFails, CFSStop, Stopped, Crash, LoseSecret, RestoreSecrets,
                    Damage

IdentityInv == identity \in BOOLEAN

LEMMA IdentityNext == ASSUME WholeInv, IdentityInv, [Next]_vars PROVE IdentityInv'
<1>1. ASSUME NEW h \in Handlers, HandlerStep(h) PROVE identity' = identity
  BY <1>1, OthersStay DEF secrets
<1> QED BY <1>1 DEF Next, HandlerStep, IdentityInv, vars, secrets, Opening, CFSStart, OpenKey,
                    OpenIdentity, OpenFiles, OpenFails, CFSStop, Stopped, Crash, LoseSecret,
                    RestoreSecrets, Damage

-----------------------------------------------------------------------------
(* What each handler has of its own, and the mutex of its node.            *)

steps == {"idle", "lock", "search", "mkdir", "write", "rename", "remove", "register",
          "find", "read"}
holding == {"search", "mkdir", "write", "rename", "remove", "register"}

Local(h) ==
  /\ pc[h] \in steps /\ got[h] \subseteq Shards
  /\ next[h] \in 0..(DataShards + ParityShards + 1)
  /\ pc[h] \in {"idle", "find"} => got[h] = {}
  /\ pc[h] \in holding => lock[on[h]] = h

LocalInv ==
  /\ lock \in [Nodes -> Handlers \cup {none}]
  /\ \A h \in Handlers : Local(h)

LEMMA LocalInit == Init => LocalInv
  BY ShardsAssumption DEF Init, LocalInv, Local, steps, holding

(* A step of one handler: no other one stands at the mutex it changes.     *)
LEMMA LocalMoves ==
  ASSUME WholeInv, LocalInv, NEW h \in Handlers,
         \A g \in Handlers \ {h} : mine(g)' = mine(g) /\ got'[g] = got[g],
         \/ lock' = lock
         \/ /\ on[h] \in Nodes /\ lock[on[h]] \in {none, h}
            /\ \E l \in {none, h} : lock' = [lock EXCEPT ![on[h]] = l],
         Local(h)'
  PROVE  LocalInv'
<1>1. \A g \in Handlers \ {h} :
        pc'[g] = pc[g] /\ on'[g] = on[g] /\ next'[g] = next[g] /\ got'[g] = got[g]
  BY DEF mine
<1>2. lock' \in [Nodes -> Handlers \cup {none}]
  BY DEF LocalInv
<1>3. ASSUME NEW g \in Handlers \ {h}, pc[g] \in holding
      PROVE  lock'[on[g]] = g
  <2>1. lock[on[g]] = g /\ g # none /\ on[g] \in Nodes
    BY <1>3, NamesAssumption DEF LocalInv, Local, holding, WholeInv, HandlerInv
  <2>2. lock[on[h]] \in {none, h} => on[g] # on[h]
    BY <2>1
  <2> QED BY <2>1, <2>2 DEF LocalInv
<1>4. \A g \in Handlers \ {h} : Local(g)'
  BY <1>1, <1>3 DEF LocalInv, Local
<1> QED BY <1>2, <1>4 DEF LocalInv

LEMMA LocalStays ==
  ASSUME WholeInv, LocalInv, UNCHANGED <<lock, pc, handler>>
  PROVE  LocalInv'
  BY DEF LocalInv, Local, handler

LEMMA LocalLeaves ==
  ASSUME WholeInv, LocalInv, NEW h \in Handlers, leave(h),
         lock' = lock \/ (unlock(h) /\ pc[h] \in holding)
  PROVE  LocalInv'
<1>1. /\ pc'[h] = "idle" /\ next'[h] = 0 /\ got'[h] = {}
      /\ \A g \in Handlers \ {h} : mine(g)' = mine(g) /\ got'[g] = got[g]
  BY DEF leave, step, mine, WholeInv, Domains
<1>2. Local(h)'
  BY <1>1, ShardsAssumption DEF Local, steps, holding
<1>3. pc[h] \in holding => on[h] \in Nodes /\ lock[on[h]] = h
  BY DEF WholeInv, HandlerInv, LocalInv, Local, holding
<1> QED BY <1>1, <1>2, <1>3, LocalMoves DEF unlock

LEMMA LocalNext ==
  ASSUME WholeInv, LocalInv, [Next]_vars
  PROVE  LocalInv'
<1> USE DEF nodes, handler
<1>1. CASE UNCHANGED vars
  BY <1>1, LocalStays DEF vars
<1>2. ASSUME NEW k \in Nodes, Opening(k) \/ CFSStop(k) \/ Stopped(k)
      PROVE  LocalInv'
  BY <1>2, LocalStays DEF Opening, CFSStart, OpenKey, OpenIdentity, OpenFiles, OpenFails,
                          CFSStop, Stopped
<1>3. CASE Crash
  BY <1>3, ShardsAssumption DEF Crash, LocalInv, Local, steps, holding
<1>4. ASSUME NEW o \in Objects, NEW lost \in SUBSET Shards, Damage(o, lost)
      PROVE  LocalInv'
  BY <1>4, LocalStays DEF Damage
<1>5. CASE LoseSecret \/ RestoreSecrets
  BY <1>5, LocalStays DEF LoseSecret, RestoreSecrets
<1>6. ASSUME NEW h \in Handlers, NEW k \in Nodes,
             Download(h, k) \/ \E u \in Uploads : Upload(h, k, u)
      PROVE  LocalInv'
  <2>1. /\ pc[h] = "idle" /\ pc'[h] \in {"find", "lock"}
        /\ \A g \in Handlers \ {h} : mine(g)' = mine(g) /\ got'[g] = got[g]
        /\ UNCHANGED <<lock, next, got>>
    BY <1>6 DEF Download, Upload, step, mine, WholeInv, Domains
  <2>2. Local(h)'
    BY <2>1 DEF LocalInv, Local, steps, holding
  <2> QED BY <2>1, <2>2, LocalMoves
<1>7. ASSUME NEW h \in Handlers, Lock(h) PROVE LocalInv'
  <2>1. /\ pc[h] = "lock" /\ pc'[h] = "search" /\ lock[on[h]] = none
        /\ lock' = [lock EXCEPT ![on[h]] = h]
        /\ \A g \in Handlers \ {h} : mine(g)' = mine(g) /\ got'[g] = got[g]
        /\ UNCHANGED <<on, next, got>>
    BY <1>7 DEF Lock, mayWrite, step, mine, WholeInv, Domains
  <2>2. on[h] \in Nodes
    BY <2>1 DEF WholeInv, HandlerInv
  <2>3. Local(h)'
    BY <2>1, <2>2 DEF LocalInv, Local, steps, holding
  <2> QED BY <2>1, <2>2, <2>3, LocalMoves
<1>8. ASSUME NEW h \in Handlers,
             \/ Reserve(h) \/ Write(h) \/ WriteFails(h) \/ Rename(h) \/ SyncFails(h)
             \/ \E o \in Objects : Mkdir(h, o)
      PROVE  LocalInv'
  <2>1. /\ pc[h] \in holding /\ pc'[h] \in holding
        /\ \A g \in Handlers \ {h} : mine(g)' = mine(g) /\ got'[g] = got[g]
        /\ UNCHANGED <<lock, on, got>>
        /\ next'[h] = next[h] \/ (pc[h] = "rename" /\ next'[h] = next[h] + 1)
    BY <1>8 DEF Reserve, Write, WriteFails, Rename, SyncFails, Mkdir, step, mine, WholeInv,
                Domains, holding
  <2>2. pc[h] = "rename" => next[h] \in 0..(DataShards + ParityShards)
    BY DEF WholeInv, HandlerInv, Writing
  <2>3. Local(h)'
    BY <2>1, <2>2, ShardsAssumption DEF LocalInv, Local, steps, holding
  <2> QED BY <2>1, <2>3, LocalMoves
<1>9. ASSUME NEW h \in Handlers, RemoveFile(h) \/ RemoveDirectory(h) PROVE LocalInv'
  BY <1>9, LocalStays, LocalLeaves DEF RemoveFile, RemoveDirectory, holding
<1>10. ASSUME NEW h \in Handlers,
              Deduplicate(h) \/ Refuse(h) \/ MkdirFails(h) \/ Register(h)
       PROVE  LocalInv'
  BY <1>10, LocalLeaves DEF Deduplicate, Refuse, MkdirFails, Register, holding
<1>11. ASSUME NEW h \in Handlers, Find(h) \/ Serve(h) \/ Insufficient(h) PROVE LocalInv'
  <2>1. CASE leave(h)
    BY <1>11, <2>1, LocalLeaves DEF Find, Serve, Insufficient
  <2>2. CASE /\ pc[h] = "find" /\ pc'[h] = "read" /\ UNCHANGED <<lock, on, next, got>>
             /\ \A g \in Handlers \ {h} : mine(g)' = mine(g) /\ got'[g] = got[g]
    <3>1. Local(h)'
      BY <2>2 DEF LocalInv, Local, steps, holding
    <3> QED BY <2>2, <3>1, LocalMoves
  <2> QED BY <1>11, <2>1, <2>2 DEF Find, Serve, Insufficient, step, mine, WholeInv, Domains
<1>12. ASSUME NEW h \in Handlers, ReadShard(h) PROVE LocalInv'
  <2>1. /\ pc[h] = "read" /\ next[h] \in Shards /\ UNCHANGED <<lock, pc, on>>
        /\ next'[h] = next[h] + 1 /\ got'[h] \subseteq got[h] \cup {next[h]}
        /\ \A g \in Handlers \ {h} : mine(g)' = mine(g) /\ got'[g] = got[g]
    BY <1>12 DEF ReadShard, shardsLeft, mine, WholeInv, Domains
  <2>2. Local(h)'
    BY <2>1, ShardsAssumption DEF LocalInv, Local, Shards, holding
  <2> QED BY <2>1, <2>2, LocalMoves
<1> QED BY <1>1, <1>2, <1>3, <1>4, <1>5, <1>6, <1>7, <1>8, <1>9, <1>10, <1>11, <1>12
        DEF Next, Put, Get

-----------------------------------------------------------------------------
(* What is written for each object: no two of the steps that write or      *)
(* remove are at the same directory.                                       *)

Stored(h) ==
  /\ pc[h] \in {"write", "rename"} =>
       content[obj[h]] = up[h] /\ shard[obj[h]] = {i \in Shards : i < next[h]}
  /\ pc[h] \in {"write", "remove"} => temp[obj[h]] = 0
  /\ pc[h] = "rename" => temp[obj[h]] = sizeOf(h)

Kept(o) ==
  /\ shard[o] \cap bad[o] = {} /\ meta[o] \in {none, content[o]}
  /\ meta[o] = none /\ o \notin withdrawn => bad[o] = {}
  /\ o \in objects => content[o] \in Uploads
  /\ o \notin objects => shard[o] = {} /\ bad[o] = {} /\ temp[o] = 0

StoreInv ==
  /\ content \in [Objects -> Uploads \cup {none}] /\ temp \in [Objects -> Nat]
  /\ \A o \in Objects : Kept(o)
  /\ \A h \in Handlers : Stored(h)

LEMMA StoreInit == Init => StoreInv
  BY DEF Init, StoreInv, Stored, Kept

LEMMA ShardFileNat == ASSUME NEW u \in Uploads PROVE shardFile(u) \in Nat
<1>1. Length(u) + DataShards - 1 \in Nat /\ DataShards \in Nat \ {0} /\ Overhead \in Nat
  BY SizesAssumption, ShardsAssumption
<1>2. (Length(u) + DataShards - 1) \div DataShards \in Nat
  BY <1>1
<1> QED BY <1>1, <1>2 DEF shardFile

LEMMA SizeOfNat == ASSUME NEW h \in Handlers, up[h] \in Uploads PROVE sizeOf(h) \in Nat
  BY ShardFileNat, SizesAssumption DEF sizeOf

(* The steps that leave the disk as it is leave the writers where they are.*)
LEMMA StoreFrame ==
  ASSUME WholeInv, [Next]_vars
  PROVE  \/ /\ UNCHANGED disk
            /\ \A h \in Handlers : pc'[h] \in owning => mine(h)' = mine(h)
            /\ UNCHANGED withdrawn
         \/ \E o \in Objects : \E lost \in SUBSET Shards : Damage(o, lost)
         \/ \E h \in Handlers : \/ Write(h) \/ Rename(h) \/ SyncFails(h) \/ WriteFails(h)
                                \/ RemoveFile(h) \/ RemoveDirectory(h)
                                \/ \E o \in Objects : Mkdir(h, o)
<1> DEFINE Goal == /\ UNCHANGED disk
                   /\ \A h \in Handlers : pc'[h] \in owning => mine(h)' = mine(h)
                   /\ UNCHANGED withdrawn
<1> USE DEF ghosts, mine, handler, step, leave, owning, WholeInv, Domains
<1>1. CASE UNCHANGED vars
  BY <1>1 DEF vars
<1>2. ASSUME NEW k \in Nodes, Opening(k) \/ CFSStop(k) \/ Stopped(k) PROVE Goal
  BY <1>2 DEF Opening, CFSStart, OpenKey, OpenIdentity, OpenFiles, OpenFails, CFSStop,
              Stopped
<1>3. CASE Crash \/ LoseSecret \/ RestoreSecrets
  BY <1>3 DEF Crash, LoseSecret, RestoreSecrets
<1>4. ASSUME NEW h \in Handlers, NEW k \in Nodes,
             Download(h, k) \/ \E u \in Uploads : Upload(h, k, u)
      PROVE  Goal
  BY <1>4 DEF Download, Upload
<1>5. ASSUME NEW h \in Handlers,
             \/ Lock(h) \/ Find(h) \/ Get(h)
             \/ Deduplicate(h) \/ Reserve(h) \/ Refuse(h) \/ MkdirFails(h) \/ Register(h)
      PROVE  Goal
  BY <1>5 DEF Lock, Find, Get, ReadShard, Serve, Insufficient, Deduplicate, Reserve, Refuse,
              MkdirFails, Register
<1> HIDE DEF Goal
<1> QED BY <1>1, <1>2, <1>3, <1>4, <1>5 DEF Next, Put, Goal

LEMMA StoreWrites ==
  ASSUME WholeInv, StoreInv, NEW h \in Handlers, pc[h] \in owning,
         obj'[h] = obj[h], \A g \in Handlers \ {h} : mine(g)' = mine(g),
         \A o \in Objects \ {obj[h]} :
            /\ shard'[o] = shard[o] /\ bad'[o] = bad[o] /\ meta'[o] = meta[o]
            /\ temp'[o] = temp[o] /\ content'[o] = content[o]
            /\ (o \in objects' <=> o \in objects) /\ (o \in withdrawn' <=> o \in withdrawn),
         content' \in [Objects -> Uploads \cup {none}], temp' \in [Objects -> Nat],
         Kept(obj[h])', Stored(h)'
  PROVE  StoreInv'
<1>1. \A g \in Handlers \ {h} : /\ pc'[g] = pc[g] /\ up'[g] = up[g]
                                /\ obj'[g] = obj[g] /\ next'[g] = next[g]
  BY DEF mine
<1>2. \A o \in Objects : Kept(o)'
  BY DEF StoreInv, Kept
<1>3. ASSUME NEW g \in Handlers \ {h}, pc[g] \in owning
      PROVE  obj[g] \in Objects \ {obj[h]}
  BY <1>3 DEF WholeInv, DiskInv, Exclusive, HandlerInv, Writing, Removing, Registering, owning
<1>4. \A g \in Handlers \ {h} : Stored(g)'
  BY <1>1, <1>3 DEF StoreInv, Stored, sizeOf, shardsLeft, owning
<1> QED BY <1>2, <1>4 DEF StoreInv

LEMMA StoreMkdir ==
  ASSUME WholeInv, StoreInv, NEW h \in Handlers, NEW o \in Objects, Mkdir(h, o)
  PROVE  StoreInv'
<1>1. /\ pc[h] = "mkdir" /\ pc'[h] = "write" /\ obj'[h] = o /\ o \notin objects
      /\ objects' = objects \cup {o} /\ content' = [content EXCEPT ![o] = up[h]]
      /\ \A g \in Handlers \ {h} : mine(g)' = mine(g)
      /\ UNCHANGED <<up, next, shard, bad, meta, temp, withdrawn>>
  BY DEF Mkdir, fresh, step, mine, WholeInv, Domains, ghosts
<1>2. up[h] \in Uploads /\ next[h] = 0
  BY <1>1 DEF WholeInv, HandlerInv, Asking
<1>3. meta[o] = none /\ shard[o] = {} /\ temp[o] = 0 /\ bad[o] = {}
  BY <1>1 DEF WholeInv, DiskInv, StoreInv, Kept
<1>4. content'[o] = up[h] /\ content' \in [Objects -> Uploads \cup {none}]
      /\ \A p \in Objects \ {o} : content'[p] = content[p]
  BY <1>1, <1>2 DEF StoreInv
<1>5. \A p \in Objects : Kept(p)'
  BY <1>1, <1>2, <1>3, <1>4 DEF StoreInv, Kept
<1>6. Stored(h)'
  <2>1. {i \in Shards : i < 0} = {}
    BY ShardsAssumption DEF Shards
  <2> QED BY <1>1, <1>2, <1>3, <1>4, <2>1 DEF Stored
<1>7. ASSUME NEW g \in Handlers \ {h} PROVE Stored(g)'
  <2>1. /\ pc'[g] = pc[g] /\ up'[g] = up[g] /\ obj'[g] = obj[g] /\ next'[g] = next[g]
    BY <1>1 DEF mine
  <2>2. pc[g] \in owning => obj[g] \in Objects \ {o}
    BY <1>1 DEF WholeInv, DiskInv, HandlerInv, Writing, Removing, Registering, owning
  <2> QED BY <1>1, <1>4, <2>1, <2>2 DEF StoreInv, Stored, sizeOf, shardsLeft, owning
<1> QED BY <1>1, <1>4, <1>5, <1>6, <1>7 DEF StoreInv

LEMMA StoreWrite ==
  ASSUME WholeInv, StoreInv, NEW h \in Handlers, Write(h) \/ WriteFails(h)
  PROVE  StoreInv'
<1> DEFINE o == obj[h]
<1>1. /\ pc[h] \in {"write", "rename"}
      /\ UNCHANGED <<on, up, obj, next, objects, shard, bad, meta, content, withdrawn>>
      /\ \A g \in Handlers \ {h} : mine(g)' = mine(g)
  BY DEF Write, WriteFails, step, mine, handler, ghosts, WholeInv, Domains
<1>2. Writing(h) /\ o \in Objects /\ o \in objects /\ up[h] \in Uploads /\ sizeOf(h) \in Nat
  BY <1>1, SizeOfNat DEF WholeInv, DiskInv, HandlerInv, Writing
<1>3. /\ temp' \in [Objects -> Nat]
      /\ \A p \in Objects \ {o} : temp'[p] = temp[p]
      /\ \/ pc[h] = "write" /\ pc'[h] = "rename" /\ temp'[o] = sizeOf(h)
         \/ pc'[h] = "remove" /\ temp'[o] = 0
  BY <1>1, <1>2 DEF Write, WriteFails, step, StoreInv, Stored, WholeInv, Domains
<1>4. Kept(o)'
  BY <1>1, <1>2 DEF StoreInv, Kept
<1>5. Stored(h)'
  BY <1>1, <1>3 DEF StoreInv, Stored, sizeOf, shardsLeft
<1> QED BY <1>1, <1>2, <1>3, <1>4, <1>5, StoreWrites DEF StoreInv, owning

LEMMA StoreRename ==
  ASSUME WholeInv, StoreInv, NEW h \in Handlers, Rename(h) \/ SyncFails(h)
  PROVE  StoreInv'
<1> DEFINE o == obj[h]
<1>1. /\ pc[h] = "rename" /\ place(h) /\ withdrawn' \in {withdrawn, withdrawn \cup {o}}
      /\ \/ pc'[h] = "remove"
         \/ /\ pc'[h] = (IF shardsLeft(h) THEN "write" ELSE "register")
            /\ next'[h] = next[h] + 1
      /\ UNCHANGED <<on, up, obj, objects, bad, content>>
      /\ \A g \in Handlers \ {h} : mine(g)' = mine(g)
  BY DEF Rename, SyncFails, step, mine, handler, ghosts, WholeInv, Domains
<1>2. Writing(h) /\ o \in Objects /\ o \in objects /\ up[h] \in Uploads /\ sizeOf(h) \in Nat
  BY <1>1, SizeOfNat DEF WholeInv, DiskInv, HandlerInv, Writing
<1>3. /\ temp' \in [Objects -> Nat] /\ temp'[o] = 0
      /\ \A p \in Objects \ {o} : temp'[p] = temp[p]
  BY <1>1, <1>2 DEF place, StoreInv, Stored
<1>4. /\ \A p \in Objects \ {o} : shard'[p] = shard[p] /\ meta'[p] = meta[p]
      /\ IF shardsLeft(h) THEN shard'[o] = shard[o] \cup {next[h]} /\ meta'[o] = meta[o]
                          ELSE shard'[o] = shard[o] /\ meta'[o] = up[h]
  BY <1>1, <1>2 DEF place, WholeInv, DiskInv
<1>5. bad[o] = {} /\ content[o] = up[h] /\ shard[o] = {i \in Shards : i < next[h]}
  BY <1>1, <1>2 DEF StoreInv, Kept, Stored, Writing
<1>6. Kept(o)'
  BY <1>1, <1>2, <1>4, <1>5 DEF StoreInv, Kept
<1>7. Stored(h)'
  <2>1. shardsLeft(h) /\ pc'[h] = "write" => shard'[o] = {i \in Shards : i < next'[h]}
    BY <1>1, <1>4, <1>5, ShardsAssumption DEF shardsLeft, Shards
  <2> QED BY <1>1, <1>3, <1>5, <2>1 DEF Stored
<1> QED BY <1>1, <1>2, <1>3, <1>4, <1>6, <1>7, StoreWrites DEF StoreInv, owning

LEMMA StoreRemoveFile ==
  ASSUME WholeInv, StoreInv, NEW h \in Handlers, RemoveFile(h)
  PROVE  StoreInv'
<1> DEFINE o == obj[h]
<1>1. /\ pc[h] = "remove"
      /\ UNCHANGED <<objects, temp, content, pc, on, up, obj, next, withdrawn>>
  BY DEF RemoveFile, handler, ghosts
<1>2. /\ o \in Objects /\ o \in objects /\ temp[o] = 0
      /\ meta[o] = none \/ o \in withdrawn
  BY <1>1 DEF WholeInv, DiskInv, HandlerInv, Removing, StoreInv, Stored
<1>3. \E i, j : /\ shard' = shard \/ shard' = [shard EXCEPT ![o] = @ \ {i}]
                /\ bad' = bad \/ bad' = [bad EXCEPT ![o] = @ \ {j}]
  BY DEF RemoveFile
<1>4. /\ shard'[o] \subseteq shard[o] /\ bad'[o] \subseteq bad[o]
      /\ \A p \in Objects \ {o} : shard'[p] = shard[p] /\ bad'[p] = bad[p]
  BY <1>2, <1>3 DEF WholeInv, DiskInv
<1>5. meta'[o] \in {meta[o], none} /\ \A p \in Objects \ {o} : meta'[p] = meta[p]
  BY <1>2 DEF RemoveFile, WholeInv, DiskInv
<1>6. Kept(o)'
  BY <1>1, <1>2, <1>4, <1>5 DEF StoreInv, Kept
<1>7. Stored(h)'
  BY <1>1, <1>2 DEF Stored
<1>8. \A g \in Handlers \ {h} : mine(g)' = mine(g)
  BY <1>1 DEF mine
<1> QED BY <1>1, <1>4, <1>5, <1>6, <1>7, <1>8, StoreWrites DEF StoreInv, owning

LEMMA StoreRemoveDirectory ==
  ASSUME WholeInv, StoreInv, NEW h \in Handlers, RemoveDirectory(h)
  PROVE  StoreInv'
<1> DEFINE o == obj[h]
<1>1. /\ pc[h] = "remove" /\ UNCHANGED <<shard, bad, meta, temp, withdrawn>>
      /\ shard[o] = {} /\ bad[o] = {} /\ meta[o] = none
      /\ objects' = objects \ {o} /\ leave(h)
  BY DEF RemoveDirectory, ghosts
<1>2. o \in Objects /\ o \in objects /\ temp[o] = 0
  BY <1>1 DEF WholeInv, DiskInv, HandlerInv, Removing, StoreInv, Stored
<1>3. /\ pc'[h] = "idle"
      /\ \A g \in Handlers \ {h} : /\ pc'[g] = pc[g] /\ up'[g] = up[g]
                                   /\ obj'[g] = obj[g] /\ next'[g] = next[g]
  BY <1>1 DEF leave, step, WholeInv, Domains
<1>4. /\ content' \in [Objects -> Uploads \cup {none}]
      /\ \A p \in Objects \ {o} : content'[p] = content[p]
  <2>1. PICK c \in Uploads \cup {none} : content' = [content EXCEPT ![o] = c]
    BY <1>2 DEF RemoveDirectory, StoreInv
  <2> QED BY <1>2, <2>1 DEF StoreInv
<1>5. \A p \in Objects : Kept(p)'
  BY <1>1, <1>2, <1>4 DEF StoreInv, Kept
<1>6. Stored(h)'
  BY <1>3 DEF Stored
<1>7. ASSUME NEW g \in Handlers \ {h} PROVE Stored(g)'
  <2>1. pc[g] \in {"write", "rename", "remove"} => obj[g] \in Objects \ {o}
    BY <1>1 DEF WholeInv, DiskInv, Exclusive, HandlerInv, Writing, Removing, owning
  <2> QED BY <1>1, <1>3, <1>4, <2>1 DEF StoreInv, Stored, sizeOf, shardsLeft
<1> QED BY <1>1, <1>4, <1>5, <1>6, <1>7 DEF StoreInv, leave

LEMMA StoreNext ==
  ASSUME WholeInv, StoreInv, [Next]_vars
  PROVE  StoreInv'
<1>1. ASSUME UNCHANGED disk, UNCHANGED withdrawn,
             \A h \in Handlers : pc'[h] \in owning => mine(h)' = mine(h)
      PROVE  StoreInv'
  <2>1. \A h \in Handlers : pc'[h] \in owning =>
          /\ pc'[h] = pc[h] /\ up'[h] = up[h] /\ obj'[h] = obj[h] /\ next'[h] = next[h]
    BY <1>1 DEF mine
  <2>2. \A h \in Handlers : Stored(h)'
    BY <1>1, <2>1 DEF StoreInv, Stored, owning, disk, sizeOf, shardsLeft
  <2> QED BY <1>1, <2>2 DEF StoreInv, Kept, disk
<1>2. ASSUME NEW o \in Objects, NEW lost \in SUBSET Shards, Damage(o, lost)
      PROVE  StoreInv'
  <2>1. /\ meta[o] # none /\ lost \subseteq shard[o]
        /\ UNCHANGED <<objects, meta, temp, content, pc, up, obj, next, withdrawn>>
    BY <1>2 DEF Damage, handler
  <2>2. /\ shard'[o] = shard[o] \ lost /\ bad'[o] = bad[o] \cup lost
        /\ \A p \in Objects \ {o} : shard'[p] = shard[p] /\ bad'[p] = bad[p]
    BY <1>2 DEF Damage, WholeInv, DiskInv
  <2>3. \A p \in Objects : Kept(p)'
    BY <2>1, <2>2 DEF StoreInv, Kept, WholeInv, DiskInv
  <2>4. \A h \in Handlers : pc[h] \in {"write", "rename"} => obj[h] \in Objects \ {o}
    BY <2>1 DEF WholeInv, DiskInv, HandlerInv, Writing
  <2>5. \A h \in Handlers : Stored(h)'
    BY <2>1, <2>2, <2>4 DEF StoreInv, Stored, sizeOf, shardsLeft
  <2> QED BY <2>1, <2>3, <2>5 DEF StoreInv
<1> QED BY <1>1, <1>2, StoreFrame, StoreMkdir, StoreWrite, StoreRename, StoreRemoveFile,
           StoreRemoveDirectory

NodeInv == WholeInv /\ NodesInv /\ PresentInv /\ LocalInv /\ StoreInv /\ IdentityInv

LEMMA ShardsFinite == IsFiniteSet(Shards) /\ Cardinality(Shards) = DataShards + ParityShards
  BY ShardsAssumption, FS_Interval DEF Shards

-----------------------------------------------------------------------------
(* A download: the shards it passed by are damaged.                        *)

Gathered(h) ==
  pc[h] = "read" =>
    /\ obj[h] \in Objects
    /\ \/ obj[h] \in withdrawn
       \/ /\ meta[obj[h]] # none
          /\ \A i \in Shards : i < next[h] => i \in got[h] \cup bad[obj[h]]

GatherInv == outlived \/ \A h \in Handlers : Gathered(h)

(* Metadata stays, damage stays, but for an object that is withdrawn.      *)
Grows(o) ==
  /\ o \in withdrawn => o \in withdrawn'
  /\ meta[o] # none /\ o \notin withdrawn' => meta'[o] # none /\ bad[o] \subseteq bad'[o]

LEMMA DiskGrows ==
  ASSUME WholeInv, StoreInv, [Next]_vars
  PROVE  \A o \in Objects : Grows(o)
<1>1. CASE UNCHANGED disk /\ UNCHANGED withdrawn
  BY <1>1 DEF disk, Grows
<1>2. ASSUME NEW o \in Objects, NEW lost \in SUBSET Shards, Damage(o, lost),
             NEW p \in Objects
      PROVE  Grows(p)
  BY <1>2 DEF Damage, WholeInv, DiskInv, Grows
<1>3. ASSUME NEW h \in Handlers,
             \/ Write(h) \/ WriteFails(h) \/ RemoveDirectory(h) \/ \E o \in Objects : Mkdir(h, o)
      PROVE  UNCHANGED <<meta, bad, withdrawn>>
  BY <1>3 DEF Write, WriteFails, RemoveDirectory, Mkdir, ghosts
<1>4. ASSUME NEW h \in Handlers, Rename(h) \/ SyncFails(h), NEW p \in Objects
      PROVE  Grows(p)
  <2>1. meta[obj[h]] = none
    BY <1>4 DEF Rename, SyncFails, WholeInv, HandlerInv, Writing
  <2>2. meta[p] # none => meta'[p] = meta[p]
    BY <1>4, <2>1 DEF Rename, SyncFails, place, WholeInv, DiskInv
  <2> QED BY <1>4, <2>2 DEF Rename, SyncFails, ghosts, Grows
<1>5. ASSUME NEW h \in Handlers, RemoveFile(h), NEW p \in Objects
      PROVE  Grows(p)
  <2>1. meta[obj[h]] = none \/ obj[h] \in withdrawn
    BY <1>5 DEF RemoveFile, WholeInv, HandlerInv, Removing
  <2>2. p # obj[h] => meta'[p] = meta[p] /\ bad'[p] = bad[p]
    BY <1>5 DEF RemoveFile, WholeInv, DiskInv
  <2> QED BY <1>5, <2>1, <2>2 DEF RemoveFile, ghosts, Grows
<1> QED BY <1>1, <1>2, <1>3, <1>4, <1>5, StoreFrame DEF Grows

LEMMA GatherNext ==
  ASSUME NodeInv, GatherInv, [Next]_vars
  PROVE  GatherInv'
<1> SUFFICES ASSUME ~outlived' PROVE \A h \in Handlers : Gathered(h)'
  BY DEF GatherInv
<1> USE DEF NodeInv
<1>1. \A o \in Objects : Grows(o)
  BY DiskGrows
<1>2. ~outlived
  BY OutlivedStays
<1>3. ASSUME NEW h \in Handlers, pc[h] = "read", obj'[h] = obj[h],
             next'[h] = next[h], got'[h] = got[h]
      PROVE  Gathered(h)'
  BY <1>1, <1>2, <1>3 DEF GatherInv, Gathered, Grows
<1>4. ASSUME NEW h \in Handlers, ReadShard(h) PROVE Gathered(h)'
  <2>1. /\ pc[h] = "read" /\ next[h] \in Shards /\ next'[h] = next[h] + 1
        /\ got'[h] = (IF good(h) THEN got[h] \cup {next[h]} ELSE got[h])
        /\ UNCHANGED <<obj, meta, bad, withdrawn>>
    BY <1>4 DEF ReadShard, shardsLeft, disk, ghosts, WholeInv, Domains, LocalInv
  <2>0. CASE obj[h] \in withdrawn
    BY <1>2, <2>0, <2>1 DEF GatherInv, Gathered
  <2> SUFFICES ASSUME obj[h] \notin withdrawn PROVE Gathered(h)'
    BY <2>0
  <2>2. obj[h] \in Objects /\ meta[obj[h]] # none
    BY <1>2, <2>1 DEF GatherInv, Gathered
  <2>3. sealed[obj[h]] = aead[on[h]]
    <3>1. obj[h] \in objects
      BY <2>2 DEF WholeInv, DiskInv
    <3>2. on[h] \in Nodes /\ life[on[h]] \in serving
      BY <1>2, <2>1 DEF WholeInv, HandlerInv, NodesInv, Served
    <3> QED BY <1>2, <3>1, <3>2 DEF NodesInv, Sealed, KeyRead
  <2>4. next[h] \in got'[h] \cup bad[obj[h]]
    BY <2>1, <2>2, <2>3 DEF good, WholeInv, DiskInv
  <2>5. \A i \in Shards : i < next'[h] => i < next[h] \/ i = next[h]
    BY <2>1, ShardsAssumption DEF Shards
  <2> QED BY <1>2, <2>1, <2>2, <2>4, <2>5 DEF GatherInv, Gathered
<1>5. ASSUME NEW h \in Handlers, Find(h), pc'[h] = "read" PROVE Gathered(h)'
  <2>1. PICK o \in files[on[h]] : obj' = [obj EXCEPT ![h] = o]
    BY <1>5 DEF Find, leave, step, WholeInv, Domains
  <2>2. on[h] \in Nodes /\ next[h] = 0 /\ next'[h] = 0 /\ UNCHANGED <<disk, withdrawn>>
    BY <1>5 DEF Find, leave, step, ghosts, WholeInv, Domains, HandlerInv
  <2>3. obj'[h] = o /\ o \in Objects /\ (meta[o] # none \/ o \in withdrawn)
    BY <2>1, <2>2 DEF WholeInv, Domains, DiskInv, Committed
  <2>4. \A i \in Shards : ~(i < 0)
    BY ShardsAssumption DEF Shards
  <2> QED BY <2>2, <2>3, <2>4 DEF Gathered, disk
<1>6. ASSUME NEW h \in Handlers, pc'[h] = "read",
             ~ReadShard(h), ~Find(h)
      PROVE  pc[h] = "read" /\ obj'[h] = obj[h] /\ next'[h] = next[h] /\ got'[h] = got[h]
  <2> USE <1>6 DEF WholeInv, Domains, handler, step, leave
  <2>1. CASE UNCHANGED vars
    BY <2>1 DEF vars
  <2>2. CASE \E k \in Nodes : Opening(k) \/ CFSStop(k) \/ Stopped(k)
    BY <2>2 DEF Opening, CFSStart, OpenKey, OpenIdentity, OpenFiles, OpenFails, CFSStop,
                Stopped
  <2>3. CASE \/ Crash \/ LoseSecret \/ RestoreSecrets
             \/ \E o \in Objects : \E lost \in SUBSET Shards : Damage(o, lost)
    BY <2>3 DEF Crash, LoseSecret, RestoreSecrets, Damage
  <2>4. ASSUME NEW g \in Handlers,
               \/ \E k \in Nodes : Download(g, k) \/ \E u \in Uploads : Upload(g, k, u)
               \/ Lock(g) \/ Find(g) \/ Get(g)
        PROVE  pc[h] = "read" /\ obj'[h] = obj[h] /\ next'[h] = next[h] /\ got'[h] = got[h]
    BY <2>4 DEF Download, Upload, Lock, Find, Get, ReadShard, Serve, Insufficient
  <2>5. ASSUME NEW g \in Handlers, Put(g)
        PROVE  pc[h] = "read" /\ obj'[h] = obj[h] /\ next'[h] = next[h] /\ got'[h] = got[h]
    BY <2>5 DEF Put, Deduplicate, Reserve, Refuse, Mkdir, MkdirFails, Write, Rename,
                SyncFails, WriteFails, RemoveFile, RemoveDirectory, Register
  <2> QED BY <2>1, <2>2, <2>3, <2>4, <2>5 DEF Next
<1> QED BY <1>3, <1>4, <1>5, <1>6 DEF Gathered

LEMMA GatherFails ==
  ASSUME NodeInv, GatherInv, [Next]_vars, NEW h \in Handlers, Insufficient(h)
  PROVE  \/ outlived \/ obj[h] \in withdrawn
         \/ Cardinality(bad[obj[h]]) > ParityShards
<1> SUFFICES ASSUME ~outlived, obj[h] \notin withdrawn
             PROVE  Cardinality(bad[obj[h]]) > ParityShards
  OBVIOUS
<1> DEFINE B == bad[obj[h]]
           G == got[h]
<1>1. pc[h] = "read" /\ next[h] \notin Shards /\ ~(Cardinality(G) >= DataShards)
  BY DEF Insufficient, shardsLeft, enough
<1>2. Shards \subseteq G \cup B
  <2>1. \A i \in Shards : i < next[h]
    BY <1>1, ShardsAssumption DEF NodeInv, LocalInv, Local, Shards
  <2> QED BY <1>1, <2>1 DEF GatherInv, Gathered
<1>3. G \subseteq Shards /\ B \subseteq Shards
  BY <1>1 DEF NodeInv, LocalInv, Local, WholeInv, DiskInv, GatherInv, Gathered
<1>4. IsFiniteSet(Shards) /\ Cardinality(Shards) = DataShards + ParityShards
  BY ShardsFinite
<1>5. IsFiniteSet(G) /\ IsFiniteSet(B) /\ Cardinality(G) \in Nat /\ Cardinality(B) \in Nat
  BY <1>3, <1>4, FS_Subset, FS_CardinalityType
<1>6. G \cup B = Shards
  BY <1>2, <1>3
<1>7. Cardinality(G \cup B) = Cardinality(G) + Cardinality(B) - Cardinality(G \cap B)
  BY <1>5, FS_Union
<1>8. Cardinality(G \cap B) \in Nat
  BY <1>5, FS_Intersection, FS_CardinalityType
<1> HIDE DEF G, B
<1>9. Cardinality(B) > ParityShards
  <2>1. ASSUME NEW g \in Nat, NEW b \in Nat, NEW c \in Nat,
               ~(g >= DataShards), DataShards + ParityShards = g + b - c
        PROVE  b > ParityShards
    BY <2>1, ShardsAssumption
  <2>2. DataShards + ParityShards = Cardinality(G) + Cardinality(B) - Cardinality(G \cap B)
    BY <1>4, <1>6, <1>7
  <2> QED BY <1>1, <1>5, <1>8, <2>1, <2>2
<1> QED BY <1>9 DEF B

-----------------------------------------------------------------------------
(* One writer at a time: what the mutex is for.                            *)

LEMMA OneWriter ==
  ASSUME NodeInv, ~outlived, NEW g \in Handlers, NEW h \in Handlers,
         pc[g] \in holding, pc[h] \in holding
  PROVE  g = h
<1>1. on[g] = on[h]
  BY DEF NodeInv, WholeInv, HandlerInv, NodesInv, Served, OneNode, holding, serving
<1>2. lock[on[g]] = g /\ lock[on[h]] = h
  BY DEF NodeInv, LocalInv, Local
<1> QED BY <1>1, <1>2

Distinct == \A o, p \in Objects : meta[o] # none /\ meta[o] = meta[p] => o = p
Fresh(h) == pc[h] \in {"mkdir", "write", "rename"} => \A o \in Objects : meta[o] # up[h]
Listed(k) ==
  life[k] \in serving =>
    \A o \in Objects : meta[o] # none =>
       o \in files[k] \/ \E h \in Handlers : pc[h] \in {"register", "remove"} /\ obj[h] = o

OnceInv ==
  outlived \/ (Distinct /\ (\A h \in Handlers : Fresh(h)) /\ (\A k \in Nodes : Listed(k)))

LEMMA OnceInit == Init => OnceInv
  BY DEF Init, OnceInv, Distinct, Fresh, Listed, serving

(* A handler's step that commits nothing and forgets nothing.              *)
LEMMA OnceMoves ==
  ASSUME NodeInv, OnceInv, NEW h \in Handlers, HandlerStep(h), ~outlived,
         \A o \in Objects : meta'[o] \in {meta[o], none},
         pc[h] \in {"register", "remove"} =>
           (pc'[h] = pc[h] /\ obj'[h] = obj[h]) \/ meta'[obj[h]] = none,
         \A k \in Nodes : files[k] \subseteq files'[k],
         Fresh(h)'
  PROVE  OnceInv'
<1>1. /\ \A g \in Handlers \ {h} : mine(g)' = mine(g)
      /\ life' = life
  BY OthersStay DEF NodeInv
<1>2. \A g \in Handlers \ {h} : pc'[g] = pc[g] /\ up'[g] = up[g] /\ obj'[g] = obj[g]
  BY <1>1 DEF mine
<1>3. ASSUME NEW g \in Handlers \ {h} PROVE Fresh(g)'
  <2>1. pc[g] \in {"mkdir", "write", "rename"} => up[g] # none
    BY NamesAssumption DEF NodeInv, WholeInv, HandlerInv, Asking, Writing
  <2> QED BY <1>2, <2>1 DEF OnceInv, Fresh
<1>4. ASSUME NEW k \in Nodes PROVE Listed(k)'
  <2>1. ASSUME life[k] \in serving, NEW o \in Objects, meta'[o] # none
        PROVE  \/ o \in files'[k]
               \/ \E g \in Handlers : pc'[g] \in {"register", "remove"} /\ obj'[g] = o
    <3>1. meta[o] # none
      BY <2>1
    <3>2. CASE o \in files[k]
      BY <3>2
    <3>3. ASSUME NEW g \in Handlers, pc[g] \in {"register", "remove"}, obj[g] = o
          PROVE  pc'[g] \in {"register", "remove"} /\ obj'[g] = o
      BY <1>2, <2>1, <3>3
    <3> QED BY <2>1, <3>1, <3>2, <3>3 DEF OnceInv, Listed
  <2> QED BY <1>1, <2>1 DEF Listed
<1>5. Distinct'
  <2>1. ASSUME NEW o \in Objects, NEW p \in Objects, meta'[o] # none, meta'[o] = meta'[p]
        PROVE  o = p
    <3>1. meta[o] # none /\ meta[o] = meta[p]
      BY <2>1
    <3> QED BY <3>1 DEF OnceInv, Distinct
  <2> QED BY <2>1 DEF Distinct
<1>6. \A g \in Handlers : Fresh(g)'
  BY <1>3
<1> QED BY <1>4, <1>5, <1>6 DEF OnceInv

LEMMA OnceReserve ==
  ASSUME NodeInv, OnceInv, NEW h \in Handlers, Reserve(h), ~outlived
  PROVE  Fresh(h)'
<1>1. /\ pc[h] = "search" /\ known(h) = {} /\ up' = up /\ meta' = meta
  BY DEF Reserve, handler, disk
<1>2. up[h] # none /\ on[h] \in Nodes /\ life[on[h]] \in serving
  BY <1>1, NamesAssumption DEF NodeInv, WholeInv, HandlerInv, Asking, NodesInv, Served
<1>3. \A g \in Handlers : pc[g] \notin {"register", "remove"}
  BY <1>1, OneWriter DEF holding
<1>4. \A o \in Objects : meta[o] # none => o \in files[on[h]]
  BY <1>2, <1>3 DEF OnceInv, Listed
<1>5. \A o \in Objects : meta[o] \in {none, content[o]}
  BY DEF NodeInv, StoreInv, Kept
<1> QED BY <1>1, <1>2, <1>4, <1>5 DEF Fresh, known

LEMMA OnceRename ==
  ASSUME NodeInv, OnceInv, NEW h \in Handlers, Rename(h) \/ SyncFails(h), ~outlived
  PROVE  OnceInv'
<1>1. /\ pc[h] = "rename" /\ UNCHANGED <<on, up, obj, files>> /\ place(h)
  BY DEF Rename, SyncFails, nodes, handler
<1>2. HandlerStep(h)
  BY DEF HandlerStep, Put
<1>3. CASE shardsLeft(h)
  <2>1. meta' = meta /\ pc'[h] \in {"write", "remove"}
    BY <1>3 DEF Rename, SyncFails, place, step, NodeInv, WholeInv, Domains
  <2>2. Fresh(h)'
    BY <1>1, <2>1 DEF OnceInv, Fresh
  <2> QED BY <1>1, <1>2, <2>1, <2>2, OnceMoves
<1>4. CASE ~shardsLeft(h)
  <2>1. meta' = [meta EXCEPT ![obj[h]] = up[h]] /\ pc'[h] \in {"register", "remove"}
    BY <1>4 DEF Rename, SyncFails, place, step, NodeInv, WholeInv, Domains
  <2>2. /\ \A g \in Handlers \ {h} : pc'[g] = pc[g]
        /\ life' = life /\ outlived' = outlived
    BY <1>2, OthersStay DEF mine, NodeInv, ghosts
  <2>3. \A g \in Handlers \ {h} : pc[g] \notin holding
    BY <1>1, OneWriter DEF holding
  <2>4. \A o \in Objects : meta[o] # up[h]
    BY <1>1 DEF OnceInv, Fresh
  <2>5. Distinct'
    BY <2>1, <2>4 DEF OnceInv, Distinct, NodeInv, WholeInv, DiskInv
  <2>6. \A g \in Handlers : Fresh(g)'
    BY <2>1, <2>2, <2>3 DEF Fresh, holding
  <2>7. \A k \in Nodes : Listed(k)'
    BY <1>1, <2>1, <2>2, <2>3 DEF OnceInv, Listed, NodeInv, WholeInv, DiskInv, holding
  <2> QED BY <2>5, <2>6, <2>7 DEF OnceInv
<1> QED BY <1>3, <1>4

LEMMA OnceRegister ==
  ASSUME NodeInv, OnceInv, NEW h \in Handlers, Register(h), ~outlived
  PROVE  OnceInv'
<1>1. /\ pc[h] = "register" /\ meta' = meta /\ leave(h)
      /\ files' = [files EXCEPT ![on[h]] = @ \cup {obj[h]}]
  BY DEF Register, disk
<1>2. /\ \A g \in Handlers \ {h} : pc'[g] = pc[g] /\ up'[g] = up[g]
      /\ pc'[h] = "idle" /\ life' = life /\ outlived' = outlived
  BY <1>1, OthersStay
     DEF leave, step, mine, NodeInv, WholeInv, Domains, ghosts, HandlerStep, Put
<1>3. \A g \in Handlers : pc[g] \in {"register", "remove"} => g = h
  BY <1>1, OneWriter DEF holding
<1>4. \A g \in Handlers : Fresh(g)'
  BY <1>1, <1>2 DEF OnceInv, Fresh
<1>5. ASSUME NEW k \in Nodes, life[k] \in serving PROVE Listed(k)'
  <2>1. k = on[h]
    BY <1>1, <1>5 DEF NodeInv, WholeInv, HandlerInv, NodesInv, Served, OneNode, serving
  <2>2. files'[k] = files[k] \cup {obj[h]}
    BY <1>1, <2>1 DEF NodeInv, WholeInv, Domains
  <2> QED BY <1>1, <1>3, <1>5, <2>2 DEF OnceInv, Listed
<1>6. \A k \in Nodes : Listed(k)'
  BY <1>2, <1>5 DEF Listed
<1> QED BY <1>1, <1>2, <1>4, <1>6 DEF OnceInv, Distinct

LEMMA OnceNext ==
  ASSUME NodeInv, OnceInv, [Next]_vars
  PROVE  OnceInv'
<1> SUFFICES ASSUME ~outlived' PROVE OnceInv'
  BY DEF OnceInv
<1>1. ~outlived
  BY OutlivedStays DEF NodeInv
<1> USE DEF nodes, disk, handler
<1>2. CASE UNCHANGED vars
  BY <1>2 DEF vars, OnceInv, Distinct, Fresh, Listed, ghosts
<1>3. ASSUME NEW k \in Nodes, Opening(k) \/ CFSStop(k) \/ Stopped(k) PROVE OnceInv'
  <2>1. UNCHANGED <<meta, pc, up, obj>>
    BY <1>3 DEF Opening, CFSStart, OpenKey, OpenIdentity, OpenFiles, OpenFails, CFSStop,
                Stopped
  <2>2. /\ \A j \in Nodes \ {k} : life'[j] = life[j] /\ files'[j] = files[j]
        /\ life'[k] \in serving =>
             \/ life[k] \in serving /\ files'[k] = files[k]
             \/ files'[k] = {o \in objects : meta[o] # none}
    BY <1>3 DEF Opening, CFSStart, OpenKey, OpenIdentity, OpenFiles, OpenFails, CFSStop,
                Stopped, to, NodeInv, WholeInv, Domains, serving
  <2>3. \A j \in Nodes : Listed(j)'
    BY <1>1, <2>1, <2>2 DEF OnceInv, Listed, NodeInv, WholeInv, DiskInv
  <2> QED BY <1>1, <2>1, <2>3 DEF OnceInv, Distinct, Fresh
<1>4. CASE Crash
  BY <1>1, <1>4 DEF Crash, OnceInv, Distinct, Fresh, Listed, serving
<1>5. CASE \/ LoseSecret \/ RestoreSecrets
           \/ \E o \in Objects : \E lost \in SUBSET Shards : Damage(o, lost)
  BY <1>1, <1>5 DEF LoseSecret, RestoreSecrets, Damage, OnceInv, Distinct, Fresh, Listed
<1>6. ASSUME NEW h \in Handlers, HandlerStep(h) PROVE OnceInv'
  <2>1. CASE Rename(h) \/ SyncFails(h) \/ Register(h)
    BY <1>1, <2>1, OnceRename, OnceRegister
  <2>2. CASE Reserve(h)
    BY <1>1, <1>6, <2>2, OnceReserve, OnceMoves DEF Reserve
  <2>4. CASE RemoveFile(h)
    <3>1. /\ pc[h] = "remove" /\ pc' = pc /\ obj' = obj /\ files' = files
          /\ \A o \in Objects : meta'[o] \in {meta[o], none}
      BY <2>4 DEF RemoveFile, NodeInv, WholeInv, DiskInv
    <3>2. Fresh(h)'
      BY <3>1 DEF Fresh
    <3> QED BY <1>1, <1>6, <3>1, <3>2, OnceMoves
  <2>5. CASE RemoveDirectory(h)
    <3>1. pc'[h] = "idle" /\ meta[obj[h]] = none /\ UNCHANGED <<files, meta>>
      BY <2>5 DEF RemoveDirectory, leave, step, NodeInv, WholeInv, Domains
    <3>2. Fresh(h)'
      BY <3>1 DEF Fresh
    <3> QED BY <1>1, <1>6, <3>1, <3>2, OnceMoves
  <2>3. CASE ~(\/ Rename(h) \/ SyncFails(h) \/ Register(h) \/ Reserve(h)
               \/ RemoveFile(h) \/ RemoveDirectory(h))
    <3>1. /\ UNCHANGED <<meta, files>> /\ pc[h] \notin {"register", "remove"}
          /\ \/ pc'[h] \notin {"mkdir", "write", "rename"}
             \/ pc[h] \in {"mkdir", "write", "rename"} /\ up'[h] = up[h]
      BY <1>6, <2>3 DEF HandlerStep, Download, Upload, Lock, Find, Put, Get, Deduplicate,
         Refuse, Mkdir, MkdirFails, Write, WriteFails, ReadShard, Serve,
         Insufficient, step, leave, NodeInv, WholeInv, Domains
    <3>2. Fresh(h)'
      BY <1>1, <3>1 DEF OnceInv, Fresh
    <3> QED BY <1>1, <1>6, <3>1, <3>2, OnceMoves
  <2> QED BY <2>1, <2>2, <2>3, <2>4, <2>5
<1> QED BY <1>2, <1>3, <1>4, <1>5, <1>6 DEF Next, HandlerStep

-----------------------------------------------------------------------------
(* The space in use, as a sum over the objects.                            *)

sizes == [o \in Objects |-> objectSize(o)]

LEMMA UsageSum ==
  IsFiniteSet(objects) /\ objects \subseteq Objects
  => \E sum : Sums(sum, sizes, objects) /\ usage = sum[objects]
<1> SUFFICES ASSUME IsFiniteSet(objects), objects \subseteq Objects
             PROVE  \E sum : Sums(sum, sizes, objects) /\ usage = sum[objects]
  OBVIOUS
<1> DEFINE E(g) == g = [s \in SUBSET objects |->
                          IF s = {} THEN 0
                          ELSE objectSize(CHOOSE x \in s : TRUE) + g[s \ {CHOOSE x \in s : TRUE}]]
<1>1. ASSUME NEW g PROVE Sums(g, sizes, objects) <=> E(g)
  <2> DEFINE a(s) == IF s = {} THEN 0 ELSE sizes[some(s)] + g[s \ {some(s)}]
             b(s) == IF s = {} THEN 0 ELSE objectSize(some(s)) + g[s \ {some(s)}]
  <2>1. ASSUME NEW s \in SUBSET objects PROVE a(s) = b(s)
    <3> HIDE DEF objectSize
    <3> QED BY SomeIn DEF sizes
  <2>2. [s \in SUBSET objects |-> a(s)] = [s \in SUBSET objects |-> b(s)]
    <3> HIDE DEF a, b
    <3> QED BY <2>1, Zenon
  <2> QED BY <2>2, Zenon DEF Sums, some
<1>2. \E g : E(g)
  <2> HIDE DEF E
  <2> QED BY <1>1, SumsExist
<1>3. E(CHOOSE g : E(g))
  <2> HIDE DEF E
  <2> QED BY <1>2, Zenon
<1>4. usage = (CHOOSE g : E(g))[objects]
  BY Zenon DEF usage, MapThenSumSet, MapThenFoldSet
<1> QED
  <2> HIDE DEF E
  <2> QED BY <1>1, <1>3, <1>4

IntactNat == \A o \in objects : o \in Objects /\ objectSize(o) \in Nat

LEMMA SizesNatParts ==
  ASSUME WholeInv, StoreInv, NEW o \in objects
  PROVE  /\ o \in Objects /\ temp[o] \in Nat
         /\ Cardinality(shard[o] \cup bad[o]) * shardFile(content[o]) \in Nat
<1>1. o \in Objects /\ content[o] \in Uploads /\ temp[o] \in Nat
      /\ shard[o] \cup bad[o] \subseteq Shards
  BY DEF WholeInv, DiskInv, StoreInv, Kept
<1>2. Cardinality(shard[o] \cup bad[o]) \in Nat
  BY <1>1, ShardsFinite, FS_Subset, FS_CardinalityType
<1> QED BY <1>1, <1>2, ShardFileNat

LEMMA SizesNat == WholeInv /\ StoreInv => IntactNat
<1> SUFFICES ASSUME WholeInv, StoreInv, NEW o \in objects
             PROVE  o \in Objects /\ objectSize(o) \in Nat
  BY DEF IntactNat
<1> DEFINE bytes == Cardinality(shard[o] \cup bad[o]) * shardFile(content[o])
           metadata == IF meta[o] = none THEN 0 ELSE MetaSize
<1>1. o \in Objects /\ temp[o] \in Nat /\ bytes \in Nat /\ metadata \in Nat
  BY SizesNatParts, SizesAssumption
<1>2. objectSize(o) = bytes + temp[o] + metadata
  BY DEF objectSize
<1> HIDE DEF bytes, metadata
<1> QED BY <1>1, <1>2

held(o) == IF o \in objects THEN objectSize(o) ELSE 0

(* A step that touches one object moves the sum by what it adds there.     *)
LEMMA UsageMoves ==
  ASSUME IntactNat, IntactNat', IsFiniteSet(objects), NEW o,
         objects' \ {o} = objects \ {o},
         \A p \in objects \ {o} : objectSize(p)' = objectSize(p)
  PROVE  /\ usage \in Nat /\ usage' \in Nat /\ IsFiniteSet(objects')
         /\ held(o) \in Nat /\ held(o)' \in Nat
         /\ usage' - held(o)' = usage - held(o)
<1> DEFINE rest == objects \ {o}
           whole == objects
           f == sizes
           e == sizes'
           T == objects'
<1>1. IsFiniteSet(rest) /\ IsFiniteSet(T)
  <2>1. IsFiniteSet(rest)
    BY FS_Subset
  <2>2. T = rest \/ T = rest \cup {o}
    OBVIOUS
  <2> QED BY <2>1, <2>2, FS_AddElement
<1>2. PICK g : Sums(g, f, whole) /\ usage = g[whole]
  BY UsageSum DEF IntactNat
<1>3. PICK h : Sums(h, e, T) /\ usage' = h[T]
  <2>1. (IsFiniteSet(objects) /\ objects \subseteq Objects
         => \E sum : Sums(sum, sizes, objects) /\ usage = sum[objects])'
    BY UsageSum, PTL
  <2> QED BY <1>1, <2>1 DEF IntactNat
<1>4. /\ \A p \in whole : f[p] = objectSize(p) /\ f[p] \in Nat
      /\ \A p \in T : e[p] = objectSize(p)' /\ e[p] \in Nat
  BY DEF IntactNat, sizes
<1>5. \A p \in rest : f[p] = e[p]
  BY <1>4
<1> HIDE DEF f, e
<1>6. g[rest] = h[rest]
  BY <1>1, <1>2, <1>3, <1>5, SumsSame
<1>7. usage \in Nat /\ g[rest] \in Nat
  BY <1>2, <1>4, SumsNat
<1>8. usage' \in Nat
  BY <1>1, <1>3, <1>4, SumsNat
<1>9. g[whole] = g[rest] + held(o) /\ held(o) \in Nat
  <2>1. CASE o \in whole
    <3>1. g[whole] = f[o] + g[whole \ {o}]
      BY <1>2, <1>4, <2>1, SumsStep
    <3>2. held(o) = f[o] /\ f[o] \in Nat
      BY <1>4, <2>1 DEF held
    <3> QED BY <1>7, <3>1, <3>2
  <2>2. CASE o \notin whole
    <3>1. rest = whole /\ held(o) = 0
      BY <2>2 DEF held
    <3> HIDE DEF whole, rest
    <3> QED BY <1>7, <3>1
  <2> QED BY <2>1, <2>2
<1>10. h[T] = h[rest] + held(o)' /\ held(o)' \in Nat
  <2>1. CASE o \in T
    <3>1. rest = T \ {o} /\ T \in SUBSET T
      OBVIOUS
    <3>2. h[T] = e[o] + h[T \ {o}]
      BY <1>1, <1>3, <1>4, <2>1, <3>1, SumsStep
    <3>3. held(o)' = e[o] /\ e[o] \in Nat
      BY <1>4, <2>1 DEF held
    <3> HIDE DEF rest, T
    <3> QED BY <1>6, <1>7, <3>1, <3>2, <3>3
  <2>2. CASE o \notin T
    <3>1. rest = T /\ held(o)' = 0
      BY <2>2 DEF held
    <3> HIDE DEF rest, T
    <3> QED BY <1>6, <1>7, <3>1
  <2> QED BY <2>1, <2>2
<1> HIDE DEF whole, rest, T, held
<1>11. IsFiniteSet(objects')
  BY <1>1 DEF T
<1> QED BY <1>2, <1>3, <1>6, <1>7, <1>8, <1>9, <1>10, <1>11

(* What a writer has put on the disk so far.                               *)
Written(h) ==
  pc[h] \in {"write", "rename"} =>
    /\ obj[h] \in objects /\ obj[h] \in Objects /\ up[h] \in Uploads
    /\ next[h] \in 0..(DataShards + ParityShards) /\ meta[obj[h]] = none
    /\ bad[obj[h]] = {} /\ shard[obj[h]] = {i \in Shards : i < next[h]}
    /\ objectSize(obj[h]) = next[h] * shardFile(up[h]) + temp[obj[h]]

AllWritten == \A h \in Handlers : Written(h)

LEMMA WrittenSize == NodeInv => AllWritten
<1> SUFFICES ASSUME NodeInv, NEW h \in Handlers, pc[h] \in {"write", "rename"}
             PROVE  Written(h)
  BY DEF AllWritten, Written
<1> DEFINE o == obj[h]
<1>1. /\ o \in objects /\ o \in Objects /\ up[h] \in Uploads /\ meta[o] = none
      /\ o \notin withdrawn /\ next[h] \in 0..(DataShards + ParityShards)
  BY DEF NodeInv, WholeInv, HandlerInv, Writing, DiskInv
<1>2. /\ bad[o] = {} /\ content[o] = up[h] /\ shard[o] = {i \in Shards : i < next[h]}
      /\ temp[o] \in Nat
  BY <1>1 DEF NodeInv, StoreInv, Kept, Stored
<1>3. Cardinality(shard[o] \cup bad[o]) = next[h]
  <2>1. shard[o] \cup bad[o] = 0..(next[h] - 1)
    BY <1>1, <1>2, ShardsAssumption DEF Shards
  <2>2. Cardinality(0..(next[h] - 1)) = next[h]
    <3>1. \A n \in Nat : Cardinality(0..(n - 1)) = n
      BY FS_Interval
    <3> QED BY <1>1, <3>1, ShardsAssumption
  <2> QED BY <2>1, <2>2
<1>4. objectSize(o) = next[h] * shardFile(up[h]) + temp[o]
  <2>1. objectSize(o) = next[h] * shardFile(up[h]) + temp[o] + 0
    BY <1>1, <1>2, <1>3 DEF objectSize
  <2>2. next[h] * shardFile(up[h]) \in Nat
    BY <1>1, ShardFileNat, ShardsAssumption
  <2> QED BY <1>2, <2>1, <2>2
<1> QED BY <1>1, <1>2, <1>4 DEF Written

(* The reserve covers the shards and metadata.json.                        *)
LEMMA ReserveCovers ==
  ASSUME NEW u \in Uploads, NEW n \in 0..(DataShards + ParityShards)
  PROVE  /\ n * shardFile(u) \in Nat
         /\ n * shardFile(u) + MetaSize <= reserve(u)
         /\ n \in Shards => n * shardFile(u) + shardFile(u) <= reserve(u)
         /\ n \in Shards => (n + 1) * shardFile(u) = n * shardFile(u) + shardFile(u)
         /\ reserve(u) \in Nat
<1> DEFINE s == shardFile(u)
           all == DataShards + ParityShards
<1>1. s \in Nat /\ all \in Nat /\ MetaSize \in Nat
  BY ShardFileNat, ShardsAssumption, SizesAssumption
<1>2. all * s + MetaSize <= reserve(u) /\ reserve(u) \in Nat
  BY ReserveAssumption, SizesAssumption DEF reserve
<1> HIDE DEF s
<1>3. ASSUME NEW m \in Nat, m <= all PROVE m * s \in Nat /\ m * s <= all * s
  <2>1. PICK k \in Nat : all = m + k
    BY <1>1, <1>3
  <2>2. (m + k) * s = m * s + k * s
    BY <1>1
  <2>3. m * s \in Nat /\ k * s \in Nat
    BY <1>1
  <2> QED BY <2>1, <2>2, <2>3
<1>4. n \in Nat /\ n <= all /\ (n \in Shards => n + 1 <= all)
  BY <1>1, ShardsAssumption DEF Shards
<1>5. (n + 1) * s = n * s + s
  BY <1>1, <1>4
<1>6. n * s \in Nat /\ n * s <= all * s
  BY <1>3, <1>4
<1>7. n \in Shards => (n + 1) * s <= all * s
  BY <1>3, <1>4
<1>8. all * s \in Nat
  BY <1>1
<1> HIDE DEF all
<1>9. n * s + MetaSize <= reserve(u)
  BY <1>1, <1>2, <1>6, <1>8
<1>10. n \in Shards => n * s + s <= reserve(u)
  BY <1>1, <1>2, <1>5, <1>6, <1>7, <1>8
<1> QED BY <1>2, <1>5, <1>6, <1>9, <1>10 DEF s

-----------------------------------------------------------------------------
(* The space the one writer has asked for.                                 *)

Room(h) ==
  /\ pc[h] = "mkdir" => usage + reserve(up[h]) <= Quota
  /\ pc[h] \in {"write", "rename"} => usage - objectSize(obj[h]) + reserve(up[h]) <= Quota

RoomInv ==
  /\ IsFiniteSet(objects)
  /\ outlived \/ (usage <= Quota /\ \A h \in Handlers : Room(h))

asking == {"mkdir", "write", "rename"}

LEMMA RoomInit == Init => RoomInv
<1> SUFFICES ASSUME Init PROVE RoomInv
  OBVIOUS
<1>1. IsFiniteSet(objects) /\ objects = {}
  BY FS_EmptySet DEF Init
<1>2. PICK g : Sums(g, sizes, objects) /\ usage = g[objects]
  BY <1>1, UsageSum
<1>3. usage = 0
  BY <1>1, <1>2 DEF Sums
<1> QED BY <1>1, <1>3, SizesAssumption DEF Init, RoomInv, Room

(* The disk as it is.                                                      *)
LEMMA RoomStays ==
  ASSUME NodeInv, NodeInv', RoomInv, UNCHANGED disk, outlived \/ ~outlived',
         ~outlived,
         \A h \in Handlers : pc'[h] \in asking =>
            pc[h] = pc'[h] /\ up'[h] = up[h] /\ obj'[h] = obj[h]
  PROVE  RoomInv'
<1>1. IntactNat /\ IntactNat'
  <2>1. (WholeInv /\ StoreInv => IntactNat)'
    BY SizesNat, PTL
  <2> QED BY <2>1, SizesNat DEF NodeInv
<1>2. \A p : objectSize(p)' = objectSize(p) /\ held(p)' = held(p)
  BY DEF objectSize, held, disk
<1>3. objects' \ {none} = objects \ {none} /\ IsFiniteSet(objects)
  BY DEF disk, RoomInv
<1>4. /\ usage \in Nat /\ usage' \in Nat /\ IsFiniteSet(objects') /\ held(none) \in Nat
      /\ usage' - held(none)' = usage - held(none)
  BY <1>1, <1>2, <1>3, UsageMoves
<1>5. usage' = usage
  BY <1>2, <1>4
<1>6. \A h \in Handlers : Room(h)'
  BY <1>2, <1>5 DEF RoomInv, Room, asking, reserve
<1> QED BY <1>4, <1>5, <1>6 DEF RoomInv

(* One object is touched.                                                  *)
Only(o) ==
  /\ objects' \ {o} = objects \ {o}
  /\ \A p \in Objects \ {o} :
       /\ shard'[p] = shard[p] /\ bad'[p] = bad[p] /\ meta'[p] = meta[p]
       /\ temp'[p] = temp[p] /\ content'[p] = content[p]

LEMMA RoomTouches ==
  ASSUME NodeInv, NodeInv', RoomInv, NEW o, Only(o)
  PROVE  /\ usage \in Nat /\ usage' \in Nat /\ IsFiniteSet(objects')
         /\ held(o) \in Nat /\ held(o)' \in Nat
         /\ usage' - held(o)' = usage - held(o)
<1>1. IntactNat /\ IntactNat'
  <2>1. (WholeInv /\ StoreInv => IntactNat)'
    BY SizesNat, PTL
  <2> QED BY <2>1, SizesNat DEF NodeInv
<1>2. \A p \in objects \ {o} : objectSize(p)' = objectSize(p)
  BY <1>1 DEF Only, objectSize, IntactNat
<1> QED BY <1>1, <1>2, UsageMoves DEF Only, RoomInv

LEMMA RoomMoves ==
  ASSUME NodeInv, RoomInv, ~outlived, NEW h \in Handlers, HandlerStep(h),
         pc[h] \in holding, IsFiniteSet(objects'), usage' <= Quota, Room(h)'
  PROVE  RoomInv'
<1>1. \A g \in Handlers \ {h} : pc'[g] = pc[g]
  BY OthersStay DEF NodeInv, mine
<1>2. \A g \in Handlers \ {h} : pc[g] \notin holding
  BY OneWriter
<1>3. \A g \in Handlers : Room(g)'
  BY <1>1, <1>2 DEF Room, holding
<1> QED BY <1>3 DEF RoomInv

LEMMA WrittenAfter == ASSUME NodeInv', NEW h \in Handlers PROVE Written(h)'
<1>1. (NodeInv => AllWritten)'
  BY WrittenSize, PTL
<1> QED BY <1>1 DEF AllWritten

LEMMA QuotaMoves ==
  ASSUME NEW x \in Nat, NEW y \in Nat, NEW a \in Nat, NEW b \in Nat, NEW r \in Nat,
         y - b = x - a, x - a + r <= Quota, b <= r
  PROVE  y <= Quota /\ y - b + r <= Quota
  BY SizesAssumption

(* A writer's next state, from the size of its object in it.               *)
LEMMA RoomKeeps ==
  ASSUME NodeInv, NodeInv', RoomInv, ~outlived, NEW h \in Handlers, HandlerStep(h),
         pc[h] \in {"write", "rename"}, UNCHANGED <<up, obj, objects>>,
         NEW o \in Objects, o = obj[h], Only(o), objectSize(o)' <= reserve(up[h])
  PROVE  RoomInv'
<1> DEFINE r == reserve(up[h])
<1>1. o \in objects /\ up[h] \in Uploads /\ next[h] \in 0..(DataShards + ParityShards)
  BY WrittenSize DEF AllWritten, Written
<1>2. held(o) = objectSize(o) /\ held(o)' = objectSize(o)'
  BY <1>1 DEF held
<1>3. /\ usage \in Nat /\ usage' \in Nat /\ IsFiniteSet(objects')
      /\ objectSize(o) \in Nat /\ objectSize(o)' \in Nat
      /\ usage' - objectSize(o)' = usage - objectSize(o)
  BY <1>2, RoomTouches
<1>4. usage - objectSize(o) + r <= Quota /\ r \in Nat
  BY <1>1, ReserveCovers DEF RoomInv, Room
<1>5. usage' <= Quota /\ usage' - objectSize(o)' + r <= Quota
  <2> HIDE DEF r
  <2> QED BY <1>3, <1>4, QuotaMoves DEF r
<1>6. Room(h)'
  <2>1. pc'[h] # "mkdir"
    BY DEF NodeInv, HandlerStep, Put, Get, Download, Upload, Lock, Find, Deduplicate,
           Reserve, Refuse, Mkdir, MkdirFails, Write, Rename, SyncFails, WriteFails,
           RemoveFile, RemoveDirectory, Register, ReadShard, Serve, Insufficient, step, leave, WholeInv, Domains
  <2> QED BY <1>5, <2>1 DEF Room, reserve
<1> QED BY <1>3, <1>5, <1>6, RoomMoves DEF holding

LEMMA RoomMkdir ==
  ASSUME NodeInv, NodeInv', RoomInv, ~outlived, NEW h \in Handlers, NEW o \in Objects, Mkdir(h, o)
  PROVE  RoomInv'
<1>1. /\ pc[h] = "mkdir" /\ pc'[h] = "write" /\ obj'[h] = o /\ o \notin objects
      /\ objects' = objects \cup {o} /\ content' = [content EXCEPT ![o] = up[h]]
      /\ UNCHANGED <<up, next, shard, bad, meta, temp>>
  BY DEF Mkdir, fresh, step, NodeInv, WholeInv, Domains
<1>2. Only(o)
  BY <1>1 DEF Only, NodeInv, StoreInv
<1>3. held(o) = 0
  BY <1>1 DEF held
<1>4. up[h] \in Uploads /\ next[h] = 0 /\ temp[o] = 0
  BY <1>1 DEF NodeInv, WholeInv, HandlerInv, Asking, StoreInv, Kept
<1>5. objectSize(o)' = 0
  <2>1. objectSize(o)' = next[h] * shardFile(up[h]) + temp[o]
    BY <1>1, WrittenAfter DEF Written
  <2>2. 0 * shardFile(up[h]) = 0
    BY <1>4, ShardFileNat
  <2> QED BY <1>4, <2>1, <2>2
<1>6. held(o)' = 0
  BY <1>1, <1>5 DEF held
<1>7. usage' = usage /\ usage \in Nat /\ IsFiniteSet(objects')
  BY <1>2, <1>3, <1>6, RoomTouches
<1>8. usage + reserve(up[h]) <= Quota /\ usage <= Quota /\ reserve(up[h]) \in Nat
  <2>1. usage <= Quota /\ Room(h)
    BY DEF RoomInv
  <2>2. usage + reserve(up[h]) <= Quota
    BY <1>1, <2>1 DEF Room
  <2>3. reserve(up[h]) \in Nat
    BY <1>4, SizesAssumption DEF reserve
  <2> QED BY <2>1, <2>2, <2>3
<1>9. Room(h)'
  BY <1>1, <1>5, <1>7, <1>8 DEF Room, reserve
<1> QED BY <1>1, <1>7, <1>8, <1>9, RoomMoves DEF holding, HandlerStep, Put

LEMMA RoomWrite ==
  ASSUME NodeInv, NodeInv', RoomInv, ~outlived, NEW h \in Handlers, Write(h)
  PROVE  RoomInv'
<1>1. PICK o \in Objects : o = obj[h]
  BY WrittenSize DEF AllWritten, Written, Write
<1>2. /\ pc[h] = "write" /\ pc'[h] = "rename"
      /\ temp' = [temp EXCEPT ![o] = @ + sizeOf(h)]
      /\ UNCHANGED <<objects, shard, bad, meta, content, up, obj, next>>
  BY <1>1 DEF Write, step, NodeInv, WholeInv, Domains, handler
<1>3. /\ up[h] \in Uploads /\ next[h] \in 0..(DataShards + ParityShards)
      /\ temp[o] = 0 /\ sizeOf(h) \in Nat
  BY <1>1, <1>2, WrittenSize, SizeOfNat DEF AllWritten, Written, NodeInv, StoreInv, Stored
<1>4. Only(o) /\ temp'[o] = sizeOf(h)
  BY <1>1, <1>2, <1>3 DEF Only, NodeInv, StoreInv
<1>5. objectSize(o)' = next[h] * shardFile(up[h]) + sizeOf(h)
  BY <1>1, <1>2, <1>4, WrittenAfter DEF Written
<1>6. next[h] * shardFile(up[h]) + sizeOf(h) <= reserve(up[h])
  BY <1>3, ReserveCovers DEF sizeOf, shardsLeft
<1> QED BY <1>1, <1>2, <1>4, <1>5, <1>6, RoomKeeps DEF HandlerStep, Put

LEMMA RoomRename ==
  ASSUME NodeInv, NodeInv', RoomInv, ~outlived, NEW h \in Handlers,
         Rename(h) \/ SyncFails(h)
  PROVE  RoomInv'
<1>1. PICK o \in Objects : o = obj[h]
  BY WrittenSize DEF AllWritten, Written, Rename, SyncFails
<1>2. /\ pc[h] = "rename" /\ place(h)
      /\ temp' = [temp EXCEPT ![o] = @ - sizeOf(h)]
      /\ UNCHANGED <<objects, bad, content, up, obj>>
  BY <1>1 DEF Rename, SyncFails, place, step, NodeInv, WholeInv, Domains, handler
<1>3. /\ up[h] \in Uploads /\ next[h] \in 0..(DataShards + ParityShards)
      /\ temp[o] = sizeOf(h) /\ sizeOf(h) \in Nat /\ bad[o] = {} /\ meta[o] = none
      /\ shard[o] = {i \in Shards : i < next[h]} /\ up[h] # none
  BY <1>1, <1>2, WrittenSize, SizeOfNat, NamesAssumption
     DEF AllWritten, Written, NodeInv, StoreInv, Stored
<1>4. temp'[o] = 0 /\ \A p \in Objects \ {o} : temp'[p] = temp[p]
  BY <1>2, <1>3 DEF NodeInv, StoreInv
<1>5. CASE shardsLeft(h)
  <2>1. shard' = [shard EXCEPT ![o] = @ \cup {next[h]}] /\ meta' = meta
    BY <1>1, <1>2, <1>5 DEF place
  <2>2. Only(o)
    BY <1>1, <1>2, <1>4, <2>1 DEF Only, NodeInv, WholeInv, DiskInv
  <2>3. objectSize(o)' = (next[h] + 1) * shardFile(up[h]) + 0
    <3>1. shard'[o] \cup bad'[o] = 0..((next[h] + 1) - 1) /\ meta'[o] = none
      BY <1>2, <1>3, <1>5, <2>1, ShardsAssumption
         DEF shardsLeft, Shards, NodeInv, WholeInv, DiskInv
    <3>2. content'[o] = up[h]
      BY <1>1, <1>2 DEF NodeInv, StoreInv, Stored
    <3>3. Cardinality(0..((next[h] + 1) - 1)) = next[h] + 1
      <4>1. \A n \in Nat : Cardinality(0..(n - 1)) = n
        BY FS_Interval
      <4> QED BY <1>3, <4>1, ShardsAssumption
    <3>4. objectSize(o)' = (next[h] + 1) * shardFile(up[h]) + 0 + 0
      BY <1>4, <3>1, <3>2, <3>3 DEF objectSize, shardFile
    <3>5. (next[h] + 1) * shardFile(up[h]) \in Nat
      BY <1>3, ShardFileNat, ShardsAssumption
    <3> QED BY <3>4, <3>5
  <2>4. (next[h] + 1) * shardFile(up[h]) + 0 <= reserve(up[h])
    BY <1>3, <1>5, ReserveCovers, ShardFileNat DEF shardsLeft
  <2> QED BY <1>1, <1>2, <2>2, <2>3, <2>4, RoomKeeps DEF HandlerStep, Put
<1>6. CASE ~shardsLeft(h)
  <2>1. shard' = shard /\ meta' = [meta EXCEPT ![o] = up[h]]
    BY <1>1, <1>2, <1>6 DEF place
  <2>2. Only(o)
    BY <1>1, <1>2, <1>4, <2>1 DEF Only, NodeInv, WholeInv, DiskInv
  <2>3. /\ shard'[o] \cup bad'[o] = 0..(next[h] - 1) /\ meta'[o] # none
        /\ content'[o] = up[h]
    <3>1. shard[o] = 0..(next[h] - 1)
      BY <1>3, ShardsAssumption DEF Shards
    <3>2. content[o] = up[h]
      BY <1>1, <1>2 DEF NodeInv, StoreInv, Stored
    <3> QED BY <1>2, <1>3, <2>1, <3>1, <3>2 DEF NodeInv, WholeInv, DiskInv
  <2>4. Cardinality(0..(next[h] - 1)) = next[h]
    <3>1. \A n \in Nat : Cardinality(0..(n - 1)) = n
      BY FS_Interval
    <3> QED BY <1>3, <3>1, ShardsAssumption
  <2>5. objectSize(o)' = next[h] * shardFile(up[h]) + 0 + MetaSize
    BY <1>4, <2>3, <2>4 DEF objectSize, shardFile
  <2>6. next[h] * shardFile(up[h]) + 0 + MetaSize <= reserve(up[h])
    BY <1>3, ReserveCovers
  <2> QED BY <1>1, <1>2, <2>2, <2>5, <2>6, RoomKeeps DEF HandlerStep, Put
<1> QED BY <1>5, <1>6

(* A step of the writer that only gives space back.                        *)
LEMMA RoomFrees ==
  ASSUME NodeInv, NodeInv', RoomInv, ~outlived, NEW h \in Handlers, HandlerStep(h),
         pc[h] \in holding, pc'[h] \in {"remove", "idle"},
         NEW o \in Objects, Only(o), held(o)' <= held(o)
  PROVE  RoomInv'
<1>1. /\ usage \in Nat /\ usage' \in Nat /\ IsFiniteSet(objects')
      /\ held(o) \in Nat /\ held(o)' \in Nat
      /\ usage' - held(o)' = usage - held(o)
  BY RoomTouches
<1>2. usage' <= usage
  <2>1. ASSUME NEW x \in Nat, NEW y \in Nat, NEW a \in Nat, NEW b \in Nat,
               y - b = x - a, b <= a
        PROVE  y <= x
    BY <2>1
  <2> QED BY <1>1, <2>1
<1>3. usage' <= Quota
  BY <1>1, <1>2, SizesAssumption DEF RoomInv
<1> QED BY <1>1, <1>3, RoomMoves DEF Room

LEMMA RoomWriteFails ==
  ASSUME NodeInv, NodeInv', RoomInv, ~outlived, NEW h \in Handlers, WriteFails(h)
  PROVE  RoomInv'
<1>1. PICK o \in Objects : o = obj[h]
  BY WrittenSize DEF AllWritten, Written, WriteFails
<1>2. /\ pc[h] \in {"write", "rename"} /\ pc'[h] = "remove"
      /\ temp' = [temp EXCEPT ![o] = IF pc[h] = "rename" THEN @ - sizeOf(h) ELSE @]
      /\ UNCHANGED <<objects, shard, bad, meta, content>>
  BY <1>1 DEF WriteFails, step, NodeInv, WholeInv, Domains
<1>3. /\ up[h] \in Uploads /\ o \in objects /\ sizeOf(h) \in Nat
      /\ temp[o] = IF pc[h] = "rename" THEN sizeOf(h) ELSE 0
  BY <1>1, <1>2, WrittenSize, SizeOfNat DEF AllWritten, Written, NodeInv, StoreInv, Stored
<1>4. Only(o) /\ temp'[o] = 0
  BY <1>2, <1>3 DEF Only, NodeInv, StoreInv
<1>5. held(o)' <= held(o)
  <2> DEFINE bytes == Cardinality(shard[o] \cup bad[o]) * shardFile(content[o])
             metadata == IF meta[o] = none THEN 0 ELSE MetaSize
  <2>1. held(o) = bytes + temp[o] + metadata /\ held(o)' = bytes + 0 + metadata
    BY <1>2, <1>3, <1>4 DEF held, objectSize, shardFile
  <2>2. bytes \in Nat /\ metadata \in Nat /\ temp[o] \in Nat
    BY <1>1, <1>3, SizesNatParts, SizesAssumption DEF NodeInv
  <2> HIDE DEF bytes, metadata
  <2> QED BY <2>1, <2>2
<1> QED BY <1>2, <1>4, <1>5, RoomFrees DEF holding, HandlerStep, Put

LEMMA RoomRemoveFile ==
  ASSUME NodeInv, NodeInv', RoomInv, ~outlived, NEW h \in Handlers, RemoveFile(h)
  PROVE  RoomInv'
<1>1. PICK o \in Objects : o = obj[h] /\ o \in objects /\ pc[h] = "remove"
  BY DEF RemoveFile, NodeInv, WholeInv, DiskInv, HandlerInv, Removing
<1>2. UNCHANGED <<objects, content, pc, temp>>
  BY DEF RemoveFile
<1>3. \E i, j : /\ shard' = shard \/ shard' = [shard EXCEPT ![o] = @ \ {i}]
                /\ bad' = bad \/ bad' = [bad EXCEPT ![o] = @ \ {j}]
  BY <1>1 DEF RemoveFile
<1>4. /\ shard'[o] \cup bad'[o] \subseteq shard[o] \cup bad[o]
      /\ \A p \in Objects \ {o} : shard'[p] = shard[p] /\ bad'[p] = bad[p]
  BY <1>3 DEF NodeInv, WholeInv, DiskInv
<1>5. meta'[o] \in {meta[o], none} /\ \A p \in Objects \ {o} : meta'[p] = meta[p]
  BY <1>1 DEF RemoveFile, NodeInv, WholeInv, DiskInv
<1>6. Only(o)
  BY <1>2, <1>4, <1>5 DEF Only
<1>7. held(o)' <= held(o)
  <2> DEFINE n == Cardinality(shard[o] \cup bad[o])
             m == Cardinality(shard'[o] \cup bad'[o])
             f == shardFile(content[o])
             t == temp[o]
             a == IF meta[o] = none THEN 0 ELSE MetaSize
             b == IF meta'[o] = none THEN 0 ELSE MetaSize
  <2>1. held(o) = n * f + t + a /\ held(o)' = m * f + t + b
    BY <1>1, <1>2 DEF held, objectSize, shardFile
  <2>2. IsFiniteSet(shard[o] \cup bad[o])
    BY ShardsFinite, FS_Subset DEF NodeInv, WholeInv, DiskInv
  <2>3. m \in Nat /\ n \in Nat /\ m <= n
    BY <1>4, <2>2, FS_Subset, FS_CardinalityType
  <2>4. f \in Nat /\ t \in Nat /\ a \in Nat /\ b \in Nat /\ b <= a
    BY <1>1, <1>5, ShardFileNat, SizesAssumption DEF NodeInv, StoreInv, Kept
  <2> HIDE DEF n, m, f, t, a, b
  <2>5. PICK k \in Nat : n = m + k
    BY <2>3
  <2>6. n * f = m * f + k * f /\ m * f \in Nat /\ k * f \in Nat
    BY <2>3, <2>4, <2>5
  <2> QED BY <2>1, <2>4, <2>6
<1> QED BY <1>1, <1>2, <1>6, <1>7, RoomFrees DEF holding, HandlerStep, Put

LEMMA RoomRemoveDirectory ==
  ASSUME NodeInv, NodeInv', RoomInv, ~outlived, NEW h \in Handlers, RemoveDirectory(h)
  PROVE  RoomInv'
<1>1. PICK o \in Objects : o = obj[h] /\ o \in objects /\ pc[h] = "remove"
  BY DEF RemoveDirectory, NodeInv, WholeInv, DiskInv, HandlerInv, Removing
<1>2. /\ objects' = objects \ {o} /\ leave(h)
      /\ UNCHANGED <<shard, bad, meta, temp>>
  BY <1>1 DEF RemoveDirectory
<1>3. \A p \in Objects \ {o} : content'[p] = content[p]
  BY <1>1 DEF RemoveDirectory, NodeInv, StoreInv
<1>4. pc'[h] = "idle" /\ Only(o) /\ held(o)' = 0
  BY <1>2, <1>3 DEF Only, leave, step, held, NodeInv, WholeInv, Domains
<1>5. held(o) \in Nat
  BY <1>1, SizesNat DEF NodeInv, IntactNat, held
<1> QED BY <1>1, <1>4, <1>5, RoomFrees DEF holding, HandlerStep, Put

LEMMA RoomNext ==
  ASSUME NodeInv, NodeInv', RoomInv, [Next]_vars
  PROVE  RoomInv'
<1> DEFINE Waits == \A h \in Handlers : pc'[h] \in asking =>
                      pc[h] = pc'[h] /\ up'[h] = up[h] /\ obj'[h] = obj[h]
<1> USE DEF disk, handler, asking
<1>1. CASE outlived'
  <2>1. ASSUME UNCHANGED disk PROVE IsFiniteSet(objects')
    BY <2>1 DEF RoomInv
  <2>2. ASSUME NEW h \in Handlers,
               \/ Write(h) \/ Rename(h) \/ SyncFails(h) \/ WriteFails(h)
               \/ RemoveFile(h) \/ RemoveDirectory(h)
               \/ \E o \in Objects : Mkdir(h, o)
        PROVE  IsFiniteSet(objects')
    <3>1. objects' \subseteq objects \/ \E o : objects' = objects \cup {o}
      BY <2>2 DEF Write, Rename, SyncFails, WriteFails, RemoveFile, RemoveDirectory, Mkdir
    <3> QED BY <3>1, FS_Subset, FS_AddElement DEF RoomInv
  <2>3. (\E o \in Objects : \E lost \in SUBSET Shards : Damage(o, lost)) => objects' = objects
    BY DEF Damage
  <2>4. IsFiniteSet(objects')
    BY <2>1, <2>2, <2>3, StoreFrame DEF NodeInv, RoomInv
  <2> QED BY <1>1, <2>4 DEF RoomInv
<1>2. CASE ~outlived'
  <2>1. ~outlived
    BY <1>2, OutlivedStays DEF NodeInv
  <2>2. ASSUME UNCHANGED disk, Waits PROVE RoomInv'
    BY <1>2, <2>1, <2>2, RoomStays
  <2>3. CASE UNCHANGED vars
    BY <2>2, <2>3 DEF vars
  <2>4. CASE \E k \in Nodes : Opening(k) \/ CFSStop(k) \/ Stopped(k)
    <3>1. UNCHANGED <<disk, pc, handler>>
      BY <2>4 DEF Opening, CFSStart, OpenKey, OpenIdentity, OpenFiles, OpenFails, CFSStop,
                  Stopped
    <3> QED BY <2>2, <3>1
  <2>5. CASE Crash \/ LoseSecret \/ RestoreSecrets
    <3>1. UNCHANGED disk /\ Waits
      BY <2>5 DEF Crash, LoseSecret, RestoreSecrets
    <3> QED BY <2>2, <3>1
  <2>6. ASSUME NEW o \in Objects, NEW lost \in SUBSET Shards, Damage(o, lost)
        PROVE  RoomInv'
    <3>1. UNCHANGED <<objects, meta, temp, content, pc, handler>> /\ lost \subseteq shard[o]
      BY <2>6 DEF Damage
    <3>2. /\ shard'[o] \cup bad'[o] = shard[o] \cup bad[o]
          /\ \A p \in Objects \ {o} : shard'[p] = shard[p] /\ bad'[p] = bad[p]
      BY <2>6, <3>1 DEF Damage, NodeInv, WholeInv, DiskInv
    <3>3. Only(o) /\ \A p \in Objects : objectSize(p)' = objectSize(p) /\ held(p)' = held(p)
      <4>1. \A p \in Objects : shard'[p] \cup bad'[p] = shard[p] \cup bad[p]
        BY <3>2
      <4> QED BY <3>1, <3>2, <4>1 DEF Only, objectSize, held, shardFile
    <3>4. usage' = usage /\ IsFiniteSet(objects')
      BY <3>3, RoomTouches
    <3>5. \A h \in Handlers : pc[h] \in {"write", "rename"} => obj[h] \in Objects
      BY WrittenSize DEF AllWritten, Written
    <3>6. \A h \in Handlers : Room(h)'
      BY <2>1, <3>1, <3>3, <3>4, <3>5 DEF RoomInv, Room, reserve
    <3> QED BY <2>1, <3>4, <3>6 DEF RoomInv
  <2>7. ASSUME NEW h \in Handlers, HandlerStep(h) PROVE RoomInv'
    <3>1. CASE \/ Write(h) \/ Rename(h) \/ SyncFails(h) \/ WriteFails(h)
               \/ RemoveFile(h) \/ RemoveDirectory(h)
               \/ \E o \in Objects : Mkdir(h, o)
      BY <2>1, <3>1, RoomWrite, RoomRename, RoomWriteFails, RoomRemoveFile,
         RoomRemoveDirectory, RoomMkdir
    <3>2. CASE Reserve(h)
      <4>1. UNCHANGED <<up, obj, disk>> /\ pc[h] = "search" /\ pc' = [pc EXCEPT ![h] = "mkdir"]
            /\ usage + reserve(up[h]) <= Quota
        BY <3>2 DEF Reserve, step, fits
      <4>2. \A p : objectSize(p)' = objectSize(p) /\ held(p)' = held(p)
        BY <4>1 DEF objectSize, held
      <4>3. Only(none)
        BY <4>1 DEF Only
      <4>4. usage' = usage /\ IsFiniteSet(objects')
        BY <4>2, <4>3, RoomTouches
      <4>5. Room(h)' /\ usage' <= Quota
        BY <2>1, <4>1, <4>4 DEF Room, reserve, RoomInv, NodeInv, WholeInv, Domains
      <4> QED BY <2>1, <2>7, <4>1, <4>4, <4>5, RoomMoves DEF holding
    <3>3. CASE \/ \E k \in Nodes : Download(h, k) \/ \E u \in Uploads : Upload(h, k, u)
               \/ Lock(h) \/ Find(h) \/ Get(h)
               \/ Deduplicate(h) \/ Refuse(h) \/ MkdirFails(h) \/ Register(h)
      <4>1. UNCHANGED disk /\ pc'[h] \notin asking
        BY <3>3 DEF Download, Upload, Lock, Find, Get, ReadShard, Serve, Insufficient,
                    Deduplicate, Refuse, MkdirFails, Register, step, leave,
                    NodeInv, WholeInv, Domains
      <4>2. Waits
        BY <2>7, <4>1, OthersStay DEF mine, NodeInv
      <4> QED BY <2>2, <4>1, <4>2
    <3> QED BY <2>7, <3>1, <3>2, <3>3 DEF HandlerStep, Put
  <2> QED BY <2>3, <2>4, <2>5, <2>6, <2>7 DEF Next, HandlerStep
<1> QED BY <1>1, <1>2

-----------------------------------------------------------------------------
(* Everything a node relies on, the sum over its objects included.         *)
LEMMA NodeInit == Init => NodeInv
  BY WholeInit, NodesInit, PresentInit, LocalInit, StoreInit DEF NodeInv, IdentityInv, Init

LEMMA NodeNext == ASSUME NodeInv, [Next]_vars PROVE NodeInv'
  BY WholeNext, NodesNext, PresentNext, LocalNext, StoreNext, IdentityNext DEF NodeInv

(* Type correctness of the node: what is on its disk belongs to an object  *)
(* that exists, what a handler knows is in range.                          *)
THEOREM NodeTypeOK == Spec => []TypeOK
<1>1. NodeInv => TypeOK
  BY DEF NodeInv, IdentityInv, WholeInv, DiskInv, Committed, NodesInv, LocalInv, Local,
         StoreInv, Kept, steps, TypeOK
<1> QED BY <1>1, NodeInit, NodeNext, PTL DEF Spec

(* put (node.go) writes metadata.json last and Open skips a directory      *)
(* without it: what is committed is whole, unless the put failed after its *)
(* metadata was in place, and an upload once answered with success is      *)
(* served by every node that is opened later.                              *)
THEOREM NodeCommitsWhole == Spec => []CommittedWhole
<1>1. NodeInv => CommittedWhole
  BY DEF NodeInv, WholeInv, DiskInv, Committed, NodesInv, Found, serving, CommittedWhole
<1> QED BY <1>1, NodeInit, NodeNext, PTL DEF Spec

(* Open refuses existing objects without their secrets: every object is    *)
(* sealed with the last key made, which the backup holds.                  *)
THEOREM NodeKeepsKey == Spec => []KeyKept
<1>1. NodeInv => KeyKept
  BY DEF NodeInv, NodesInv, Sealed, KeyKept
<1> QED BY <1>1, NodeInit, NodeNext, PTL DEF Spec

(* put searches the map and registers its object under one mutex, and Open *)
(* maps every committed object: an upload repeated at the same time, or    *)
(* after a crash, finds the object it has already made.                    *)
THEOREM NodeUploadsOnce == Spec => []OncePerUpload
<1>1. OnceInv => OncePerUpload
  BY DEF OnceInv, Distinct, OncePerUpload
<1> QED BY <1>1, NodeInit, OnceInit, NodeNext, OnceNext, PTL DEF Spec

(* put reserves before it writes and one put writes at a time: temporary   *)
(* files, metadata and what crashes left behind included, the directory    *)
(* stays within the quota.                                                 *)
THEOREM NodeHoldsQuota == Spec => []QuotaHeld
<1>1. RoomInv => QuotaHeld
  BY DEF RoomInv, QuotaHeld
<1> QED BY <1>1, NodeInit, RoomInit, NodeNext, RoomNext, PTL DEF Spec

(* get (node.go) gives up only over an object of which more shards are     *)
(* damaged than there is parity, or whose put failed with its metadata in  *)
(* place: a shard it could not use is damaged, for the key is the right    *)
(* one.                                                                    *)
THEOREM NodeDownloads == Spec => DownloadServes
<1>1. Init => GatherInv
  BY DEF Init, GatherInv, Gathered
<1>2. ASSUME NodeInv, GatherInv, [Next]_vars
      PROVE  [\A h \in Handlers :
                Insufficient(h) => \/ outlived \/ obj[h] \in withdrawn
                                   \/ Cardinality(bad[obj[h]]) > ParityShards]_vars
  BY <1>2, GatherFails
<1> QED BY <1>1, <1>2, NodeInit, NodeNext, GatherNext, PTL DEF Spec, DownloadServes
=============================================================================
