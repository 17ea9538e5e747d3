--------------------------- MODULE FileLifecycle ----------------------------
(***************************************************************************)
(* The life of one file at the node that owns it: uploaded, encoded in a   *)
(* worker thread, distributed to peers, renamed, read, scanned, rebuilt,   *)
(* purged and deleted, with the peers that hold its shards and the network *)
(* in between.  (api/main.py, api/replication.py, api/repair.py)           *)
(*                                                                         *)
(* The node runs one asyncio event loop and a pool of worker threads.  A   *)
(* coroutine keeps the loop from one await to the next; `loop` names the   *)
(* coroutine in the middle of such a stretch.  Only worker threads, peers  *)
(* and a crash of the node can interleave there.                           *)
(***************************************************************************)
EXTENDS Placement

CONSTANTS
    PeerOrder,   \* the peers in the order _peers lists them
    KeepLocal,   \* peers.keep_local_copy
    MaxGen,      \* bound: how often the file may be encoded
    MaxCrash,    \* bound: crashes of the node
    MaxLoss,     \* bound: shard files lost by peers' disks
    Events,      \* the requests and failures that may happen (EventName)
    Window       \* upload stages in which a request or a crash may come

(* The two users of _run_encode_pipeline and _distribute_shards, and the   *)
(* base name their encoder gives the shard files: the upload's temporary   *)
(* name, or repair-<id> for every rebuild.                                 *)
Task == {"upload", "repair"}
File == Task \X Shard

EventName == {"rename", "read", "delete", "repair", "purge",
              "offline", "pushfail", "corrupt", "loss", "crash",
              "encoderfails", "encoderraises", "pushraises"}

Stage == {"new", "queued", "encode", "encrypt", "merge", "write", "place", "push",
          "wait", "done", "dead"}

ASSUME LifecycleAssumption ==
    /\ PeerOrder \in Ring
    /\ \A p \in Peer : \E k \in DOMAIN PeerOrder : PeerOrder[k] = p
    /\ KeepLocal \in BOOLEAN
    /\ MaxGen \in Nat \ {0}
    /\ MaxCrash \in Nat
    /\ MaxLoss \in Nat
    /\ Events \subseteq EventName
    /\ Window \subseteq Stage

(* What a shard file holds: nothing, the shard as encrypted by the g-th    *)
(* encode, or bytes that do not decrypt: damaged ones, or a shard that is  *)
(* not encrypted yet.  All encodes carry the same plaintext, but           *)
(* encryption is randomised, so each has digests of its own.               *)
Absent == 0
Corrupt == MaxGen + 1
Gen == 1..MaxGen
Content == 0..Corrupt
NoFiles == [f \in File |-> Absent]

(* One entry of chunk_list.  base "none" stands for an entry that is not   *)
(* there: an unencoded file has an empty chunk_list.                       *)
Chunk == [base : Task \cup {"none"}, peer : Site, digest : Content]
NoChunks == [i \in Shard |-> [base |-> "none", peer |-> Here, digest |-> 0]]
FreshChunks(t) == [i \in Shard |-> [base |-> t, peer |-> Here, digest |-> 0]]

(* tree/<id>.json.  name 0 is the uploaded name, 1 the name the user gives *)
(* the file later.                                                         *)
Metadata == [present : BOOLEAN, name : {0, 1},
             status : {"processing", "stored", "error"},
             chunks : [Shard -> Chunk]]
NoMetadata == [present |-> FALSE, name |-> 0, status |-> "processing",
               chunks |-> NoChunks]

PathOf(md, i) == <<md.chunks[i].base, i>>
HasChunks(md) == \E i \in Shard : md.chunks[i].base # "none"
HolderOf(md) == {md.chunks[i].peer : i \in Shard} \ {Here}

Push == [by : Task, to : Peer, file : File, gen : Content]

TaskState == [pc : Stage, md : Metadata, ok : BOOLEAN, gen : 0..MaxGen,
              plan : Plan, next : 0..Total, sent : Content, reply : Content]

Coroutine == {"upload", "repair", "read", "rename", "delete", "purge"}
Reader == {"read", "repair"}
Remover == {"delete", "purge"}

GatherState == [pc : {"idle", "range", "fetch", "served", "refused"}, md : Metadata,
                staged : SUBSET Shard, want : SUBSET Shard, silent : SUBSET Shard]
ScanState == [pc : {"idle", "listed", "probe", "verdict", "rebuild", "purge"},
              md : Metadata,
              claims : [Peer -> SUBSET Shard], probe : SUBSET Peer,
              avail : SUBSET Shard,
              verdict : {"none", "intact", "degraded", "unrecoverable", "orphaned"}]
RemoveState == [pc : {"idle", "tell", "done"}, tell : SUBSET Peer]

VARIABLES
    meta,      \* the metadata file on disk
    local,     \* proc/<id>/: shard files on the node's own disk
    held,      \* peer -> shard files it keeps for this file
    online,    \* peers that answer
    net,       \* shards on their way to a peer
    loop,      \* coroutine inside an await-free stretch, or "free"
    status,    \* _file_statuses[id].status
    gen,       \* encodes so far
    task,      \* the two encode-and-distribute pipelines
    gather,    \* gather_shards as run by a download and by a rebuild
    scan,      \* assess, as run by POST /api/repair
    remove,    \* the delete handler and purge_unrecoverable
    rename,    \* the PATCH handler between its read and its write
    wanted,    \* history: whether the user renamed the file
    deleted,   \* history: a delete was answered "deleted"
    crashes, losses   \* counters for the bounds

disk == <<meta, local>>
peers == <<held, online, net>>
history == <<wanted, deleted, crashes, losses>>
vars == <<meta, local, held, online, net, loop, status, gen, task, gather,
          scan, remove, rename, wanted, deleted, crashes, losses>>

-----------------------------------------------------------------------------

IdleTask == [pc |-> "new", md |-> NoMetadata, ok |-> FALSE, gen |-> 0,
             plan |-> [i \in Shard |-> Here], next |-> 0,
             sent |-> Absent, reply |-> Absent]
IdleGather == [pc |-> "idle", md |-> NoMetadata, staged |-> {}, want |-> {},
               silent |-> {}]
IdleScan == [pc |-> "idle", md |-> NoMetadata, claims |-> [p \in Peer |-> {}],
             probe |-> {}, avail |-> {}, verdict |-> "none"]
IdleRemove == [pc |-> "idle", tell |-> {}]
IdleRename == [pc |-> "idle", md |-> NoMetadata]

Init ==
    /\ meta = NoMetadata
    /\ local = NoFiles
    /\ held = [p \in Peer |-> NoFiles]
    /\ online = Peer
    /\ net = {}
    /\ loop = "free"
    /\ status = "none"
    /\ gen = 0
    /\ task = [t \in Task |-> IdleTask]
    /\ gather = [c \in Reader |-> IdleGather]
    /\ scan = IdleScan
    /\ remove = [h \in Remover |-> IdleRemove]
    /\ rename = IdleRename
    /\ wanted = 0
    /\ deleted = FALSE
    /\ crashes = 0
    /\ losses = 0

(* Mutant: every handler gives up the loop after each of its steps.        *)
HoldNever(c) == loop' = "free"

OnLoop(c) == loop \in {"free", c}
Free == loop' = "free"
Hold(c) == loop' = c

(* A user's request is taken up when the loop is free, in the stages of    *)
(* the upload that the run admits.                                         *)
Admitted(request) ==
    /\ request \in Events
    /\ task["upload"].pc \in Window
    /\ loop = "free"

-----------------------------------------------------------------------------
(* Upload and _run_encode_pipeline                                         *)

(* upload_file: publish a placeholder with an empty chunk_list, seed the   *)
(* status and hand the pipeline to a background task.                      *)
UploadFile ==
    /\ task["upload"].pc = "new"
    /\ loop = "free"
    /\ meta' = [NoMetadata EXCEPT !.present = TRUE]
    /\ status' = "processing"
    /\ task' = [task EXCEPT !["upload"].pc = "queued"]
    /\ UNCHANGED <<local, peers, loop, gen, gather, scan, remove, rename, history>>

(* A worker thread picks the job up and sets the status afresh.            *)
StartEncoding(t) ==
    /\ task[t].pc = "queued"
    /\ gen < MaxGen
    /\ gen' = gen + 1
    /\ status' = "processing"
    /\ task' = [task EXCEPT ![t] = [@ EXCEPT !.pc = "encode", !.gen = gen']]
    /\ UNCHANGED <<disk, peers, loop, gather, scan, remove, rename, history>>

(* The encoder writes its shard files one by one, in plain, until a delete *)
(* has removed their directory (and the status with it) ...                *)
WriteShard(t) ==
    /\ task[t].pc = "encode"
    /\ task[t].next < Total
    /\ status # "none"
    /\ local' = [local EXCEPT ![<<t, task[t].next>>] = Corrupt]
    /\ task' = [task EXCEPT ![t].next = @ + 1]
    /\ UNCHANGED <<meta, peers, loop, status, gen, gather, scan, remove, rename, history>>

(* ... and exits with 0; the progress update finds the status.             *)
FinishEncoder(t) ==
    /\ task[t].pc = "encode"
    /\ task[t].next = Total
    /\ status # "none"
    /\ task' = [task EXCEPT ![t] = [@ EXCEPT !.pc = "encrypt", !.next = 0]]
    /\ UNCHANGED <<disk, peers, loop, status, gen, gather, scan, remove, rename, history>>

(* The thread encrypts the shards in place, passing over one that a delete *)
(* has removed.                                                            *)
EncryptShard(t) ==
    LET f == <<t, task[t].next>>
    IN  /\ task[t].pc = "encrypt"
        /\ task[t].next < Total
        /\ local' = [local EXCEPT ![f] = IF @ = Absent THEN Absent ELSE task[t].gen]
        /\ task' = [task EXCEPT ![t].next = @ + 1]
        /\ UNCHANGED <<meta, peers, loop, status, gen, gather, scan, remove, rename,
                       history>>

FinishEncryption(t) ==
    /\ task[t].pc = "encrypt"
    /\ task[t].next = Total
    /\ status # "none"
    /\ task' = [task EXCEPT ![t] = [@ EXCEPT !.pc = "merge", !.ok = TRUE, !.next = 0]]
    /\ UNCHANGED <<disk, peers, loop, status, gen, gather, scan, remove, rename, history>>

(* A non-zero exit of the encoder, whatever it has written: the chunk list *)
(* stays empty and the thread carries on.                                  *)
EncoderFails(t) ==
    /\ "encoderfails" \in Events
    /\ task[t].pc = "encode"
    /\ status # "none"
    /\ task' = [task EXCEPT ![t] = [@ EXCEPT !.pc = "merge", !.ok = TRUE, !.gen = 0,
                                             !.next = 0]]
    /\ UNCHANGED <<disk, peers, loop, status, gen, gather, scan, remove, rename, history>>

(* An exception on the way - a timeout, a full disk, or a progress update  *)
(* of a status that a delete has popped - goes to the except branch.       *)
EncodingRaises(t) ==
    /\ task[t].pc \in {"encode", "encrypt"}
    /\ "encoderraises" \in Events \/ status = "none"
    /\ task' = [task EXCEPT ![t] = [@ EXCEPT !.pc = "merge", !.ok = FALSE, !.gen = 0,
                                             !.next = 0]]
    /\ status' = "error"
    /\ UNCHANGED <<disk, peers, loop, gen, gather, scan, remove, rename, history>>

(* Mutant: chunk_list is only filled in, never replaced.                   *)
MergedKeepingChunks(t) ==
    [present |-> TRUE,
     name |-> IF meta.present THEN meta.name ELSE task[t].md.name,
     status |-> "stored",
     chunks |-> IF HasChunks(meta) THEN meta.chunks ELSE FreshChunks(t)]

(* The metadata the pipeline is about to write, merged onto what is on     *)
(* disk: `_read_tree_json(file_id) or {}` recreates a missing file under   *)
(* the name the pipeline was started with.                                 *)
Merged(t) ==
    [present |-> TRUE,
     name |-> IF meta.present THEN meta.name ELSE task[t].md.name,
     status |-> "stored",
     chunks |-> IF task[t].gen = 0 THEN NoChunks ELSE FreshChunks(t)]


(* What is written back instead when the pipeline raised.                  *)
Failed == [meta EXCEPT !.status = "error"]

(* The thread reads the metadata ...                                       *)
MergeMetadata(t) ==
    /\ task[t].pc = "merge"
    /\ task' = [task EXCEPT ![t] =
                  [@ EXCEPT !.pc = "write",
                            !.md = IF task[t].ok THEN Merged(t) ELSE Failed]]
    /\ UNCHANGED <<disk, peers, loop, status, gen, gather, scan, remove, rename, history>>

(* ... and writes it, with nothing to keep the event loop from changing it *)
(* in between.  The upload goes on to distribute only a complete file; a   *)
(* rebuild distributes whatever the outcome was.                           *)
WriteMetadata(t) ==
    /\ task[t].pc = "write"
    /\ meta' = IF task[t].md.present THEN task[t].md ELSE meta
    /\ status' = IF task[t].ok THEN "complete" ELSE status
    /\ task' = [task EXCEPT ![t].pc = IF task[t].ok \/ t = "repair"
                                      THEN "place" ELSE "done"]
    /\ UNCHANGED <<local, peers, loop, gen, gather, scan, remove, rename, history>>

-----------------------------------------------------------------------------
(* _distribute_shards and replication.distribute                           *)

(* Mutant: plan_placement does not cap what one peer is given.             *)
PlanUncapped(urls) ==
    [i \in Shard |-> IF urls = <<>> THEN Here ELSE urls[(i % Len(urls)) + 1]]

PlanFor(urls) == PlanPlacement(urls)

InPeerOrder(urls) ==
    \A j, k \in DOMAIN urls, a, b \in DOMAIN PeerOrder :
        urls[j] = PeerOrder[a] /\ urls[k] = PeerOrder[b] /\ j < k => a < b

(* _healthy_peer_urls: the peers that the last announcement round found    *)
(* answering, in the order of _peers.  When peers come and go that may be  *)
(* any of them.                                                            *)
HealthyUrls ==
    {urls \in Ring :
        /\ InPeerOrder(urls)
        /\ "offline" \notin Events => \A p \in online : \E k \in DOMAIN urls : urls[k] = p}

(* Without a healthy peer, without metadata or, for the upload, without    *)
(* the status "complete", nothing is distributed.                          *)
SkipDistribution(t) ==
    /\ task[t].pc = "place"
    /\ OnLoop(t)
    /\ \/ <<>> \in HealthyUrls
       \/ ~meta.present
       \/ t = "upload" /\ status # "complete"
    /\ task' = [task EXCEPT ![t].pc = "done"]
    /\ Free
    /\ UNCHANGED <<disk, peers, status, gen, gather, scan, remove, rename, history>>

(* The metadata is read once here and carried in memory until the last     *)
(* shard has been dealt with.                                              *)
DistributeShards(t) ==
    /\ task[t].pc = "place"
    /\ OnLoop(t)
    /\ meta.present
    /\ t = "upload" => status = "complete"
    /\ \E urls \in HealthyUrls \ {<<>>} :
          task' = [task EXCEPT ![t] =
                     [@ EXCEPT !.pc = "push", !.md = meta, !.next = 0,
                               !.reply = Absent, !.plan = PlanFor(urls)]]
    /\ status' = "distributing"
    /\ Free
    /\ UNCHANGED <<disk, peers, gen, gather, scan, remove, rename, history>>

(* The shards still to be considered that have a target and a local copy;  *)
(* the loop passes over the others without awaiting anything.              *)
ToSend(t) ==
    {i \in task[t].next..(Total - 1) :
        /\ task[t].plan[i] # Here
        /\ task[t].md.chunks[i].base # "none"
        /\ local[PathOf(task[t].md, i)] # Absent}

(* The message task t is waiting for an answer to.                         *)
Sent(t) ==
    LET i == task[t].next
    IN  [by |-> t, to |-> task[t].plan[i], file |-> PathOf(task[t].md, i),
         gen |-> task[t].sent]

(* push_shard: read the shard and post it.                                 *)
PushShard(t) ==
    /\ task[t].pc = "push"
    /\ OnLoop(t)
    /\ \E i \in ToSend(t) :
          LET f == PathOf(task[t].md, i)
          IN  /\ \A j \in ToSend(t) : i <= j
              /\ net' = net \cup {[by |-> t, to |-> task[t].plan[i],
                                   file |-> f, gen |-> local[f]]}
              /\ task' = [task EXCEPT ![t] =
                            [@ EXCEPT !.pc = "wait", !.next = i,
                                      !.sent = local[f], !.reply = Absent]]
    /\ Free
    /\ UNCHANGED <<disk, held, online, status, gen, gather, scan, remove, rename, history>>

(* receive_shard at the peer: store the payload under its name, answer     *)
(* with its digest.  The answer is of use only to the task that still      *)
(* waits for it.                                                           *)
ReceiveShard(m) ==
    /\ m \in net
    /\ m.to \in online
    /\ net' = net \ {m}
    /\ \E stored \in {m.gen} \cup (IF "corrupt" \in Events THEN {Corrupt} ELSE {}) :
          /\ held' = [held EXCEPT ![m.to][m.file] = stored]
          /\ task' = IF task[m.by].pc = "wait" /\ Sent(m.by) = m
                     THEN [task EXCEPT ![m.by].reply = stored]
                     ELSE task
    /\ UNCHANGED <<disk, online, loop, status, gen, gather, scan, remove, rename, history>>

(* Mutant: the digest that came back is not compared.                      *)
DigestMatchesUnchecked(t) == task[t].reply # Absent

DigestMatches(t) == task[t].reply = task[t].sent

(* Mutant: the shard after the one just dealt with is passed over.         *)
NextShardSkipping(t) == task[t].next + 2

NextShard(t) == task[t].next + 1

(* The metadata once the shard under way is known to be at its target.     *)
HandedOver(t) ==
    LET i == task[t].next
        chunk == [task[t].md.chunks[i] EXCEPT !.peer = task[t].plan[i],
                                              !.digest = task[t].sent]
    IN  [task[t].md EXCEPT !.chunks = [@ EXCEPT ![i] = chunk]]

(* The peer's digest equals ours: record the peer and drop the local copy. *)
DropLocal(t) ==
    /\ task[t].pc = "wait"
    /\ task[t].reply # Absent
    /\ DigestMatches(t)
    /\ OnLoop(t)
    /\ task' = [task EXCEPT ![t] = [@ EXCEPT !.pc = "push", !.next = NextShard(t),
                                             !.md = HandedOver(t)]]
    /\ local' = IF KeepLocal THEN local
                ELSE [local EXCEPT ![PathOf(task[t].md, task[t].next)] = Absent]
    /\ Hold(t)
    /\ UNCHANGED <<meta, peers, status, gen, gather, scan, remove, rename, history>>

(* Mutant: the request has no timeout.                                     *)
GivesUpNever(t) == task[t].reply # Absent /\ ~DigestMatches(t)

(* A refusal, a timeout, a lost answer or a digest that differs.           *)
GivesUp(t) ==
    \/ "pushfail" \in Events
    \/ Sent(t).to \notin online
    \/ task[t].reply # Absent /\ ~DigestMatches(t)

(* The shard stays here and the loop goes on.  A message given up on may   *)
(* still arrive.                                                           *)
KeepAfterFailure(t) ==
    /\ task[t].pc = "wait"
    /\ OnLoop(t)
    /\ GivesUp(t)
    /\ \/ UNCHANGED net
       \/ net' = net \ {Sent(t)}
    /\ task' = [task EXCEPT ![t] = [@ EXCEPT !.pc = "push", !.next = NextShard(t)]]
    /\ Hold(t)
    /\ UNCHANGED <<disk, held, online, status, gen, gather, scan, remove, rename, history>>

(* An answer that is not JSON raises out of distribute: the metadata of    *)
(* the shards already handed over is never written.                        *)
PushRaises(t) ==
    /\ "pushraises" \in Events
    /\ task[t].pc = "wait"
    /\ OnLoop(t)
    /\ task' = [task EXCEPT ![t].pc = "done"]
    /\ Free
    /\ UNCHANGED <<disk, peers, status, gen, gather, scan, remove, rename, history>>

(* After the last shard the in-memory metadata replaces what is on disk.   *)
PublishPlacement(t) ==
    /\ task[t].pc = "push"
    /\ OnLoop(t)
    /\ ToSend(t) = {}
    /\ meta' = task[t].md
    /\ status' = "complete"
    /\ task' = [task EXCEPT ![t].pc = "done"]
    /\ Free
    /\ UNCHANGED <<local, peers, gen, gather, scan, remove, rename, history>>

-----------------------------------------------------------------------------
(* update_file: rename (or move).  The handler never awaits, but a worker  *)
(* thread may write the metadata between its read and its write.           *)

RenameRead ==
    /\ Admitted("rename")
    /\ rename.pc = "idle"
    /\ wanted = 0
    /\ meta.present
    /\ rename' = [pc |-> "write", md |-> [meta EXCEPT !.name = 1]]
    /\ Hold("rename")
    /\ UNCHANGED <<disk, peers, status, gen, task, gather, scan, remove, history>>

RenameWrite ==
    /\ rename.pc = "write"
    /\ meta' = rename.md
    /\ wanted' = 1
    /\ rename' = IdleRename
    /\ Free
    /\ UNCHANGED <<local, peers, status, gen, task, gather, scan, remove,
                   deleted, crashes, losses>>

-----------------------------------------------------------------------------
(* delete_file and the purge of an unrecoverable file: unlink the          *)
(* metadata, tell the peers it named, remove the local shards.  Asking the *)
(* first peer is the first await.                                          *)

(* Mutant: the metadata is left to a later sweep.                          *)
UnlinkLater(h) == meta' = meta

Unlink(h) == meta' = NoMetadata

RetireMetadata(h) ==
    /\ Unlink(h)
    /\ remove' = [remove EXCEPT ![h] = [pc |-> "tell", tell |-> HolderOf(meta)]]
    /\ IF HolderOf(meta) = {} THEN Hold(h) ELSE Free

DeleteFile ==
    /\ Admitted("delete")
    /\ remove["delete"].pc = "idle"
    /\ meta.present
    /\ RetireMetadata("delete")
    /\ UNCHANGED <<local, peers, status, gen, task, gather, scan, rename, history>>

(* drop_replicas at a peer that answers; a peer that does not is skipped.  *)
DropReplicas(h, p) ==
    /\ remove[h].pc = "tell"
    /\ p \in remove[h].tell
    /\ held' = IF p \in online THEN [held EXCEPT ![p] = NoFiles] ELSE held
    /\ remove' = [remove EXCEPT ![h].tell = @ \ {p}]
    /\ IF remove[h].tell = {p} THEN Hold(h) ELSE Free
    /\ OnLoop(h)
    /\ UNCHANGED <<disk, online, net, status, gen, task, gather, scan, rename, history>>

RemoveShards(h) ==
    /\ remove[h].pc = "tell"
    /\ remove[h].tell = {}
    /\ OnLoop(h)
    /\ local' = NoFiles
    /\ IF h = "delete"
       THEN /\ status' = "none"
            /\ deleted' = TRUE
            /\ UNCHANGED scan
       ELSE /\ scan' = IdleScan
            /\ UNCHANGED <<status, deleted>>
    /\ remove' = [remove EXCEPT ![h].pc = IF h = "delete" THEN "done" ELSE "idle"]
    /\ Free
    /\ UNCHANGED <<meta, peers, gen, task, gather, rename, wanted, crashes, losses>>

-----------------------------------------------------------------------------
(* gather_shards, for a download and for a rebuild: stage the local shards *)
(* and fetch the others from the peers the metadata names.                 *)

OnDisk(md) == {i \in Shard : md.chunks[i].base # "none"
                             /\ local[PathOf(md, i)] # Absent}
OnPeers(md) == {i \in Shard : md.chunks[i].peer # Here} \ OnDisk(md)

(* The shards on disk that decrypt.  A peer is not asked for the others.   *)
Readable(md) == {i \in OnDisk(md) : local[PathOf(md, i)] # Corrupt}

(* The coroutine c runs on to its first await, if it has one.              *)
StartGather(c, md) ==
    /\ gather' = [gather EXCEPT ![c] = [IdleGather EXCEPT !.pc = "fetch", !.md = md,
                                                          !.staged = Readable(md),
                                                          !.want = OnPeers(md)]]
    /\ IF OnPeers(md) = {} THEN Hold(c) ELSE Free

(* _shard_in: the peer returns the first file of the directory whose       *)
(* suffix is the index, in whatever order the directory is listed.         *)
ServedBy(p, i) == {held[p][<<b, i>>] : b \in Task} \ {Absent}

Verified(c, i, payload) == payload = gather[c].md.chunks[i].digest

(* `silent` is history: the shards whose peer did not answer.              *)
FetchShard(c, i) ==
    LET p == gather[c].md.chunks[i].peer
    IN  /\ gather[c].pc = "fetch"
        /\ i \in gather[c].want
        /\ OnLoop(c)
        /\ \/ /\ p \notin online
              /\ gather' = [gather EXCEPT ![c].want = @ \ {i},
                                          ![c].silent = @ \cup {i}]
           \/ /\ p \in online
              /\ \E payload \in ServedBy(p, i) : Verified(c, i, payload)
              /\ gather' = [gather EXCEPT ![c].want = @ \ {i},
                                          ![c].staged = @ \cup {i}]
           \/ /\ p \in online
              /\ \/ ServedBy(p, i) = {}
                 \/ \E payload \in ServedBy(p, i) : ~Verified(c, i, payload)
              /\ gather' = [gather EXCEPT ![c].want = @ \ {i}]
        /\ IF gather[c].want = {i} THEN Hold(c) ELSE Free
        /\ UNCHANGED <<disk, peers, status, gen, task, scan, remove, rename, history>>

(* Mutant: the decoder asks for one shard more than it needs.              *)
DecodableStrict(c) == Cardinality(gather[c].staged) > DataShards

(* The decoder needs DataShards shards of the file.                        *)
Decodable(c) == Cardinality(gather[c].staged) >= DataShards

(* download_file reads the metadata, whatever its status, and tries what   *)
(* is cheaper than the decoder, with an await for each shard that it has   *)
(* to fetch ...                                                            *)
ReadFile ==
    /\ Admitted("read")
    /\ gather["read"].pc = "idle"
    /\ meta.present
    /\ gather' = [gather EXCEPT !["read"] = [IdleGather EXCEPT !.pc = "range",
                                                               !.md = meta]]
    /\ Free
    /\ UNCHANGED <<disk, peers, status, gen, task, scan, remove, rename, history>>

(* ... the file as an earlier read left it in the cache, or just the data  *)
(* shards the range overlaps, from the cache, the disk or their peers.     *)
(* The caches hold the plaintext, which is the same in every encode; which *)
(* shards they hold is left open.                                          *)
ServeRange ==
    /\ gather["read"].pc = "range"
    /\ OnLoop("read")
    /\ HasChunks(gather["read"].md)
    /\ gather' = [gather EXCEPT !["read"].pc = "served"]
    /\ Free
    /\ UNCHANGED <<disk, peers, status, gen, task, scan, remove, rename, history>>

(* When that fails every shard is gathered for the decoder, by the         *)
(* metadata read before.                                                   *)
GatherAll ==
    /\ gather["read"].pc = "range"
    /\ OnLoop("read")
    /\ StartGather("read", gather["read"].md)
    /\ UNCHANGED <<disk, peers, status, gen, task, scan, remove, rename, history>>

FinishRead ==
    /\ gather["read"].pc = "fetch"
    /\ gather["read"].want = {}
    /\ OnLoop("read")
    /\ gather' = [gather EXCEPT !["read"].pc = IF Decodable("read") THEN "served"
                                               ELSE "refused"]
    /\ Free
    /\ UNCHANGED <<disk, peers, status, gen, task, scan, remove, rename, history>>

-----------------------------------------------------------------------------
(* POST /api/repair: assess every file, then rebuild this one when it was  *)
(* found degraded, or retire it when the caller asked for that.  Other     *)
(* files are probed, rebuilt and purged before and in between, and the     *)
(* loop is free meanwhile.  Bound: one such request at a time.             *)

(* Mutant: a peer that does not answer is taken to hold nothing.           *)
ConfirmedPessimist(p) ==
    IF p \in online THEN {i \in scan.claims[p] : ServedBy(p, i) # {}} ELSE {}

(* peer_shard_index asks which indices the peer holds; a peer that does    *)
(* not answer is assumed to hold what the metadata says.                   *)
Confirmed(p) ==
    IF p \in online THEN {i \in scan.claims[p] : ServedBy(p, i) # {}}
    ELSE scan.claims[p]

(* The metadata of all files is read first ...                             *)
StartScan ==
    /\ Admitted("repair")
    /\ scan.pc = "idle"
    /\ meta.present
    /\ scan' = [IdleScan EXCEPT !.pc = "listed", !.md = meta]
    /\ Free
    /\ UNCHANGED <<disk, peers, status, gen, task, gather, remove, rename, history>>

(* ... and this one's is compared with the disk when its turn comes.       *)
AssessLocal ==
    LET md == scan.md
        claims == [p \in Peer |-> {i \in OnPeers(md) : md.chunks[i].peer = p}]
        asked == {p \in Peer : claims[p] # {}}
    IN  /\ scan.pc = "listed"
        /\ OnLoop("repair")
        /\ scan' = [scan EXCEPT !.pc = "probe", !.claims = claims, !.probe = asked,
                                !.avail = OnDisk(md)]
        /\ IF asked = {} THEN Hold("repair") ELSE Free
        /\ UNCHANGED <<disk, peers, status, gen, task, gather, remove, rename, history>>

ProbePeer(p) ==
    /\ scan.pc = "probe"
    /\ p \in scan.probe
    /\ OnLoop("repair")
    /\ scan' = [scan EXCEPT !.probe = @ \ {p}, !.avail = @ \cup Confirmed(p)]
    /\ IF scan.probe = {p} THEN Hold("repair") ELSE Free
    /\ UNCHANGED <<disk, peers, status, gen, task, gather, remove, rename, history>>

VerdictOn(available, total) ==
    CASE available = 0                              -> "orphaned"
      [] available \in 1..(DataShards - 1)          -> "unrecoverable"
      [] available >= DataShards /\ available < total -> "degraded"
      [] OTHER                                      -> "intact"

(* The shards the metadata lists.                                          *)
Claimed(md) == IF HasChunks(md) THEN Total ELSE 0

Classify ==
    /\ scan.pc = "probe"
    /\ scan.probe = {}
    /\ OnLoop("repair")
    /\ scan' = [scan EXCEPT !.pc = "verdict",
                  !.verdict = VerdictOn(Cardinality(scan.avail), Claimed(scan.md))]
    /\ Free
    /\ UNCHANGED <<disk, peers, status, gen, task, gather, remove, rename, history>>

(* Nothing to do for this verdict, or nothing the caller asked for; or the *)
(* file has been encoded as often as MaxGen allows.                        *)
LeaveAlone ==
    /\ scan.pc = "verdict"
    /\ OnLoop("repair")
    /\ scan.verdict = "degraded" => ~meta.present \/ gen = MaxGen
    /\ scan' = IdleScan
    /\ Free
    /\ UNCHANGED <<disk, peers, status, gen, task, gather, remove, rename, history>>

(* _rebuild_file reads the metadata again.                                 *)
StartRebuild ==
    /\ scan.pc = "verdict"
    /\ OnLoop("repair")
    /\ scan.verdict = "degraded"
    /\ meta.present
    /\ gen < MaxGen
    /\ scan' = [scan EXCEPT !.pc = "rebuild"]
    /\ StartGather("repair", meta)
    /\ UNCHANGED <<disk, peers, status, gen, task, remove, rename, history>>

(* Too few shards came back: the rebuild is given up and nothing changes.  *)
AbandonRebuild ==
    /\ gather["repair"].pc = "fetch"
    /\ gather["repair"].want = {}
    /\ OnLoop("repair")
    /\ ~Decodable("repair")
    /\ gather' = [gather EXCEPT !["repair"] = IdleGather]
    /\ scan' = IdleScan
    /\ Free
    /\ UNCHANGED <<disk, peers, status, gen, task, remove, rename, history>>

(* The file was decoded: remove every local shard and encode afresh.       *)
ReplaceShards ==
    /\ gather["repair"].pc = "fetch"
    /\ gather["repair"].want = {}
    /\ OnLoop("repair")
    /\ Decodable("repair")
    /\ local' = NoFiles
    /\ task' = [task EXCEPT !["repair"] =
                  [IdleTask EXCEPT !.pc = "queued", !.md = gather["repair"].md]]
    /\ gather' = [gather EXCEPT !["repair"] = IdleGather]
    /\ Free
    /\ UNCHANGED <<meta, peers, status, gen, scan, remove, rename, history>>

FinishRebuild ==
    /\ task["repair"].pc = "done"
    /\ OnLoop("repair")
    /\ task' = [task EXCEPT !["repair"] = IdleTask]
    /\ scan' = IdleScan
    /\ Free
    /\ UNCHANGED <<disk, peers, status, gen, gather, remove, rename, history>>

(* purge_orphans unlinks the metadata the scan found without shards.       *)
PurgeOrphan ==
    /\ "purge" \in Events
    /\ scan.pc = "verdict"
    /\ OnLoop("repair")
    /\ scan.verdict = "orphaned"
    /\ meta' = NoMetadata
    /\ scan' = IdleScan
    /\ Free
    /\ UNCHANGED <<local, peers, status, gen, task, gather, remove, rename, history>>

(* purge_unrecoverable retires the file and its shards.                    *)
PurgeUnrecoverable ==
    /\ "purge" \in Events
    /\ scan.pc = "verdict"
    /\ OnLoop("repair")
    /\ scan.verdict = "unrecoverable"
    /\ scan' = [scan EXCEPT !.pc = "purge"]
    /\ RetireMetadata("purge")
    /\ UNCHANGED <<local, peers, status, gen, task, gather, rename, history>>

-----------------------------------------------------------------------------
(* The environment: peers come and go and lose files, the node crashes.    *)

PeerOffline(p) ==
    /\ "offline" \in Events
    /\ p \in online
    /\ online' = online \ {p}
    /\ UNCHANGED <<disk, held, net, loop, status, gen, task, gather, scan, remove, rename, history>>

PeerOnline(p) ==
    /\ p \notin online
    /\ online' = online \cup {p}
    /\ UNCHANGED <<disk, held, net, loop, status, gen, task, gather, scan, remove, rename, history>>

PeerLosesShard(p, f) ==
    /\ "loss" \in Events
    /\ losses < MaxLoss
    /\ held[p][f] # Absent
    /\ held' = [held EXCEPT ![p][f] = Absent]
    /\ losses' = losses + 1
    /\ UNCHANGED <<disk, online, net, loop, status, gen, task, gather, scan,
                   remove, rename, wanted, deleted, crashes>>

(* A restarted node has its disk and nothing else: background tasks,       *)
(* requests and statuses are gone.  Shards in flight may still arrive.     *)
Crash ==
    /\ "crash" \in Events
    /\ crashes < MaxCrash
    /\ task["upload"].pc \in Window \ {"new"}
    /\ task' = [task EXCEPT !["upload"] = [IdleTask EXCEPT !.pc = "dead"],
                            !["repair"] = IdleTask]
    /\ loop' = "free"
    /\ status' = "none"
    /\ gather' = [c \in Reader |-> IdleGather]
    /\ scan' = IdleScan
    /\ remove' = [h \in Remover |-> IdleRemove]
    /\ rename' = IdleRename
    /\ crashes' = crashes + 1
    /\ UNCHANGED <<disk, peers, gen, wanted, deleted, losses>>

-----------------------------------------------------------------------------

Pipeline(t) ==
    \/ StartEncoding(t) \/ WriteShard(t) \/ FinishEncoder(t)
    \/ EncryptShard(t) \/ FinishEncryption(t) \/ EncoderFails(t) \/ EncodingRaises(t)
    \/ MergeMetadata(t) \/ WriteMetadata(t)
    \/ SkipDistribution(t) \/ DistributeShards(t) \/ PushShard(t)
    \/ DropLocal(t) \/ KeepAfterFailure(t) \/ PushRaises(t)
    \/ PublishPlacement(t)

Reading == \/ ServeRange \/ GatherAll \/ FinishRead
           \/ \E i \in Shard : FetchShard("read", i)

Repairing ==
    \/ AssessLocal
    \/ \E p \in Peer : ProbePeer(p)
    \/ Classify \/ LeaveAlone \/ StartRebuild \/ AbandonRebuild
    \/ \E i \in Shard : FetchShard("repair", i)
    \/ ReplaceShards \/ FinishRebuild \/ PurgeOrphan \/ PurgeUnrecoverable

Removing(h) ==
    \/ \E p \in Peer : DropReplicas(h, p)
    \/ RemoveShards(h)

Requests == UploadFile \/ RenameRead \/ DeleteFile \/ ReadFile \/ StartScan

Environment ==
    \/ Crash
    \/ \E p \in Peer : PeerOffline(p) \/ PeerOnline(p)
    \/ \E p \in Peer, f \in File : PeerLosesShard(p, f)

Next ==
    \/ Requests
    \/ \E t \in Task : Pipeline(t)
    \/ \E m \in net : ReceiveShard(m)
    \/ RenameWrite
    \/ Reading
    \/ Repairing
    \/ \E h \in Remover : Removing(h)
    \/ Environment

Spec == Init /\ [][Next]_vars

(* Scheduling: the loop runs every coroutine that is ready, the executor   *)
(* every job it was given, an online peer answers, and httpx gives up on   *)
(* one that does not.  Users, failures and crashes are not obliged to act. *)
FairSpec ==
    /\ Spec
    /\ \A t \in Task : WF_vars(Pipeline(t))
    /\ WF_vars(\E m \in net : ReceiveShard(m))
    /\ WF_vars(RenameWrite)
    /\ WF_vars(Reading)
    /\ WF_vars(Repairing)
    /\ \A h \in Remover : WF_vars(Removing(h))

-----------------------------------------------------------------------------
(* Properties                                                              *)

TypeOK ==
    /\ meta \in Metadata
    /\ local \in [File -> Content]
    /\ held \in [Peer -> [File -> Content]]
    /\ online \subseteq Peer
    /\ net \subseteq Push
    /\ loop \in Coroutine \cup {"free"}
    /\ status \in {"none", "processing", "distributing", "complete", "error"}
    /\ gen \in 0..MaxGen
    /\ task \in [Task -> TaskState]
    /\ gather \in [Reader -> GatherState]
    /\ scan \in ScanState
    /\ remove \in [Remover -> RemoveState]
    /\ rename \in [pc : {"idle", "write"}, md : Metadata]
    /\ wanted \in {0, 1}
    /\ deleted \in BOOLEAN
    /\ crashes \in 0..MaxCrash
    /\ losses \in 0..MaxLoss

(* The rule that makes the split safe (replication.py:8-10): the plan that *)
(* shards are handed over by gives no peer more than parity_shards ...     *)
CapHolds ==
    \A t \in Task :
        task[t].pc \in {"push", "wait"} => WithinParity(task[t].plan)

(* ... and is the one that plan_placement's docstring describes: the walk  *)
(* with its cursor, capacities and wrap-around dealt the shards round the  *)
(* healthy peers until each was full.                                      *)
PlanIsRing ==
    \A t \in Task :
        task[t].pc \in {"push", "wait"} =>
            \E urls \in Ring : InPeerOrder(urls) /\ task[t].plan = RingPlan(urls)

(* The shards the metadata gives peer p.                                   *)
ListedAt(md, p) == {i \in Shard : md.chunks[i].peer = p}

(* No peer may hold more than parity_shards of a file (ARCHITECTURE.md:365)*)
(* in the metadata on disk ...                                             *)
ListedWithinParity ==
    \A p \in Peer : Cardinality(ListedAt(meta, p)) <= ParityShards

(* ... and in fact, whatever arrives late or was stored by a peer whose    *)
(* answer never came back.                                                 *)
HeldWithinParity ==
    \A p \in Peer, g \in Gen :
        Cardinality({f \in File : held[p][f] = g}) <= ParityShards

(* Verified hand-off (replication.py:163-166): no shard of a listed file   *)
(* ceases to exist, on this node and at every peer, through failed,        *)
(* damaged, late or unanswered transfers and a crash between any two steps.*)
NoShardLost ==
    remove["delete"].pc = "idle" /\ ~deleted =>
        \A i \in Shard :
            meta.chunks[i].base = "upload" =>
                \/ local[<<"upload", i>>] = 1
                \/ \E p \in Peer : held[p][<<"upload", i>>] = 1

(* The shards a reader gets back from the metadata on disk when only the   *)
(* peers in `alive` answer, whichever file a peer picks for an index.      *)
Retrievable(alive) ==
    Readable(meta) \cup
    {i \in OnPeers(meta) :
        /\ meta.chunks[i].peer \in alive
        /\ ServedBy(meta.chunks[i].peer, i) = {meta.chunks[i].digest}}

(* Nothing is working on the file.                                         *)
Quiet ==
    /\ \A t \in Task : task[t].pc \in {"new", "done", "dead"}
    /\ rename.pc = "idle"
    /\ scan.pc \in {"idle", "listed", "probe", "verdict"}

Listed == meta.present /\ meta.status = "stored"

(* Losing any one peer stays inside the fault budget (ARCHITECTURE.md:367):*)
(* once the pipeline has come to rest, a stored file that nobody deletes   *)
(* and no disk lost a shard of can be read without any single peer.        *)
SurvivesOnePeer ==
    Quiet /\ Listed /\ remove["delete"].pc = "idle" =>
        \A p \in Peer :
            Cardinality(Retrievable(Peer \ {p})) + losses >= DataShards

(* The namespace does not list a file that can never be read               *)
(* (main.py:931-936), unless the disks lost more shards than it can miss:  *)
(* at rest, in the middle of a delete, after a crash.                      *)
NamespaceHonest ==
    Quiet /\ Listed =>
        \/ Cardinality(Retrievable(Peer)) >= DataShards
        \/ losses > ParityShards

(* A file that was answered "deleted" does not come back.                  *)
DeletedStaysDeleted == deleted => ~meta.present

(* Shards of the file that exist anywhere, listed or not.                  *)
Existing ==
    {i \in Shard : \E t \in Task :
        \/ local[<<t, i>>] \in Gen
        \/ \E p \in Peer : held[p][<<t, i>>] \in Gen}

(* A listed file that nobody deletes is found unrecoverable, or without    *)
(* shards, only when it is (main.py:2190, 2200-2202): not because a peer   *)
(* is down (repair.py:38-40), a rebuild is over or its shards are on the   *)
(* move.  The purges rely on it.                                           *)
VerdictJustified ==
    /\ scan.pc = "verdict"
    /\ scan.verdict \in {"unrecoverable", "orphaned"}
    /\ meta.present /\ remove["delete"].pc = "idle"
    => Cardinality(Existing) < DataShards

(* The shard is where the metadata says, as the metadata says it.          *)
AtPlace(i) ==
    LET chunk == meta.chunks[i]
    IN  IF chunk.peer = Here
        THEN i \in Readable(meta)
        ELSE held[chunk.peer][PathOf(meta, i)] = chunk.digest

(* The placement on disk is true but for the shards that disks lost, after *)
(* a hand-off and after a rebuild (main.py:2125).                          *)
PlacementTrue ==
    Quiet /\ Listed /\ remove["delete"].pc = "idle" =>
        Cardinality({i \in Shard : ~AtPlace(i)}) <= losses

(* A rebuild "restores the full parity budget" (main.py:2125): when it is  *)
(* done, and no shard is lost but the one it was run for, every shard can  *)
(* be had from where the metadata says.                                    *)
RepairRestores == task["repair"].pc = "done" => Retrievable(Peer) = Shard

(* A download of a file that was never rebuilt and that nobody deletes is  *)
(* not refused while no more shards are lost, or silent, than there is     *)
(* parity, although the file is scanned, renamed or purged meanwhile.      *)
ReadsServed ==
    gather["read"].pc = "refused" =>
        \/ gen > 1 \/ task["repair"].pc # "new"
        \/ ~HasChunks(gather["read"].md)
        \/ remove["delete"].pc # "idle"
        \/ losses + Cardinality(gather["read"].silent) > ParityShards


(* A repair request ends.                                                  *)
RepairEnds == (scan.pc = "listed") ~> (scan.pc = "idle")

=============================================================================
