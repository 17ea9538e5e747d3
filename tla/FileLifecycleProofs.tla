------------------------ MODULE FileLifecycleProofs -------------------------
(***************************************************************************)
(* What holds of the life of a file for any number of peers, any erasure   *)
(* code and any bounds.  Each theorem names the requests and failures that *)
(* it must exclude.                                                        *)
(*                                                                         *)
(* The first part is about a file that is not rebuilt.  No peer is given   *)
(* more than its share, in the metadata (CapInv) or in fact (HeldInv); a   *)
(* listed shard exists (HandoffInv); a deleted file stays deleted          *)
(* (DeleteInv).  Once the file is at rest (FileInv) its placement is true, *)
(* it can be read, also without any one peer, and downloads are served     *)
(* (ReadInv).  The second part is about the verdicts of scans, with        *)
(* rebuilds and purges (RepairInv).                                        *)
(***************************************************************************)
EXTENDS FileLifecycle, PlacementProofs

-----------------------------------------------------------------------------
(* Placement plans.                                                        *)

(* A plan places every shard.                                              *)
LEMMA RingPlanType ==
    ASSUME NEW urls \in Ring
    PROVE  RingPlan(urls) \in Plan
<1>1. SUFFICES ASSUME NEW i \in Shard, i < Len(urls) * ParityShards
               PROVE  urls[(i % Len(urls)) + 1] \in Peer
  BY DEF RingPlan, Plan, Site
<1>2. i \in Nat /\ ParityShards \in Nat
  BY ShardsAssumption DEF Shard
<1>3. Len(urls) \in Nat \ {0}
  BY <1>1, <1>2, RingUrls
<1>4. i % Len(urls) \in 0..(Len(urls) - 1)
  BY <1>1, <1>2, <1>3, RowBound
<1> QED
  BY <1>3, <1>4, RingUrls

(* The plan distribute pushes by is the round-robin deal.                  *)
LEMMA DealtPlans ==
    \A urls \in HealthyUrls : urls \in Ring /\ PlanFor(urls) = RingPlan(urls)
  BY PlanIsRingPlan DEF PlanFor, HealthyUrls

-----------------------------------------------------------------------------
(* Types of the constants and of the values the actions build.             *)

LEMMA ConstantFacts ==
    /\ Total \in Nat \ {0}
    /\ \A i \in Shard : i \in Nat /\ i < Total /\ i + 1 \in 0..Total
    /\ 0 \in Shard
    /\ Site \ {Here} = Peer
    /\ Here \in Site
    /\ MaxGen \in Nat \ {0}
    /\ Absent \in 0..MaxGen
    /\ 0..MaxGen \subseteq Content
    /\ Corrupt \in Content
<1>1. ParityShards \in Nat /\ DataShards \in Nat \ {0} /\ Here \notin Peer /\ MaxGen \in Nat \ {0}
  BY ShardsAssumption, LifecycleAssumption
<1>2. /\ Total \in Nat \ {0}
      /\ \A i \in Shard : i \in Nat /\ i < Total /\ i + 1 \in 0..Total
      /\ 0 \in Shard
  BY <1>1 DEF Total, Shard
<1>3. Site \ {Here} = Peer /\ Here \in Site
  BY <1>1 DEF Site
<1>4. Absent \in 0..MaxGen /\ Corrupt \in Content
  BY <1>1 DEF Absent, Content, Corrupt
<1>5. ASSUME NEW g \in 0..MaxGen PROVE g \in Content
  BY <1>1 DEF Content, Corrupt
<1> QED
  BY <1>1, <1>2, <1>3, <1>4, <1>5

LEMMA ChunksType ==
    /\ NoChunks \in [Shard -> Chunk]
    /\ \A t \in Task : FreshChunks(t) \in [Shard -> Chunk]
  BY ConstantFacts DEF NoChunks, FreshChunks, Chunk, Absent

LEMMA NoMetadataType == NoMetadata \in Metadata
  BY ChunksType DEF NoMetadata, Metadata

LEMMA PlanForType == \A urls \in HealthyUrls : PlanFor(urls) \in Plan
  BY RingPlanType, DealtPlans

LEMMA IdleTypes ==
    /\ IdleTask \in TaskState
    /\ IdleGather \in GatherState
    /\ IdleScan \in ScanState
    /\ IdleRemove \in RemoveState
    /\ IdleRename \in [pc : {"idle", "write"}, md : Metadata]
<1>1. IdleTask \in TaskState
  BY ConstantFacts, NoMetadataType DEF IdleTask, TaskState, Stage, Plan, Absent
<1>2. IdleGather \in GatherState /\ IdleRename \in [pc : {"idle", "write"}, md : Metadata]
  BY NoMetadataType DEF IdleGather, GatherState, IdleRename
<1>3. IdleScan \in ScanState /\ IdleRemove \in RemoveState
  BY NoMetadataType DEF IdleScan, ScanState, IdleRemove, RemoveState
<1> QED
  BY <1>1, <1>2, <1>3

-----------------------------------------------------------------------------
(* Type correctness.  A task that waits for an answer is at a shard that   *)
(* has a target: this is what keeps its position within the shards.        *)

Waiting ==
    \A t \in Task :
        task[t].pc = "wait" => /\ task[t].next \in Shard
                               /\ task[t].plan[task[t].next] \in Peer

TypeInv == TypeOK /\ Waiting

LEMMA TypeInit == Init => TypeInv
<1> SUFFICES ASSUME Init PROVE TypeInv
  OBVIOUS
<1>1. /\ task \in [Task -> TaskState] /\ gather \in [Reader -> GatherState]
      /\ scan \in ScanState /\ remove \in [Remover -> RemoveState]
      /\ rename \in [pc : {"idle", "write"}, md : Metadata]
  BY IdleTypes DEF Init
<1>2. /\ local \in [File -> Content]
      /\ held \in [Peer -> [File -> Content]]
  BY ConstantFacts DEF Init, NoFiles
<1>3. /\ meta \in Metadata /\ online \subseteq Peer /\ net \subseteq Push
      /\ loop \in Coroutine \cup {"free"}
      /\ status \in {"none", "processing", "distributing", "complete", "error"}
  BY NoMetadataType DEF Init
<1>4. gen \in 0..MaxGen /\ crashes \in 0..MaxCrash /\ losses \in 0..MaxLoss
  BY LifecycleAssumption DEF Init
<1>5. Waiting
  BY DEF Init, Waiting, IdleTask
<1> QED
  BY <1>1, <1>2, <1>3, <1>4, <1>5 DEF TypeInv, TypeOK, Init

(* The steps of the worker thread that runs the encoder and encrypts.      *)
Encoding(t) ==
    \/ StartEncoding(t) \/ WriteShard(t) \/ FinishEncoder(t)
    \/ EncryptShard(t) \/ FinishEncryption(t) \/ EncoderFails(t) \/ EncodingRaises(t)

(* What they have in common: they touch nothing but the task's position    *)
(* and its own shard files.                                                *)
LEMMA EncodingFrame ==
    ASSUME TypeOK, NEW t \in Task, Encoding(t)
    PROVE  /\ task[t].pc \in {"queued", "encode", "encrypt"}
           /\ task'[t].pc \in {"encode", "encrypt", "merge"}
           /\ \E pc \in {"encode", "encrypt", "merge"}, ok \in BOOLEAN, g \in 0..MaxGen,
                 n \in 0..Total :
                 task' = [task EXCEPT ![t] = [@ EXCEPT !.pc = pc, !.ok = ok, !.gen = g,
                                                       !.next = n]]
           /\ task'[t].md = task[t].md /\ task'[t].plan = task[t].plan
           /\ task'[t].sent = task[t].sent /\ task'[t].reply = task[t].reply
           /\ \A s \in Task : s # t => task'[s] = task[s]
           /\ \A f \in File : f[1] # t => local'[f] = local[f]
           /\ local' \in [File -> Content]
           /\ gen' \in 0..MaxGen /\ gen' >= gen
           /\ status' \in {status, "processing", "error"}
           /\ UNCHANGED <<meta, peers, loop, gather, scan, remove, rename, history>>
<1> USE DEF TypeOK, disk
<1> DEFINE Put(pc, ok, g, n) ==
              task' = [task EXCEPT ![t] = [@ EXCEPT !.pc = pc, !.ok = ok, !.gen = g,
                                                    !.next = n]]
           Moves == \E pc \in {"encode", "encrypt", "merge"}, ok \in BOOLEAN,
                      g \in 0..MaxGen, n \in 0..Total : Put(pc, ok, g, n)
<1>0. /\ task[t] \in TaskState /\ 0 \in 0..MaxGen /\ 0 \in 0..Total
      /\ task[t].next \in 0..Total /\ task[t].gen \in 0..MaxGen
      /\ task[t].ok \in BOOLEAN
  BY ConstantFacts DEF TaskState
<1>1. CASE StartEncoding(t)
  <2>1. gen' \in 0..MaxGen /\ gen' >= gen
    BY <1>1, ConstantFacts DEF StartEncoding
  <2>2. Put("encode", task[t].ok, gen', task[t].next)
    BY <1>0, <1>1 DEF StartEncoding, TaskState
  <2>3. Moves
    BY <1>0, <2>1, <2>2
  <2> QED
    BY <1>0, <1>1, <2>1, <2>3 DEF StartEncoding, TaskState
<1>2. CASE WriteShard(t) \/ EncryptShard(t)
  <2>1. task[t].next \in Shard /\ task[t].next + 1 \in 0..Total
    BY <1>0, <1>2, ConstantFacts DEF WriteShard, EncryptShard, Shard
  <2>2. /\ <<t, task[t].next>> \in File
        /\ Corrupt \in Content /\ Absent \in Content /\ task[t].gen \in Content
    BY <1>0, <2>1, ConstantFacts DEF File
  <2>3. Put(task[t].pc, task[t].ok, task[t].gen, task[t].next + 1)
    BY <1>0, <1>2 DEF WriteShard, EncryptShard, TaskState
  <2>4. task[t].pc \in {"encode", "encrypt"}
    BY <1>2 DEF WriteShard, EncryptShard
  <2>5. Moves
    BY <1>0, <2>1, <2>3, <2>4
  <2>6. PICK c \in Content : local' = [local EXCEPT ![<<t, task[t].next>>] = c]
    BY <1>2, <2>2 DEF WriteShard, EncryptShard
  <2>7. \A f \in File : f[1] # t => local'[f] = local[f]
    BY <2>6
  <2>8. /\ task'[t] = [task[t] EXCEPT !.pc = task[t].pc, !.ok = task[t].ok,
                                      !.gen = task[t].gen, !.next = task[t].next + 1]
        /\ \A s \in Task : s # t => task'[s] = task[s]
    BY <2>3
  <2>9. /\ task'[t].md = task[t].md /\ task'[t].plan = task[t].plan
        /\ task'[t].sent = task[t].sent /\ task'[t].reply = task[t].reply
        /\ task'[t].pc = task[t].pc
    BY <1>0, <2>8 DEF TaskState
  <2>10. gen' \in 0..MaxGen /\ gen' >= gen /\ status' = status
    BY <1>2 DEF WriteShard, EncryptShard
  <2>11. UNCHANGED <<meta, peers, loop, gather, scan, remove, rename, history>>
    BY <1>2 DEF WriteShard, EncryptShard
  <2>12. local' \in [File -> Content]
    BY <2>6
  <2>13. status' \in {status, "processing", "error"}
    BY <2>10
  <2>14. task[t].pc \in {"queued", "encode", "encrypt"} /\ task'[t].pc \in {"encode", "encrypt", "merge"}
    BY <2>4, <2>9
  <2> HIDE DEF Moves
  <2> QED
    BY <2>14, <2>5, <2>7, <2>8, <2>9, <2>10, <2>11, <2>12, <2>13, Zenon DEF Moves
<1>3. CASE FinishEncoder(t) \/ FinishEncryption(t) \/ EncoderFails(t) \/ EncodingRaises(t)
  <2>1. \/ Put("encrypt", task[t].ok, task[t].gen, 0)
        \/ Put("merge", TRUE, task[t].gen, 0)
        \/ Put("merge", TRUE, 0, 0)
        \/ Put("merge", FALSE, 0, 0)
    BY <1>0, <1>3 DEF FinishEncoder, FinishEncryption, EncoderFails, EncodingRaises,
                      TaskState
  <2>2. Moves
    BY <1>0, <2>1
  <2>3. PICK pc \in {"encrypt", "merge"}, ok \in BOOLEAN, g \in 0..MaxGen : Put(pc, ok, g, 0)
    BY <1>0, <2>1
  <2>4. /\ task'[t] = [task[t] EXCEPT !.pc = pc, !.ok = ok, !.gen = g, !.next = 0]
        /\ \A s \in Task : s # t => task'[s] = task[s]
    BY <2>3
  <2>5. /\ task'[t].md = task[t].md /\ task'[t].plan = task[t].plan
        /\ task'[t].sent = task[t].sent /\ task'[t].reply = task[t].reply
        /\ task'[t].pc = pc
    BY <1>0, <2>4 DEF TaskState
  <2>6. /\ task[t].pc \in {"encode", "encrypt"} /\ UNCHANGED <<local, gen>>
        /\ status' \in {status, "error"}
        /\ UNCHANGED <<meta, peers, loop, gather, scan, remove, rename, history>>
    BY <1>3 DEF FinishEncoder, FinishEncryption, EncoderFails, EncodingRaises
  <2>7. /\ task[t].pc \in {"queued", "encode", "encrypt"}
        /\ task'[t].pc \in {"encode", "encrypt", "merge"}
        /\ status' \in {status, "processing", "error"}
        /\ \A f \in File : f[1] # t => local'[f] = local[f]
        /\ local' \in [File -> Content]
        /\ gen' \in 0..MaxGen /\ gen' >= gen
    BY <2>5, <2>6
  <2> HIDE DEF Moves
  <2> QED
    BY <2>2, <2>4, <2>5, <2>6, <2>7, Zenon DEF Moves
<1> QED
  BY <1>1, <1>2, <1>3 DEF Encoding

(* A shard that is about to be sent has a target and a file.               *)
LEMMA ToSendType ==
    ASSUME TypeInv, NEW t \in Task, NEW i \in ToSend(t)
    PROVE  /\ i \in Shard /\ i \in 0..Total /\ task[t].plan[i] \in Peer
           /\ PathOf(task[t].md, i) \in File
           /\ task[t].md.chunks[i].base \in Task
<1>1. task[t].next \in Nat /\ task[t].plan \in Plan /\ task[t].md \in Metadata
  BY ConstantFacts DEF TypeInv, TypeOK, TaskState
<1>2. i \in task[t].next..(Total - 1) /\ i \in Shard /\ i \in 0..Total
  BY <1>1, ConstantFacts DEF ToSend, Shard
<1>3. task[t].plan[i] \in Peer
  BY <1>1, <1>2 DEF ToSend, Plan, Site
<1>4. task[t].md.chunks[i].base \in Task
  BY <1>1, <1>2 DEF ToSend, Metadata, Chunk
<1> QED
  BY <1>2, <1>3, <1>4 DEF PathOf, File

(* The updates of a task's local state that its actions make.              *)
LEMMA TaskPut ==
    ASSUME NEW s \in TaskState
    PROVE  /\ \A pc \in {"encode", "encrypt", "merge"}, ok \in BOOLEAN, g \in 0..MaxGen,
                n \in 0..Total :
                 [s EXCEPT !.pc = pc, !.ok = ok, !.gen = g, !.next = n] \in TaskState
           /\ \A md \in Metadata : [s EXCEPT !.pc = "write", !.md = md] \in TaskState
           /\ \A md \in Metadata, n \in 0..Total, r \in Content, plan \in Plan :
                 [s EXCEPT !.pc = "push", !.md = md, !.next = n, !.reply = r,
                           !.plan = plan] \in TaskState
           /\ \A n \in 0..Total, g \in Content, r \in Content :
                 [s EXCEPT !.pc = "wait", !.next = n, !.sent = g,
                           !.reply = r] \in TaskState
           /\ \A n \in 0..Total, md \in Metadata :
                 [s EXCEPT !.pc = "push", !.next = n, !.md = md] \in TaskState
           /\ \A n \in 0..Total : [s EXCEPT !.pc = "push", !.next = n] \in TaskState
           /\ \A r \in Content : [s EXCEPT !.reply = r] \in TaskState
<1>1. /\ \A pc \in {"encode", "encrypt", "merge"}, ok \in BOOLEAN, g \in 0..MaxGen,
           n \in 0..Total :
            [s EXCEPT !.pc = pc, !.ok = ok, !.gen = g, !.next = n] \in TaskState
      /\ \A md \in Metadata : [s EXCEPT !.pc = "write", !.md = md] \in TaskState
  BY DEF TaskState, Stage
<1>2. \A md \in Metadata, n \in 0..Total, r \in Content, plan \in Plan :
         [s EXCEPT !.pc = "push", !.md = md, !.next = n, !.reply = r,
                   !.plan = plan] \in TaskState
  BY DEF TaskState, Stage
<1>3. \A n \in 0..Total, g \in Content, r \in Content :
         [s EXCEPT !.pc = "wait", !.next = n, !.sent = g, !.reply = r] \in TaskState
  BY DEF TaskState, Stage
<1>4. /\ \A n \in 0..Total, md \in Metadata :
            [s EXCEPT !.pc = "push", !.next = n, !.md = md] \in TaskState
      /\ \A n \in 0..Total : [s EXCEPT !.pc = "push", !.next = n] \in TaskState
      /\ \A r \in Content : [s EXCEPT !.reply = r] \in TaskState
  BY DEF TaskState, Stage
<1> QED
  BY <1>1, <1>2, <1>3, <1>4

LEMMA TaskReplaced ==
    ASSUME task \in [Task -> TaskState], NEW t \in Task, NEW s \in TaskState
    PROVE  [task EXCEPT ![t] = s] \in [Task -> TaskState]
  OBVIOUS

LEMMA PipelineType ==
    ASSUME TypeInv, NEW t \in Task, Pipeline(t)
    PROVE  TypeInv'
<1> USE DEF TypeInv, TypeOK, Free, Hold, OnLoop, disk, peers, history
<1>1. CASE Encoding(t)
  <2>1. PICK pc \in {"encode", "encrypt", "merge"}, ok \in BOOLEAN, g \in 0..MaxGen,
             n \in 0..Total :
            task' = [task EXCEPT ![t] = [@ EXCEPT !.pc = pc, !.ok = ok, !.gen = g,
                                                  !.next = n]]
    BY <1>1, EncodingFrame
  <2>2. task' \in [Task -> TaskState]
    <3>1. [task[t] EXCEPT !.pc = pc, !.ok = ok, !.gen = g, !.next = n] \in TaskState
      BY TaskPut
    <3> QED
      BY <3>1, <2>1, TaskReplaced
  <2>3. Waiting'
    BY <2>1 DEF Waiting, TaskState
  <2>4. /\ local' \in [File -> Content] /\ gen' \in 0..MaxGen
        /\ status' \in {status, "processing", "error"}
        /\ UNCHANGED <<meta, peers, loop, gather, scan, remove, rename, history>>
    BY <1>1, EncodingFrame
  <2> QED
    BY <2>2, <2>3, <2>4
<1>3. CASE MergeMetadata(t)
  <2>1. Merged(t) \in Metadata
    <3>1. task[t].md.name \in {0, 1} /\ meta.name \in {0, 1}
      BY DEF TaskState, Metadata
    <3> QED
      BY <3>1, ChunksType DEF Merged, Metadata
  <2>2. Failed \in Metadata
    BY DEF Failed, Metadata
  <2>3. PICK md \in Metadata : 
            task' = [task EXCEPT ![t] = [@ EXCEPT !.pc = "write", !.md = md]]
    BY <1>3, <2>1, <2>2 DEF MergeMetadata
  <2>4. task' \in [Task -> TaskState]
    <3>1. [task[t] EXCEPT !.pc = "write", !.md = md] \in TaskState
      BY TaskPut
    <3> QED
      BY <3>1, <2>3, TaskReplaced
  <2>5. Waiting'
    BY <2>3 DEF Waiting, TaskState
  <2> QED
    BY <1>3, <2>4, <2>5 DEF MergeMetadata
<1>4. CASE WriteMetadata(t)
  BY <1>4 DEF WriteMetadata, TaskState, Stage, Waiting
<1>5. CASE SkipDistribution(t)
  <2>1. task' = [task EXCEPT ![t].pc = "done"]
    BY <1>5 DEF SkipDistribution
  <2>2. task' \in [Task -> TaskState]
    BY <2>1 DEF TaskState, Stage
  <2>3. Waiting'
    BY <2>1 DEF Waiting, TaskState
  <2> QED
    BY <1>5, <2>2, <2>3 DEF SkipDistribution
<1>6. CASE DistributeShards(t)
  <2>1. PICK plan \in Plan :
            task' = [task EXCEPT ![t] = [@ EXCEPT !.pc = "push", !.md = meta, !.next = 0,
                                                  !.reply = Absent, !.plan = plan]]
    BY <1>6, PlanForType DEF DistributeShards
  <2>2. 0 \in 0..Total /\ Absent \in Content
    BY ConstantFacts
  <2>3. task' \in [Task -> TaskState]
    <3>1. [task[t] EXCEPT !.pc = "push", !.md = meta, !.next = 0,
                            !.reply = Absent, !.plan = plan] \in TaskState
      BY <2>2, TaskPut
    <3> QED
      BY <3>1, <2>1, TaskReplaced
  <2>4. Waiting'
    BY <2>1 DEF Waiting, TaskState
  <2> QED
    BY <1>6, <2>3, <2>4 DEF DistributeShards
<1>7. CASE PushShard(t)
  <2>1. PICK i \in ToSend(t) :
            /\ net' = net \cup {[by |-> t, to |-> task[t].plan[i],
                                 file |-> PathOf(task[t].md, i),
                                 gen |-> local[PathOf(task[t].md, i)]]}
            /\ task' = [task EXCEPT ![t] =
                          [@ EXCEPT !.pc = "wait", !.next = i,
                                    !.sent = local[PathOf(task[t].md, i)],
                                    !.reply = Absent]]
    BY <1>7 DEF PushShard
  <2>2. /\ i \in Shard /\ i \in 0..Total /\ task[t].plan[i] \in Peer
        /\ PathOf(task[t].md, i) \in File
    BY ToSendType
  <2>3. net' \subseteq Push
    BY <2>1, <2>2 DEF Push
  <2>4. local[PathOf(task[t].md, i)] \in Content /\ Absent \in Content
    BY <2>2, ConstantFacts
  <2>5. task' \in [Task -> TaskState]
    <3>1. [task[t] EXCEPT !.pc = "wait", !.next = i,
                          !.sent = local[PathOf(task[t].md, i)],
                          !.reply = Absent] \in TaskState
      BY <2>2, <2>4, TaskPut
    <3> QED
      BY <2>1, <3>1, TaskReplaced
  <2>6. Waiting'
    BY <2>1, <2>2 DEF Waiting, TaskState
  <2> QED
    BY <1>7, <2>3, <2>5, <2>6 DEF PushShard
<1>8. CASE DropLocal(t)
  <2>1. task[t].next \in Shard /\ NextShard(t) \in 0..Total
    BY <1>8, ConstantFacts DEF DropLocal, Waiting, NextShard
  <2>2. task[t].plan[task[t].next] \in Site
    BY <2>1 DEF TaskState, Plan
  <2>3. HandedOver(t) \in Metadata
    <3> DEFINE i == task[t].next
               chunk == [task[t].md.chunks[i] EXCEPT !.peer = task[t].plan[i],
                                                     !.digest = task[t].sent]
    <3>1. task[t].md \in Metadata /\ task[t].sent \in Content
      BY DEF TaskState
    <3>2. task[t].md.chunks \in [Shard -> Chunk] /\ task[t].md.chunks[i] \in Chunk
      BY <2>1, <3>1 DEF Metadata
    <3>3. chunk \in Chunk
      BY <2>2, <3>1, <3>2 DEF Chunk
    <3>4. [task[t].md.chunks EXCEPT ![i] = chunk] \in [Shard -> Chunk]
      BY <3>2, <3>3
    <3>5. HandedOver(t) = [task[t].md EXCEPT !.chunks = [task[t].md.chunks EXCEPT ![i] = chunk]]
      BY DEF HandedOver
    <3> HIDE DEF chunk
    <3> QED
      BY <3>1, <3>4, <3>5 DEF Metadata
  <2>4. task' = [task EXCEPT ![t] = [@ EXCEPT !.pc = "push", !.next = NextShard(t),
                                              !.md = HandedOver(t)]]
    BY <1>8 DEF DropLocal
  <2>5. task' \in [Task -> TaskState]
    <3>1. [task[t] EXCEPT !.pc = "push", !.next = NextShard(t),
                          !.md = HandedOver(t)] \in TaskState
      BY <2>1, <2>3, TaskPut
    <3> QED
      BY <2>4, <3>1, TaskReplaced
  <2>6. Waiting'
    BY <2>4 DEF Waiting, TaskState
  <2>7. local' \in [File -> Content]
    BY <1>8, ConstantFacts DEF DropLocal
  <2> QED
    BY <1>8, <2>5, <2>6, <2>7 DEF DropLocal, Coroutine, Task
<1>9. CASE KeepAfterFailure(t)
  <2>1. task[t].next \in Shard /\ NextShard(t) \in 0..Total
    BY <1>9, ConstantFacts DEF KeepAfterFailure, Waiting, NextShard
  <2>2. task' = [task EXCEPT ![t] = [@ EXCEPT !.pc = "push", !.next = NextShard(t)]]
    BY <1>9 DEF KeepAfterFailure
  <2>3. task' \in [Task -> TaskState]
    <3>1. [task[t] EXCEPT !.pc = "push", !.next = NextShard(t)] \in TaskState
      BY <2>1, TaskPut
    <3> QED
      BY <2>2, <3>1, TaskReplaced
  <2>4. Waiting'
    BY <2>2 DEF Waiting, TaskState
  <2> QED
    BY <1>9, <2>3, <2>4 DEF KeepAfterFailure, Coroutine, Task
<1>10. CASE PushRaises(t)
  BY <1>10 DEF PushRaises, TaskState, Stage, Waiting
<1>11. CASE PublishPlacement(t)
  BY <1>11 DEF PublishPlacement, TaskState, Stage, Waiting
<1> QED
  BY <1>1, <1>3, <1>4, <1>5, <1>6, <1>7, <1>8, <1>9, <1>10, <1>11 DEF Pipeline, Encoding

LEMMA ReceiveType ==
    ASSUME TypeInv, NEW m \in net, ReceiveShard(m)
    PROVE  TypeInv'
<1> USE DEF TypeInv, TypeOK, disk, history
<1>1. m \in Push
  OBVIOUS
<1>2. PICK stored \in Content :
          /\ held' = [held EXCEPT ![m.to][m.file] = stored]
          /\ task' = IF task[m.by].pc = "wait" /\ Sent(m.by) = m
                     THEN [task EXCEPT ![m.by].reply = stored]
                     ELSE task
  BY <1>1, ConstantFacts DEF ReceiveShard, Push
<1>3. held' \in [Peer -> [File -> Content]]
  BY <1>1, <1>2 DEF Push
<1>4. task' \in [Task -> TaskState]
  <2>1. m.by \in Task
    BY <1>1 DEF Push
  <2>2. [task[m.by] EXCEPT !.reply = stored] \in TaskState
    BY <2>1, TaskPut
  <2>3. [task EXCEPT ![m.by].reply = stored]
          = [task EXCEPT ![m.by] = [task[m.by] EXCEPT !.reply = stored]]
    BY <2>1
  <2> QED
    BY <1>2, <2>1, <2>2, <2>3, TaskReplaced
<1>5. Waiting'
  BY <1>1, <1>2 DEF Push, TaskState, Waiting
<1> QED
  BY <1>3, <1>4, <1>5 DEF ReceiveShard

LEMMA RetireType ==
    ASSUME TypeInv, NEW h \in Remover, RetireMetadata(h)
    PROVE  /\ meta' \in Metadata
           /\ remove' \in [Remover -> RemoveState]
           /\ loop' \in Coroutine \cup {"free"}
<1>1. HolderOf(meta) \subseteq Peer
  BY ConstantFacts DEF TypeInv, TypeOK, HolderOf, Metadata, Chunk
<1>2. [pc |-> "tell", tell |-> HolderOf(meta)] \in RemoveState
  BY <1>1 DEF RemoveState
<1> QED
  BY <1>2, NoMetadataType
     DEF TypeInv, TypeOK, RetireMetadata, Unlink, Hold, Free, Coroutine, Remover

LEMMA StartGatherType ==
    ASSUME TypeInv, NEW c \in Reader, NEW md \in Metadata, StartGather(c, md)
    PROVE  gather' \in [Reader -> GatherState] /\ loop' \in Coroutine \cup {"free"}
<1>1. [IdleGather EXCEPT !.pc = "fetch", !.md = md, !.staged = Readable(md),
                         !.want = OnPeers(md)] \in GatherState
  <2>1. Readable(md) \subseteq Shard /\ OnPeers(md) \subseteq Shard
    BY DEF Readable, OnDisk, OnPeers
  <2> QED
    BY <2>1, IdleTypes DEF GatherState
<1> QED
  BY <1>1 DEF TypeInv, TypeOK, StartGather, Hold, Free, Coroutine, Reader

LEMMA FetchType ==
    ASSUME TypeInv, NEW c \in Reader, NEW i \in Shard, FetchShard(c, i)
    PROVE  TypeInv'
<1> USE DEF TypeInv, TypeOK
<1>1. gather' \in [Reader -> GatherState]
  <2>1. \/ gather' = [gather EXCEPT ![c].want = @ \ {i}, ![c].staged = @ \cup {i}]
        \/ gather' = [gather EXCEPT ![c].want = @ \ {i}, ![c].silent = @ \cup {i}]
        \/ gather' = [gather EXCEPT ![c].want = @ \ {i}]
    BY DEF FetchShard
  <2> QED
    BY <2>1 DEF GatherState
<1> QED
  BY <1>1 DEF FetchShard, Hold, Free, Coroutine, Reader, Waiting, disk, peers, history

LEMMA RequestsType ==
    ASSUME TypeInv, Requests
    PROVE  TypeInv'
<1> USE DEF TypeInv, TypeOK, Free, Hold, disk, peers, history
<1>1. CASE UploadFile
  <2>1. meta' \in Metadata
    BY <1>1, NoMetadataType DEF UploadFile, Metadata
  <2>2. task' \in [Task -> TaskState] /\ Waiting'
    BY <1>1 DEF UploadFile, TaskState, Stage, Waiting, Task
  <2> QED
    BY <1>1, <2>1, <2>2 DEF UploadFile
<1>2. CASE RenameRead
  <2>1. [meta EXCEPT !.name = 1] \in Metadata
    BY DEF Metadata
  <2> QED
    BY <1>2, <2>1 DEF RenameRead, Waiting, Coroutine
<1>3. CASE DeleteFile
  BY <1>3, RetireType DEF DeleteFile, Waiting, Remover
<1>4. CASE ReadFile
  <2>1. [IdleGather EXCEPT !.pc = "range", !.md = meta] \in GatherState
    BY IdleTypes DEF GatherState
  <2> QED
    BY <1>4, <2>1 DEF ReadFile, Waiting
<1>5. CASE StartScan
  <2>1. [IdleScan EXCEPT !.pc = "listed", !.md = meta] \in ScanState
    BY IdleTypes DEF ScanState
  <2> QED
    BY <1>5, <2>1 DEF StartScan, Waiting
<1> QED
  BY <1>1, <1>2, <1>3, <1>4, <1>5 DEF Requests

LEMMA ReadingType ==
    ASSUME TypeInv, Reading
    PROVE  TypeInv'
<1> USE DEF TypeInv, TypeOK, Free, Hold, disk, peers, history
<1>1. CASE FinishRead
  BY <1>1 DEF FinishRead, Waiting, GatherState
<1>2. ASSUME NEW i \in Shard, FetchShard("read", i) PROVE TypeInv'
  BY <1>2, FetchType DEF Reader
<1>3. CASE ServeRange
  BY <1>3 DEF ServeRange, Waiting, GatherState
<1>4. CASE GatherAll
  <2>1. gather["read"].md \in Metadata
    BY DEF GatherState, Reader
  <2> QED
    BY <1>4, <2>1, StartGatherType DEF GatherAll, Waiting, Reader
<1> QED
  BY <1>1, <1>2, <1>3, <1>4 DEF Reading

LEMMA RepairingType ==
    ASSUME TypeInv, Repairing
    PROVE  TypeInv'
<1> USE DEF TypeInv, TypeOK, Free, Hold, disk, peers, history
<1>1. ASSUME NEW p \in Peer, ProbePeer(p) PROVE TypeInv'
  <2>1. Confirmed(p) \subseteq Shard
    BY DEF Confirmed, ScanState
  <2>2. scan' \in ScanState
    BY <1>1, <2>1 DEF ProbePeer, ScanState
  <2> QED
    BY <1>1, <2>2 DEF ProbePeer, Waiting, Coroutine
<1>2. CASE Classify
  <2>1. \A a, b : VerdictOn(a, b) \in {"intact", "degraded", "unrecoverable", "orphaned"}
    BY DEF VerdictOn
  <2>2. scan' \in ScanState
    BY <1>2, <2>1 DEF Classify, ScanState
  <2> QED
    BY <1>2, <2>2 DEF Classify, Waiting, Coroutine
<1>3. CASE LeaveAlone
  BY <1>3, IdleTypes DEF LeaveAlone, Waiting
<1>4. CASE StartRebuild
  <2>1. scan' \in ScanState
    BY <1>4 DEF StartRebuild, ScanState
  <2> QED
    BY <1>4, <2>1, StartGatherType DEF StartRebuild, Waiting, Reader
<1>5. CASE AbandonRebuild
  BY <1>5, IdleTypes DEF AbandonRebuild, Waiting
<1>6. ASSUME NEW i \in Shard, FetchShard("repair", i) PROVE TypeInv'
  BY <1>6, FetchType DEF Reader
<1>7. CASE ReplaceShards
  <2>1. gather["repair"].md \in Metadata
    BY DEF GatherState, Reader
  <2>2. [IdleTask EXCEPT !.pc = "queued", !.md = gather["repair"].md] \in TaskState
    BY <2>1, IdleTypes DEF TaskState, Stage
  <2>3. task' \in [Task -> TaskState]
    BY <1>7, <2>2 DEF ReplaceShards
  <2>4. Waiting'
    BY <1>7, IdleTypes DEF ReplaceShards, Waiting, TaskState
  <2>5. gather' \in [Reader -> GatherState] /\ local' \in [File -> Content]
    BY <1>7, IdleTypes, ConstantFacts DEF ReplaceShards, NoFiles
  <2> QED
    BY <1>7, <2>3, <2>4, <2>5 DEF ReplaceShards
<1>8. CASE FinishRebuild
  <2>1. task' \in [Task -> TaskState] /\ scan' \in ScanState
    BY <1>8, IdleTypes DEF FinishRebuild
  <2>2. Waiting'
    BY <1>8 DEF FinishRebuild, Waiting, IdleTask
  <2> QED
    BY <1>8, <2>1, <2>2 DEF FinishRebuild
<1>9. CASE PurgeOrphan
  BY <1>9, IdleTypes, NoMetadataType DEF PurgeOrphan, Waiting
<1>10. CASE PurgeUnrecoverable
  <2>1. scan' \in ScanState
    BY <1>10 DEF PurgeUnrecoverable, ScanState
  <2> QED
    BY <1>10, <2>1, RetireType DEF PurgeUnrecoverable, Waiting, Remover
<1>11. CASE AssessLocal
  <2> DEFINE md == scan.md
             claims == [p \in Peer |-> {i \in OnPeers(md) : md.chunks[i].peer = p}]
             asked == {p \in Peer : claims[p] # {}}
  <2>1. OnPeers(md) \subseteq Shard /\ OnDisk(md) \subseteq Shard
    BY DEF OnPeers, OnDisk
  <2>2. claims \in [Peer -> SUBSET Shard] /\ asked \subseteq Peer
    BY <2>1
  <2>3. /\ scan' = [scan EXCEPT !.pc = "probe", !.claims = claims, !.probe = asked,
                                !.avail = OnDisk(md)]
        /\ loop' \in {"repair", "free"}
    BY <1>11 DEF AssessLocal
  <2> HIDE DEF claims, asked, md
  <2>4. scan' \in ScanState
    BY <2>1, <2>2, <2>3 DEF ScanState
  <2> QED
    BY <1>11, <2>3, <2>4 DEF AssessLocal, Waiting, Coroutine
<1> QED
  BY <1>1, <1>2, <1>3, <1>4, <1>5, <1>6, <1>7, <1>8, <1>9, <1>10, <1>11 DEF Repairing

LEMMA RemovingType ==
    ASSUME TypeInv, NEW h \in Remover, Removing(h)
    PROVE  TypeInv'
<1> USE DEF TypeInv, TypeOK, Free, Hold, disk, peers, history
<1>1. ASSUME NEW p \in Peer, DropReplicas(h, p) PROVE TypeInv'
  <2>1. NoFiles \in [File -> Content]
    BY ConstantFacts DEF NoFiles
  <2>2. held' \in [Peer -> [File -> Content]]
    BY <1>1, <2>1 DEF DropReplicas
  <2>3. remove' \in [Remover -> RemoveState]
    BY <1>1 DEF DropReplicas, RemoveState
  <2> QED
    BY <1>1, <2>2, <2>3 DEF DropReplicas, Waiting, Coroutine, Remover
<1>2. CASE RemoveShards(h)
  <2>1. local' \in [File -> Content]
    BY <1>2, ConstantFacts DEF RemoveShards, NoFiles
  <2>2. remove' \in [Remover -> RemoveState]
    BY <1>2 DEF RemoveShards, RemoveState
  <2>3. scan' \in ScanState
    BY <1>2, IdleTypes DEF RemoveShards
  <2> QED
    BY <1>2, <2>1, <2>2, <2>3 DEF RemoveShards, Waiting
<1> QED
  BY <1>1, <1>2 DEF Removing

LEMMA EnvironmentType ==
    ASSUME TypeInv, Environment
    PROVE  TypeInv'
<1> USE DEF TypeInv, TypeOK, disk, peers, history
<1>1. CASE Crash
  <2>1. [IdleTask EXCEPT !.pc = "dead"] \in TaskState
    BY IdleTypes DEF TaskState, Stage
  <2>2. task' \in [Task -> TaskState]
    BY <1>1, <2>1, IdleTypes DEF Crash
  <2>3. Waiting'
    BY <1>1 DEF Crash, Waiting, IdleTask, Task
  <2>4. crashes' \in 0..MaxCrash
    BY <1>1, LifecycleAssumption DEF Crash
  <2> QED
    BY <1>1, <2>2, <2>3, <2>4, IdleTypes DEF Crash
<1>2. ASSUME NEW p \in Peer, PeerOffline(p) \/ PeerOnline(p) PROVE TypeInv'
  BY <1>2 DEF PeerOffline, PeerOnline, Waiting
<1>3. ASSUME NEW p \in Peer, NEW f \in File, PeerLosesShard(p, f) PROVE TypeInv'
  <2>1. losses' \in 0..MaxLoss
    BY <1>3, LifecycleAssumption DEF PeerLosesShard
  <2> QED
    BY <1>3, <2>1, ConstantFacts DEF PeerLosesShard, Waiting
<1> QED
  BY <1>1, <1>2, <1>3 DEF Environment

LEMMA TypeStep == TypeInv /\ [Next]_vars => TypeInv'
<1> SUFFICES ASSUME TypeInv, [Next]_vars PROVE TypeInv'
  OBVIOUS
<1>1. CASE RenameWrite
  BY <1>1, IdleTypes DEF RenameWrite, TypeInv, TypeOK, Waiting, Free, peers
<1>2. CASE UNCHANGED vars
  BY <1>2 DEF vars, TypeInv, TypeOK, Waiting
<1> QED
  BY <1>1, <1>2, RequestsType, PipelineType, ReceiveType, ReadingType, RepairingType,
     RemovingType, EnvironmentType DEF Next

(* The states of a file's requests, chunks and shards stay of their types  *)
(* through every handler of api/main.py and every failure.                 *)
THEOREM TypeCorrect == Spec => []TypeOK
<1>1. TypeInv => TypeOK
  BY DEF TypeInv
<1> QED
  BY TypeInit, TypeStep, <1>1, PTL DEF Spec

-----------------------------------------------------------------------------
(* The plan that shards are handed over by.                                *)

Moving(t) == task[t].pc \in {"push", "wait"}

(* A task gets its plan when it starts to distribute and keeps it.         *)
LEMMA PlanKept ==
    ASSUME TypeInv, [Next]_vars, NEW t \in Task, task'[t].pc \in {"push", "wait"}
    PROVE  \/ Moving(t) /\ task'[t].plan = task[t].plan
           \/ \E urls \in HealthyUrls : task'[t].plan = PlanFor(urls)
<1>0. task \in [Task -> TaskState]
  BY DEF TypeInv, TypeOK
<1> USE <1>0 DEF TaskState, Moving
<1>1. ASSUME NEW s \in Task, Pipeline(s), s # t
      PROVE  task'[t] = task[t]
  BY <1>1
     DEF Pipeline, StartEncoding, WriteShard, FinishEncoder, EncryptShard,
         FinishEncryption, EncoderFails, EncodingRaises, MergeMetadata, WriteMetadata,
         SkipDistribution, DistributeShards, PushShard, DropLocal, KeepAfterFailure,
         PushRaises, PublishPlacement
<1>2. /\ ~StartEncoding(t) /\ ~WriteShard(t) /\ ~FinishEncoder(t) /\ ~EncryptShard(t)
      /\ ~FinishEncryption(t) /\ ~EncoderFails(t) /\ ~EncodingRaises(t)
  BY DEF StartEncoding, WriteShard, FinishEncoder, EncryptShard, FinishEncryption,
         EncoderFails, EncodingRaises
<1>3. /\ ~MergeMetadata(t) /\ ~WriteMetadata(t) /\ ~SkipDistribution(t)
      /\ ~PushRaises(t) /\ ~PublishPlacement(t)
  BY DEF MergeMetadata, WriteMetadata, SkipDistribution, PushRaises, PublishPlacement
<1>4. CASE DistributeShards(t)
  BY <1>4 DEF DistributeShards
<1>5. CASE PushShard(t)
  <2>1. PICK i \in ToSend(t) :
            task' = [task EXCEPT ![t] =
                       [@ EXCEPT !.pc = "wait", !.next = i,
                                 !.sent = local[PathOf(task[t].md, i)],
                                 !.reply = Absent]]
    BY <1>5 DEF PushShard
  <2> QED
    BY <1>5, <2>1 DEF PushShard
<1>6. CASE DropLocal(t) \/ KeepAfterFailure(t)
  BY <1>6 DEF DropLocal, KeepAfterFailure
<1>7. ASSUME NEW m \in net, ReceiveShard(m)
      PROVE  task'[t].pc = task[t].pc /\ task'[t].plan = task[t].plan
  BY <1>7 DEF ReceiveShard, Push, TypeInv, TypeOK
<1>8. CASE Requests \/ RenameWrite \/ Reading \/ \E h \in Remover : Removing(h)
  BY <1>8 DEF Requests, UploadFile, RenameRead, DeleteFile, ReadFile, StartScan,
              RenameWrite, Reading, ServeRange, GatherAll, FinishRead, FetchShard,
              Removing, DropReplicas, RemoveShards
<1>9. CASE Repairing
  <2>1. CASE ReplaceShards \/ FinishRebuild
    <3>1. t = "repair" => task'[t].pc \in {"queued", "new"}
      <4>1. /\ IdleTask.pc = "new"
            /\ \A md : [IdleTask EXCEPT !.pc = "queued", !.md = md].pc = "queued"
        BY DEF IdleTask
      <4>2. t = "repair" => \/ task'[t] = IdleTask
                            \/ \E md : task'[t] = [IdleTask EXCEPT !.pc = "queued", !.md = md]
        BY <2>1 DEF ReplaceShards, FinishRebuild
      <4> QED
        BY <4>1, <4>2
    <3>2. t # "repair" => task'[t] = task[t]
      BY <2>1 DEF ReplaceShards, FinishRebuild
    <3> QED
      BY <3>1, <3>2
  <2>2. CASE ~(ReplaceShards \/ FinishRebuild)
    BY <1>9, <2>2
       DEF Repairing, AssessLocal, ProbePeer, Classify, LeaveAlone, StartRebuild,
           AbandonRebuild, FetchShard, PurgeOrphan, PurgeUnrecoverable
  <2> QED
    BY <2>1, <2>2
<1>10. CASE Environment
  <2>1. ~Crash
    <3>1. Crash => task'[t].pc \in {"dead", "new"}
      BY DEF Crash, IdleTask, Task
    <3> QED
      BY <3>1
  <2> QED
    BY <1>10, <2>1 DEF Environment, PeerOffline, PeerOnline, PeerLosesShard
<1>11. CASE UNCHANGED vars
  BY <1>11 DEF vars
<1>12. CASE \E s \in Task : Pipeline(s)
  <2>1. PICK s \in Task : Pipeline(s)
    BY <1>12
  <2>2. CASE s # t
    BY <1>1, <2>1, <2>2
  <2>3. CASE s = t
    <3>1. Pipeline(t)
      BY <2>1, <2>3
    <3> QED
      BY <1>2, <1>3, <1>4, <1>5, <1>6, <3>1 DEF Pipeline
  <2> QED
    BY <2>2, <2>3
<1> QED
  BY <1>7, <1>8, <1>9, <1>10, <1>11, <1>12 DEF Next

(* Every hand-over, of an upload or a rebuild, goes by the round-robin     *)
(* deal over the peers found healthy.                                      *)
THEOREM PlansAreDealt == Spec => []PlanIsRing
<1>1. Init => PlanIsRing
  BY DEF Init, PlanIsRing, IdleTask
<1>2. TypeInv /\ PlanIsRing /\ [Next]_vars => PlanIsRing'
  <2> SUFFICES ASSUME TypeInv, PlanIsRing, [Next]_vars, NEW t \in Task,
                      task'[t].pc \in {"push", "wait"}
               PROVE  \E urls \in Ring : InPeerOrder(urls) /\ task'[t].plan = RingPlan(urls)
    BY DEF PlanIsRing
  <2>1. CASE Moving(t) /\ task'[t].plan = task[t].plan
    BY <2>1 DEF PlanIsRing, Moving
  <2>2. CASE \E urls \in HealthyUrls : task'[t].plan = PlanFor(urls)
    BY <2>2, DealtPlans DEF HealthyUrls
  <2> QED
    BY <2>1, <2>2, PlanKept
<1> QED
  BY <1>1, <1>2, TypeInit, TypeStep, PTL DEF Spec

(* No hand-over is planned to leave a peer with more than parity_shards    *)
(* shards, whatever peers come and go (replication.py:8-10).               *)
THEOREM PlansWithinParity == Spec => []CapHolds
<1>1. PlanIsRing => CapHolds
  BY RingPlanWithinParity DEF PlanIsRing, CapHolds
<1> QED
  BY <1>1, PlansAreDealt, PTL

-----------------------------------------------------------------------------
(* The stages that the arguments tell apart.                               *)

up == task["upload"]

(* The stages of the upload before any shard can have left this node.      *)
AtHome == {"new", "queued", "encode", "encrypt", "merge", "write", "place"}

NoRebuild ==
    /\ task["repair"].pc = "new"
    /\ scan.pc = "idle"
    /\ gather["repair"].pc = "idle"

-----------------------------------------------------------------------------
(* The placement cap.  Until a shard has left, every metadata in memory or *)
(* on disk places all shards here; after that, the metadata carried by     *)
(* distribute never places a shard anywhere else than its plan does, and   *)
(* everything that can still be written obeys the cap.                     *)

AllHere(md) == \A i \in Shard : md.chunks[i].peer = Here
Capped(md) == \A p \in Peer : Cardinality(ListedAt(md, p)) <= ParityShards

CapInv ==
    /\ NoRebuild
    /\ up.pc \in AtHome => AllHere(meta) /\ AllHere(rename.md) /\ AllHere(up.md)
    /\ up.pc \in {"push", "wait"} =>
          /\ WithinParity(up.plan)
          /\ \A i \in Shard : up.md.chunks[i].peer \in {Here, up.plan[i]}
    /\ Capped(meta)
    /\ Capped(rename.md)

LEMMA AllHereCapped ==
    ASSUME NEW md \in Metadata, AllHere(md)
    PROVE  Capped(md)
<1>1. \A p \in Peer : ListedAt(md, p) = {}
  BY ShardsAssumption DEF AllHere, ListedAt
<1> QED
  BY <1>1, FS_EmptySet, ShardsAssumption DEF Capped

LEMMA PlannedCapped ==
    ASSUME NEW md \in Metadata, NEW plan \in Plan, WithinParity(plan),
           \A i \in Shard : md.chunks[i].peer \in {Here, plan[i]}
    PROVE  Capped(md)
<1>1. SUFFICES ASSUME NEW p \in Peer
               PROVE  Cardinality(ListedAt(md, p)) <= ParityShards
  BY DEF Capped
<1>2. ListedAt(md, p) \in SUBSET ShardsAt(plan, p)
  BY ShardsAssumption DEF ListedAt, ShardsAt
<1>3. IsFiniteSet(Shard)
  BY FS_Interval, ShardsAssumption DEF Shard, Total
<1>4. IsFiniteSet(ShardsAt(plan, p))
  BY <1>3, FS_Subset DEF ShardsAt
<1>5. /\ Cardinality(ListedAt(md, p)) <= Cardinality(ShardsAt(plan, p))
      /\ IsFiniteSet(ListedAt(md, p))
  BY <1>2, <1>4, FS_Subset
<1>6. Cardinality(ShardsAt(plan, p)) <= ParityShards
  BY DEF WithinParity
<1> QED
  BY <1>4, <1>5, <1>6, FS_CardinalityType, ShardsAssumption

(* What a crash leaves of the two pipelines.                               *)
LEMMA DeadType ==
    ASSUME TypeOK, Crash
    PROVE  /\ up' = [IdleTask EXCEPT !.pc = "dead"]
           /\ up'.pc = "dead" /\ up'.md = NoMetadata
           /\ task'["repair"] = IdleTask
           /\ task'["repair"].pc = "new"
<1>1. up' = [IdleTask EXCEPT !.pc = "dead"] /\ task'["repair"] = IdleTask
  BY DEF Crash, up, TypeOK, Task
<1> QED
  BY <1>1 DEF IdleTask

LEMMA CapInit == Init => CapInv
<1> SUFFICES ASSUME Init PROVE CapInv
  OBVIOUS
<1>1. AllHere(NoMetadata)
  BY DEF AllHere, NoMetadata, NoChunks
<1>2. Capped(NoMetadata)
  BY <1>1, AllHereCapped, NoMetadataType
<1> QED
  BY <1>1, <1>2 DEF Init, CapInv, NoRebuild, up, IdleTask, IdleScan, IdleGather,
                    IdleRename, Task, Reader

(* Whatever leaves the metadata and the upload alone preserves the cap.    *)
LEMMA CapFrame ==
    ASSUME CapInv, NoRebuild', UNCHANGED <<meta, task, rename>>
    PROVE  CapInv'
  BY DEF CapInv, up, AllHere, Capped, ListedAt

LEMMA CapPipeline ==
    ASSUME TypeInv, CapInv, NEW t \in Task, Pipeline(t)
    PROVE  CapInv'
<1> USE DEF disk, peers, history
<1>1. t = "upload" /\ up \in TaskState
  BY DEF Pipeline, CapInv, NoRebuild, Task, StartEncoding, WriteShard, FinishEncoder,
         EncryptShard, FinishEncryption, EncoderFails, EncodingRaises, MergeMetadata,
         WriteMetadata, SkipDistribution, DistributeShards, PushShard, DropLocal,
         KeepAfterFailure, PushRaises, PublishPlacement, TypeInv, TypeOK, up
<1>2. /\ NoRebuild' /\ rename' = rename
      /\ task["repair"]' = task["repair"]
  BY <1>1
     DEF Pipeline, CapInv, NoRebuild, Task, StartEncoding, WriteShard, FinishEncoder,
         EncryptShard, FinishEncryption, EncoderFails, EncodingRaises, MergeMetadata,
         WriteMetadata, SkipDistribution, DistributeShards, PushShard, DropLocal,
         KeepAfterFailure, PushRaises, PublishPlacement, TypeInv, TypeOK
<1>3. CASE Encoding(t)
  <2>1. /\ up.pc \in {"queued", "encode", "encrypt"}
        /\ up'.pc \in {"encode", "encrypt", "merge"}
        /\ up'.md = up.md /\ meta' = meta
    BY <1>1, <1>3, EncodingFrame DEF TypeInv, up
  <2> QED
    BY <1>2, <2>1 DEF CapInv, AtHome, Capped, ListedAt, AllHere
<1>4. CASE MergeMetadata(t)
  <2>1. /\ meta' = meta /\ up.pc = "merge" /\ up'.pc = "write"
        /\ up'.md \in {Merged("upload"), Failed}
    BY <1>1, <1>4 DEF MergeMetadata, up, TypeInv, TypeOK, TaskState, Task
  <2>2. AllHere(meta) /\ AllHere(rename.md)
    BY <2>1 DEF CapInv, AtHome
  <2>3. AllHere(Merged("upload")) /\ AllHere(Failed)
    <3>1. Merged("upload").chunks \in {NoChunks, FreshChunks("upload")}
      BY DEF Merged
    <3>2. Failed.chunks = meta.chunks
      BY DEF Failed, TypeInv, TypeOK, Metadata
    <3> QED
      BY <2>2, <3>1, <3>2 DEF AllHere, NoChunks, FreshChunks
  <2> QED
    BY <1>2, <2>1, <2>2, <2>3 DEF CapInv, Capped, ListedAt, AllHere
<1>5. CASE WriteMetadata(t)
  <2>1. /\ meta' \in {up.md, meta} /\ up.pc = "write" /\ up'.pc \in {"place", "done"}
        /\ up'.md = up.md
    BY <1>1, <1>5 DEF WriteMetadata, up, TypeInv, TypeOK, TaskState, Task
  <2>2. AllHere(meta) /\ AllHere(rename.md) /\ AllHere(up.md)
    BY <2>1 DEF CapInv, AtHome
  <2>3. meta' \in Metadata /\ AllHere(meta')
    BY <1>1, <2>1, <2>2 DEF TypeInv, TypeOK, TaskState
  <2>4. Capped(meta')
    BY <2>3, AllHereCapped
  <2> QED
    BY <1>2, <2>1, <2>2, <2>3, <2>4 DEF CapInv, Capped, ListedAt, AllHere
<1>6. CASE SkipDistribution(t) \/ PushRaises(t)
  <2>1. meta' = meta /\ up'.pc = "done"
    BY <1>1, <1>6 DEF SkipDistribution, PushRaises, up, TypeInv, TypeOK, TaskState, Task
  <2> QED
    BY <1>2, <2>1 DEF CapInv, AtHome, Capped, ListedAt
<1>7. CASE DistributeShards(t)
  <2>1. PICK urls \in HealthyUrls : up'.plan = PlanFor(urls)
    BY <1>1, <1>7 DEF DistributeShards, up, TypeInv, TypeOK, TaskState, Task
  <2>2. meta' = meta /\ up.pc = "place" /\ up'.pc = "push" /\ up'.md = meta
    BY <1>1, <1>7 DEF DistributeShards, up, TypeInv, TypeOK, TaskState, Task
  <2>3. WithinParity(up'.plan)
    BY <2>1, RingPlanWithinParity, DealtPlans
  <2>4. \A i \in Shard : up'.md.chunks[i].peer = Here
    BY <2>2 DEF CapInv, AtHome, AllHere
  <2> QED
    BY <1>2, <2>2, <2>3, <2>4 DEF CapInv, AtHome, Capped, ListedAt
<1>8. CASE PushShard(t) \/ KeepAfterFailure(t)
  <2>1. /\ meta' = meta /\ up.pc \in {"push", "wait"} /\ up'.pc \in {"push", "wait"}
        /\ up'.md = up.md /\ up'.plan = up.plan
    <3>1. CASE PushShard(t)
      <4>1. PICK i \in ToSend(t) :
                task' = [task EXCEPT ![t] =
                           [@ EXCEPT !.pc = "wait", !.next = i,
                                     !.sent = local[PathOf(task[t].md, i)],
                                     !.reply = Absent]]
        BY <1>1, <3>1 DEF PushShard
      <4> QED
        BY <1>1, <3>1, <4>1 DEF PushShard, up, TypeInv, TypeOK, TaskState, Task
    <3>2. CASE KeepAfterFailure(t)
      BY <1>1, <3>2 DEF KeepAfterFailure, up, TypeInv, TypeOK, TaskState, Task
    <3> QED
      BY <1>8, <3>1, <3>2
  <2> QED
    BY <1>2, <2>1 DEF CapInv, AtHome, Capped, ListedAt
<1>9. CASE DropLocal(t)
  <2>1. /\ meta' = meta /\ up.pc = "wait" /\ up'.pc = "push"
        /\ up'.md = HandedOver("upload") /\ up'.plan = up.plan
    BY <1>1, <1>9 DEF DropLocal, up, TypeInv, TypeOK, TaskState, Task
  <2>2. \A i \in Shard : HandedOver("upload").chunks[i].peer
                            \in {up.md.chunks[i].peer, up.plan[i]}
    <3>1. up.md \in Metadata
      BY <1>1 DEF TaskState
    <3> QED
      BY <3>1 DEF HandedOver, up, Metadata, Chunk
  <2> QED
    BY <1>2, <2>1, <2>2 DEF CapInv, AtHome, Capped, ListedAt
<1>10. CASE PublishPlacement(t)
  <2>1. meta' = up.md /\ up.pc = "push" /\ up'.pc = "done"
    BY <1>1, <1>10 DEF PublishPlacement, up, TypeInv, TypeOK, TaskState, Task
  <2>2. Capped(up.md)
    BY <1>1, <2>1, PlannedCapped DEF CapInv, TaskState
  <2> QED
    BY <1>2, <2>1, <2>2 DEF CapInv, AtHome, Capped, ListedAt
<1> QED
  BY <1>3, <1>4, <1>5, <1>6, <1>7, <1>8, <1>9, <1>10 DEF Pipeline, Encoding

LEMMA CapStep ==
    ASSUME "repair" \notin Events, TypeInv, CapInv, [Next]_vars
    PROVE  CapInv'
<1> USE DEF disk, peers, history
<1>1. AllHere(NoMetadata) /\ Capped(NoMetadata)
  BY AllHereCapped, NoMetadataType DEF AllHere, NoMetadata, NoChunks
<1>2. CASE UploadFile
  <2>1. /\ meta'.chunks = NoMetadata.chunks /\ rename' = rename /\ up.pc = "new"
        /\ up'.pc = "queued" /\ up'.md = up.md /\ NoRebuild'
    BY <1>2
       DEF UploadFile, up, TypeInv, TypeOK, TaskState, Task, CapInv, NoRebuild,
              NoMetadata
  <2> QED
    BY <1>1, <2>1 DEF CapInv, AtHome, AllHere, Capped, ListedAt
<1>3. CASE RenameRead
  <2>1. /\ meta' = meta /\ rename'.md.chunks = meta.chunks /\ task' = task /\ NoRebuild'
    BY <1>3 DEF RenameRead, TypeInv, TypeOK, Metadata, CapInv, NoRebuild
  <2> QED
    BY <2>1 DEF CapInv, AtHome, AllHere, Capped, ListedAt, up
<1>4. CASE RenameWrite
  <2>1. meta' = rename.md /\ rename'.md = NoMetadata /\ task' = task /\ NoRebuild'
    BY <1>4 DEF RenameWrite, IdleRename, CapInv, NoRebuild
  <2> QED
    BY <1>1, <2>1 DEF CapInv, AtHome, AllHere, Capped, ListedAt, up
<1>5. CASE DeleteFile
  <2>1. meta' = NoMetadata /\ UNCHANGED <<rename, task>> /\ NoRebuild'
    BY <1>5 DEF DeleteFile, RetireMetadata, Unlink, CapInv, NoRebuild
  <2> QED
    BY <1>1, <2>1 DEF CapInv, AtHome, AllHere, Capped, ListedAt, up
<1>6. CASE ReadFile \/ Reading
  <2>1. UNCHANGED <<meta, task, rename>> /\ NoRebuild'
    BY <1>6 DEF ReadFile, StartGather, Reading, ServeRange, GatherAll, FinishRead,
                FetchShard, CapInv, NoRebuild, TypeInv, TypeOK, Reader
  <2> QED
    BY <2>1, CapFrame
<1>7. ~StartScan
  BY DEF StartScan, Admitted
<1>8. ASSUME NEW m \in net, ReceiveShard(m) PROVE CapInv'
  <2>1. m.by \in Task
    BY DEF TypeInv, TypeOK, Push
  <2>2. /\ UNCHANGED <<meta, rename>> /\ NoRebuild'
        /\ up'.pc = up.pc /\ up'.md = up.md /\ up'.plan = up.plan
    BY <1>8, <2>1
       DEF ReceiveShard, up, TypeInv, TypeOK, TaskState, Task, CapInv, NoRebuild
  <2> QED
    BY <2>2 DEF CapInv, AllHere, Capped, ListedAt
<1>9. ~Repairing
  BY
     DEF Repairing, CapInv, NoRebuild, AssessLocal, ProbePeer, Classify, LeaveAlone,
            StartRebuild,
         AbandonRebuild, FetchShard, ReplaceShards, FinishRebuild, PurgeOrphan,
         PurgeUnrecoverable
<1>10. ASSUME NEW h \in Remover, Removing(h) PROVE CapInv'
  <2>1. UNCHANGED <<meta, task, rename>> /\ NoRebuild'
    BY <1>10 DEF Removing, DropReplicas, RemoveShards, CapInv, NoRebuild, IdleScan
  <2> QED
    BY <2>1, CapFrame
<1>11. CASE Crash
  <2>1. meta' = meta /\ rename'.md = NoMetadata
    BY <1>11 DEF Crash, IdleRename
  <2>2. up'.pc = "dead" /\ NoRebuild'
    BY <1>11, DeadType DEF TypeInv, Crash, NoRebuild, up, IdleScan, IdleGather, Reader
  <2> QED
    BY <1>1, <2>1, <2>2 DEF CapInv, AtHome, Capped, ListedAt
<1>12. ASSUME Environment, ~Crash PROVE CapInv'
  <2>1. UNCHANGED <<meta, task, rename>> /\ NoRebuild'
    BY <1>12 DEF Environment, PeerOffline, PeerOnline, PeerLosesShard, CapInv, NoRebuild
  <2> QED
    BY <2>1, CapFrame
<1>13. CASE UNCHANGED vars
  BY <1>13, CapFrame DEF vars, CapInv, NoRebuild
<1> QED
  BY <1>2, <1>3, <1>4, <1>5, <1>6, <1>7, <1>8, <1>9, <1>10, <1>11, <1>12, <1>13,
     CapPipeline DEF Next, Requests

(* The placement cap on the metadata on disk, through renames, deletes,    *)
(* reads, crashes and failures of every kind (ARCHITECTURE.md:365).        *)
THEOREM PlacementCapHolds ==
    ASSUME "repair" \notin Events
    PROVE  Spec => []ListedWithinParity
<1>1. CapInv => ListedWithinParity
  BY DEF CapInv, Capped, ListedWithinParity
<1>2. TypeInv /\ CapInv /\ [Next]_vars => CapInv'
  BY CapStep
<1>3. Init => TypeInv /\ CapInv
  BY TypeInit, CapInit
<1> QED
  BY <1>1, <1>2, <1>3, TypeStep, PTL DEF Spec

-----------------------------------------------------------------------------
(* Every listed shard exists.  The local copy goes only after the peer has *)
(* reported the digest of what it stored; the rest of the invariant says   *)
(* that no message still on its way can undo that.                         *)

NamesShards(md) == \E i \in Shard : md.chunks[i].base = "upload"

(* Some metadata, on disk, in memory or about to be built, lists shards.   *)
Encoded ==
    \/ NamesShards(meta) \/ NamesShards(rename.md) \/ NamesShards(up.md)
    \/ up.pc = "merge" /\ up.gen # 0

Exists(i) ==
    \/ local[<<"upload", i>>] = 1
    \/ \E p \in Peer : held[p][<<"upload", i>>] = 1

Whole ==
    \A i \in Shard : local[<<"upload", i>>] \in {Absent, 1} /\ Exists(i)

(* The encoder writes the shards one by one, in plain, and then they are   *)
(* encrypted one by one; no metadata lists them before all are.            *)
Writing ==
    /\ up.pc \in {"new", "queued"} => gen = 0 /\ up.next = 0
    /\ up.pc \in {"encode", "encrypt"} => gen = 1 /\ up.gen = 1
    /\ up.pc = "encode" =>
          \A i \in Shard : i < up.next => local[<<"upload", i>>] # Absent
    /\ up.pc = "encrypt" =>
          \A i \in Shard : /\ local[<<"upload", i>>] # Absent
                           /\ i < up.next => local[<<"upload", i>>] = 1
    /\ up.pc \in {"new", "queued", "encode", "encrypt"} => ~Encoded

OnlyUpload(md) == \A i \in Shard : md.chunks[i].base \in {"none", "upload"}

(* A message on its way carries a shard that is still here, and concerns   *)
(* either the shard under way or one that was given up.                    *)
InFlight ==
    \A m \in net :
        /\ m.by = "upload"
        /\ m.file[1] = "upload"
        /\ local[m.file] = 1
        /\ up.pc \notin AtHome
        /\ up.pc \in {"push", "wait"} =>
              \/ m.file[2] < up.next
              \/ up.pc = "wait" /\ up.reply = Absent /\ m = Sent("upload")

(* An answer that arrived is the digest of what the peer holds.            *)
Answered ==
    up.pc = "wait" =>
        /\ up.md.chunks[up.next].base = "upload"
        /\ up.sent = 1
        /\ up.reply # Absent =>
              held[up.plan[up.next]][<<"upload", up.next>>] = up.reply

HandoffInv ==
    /\ NoRebuild
    /\ \A h \in Remover : remove[h].pc = "idle"
    /\ OnlyUpload(meta) /\ OnlyUpload(rename.md) /\ OnlyUpload(up.md)
    /\ Writing
    /\ InFlight
    /\ Answered
    /\ Encoded => Whole

(* The requests and failures under which a shard may really be lost.       *)
Harmless == Events \cap {"repair", "delete", "loss"} = {}

(* While the node still has all shards, nothing is on its way.             *)
LEMMA NothingSent ==
    ASSUME HandoffInv, up.pc \in AtHome
    PROVE  net = {}
  BY DEF HandoffInv, InFlight

LEMMA NoNames == ~NamesShards(NoMetadata) /\ OnlyUpload(NoMetadata)
  BY DEF NamesShards, OnlyUpload, NoMetadata, NoChunks

LEMMA HandoffInit == Init => HandoffInv
<1> SUFFICES ASSUME Init PROVE HandoffInv
  OBVIOUS
<1>1. /\ up = IdleTask /\ task["repair"] = IdleTask /\ up.pc = "new"
      /\ up.md = NoMetadata /\ rename.md = NoMetadata /\ meta = NoMetadata
      /\ task["repair"].pc = "new"
  BY DEF Init, up, Task, IdleTask, IdleRename
<1>2. NoRebuild /\ \A h \in Remover : remove[h].pc = "idle"
  BY <1>1 DEF Init, NoRebuild, IdleScan, IdleGather, IdleRemove, Reader
<1>3. Writing /\ ~Encoded /\ InFlight /\ Answered
  BY <1>1, NoNames DEF Init, Encoded, InFlight, Answered, Writing, IdleTask
<1> QED
  BY <1>1, <1>2, <1>3, NoNames DEF HandoffInv

(* Only the upload's pipeline runs.                                        *)
LEMMA OnlyUploadRuns ==
    ASSUME TypeInv, NoRebuild, NEW t \in Task, Pipeline(t)
    PROVE  /\ t = "upload" /\ up \in TaskState /\ NoRebuild'
           /\ UNCHANGED <<rename, remove, held, gather, online, history>>
<1> USE DEF disk, peers, history
<1>1. t = "upload" /\ up \in TaskState
  BY DEF Pipeline, NoRebuild, Task, StartEncoding, WriteShard, FinishEncoder,
         EncryptShard, FinishEncryption, EncoderFails, EncodingRaises, MergeMetadata,
         WriteMetadata, SkipDistribution, DistributeShards, PushShard, DropLocal,
         KeepAfterFailure, PushRaises, PublishPlacement, TypeInv, TypeOK, up
<1> QED
  BY <1>1 DEF Pipeline, NoRebuild, Task, StartEncoding, WriteShard, FinishEncoder,
         EncryptShard, FinishEncryption, EncoderFails, EncodingRaises, MergeMetadata,
         WriteMetadata, SkipDistribution, DistributeShards, PushShard, DropLocal,
         KeepAfterFailure, PushRaises, PublishPlacement, TypeInv, TypeOK

(* The stages in which shards do not move: whoever leaves shards, peers    *)
(* and messages alone and lists shards only where some were listed before  *)
(* preserves the invariant, as long as no answer is being waited for.      *)
LEMMA StillStep ==
    ASSUME HandoffInv, NoRebuild', UNCHANGED <<local, held, net, remove>>,
           OnlyUpload(meta'), OnlyUpload(rename'.md), OnlyUpload(up'.md),
           Writing', Encoded' => Encoded,
           net # {} => up'.pc \in {"done", "dead"},
           up'.pc # "wait"
    PROVE  HandoffInv'
<1>1. InFlight'
  BY DEF HandoffInv, InFlight, AtHome
<1>2. Answered'
  BY DEF Answered
<1>3. (\A h \in Remover : remove[h].pc = "idle")'
  BY DEF HandoffInv
<1>4. (Encoded => Whole)'
  BY DEF HandoffInv, Whole, Exists
<1> QED
  BY <1>1, <1>2, <1>3, <1>4 DEF HandoffInv, OnlyUpload

LEMMA Below ==
    ASSUME NEW i \in Nat, NEW n \in Nat, i < n + 1, i # n
    PROVE  i < n
  OBVIOUS

(* The worker thread's steps keep that, and end with all shards encrypted  *)
(* or with none listed.                                                    *)
LEMMA WritingStep ==
    ASSUME TypeInv, Writing, Encoding("upload")
    PROVE  /\ ~Encoded /\ Writing'
           /\ up'.md = up.md
           /\ up.pc \in {"queued", "encode", "encrypt"}
           /\ up'.pc \in {"encode", "encrypt", "merge"}
           /\ UNCHANGED <<meta, net, held, rename, remove>>
           /\ Encoded' => up'.pc = "merge" /\ up'.gen # 0
           /\ up'.pc = "merge" /\ up'.gen # 0 =>
                 up'.ok /\ up'.gen = 1 /\ \A i \in Shard : local'[<<"upload", i>>] = 1
           /\ "encoderfails" \notin Events /\ up'.pc = "merge" /\ up'.ok => up'.gen # 0
<1> USE DEF disk, peers, history
<1>1. /\ UNCHANGED <<meta, net, held, rename, remove>> /\ up'.md = up.md
      /\ up.pc \in {"queued", "encode", "encrypt"}
      /\ up'.pc \in {"encode", "encrypt", "merge"} /\ "upload" \in Task
  BY EncodingFrame DEF TypeInv, up, Task
<1>2. ~Encoded /\ up \in TaskState
  BY <1>1 DEF Writing, TypeInv, TypeOK, up
<1>3. Encoded' => up'.pc = "merge" /\ up'.gen # 0
  BY <1>1, <1>2 DEF Encoded, NamesShards
<1> DEFINE Ends ==
              /\ up'.pc = "merge" /\ up'.gen # 0 =>
                    up'.ok /\ up'.gen = 1 /\ \A i \in Shard : local'[<<"upload", i>>] = 1
              /\ "encoderfails" \notin Events /\ up'.pc = "merge" /\ up'.ok => up'.gen # 0
<1> SUFFICES Writing' /\ Ends
  BY <1>1, <1>2, <1>3
<1>4. /\ up.next \in Nat /\ up.next <= Total /\ Total \in Nat /\ Corrupt # Absent
      /\ \A i \in Shard : <<"upload", i>> \in File /\ i \in Nat /\ i < Total
  BY <1>2, ConstantFacts DEF TaskState, File, Task, Corrupt, Absent
<1>11. CASE StartEncoding("upload")
  <2>1. /\ up' = [up EXCEPT !.pc = "encode", !.gen = gen'] /\ gen' = 1
        /\ up.next = 0
    BY <1>11 DEF StartEncoding, TypeInv, TypeOK, up, Writing, Task
  <2>2. up'.pc = "encode" /\ up'.gen = 1 /\ up'.next = 0
    BY <1>2, <2>1 DEF TaskState
  <2> QED
    BY <1>3, <1>4, <2>1, <2>2 DEF Writing
<1>12. CASE WriteShard("upload")
  <2>1. /\ up.pc = "encode" /\ up' = [up EXCEPT !.next = up.next + 1]
        /\ gen' = gen /\ local' = [local EXCEPT ![<<"upload", up.next>>] = Corrupt]
    BY <1>12 DEF WriteShard, TypeInv, TypeOK, up, Task
  <2>2. up'.pc = "encode" /\ up'.gen = up.gen /\ up'.next = up.next + 1
    BY <1>2, <2>1 DEF TaskState
  <2>3. ASSUME NEW i \in Shard, i < up.next + 1 PROVE local'[<<"upload", i>>] # Absent
    <3>1. i < up.next => local[<<"upload", i>>] # Absent
      BY <2>1 DEF Writing
    <3>2. local \in [File -> Content]
      BY DEF TypeInv, TypeOK
    <3>3. i = up.next => local'[<<"upload", i>>] = Corrupt
      BY <1>4, <2>1, <3>2
    <3>4. i # up.next => local'[<<"upload", i>>] = local[<<"upload", i>>]
      BY <1>4, <2>1, <3>2
    <3>5. i # up.next => i < up.next
      BY <1>4, <2>3, Below
    <3> QED
      BY <1>4, <3>1, <3>3, <3>4, <3>5
  <2> QED
    BY <1>3, <2>1, <2>2, <2>3 DEF Writing
<1>13. CASE FinishEncoder("upload")
  <2>1. /\ up.pc = "encode" /\ up' = [up EXCEPT !.pc = "encrypt", !.next = 0]
        /\ gen' = gen /\ local' = local /\ up.next = Total
    BY <1>13 DEF FinishEncoder, TypeInv, TypeOK, up, Task
  <2>2. up'.pc = "encrypt" /\ up'.gen = up.gen /\ up'.next = 0
    BY <1>2, <2>1 DEF TaskState
  <2> QED
    BY <1>3, <1>4, <2>1, <2>2 DEF Writing
<1>14. CASE EncryptShard("upload")
  <2>1. /\ up.pc = "encrypt" /\ up' = [up EXCEPT !.next = up.next + 1]
        /\ gen' = gen /\ up.next < Total
        /\ local' = [local EXCEPT ![<<"upload", up.next>>] =
                        IF @ = Absent THEN Absent ELSE up.gen]
    BY <1>14 DEF EncryptShard, TypeInv, TypeOK, up, Task
  <2>2. up'.pc = "encrypt" /\ up'.gen = up.gen /\ up'.next = up.next + 1 /\ up.gen = 1
    BY <1>2, <2>1 DEF TaskState, Writing
  <2>3. \A i \in Shard : local[<<"upload", i>>] # Absent
    BY <2>1 DEF Writing
  <2>4. up.next \in Shard
    BY <1>4, <2>1 DEF Shard
  <2>5. local' = [local EXCEPT ![<<"upload", up.next>>] = 1]
    BY <2>1, <2>2, <2>3, <2>4, <1>4 DEF TypeInv, TypeOK
  <2>6. ASSUME NEW i \in Shard
        PROVE  local'[<<"upload", i>>] # Absent /\ (i < up.next + 1 => local'[<<"upload", i>>] = 1)
    <3>1. i < up.next => local[<<"upload", i>>] = 1
      BY <2>1 DEF Writing
    <3>2. local \in [File -> Content]
      BY DEF TypeInv, TypeOK
    <3>3. i = up.next => local'[<<"upload", i>>] = 1
      BY <1>4, <2>5, <3>2
    <3>4. i # up.next => local'[<<"upload", i>>] = local[<<"upload", i>>]
      BY <1>4, <2>5, <3>2
    <3>5. i # up.next /\ i < up.next + 1 => i < up.next
      BY <1>4, Below
    <3> QED
      BY <2>3, <3>1, <3>3, <3>4, <3>5 DEF Absent
  <2> QED
    BY <1>3, <2>1, <2>2, <2>6 DEF Writing
<1>15. CASE FinishEncryption("upload")
  <2>1. /\ up.pc = "encrypt" /\ local' = local /\ up.next = Total
        /\ up' = [up EXCEPT !.pc = "merge", !.ok = TRUE, !.next = 0]
    BY <1>15 DEF FinishEncryption, TypeInv, TypeOK, up, Task
  <2>2. up'.pc = "merge" /\ up'.ok /\ up'.gen = up.gen
    BY <1>2, <2>1 DEF TaskState
  <2>3. up.gen = 1
    BY <2>1 DEF Writing
  <2>4. \A i \in Shard : local'[<<"upload", i>>] = 1
    BY <1>4, <2>1 DEF Writing
  <2>5. Writing'
    BY <1>3, <2>2 DEF Writing
  <2> QED
    BY <2>2, <2>3, <2>4, <2>5
<1>16. CASE EncoderFails("upload") \/ EncodingRaises("upload")
  <2>1. PICK ok \in BOOLEAN :
            /\ task' = [task EXCEPT !["upload"] = [@ EXCEPT !.pc = "merge", !.ok = ok,
                                                         !.gen = 0, !.next = 0]]
            /\ ok => "encoderfails" \in Events
    BY <1>16 DEF EncoderFails, EncodingRaises
  <2>2. up'.pc = "merge" /\ up'.gen = 0 /\ up'.ok = ok
    BY <1>2, <2>1 DEF TypeInv, TypeOK, up, Task, TaskState
  <2> QED
    BY <1>3, <2>1, <2>2 DEF Writing
<1> QED
  BY <1>11, <1>12, <1>13, <1>14, <1>15, <1>16 DEF Encoding

LEMMA EncodeStep ==
    ASSUME TypeInv, HandoffInv, Encoding("upload"), NoRebuild'
    PROVE  HandoffInv'
<1>1. Writing /\ up.pc \in {"queued", "encode", "encrypt"}
  BY EncodingFrame DEF TypeInv, up, Task, HandoffInv
<1>2. /\ Writing' /\ up'.md = up.md
      /\ up'.pc \in {"encode", "encrypt", "merge"}
      /\ UNCHANGED <<meta, net, held, rename, remove>>
      /\ Encoded' => \A i \in Shard : local'[<<"upload", i>>] = 1
  BY <1>1, WritingStep
<1>3. net = {}
  BY <1>1, NothingSent DEF AtHome
<1>4. InFlight' /\ Answered'
  BY <1>2, <1>3 DEF InFlight, Answered
<1>5. (Encoded => Whole)'
  BY <1>2 DEF Whole, Exists
<1> QED
  BY <1>2, <1>4, <1>5 DEF HandoffInv, OnlyUpload

(* A shard is sent: it is still here, and its message is the only one      *)
(* about it.                                                               *)
LEMMA PushStep ==
    ASSUME TypeInv, HandoffInv, PushShard("upload"), NoRebuild',
           UNCHANGED <<rename, remove, held>>
    PROVE  HandoffInv'
<1> USE DEF disk, peers, history
<1>1. PICK i \in ToSend("upload") :
          /\ net' = net \cup {[by |-> "upload", to |-> up.plan[i],
                               file |-> PathOf(up.md, i),
                               gen |-> local[PathOf(up.md, i)]]}
          /\ task' = [task EXCEPT !["upload"] =
                        [@ EXCEPT !.pc = "wait", !.next = i,
                                  !.sent = local[PathOf(up.md, i)],
                                  !.reply = Absent]]
  BY DEF PushShard, up
<1>2. /\ i \in Shard /\ up.plan[i] \in Peer /\ up.md.chunks[i].base = "upload"
      /\ up \in TaskState
  BY ToSendType DEF HandoffInv, OnlyUpload, up, Task, TypeInv, TypeOK
<1>3. PathOf(up.md, i) = <<"upload", i>>
  BY <1>2 DEF PathOf
<1>4. local[<<"upload", i>>] = 1
  BY <1>2, <1>3 DEF ToSend, HandoffInv, Encoded, NamesShards, Whole, up
<1>5. i >= up.next /\ i \in Nat /\ up.next \in Nat
  BY <1>2, ConstantFacts DEF ToSend, up, TaskState
<1>6. /\ up.pc = "push" /\ up'.pc = "wait" /\ up'.next = i /\ up'.sent = 1
      /\ up'.reply = Absent /\ up'.md = up.md /\ up'.plan = up.plan
      /\ meta' = meta /\ local' = local
  <2>1. up.pc = "push" /\ meta' = meta /\ local' = local
    BY DEF PushShard, up
  <2>2. task \in [Task -> TaskState] /\ "upload" \in Task
    BY DEF TypeInv, TypeOK, Task
  <2>3. up' = [up EXCEPT !.pc = "wait", !.next = i, !.sent = 1, !.reply = Absent]
    BY <1>1, <1>3, <1>4, <2>2 DEF up
  <2>4. up \in TaskState
    BY <1>2
  <2> QED
    BY <2>1, <2>3, <2>4 DEF TaskState
<1>7. Sent("upload")' = [by |-> "upload", to |-> up.plan[i], file |-> <<"upload", i>>,
                         gen |-> 1]
  BY <1>2, <1>6 DEF Sent, up, PathOf
<1>8. InFlight'
  <2> SUFFICES ASSUME NEW m \in net'
               PROVE  /\ m.by = "upload" /\ m.file[1] = "upload" /\ local[m.file] = 1
                      /\ m.file[2] < i \/ m = Sent("upload")'
    BY <1>6 DEF InFlight, AtHome
  <2>1. CASE m \in net
    <3>1. /\ m.by = "upload" /\ m.file[1] = "upload" /\ local[m.file] = 1
          /\ m.file[2] < up.next
      BY <1>6, <2>1 DEF HandoffInv, InFlight
    <3>2. m.file[2] \in Nat
      BY <2>1, ConstantFacts DEF TypeInv, TypeOK, Push, File
    <3> QED
      BY <1>5, <3>1, <3>2
  <2>2. CASE m \notin net
    BY <1>1, <1>3, <1>4, <1>7, <2>2
  <2> QED
    BY <2>1, <2>2
<1>9. Answered'
  BY <1>2, <1>6 DEF Answered
<1>10. Encoded' => Encoded
  BY <1>6 DEF Encoded, NamesShards
<1>11. (Encoded => Whole)'
  BY <1>6, <1>10 DEF HandoffInv, Whole, Exists
<1>12. Writing'
  BY <1>6 DEF Writing
<1> QED
  BY <1>6, <1>8, <1>9, <1>11, <1>12 DEF HandoffInv, OnlyUpload

(* A shard arrives, perhaps long after it was given up: the origin still   *)
(* has it, whatever the peer makes of it.                                  *)
LEMMA ReceiveStep ==
    ASSUME TypeInv, HandoffInv, NEW m \in net, ReceiveShard(m)
    PROVE  HandoffInv'
<1> USE DEF disk, history
<1>1. /\ m \in Push /\ m.by = "upload" /\ m.file[1] = "upload" /\ local[m.file] = 1
      /\ m.to \in Peer /\ m.file \in File
  BY DEF TypeInv, TypeOK, Push, HandoffInv, InFlight
<1>2. PICK stored \in Content :
          /\ held' = [held EXCEPT ![m.to][m.file] = stored]
          /\ task' = IF up.pc = "wait" /\ Sent("upload") = m
                     THEN [task EXCEPT !["upload"].reply = stored] ELSE task
  BY <1>1, ConstantFacts DEF ReceiveShard, Push, up
<1>3. /\ net' = net \ {m} /\ UNCHANGED <<meta, local, rename, remove, gen, scan, gather>>
  BY DEF ReceiveShard
<1>4. /\ up'.pc = up.pc /\ up'.md = up.md /\ up'.gen = up.gen /\ up'.next = up.next
      /\ up'.sent = up.sent /\ up'.plan = up.plan
      /\ task'["repair"] = task["repair"]
      /\ up'.reply = IF up.pc = "wait" /\ Sent("upload") = m THEN stored ELSE up.reply
  BY <1>2 DEF up, TypeInv, TypeOK, TaskState, Task
<1>5. Sent("upload")' = Sent("upload")
  BY <1>4 DEF Sent, PathOf, up
<1>6. InFlight'
  <2> SUFFICES ASSUME NEW k \in net'
               PROVE  /\ k.by = "upload" /\ k.file[1] = "upload" /\ local[k.file] = 1
                      /\ up.pc \notin AtHome
                      /\ up.pc \in {"push", "wait"} =>
                            \/ k.file[2] < up.next
                            \/ up.pc = "wait" /\ up'.reply = Absent /\ k = Sent("upload")
    BY <1>3, <1>4, <1>5 DEF InFlight
  <2> QED
    BY <1>3, <1>4 DEF HandoffInv, InFlight
<1>7. Answered'
  <2> SUFFICES ASSUME up.pc = "wait", up'.reply # Absent
               PROVE  held'[up.plan[up.next]][<<"upload", up.next>>] = up'.reply
    BY <1>4 DEF Answered, HandoffInv
  <2>1. up.next \in Shard /\ up.plan[up.next] \in Peer /\ <<"upload", up.next>> \in File
    BY DEF TypeInv, Waiting, up, Task, File
  <2>2. CASE Sent("upload") = m
    <3>1. m.to = up.plan[up.next] /\ m.file = <<"upload", up.next>>
      BY <2>2 DEF Sent, up, PathOf, HandoffInv, Answered
    <3> QED
      BY <1>1, <1>2, <1>4, <2>1, <2>2, <3>1 DEF TypeInv, TypeOK
  <2>3. CASE Sent("upload") # m
    <3>1. m.file[2] < up.next
      BY <2>3 DEF HandoffInv, InFlight
    <3>2. m.file # <<"upload", up.next>>
      BY <2>1, <3>1, ConstantFacts
    <3>3. held'[up.plan[up.next]][<<"upload", up.next>>]
            = held[up.plan[up.next]][<<"upload", up.next>>]
      BY <1>1, <1>2, <2>1, <3>2 DEF TypeInv, TypeOK
    <3> QED
      BY <1>4, <2>3, <3>3 DEF HandoffInv, Answered
  <2> QED
    BY <2>2, <2>3
<1>8. Encoded' => Encoded
  BY <1>3, <1>4 DEF Encoded, NamesShards
<1>9. (Encoded => Whole)'
  <2> SUFFICES ASSUME Encoded, NEW i \in Shard, local[<<"upload", i>>] # 1
               PROVE  \E p \in Peer : held'[p][<<"upload", i>>] = 1
    BY <1>3, <1>8 DEF HandoffInv, Whole, Exists
  <2>1. PICK p \in Peer : held[p][<<"upload", i>>] = 1
    BY DEF HandoffInv, Whole, Exists
  <2>2. m.file # <<"upload", i>>
    BY <1>1
  <2>3. held'[p][<<"upload", i>>] = held[p][<<"upload", i>>]
    BY <1>1, <1>2, <2>2 DEF TypeInv, TypeOK, File, Task
  <2> QED
    BY <2>1, <2>3
<1>10. NoRebuild'
  BY <1>3, <1>4 DEF HandoffInv, NoRebuild
<1>11. (OnlyUpload(meta) /\ OnlyUpload(rename.md) /\ OnlyUpload(up.md))'
  BY <1>3, <1>4 DEF HandoffInv, OnlyUpload
<1>12. Writing'
  BY <1>3, <1>4, <1>8 DEF HandoffInv, Writing
<1>13. (\A h \in Remover : remove[h].pc = "idle")'
  BY <1>3 DEF HandoffInv
<1> QED
  BY <1>6, <1>7, <1>9, <1>10, <1>11, <1>12, <1>13 DEF HandoffInv

(* The local copy goes: the peer has answered with the digest of the shard *)
(* sent, and no message about it is left to overwrite what it holds.       *)
LEMMA DropStep ==
    ASSUME TypeInv, HandoffInv, DropLocal("upload"), NoRebuild',
           UNCHANGED <<rename, remove, held>>
    PROVE  HandoffInv'
<1> USE DEF disk, peers, history
<1> DEFINE j == up.next
<1>1. /\ up.pc = "wait" /\ up.reply # Absent /\ up.reply = up.sent /\ up \in TaskState
      /\ meta' = meta /\ net' = net
  BY DEF DropLocal, DigestMatches, up, TypeInv, TypeOK, Task
<1>2. /\ j \in Shard /\ j \in Nat /\ up.plan[j] \in Peer /\ up.md \in Metadata
      /\ up.md.chunks[j].base = "upload" /\ PathOf(up.md, j) = <<"upload", j>>
  BY <1>1, ConstantFacts
     DEF TypeInv, Waiting, up, Task, HandoffInv, Answered, PathOf, TaskState
<1>3. held[up.plan[j]][<<"upload", j>>] = 1
  BY <1>1 DEF HandoffInv, Answered
<1>4. /\ up'.pc = "push" /\ up'.next = j + 1 /\ up'.md = HandedOver("upload")
  BY DEF DropLocal, NextShard, up, TypeInv, TypeOK, TaskState, Task
<1>5. local' \in {local, [local EXCEPT ![<<"upload", j>>] = Absent]}
  BY <1>2 DEF DropLocal, up
<1>6. \A i \in Shard : HandedOver("upload").chunks[i].base = up.md.chunks[i].base
  BY <1>2 DEF HandedOver, up, Metadata, Chunk
<1>7. \A f \in File : f # <<"upload", j>> => local'[f] = local[f]
  BY <1>5 DEF TypeInv, TypeOK
<1>8. \A m \in net : /\ m.file \in File /\ m.file[2] \in Nat /\ m.file[2] < j
                    /\ m.file # <<"upload", j>>
  <2> SUFFICES ASSUME NEW m \in net PROVE m.file[2] < j /\ m.file \in File /\ m.file[2] \in Nat
    BY <1>2
  <2>1. m.file \in File /\ m.file[2] \in Nat
    BY ConstantFacts DEF TypeInv, TypeOK, Push, File
  <2> QED
    BY <1>1, <2>1 DEF HandoffInv, InFlight
<1>9. InFlight'
  <2> SUFFICES ASSUME NEW m \in net
               PROVE  /\ m.by = "upload" /\ m.file[1] = "upload" /\ local'[m.file] = 1
                      /\ m.file[2] < j + 1
    BY <1>1, <1>4 DEF InFlight, AtHome
  <2> QED
    BY <1>2, <1>7, <1>8 DEF HandoffInv, InFlight
<1>11. Encoded' => Encoded
  BY <1>1, <1>4, <1>6 DEF Encoded, NamesShards
<1>12. (Encoded => Whole)'
  <2>1. SUFFICES ASSUME Encoded, NEW i \in Shard
               PROVE  local'[<<"upload", i>>] \in {Absent, 1} /\ Exists(i)'
    BY <1>11 DEF Whole
  <2>2. local[<<"upload", i>>] \in {Absent, 1} /\ Exists(i)
    BY <2>1 DEF HandoffInv, Whole
  <2>3. CASE i = j
    BY <1>2, <1>3, <1>5, <2>2, <2>3 DEF Exists, TypeInv, TypeOK, File, Task
  <2>4. CASE i # j
    <3>1. <<"upload", i>> \in File /\ <<"upload", i>> # <<"upload", j>>
      BY <2>4 DEF File, Task
    <3>2. local'[<<"upload", i>>] = local[<<"upload", i>>]
      BY <1>7, <3>1
    <3> QED
      BY <2>2, <3>2 DEF Exists
  <2> QED
    BY <2>3, <2>4
<1>13. Answered' /\ Writing'
  BY <1>4 DEF Answered, Writing
<1> QED
  BY <1>1, <1>4, <1>6, <1>9, <1>12, <1>13 DEF HandoffInv, OnlyUpload

(* A shard is given up: its message may stay on the way, but the local     *)
(* copy stays as well.                                                     *)
LEMMA GiveUpStep ==
    ASSUME TypeInv, HandoffInv, KeepAfterFailure("upload"), NoRebuild',
           UNCHANGED <<rename, remove, held>>
    PROVE  HandoffInv'
<1> USE DEF disk, peers, history
<1>1. /\ up.pc = "wait" /\ up'.pc = "push" /\ up'.next = up.next + 1 /\ up'.md = up.md
      /\ meta' = meta /\ local' = local /\ net' \subseteq net
  BY DEF KeepAfterFailure, NextShard, up, TypeInv, TypeOK, TaskState, Task
<1>2. up.next \in Nat /\ up.md.chunks[up.next].base = "upload"
  BY <1>1, ConstantFacts DEF TypeInv, Waiting, up, Task, HandoffInv, Answered
<1>3. Sent("upload").file = <<"upload", up.next>>
  BY <1>2 DEF Sent, up, PathOf
<1>4. InFlight'
  <2> SUFFICES ASSUME NEW m \in net
               PROVE  /\ m.by = "upload" /\ m.file[1] = "upload" /\ local[m.file] = 1
                      /\ m.file[2] < up.next + 1
    BY <1>1 DEF InFlight, AtHome
  <2>1. m.file[2] \in Nat
    BY ConstantFacts DEF TypeInv, TypeOK, Push, File
  <2> QED
    BY <1>1, <1>2, <1>3, <2>1 DEF HandoffInv, InFlight
<1>5. Answered' /\ Writing' /\ (Encoded' => Encoded)
  BY <1>1 DEF Answered, Writing, Encoded, NamesShards
<1>6. (Encoded => Whole)'
  BY <1>1, <1>5 DEF HandoffInv, Whole, Exists
<1> QED
  BY <1>1, <1>4, <1>5, <1>6 DEF HandoffInv, OnlyUpload

LEMMA HandoffPipeline ==
    ASSUME TypeInv, HandoffInv, NEW t \in Task, Pipeline(t)
    PROVE  HandoffInv'
<1> USE DEF disk, peers, history
<1>1. /\ t = "upload" /\ up \in TaskState /\ NoRebuild'
      /\ UNCHANGED <<rename, remove, held>>
  BY OnlyUploadRuns DEF HandoffInv
<1>2. OnlyUpload(meta) /\ OnlyUpload(rename.md) /\ OnlyUpload(up.md)
  BY DEF HandoffInv
<1>4. CASE Encoding(t)
  BY <1>1, <1>4, EncodeStep
<1>5. CASE MergeMetadata(t)
  <2>1. /\ up.pc = "merge" /\ up'.pc = "write" /\ up'.md \in {Merged("upload"), Failed}
        /\ UNCHANGED <<meta, local, net, gen>>
    BY <1>1, <1>5 DEF MergeMetadata, up, TypeInv, TypeOK, TaskState, Task
  <2>2. Merged("upload").chunks = IF up.gen = 0 THEN NoChunks ELSE FreshChunks("upload")
    BY DEF Merged, up
  <2>3. Failed.chunks = meta.chunks
    BY DEF Failed, TypeInv, TypeOK, Metadata
  <2>4. OnlyUpload(up'.md)
    BY <1>2, <2>1, <2>2, <2>3 DEF OnlyUpload, NoChunks, FreshChunks
  <2>5. NamesShards(up'.md) => NamesShards(meta) \/ up.gen # 0
    BY <2>1, <2>2, <2>3 DEF NamesShards, NoChunks
  <2>6. Encoded' => Encoded
    BY <1>1, <2>1, <2>5 DEF Encoded, NamesShards
  <2>7. net = {}
    BY <2>1, NothingSent DEF AtHome
  <2> QED
    BY <1>1, <1>2, <2>1, <2>4, <2>6, <2>7, StillStep DEF Writing
<1>6. CASE WriteMetadata(t)
  <2>1. /\ meta' \in {up.md, meta} /\ up.pc = "write" /\ up'.pc \in {"place", "done"}
        /\ up'.md = up.md /\ UNCHANGED <<local, net, gen>>
    BY <1>1, <1>6 DEF WriteMetadata, up, TypeInv, TypeOK, TaskState, Task
  <2>2. net = {}
    BY <2>1, NothingSent DEF AtHome
  <2>3. (Encoded' => Encoded) /\ OnlyUpload(meta') /\ OnlyUpload(up'.md)
    BY <1>1, <1>2, <2>1 DEF Encoded, NamesShards
  <2> QED
    BY <1>1, <1>2, <2>1, <2>2, <2>3, StillStep DEF Writing
<1>7. CASE SkipDistribution(t) \/ PushRaises(t)
  <2>1. /\ up'.pc = "done" /\ up'.md = up.md /\ UNCHANGED <<meta, local, net, gen>>
    BY <1>1, <1>7 DEF SkipDistribution, PushRaises, up, TypeInv, TypeOK, TaskState, Task
  <2>2. Encoded' => Encoded
    BY <1>1, <2>1 DEF Encoded, NamesShards
  <2> QED
    BY <1>1, <1>2, <2>1, <2>2, StillStep DEF Writing
<1>8. CASE DistributeShards(t)
  <2>1. /\ up.pc = "place" /\ up'.pc = "push" /\ up'.md = meta
        /\ UNCHANGED <<meta, local, net, gen>>
    BY <1>1, <1>8 DEF DistributeShards, up, TypeInv, TypeOK, TaskState, Task
  <2>2. net = {}
    BY <2>1, NothingSent DEF AtHome
  <2>3. Encoded' => Encoded
    BY <1>1, <2>1 DEF Encoded, NamesShards
  <2> QED
    BY <1>1, <1>2, <2>1, <2>2, <2>3, StillStep DEF Writing
<1>9. CASE PushShard(t)
  BY <1>1, <1>9, PushStep
<1>10. CASE DropLocal(t)
  BY <1>1, <1>10, DropStep
<1>11. CASE KeepAfterFailure(t)
  BY <1>1, <1>11, GiveUpStep
<1>12. CASE PublishPlacement(t)
  <2>1. /\ meta' = up.md /\ up'.pc = "done" /\ up'.md = up.md
        /\ UNCHANGED <<local, net, gen>>
    BY <1>1, <1>12 DEF PublishPlacement, up, TypeInv, TypeOK, TaskState, Task
  <2>2. Encoded' => Encoded
    BY <1>1, <2>1 DEF Encoded, NamesShards
  <2> QED
    BY <1>1, <1>2, <2>1, <2>2, StillStep DEF Writing
<1> QED
  BY <1>4, <1>5, <1>6, <1>7, <1>8, <1>9, <1>10, <1>11, <1>12 DEF Pipeline, Encoding

LEMMA HandoffFrame ==
    ASSUME HandoffInv, NoRebuild', UNCHANGED <<meta, local, held, net, task, rename, remove, gen>>
    PROVE  HandoffInv'
  BY
     DEF HandoffInv, up, OnlyUpload, Encoded, NamesShards, Whole, Exists, Writing,
            InFlight,
         Answered, Sent, PathOf

(* A rename moves metadata between the disk and the handler's memory.      *)
LEMMA RenameStep ==
    ASSUME HandoffInv, NoRebuild', UNCHANGED <<local, held, net, task, remove, gen>>,
           meta'.chunks \in {meta.chunks, rename.md.chunks, NoChunks},
           rename'.md.chunks \in {meta.chunks, rename.md.chunks, NoChunks}
    PROVE  HandoffInv'
<1>1. OnlyUpload(meta') /\ OnlyUpload(rename'.md) /\ OnlyUpload(up'.md)
  BY DEF HandoffInv, OnlyUpload, NoChunks, up
<1>2. Encoded' => Encoded
  BY DEF Encoded, NamesShards, NoChunks, up
<1>3. InFlight' /\ Answered'
  BY DEF HandoffInv, InFlight, Answered, Sent, PathOf, up
<1>4. (Encoded => Whole)' /\ Writing'
  BY <1>2 DEF HandoffInv, Whole, Exists, Writing, up
<1> QED
  BY <1>1, <1>2, <1>3, <1>4 DEF HandoffInv, OnlyUpload, up

LEMMA HandoffStep ==
    ASSUME Harmless, TypeInv, HandoffInv, [Next]_vars
    PROVE  HandoffInv'
<1> USE DEF disk, peers, history
<1>1. CASE UploadFile
  <2>1. /\ meta' = [NoMetadata EXCEPT !.present = TRUE] /\ up.pc = "new"
        /\ up'.pc = "queued" /\ up'.md = up.md /\ up'.gen = up.gen /\ NoRebuild'
        /\ up'.next = up.next
        /\ UNCHANGED <<local, held, net, rename, remove, gen>>
    BY <1>1 DEF UploadFile, up, TypeInv, TypeOK, TaskState, Task, HandoffInv, NoRebuild
  <2>2. meta'.chunks = NoChunks
    BY <2>1 DEF NoMetadata
  <2>3. OnlyUpload(meta') /\ ~NamesShards(meta')
    BY <2>2 DEF OnlyUpload, NamesShards, NoChunks
  <2>4. net = {} /\ gen = 0 /\ up.next = 0 /\ ~Encoded
    BY <2>1, NothingSent DEF HandoffInv, AtHome, Writing
  <2>5. ~Encoded' /\ Writing'
    BY <2>1, <2>3, <2>4 DEF Encoded, NamesShards, Writing
  <2>6. OnlyUpload(rename'.md) /\ OnlyUpload(up'.md)
    BY <2>1 DEF HandoffInv
  <2> QED
    BY <2>1, <2>3, <2>4, <2>5, <2>6, StillStep
<1>2. CASE RenameRead
  <2>1. /\ meta' = meta /\ rename'.md.chunks = meta.chunks /\ NoRebuild'
        /\ UNCHANGED <<local, held, net, task, remove, gen>>
    BY <1>2 DEF RenameRead, TypeInv, TypeOK, Metadata, HandoffInv, NoRebuild
  <2> QED
    BY <2>1, RenameStep
<1>3. CASE RenameWrite
  <2>1. /\ meta' = rename.md /\ rename'.md.chunks = NoChunks /\ NoRebuild'
        /\ UNCHANGED <<local, held, net, task, remove, gen>>
    BY <1>3 DEF RenameWrite, IdleRename, NoMetadata, HandoffInv, NoRebuild
  <2> QED
    BY <2>1, RenameStep
<1>4. ~DeleteFile /\ ~StartScan
  BY DEF DeleteFile, StartScan, Admitted, Harmless
<1>5. CASE ReadFile \/ Reading
  <2>1. UNCHANGED <<meta, local, held, net, task, rename, remove, gen>> /\ NoRebuild'
    BY <1>5 DEF ReadFile, StartGather, Reading, ServeRange, GatherAll, FinishRead,
                FetchShard, HandoffInv, NoRebuild, TypeInv, TypeOK, Reader
  <2> QED
    BY <2>1, HandoffFrame
<1>6. ~Repairing
  BY
     DEF Repairing, HandoffInv, NoRebuild, AssessLocal, ProbePeer, Classify,
            LeaveAlone, StartRebuild,
         AbandonRebuild, FetchShard, ReplaceShards, FinishRebuild, PurgeOrphan,
         PurgeUnrecoverable
<1>7. \A h \in Remover : ~Removing(h)
  BY DEF Removing, DropReplicas, RemoveShards, HandoffInv
<1>8. CASE Crash
  <2>1. /\ UNCHANGED <<meta, local, held, net, gen>>
        /\ rename'.md = NoMetadata /\ up'.md = NoMetadata /\ up'.pc = "dead"
        /\ task'["repair"].pc = "new"
        /\ NoRebuild'
    BY <1>8, DeadType
       DEF TypeInv, Crash, IdleRename, NoRebuild, IdleScan, IdleGather, Reader
  <2>2. \A h \in Remover : remove'[h].pc = "idle"
    BY <1>8 DEF Crash, IdleRemove
  <2>3. (Encoded' => Encoded) /\ InFlight' /\ Answered' /\ Writing'
    BY <2>1, NoNames
       DEF Encoded, NamesShards, HandoffInv, InFlight, Answered, AtHome, Writing
  <2>4. (Encoded => Whole)'
    BY <2>1, <2>3 DEF HandoffInv, Whole, Exists
  <2> QED
    BY <2>1, <2>2, <2>3, <2>4, NoNames DEF HandoffInv, OnlyUpload
<1>9. ASSUME Environment, ~Crash PROVE HandoffInv'
  <2>1. UNCHANGED <<meta, local, held, net, task, rename, remove, gen>> /\ NoRebuild'
    BY <1>9
       DEF Environment, PeerOffline, PeerOnline, PeerLosesShard, Harmless, HandoffInv,
                NoRebuild
  <2> QED
    BY <2>1, HandoffFrame
<1>10. CASE UNCHANGED vars
  BY <1>10, HandoffFrame DEF vars, HandoffInv, NoRebuild
<1> QED
  BY <1>1, <1>2, <1>3, <1>4, <1>5, <1>6, <1>7, <1>8, <1>9, <1>10, HandoffPipeline,
     ReceiveStep DEF Next, Requests

(* The verified hand-off (api/replication.py:163-166): through renames,    *)
(* reads, refused, damaged, late and unanswered transfers, encoder         *)
(* failures and any number of crashes, every shard the metadata lists      *)
(* exists at this node or at a peer.                                       *)
THEOREM HandoffLosesNothing ==
    ASSUME Harmless
    PROVE  Spec => []NoShardLost
<1>1. HandoffInv => NoShardLost
  BY DEF HandoffInv, Encoded, NamesShards, Whole, Exists, NoShardLost
<1>2. TypeInv /\ HandoffInv /\ [Next]_vars => HandoffInv'
  BY HandoffStep
<1>3. Init => TypeInv /\ HandoffInv
  BY TypeInit, HandoffInit
<1> QED
  BY <1>1, <1>2, <1>3, TypeStep, PTL DEF Spec

-----------------------------------------------------------------------------
(* A file that is never rebuilt: every shard there is belongs to the       *)
(* upload.                                                                 *)

OneTask ==
    /\ NoRebuild
    /\ OnlyUpload(meta) /\ OnlyUpload(rename.md) /\ OnlyUpload(up.md)

LEMMA OneTaskInit == Init => OneTask
  BY NoNames
     DEF Init, OneTask, NoRebuild, up, IdleTask, IdleScan, IdleGather, IdleRename,
                 Task, Reader

LEMMA OneTaskPipeline ==
    ASSUME TypeInv, OneTask, NEW t \in Task, Pipeline(t)
    PROVE  OneTask'
<1> USE DEF disk, peers, history
<1>1. t = "upload" /\ up \in TaskState /\ NoRebuild' /\ rename' = rename
  BY OnlyUploadRuns DEF OneTask
<1>2. OnlyUpload(NoMetadata) /\ up.md \in Metadata /\ meta \in Metadata
  BY <1>1, NoNames DEF TaskState, TypeInv, TypeOK
<1>3. CASE Encoding(t) \/ SkipDistribution(t) \/ PushRaises(t) \/ KeepAfterFailure(t)
  <2>1. meta' = meta /\ up'.md = up.md
    <3>1. CASE Encoding(t)
      BY <1>1, <3>1, EncodingFrame DEF up, TypeInv
    <3>2. CASE SkipDistribution(t)
      BY <1>1, <3>2 DEF SkipDistribution, up, TypeInv, TypeOK, TaskState, Task
    <3>3. CASE PushRaises(t)
      BY <1>1, <3>3 DEF PushRaises, up, TypeInv, TypeOK, TaskState, Task
    <3>4. CASE KeepAfterFailure(t)
      BY <1>1, <3>4 DEF KeepAfterFailure, up, TypeInv, TypeOK, TaskState, Task
    <3> QED
      BY <1>3, <3>1, <3>2, <3>3, <3>4
  <2> QED
    BY <1>1, <2>1 DEF OneTask, OnlyUpload
<1>5. CASE MergeMetadata(t)
  <2>1. meta' = meta /\ up'.md \in {Merged("upload"), Failed}
    BY <1>1, <1>5 DEF MergeMetadata, up, TypeInv, TypeOK, TaskState, Task
  <2>2. Merged("upload").chunks \in {NoChunks, FreshChunks("upload")}
    BY DEF Merged
  <2>3. Failed.chunks = meta.chunks
    BY <1>2 DEF Failed, Metadata
  <2> QED
    BY <1>1, <2>1, <2>2, <2>3 DEF OneTask, OnlyUpload, NoChunks, FreshChunks
<1>6. CASE WriteMetadata(t)
  <2>1. meta' \in {up.md, meta} /\ up'.md = up.md
    BY <1>1, <1>6 DEF WriteMetadata, up, TypeInv, TypeOK, TaskState, Task
  <2> QED
    BY <1>1, <2>1 DEF OneTask, OnlyUpload
<1>7. CASE DistributeShards(t)
  <2>1. meta' = meta /\ up'.md = meta
    BY <1>1, <1>7 DEF DistributeShards, up, TypeInv, TypeOK, TaskState, Task
  <2> QED
    BY <1>1, <2>1 DEF OneTask, OnlyUpload
<1>8. CASE PushShard(t)
  <2>1. PICK i \in ToSend(t) :
            task' = [task EXCEPT ![t] =
                       [@ EXCEPT !.pc = "wait", !.next = i,
                                 !.sent = local[PathOf(task[t].md, i)],
                                 !.reply = Absent]]
    BY <1>1, <1>8 DEF PushShard
  <2>2. meta' = meta /\ up'.md = up.md
    BY <1>1, <1>8, <2>1 DEF PushShard, up, TypeInv, TypeOK, TaskState, Task
  <2> QED
    BY <1>1, <2>2 DEF OneTask, OnlyUpload
<1>9. CASE DropLocal(t)
  <2>1. meta' = meta /\ up'.md = HandedOver("upload")
    BY <1>1, <1>9 DEF DropLocal, up, TypeInv, TypeOK, TaskState, Task
  <2>2. \A i \in Shard : HandedOver("upload").chunks[i].base = up.md.chunks[i].base
    BY <1>2 DEF HandedOver, up, Metadata, Chunk
  <2> QED
    BY <1>1, <2>1, <2>2 DEF OneTask, OnlyUpload
<1>10. CASE PublishPlacement(t)
  <2>1. meta' = up.md /\ up'.md = up.md
    BY <1>1, <1>10 DEF PublishPlacement, up, TypeInv, TypeOK, TaskState, Task
  <2> QED
    BY <1>1, <2>1 DEF OneTask, OnlyUpload
<1> QED
  BY <1>3, <1>5, <1>6, <1>7, <1>8, <1>9, <1>10 DEF Pipeline, Encoding

(* What moves metadata only between the disk and the rename handler, and   *)
(* what touches none of it.                                                *)
LEMMA OneTaskFrame ==
    ASSUME OneTask, NoRebuild', up'.md \in {up.md, NoMetadata},
           meta'.chunks \in {meta.chunks, rename.md.chunks, NoChunks},
           rename'.md.chunks \in {meta.chunks, rename.md.chunks, NoChunks}
    PROVE  OneTask'
  BY NoNames DEF OneTask, OnlyUpload, NoChunks

LEMMA NoRepairs ==
    ASSUME "repair" \notin Events, NoRebuild
    PROVE  ~StartScan /\ ~Repairing
  BY
     DEF StartScan, Admitted, Repairing, NoRebuild, AssessLocal, ProbePeer, Classify,
            LeaveAlone,
         StartRebuild, AbandonRebuild, FetchShard, ReplaceShards, FinishRebuild,
         PurgeOrphan, PurgeUnrecoverable

LEMMA OneTaskStep ==
    ASSUME "repair" \notin Events, TypeInv, OneTask, [Next]_vars
    PROVE  OneTask'
<1> USE DEF disk, peers, history
<1>1. ~StartScan /\ ~Repairing
  BY NoRepairs DEF OneTask
<1>2. CASE UploadFile
  <2>1. /\ meta'.chunks = NoChunks /\ rename' = rename /\ up'.md = up.md /\ NoRebuild'
    BY <1>2
       DEF UploadFile, up, TypeInv, TypeOK, TaskState, Task, OneTask, NoRebuild,
              NoMetadata
  <2> QED
    BY <2>1, OneTaskFrame
<1>3. CASE RenameRead \/ RenameWrite
  <2>1. /\ meta'.chunks \in {meta.chunks, rename.md.chunks, NoChunks}
        /\ rename'.md.chunks \in {meta.chunks, rename.md.chunks, NoChunks}
        /\ NoRebuild' /\ task' = task
    BY <1>3
       DEF RenameRead, RenameWrite, IdleRename, NoMetadata, TypeInv, TypeOK, Metadata,
                OneTask, NoRebuild
  <2> QED
    BY <2>1, OneTaskFrame DEF up
<1>4. CASE DeleteFile
  <2>1. meta'.chunks = NoChunks /\ UNCHANGED <<rename, task>> /\ NoRebuild'
    BY <1>4 DEF DeleteFile, RetireMetadata, Unlink, OneTask, NoRebuild, NoMetadata
  <2> QED
    BY <2>1, OneTaskFrame DEF up
<1>5. ASSUME \/ ReadFile \/ Reading \/ \E h \in Remover : Removing(h)
             \/ (Environment /\ ~Crash) \/ UNCHANGED vars
      PROVE  OneTask'
  <2>1. CASE ReadFile \/ Reading
    BY <2>1, OneTaskFrame DEF ReadFile, StartGather, Reading, ServeRange, GatherAll,
                              FinishRead, FetchShard, up, OneTask, NoRebuild,
                              TypeInv, TypeOK, Reader
  <2>2. ASSUME NEW h \in Remover, Removing(h) PROVE OneTask'
    BY <2>2, OneTaskFrame
       DEF Removing, DropReplicas, RemoveShards, IdleScan, up, OneTask,
                              NoRebuild
  <2>3. CASE Environment /\ ~Crash
    BY <2>3, OneTaskFrame DEF Environment, PeerOffline, PeerOnline, PeerLosesShard, up,
                              OneTask, NoRebuild
  <2>4. CASE UNCHANGED vars
    BY <2>4, OneTaskFrame DEF vars, up, OneTask, NoRebuild
  <2> QED
    BY <1>5, <2>1, <2>2, <2>3, <2>4
<1>6. ASSUME NEW m \in net, ReceiveShard(m) PROVE OneTask'
  <2>1. m.by \in Task
    BY DEF TypeInv, TypeOK, Push
  <2>2. UNCHANGED <<meta, rename>> /\ NoRebuild' /\ up'.md = up.md
    BY <1>6, <2>1
       DEF ReceiveShard, up, TypeInv, TypeOK, TaskState, Task, OneTask, NoRebuild
  <2> QED
    BY <2>2, OneTaskFrame
<1>7. CASE Crash
  <2>1. meta' = meta /\ rename'.md.chunks = NoChunks
    BY <1>7 DEF Crash, IdleRename, NoMetadata
  <2>2. up'.md = NoMetadata /\ NoRebuild'
    BY <1>7, DeadType DEF TypeInv, Crash, NoRebuild, IdleScan, IdleGather, Reader
  <2> QED
    BY <2>1, <2>2, OneTaskFrame
<1> QED
  BY <1>1, <1>2, <1>3, <1>4, <1>5, <1>6, <1>7, OneTaskPipeline DEF Next, Requests

-----------------------------------------------------------------------------
(* The cap on what peers really hold.  The upload distributes its shards   *)
(* once, along one plan: whatever a peer stored, and whatever may still    *)
(* reach it, answered for or not, is there or on its way because that plan *)
(* gives it to the peer, and the plan obeys the cap.                       *)

Planned(plan) ==
    /\ WithinParity(plan)
    /\ up.pc \in {"push", "wait"} => up.plan = plan
    /\ \A p \in Peer, f \in File :
          held[p][f] # Absent => f[1] = "upload" /\ plan[f[2]] = p
    /\ \A m \in net : m.file[1] = "upload" /\ plan[m.file[2]] = m.to

HeldInv ==
    /\ up.pc \in AtHome => net = {} /\ \A p \in Peer, f \in File : held[p][f] = Absent
    /\ \E plan \in Plan : Planned(plan)

LEMMA HeldInit == Init => HeldInv
<1> SUFFICES ASSUME Init PROVE HeldInv
  OBVIOUS
<1>1. RingPlan(<<>>) \in Plan /\ WithinParity(RingPlan(<<>>))
  <2>1. <<>> \in Ring
    <3>1. <<>> \in [1..0 -> Peer] /\ 0 \in 0..Cardinality(Peer)
      BY FS_CardinalityType, ShardsAssumption
    <3> QED
      BY <3>1 DEF Ring
  <2> QED
    BY <2>1, RingPlanType, RingPlanWithinParity
<1>2. net = {} /\ \A p \in Peer, f \in File : held[p][f] = Absent
  BY DEF Init, NoFiles
<1>3. up.pc = "new"
  BY DEF Init, up, IdleTask, Task
<1>4. Planned(RingPlan(<<>>))
  BY <1>1, <1>2, <1>3 DEF Planned
<1> QED
  BY <1>1, <1>2, <1>4 DEF HeldInv

(* Peers lose shards, messages arrive elsewhere or not at all, the upload  *)
(* goes on or stops: nothing new is anywhere.                              *)
LEMMA HeldFrame ==
    ASSUME HeldInv, net' \subseteq net,
           \A p \in Peer, f \in File : held'[p][f] \in {held[p][f], Absent},
           up'.pc \in AtHome => up.pc \in AtHome,
           up'.pc \in {"push", "wait"} => up.pc \in {"push", "wait"} /\ up'.plan = up.plan
    PROVE  HeldInv'
<1>1. PICK plan \in Plan : Planned(plan)
  BY DEF HeldInv
<1>2. \A p \in Peer, f \in File :
          held'[p][f] # Absent => f[1] = "upload" /\ plan[f[2]] = p
  BY <1>1 DEF Planned
<1>3. /\ \A m \in net' : m.file[1] = "upload" /\ plan[m.file[2]] = m.to
      /\ up'.pc \in {"push", "wait"} => up'.plan = plan
  BY <1>1 DEF Planned
<1>4. Planned(plan)'
  BY <1>1, <1>2, <1>3 DEF Planned, WithinParity, ShardsAt
<1>5. up'.pc \in AtHome => net' = {} /\ \A p \in Peer, f \in File : held'[p][f] = Absent
  BY DEF HeldInv
<1> QED
  BY <1>4, <1>5 DEF HeldInv

LEMMA HeldPipeline ==
    ASSUME TypeInv, OneTask, HeldInv, NEW t \in Task, Pipeline(t)
    PROVE  HeldInv'
<1> USE DEF disk, peers, history
<1>1. t = "upload" /\ up \in TaskState /\ held' = held
  BY OnlyUploadRuns DEF OneTask
<1>2. CASE Encoding(t)
  <2>1. /\ up.pc \in {"queued", "encode", "encrypt"} /\ up'.pc \in {"encode", "encrypt", "merge"}
        /\ net' = net
    BY <1>1, <1>2, EncodingFrame DEF up, TypeInv
  <2> QED
    BY <1>1, <2>1, HeldFrame DEF AtHome
<1>4. CASE MergeMetadata(t) \/ WriteMetadata(t)
  <2>1. /\ up.pc \in {"merge", "write"} /\ up'.pc \in {"write", "place", "done"}
        /\ net' = net
    <3>1. CASE MergeMetadata(t)
      BY <1>1, <3>1 DEF MergeMetadata, up, TypeInv, TypeOK, TaskState, Task
    <3>2. CASE WriteMetadata(t)
      BY <1>1, <3>2 DEF WriteMetadata, up, TypeInv, TypeOK, TaskState, Task
    <3> QED
      BY <1>4, <3>1, <3>2
  <2> QED
    BY <1>1, <2>1, HeldFrame DEF AtHome
<1>5. CASE SkipDistribution(t) \/ PushRaises(t) \/ PublishPlacement(t)
  <2>1. up'.pc = "done" /\ net' = net
    BY <1>1, <1>5
       DEF SkipDistribution, PushRaises, PublishPlacement, up, TypeInv, TypeOK,
                      TaskState, Task
  <2> QED
    BY <1>1, <2>1, HeldFrame DEF AtHome
<1>6. CASE DistributeShards(t)
  <2>1. PICK urls \in HealthyUrls : up'.plan = PlanFor(urls)
    BY <1>1, <1>6 DEF DistributeShards, up, TypeInv, TypeOK, TaskState, Task
  <2>2. up.pc = "place" /\ up'.pc = "push" /\ net' = net
    BY <1>1, <1>6 DEF DistributeShards, up, TypeInv, TypeOK, TaskState, Task
  <2>3. up'.plan \in Plan /\ WithinParity(up'.plan)
    BY <2>1, PlanForType, RingPlanWithinParity, DealtPlans
  <2>4. net' = {} /\ \A p \in Peer, f \in File : held'[p][f] = Absent
    BY <1>1, <2>2 DEF HeldInv, AtHome
  <2>5. \E plan \in Plan : Planned(plan)'
    <3>1. PICK plan \in Plan : plan = up'.plan
      BY <2>3
    <3>2. Planned(plan)'
      BY <2>2, <2>3, <2>4, <3>1 DEF Planned, WithinParity, ShardsAt
    <3> QED
      BY <3>2
  <2> QED
    BY <2>2, <2>4, <2>5 DEF HeldInv
<1>7. CASE PushShard(t)
  <2>1. PICK i \in ToSend(t) :
            /\ net' = net \cup {[by |-> t, to |-> task[t].plan[i],
                                 file |-> PathOf(task[t].md, i),
                                 gen |-> local[PathOf(task[t].md, i)]]}
            /\ task' = [task EXCEPT ![t] =
                          [@ EXCEPT !.pc = "wait", !.next = i,
                                    !.sent = local[PathOf(task[t].md, i)],
                                    !.reply = Absent]]
    BY <1>7 DEF PushShard
  <2>2. up.pc = "push" /\ up'.pc = "wait" /\ up'.plan = up.plan
    BY <1>1, <1>7, <2>1 DEF PushShard, up, TypeInv, TypeOK, TaskState, Task
  <2>3. i \in Shard /\ up.md.chunks[i].base = "upload"
    BY <1>1, <2>1, ToSendType DEF OneTask, OnlyUpload, up, Task, TypeInv, TypeOK
  <2>4. PICK plan \in Plan : Planned(plan)
    BY DEF HeldInv
  <2>5. plan = up.plan
    BY <2>2, <2>4 DEF Planned
  <2>6. \A m \in net' : m.file[1] = "upload" /\ plan[m.file[2]] = m.to
    BY <1>1, <2>1, <2>3, <2>4, <2>5 DEF Planned, PathOf, up
  <2>7. \A p \in Peer, f \in File :
            held'[p][f] # Absent => f[1] = "upload" /\ plan[f[2]] = p
    BY <1>1, <2>4 DEF Planned
  <2>8. Planned(plan)'
    BY <2>2, <2>4, <2>5, <2>6, <2>7 DEF Planned, WithinParity, ShardsAt
  <2> QED
    BY <2>2, <2>8 DEF HeldInv, AtHome
<1>8. CASE DropLocal(t) \/ KeepAfterFailure(t)
  <2>1. /\ up.pc = "wait" /\ up'.pc = "push" /\ up'.plan = up.plan /\ net' \subseteq net
    <3>1. CASE DropLocal(t)
      BY <1>1, <3>1 DEF DropLocal, up, TypeInv, TypeOK, TaskState, Task
    <3>2. CASE KeepAfterFailure(t)
      BY <1>1, <3>2 DEF KeepAfterFailure, up, TypeInv, TypeOK, TaskState, Task
    <3> QED
      BY <1>8, <3>1, <3>2
  <2> QED
    BY <1>1, <2>1, HeldFrame DEF AtHome
<1> QED
  BY <1>2, <1>4, <1>5, <1>6, <1>7, <1>8 DEF Pipeline, Encoding

(* A peer stores what reaches it.                                          *)
LEMMA HeldReceive ==
    ASSUME TypeInv, HeldInv, NEW m \in net, ReceiveShard(m)
    PROVE  HeldInv'
<1> USE DEF disk, peers, history
<1>1. m.by \in Task /\ m.to \in Peer /\ m.file \in File
  BY DEF TypeInv, TypeOK, Push
<1>2. /\ net' = net \ {m} /\ up'.pc = up.pc /\ up'.plan = up.plan
      /\ up.pc \notin AtHome
  BY <1>1 DEF ReceiveShard, up, TypeInv, TypeOK, TaskState, Task, HeldInv
<1>3. PICK plan \in Plan : Planned(plan)
  BY DEF HeldInv
<1>4. m.file[1] = "upload" /\ plan[m.file[2]] = m.to
  BY <1>3 DEF Planned
<1>5. \A p \in Peer, f \in File :
          held'[p][f] # Absent => f[1] = "upload" /\ plan[f[2]] = p
  <2>1. PICK stored : held' = [held EXCEPT ![m.to][m.file] = stored]
    BY DEF ReceiveShard
  <2>2. \A p \in Peer, f \in File :
            held'[p][f] # held[p][f] => p = m.to /\ f = m.file
    BY <1>1, <2>1 DEF TypeInv, TypeOK
  <2> QED
    BY <1>3, <1>4, <2>2 DEF Planned
<1>6. Planned(plan)'
  BY <1>2, <1>3, <1>5 DEF Planned, WithinParity, ShardsAt
<1> QED
  BY <1>2, <1>6 DEF HeldInv

LEMMA HeldStep ==
    ASSUME "repair" \notin Events, TypeInv, OneTask, HeldInv, [Next]_vars
    PROVE  HeldInv'
<1> USE DEF disk, peers, history
<1>1. ~StartScan /\ ~Repairing
  BY NoRepairs DEF OneTask
<1>2. CASE UploadFile
  <2>1. up.pc = "new" /\ up'.pc = "queued" /\ UNCHANGED <<held, net>>
    BY <1>2 DEF UploadFile, up, TypeInv, TypeOK, TaskState, Task
  <2> QED
    BY <2>1, HeldFrame DEF AtHome
<1>3. CASE RenameRead \/ RenameWrite \/ DeleteFile \/ ReadFile \/ Reading
  <2>1. UNCHANGED <<held, net, task>>
    BY <1>3 DEF RenameRead, RenameWrite, DeleteFile, ReadFile, Reading, ServeRange,
                GatherAll, FinishRead, FetchShard
  <2> QED
    BY <2>1, HeldFrame DEF up
<1>4. ASSUME NEW h \in Remover, Removing(h) PROVE HeldInv'
  <2>1. UNCHANGED <<net, task>>
    BY <1>4 DEF Removing, DropReplicas, RemoveShards
  <2>2. \A p \in Peer, f \in File : held'[p][f] \in {held[p][f], Absent}
    BY <1>4 DEF Removing, DropReplicas, RemoveShards, NoFiles, TypeInv, TypeOK
  <2> QED
    BY <2>1, <2>2, HeldFrame DEF up
<1>5. ASSUME Environment, ~Crash PROVE HeldInv'
  <2>1. UNCHANGED <<net, task>>
    BY <1>5 DEF Environment, PeerOffline, PeerOnline, PeerLosesShard
  <2>2. \A p \in Peer, f \in File : held'[p][f] \in {held[p][f], Absent}
    BY <1>5 DEF Environment, PeerOffline, PeerOnline, PeerLosesShard, TypeInv, TypeOK
  <2> QED
    BY <2>1, <2>2, HeldFrame DEF up
<1>6. CASE Crash
  <2>1. UNCHANGED <<held, net>> /\ up'.pc = "dead"
    BY <1>6, DeadType DEF TypeInv, Crash
  <2> QED
    BY <2>1, HeldFrame DEF AtHome
<1>7. CASE UNCHANGED vars
  BY <1>7, HeldFrame DEF vars, up
<1> QED
  BY <1>1, <1>2, <1>3, <1>4, <1>5, <1>6, <1>7, HeldPipeline, HeldReceive
     DEF Next, Requests

LEMMA HeldCapped ==
    TypeInv /\ HeldInv => HeldWithinParity
<1> SUFFICES ASSUME TypeInv, HeldInv, NEW p \in Peer, NEW g \in Gen
             PROVE  Cardinality({f \in File : held[p][f] = g}) <= ParityShards
  BY DEF HeldWithinParity
<1> DEFINE Stored == {f \in File : held[p][f] = g}
<1>1. PICK plan \in Plan : Planned(plan)
  BY DEF HeldInv
<1>2. \A f \in Stored : f[1] = "upload" /\ f[2] \in ShardsAt(plan, p)
  BY <1>1, ShardsAssumption, LifecycleAssumption
     DEF Planned, ShardsAt, Gen, Absent, File
<1>3. IsFiniteSet(ShardsAt(plan, p))
  <2>1. IsFiniteSet(Shard)
    BY FS_Interval, ShardsAssumption DEF Shard, Total
  <2> QED
    BY <2>1, FS_Subset DEF ShardsAt
<1>4. Cardinality(ShardsAt(plan, p)) <= ParityShards
  BY <1>1 DEF Planned, WithinParity
<1> DEFINE Index == [f \in Stored |-> f[2]]
<1>5. Index \in Injection(Stored, ShardsAt(plan, p))
  <2>1. Index \in [Stored -> ShardsAt(plan, p)]
    BY <1>2
  <2>2. \A e, f \in Stored : Index[e] = Index[f] => e = f
    BY <1>2 DEF File, Task
  <2> QED
    BY <2>1, <2>2 DEF Injection, IsInjective
<1>6. IsFiniteSet(Stored) /\ Cardinality(Stored) <= Cardinality(ShardsAt(plan, p))
  BY <1>3, <1>5, FS_Injection
<1> QED
  BY <1>3, <1>4, <1>6, FS_CardinalityType, ShardsAssumption

(* The placement cap on what peers really store, through crashes, deletes, *)
(* losses, late messages and answers that never came back: the redundancy  *)
(* of ARCHITECTURE.md:365 is real and not only recorded.                   *)
THEOREM HeldCapHolds ==
    ASSUME "repair" \notin Events
    PROVE  Spec => []HeldWithinParity
<1>1. TypeInv /\ HeldInv => HeldWithinParity
  BY HeldCapped
<1>2. TypeInv /\ OneTask /\ [Next]_vars => OneTask'
  BY OneTaskStep
<1>3. TypeInv /\ OneTask /\ HeldInv /\ [Next]_vars => HeldInv'
  BY HeldStep
<1>4. Init => TypeInv /\ OneTask /\ HeldInv
  BY TypeInit, OneTaskInit, HeldInit
<1> QED
  BY <1>1, <1>2, <1>3, <1>4, TypeStep, PTL DEF Spec

-----------------------------------------------------------------------------
(* The PATCH handler keeps the event loop from its read to its write: only *)
(* the worker threads come in between.                                     *)

Rest == {"done", "dead"}

RenameHolds ==
    /\ rename.pc = "write" => loop = "rename"
    /\ rename.pc = "idle" => rename.md = NoMetadata

LEMMA RenameHoldsInit == Init => RenameHolds
  BY DEF Init, RenameHolds, IdleRename

LEMMA RenameHoldsStep ==
    ASSUME "repair" \notin Events, TypeInv, NoRebuild, RenameHolds, [Next]_vars
    PROVE  RenameHolds'
<1> USE DEF disk, peers, history, RenameHolds
<1>1. ~StartScan /\ ~Repairing
  BY NoRepairs
<1>2. CASE RenameRead \/ RenameWrite \/ Crash
  BY <1>2 DEF RenameRead, RenameWrite, Hold, IdleRename, Crash
<1>3. ASSUME rename' = rename, loop' # loop => loop # "rename" PROVE RenameHolds'
  BY <1>3 DEF TypeInv, TypeOK
<1>4. CASE UploadFile \/ DeleteFile \/ ReadFile \/ Reading
  BY <1>3, <1>4 DEF UploadFile, DeleteFile, Admitted, ReadFile, Reading, ServeRange,
                    GatherAll, FinishRead, FetchShard, OnLoop
<1>5. ASSUME NEW t \in Task, Pipeline(t) PROVE RenameHolds'
  <2>1. t = "upload"
    BY <1>5, OnlyUploadRuns
  <2>2. CASE Encoding(t) \/ MergeMetadata(t) \/ WriteMetadata(t)
    BY <1>3, <2>2, EncodingFrame DEF MergeMetadata, WriteMetadata, TypeInv
  <2>3. CASE SkipDistribution(t) \/ DistributeShards(t) \/ PushShard(t)
    BY <1>3, <2>1, <2>3 DEF SkipDistribution, DistributeShards, PushShard, OnLoop
  <2>4. CASE DropLocal(t) \/ KeepAfterFailure(t) \/ PushRaises(t) \/ PublishPlacement(t)
    BY <1>3, <2>1, <2>4
       DEF DropLocal, KeepAfterFailure, PushRaises, PublishPlacement, OnLoop
  <2> QED
    BY <1>5, <2>2, <2>3, <2>4 DEF Pipeline, Encoding
<1>6. ASSUME NEW m \in net, ReceiveShard(m) PROVE RenameHolds'
  BY <1>6 DEF ReceiveShard
<1>7. ASSUME NEW h \in Remover, Removing(h) PROVE RenameHolds'
  BY <1>3, <1>7 DEF Removing, DropReplicas, RemoveShards, OnLoop, Remover
<1>8. CASE (Environment /\ ~Crash) \/ UNCHANGED vars
  BY <1>8 DEF Environment, PeerOffline, PeerOnline, PeerLosesShard, vars
<1> QED
  BY <1>1, <1>2, <1>4, <1>5, <1>6, <1>7, <1>8 DEF Next, Requests

(* A delete of a file at rest leaves nobody who could bring it back.       *)
DeleteInv ==
    deleted \/ remove["delete"].pc # "idle" =>
        /\ ~meta.present
        /\ rename.pc = "idle"
        /\ up.pc \in Rest

LEMMA DeleteInit == Init => DeleteInv
  BY DEF Init, DeleteInv, IdleRemove, Remover

LEMMA DeleteStep ==
    ASSUME "repair" \notin Events, Window \subseteq Rest,
           TypeInv, NoRebuild, RenameHolds, DeleteInv, [Next]_vars
    PROVE  DeleteInv'
<1> USE DEF disk, peers, history, DeleteInv
<1>1. ~StartScan /\ ~Repairing
  BY NoRepairs
<1>2. CASE UploadFile
  BY <1>2 DEF UploadFile, up, Rest
<1>3. CASE RenameRead \/ RenameWrite
  BY <1>3 DEF RenameRead, RenameWrite, up
<1>4. CASE DeleteFile
  <2>1. /\ up.pc \in Rest /\ rename.pc = "idle" /\ meta' = NoMetadata
        /\ UNCHANGED <<task, rename>>
    BY <1>4
       DEF DeleteFile, Admitted, RenameHolds, RetireMetadata, Unlink, up, TypeInv,
              TypeOK
  <2> QED
    BY <2>1 DEF NoMetadata, up
<1>5. CASE ReadFile \/ Reading
  BY <1>5 DEF ReadFile, Reading, ServeRange, GatherAll, FinishRead, FetchShard, up
<1>6. ASSUME NEW t \in Task, Pipeline(t) PROVE DeleteInv'
  <2>1. t = "upload" /\ UNCHANGED <<deleted, remove>>
    BY <1>6, OnlyUploadRuns
  <2>2. up.pc \notin Rest
    BY <1>6, <2>1 DEF Pipeline, StartEncoding, WriteShard, FinishEncoder, EncryptShard,
         FinishEncryption, EncoderFails, EncodingRaises, MergeMetadata, WriteMetadata,
         SkipDistribution, DistributeShards, PushShard, DropLocal, KeepAfterFailure,
         PushRaises, PublishPlacement, up, Rest
  <2> QED
    BY <2>1, <2>2
<1>7. ASSUME NEW m \in net, ReceiveShard(m) PROVE DeleteInv'
  <2>1. m.by \in Task
    BY DEF TypeInv, TypeOK, Push
  <2>2. up'.pc = up.pc /\ UNCHANGED <<meta, rename, deleted, remove>>
    BY <1>7, <2>1 DEF ReceiveShard, up, TypeInv, TypeOK, TaskState, Task
  <2> QED
    BY <2>2
<1>8. ASSUME NEW h \in Remover, Removing(h) PROVE DeleteInv'
  <2>1. UNCHANGED <<meta, rename, task>>
    BY <1>8 DEF Removing, DropReplicas, RemoveShards
  <2>2. deleted' \/ remove'["delete"].pc # "idle" => deleted \/ remove["delete"].pc # "idle"
    BY <1>8
       DEF Removing, DropReplicas, RemoveShards, Remover, TypeInv, TypeOK, RemoveState
  <2> QED
    BY <2>1, <2>2 DEF up
<1>9. CASE Crash
  <2>1. /\ up'.pc = "dead" /\ rename'.pc = "idle" /\ UNCHANGED <<meta, deleted>>
        /\ remove'["delete"].pc = "idle"
    BY <1>9, DeadType DEF TypeInv, Crash, IdleRename, IdleRemove, Remover
  <2> QED
    BY <2>1 DEF Rest
<1>10. CASE (Environment /\ ~Crash) \/ UNCHANGED vars
  BY <1>10 DEF Environment, PeerOffline, PeerOnline, PeerLosesShard, vars, up
<1> QED
  BY <1>1, <1>2, <1>3, <1>4, <1>5, <1>6, <1>7, <1>8, <1>9, <1>10 DEF Next, Requests

(* A file that was at rest when it was deleted, and was answered "deleted",*)
(* does not come back: not through a rename or a download that overlaps    *)
(* the delete, a message still under way or a crash (main.py:920-965).     *)
THEOREM DeleteIsFinal ==
    ASSUME "repair" \notin Events, Window \subseteq Rest
    PROVE  Spec => []DeletedStaysDeleted
<1>1. DeleteInv => DeletedStaysDeleted
  BY DEF DeleteInv, DeletedStaysDeleted
<1>2. TypeInv /\ OneTask /\ [Next]_vars => OneTask'
  BY OneTaskStep
<1>3. TypeInv /\ OneTask /\ RenameHolds /\ [Next]_vars => RenameHolds'
  BY RenameHoldsStep DEF OneTask
<1>4. TypeInv /\ OneTask /\ RenameHolds /\ DeleteInv /\ [Next]_vars => DeleteInv'
  BY DeleteStep DEF OneTask
<1>5. Init => TypeInv /\ OneTask /\ RenameHolds /\ DeleteInv
  BY TypeInit, OneTaskInit, RenameHoldsInit, DeleteInit
<1> QED
  BY <1>1, <1>2, <1>3, <1>4, <1>5, TypeStep, PTL DEF Spec

-----------------------------------------------------------------------------
(* What a reader can get back.  As long as the file is neither deleted nor *)
(* rebuilt, and the hand-off ends by writing what it did, every shard that *)
(* the metadata lists is where the metadata says, as the upload encoded    *)
(* it, but for the shards that peers have lost since: `lost` is what the   *)
(* proofs carry along of those, one shard for every loss at most.          *)

Served(md, lost) ==
    \A i \in Shard \ lost :
        md.chunks[i].base = "upload" =>
            \/ md.chunks[i].peer = Here /\ local[<<"upload", i>>] = 1
            \/ /\ md.chunks[i].peer # Here
               /\ md.chunks[i].digest = 1
               /\ held[md.chunks[i].peer][<<"upload", i>>] = 1

(* No message is under way that could overwrite what the metadata lists.   *)
Untouched(md) == \A m \in net : md.chunks[m.file[2]].peer = Here

Complete(md) ==
    md.status = "stored" \/ HasChunks(md) => \A i \in Shard : md.chunks[i].base = "upload"

(* The worker thread runs the encoder once, and reports what it left.      *)
EncodedOnce ==
    /\ Writing
    /\ up.pc = "merge" =>
          \/ up.ok /\ up.gen = 1 /\ \A i \in Shard : local[<<"upload", i>>] = 1
          \/ ~up.ok /\ up.gen = 0

(* No listed shard is the torn or the plain file of an encode that failed. *)
Clean == Encoded => \A i \in Shard : local[<<"upload", i>>] \in {Absent, 1}

(* A message on its way concerns the shard under way or an earlier one.    *)
Pending ==
    \A m \in net :
        /\ m.by = "upload"
        /\ m.file[1] = "upload"
        /\ up.pc \in {"push", "wait"} =>
              \/ m.file[2] < up.next
              \/ up.pc = "wait" /\ up.reply = Absent /\ m = Sent("upload")

(* An answer that arrived is what the peer holds, unless it lost it since. *)
Heard(lost) ==
    up.pc = "wait" =>
        /\ up.sent = 1
        /\ up.md.chunks[up.next].base = "upload"
        /\ up.next \in lost \/ up.reply = Absent
              \/ held[up.plan[up.next]][<<"upload", up.next>>] = up.reply

(* The shards not dealt with yet are still listed here.                    *)
Ahead ==
    up.pc \in {"push", "wait"} =>
        \A i \in Shard : i >= up.next => up.md.chunks[i].peer = Here

(* Which metadata has to be right: the pipeline's own until it publishes   *)
(* it, what is on disk and what the rename handler holds otherwise.        *)
Placed(lost) ==
    /\ up.pc \in AtHome \cup {"push", "wait"} => Served(up.md, lost) /\ Untouched(up.md)
    /\ up.pc \notin {"push", "wait"} =>
          /\ Served(meta, lost) /\ Untouched(meta)
          /\ Served(rename.md, lost) /\ Untouched(rename.md)

Kept(lost) ==
    /\ \A h \in Remover : remove[h].pc = "idle"
    /\ Clean
    /\ Complete(meta) /\ Complete(rename.md) /\ Complete(up.md)
    /\ EncodedOnce
    /\ Pending
    /\ Heard(lost)
    /\ Ahead
    /\ Placed(lost)

(* Under these requests and failures the hand-off is carried to its end    *)
(* and nothing but the upload moves shards.                                *)
Calm ==
    /\ Events \cap {"repair", "pushraises", "encoderfails"} = {}
    /\ "crash" \in Events => Window \subseteq Rest

(* What the steps of the upload may rely on.                               *)
Settled == TypeInv /\ CapInv /\ OneTask /\ RenameHolds /\ HeldInv

LEMMA KeptInit == Init => Kept({})
<1> SUFFICES ASSUME Init PROVE Kept({})
  OBVIOUS
<1>1. /\ up = IdleTask /\ up.pc = "new" /\ up.md = NoMetadata
      /\ meta = NoMetadata /\ rename.md = NoMetadata /\ net = {}
  BY DEF Init, up, IdleTask, IdleRename, Task
<1>2. /\ Complete(NoMetadata) /\ Served(NoMetadata, {}) /\ Untouched(NoMetadata)
  BY <1>1 DEF Complete, HasChunks, Served, Untouched, NoMetadata, NoChunks
<1>3. \A h \in Remover : remove[h].pc = "idle"
  BY DEF Init, IdleRemove
<1>4. ~Encoded /\ Writing
  BY <1>1, NoNames DEF Init, Encoded, Writing, IdleTask
<1>5. EncodedOnce /\ Clean /\ Pending /\ Heard({}) /\ Ahead
  BY <1>1, <1>4 DEF EncodedOnce, Clean, Pending, Heard, Ahead
<1> QED
  BY <1>1, <1>2, <1>3, <1>5 DEF Kept, Placed

(* The stages before the hand-off, while nothing is on its way.            *)
LEMMA KeptStill ==
    ASSUME NEW lost, Kept(lost), net = {}, UNCHANGED <<local, held, net, remove>>,
           Encoded' => Encoded,
           Complete(meta'), Complete(rename'.md), Complete(up'.md), EncodedOnce',
           up'.pc # "wait",
           up'.pc = "push" => AllHere(up'.md),
           up'.pc \in AtHome \cup {"push", "wait"} => Served(up'.md, lost),
           Served(meta', lost), Served(rename'.md, lost)
    PROVE  Kept(lost)'
<1>1. (\A h \in Remover : remove[h].pc = "idle")'
  BY DEF Kept
<1>2. Pending' /\ Heard(lost)' /\ Ahead'
  BY DEF Pending, Heard, Ahead, AllHere
<1>3. \A md : Untouched(md)'
  BY DEF Untouched
<1>4. Served(meta, lost)' /\ Served(rename.md, lost)'
  BY DEF Served
<1>5. up'.pc \in AtHome \cup {"push", "wait"} => Served(up.md, lost)'
  BY DEF Served
<1>6. Untouched(meta)' /\ Untouched(rename.md)' /\ Untouched(up.md)'
  BY DEF Untouched
<1>7. Placed(lost)'
  BY <1>4, <1>5, <1>6 DEF Placed
<1> QED
  BY <1>1, <1>2, <1>7 DEF Kept, Complete, HasChunks, Clean

(* Nothing this invariant is about changes.                                *)
LEMMA KeptFrame ==
    ASSUME NEW lost, Kept(lost),
           UNCHANGED <<meta, local, held, net, task, rename, remove, gen>>
    PROVE  Kept(lost)'
  BY
     DEF Kept, up, Complete, HasChunks, EncodedOnce, Writing, Clean, Encoded,
            NamesShards, Pending,
         Heard, Ahead, Placed, Served, Untouched, Sent, PathOf

(* The worker thread's steps: no metadata lists a shard yet, and nothing   *)
(* is on its way.                                                          *)
LEMMA KeptEncode ==
    ASSUME Calm, Settled, NEW lost, Kept(lost), Encoding("upload")
    PROVE  Kept(lost)'
<1>1. TypeInv /\ Writing /\ "encoderfails" \notin Events
  BY DEF Settled, Kept, EncodedOnce, Calm
<1>2. /\ ~Encoded /\ Writing' /\ up'.md = up.md
      /\ up.pc \in {"queued", "encode", "encrypt"}
      /\ up'.pc \in {"encode", "encrypt", "merge"}
      /\ UNCHANGED <<meta, net, held, rename, remove>>
      /\ Encoded' => up'.pc = "merge" /\ up'.gen # 0
      /\ up'.pc = "merge" /\ up'.gen # 0 =>
            up'.ok /\ up'.gen = 1 /\ \A i \in Shard : local'[<<"upload", i>>] = 1
      /\ up'.pc = "merge" /\ up'.ok => up'.gen # 0
  BY <1>1, WritingStep
<1>3. EncodedOnce' /\ Clean'
  BY <1>2 DEF EncodedOnce, Clean
<1>4. net = {}
  BY <1>2 DEF Settled, HeldInv, AtHome
<1>5. ASSUME NEW md, ~NamesShards(md), Complete(md)
      PROVE  Served(md, lost)' /\ Untouched(md)' /\ Complete(md)'
  BY <1>2, <1>4, <1>5 DEF NamesShards, Served, Untouched, Complete, HasChunks
<1>6. /\ ~NamesShards(meta) /\ ~NamesShards(rename.md) /\ ~NamesShards(up.md)
      /\ Complete(meta) /\ Complete(rename.md) /\ Complete(up.md)
  BY <1>2 DEF Encoded, Kept
<1>7. ASSUME NEW md, md = meta PROVE (Served(md, lost) /\ Untouched(md) /\ Complete(md))'
  BY <1>5, <1>6, <1>7
<1>8. ASSUME NEW md, md = rename.md PROVE (Served(md, lost) /\ Untouched(md) /\ Complete(md))'
  BY <1>5, <1>6, <1>8
<1>9. ASSUME NEW md, md = up.md PROVE (Served(md, lost) /\ Untouched(md) /\ Complete(md))'
  BY <1>5, <1>6, <1>9
<1>10. Placed(lost)' /\ Complete(meta)' /\ Complete(rename.md)' /\ Complete(up.md)'
  BY <1>2, <1>7, <1>8, <1>9 DEF Placed, Served, Untouched, Complete, HasChunks
<1>11. Pending' /\ Heard(lost)' /\ Ahead'
  BY <1>2, <1>4 DEF Pending, Heard, Ahead
<1> QED
  BY <1>2, <1>3, <1>10, <1>11 DEF Kept

(* The shard under way is sent.                                            *)
LEMMA KeptPush ==
    ASSUME Settled, NEW lost, Kept(lost), PushShard("upload"),
           UNCHANGED <<rename, remove, held>>
    PROVE  Kept(lost)'
<1> USE DEF disk, peers, history
<1>1. PICK i \in ToSend("upload") :
          /\ net' = net \cup {[by |-> "upload", to |-> up.plan[i],
                               file |-> PathOf(up.md, i),
                               gen |-> local[PathOf(up.md, i)]]}
          /\ task' = [task EXCEPT !["upload"] =
                        [@ EXCEPT !.pc = "wait", !.next = i,
                                  !.sent = local[PathOf(up.md, i)],
                                  !.reply = Absent]]
  BY DEF PushShard, up
<1>2. /\ i \in Shard /\ up.plan[i] \in Peer /\ up.md.chunks[i].base = "upload"
      /\ up \in TaskState
  BY ToSendType DEF Settled, OneTask, OnlyUpload, up, Task, TypeInv, TypeOK
<1>3. PathOf(up.md, i) = <<"upload", i>>
  BY <1>2 DEF PathOf
<1>4. local[<<"upload", i>>] = 1
  BY <1>2, <1>3 DEF ToSend, Kept, Clean, Encoded, NamesShards, up
<1>5. i >= up.next /\ i \in Nat /\ up.next \in Nat
  BY <1>2, ConstantFacts DEF ToSend, up, TaskState
<1>6. /\ up.pc = "push" /\ up'.pc = "wait" /\ up'.next = i /\ up'.sent = 1
      /\ up'.reply = Absent /\ up'.md = up.md /\ up'.plan = up.plan
      /\ meta' = meta /\ local' = local /\ gen' = gen
  BY <1>1, <1>2, <1>3, <1>4 DEF PushShard, up, Settled, TypeInv, TypeOK, TaskState, Task
<1> DEFINE new == [by |-> "upload", to |-> up.plan[i], file |-> <<"upload", i>>, gen |-> 1]
<1>7. net' = net \cup {new}
  BY <1>1, <1>3, <1>4
<1>8. Sent("upload")' = new
  BY <1>2, <1>6 DEF Sent, up, PathOf
<1>9. Pending'
  <2> SUFFICES ASSUME NEW m \in net'
               PROVE  m.by = "upload" /\ m.file[1] = "upload"
                      /\ (m.file[2] < i \/ m = Sent("upload")')
    BY <1>6 DEF Pending
  <2>1. CASE m \in net
    <3>1. m.file[2] < up.next /\ m.file[2] \in Nat /\ m.by = "upload" /\ m.file[1] = "upload"
      BY <1>6, <2>1, ConstantFacts
         DEF Kept, Pending, Settled, TypeInv, TypeOK, Push, File
    <3> QED
      BY <1>5, <3>1
  <2>2. CASE m = new
    BY <1>8, <2>2
  <2> QED
    BY <1>7, <2>1, <2>2
<1>10. Heard(lost)'
  BY <1>2, <1>6 DEF Heard
<1>11. \A k \in Shard : k \in Nat
  BY ConstantFacts
<1>12. Ahead'
  BY <1>5, <1>6, <1>11 DEF Kept, Ahead
<1>13. up.md.chunks[i].peer = Here
  BY <1>2, <1>5, <1>6 DEF Kept, Ahead
<1>14. Untouched(up.md)'
  <2>1. Untouched(up.md)
    BY <1>6 DEF Kept, Placed
  <2> QED
    BY <1>6, <1>7, <1>13, <2>1 DEF Untouched
<1>15. Served(up.md, lost)'
  BY <1>6 DEF Kept, Placed, Served
<1>16. EncodedOnce' /\ Clean'
  BY <1>6 DEF EncodedOnce, Writing, Kept, Clean, Encoded, NamesShards
<1> QED
  BY <1>6, <1>9, <1>10, <1>12, <1>14, <1>15, <1>16 DEF Kept, Placed, Complete, HasChunks

(* The peer has it: the metadata says so from now on, and no message is    *)
(* left that could change what the peer holds.                             *)
LEMMA KeptDrop ==
    ASSUME Settled, NEW lost, Kept(lost), DropLocal("upload"),
           UNCHANGED <<rename, remove, held>>
    PROVE  Kept(lost)'
<1> USE DEF disk, peers, history
<1> DEFINE j == up.next
<1>1. /\ up.pc = "wait" /\ up.reply # Absent /\ up.reply = up.sent /\ up \in TaskState
      /\ meta' = meta /\ net' = net /\ gen' = gen
  BY DEF DropLocal, DigestMatches, up, Settled, TypeInv, TypeOK, Task
<1>2. /\ j \in Shard /\ j \in Nat /\ up.plan[j] \in Peer /\ up.plan[j] # Here
      /\ up.md \in Metadata /\ up.md.chunks[j].base = "upload"
      /\ PathOf(up.md, j) = <<"upload", j>>
  BY <1>1, ConstantFacts, ShardsAssumption
     DEF Settled, TypeInv, Waiting, up, Task, Kept, Heard, PathOf, TaskState
<1>3. up.sent = 1 /\ (j \notin lost => held[up.plan[j]][<<"upload", j>>] = 1)
  BY <1>1 DEF Kept, Heard
<1>4. /\ up'.pc = "push" /\ up'.next = j + 1 /\ up'.md = HandedOver("upload")
  BY DEF DropLocal, NextShard, up, Settled, TypeInv, TypeOK, TaskState, Task
<1>5. local' \in {local, [local EXCEPT ![<<"upload", j>>] = Absent]}
  BY <1>2 DEF DropLocal, up
<1>6. /\ \A i \in Shard \ {j} : up'.md.chunks[i] = up.md.chunks[i]
      /\ up'.md.chunks[j].base = "upload"
      /\ up'.md.chunks[j].peer = up.plan[j]
      /\ up'.md.chunks[j].digest = 1
      /\ up'.md.status = up.md.status
  BY <1>2, <1>3, <1>4 DEF HandedOver, up, Metadata, Chunk
<1>7. \A i \in Shard : i # j => local'[<<"upload", i>>] = local[<<"upload", i>>]
  BY <1>5 DEF Settled, TypeInv, TypeOK, File, Task
<1>8. Clean' /\ EncodedOnce'
  <2>1. Encoded
    BY <1>1, <1>2 DEF Encoded, NamesShards
  <2>2. \A i \in Shard : local[<<"upload", i>>] \in {Absent, 1}
    BY <2>1 DEF Kept, Clean
  <2>3. local'[<<"upload", j>>] \in {Absent, 1}
    BY <1>2, <1>5, <2>2 DEF File, Task, Settled, TypeInv, TypeOK
  <2> QED
    BY <1>4, <1>7, <2>2, <2>3 DEF Clean, EncodedOnce, Writing
<1>9. \A m \in net : m.file[2] \in Shard /\ m.file[2] \in Nat /\ m.file[2] < j
  <2> SUFFICES ASSUME NEW m \in net
               PROVE  m.file[2] \in Shard /\ m.file[2] \in Nat /\ m.file[2] < j
    OBVIOUS
  <2>1. m.file[2] \in Shard /\ m.file[2] \in Nat
    BY ConstantFacts DEF Settled, TypeInv, TypeOK, Push, File
  <2> QED
    BY <1>1, <2>1 DEF Kept, Pending
<1>10. Pending'
  BY <1>1, <1>2, <1>4, <1>9 DEF Kept, Pending
<1>11. Heard(lost)'
  BY <1>4 DEF Heard
<1>12. Ahead'
  <2> SUFFICES ASSUME NEW i \in Shard, i >= j + 1 PROVE up'.md.chunks[i].peer = Here
    BY <1>4 DEF Ahead
  <2>1. i \in Nat /\ i # j /\ i >= j
    BY <1>2, ConstantFacts
  <2> QED
    BY <1>1, <1>6, <2>1 DEF Kept, Ahead
<1>13. Untouched(up.md)'
  <2>1. Untouched(up.md)
    BY <1>1 DEF Kept, Placed
  <2> SUFFICES ASSUME NEW m \in net PROVE up'.md.chunks[m.file[2]].peer = Here
    BY <1>1 DEF Untouched
  <2>2. m.file[2] \in Shard \ {j}
    BY <1>2, <1>9
  <2> QED
    BY <1>6, <2>1, <2>2 DEF Untouched
<1>14. Served(up.md, lost)'
  <2>1. Served(up.md, lost)
    BY <1>1 DEF Kept, Placed
  <2> SUFFICES ASSUME NEW i \in Shard \ lost, up'.md.chunks[i].base = "upload"
               PROVE  \/ up'.md.chunks[i].peer = Here /\ local'[<<"upload", i>>] = 1
                      \/ /\ up'.md.chunks[i].peer # Here
                         /\ up'.md.chunks[i].digest = 1
                         /\ held'[up'.md.chunks[i].peer][<<"upload", i>>] = 1
    BY DEF Served
  <2>2. CASE i = j
    BY <1>2, <1>3, <1>6, <2>2
  <2>3. CASE i # j
    BY <1>6, <1>7, <2>1, <2>3 DEF Served
  <2> QED
    BY <2>2, <2>3
<1>15. Complete(meta)' /\ Complete(rename.md)' /\ Complete(up.md)'
  <2>1. \A i \in Shard : up'.md.chunks[i].base = up.md.chunks[i].base
    BY <1>2, <1>6
  <2> QED
    BY <1>1, <1>6, <2>1 DEF Kept, Complete, HasChunks
<1> QED
  BY <1>1, <1>4, <1>8, <1>10, <1>11, <1>12, <1>13, <1>14, <1>15 DEF Kept, Placed

(* The shard stays here.                                                   *)
LEMMA KeptGiveUp ==
    ASSUME Settled, NEW lost, Kept(lost), KeepAfterFailure("upload"),
           UNCHANGED <<rename, remove, held>>
    PROVE  Kept(lost)'
<1> USE DEF disk, peers, history
<1>1. /\ up.pc = "wait" /\ up'.pc = "push" /\ up'.next = up.next + 1 /\ up'.md = up.md
      /\ meta' = meta /\ local' = local /\ net' \subseteq net /\ gen' = gen
  BY DEF KeepAfterFailure, NextShard, up, Settled, TypeInv, TypeOK, TaskState, Task
<1>2. up.next \in Nat /\ up.md.chunks[up.next].base = "upload"
  BY <1>1, ConstantFacts DEF Settled, TypeInv, Waiting, up, Task, Kept, Heard
<1>3. Sent("upload").file = <<"upload", up.next>>
  BY <1>2 DEF Sent, up, PathOf
<1>4. Pending'
  <2> SUFFICES ASSUME NEW m \in net
               PROVE  m.by = "upload" /\ m.file[1] = "upload" /\ m.file[2] < up.next + 1
    BY <1>1 DEF Pending
  <2>1. m.file[2] \in Nat
    BY ConstantFacts DEF Settled, TypeInv, TypeOK, Push, File
  <2> QED
    BY <1>1, <1>2, <1>3, <2>1 DEF Kept, Pending
<1>5. Heard(lost)'
  BY <1>1 DEF Heard
<1>6. Ahead'
  <2> SUFFICES ASSUME NEW i \in Shard, i >= up.next + 1 PROVE up.md.chunks[i].peer = Here
    BY <1>1 DEF Ahead
  <2>1. i \in Nat /\ i >= up.next
    BY <1>2, ConstantFacts
  <2> QED
    BY <1>1, <2>1 DEF Kept, Ahead
<1>7. Served(up.md, lost)' /\ Untouched(up.md)'
  BY <1>1 DEF Kept, Placed, Served, Untouched
<1>8. EncodedOnce' /\ Clean'
  BY <1>1 DEF EncodedOnce, Writing, Kept, Clean, Encoded, NamesShards
<1> QED
  BY <1>1, <1>4, <1>5, <1>6, <1>7, <1>8 DEF Kept, Placed, Complete, HasChunks

LEMMA KeptPipeline ==
    ASSUME Calm, Settled, NEW lost, Kept(lost), NEW t \in Task, Pipeline(t)
    PROVE  Kept(lost)'
<1> USE DEF disk, peers, history
<1>1. /\ t = "upload" /\ up \in TaskState /\ meta \in Metadata
      /\ UNCHANGED <<rename, remove, held>>
  BY OnlyUploadRuns DEF Settled, OneTask, TypeInv, TypeOK
<1>2. up.pc \in AtHome => net = {}
  BY DEF Settled, HeldInv
<1>3. /\ Complete(meta) /\ Complete(rename.md) /\ Complete(up.md) /\ EncodedOnce
  BY DEF Kept
<1>4. up.pc \in AtHome => Served(meta, lost) /\ Served(rename.md, lost) /\ Served(up.md, lost)
  BY DEF Kept, Placed, AtHome
<1>5. CASE Encoding(t)
  BY <1>1, <1>5, KeptEncode
<1>7. CASE MergeMetadata(t)
  <2>1. /\ up.pc = "merge" /\ up'.pc = "write"
        /\ up'.md = IF up.ok THEN Merged("upload") ELSE Failed
        /\ UNCHANGED <<meta, local, net, gen>>
    BY <1>1, <1>7 DEF MergeMetadata, up, Settled, TypeInv, TypeOK, TaskState, Task
  <2>2. Complete(up'.md) /\ Served(up'.md, lost)
    <3>1. CASE up.ok
      <4>1. up'.md.chunks = FreshChunks("upload")
        BY <1>3, <2>1, <3>1 DEF EncodedOnce, Merged, up
      <4>2. \A i \in Shard : local[<<"upload", i>>] = 1
        BY <1>3, <2>1, <3>1 DEF EncodedOnce
      <4> QED
        BY <4>1, <4>2 DEF Complete, HasChunks, Served, FreshChunks
    <3>2. CASE ~up.ok
      <4>1. up'.md.chunks = meta.chunks /\ up'.md.status = "error"
        BY <1>1, <2>1, <3>2 DEF Failed, Metadata
      <4> QED
        BY <1>3, <1>4, <2>1, <4>1 DEF Complete, HasChunks, Served, AtHome
    <3> QED
      BY <3>1, <3>2
  <2>3. EncodedOnce'
    BY <2>1 DEF EncodedOnce, Writing
  <2>4. Encoded' => Encoded
    <3>1. up.ok => up.gen # 0
      BY <1>3, <2>1 DEF EncodedOnce
    <3>2. ~up.ok => (NamesShards(up'.md) => NamesShards(meta))
      BY <1>1, <2>1 DEF Failed, Metadata, NamesShards
    <3> QED
      BY <1>1, <2>1, <3>1, <3>2 DEF Encoded, NamesShards
  <2> QED
    BY <1>1, <1>2, <1>3, <1>4, <2>1, <2>2, <2>3, <2>4, KeptStill DEF AtHome
<1>8. CASE WriteMetadata(t)
  <2>1. /\ meta' \in {up.md, meta} /\ up.pc = "write" /\ up'.pc \in {"place", "done"}
        /\ up'.md = up.md /\ UNCHANGED <<local, net, gen>>
    BY <1>1, <1>8 DEF WriteMetadata, up, Settled, TypeInv, TypeOK, TaskState, Task
  <2>2. EncodedOnce' /\ (Encoded' => Encoded)
    BY <1>1, <2>1 DEF EncodedOnce, Writing, Encoded, NamesShards
  <2>3. Served(meta', lost) /\ Complete(meta')
    BY <1>3, <1>4, <2>1 DEF AtHome
  <2> QED
    BY <1>1, <1>2, <1>3, <1>4, <2>1, <2>2, <2>3, KeptStill DEF AtHome
<1>9. CASE SkipDistribution(t)
  <2>1. /\ up.pc = "place" /\ up'.pc = "done" /\ up'.md = up.md
        /\ UNCHANGED <<meta, local, net, gen>>
    BY <1>1, <1>9 DEF SkipDistribution, up, Settled, TypeInv, TypeOK, TaskState, Task
  <2>2. EncodedOnce' /\ (Encoded' => Encoded)
    BY <1>1, <2>1 DEF EncodedOnce, Writing, Encoded, NamesShards
  <2> QED
    BY <1>1, <1>2, <1>3, <1>4, <2>1, <2>2, KeptStill DEF AtHome
<1>10. CASE DistributeShards(t)
  <2>1. /\ up.pc = "place" /\ up'.pc = "push" /\ up'.md = meta
        /\ UNCHANGED <<meta, local, net, gen>>
    BY <1>1, <1>10 DEF DistributeShards, up, Settled, TypeInv, TypeOK, TaskState, Task
  <2>2. EncodedOnce' /\ AllHere(up'.md) /\ (Encoded' => Encoded)
    BY <1>1, <2>1
       DEF EncodedOnce, Writing, Encoded, NamesShards, Settled, CapInv, AtHome,
                      AllHere
  <2> QED
    BY <1>1, <1>2, <1>3, <1>4, <2>1, <2>2, KeptStill DEF AtHome
<1>11. CASE PushShard(t)
  BY <1>1, <1>11, KeptPush
<1>12. CASE DropLocal(t)
  BY <1>1, <1>12, KeptDrop
<1>13. CASE KeepAfterFailure(t)
  BY <1>1, <1>13, KeptGiveUp
<1>14. ~PushRaises(t)
  BY DEF PushRaises, Calm
<1>15. CASE PublishPlacement(t)
  <2>1. /\ up.pc = "push" /\ meta' = up.md /\ up'.pc = "done" /\ up'.md = up.md
        /\ UNCHANGED <<local, net, gen>>
    BY <1>1, <1>15 DEF PublishPlacement, up, Settled, TypeInv, TypeOK, TaskState, Task
  <2>2. rename.md = NoMetadata
    BY <1>1, <1>15 DEF PublishPlacement, OnLoop, Settled, RenameHolds, TypeInv, TypeOK
  <2>3. Served(NoMetadata, lost)' /\ Untouched(NoMetadata)'
    <3>1. \A i \in Shard : NoMetadata.chunks[i].base = "none" /\ NoMetadata.chunks[i].peer = Here
      BY DEF NoMetadata, NoChunks
    <3>2. \A m \in net : m.file[2] \in Shard
      BY DEF Settled, TypeInv, TypeOK, Push, File
    <3> QED
      BY <2>1, <3>1, <3>2 DEF Served, Untouched
  <2>4. Served(meta, lost)' /\ Untouched(meta)'
    BY <1>1, <2>1 DEF Kept, Placed, Served, Untouched
  <2>5. Served(rename.md, lost)' /\ Untouched(rename.md)'
    BY <1>1, <2>2, <2>3
  <2>6. Placed(lost)'
    BY <2>1, <2>4, <2>5 DEF Placed, AtHome
  <2>7. Pending' /\ Heard(lost)' /\ Ahead' /\ EncodedOnce' /\ Clean'
    BY <1>1, <2>1 DEF Kept, Pending, Heard, Ahead, EncodedOnce, Writing, Clean, Encoded,
                      NamesShards
  <2> QED
    BY <1>1, <1>3, <2>1, <2>6, <2>7 DEF Kept, Complete, HasChunks
<1> QED
  BY <1>5, <1>7, <1>8, <1>9, <1>10, <1>11, <1>12, <1>13, <1>14, <1>15
     DEF Pipeline, Encoding

(* A message arrives: at a shard that no metadata lists at a peer, or at   *)
(* the one the upload waits for.                                           *)
LEMMA ServedReceive ==
    ASSUME TypeInv, NEW lost, NEW md, NEW m \in net, ReceiveShard(m),
           Served(md, lost), Untouched(md)
    PROVE  Served(md, lost)' /\ Untouched(md)'
<1> USE DEF disk, peers, history
<1>1. m.to \in Peer /\ m.file \in File /\ net' \subseteq net /\ local' = local
  BY DEF TypeInv, TypeOK, Push, ReceiveShard
<1>2. \A p \in Peer, f \in File : held'[p][f] # held[p][f] => p = m.to /\ f = m.file
  <2>1. PICK stored : held' = [held EXCEPT ![m.to][m.file] = stored]
    BY DEF ReceiveShard
  <2> QED
    BY <1>1, <2>1 DEF TypeInv, TypeOK
<1>3. ASSUME NEW i \in Shard \ lost, md.chunks[i].peer # Here,
             held[md.chunks[i].peer][<<"upload", i>>] = 1
      PROVE  held'[md.chunks[i].peer][<<"upload", i>>] = 1
  <2>1. <<"upload", i>> # m.file
    BY <1>3 DEF Untouched
  <2> QED
    BY <1>1, <1>3, <2>1 DEF ReceiveShard, TypeInv, TypeOK
<1>4. Served(md, lost)'
  BY <1>1, <1>3 DEF Served
<1> QED
  BY <1>1, <1>4 DEF Untouched

LEMMA KeptReceive ==
    ASSUME Settled, NEW lost, Kept(lost), NEW m \in net, ReceiveShard(m)
    PROVE  Kept(lost)'
<1> USE DEF disk, peers, history
<1>1. TypeInv /\ m.by = "upload" /\ m.to \in Peer /\ m.file \in File
  BY DEF Settled, TypeInv, TypeOK, Push, Kept, Pending
<1>2. /\ net' = net \ {m} /\ UNCHANGED <<meta, local, rename, remove, gen>>
      /\ up'.pc = up.pc /\ up'.md = up.md /\ up'.plan = up.plan /\ up'.next = up.next
      /\ up'.sent = up.sent /\ up'.ok = up.ok /\ up'.gen = up.gen
      /\ up'.reply # up.reply => up.pc = "wait" /\ m = Sent("upload")
  BY <1>1 DEF ReceiveShard, up, Settled, TypeInv, TypeOK, TaskState, Task
<1>3. Sent("upload")' = Sent("upload")
  BY <1>2 DEF Sent, up, PathOf
<1>4. Pending'
  BY <1>2, <1>3 DEF Kept, Pending
<1>5. Heard(lost)'
  <2> SUFFICES ASSUME up.pc = "wait", up.next \notin lost, up'.reply # Absent
               PROVE  held'[up.plan[up.next]][<<"upload", up.next>>] = up'.reply
    BY <1>2 DEF Kept, Heard
  <2>1. /\ up.next \in Shard /\ up.next \in Nat /\ up.plan[up.next] \in Peer
        /\ up.md.chunks[up.next].base = "upload"
    BY ConstantFacts DEF Settled, TypeInv, Waiting, up, Task, Kept, Heard
  <2>2. <<"upload", up.next>> \in File
    BY <2>1 DEF File, Task
  <2>3. CASE m = Sent("upload")
    <3>1. m.to = up.plan[up.next] /\ m.file = <<"upload", up.next>>
      BY <2>1, <2>3 DEF Sent, up, PathOf
    <3>2. PICK stored : /\ held' = [held EXCEPT ![m.to][m.file] = stored]
                        /\ task' = [task EXCEPT !["upload"].reply = stored]
      BY <1>1, <2>3 DEF ReceiveShard, up
    <3>3. up'.reply = stored
      BY <3>2 DEF up, Settled, TypeInv, TypeOK, TaskState, Task
    <3> QED
      BY <1>1, <3>1, <3>2, <3>3 DEF Settled, TypeInv, TypeOK
  <2>4. CASE m # Sent("upload")
    <3>1. up'.reply = up.reply
      BY <1>2, <2>4
    <3>2. m.file[2] < up.next /\ m.file[2] \in Nat
      BY <1>1, <2>4, ConstantFacts DEF Kept, Pending, File
    <3>3. m.file # <<"upload", up.next>>
      BY <2>1, <3>2
    <3>4. PICK stored : held' = [held EXCEPT ![m.to][m.file] = stored]
      BY DEF ReceiveShard
    <3>5. held'[up.plan[up.next]][<<"upload", up.next>>]
            = held[up.plan[up.next]][<<"upload", up.next>>]
      BY <1>1, <2>1, <2>2, <3>3, <3>4 DEF Settled, TypeInv, TypeOK
    <3> QED
      BY <3>1, <3>5 DEF Kept, Heard
  <2> QED
    BY <2>3, <2>4
<1>6. Placed(lost)'
  <2>1. up.pc \in AtHome \cup {"push", "wait"} => Served(up.md, lost)' /\ Untouched(up.md)'
    <3>1. ASSUME Served(up.md, lost), Untouched(up.md)
          PROVE  Served(up.md, lost)' /\ Untouched(up.md)'
      <4>1. PICK md : md = up.md
        OBVIOUS
      <4>2. Served(md, lost)' /\ Untouched(md)'
        BY <1>1, <3>1, <4>1, ServedReceive
      <4> QED
        BY <1>2, <4>1, <4>2 DEF Served, Untouched
    <3> QED
      BY <3>1 DEF Kept, Placed
  <2>2. up.pc \notin {"push", "wait"} => Served(meta, lost)' /\ Untouched(meta)'
    <3>1. ASSUME Served(meta, lost), Untouched(meta)
          PROVE  Served(meta, lost)' /\ Untouched(meta)'
      <4>1. PICK md : md = meta
        OBVIOUS
      <4>2. Served(md, lost)' /\ Untouched(md)'
        BY <1>1, <3>1, <4>1, ServedReceive
      <4> QED
        BY <1>2, <4>1, <4>2 DEF Served, Untouched
    <3> QED
      BY <3>1 DEF Kept, Placed
  <2>3. up.pc \notin {"push", "wait"} => Served(rename.md, lost)' /\ Untouched(rename.md)'
    <3>1. ASSUME Served(rename.md, lost), Untouched(rename.md)
          PROVE  Served(rename.md, lost)' /\ Untouched(rename.md)'
      <4>1. PICK md : md = rename.md
        OBVIOUS
      <4>2. Served(md, lost)' /\ Untouched(md)'
        BY <1>1, <3>1, <4>1, ServedReceive
      <4> QED
        BY <1>2, <4>1, <4>2 DEF Served, Untouched
    <3> QED
      BY <3>1 DEF Kept, Placed
  <2> QED
    BY <1>2, <2>1, <2>2, <2>3 DEF Placed
<1>7. EncodedOnce' /\ Clean'
  BY <1>2 DEF Kept, EncodedOnce, Writing, Clean, Encoded, NamesShards
<1> QED
  BY <1>2, <1>4, <1>5, <1>6, <1>7 DEF Kept, Ahead, Complete, HasChunks

(* A peer loses a shard: one more index is not counted on.                 *)
LEMMA KeptLoss ==
    ASSUME Settled, NEW lost, Kept(lost), NEW p \in Peer, NEW f \in File, PeerLosesShard(p, f)
    PROVE  Kept(lost \cup {f[2]})'
<1> USE DEF disk, peers, history
<1> DEFINE more == lost \cup {f[2]}
<1>1. /\ UNCHANGED <<meta, local, net, task, rename, remove, gen>>
      /\ held' = [held EXCEPT ![p][f] = Absent]
  BY DEF PeerLosesShard
<1>2. \A q \in Peer, i \in Shard \ more : held'[q][<<"upload", i>>] = held[q][<<"upload", i>>]
  <2> SUFFICES ASSUME NEW q \in Peer, NEW i \in Shard \ more
               PROVE  held'[q][<<"upload", i>>] = held[q][<<"upload", i>>]
    OBVIOUS
  <2>1. <<"upload", i>> # f /\ <<"upload", i>> \in File
    BY DEF File, Task
  <2> QED
    BY <1>1, <2>1 DEF Settled, TypeInv, TypeOK
<1>3. ASSUME NEW md \in Metadata, Served(md, lost), Untouched(md)
      PROVE  Served(md, more)' /\ Untouched(md)'
  <2>1. \A i \in Shard : md.chunks[i].peer \in Peer \cup {Here}
    BY DEF Metadata, Chunk, Site
  <2> HIDE DEF more
  <2> QED
    BY <1>1, <1>2, <1>3, <2>1 DEF Served, Untouched, more
<1>4. up \in TaskState /\ up.md \in Metadata /\ meta \in Metadata /\ rename.md \in Metadata
  BY DEF Settled, TypeInv, TypeOK, TaskState, up, Task
<1>5. up' = up
  BY <1>1 DEF up
<1>6. Placed(more)'
  <2>1. Served(up.md, lost) /\ Untouched(up.md) => Served(up.md, more)' /\ Untouched(up.md)'
    <3>1. PICK md \in Metadata : md = up.md
      BY <1>4
    <3> QED
      BY <1>3, <1>5, <3>1 DEF Served, Untouched
  <2>2. Served(meta, lost) /\ Untouched(meta) => Served(meta, more)' /\ Untouched(meta)'
    <3>1. PICK md \in Metadata : md = meta
      BY <1>4
    <3> QED
      BY <1>1, <1>3, <3>1 DEF Served, Untouched
  <2>3. Served(rename.md, lost) /\ Untouched(rename.md)
          => Served(rename.md, more)' /\ Untouched(rename.md)'
    <3>1. PICK md \in Metadata : md = rename.md
      BY <1>4
    <3> QED
      BY <1>1, <1>3, <3>1 DEF Served, Untouched
  <2> HIDE DEF more
  <2> QED
    BY <1>5, <2>1, <2>2, <2>3 DEF Kept, Placed
<1>7. Heard(more)'
  <2> SUFFICES ASSUME up.pc = "wait", up.next \notin more, up.reply # Absent
               PROVE  held'[up.plan[up.next]][<<"upload", up.next>>] = up.reply
    BY <1>5 DEF Kept, Heard
  <2>1. up.next \in Shard \ more /\ up.plan[up.next] \in Peer
    BY DEF Settled, TypeInv, Waiting, up, Task
  <2> QED
    BY <1>2, <2>1 DEF Kept, Heard
<1>8. Pending'
  BY <1>1, <1>5 DEF Kept, Pending, Sent, PathOf
<1>9. /\ Ahead' /\ EncodedOnce' /\ Clean'
      /\ Complete(meta)' /\ Complete(rename.md)' /\ Complete(up.md)'
      /\ (\A h \in Remover : remove[h].pc = "idle")'
  BY <1>1, <1>5
     DEF Kept, Ahead, EncodedOnce, Writing, Clean, Encoded, NamesShards, Complete,
            HasChunks
<1> QED
  BY <1>6, <1>7, <1>8, <1>9 DEF Kept

(* Every step that neither begins a delete nor loses a shard.              *)
LEMMA KeptStep ==
    ASSUME Calm, Settled, NEW lost, Kept(lost), [Next]_vars, ~DeleteFile,
           \A p \in Peer, f \in File : ~PeerLosesShard(p, f)
    PROVE  Kept(lost)'
<1> USE DEF disk, peers, history
<1>1. ~StartScan /\ ~Repairing
  BY NoRepairs DEF Calm, Settled, OneTask
<1>2. \A h \in Remover : ~Removing(h)
  BY DEF Removing, DropReplicas, RemoveShards, Kept
<1>3. CASE UploadFile
  <2>1. /\ meta' = [NoMetadata EXCEPT !.present = TRUE] /\ up.pc = "new"
        /\ up'.pc = "queued" /\ up'.md = up.md
        /\ up'.next = up.next /\ up'.gen = up.gen
        /\ UNCHANGED <<local, held, net, rename, remove, gen>>
    BY <1>3 DEF UploadFile, up, Settled, TypeInv, TypeOK, TaskState, Task
  <2>2. net = {}
    BY <2>1 DEF Settled, HeldInv, AtHome
  <2>3. Complete(meta') /\ Served(meta', lost)
    BY <2>1 DEF Complete, HasChunks, Served, NoMetadata, NoChunks
  <2>4. /\ Complete(rename.md) /\ Complete(up.md)
        /\ Served(up.md, lost) /\ Served(rename.md, lost)
    BY <2>1 DEF Kept, Placed, AtHome
  <2>5. ~NamesShards(meta')
    BY <2>1 DEF NamesShards, NoMetadata, NoChunks
  <2>6. EncodedOnce' /\ (Encoded' => Encoded)
    BY <2>1, <2>5 DEF Kept, EncodedOnce, Writing, Encoded, NamesShards
  <2> QED
    BY <2>1, <2>2, <2>3, <2>4, <2>6, KeptStill
<1>4. CASE RenameRead
  <2>1. /\ rename'.md.chunks = meta.chunks /\ rename'.md.status = meta.status
        /\ UNCHANGED <<meta, local, held, net, task, remove, gen>>
    BY <1>4 DEF RenameRead, Settled, TypeInv, TypeOK, Metadata
  <2>2. up' = up
    BY <2>1 DEF up
  <2>3. Placed(lost)'
    BY <2>1, <2>2 DEF Kept, Placed, Served, Untouched
  <2>4. Pending' /\ Heard(lost)' /\ Ahead' /\ EncodedOnce' /\ Clean'
    BY <2>1, <2>2 DEF Kept, Pending, Heard, Ahead, EncodedOnce, Writing, Clean, Encoded,
                      NamesShards, Sent, PathOf
  <2>5. Complete(meta)' /\ Complete(rename.md)' /\ Complete(up.md)'
    BY <2>1, <2>2 DEF Kept, Complete, HasChunks
  <2> QED
    BY <2>1, <2>3, <2>4, <2>5 DEF Kept
<1>5. CASE RenameWrite
  <2>1. /\ meta' = rename.md /\ rename'.md = NoMetadata
        /\ UNCHANGED <<local, held, net, task, remove, gen>>
    BY <1>5 DEF RenameWrite, IdleRename
  <2>2. up' = up
    BY <2>1 DEF up
  <2>3. Complete(NoMetadata) /\ Served(NoMetadata, lost) /\ Untouched(NoMetadata)
    <3>1. \A m \in net : m.file[2] \in Shard
      BY DEF Settled, TypeInv, TypeOK, Push, File
    <3> QED
      BY <3>1 DEF Complete, HasChunks, Served, Untouched, NoMetadata, NoChunks
  <2>4. Placed(lost)'
    BY <2>1, <2>2, <2>3 DEF Kept, Placed, Served, Untouched
  <2>5. Pending' /\ Heard(lost)' /\ Ahead' /\ EncodedOnce' /\ Clean'
    BY <2>1, <2>2, NoNames DEF Kept, Pending, Heard, Ahead, EncodedOnce, Writing, Clean,
                               Encoded, NamesShards, Sent, PathOf
  <2>6. Complete(meta)' /\ Complete(rename.md)' /\ Complete(up.md)'
    BY <2>1, <2>2, <2>3 DEF Kept, Complete, HasChunks
  <2> QED
    BY <2>1, <2>4, <2>5, <2>6 DEF Kept
<1>6. CASE ReadFile \/ Reading
  BY <1>6, KeptFrame
     DEF ReadFile, Reading, ServeRange, GatherAll, FinishRead, FetchShard
<1>7. CASE Crash
  <2>1. /\ UNCHANGED <<meta, local, held, net, gen>> /\ up.pc \in Rest
        /\ rename'.md = NoMetadata /\ up'.md = NoMetadata /\ up'.pc = "dead"
        /\ \A h \in Remover : remove'[h].pc = "idle"
    BY <1>7, DeadType DEF Settled, TypeInv, Crash, IdleRename, IdleRemove, Calm, up
  <2>2. Complete(NoMetadata) /\ Served(NoMetadata, lost) /\ Untouched(NoMetadata)
    <3>1. \A m \in net : m.file[2] \in Shard
      BY DEF Settled, TypeInv, TypeOK, Push, File
    <3> QED
      BY <3>1 DEF Complete, HasChunks, Served, Untouched, NoMetadata, NoChunks
  <2>3. Placed(lost)'
    BY <2>1, <2>2 DEF Kept, Placed, Served, Untouched, Rest, AtHome
  <2>4. Pending' /\ Heard(lost)' /\ Ahead' /\ EncodedOnce' /\ Clean'
    BY <2>1, NoNames
       DEF Kept, Pending, Heard, Ahead, EncodedOnce, Writing, Clean, Encoded
  <2>5. Complete(meta)' /\ Complete(rename.md)' /\ Complete(up.md)'
    BY <2>1, <2>2 DEF Kept, Complete, HasChunks
  <2> QED
    BY <2>1, <2>3, <2>4, <2>5 DEF Kept
<1>8. CASE (Environment /\ ~Crash) \/ UNCHANGED vars
  BY <1>8, KeptFrame DEF Environment, PeerOffline, PeerOnline, vars
<1> QED
  BY <1>1, <1>2, <1>3, <1>4, <1>5, <1>6, <1>7, <1>8, KeptPipeline, KeptReceive
     DEF Next, Requests

-----------------------------------------------------------------------------
(* The three outcomes: the shards are where they should be; a delete began *)
(* and nobody has asked for a promise since; or, when requests only come   *)
(* to files at rest, the file is gone for good.                            *)

KeptInv == \E lost \in SUBSET Shard : Cardinality(lost) <= losses /\ Kept(lost)
Gone == ~meta.present /\ rename.pc = "idle" /\ up.pc \in Rest
Leaving == remove["delete"].pc # "idle"

FileInv ==
    \/ KeptInv
    \/ IF Window \subseteq Rest THEN Gone ELSE "delete" \in Events /\ Leaving

(* A file that is gone is not renamed and not uploaded again.              *)
LEMMA GoneStep ==
    ASSUME "repair" \notin Events, Settled, Gone, [Next]_vars
    PROVE  Gone'
<1> USE DEF disk, peers, history
<1>1. ~StartScan /\ ~Repairing
  BY NoRepairs DEF Settled, OneTask
<1>2. ~UploadFile /\ ~RenameRead /\ ~RenameWrite /\ ~DeleteFile /\ ~ReadFile
  BY DEF UploadFile, RenameRead, RenameWrite, DeleteFile, ReadFile, Gone, up, Rest
<1>3. ASSUME NEW t \in Task, Pipeline(t) PROVE FALSE
  <2>1. t = "upload"
    BY <1>3, OnlyUploadRuns DEF Settled, OneTask
  <2> QED
    BY <1>3, <2>1
       DEF Pipeline, StartEncoding, WriteShard, FinishEncoder, EncryptShard,
              FinishEncryption,
         EncoderFails, EncodingRaises, MergeMetadata, WriteMetadata,
       SkipDistribution, DistributeShards, PushShard, DropLocal, KeepAfterFailure,
       PushRaises, PublishPlacement, up, Rest, Gone
<1>4. ASSUME NEW m \in net, ReceiveShard(m) PROVE Gone'
  <2>1. m.by \in Task
    BY DEF Settled, TypeInv, TypeOK, Push
  <2>2. up'.pc = up.pc /\ UNCHANGED <<meta, rename>>
    BY <1>4, <2>1 DEF ReceiveShard, up, Settled, TypeInv, TypeOK, TaskState, Task
  <2> QED
    BY <2>2 DEF Gone
<1>5. CASE Reading
  BY <1>5
     DEF Reading, StartGather, ServeRange, GatherAll, FinishRead, FetchShard, Gone, up
<1>6. ASSUME NEW h \in Remover, Removing(h) PROVE Gone'
  BY <1>6 DEF Removing, DropReplicas, RemoveShards, Gone, up
<1>7. CASE Crash
  <2>1. meta' = meta /\ rename'.pc = "idle" /\ up'.pc = "dead"
    BY <1>7, DeadType DEF Settled, TypeInv, Crash, IdleRename
  <2> QED
    BY <2>1 DEF Gone, Rest
<1>8. CASE (Environment /\ ~Crash) \/ UNCHANGED vars
  BY <1>8 DEF Environment, PeerOffline, PeerOnline, PeerLosesShard, vars, Gone, up
<1> QED
  BY <1>1, <1>2, <1>3, <1>4, <1>5, <1>6, <1>7, <1>8 DEF Next, Requests

(* A delete that began is not taken back while the node is up.             *)
LEMMA LeavingStep ==
    ASSUME Settled, Leaving, [Next]_vars, ~Crash
    PROVE  Leaving'
<1> USE DEF disk, peers, history
<1>1. CASE UNCHANGED remove
  BY <1>1 DEF Leaving
<1>2. CASE DeleteFile \/ PurgeUnrecoverable
  BY <1>2
     DEF DeleteFile, PurgeUnrecoverable, RetireMetadata, Leaving, Settled, TypeInv,
            TypeOK,
              Remover
<1>3. ASSUME NEW h \in Remover, Removing(h) PROVE Leaving'
  BY <1>3
     DEF Removing, DropReplicas, RemoveShards, Leaving, Settled, TypeInv, TypeOK,
            Remover,
              RemoveState
<1>4. ASSUME Next, ~DeleteFile, ~PurgeUnrecoverable, \A h \in Remover : ~Removing(h)
      PROVE  UNCHANGED remove
  BY <1>4 DEF Next, Requests, UploadFile, RenameRead, ReadFile, StartScan, Pipeline,
     StartEncoding, WriteShard, FinishEncoder, EncryptShard, FinishEncryption,
         EncoderFails, EncodingRaises, MergeMetadata, WriteMetadata, SkipDistribution,
     DistributeShards, PushShard, DropLocal, KeepAfterFailure, PushRaises,
     PublishPlacement, ReceiveShard, RenameWrite, Reading, ServeRange, GatherAll,
     FinishRead, FetchShard,
     Repairing, AssessLocal, ProbePeer, Classify, LeaveAlone, StartRebuild,
     AbandonRebuild,
     ReplaceShards, FinishRebuild, PurgeOrphan, Environment, PeerOffline, PeerOnline,
     PeerLosesShard
<1> QED
  BY <1>1, <1>2, <1>3, <1>4 DEF vars

(* One shard more is not counted on, for one loss more.                    *)
LEMMA OneMoreLost ==
    ASSUME NEW lost \in SUBSET Shard, NEW i \in Shard, NEW n \in Nat, Cardinality(lost) <= n
    PROVE  lost \cup {i} \in SUBSET Shard /\ Cardinality(lost \cup {i}) <= n + 1
<1>1. IsFiniteSet(lost)
  <2>1. IsFiniteSet(Shard)
    BY FS_Interval, ShardsAssumption DEF Shard, Total
  <2> QED
    BY <2>1, FS_Subset
<1>2. Cardinality(lost) \in Nat
  BY <1>1, FS_CardinalityType
<1>3. Cardinality(lost \cup {i}) \in {Cardinality(lost), Cardinality(lost) + 1}
  BY <1>1, FS_AddElement
<1> QED
  BY <1>2, <1>3

(* All shards but n of them are left.                                      *)
LEMMA EnoughLeft ==
    ASSUME NEW lost \in SUBSET Shard, NEW n \in Nat, Cardinality(lost) <= n,
           NEW left \in SUBSET Shard, Shard \ lost \subseteq left
    PROVE  Cardinality(left) + n >= Total /\ Cardinality(left) \in Nat
<1>1. IsFiniteSet(Shard) /\ Cardinality(Shard) = Total
  <2>1. Total \in Nat \ {0} /\ 0 \in Int /\ Total - 1 \in Int /\ ~(0 > Total - 1)
    BY ShardsAssumption DEF Total
  <2>2. IsFiniteSet(0..(Total - 1)) /\ Cardinality(0..(Total - 1)) = (Total - 1) - 0 + 1
    BY <2>1, FS_Interval
  <2> QED
    BY <2>1, <2>2 DEF Shard
<1>2. IsFiniteSet(lost) /\ IsFiniteSet(left)
  BY <1>1, FS_Subset
<1>3. lost \cup left = Shard
  OBVIOUS
<1>4. /\ Cardinality(lost \cup left)
           = Cardinality(lost) + Cardinality(left) - Cardinality(lost \cap left)
      /\ IsFiniteSet(lost \cap left)
  BY <1>2, FS_Union, FS_Intersection
<1>5. /\ Cardinality(lost) \in Nat /\ Cardinality(left) \in Nat
      /\ Cardinality(lost \cap left) \in Nat
  BY <1>2, <1>4, FS_CardinalityType
<1>6. Cardinality(lost) + Cardinality(left) - Cardinality(lost \cap left) = Total
  BY <1>1, <1>3, <1>4
<1> QED
  BY <1>5, <1>6, ShardsAssumption DEF Total

(* Two kinds of shards that are not counted on.                            *)
LEMMA LostOrSilent ==
    ASSUME NEW a \in SUBSET Shard, NEW b \in SUBSET Shard,
           NEW m \in Nat, Cardinality(a) <= m, NEW n \in Nat, Cardinality(b) <= n
    PROVE  a \cup b \in SUBSET Shard /\ Cardinality(a \cup b) <= m + n
<1>1. IsFiniteSet(Shard)
  BY FS_Interval, ShardsAssumption DEF Shard, Total
<1>2. IsFiniteSet(a) /\ IsFiniteSet(b)
  BY <1>1, FS_Subset
<1>3. /\ Cardinality(a \cup b) = Cardinality(a) + Cardinality(b) - Cardinality(a \cap b)
      /\ IsFiniteSet(a \cap b) /\ IsFiniteSet(a \cup b)
  BY <1>2, FS_Union, FS_Intersection
<1>4. /\ Cardinality(a) \in Nat /\ Cardinality(b) \in Nat
      /\ Cardinality(a \cap b) \in Nat /\ Cardinality(a \cup b) \in Nat
  BY <1>2, <1>3, FS_CardinalityType
<1> QED
  BY <1>3, <1>4

LEMMA KeptInvStep ==
    ASSUME Calm, Settled, KeptInv, [Next]_vars, ~DeleteFile
    PROVE  KeptInv'
<1> USE DEF disk, peers, history
<1>1. PICK lost \in SUBSET Shard : Cardinality(lost) <= losses /\ Kept(lost)
  BY DEF KeptInv
<1>2. losses \in Nat
  BY LifecycleAssumption DEF Settled, TypeInv, TypeOK
<1>3. ASSUME NEW p \in Peer, NEW f \in File, PeerLosesShard(p, f) PROVE KeptInv'
  <2>1. losses' = losses + 1 /\ f[2] \in Shard
    BY <1>3 DEF PeerLosesShard, File
  <2>2. Kept(lost \cup {f[2]})'
    BY <1>1, <1>3, KeptLoss
  <2>3. lost \cup {f[2]} \in SUBSET Shard /\ Cardinality(lost \cup {f[2]}) <= losses'
    BY <1>1, <1>2, <2>1, OneMoreLost
  <2> QED
    BY <2>2, <2>3 DEF KeptInv
<1>4. ASSUME \A p \in Peer, f \in File : ~PeerLosesShard(p, f) PROVE KeptInv'
  <2>1. Kept(lost)'
    BY <1>1, <1>4, KeptStep
  <2>2. losses' = losses
    BY <1>4 DEF Next, Requests, UploadFile, RenameRead, DeleteFile, ReadFile, StartScan,
       Pipeline, StartEncoding, WriteShard, FinishEncoder, EncryptShard,
       FinishEncryption,
         EncoderFails, EncodingRaises, MergeMetadata, WriteMetadata, SkipDistribution,
       DistributeShards, PushShard, DropLocal, KeepAfterFailure, PushRaises,
       PublishPlacement, ReceiveShard, RenameWrite, Reading, ServeRange, GatherAll,
       FinishRead, FetchShard,
       Repairing, AssessLocal, ProbePeer, Classify, LeaveAlone, StartRebuild,
       AbandonRebuild,
       ReplaceShards, FinishRebuild, PurgeOrphan, PurgeUnrecoverable, Removing,
       DropReplicas, RemoveShards, Environment, Crash, PeerOffline, PeerOnline, vars
  <2> QED
    BY <1>1, <2>1, <2>2 DEF KeptInv
<1> QED
  BY <1>3, <1>4

LEMMA FileInit == Init => FileInv
<1> SUFFICES ASSUME Init PROVE FileInv
  OBVIOUS
<1>1. Kept({}) /\ losses = 0 /\ Cardinality({}) = 0 /\ {} \in SUBSET Shard
  BY KeptInit, FS_EmptySet DEF Init
<1>2. KeptInv
  BY <1>1 DEF KeptInv
<1> QED
  BY <1>1, <1>2 DEF FileInv

LEMMA FileStep ==
    ASSUME Calm, Settled, FileInv, [Next]_vars
    PROVE  FileInv'
<1>1. "repair" \notin Events /\ ("crash" \in Events => Window \subseteq Rest)
  BY DEF Calm
<1>3. CASE KeptInv /\ ~DeleteFile
  BY <1>3, KeptInvStep DEF FileInv
<1>4. CASE KeptInv /\ DeleteFile
  <2>1. /\ meta' = NoMetadata /\ UNCHANGED <<rename, task>> /\ up.pc \in Window
        /\ rename.pc = "idle" /\ remove'["delete"].pc = "tell"
    BY <1>4
       DEF DeleteFile, Admitted, RetireMetadata, Unlink, up, Settled, RenameHolds,
              TypeInv,
                TypeOK, Remover
  <2>2. IF Window \subseteq Rest THEN Gone' ELSE "delete" \in Events /\ Leaving'
    BY <1>4, <2>1 DEF DeleteFile, Admitted, Gone, Leaving, NoMetadata, up
  <2> QED
    BY <2>2 DEF FileInv
<1>5. CASE Window \subseteq Rest /\ Gone
  BY <1>1, <1>5, GoneStep DEF FileInv
<1>6. CASE ~(Window \subseteq Rest) /\ "delete" \in Events /\ Leaving
  <2>1. ~Crash
    BY <1>1, <1>6 DEF Crash
  <2> QED
    BY <1>6, <2>1, LeavingStep DEF FileInv
<1> QED
  BY <1>3, <1>4, <1>5, <1>6 DEF FileInv

(* What the invariant gives a reader of a file at rest.                    *)
LEMMA RetrievableAtRest ==
    ASSUME Settled, NEW lost \in SUBSET Shard, Kept(lost), Quiet, Listed, NEW alive \in SUBSET Peer
    PROVE  /\ Retrievable(alive) \in SUBSET Shard
           /\ \A i \in Shard \ lost :
                 meta.chunks[i].peer \in alive \cup {Here} => i \in Retrievable(alive)
<1>1. up.pc \notin {"push", "wait"}
  BY DEF Quiet, up, Task
<1>2. Served(meta, lost) /\ \A i \in Shard : meta.chunks[i].base = "upload"
  BY <1>1 DEF Kept, Placed, Complete, Listed
<1>3. ASSUME NEW i \in Shard \ lost, meta.chunks[i].peer \in alive \cup {Here}
      PROVE  i \in Retrievable(alive)
  <2>1. CASE meta.chunks[i].peer = Here
    <3>1. local[PathOf(meta, i)] = 1
      BY <1>2, <2>1 DEF Served, PathOf
    <3>2. i \in Readable(meta)
      BY <1>2, <3>1, LifecycleAssumption DEF Readable, OnDisk, Absent, Corrupt
    <3> QED
      BY <3>2 DEF Retrievable
  <2>2. CASE meta.chunks[i].peer # Here /\ i \notin OnDisk(meta)
    <3> DEFINE p == meta.chunks[i].peer
    <3>1. p \in Peer /\ p \in alive
      BY <1>3, <2>2
    <3>2. held[p][<<"upload", i>>] = 1 /\ meta.chunks[i].digest = 1
      BY <1>2, <2>2 DEF Served
    <3>3. held[p][<<"repair", i>>] = Absent
      <4>1. <<"repair", i>> \in File /\ <<"repair", i>>[1] # "upload"
        BY DEF File, Task
      <4> QED
        BY <3>1, <4>1 DEF Settled, HeldInv, Planned
    <3>4. ServedBy(p, i) = {1}
      BY <3>2, <3>3 DEF ServedBy, Task, Absent
    <3> QED
      BY <2>2, <3>1, <3>2, <3>4 DEF Retrievable, OnPeers
  <2>3. CASE meta.chunks[i].peer # Here /\ i \in OnDisk(meta)
    <3>1. local[<<"upload", i>>] # Absent /\ PathOf(meta, i) = <<"upload", i>>
      BY <1>2, <2>3 DEF OnDisk, PathOf
    <3>2. Encoded
      BY <1>2 DEF Encoded, NamesShards
    <3>3. local[<<"upload", i>>] # Corrupt
      BY <3>1, <3>2, LifecycleAssumption DEF Kept, Clean, Corrupt, Absent
    <3> QED
      BY <2>3, <3>1, <3>3 DEF Retrievable, Readable
  <2> QED
    BY <2>1, <2>2, <2>3
<1> QED
  BY <1>3 DEF Retrievable, Readable, OnDisk, OnPeers

LEMMA SettledStep ==
    ASSUME "repair" \notin Events
    PROVE  /\ Init => Settled
           /\ Settled /\ [Next]_vars => Settled'
<1>1. Init => Settled
  BY TypeInit, CapInit, OneTaskInit, RenameHoldsInit, HeldInit DEF Settled
<1>2. ASSUME Settled, [Next]_vars PROVE Settled'
  <2>1. TypeInv'
    BY <1>2, TypeStep DEF Settled
  <2>2. CapInv' /\ OneTask'
    BY <1>2, CapStep, OneTaskStep DEF Settled
  <2>3. RenameHolds' /\ HeldInv'
    BY <1>2, RenameHoldsStep, HeldStep DEF Settled, OneTask
  <2> QED
    BY <2>1, <2>2, <2>3 DEF Settled
<1> QED
  BY <1>1, <1>2

(* What is lost or listed at one peer leaves enough.                       *)
LEMMA SurvivesAtRest ==
    ASSUME Settled, FileInv
    PROVE  SurvivesOnePeer
<1> SUFFICES ASSUME Quiet, Listed, remove["delete"].pc = "idle", NEW p \in Peer
             PROVE  Cardinality(Retrievable(Peer \ {p})) + losses >= DataShards
  BY DEF SurvivesOnePeer
<1>1. KeptInv /\ losses \in Nat
  BY LifecycleAssumption DEF FileInv, Gone, Leaving, Listed, Settled, TypeInv, TypeOK
<1>2. PICK lost \in SUBSET Shard : Cardinality(lost) <= losses /\ Kept(lost)
  BY <1>1 DEF KeptInv
<1> DEFINE left == Retrievable(Peer \ {p})
           gone == ListedAt(meta, p)
<1>3. /\ left \in SUBSET Shard
      /\ \A i \in Shard \ lost : meta.chunks[i].peer \in (Peer \ {p}) \cup {Here} => i \in left
  <2>1. Peer \ {p} \in SUBSET Peer
    OBVIOUS
  <2> QED
    BY <1>2, <2>1, RetrievableAtRest
<1>4. \A i \in Shard : meta.chunks[i].peer \in Peer \cup {Here}
  BY DEF Settled, TypeInv, TypeOK, Metadata, Chunk, Site
<1>5. gone \in SUBSET Shard /\ Shard \ (lost \cup gone) \subseteq left
  <2> HIDE DEF left
  <2> QED
    BY <1>3, <1>4 DEF ListedAt
<1>6. Cardinality(gone) <= ParityShards
  BY DEF Settled, CapInv, Capped
<1> HIDE DEF left, gone
<1>7. losses + ParityShards \in Nat /\ ParityShards \in Nat
  BY <1>1, ShardsAssumption
<1>8. lost \cup gone \in SUBSET Shard /\ Cardinality(lost \cup gone) <= losses + ParityShards
  BY <1>1, <1>2, <1>5, <1>6, <1>7, LostOrSilent
<1>9. Cardinality(left) + (losses + ParityShards) >= Total /\ Cardinality(left) \in Nat
  BY <1>3, <1>5, <1>7, <1>8, EnoughLeft
<1>10. Cardinality(left) + losses >= DataShards
  BY <1>1, <1>9, ShardsAssumption DEF Total
<1> QED
  BY <1>10 DEF left

(* The fault budget (ARCHITECTURE.md:365-367): an upload comes to rest with*)
(* its shards placed so that any one peer may be lost besides the shards   *)
(* that disks lost, whatever transfers were refused, damaged, late or      *)
(* unanswered, whichever peers came and went, and whoever renamed or read  *)
(* the file meanwhile.                                                     *)
THEOREM SurvivesAnyPeer ==
    ASSUME Calm
    PROVE  Spec => []SurvivesOnePeer
<1>1. "repair" \notin Events
  BY DEF Calm
<1>2. Settled /\ FileInv => SurvivesOnePeer
  BY SurvivesAtRest
<1>3. Settled /\ FileInv /\ [Next]_vars => Settled' /\ FileInv'
  BY <1>1, SettledStep, FileStep
<1>4. Init => Settled /\ FileInv
  BY <1>1, SettledStep, FileInit
<1> QED
  BY <1>2, <1>3, <1>4, PTL DEF Spec

LEMMA HonestAtRest ==
    ASSUME "delete" \in Events => Window \subseteq Rest, Settled, FileInv
    PROVE  NamespaceHonest
<1> SUFFICES ASSUME Quiet, Listed, losses <= ParityShards
             PROVE  Cardinality(Retrievable(Peer)) >= DataShards
  <2>1. losses \in Nat
    BY LifecycleAssumption DEF Settled, TypeInv, TypeOK
  <2> QED
    BY <2>1, ShardsAssumption DEF NamespaceHonest
<1>1. KeptInv
  BY DEF FileInv, Gone, Listed
<1>2. PICK lost \in SUBSET Shard : Cardinality(lost) <= losses /\ Kept(lost)
  BY <1>1 DEF KeptInv
<1>3. losses \in Nat
  BY LifecycleAssumption DEF Settled, TypeInv, TypeOK
<1>4. /\ Retrievable(Peer) \in SUBSET Shard
      /\ \A i \in Shard \ lost :
            meta.chunks[i].peer \in Peer \cup {Here} => i \in Retrievable(Peer)
  BY <1>2, RetrievableAtRest
<1>5. \A i \in Shard : meta.chunks[i].peer \in Peer \cup {Here}
  BY DEF Settled, TypeInv, TypeOK, Metadata, Chunk, Site
<1>6. Shard \ lost \subseteq Retrievable(Peer)
  BY <1>4, <1>5
<1>7. /\ Cardinality(Retrievable(Peer)) + losses >= Total
      /\ Cardinality(Retrievable(Peer)) \in Nat
  BY <1>2, <1>3, <1>4, <1>6, EnoughLeft
<1> QED
  BY <1>3, <1>7, ShardsAssumption DEF Total

(* The namespace lists no file that cannot be read (main.py:931-936): not  *)
(* in the middle of a delete and not after a crash, as long as both come   *)
(* to a file at rest, until disks have lost more shards than there is      *)
(* parity.                                                                 *)
THEOREM NamespaceStaysHonest ==
    ASSUME Calm, "delete" \in Events => Window \subseteq Rest
    PROVE  Spec => []NamespaceHonest
<1>1. "repair" \notin Events
  BY DEF Calm
<1>2. Settled /\ FileInv => NamespaceHonest
  BY HonestAtRest
<1>3. Settled /\ FileInv /\ [Next]_vars => Settled' /\ FileInv'
  BY <1>1, SettledStep, FileStep
<1>4. Init => Settled /\ FileInv
  BY <1>1, SettledStep, FileInit
<1> QED
  BY <1>2, <1>3, <1>4, PTL DEF Spec

(* Every shard that is not lost is where the metadata says.                *)
LEMMA AtPlaceAtRest ==
    ASSUME Settled, NEW lost \in SUBSET Shard, Kept(lost), Quiet, Listed,
           NEW i \in Shard \ lost
    PROVE  AtPlace(i)
<1>1. up.pc \notin {"push", "wait"}
  BY DEF Quiet, up, Task
<1>2. Served(meta, lost) /\ meta.chunks[i].base = "upload"
  BY <1>1 DEF Kept, Placed, Complete, Listed
<1>3. PathOf(meta, i) = <<"upload", i>>
  BY <1>2 DEF PathOf
<1>4. CASE meta.chunks[i].peer = Here
  BY <1>2, <1>3, <1>4, LifecycleAssumption
     DEF Served, AtPlace, Readable, OnDisk, Absent, Corrupt
<1>5. CASE meta.chunks[i].peer # Here
  BY <1>2, <1>3, <1>5 DEF Served, AtPlace
<1> QED
  BY <1>4, <1>5

LEMMA TrueAtRest ==
    ASSUME Settled, FileInv
    PROVE  PlacementTrue
<1> SUFFICES ASSUME Quiet, Listed, remove["delete"].pc = "idle"
             PROVE  Cardinality({i \in Shard : ~AtPlace(i)}) <= losses
  BY DEF PlacementTrue
<1>1. KeptInv /\ losses \in Nat
  BY LifecycleAssumption DEF FileInv, Gone, Leaving, Listed, Settled, TypeInv, TypeOK
<1>2. PICK lost \in SUBSET Shard : Cardinality(lost) <= losses /\ Kept(lost)
  BY <1>1 DEF KeptInv
<1> DEFINE astray == {i \in Shard : ~AtPlace(i)}
<1>3. astray \subseteq lost
  BY <1>2, AtPlaceAtRest
<1>4. IsFiniteSet(Shard)
  BY FS_Interval, ShardsAssumption DEF Shard, Total
<1>5. IsFiniteSet(lost) /\ Cardinality(lost) \in Nat
  BY <1>4, FS_Subset, FS_CardinalityType
<1> HIDE DEF astray
<1>6. Cardinality(astray) <= Cardinality(lost) /\ Cardinality(astray) \in Nat
  BY <1>3, <1>5, FS_Subset, FS_CardinalityType
<1>7. Cardinality(astray) <= losses
  BY <1>1, <1>2, <1>5, <1>6
<1> QED
  BY <1>7 DEF astray

(* The metadata tells the truth about every shard of a file that was never *)
(* rebuilt, but for those that disks lost (replication.py:163-166):        *)
(* whatever transfers were refused, damaged, late or unanswered, whoever   *)
(* renamed the file, and after a crash at rest.                            *)
THEOREM PlacementStaysTrue ==
    ASSUME Calm
    PROVE  Spec => []PlacementTrue
<1>1. "repair" \notin Events
  BY DEF Calm
<1>2. Settled /\ FileInv => PlacementTrue
  BY TrueAtRest
<1>3. Settled /\ FileInv /\ [Next]_vars => Settled' /\ FileInv'
  BY <1>1, SettledStep, FileStep
<1>4. Init => Settled /\ FileInv
  BY <1>1, SettledStep, FileInit
<1> QED
  BY <1>2, <1>3, <1>4, PTL DEF Spec

-----------------------------------------------------------------------------
(* Downloads.  A reader works from the metadata it read when it started;   *)
(* of a file at rest that nobody deletes, every shard it has neither       *)
(* fetched nor still to fetch is one that a peer lost.                     *)

Following(lost) ==
    /\ rename.pc = "write" => up.pc \in Rest /\ rename.md.chunks = meta.chunks
    /\ gather["read"].pc \in {"range", "fetch"} =>
          up.pc \in Rest /\ gather["read"].md.chunks = meta.chunks
    /\ gather["read"].pc = "fetch" /\ HasChunks(gather["read"].md) =>
          /\ \A i \in gather["read"].want : meta.chunks[i].peer # Here
          /\ gather["read"].staged \cup gather["read"].want \cup gather["read"].silent
                \cup lost = Shard
    /\ gather["read"].pc = "refused" =>
          \/ ~HasChunks(gather["read"].md)
          \/ losses + Cardinality(gather["read"].silent) > ParityShards

ReadInv ==
    \/ \E lost \in SUBSET Shard :
          Cardinality(lost) <= losses /\ Kept(lost) /\ Following(lost)
    \/ Gone /\ (Leaving \/ gather["read"].pc = "idle")

(* The circumstances under which a download has no excuse.                 *)
Attended == Calm /\ Window \subseteq Rest

LEMMA ReadInit == Init => ReadInv
<1> SUFFICES ASSUME Init PROVE ReadInv
  OBVIOUS
<1>1. Kept({}) /\ losses = 0 /\ Cardinality({}) = 0 /\ {} \in SUBSET Shard
  BY KeptInit, FS_EmptySet DEF Init
<1>2. Following({})
  BY DEF Init, Following, IdleRename, IdleGather, Reader
<1> QED
  BY <1>1, <1>2 DEF ReadInv

(* A download starts from the metadata of a file at rest.                  *)
LEMMA ReadBegins ==
    ASSUME Attended, Settled, NEW lost, Following(lost), ReadFile \/ ServeRange
    PROVE  Following(lost)'
<1> USE DEF disk, peers, history
<1> DEFINE Begun == \/ /\ gather'["read"].pc = "range" /\ up.pc \in Rest
                       /\ gather'["read"].md = meta
                    \/ gather'["read"].pc = "served"
<1>1. UNCHANGED <<rename, meta>> /\ up' = up
  BY DEF ReadFile, ServeRange, up
<1>2. ReadFile => Begun
  BY DEF ReadFile, Admitted, Attended, up, Settled, TypeInv, TypeOK, Reader
<1>3. ServeRange => Begun
  <2>1. gather \in [Reader -> GatherState] /\ "read" \in Reader
    BY DEF Settled, TypeInv, TypeOK, Reader
  <2> QED
    BY <2>1 DEF ServeRange, GatherState
<1>4. Begun
  BY <1>2, <1>3
<1> QED
  BY <1>1, <1>4 DEF Following

(* It gathers the shards that are here and those the metadata gives to     *)
(* peers.                                                                  *)
LEMMA ReadFollows ==
    ASSUME Attended, Settled, NEW lost \in SUBSET Shard, Kept(lost), Following(lost), GatherAll
    PROVE  Following(lost)'
<1> USE DEF disk, peers, history
<1> DEFINE md == gather["read"].md
<1>1. /\ gather["read"].pc = "range" /\ UNCHANGED <<rename, meta>> /\ up' = up
      /\ gather'["read"] = [pc |-> "fetch", md |-> md, staged |-> Readable(md),
                            want |-> OnPeers(md), silent |-> {}]
  BY DEF GatherAll, StartGather, up, Settled, TypeInv, TypeOK, Reader, IdleGather
<1>2. up.pc \in Rest /\ md.chunks = meta.chunks
  BY <1>1 DEF Following
<1>3. ASSUME HasChunks(md)
      PROVE  /\ \A i \in OnPeers(md) : meta.chunks[i].peer # Here
             /\ Readable(md) \cup OnPeers(md) \cup lost = Shard
  <2>1. Served(meta, lost) /\ \A i \in Shard : meta.chunks[i].base = "upload"
    BY <1>2, <1>3 DEF Kept, Placed, Complete, HasChunks, Rest
  <2>2. \A i \in Shard : local[<<"upload", i>>] \in {Absent, 1}
    BY <1>2, <1>3, <2>1 DEF Kept, Clean, Encoded, NamesShards, HasChunks
  <2>3. \A i \in Shard : PathOf(md, i) = <<"upload", i>> /\ md.chunks[i].base # "none"
    BY <1>2, <2>1 DEF PathOf
  <2>4. Corrupt # 1 /\ Absent # 1
    BY LifecycleAssumption DEF Corrupt, Absent
  <2>5. ASSUME NEW i \in Shard \ lost, meta.chunks[i].peer = Here PROVE i \in Readable(md)
    BY <2>1, <2>3, <2>4, <2>5 DEF Served, Readable, OnDisk
  <2>6. \A i \in OnDisk(md) : i \in Readable(md)
    BY <2>2, <2>3, <2>4 DEF Readable, OnDisk
  <2> QED
    BY <1>2, <2>5, <2>6 DEF OnPeers, OnDisk, Readable
<1> HIDE DEF md
<1> QED
  BY <1>1, <1>2, <1>3 DEF Following

(* A shard the reader does not find at its peer is one the peer lost.      *)
LEMMA FetchFollows ==
    ASSUME Settled, NEW lost \in SUBSET Shard, Kept(lost), Following(lost),
           NEW i \in Shard, FetchShard("read", i)
    PROVE  Following(lost)'
<1> USE DEF disk, peers, history
<1> DEFINE g == gather["read"]
           p == g.md.chunks[i].peer
<1>1. /\ g.pc = "fetch" /\ i \in g.want /\ g \in GatherState
      /\ UNCHANGED <<online, rename, meta>> /\ up' = up
  BY DEF FetchShard, Settled, TypeInv, TypeOK, Reader, up
<1>2. up.pc \in Rest /\ g.md.chunks = meta.chunks
  BY <1>1 DEF Following
<1>4. ASSUME i \notin lost, HasChunks(g.md)
      PROVE  ServedBy(p, i) = {1} /\ g.md.chunks[i].digest = 1
  <2>1. Served(meta, lost) /\ meta.chunks[i].base = "upload" /\ meta.chunks[i].peer # Here
    BY <1>1, <1>2, <1>4 DEF Following, Kept, Placed, Complete, HasChunks, Rest
  <2>2. held[p][<<"upload", i>>] = 1 /\ g.md.chunks[i].digest = 1 /\ p \in Peer
    BY <1>2, <1>4, <2>1 DEF Served, Settled, TypeInv, TypeOK, Metadata, Chunk, Site
  <2>3. held[p][<<"repair", i>>] = Absent
    <3>1. <<"repair", i>> \in File /\ <<"repair", i>>[1] # "upload"
      BY DEF File, Task
    <3> QED
      BY <2>2, <3>1 DEF Settled, HeldInv, Planned
  <2> QED
    BY <2>2, <2>3 DEF ServedBy, Task, Absent
<1> DEFINE Got == gather' = [gather EXCEPT !["read"].want = @ \ {i}, !["read"].staged = @ \cup {i}]
           Missed == gather' = [gather EXCEPT !["read"].want = @ \ {i}]
           Silent == gather' = [gather EXCEPT !["read"].want = @ \ {i},
                                              !["read"].silent = @ \cup {i}]
<1>5. Got \/ Silent \/ (Missed /\ (i \in lost \/ ~HasChunks(g.md)))
  <2> DEFINE Bad == \/ ServedBy(p, i) = {}
                    \/ \E payload \in ServedBy(p, i) : ~Verified("read", i, payload)
  <2>1. Got \/ Silent \/ (Bad /\ Missed)
    BY DEF FetchShard
  <2>2. Bad => i \in lost \/ ~HasChunks(g.md)
    BY <1>4 DEF Verified
  <2> HIDE DEF Bad, Got, Silent, Missed
  <2> QED
    BY <2>1, <2>2
<1>6. /\ gather'["read"].pc = "fetch" /\ gather'["read"].md = g.md
      /\ gather'["read"].want = g.want \ {i}
      /\ \/ gather'["read"].staged = g.staged \cup {i} /\ gather'["read"].silent = g.silent
         \/ gather'["read"].staged = g.staged /\ gather'["read"].silent = g.silent \cup {i}
         \/ /\ i \in lost \/ ~HasChunks(g.md)
            /\ gather'["read"].staged = g.staged /\ gather'["read"].silent = g.silent
  <2>1. gather \in [Reader -> GatherState] /\ "read" \in Reader
    BY DEF Settled, TypeInv, TypeOK, Reader
  <2>2. CASE Got
    BY <1>1, <2>1, <2>2 DEF GatherState
  <2>3. CASE Silent
    BY <1>1, <2>1, <2>3 DEF GatherState
  <2>4. CASE Missed /\ (i \in lost \/ ~HasChunks(g.md))
    BY <1>1, <2>1, <2>4 DEF GatherState
  <2> HIDE DEF Got, Silent, Missed
  <2> QED
    BY <1>5, <2>2, <2>3, <2>4
<1>7. HasChunks(g.md) =>
          /\ g.staged \cup g.want \cup g.silent \cup lost = Shard
          /\ \A k \in g.want : meta.chunks[k].peer # Here
  BY <1>1 DEF Following
<1>8. HasChunks(g.md) =>
          gather'["read"].staged \cup gather'["read"].want \cup gather'["read"].silent
             \cup lost = Shard
  BY <1>6, <1>7
<1>9. rename'.pc = "write" => up'.pc \in Rest /\ rename'.md.chunks = meta'.chunks
  BY <1>1 DEF Following
<1> HIDE DEF g
<1> QED
  BY <1>1, <1>2, <1>6, <1>7, <1>8, <1>9 DEF Following

(* The decoder gets enough.                                                *)
LEMMA FinishFollows ==
    ASSUME Settled, NEW lost \in SUBSET Shard, Cardinality(lost) <= losses,
           Following(lost), FinishRead
    PROVE  Following(lost)'
<1> USE DEF disk, peers, history
<1> DEFINE g == gather["read"]
<1>1. /\ g.pc = "fetch" /\ g.want = {} /\ g \in GatherState
      /\ UNCHANGED <<rename, meta, losses>> /\ up' = up
      /\ gather'["read"].pc = IF Decodable("read") THEN "served" ELSE "refused"
      /\ gather'["read"].md = g.md /\ gather'["read"].silent = g.silent
  BY DEF FinishRead, Settled, TypeInv, TypeOK, Reader, up, GatherState
<1>2. ASSUME HasChunks(g.md), losses + Cardinality(g.silent) <= ParityShards
      PROVE  Decodable("read")
  <2> DEFINE left == g.staged
             silent == g.silent
  <2>1. /\ left \in SUBSET Shard /\ silent \in SUBSET Shard
        /\ Shard \ (lost \cup silent) \subseteq left
    BY <1>1, <1>2 DEF Following, GatherState
  <2>2. losses \in Nat /\ Cardinality(silent) \in Nat
    <3>1. IsFiniteSet(Shard)
      BY FS_Interval, ShardsAssumption DEF Shard, Total
    <3>2. IsFiniteSet(silent)
      BY <2>1, <3>1, FS_Subset
    <3> QED
      BY <3>2, FS_CardinalityType, LifecycleAssumption DEF Settled, TypeInv, TypeOK
  <2>3. losses + Cardinality(silent) <= ParityShards
    BY <1>2
  <2>4. Decodable("read") <=> Cardinality(left) >= DataShards
    BY DEF Decodable
  <2> HIDE DEF left, silent
  <2>5. lost \cup silent \in SUBSET Shard /\ Cardinality(lost \cup silent) <= losses + Cardinality(silent)
    <3>1. Cardinality(silent) <= Cardinality(silent)
      BY <2>2
    <3> QED
      BY <2>1, <2>2, <3>1, LostOrSilent
  <2>6. losses + Cardinality(silent) \in Nat
    BY <2>2
  <2>7. /\ Cardinality(left) + (losses + Cardinality(silent)) >= Total
        /\ Cardinality(left) \in Nat
    BY <2>1, <2>5, <2>6, EnoughLeft
  <2>8. Cardinality(left) >= DataShards
    BY <2>2, <2>3, <2>7, ShardsAssumption DEF Total
  <2> QED
    BY <2>4, <2>8
<1>3. g.silent \in SUBSET Shard
  BY <1>1 DEF GatherState
<1>4. losses \in Nat /\ Cardinality(g.silent) \in Nat
  <2>1. IsFiniteSet(Shard)
    BY FS_Interval, ShardsAssumption DEF Shard, Total
  <2>2. IsFiniteSet(g.silent)
    BY <1>3, <2>1, FS_Subset
  <2> QED
    BY <2>2, FS_CardinalityType, LifecycleAssumption DEF Settled, TypeInv, TypeOK
<1>5. gather'["read"].pc = "refused" =>
          ~HasChunks(g.md) \/ losses + Cardinality(g.silent) > ParityShards
  BY <1>1, <1>2, <1>4, ShardsAssumption
<1> HIDE DEF g
<1> QED
  BY <1>1, <1>5 DEF Following

(* The steps of a file that is still there.                                *)
LEMMA FollowStep ==
    ASSUME Attended, Settled, NEW lost \in SUBSET Shard, Cardinality(lost) <= losses,
           Kept(lost), Following(lost), [Next]_vars, ~DeleteFile
    PROVE  ReadInv'
<1> USE DEF disk, peers, history
<1>1. Cardinality(lost) <= losses /\ Kept(lost) /\ Following(lost)
  OBVIOUS
<1>2. losses \in Nat /\ Calm
  BY LifecycleAssumption DEF Settled, TypeInv, TypeOK, Attended
<1>3. ~DeleteFile
  OBVIOUS
<1>4. ASSUME NEW p \in Peer, NEW f \in File, PeerLosesShard(p, f) PROVE ReadInv'
  <2>1. /\ losses' = losses + 1 /\ f[2] \in Shard
        /\ UNCHANGED <<rename, meta, gather, task>>
    BY <1>4 DEF PeerLosesShard, File
  <2>2. Kept(lost \cup {f[2]})'
    BY <1>1, <1>4, KeptLoss
  <2>3. lost \cup {f[2]} \in SUBSET Shard /\ Cardinality(lost \cup {f[2]}) <= losses'
    BY <1>1, <1>2, <2>1, OneMoreLost
  <2>4. Following(lost \cup {f[2]})'
    <3>1. gather["read"].pc = "refused" => Cardinality(gather["read"].silent) \in Nat
      <4>1. gather["read"].silent \in SUBSET Shard
        BY DEF Settled, TypeInv, TypeOK, Reader, GatherState
      <4>2. IsFiniteSet(gather["read"].silent)
        <5>1. IsFiniteSet(Shard)
          BY FS_Interval, ShardsAssumption DEF Shard, Total
        <5> QED
          BY <4>1, <5>1, FS_Subset
      <4> QED
        BY <4>2, FS_CardinalityType
    <3>2. gather["read"].pc = "refused" =>
             \/ ~HasChunks(gather["read"].md)
             \/ losses' + Cardinality(gather["read"].silent) > ParityShards
      BY <1>1, <1>2, <2>1, <3>1, ShardsAssumption DEF Following
    <3>3. up' = up
      BY <2>1 DEF up
    <3> QED
      BY <1>1, <2>1, <3>2, <3>3 DEF Following
  <2> QED
    BY <2>2, <2>3, <2>4 DEF ReadInv
<1>5. ASSUME \A p \in Peer, f \in File : ~PeerLosesShard(p, f) PROVE ReadInv'
  <2>1. Kept(lost)'
    BY <1>1, <1>2, <1>3, <1>5, KeptStep
  <2>2. losses' = losses
    BY <1>5 DEF Next, Requests, UploadFile, RenameRead, DeleteFile, ReadFile, StartScan,
       Pipeline, StartEncoding, WriteShard, FinishEncoder, EncryptShard,
       FinishEncryption,
         EncoderFails, EncodingRaises, MergeMetadata, WriteMetadata, SkipDistribution,
       DistributeShards, PushShard, DropLocal, KeepAfterFailure, PushRaises,
       PublishPlacement, ReceiveShard, RenameWrite, Reading, ServeRange, GatherAll,
       FinishRead, FetchShard,
       Repairing, AssessLocal, ProbePeer, Classify, LeaveAlone, StartRebuild,
       AbandonRebuild,
       ReplaceShards, FinishRebuild, PurgeOrphan, PurgeUnrecoverable, Removing,
       DropReplicas, RemoveShards, Environment, Crash, PeerOffline, PeerOnline, vars
  <2>3. Following(lost)'
    <3>1. ~StartScan /\ ~Repairing /\ \A h \in Remover : ~Removing(h)
      BY <1>1, <1>2, NoRepairs
         DEF Calm, Settled, OneTask, Removing, DropReplicas, RemoveShards,
                                   Kept
    <3>2. CASE UploadFile
      <4>1. up.pc = "new" /\ losses' = losses /\ gather' = gather /\ rename' = rename
        BY <3>2 DEF UploadFile, up
      <4> QED
        BY <1>1, <4>1 DEF Following, Rest
    <3>3. ASSUME NEW t \in Task, Pipeline(t) PROVE Following(lost)'
      <4>1. t = "upload" /\ UNCHANGED <<gather, rename, losses>>
        BY <3>3, OnlyUploadRuns DEF Settled, OneTask
      <4>2. up.pc \notin Rest
        BY <3>3, <4>1
           DEF Pipeline, StartEncoding, WriteShard, FinishEncoder, EncryptShard,
                  FinishEncryption,
         EncoderFails, EncodingRaises, MergeMetadata, WriteMetadata,
           SkipDistribution, DistributeShards, PushShard, DropLocal, KeepAfterFailure,
           PushRaises, PublishPlacement, up, Rest
      <4> QED
        BY <1>1, <4>1, <4>2 DEF Following
    <3>4. CASE RenameRead
      <4>1. /\ up.pc \in Rest /\ rename'.md.chunks = meta.chunks
            /\ UNCHANGED <<meta, task, gather, losses>>
        BY <3>4
           DEF RenameRead, Admitted, Attended, up, Settled, TypeInv, TypeOK, Metadata
      <4> QED
        BY <1>1, <4>1 DEF Following, up
    <3>5. CASE RenameWrite
      <4>1. /\ rename.pc = "write" /\ meta' = rename.md /\ rename'.pc = "idle"
            /\ UNCHANGED <<task, gather, losses>>
        BY <3>5 DEF RenameWrite, IdleRename
      <4> QED
        BY <1>1, <4>1 DEF Following, up
    <3>6. CASE ReadFile
      BY <1>1, <3>6, ReadBegins
    <3>7. CASE Reading
      BY <1>1, <3>7, ReadBegins, ReadFollows, FetchFollows, FinishFollows DEF Reading
    <3>8. ASSUME NEW m \in net, ReceiveShard(m) PROVE Following(lost)'
      <4>1. m.by \in Task
        BY DEF Settled, TypeInv, TypeOK, Push
      <4>2. up'.pc = up.pc /\ UNCHANGED <<meta, rename, gather, losses>>
        BY <3>8, <4>1 DEF ReceiveShard, up, Settled, TypeInv, TypeOK, TaskState, Task
      <4> QED
        BY <1>1, <4>2 DEF Following
    <3>9. CASE Crash
      BY <1>1, <3>9 DEF Crash, Following, IdleRename, IdleGather, Reader
    <3>10. CASE (Environment /\ ~Crash) \/ UNCHANGED vars
      <4>1. UNCHANGED <<meta, rename, gather, task, losses>>
        BY <1>5, <3>10 DEF Environment, PeerOffline, PeerOnline, vars
      <4> QED
        BY <1>1, <4>1 DEF Following, up
    <3> QED
      BY <1>3, <3>1, <3>2, <3>3, <3>4, <3>5, <3>6, <3>7, <3>8, <3>9, <3>10
         DEF Next, Requests
  <2> QED
    BY <1>1, <2>1, <2>2, <2>3 DEF ReadInv
<1> QED
  BY <1>4, <1>5

LEMMA ReadStep ==
    ASSUME Attended, Settled, ReadInv, [Next]_vars
    PROVE  ReadInv'
<1> USE DEF disk, peers, history
<1>1. ASSUME NEW lost \in SUBSET Shard, Cardinality(lost) <= losses, Kept(lost), Following(lost)
      PROVE  ReadInv'
  <2>1. CASE ~DeleteFile
    BY <1>1, <2>1, FollowStep
  <2>2. CASE DeleteFile
    <3>1. /\ meta' = NoMetadata /\ UNCHANGED <<rename, task>> /\ up.pc \in Rest
          /\ rename.pc = "idle" /\ remove'["delete"].pc = "tell"
      BY <2>2
         DEF DeleteFile, Admitted, RetireMetadata, Unlink, up, Settled, RenameHolds,
                TypeInv,
                  TypeOK, Remover, Attended
    <3>2. Gone' /\ Leaving'
      BY <3>1 DEF Gone, Leaving, NoMetadata, up
    <3> QED
      BY <3>2 DEF ReadInv
  <2> QED
    BY <2>1, <2>2
<1>2. ASSUME Gone, Leaving \/ gather["read"].pc = "idle"
      PROVE  ReadInv'
  <2>1. Gone'
    BY <1>2, GoneStep DEF Attended, Calm
  <2>2. CASE Crash
    BY <2>1, <2>2 DEF Crash, IdleGather, Reader, ReadInv
  <2>3. CASE Leaving /\ ~Crash
    BY <2>1, <2>3, LeavingStep DEF ReadInv
  <2>4. CASE gather["read"].pc = "idle" /\ ~Crash
    <3>1. ~ReadFile /\ ~ServeRange /\ ~GatherAll /\ ~FinishRead
          /\ \A i \in Shard : ~FetchShard("read", i)
      BY <1>2, <2>4 DEF ReadFile, ServeRange, GatherAll, FinishRead, FetchShard, Gone
    <3>2. ~StartScan /\ ~Repairing
      BY NoRepairs DEF Attended, Calm, Settled, OneTask
    <3>3. gather' = gather
      BY <2>4, <3>1, <3>2 DEF Next, Requests, UploadFile, RenameRead, DeleteFile,
         Pipeline, StartEncoding, WriteShard, FinishEncoder, EncryptShard,
         FinishEncryption,
         EncoderFails, EncodingRaises, MergeMetadata, WriteMetadata, SkipDistribution,
         DistributeShards, PushShard, DropLocal, KeepAfterFailure, PushRaises,
         PublishPlacement, ReceiveShard, RenameWrite, Reading, Removing,
         DropReplicas, RemoveShards, Environment, PeerOffline, PeerOnline,
         PeerLosesShard, vars
    <3> QED
      BY <2>1, <2>4, <3>3 DEF ReadInv
  <2> QED
    BY <1>2, <2>2, <2>3, <2>4
<1> QED
  BY <1>1, <1>2 DEF ReadInv

(* A download of a file at rest that nobody deletes is served as long as   *)
(* no more shards are lost, or silent, than there is parity: the decoder   *)
(* of main.py:1284 is never short of shards through the hand-off's own     *)
(* doing, nor because a rename or a crash came in between.                 *)
THEOREM DownloadsServed ==
    ASSUME Attended
    PROVE  Spec => []ReadsServed
<1>1. "repair" \notin Events
  BY DEF Attended, Calm
<1>2. Settled /\ ReadInv => ReadsServed
  BY DEF ReadInv, Following, ReadsServed, Leaving
<1>3. Settled /\ ReadInv /\ [Next]_vars => Settled' /\ ReadInv'
  BY <1>1, SettledStep, ReadStep
<1>4. Init => Settled /\ ReadInv
  BY <1>1, SettledStep, ReadInit
<1> QED
  BY <1>2, <1>3, <1>4, PTL DEF Spec

-----------------------------------------------------------------------------
(***************************************************************************)
(* What a scan concludes of a file that its node tends, for any number of  *)
(* peers, any erasure code and any bounds: the file is scanned, rebuilt    *)
(* and purged only at rest, by a node that keeps running and whose encoder *)
(* succeeds.                                                               *)
(*                                                                         *)
(* Control says who is at work, Aimed where a shard can have been sent,    *)
(* Data where the shards are at each stage, Probing what the scan knows of *)
(* them; together they make the inductive invariant RepairInv.             *)
(***************************************************************************)

Tended ==
    /\ Events \subseteq {"read", "repair", "purge", "loss", "corrupt", "offline", "pushfail"}
    /\ Window \subseteq Rest

(* Every push is answered before the next: the peers are always there and  *)
(* nothing arrives late.                                                   *)
Prompt == Events \cap {"offline", "pushfail"} = {}

(* No shard is anywhere but where the metadata says or where the only plan *)
(* there ever was sent it.                                                 *)
Traced == Prompt \/ gen <= 1

(* Who is at work.  The upload comes first; then the scan, and under it    *)
(* the rebuild or the purge.                                               *)
Control ==
    /\ rename.pc = "idle" /\ remove["delete"].pc = "idle"
    /\ up.pc # "dead" /\ task["repair"].pc # "dead"
    /\ up.pc # "new" => status # "none"
    /\ up.pc # "done" => scan.pc = "idle"
    /\ task["repair"].pc # "new" => scan.pc = "rebuild" /\ gather["repair"].pc = "idle"
    /\ gather["repair"].pc # "idle" => scan.pc = "rebuild"
    /\ remove["purge"].pc # "idle" => scan.pc = "purge"
    /\ scan.pc \in {"listed", "probe", "verdict", "rebuild"} => meta.present
    /\ scan.pc \in {"listed", "probe", "verdict"} => scan.md = meta
    /\ scan.pc = "purge" => ~meta.present
    /\ "offline" \notin Events => online = Peer
    /\ up.pc \notin {"new", "queued"} => gen >= 1
    /\ task["repair"].pc \notin {"new", "queued"} => gen >= 2
    /\ \A t \in Task : task[t].pc \in {"merge", "write"} => task[t].ok
    /\ \A t \in Task : task[t].pc \in {"write", "push", "wait"} => task[t].md.present

Working(t) == task[t].pc \notin {"new", "done"}

LEMMA ControlInit == Init => Control
<1> SUFFICES ASSUME Init PROVE Control
  OBVIOUS
<1>1. \A t \in Task : task[t].pc = "new"
  BY DEF Init, IdleTask
<1> QED
  BY <1>1
     DEF Init, Control, up, Task, IdleScan, IdleGather, IdleRename, IdleRemove, Reader,
              Remover

(* One pipeline works at a time.                                           *)
LEMMA OneWorks ==
    ASSUME TypeInv, Control, NEW t \in Task, Working(t), NEW u \in Task \ {t}
    PROVE  /\ ~Working(u)
           /\ t = "repair" => up.pc = "done" /\ scan.pc = "rebuild"
           /\ t = "upload" => u = "repair" /\ task[u].pc = "new" /\ scan.pc = "idle"
           /\ task[u].pc # "dead"
  BY DEF Control, Working, Task, up

(* What a step of a pipeline does to its own state and leaves alone.       *)
LEMMA PipelineFrame ==
    ASSUME TypeInv, NEW t \in Task, Pipeline(t)
    PROVE  /\ task[t] \in TaskState /\ Working(t) /\ task[t].pc # "dead"
           /\ task' = [task EXCEPT ![t] = task'[t]]
           /\ \A u \in Task \ {t} : task'[u] = task[u]
           /\ UNCHANGED <<held, online, gather, scan, remove, rename, history>>
<1> USE DEF disk, peers, history
<1>1. task \in [Task -> TaskState] /\ task[t] \in TaskState
  BY DEF TypeInv, TypeOK
<1>2. Working(t) /\ task[t].pc # "dead" /\ UNCHANGED <<held, online, gather, scan, remove, rename, history>>
  BY EncodingFrame
     DEF Encoding, TypeInv, Pipeline, MergeMetadata, WriteMetadata, SkipDistribution,
         DistributeShards, PushShard, DropLocal, KeepAfterFailure, PushRaises,
         PublishPlacement, Working
<1> DEFINE Own(s) == task' = [task EXCEPT ![t] = s]
<1>3. \E s : Own(s)
  <2>1. CASE Encoding(t)
    <3>1. PICK pc \in {"encode", "encrypt", "merge"}, ok \in BOOLEAN, g \in 0..MaxGen,
               n \in 0..Total :
               Own([task[t] EXCEPT !.pc = pc, !.ok = ok, !.gen = g, !.next = n])
      BY <2>1, EncodingFrame DEF TypeInv
    <3> HIDE DEF Own
    <3> QED
      BY <3>1
  <2>3. CASE MergeMetadata(t)
    <3>1. Own([task[t] EXCEPT !.pc = "write", !.md = IF task[t].ok THEN Merged(t) ELSE Failed])
      BY <2>3 DEF MergeMetadata
    <3> QED
      BY <3>1
  <2>4. CASE WriteMetadata(t)
    <3>1. Own([task[t] EXCEPT !.pc = IF task[t].ok \/ t = "repair" THEN "place" ELSE "done"])
      BY <2>4 DEF WriteMetadata
    <3> QED
      BY <3>1
  <2>5. CASE SkipDistribution(t) \/ PushRaises(t) \/ PublishPlacement(t)
    <3>1. Own([task[t] EXCEPT !.pc = "done"])
      BY <2>5 DEF SkipDistribution, PushRaises, PublishPlacement
    <3> QED
      BY <3>1
  <2>6. CASE DistributeShards(t)
    <3>1. PICK urls \in HealthyUrls :
              Own([task[t] EXCEPT !.pc = "push", !.md = meta, !.next = 0,
                                  !.reply = Absent, !.plan = PlanFor(urls)])
      BY <2>6 DEF DistributeShards
    <3> HIDE DEF Own
    <3> QED
      BY <3>1
  <2>7. CASE PushShard(t)
    <3>1. PICK i \in ToSend(t) :
              Own([task[t] EXCEPT !.pc = "wait", !.next = i,
                                  !.sent = local[PathOf(task[t].md, i)], !.reply = Absent])
      BY <2>7 DEF PushShard
    <3> HIDE DEF Own
    <3> QED
      BY <3>1
  <2>8. CASE DropLocal(t)
    <3>1. Own([task[t] EXCEPT !.pc = "push", !.next = NextShard(t), !.md = HandedOver(t)])
      BY <2>8 DEF DropLocal
    <3> QED
      BY <3>1
  <2>9. CASE KeepAfterFailure(t)
    <3>1. Own([task[t] EXCEPT !.pc = "push", !.next = NextShard(t)])
      BY <2>9 DEF KeepAfterFailure
    <3> QED
      BY <3>1
  <2> QED
    BY <2>1, <2>3, <2>4, <2>5, <2>6, <2>7, <2>8, <2>9 DEF Pipeline, Encoding
<1> QED
  BY <1>1, <1>2, <1>3

(* The steps of a pipeline, one by one.                                    *)
LEMMA BeginStep ==
    ASSUME TypeInv, NEW t \in Task, StartEncoding(t)
    PROVE  /\ task[t].pc = "queued" /\ task'[t].pc = "encode" /\ status' # "none"
           /\ gen' = gen + 1 /\ gen \in Nat
           /\ task'[t].gen = gen' /\ task'[t].next = task[t].next
           /\ UNCHANGED <<meta, local, net>>
           /\ task'[t].plan = task[t].plan
<1>1. gen \in Nat /\ task[t] \in TaskState /\ task \in [Task -> TaskState]
  BY LifecycleAssumption DEF TypeInv, TypeOK
<1> QED
  BY <1>1 DEF StartEncoding, disk, peers, TaskState

(* The encoder and the encryption of a file that nobody deletes.           *)
LEMMA ShardStep ==
    ASSUME TypeInv, NEW t \in Task, WriteShard(t) \/ EncryptShard(t)
    PROVE  /\ task[t].pc \in {"encode", "encrypt"} /\ task'[t].pc = task[t].pc
           /\ task[t].next \in Shard /\ task'[t].next = task[t].next + 1
           /\ task'[t].gen = task[t].gen /\ task'[t].plan = task[t].plan
           /\ task'[t].ok = task[t].ok
           /\ \A f \in File : f # <<t, task[t].next>> => local'[f] = local[f]
           /\ WriteShard(t) => task[t].pc = "encode" /\ local'[<<t, task[t].next>>] # Absent
           /\ EncryptShard(t) /\ task[t].gen # 0 =>
                 /\ task[t].pc = "encrypt"
                 /\ local'[<<t, task[t].next>>] = Absent <=>
                       local[<<t, task[t].next>>] = Absent
           /\ UNCHANGED <<meta, net, gen, status>>
<1>1. /\ task[t] \in TaskState /\ task \in [Task -> TaskState]
      /\ task[t].next \in 0..Total /\ local \in [File -> Content]
  BY DEF TypeInv, TypeOK, TaskState
<1>2. task[t].next \in Shard
  BY <1>1, ConstantFacts DEF WriteShard, EncryptShard, Shard
<1>3. <<t, task[t].next>> \in File
  BY <1>2 DEF File
<1>4. /\ task[t].pc \in {"encode", "encrypt"} /\ UNCHANGED <<meta, net, gen, status>>
      /\ task' = [task EXCEPT ![t].next = @ + 1]
  BY DEF WriteShard, EncryptShard, peers
<1>5. /\ task'[t].pc = task[t].pc /\ task'[t].next = task[t].next + 1
      /\ task'[t].gen = task[t].gen /\ task'[t].plan = task[t].plan
      /\ task'[t].ok = task[t].ok
  BY <1>1, <1>4 DEF TaskState
<1>6. \A f \in File : f # <<t, task[t].next>> => local'[f] = local[f]
  BY <1>1, <1>3 DEF WriteShard, EncryptShard
<1>7. Corrupt # Absent
  BY LifecycleAssumption DEF Corrupt, Absent
<1>8. WriteShard(t) => task[t].pc = "encode" /\ local'[<<t, task[t].next>>] # Absent
  BY <1>1, <1>3, <1>7 DEF WriteShard
<1>9. EncryptShard(t) /\ task[t].gen # 0 =>
          /\ task[t].pc = "encrypt"
          /\ local'[<<t, task[t].next>>] = Absent <=> local[<<t, task[t].next>>] = Absent
  BY <1>1, <1>3 DEF EncryptShard, Absent
<1> QED
  BY <1>2, <1>4, <1>5, <1>6, <1>8, <1>9

LEMMA EncoderStep ==
    ASSUME TypeInv, NEW t \in Task, FinishEncoder(t) \/ FinishEncryption(t)
    PROVE  /\ task[t].next = Total /\ task'[t].gen = task[t].gen
           /\ task'[t].plan = task[t].plan
           /\ UNCHANGED <<meta, local, net, gen, status>>
           /\ FinishEncoder(t) => task[t].pc = "encode" /\ task'[t].pc = "encrypt"
           /\ FinishEncryption(t) => /\ task[t].pc = "encrypt" /\ task'[t].pc = "merge"
                                     /\ task'[t].ok
<1>1. task[t] \in TaskState /\ task \in [Task -> TaskState]
  BY DEF TypeInv, TypeOK
<1>2. task[t].next = Total /\ UNCHANGED <<meta, local, net, gen, status>>
  BY DEF FinishEncoder, FinishEncryption, disk, peers
<1>3. CASE FinishEncoder(t)
  <2>1. /\ task[t].pc = "encode" /\ task'[t].pc = "encrypt" /\ task'[t].gen = task[t].gen
        /\ task'[t].plan = task[t].plan
    BY <1>1, <1>3 DEF FinishEncoder, TaskState
  <2> QED
    BY <1>2, <2>1 DEF FinishEncryption
<1>4. CASE FinishEncryption(t)
  <2>1. /\ task[t].pc = "encrypt" /\ task'[t].pc = "merge" /\ task'[t].gen = task[t].gen
        /\ task'[t].plan = task[t].plan /\ task'[t].ok
    BY <1>1, <1>4 DEF FinishEncryption, TaskState
  <2> QED
    BY <1>2, <2>1 DEF FinishEncoder
<1> QED
  BY <1>3, <1>4

(* The encoder of a file that is tended does not fail.                     *)
LEMMA EncoderRuns ==
    ASSUME Tended, NEW t \in Task, status # "none"
    PROVE  ~EncoderFails(t) /\ ~EncodingRaises(t)
  BY DEF Tended, EncoderFails, EncodingRaises

LEMMA MergeStep ==
    ASSUME TypeInv, NEW t \in Task, task[t].ok, MergeMetadata(t)
    PROVE  /\ task[t].pc = "merge" /\ task'[t].pc = "write"
           /\ task'[t].md = Merged(t) /\ task'[t].md.present
           /\ task[t].gen # 0 => task'[t].md.chunks = FreshChunks(t)
           /\ task'[t].ok /\ task'[t].plan = task[t].plan
           /\ UNCHANGED <<meta, local, net, gen, status>>
<1>1. /\ task[t].pc = "merge" /\ task'[t].pc = "write" /\ task'[t].md = Merged(t)
      /\ task'[t].ok /\ task'[t].plan = task[t].plan
      /\ UNCHANGED <<meta, local, net, gen, status>>
  BY DEF MergeMetadata, disk, peers, TypeInv, TypeOK, TaskState
<1> QED
  BY <1>1 DEF Merged

LEMMA WriteStep ==
    ASSUME TypeInv, NEW t \in Task, task[t].ok, task[t].md.present, WriteMetadata(t)
    PROVE  /\ task[t].pc = "write" /\ task'[t].pc = "place"
           /\ meta' = task[t].md /\ status' # "none"
           /\ UNCHANGED <<local, net, gen>>
           /\ task'[t].plan = task[t].plan
  BY DEF WriteMetadata, peers, TypeInv, TypeOK, TaskState

LEMMA SkipStep ==
    ASSUME TypeInv, NEW t \in Task, SkipDistribution(t)
    PROVE  /\ task[t].pc = "place" /\ task'[t].pc = "done"
           /\ UNCHANGED <<meta, local, net, gen, status>>
           /\ task'[t].plan = task[t].plan
  BY DEF SkipDistribution, disk, peers, TypeInv, TypeOK, TaskState

LEMMA DistributeStep ==
    ASSUME TypeInv, NEW t \in Task, DistributeShards(t)
    PROVE  /\ task[t].pc = "place" /\ task'[t].pc = "push"
           /\ meta.present /\ task'[t].md = meta /\ task'[t].next = 0
           /\ \E urls \in HealthyUrls : task'[t].plan = PlanFor(urls)
           /\ UNCHANGED <<meta, local, net, gen>> /\ status' # "none"
  BY DEF DistributeShards, disk, peers, TypeInv, TypeOK, TaskState

LEMMA PostStep ==
    ASSUME TypeInv, NEW t \in Task, PushShard(t)
    PROVE  \E i \in Shard :
              /\ task[t].pc = "push" /\ task'[t].pc = "wait"
              /\ i >= task[t].next /\ task[t].next \in Nat
              /\ task'[t].next = i /\ task'[t].reply = Absent
              /\ UNCHANGED <<meta, local, gen, status>>
              /\ task'[t].md = task[t].md /\ task'[t].plan = task[t].plan
              /\ task[t].plan[i] \in Peer /\ PathOf(task[t].md, i) \in File
              /\ local[PathOf(task[t].md, i)] # Absent
              /\ \E m : /\ net' = net \cup {m} /\ m = Sent(t)' /\ m \in Push
                        /\ m.to = task[t].plan[i] /\ m.file = PathOf(task[t].md, i)
                        /\ m.gen # Absent
<1>1. PICK i \in ToSend(t) :
          /\ net' = net \cup {[by |-> t, to |-> task[t].plan[i],
                               file |-> PathOf(task[t].md, i),
                               gen |-> local[PathOf(task[t].md, i)]]}
          /\ task' = [task EXCEPT ![t] =
                        [@ EXCEPT !.pc = "wait", !.next = i,
                                  !.sent = local[PathOf(task[t].md, i)],
                                  !.reply = Absent]]
  BY DEF PushShard
<1>2. /\ i \in Shard /\ task[t].plan[i] \in Peer /\ PathOf(task[t].md, i) \in File
      /\ i >= task[t].next /\ task[t].next \in Nat
  BY <1>1, ToSendType, ConstantFacts DEF ToSend, TypeInv, TypeOK, TaskState
<1>3. local[PathOf(task[t].md, i)] # Absent
  BY <1>1 DEF ToSend
<1>4. /\ task[t].pc = "push" /\ task'[t].pc = "wait"
      /\ task'[t].next = i /\ task'[t].reply = Absent
      /\ task'[t].sent = local[PathOf(task[t].md, i)]
      /\ UNCHANGED <<meta, local, gen, status>>
      /\ task'[t].md = task[t].md /\ task'[t].plan = task[t].plan
  <2>1. /\ task[t].pc = "push" /\ UNCHANGED <<meta, local, gen, status>>
    BY DEF PushShard, disk
  <2>2. task[t] \in TaskState /\ task \in [Task -> TaskState]
    BY DEF TypeInv, TypeOK
  <2>3. task'[t] = [task[t] EXCEPT !.pc = "wait", !.next = i,
                                   !.sent = local[PathOf(task[t].md, i)], !.reply = Absent]
    BY <1>1, <2>2
  <2> QED
    BY <2>1, <2>2, <2>3 DEF TaskState
<1> DEFINE m == [by |-> t, to |-> task[t].plan[i], file |-> PathOf(task[t].md, i),
                 gen |-> local[PathOf(task[t].md, i)]]
<1>5. m = Sent(t)'
  BY <1>4 DEF Sent, PathOf
<1>6. m \in Push
  BY <1>2 DEF Push, TypeInv, TypeOK
<1> QED
  BY <1>1, <1>2, <1>3, <1>4, <1>5, <1>6

LEMMA HandOverStep ==
    ASSUME TypeInv, NEW t \in Task, DropLocal(t)
    PROVE  /\ task[t].pc = "wait" /\ task'[t].pc = "push" /\ task[t].reply # Absent
           /\ task[t].next \in Shard /\ task[t].plan[task[t].next] \in Peer
           /\ task'[t].next = task[t].next + 1 /\ task'[t].plan = task[t].plan
           /\ task'[t].md = HandedOver(t) /\ task'[t].md.present = task[t].md.present
           /\ \A i \in Shard :
                 /\ task'[t].md.chunks[i].base = task[t].md.chunks[i].base
                 /\ task'[t].md.chunks[i].peer =
                      IF i = task[t].next THEN task[t].plan[i] ELSE task[t].md.chunks[i].peer
                 /\ task'[t].md.chunks[i].digest =
                      IF i = task[t].next THEN task[t].reply ELSE task[t].md.chunks[i].digest
           /\ \A f \in File : local'[f] # local[f] =>
                 f = PathOf(task[t].md, task[t].next) /\ local'[f] = Absent
           /\ UNCHANGED <<meta, net, gen, status>>
<1>1. /\ task[t].pc = "wait" /\ task'[t].pc = "push" /\ task[t].reply # Absent
      /\ task'[t].next = task[t].next + 1 /\ task'[t].plan = task[t].plan
      /\ task'[t].md = HandedOver(t) /\ UNCHANGED <<meta, net, gen, status>>
  BY DEF DropLocal, NextShard, peers, TypeInv, TypeOK, TaskState
<1>2. task[t].next \in Shard /\ task[t].plan[task[t].next] \in Peer
  BY <1>1 DEF TypeInv, Waiting
<1>3. task[t].md \in Metadata
  BY DEF TypeInv, TypeOK, TaskState
<1>4. /\ HandedOver(t).present = task[t].md.present
      /\ \A i \in Shard :
            /\ HandedOver(t).chunks[i].base = task[t].md.chunks[i].base
            /\ HandedOver(t).chunks[i].peer =
                 IF i = task[t].next THEN task[t].plan[i] ELSE task[t].md.chunks[i].peer
            /\ HandedOver(t).chunks[i].digest =
                 IF i = task[t].next THEN task[t].reply ELSE task[t].md.chunks[i].digest
  <2>1. task[t].sent = task[t].reply
    BY DEF DropLocal, DigestMatches
  <2> QED
    BY <1>2, <1>3, <2>1 DEF HandedOver, Metadata, Chunk
<1>5. \A f \in File : local'[f] # local[f] =>
          f = PathOf(task[t].md, task[t].next) /\ local'[f] = Absent
  BY DEF DropLocal, TypeInv, TypeOK
<1> QED
  BY <1>1, <1>2, <1>4, <1>5

LEMMA GivenUpStep ==
    ASSUME TypeInv, NEW t \in Task, KeepAfterFailure(t)
    PROVE  /\ task[t].pc = "wait" /\ task'[t].pc = "push" /\ GivesUp(t)
           /\ task[t].next \in Shard /\ task[t].plan[task[t].next] \in Peer
           /\ task'[t].next = task[t].next + 1 /\ task'[t].plan = task[t].plan
           /\ task'[t].md = task[t].md /\ net' \subseteq net
           /\ UNCHANGED <<meta, local, gen, status>>
<1>1. /\ task[t].pc = "wait" /\ task'[t].pc = "push" /\ GivesUp(t)
      /\ task'[t].next = task[t].next + 1 /\ task'[t].plan = task[t].plan
      /\ task'[t].md = task[t].md /\ net' \subseteq net
      /\ UNCHANGED <<meta, local, gen, status>>
  BY DEF KeepAfterFailure, NextShard, disk, TypeInv, TypeOK, TaskState
<1> QED
  BY <1>1 DEF TypeInv, Waiting

LEMMA PublishStep ==
    ASSUME TypeInv, NEW t \in Task, PublishPlacement(t)
    PROVE  /\ task[t].pc = "push" /\ task'[t].pc = "done" /\ meta' = task[t].md
           /\ UNCHANGED <<local, net, gen>> /\ status' # "none"
           /\ task'[t].plan = task[t].plan
  BY DEF PublishPlacement, peers, TypeInv, TypeOK, TaskState

LEMMA NoRaise == ASSUME Tended, NEW t \in Task PROVE ~PushRaises(t)
  BY DEF Tended, PushRaises

LEMMA ControlWorks ==
    ASSUME TypeInv, Control, NEW t \in Task, Pipeline(t),
           task'[t].pc \notin {"new", "dead"}, task'[t].pc = "done" => meta'.present \/ meta' = meta,
           status' # "none", gen' >= gen, gen' \in Nat,
           task'[t].pc # "queued" /\ task[t].pc = "queued" => gen' > gen,
           task'[t].pc \in {"merge", "write"} => task'[t].ok,
           task'[t].pc \in {"write", "push", "wait"} => task'[t].md.present,
           meta'.present \/ meta' = meta
    PROVE  Control'
<1>1. /\ Working(t) /\ UNCHANGED <<online, gather, scan, remove, rename>>
      /\ \A u \in Task \ {t} : task'[u] = task[u]
      /\ gen \in Nat /\ task \in [Task -> TaskState]
  BY PipelineFrame, LifecycleAssumption DEF TypeInv, TypeOK
<1>2. CASE t = "upload"
  <2>1. task["repair"].pc = "new" /\ task'["repair"] = task["repair"] /\ scan.pc = "idle"
    BY <1>1, <1>2, OneWorks DEF Task
  <2> QED
    BY <1>1, <1>2, <2>1 DEF Control, Task, up, Working
<1>3. CASE t = "repair"
  <2>1. up.pc = "done" /\ up' = up /\ scan.pc = "rebuild"
    BY <1>1, <1>3, OneWorks DEF Task, up
  <2>2. task["repair"].pc \notin {"new", "queued"} => gen >= 2
    BY DEF Control
  <2>3. gen >= 1
    BY <2>1 DEF Control
  <2> QED
    BY <1>1, <1>3, <2>1, <2>2, <2>3 DEF Control, Task, up, Working
<1> QED
  BY <1>2, <1>3 DEF Task

LEMMA ControlPipeline ==
    ASSUME Tended, TypeInv, Control, NEW t \in Task, Pipeline(t)
    PROVE  Control'
<1>1. Working(t) /\ status # "none" /\ gen \in Nat /\ up \in TaskState
  <2>1. Working(t)
    BY PipelineFrame
  <2>2. up.pc # "new"
    BY <2>1, OneWorks DEF Working, up, Task
  <2> QED
    BY <2>1, <2>2 DEF Control, TypeInv, TypeOK, up, Task
<1>2. CASE StartEncoding(t)
  BY <1>1, <1>2, BeginStep, ControlWorks
<1>3. CASE WriteShard(t) \/ EncryptShard(t)
  <2>1. /\ task[t].pc \in {"encode", "encrypt"} /\ task'[t].pc = task[t].pc
        /\ UNCHANGED <<meta, gen, status>>
    BY <1>3, ShardStep
  <2> QED
    BY <1>1, <2>1, ControlWorks
<1>12. CASE FinishEncoder(t) \/ FinishEncryption(t)
  BY <1>1, <1>12, EncoderStep, ControlWorks
<1>4. CASE MergeMetadata(t)
  <2>1. task[t].ok
    BY <1>4 DEF MergeMetadata, Control
  <2> QED
    BY <1>1, <1>4, <2>1, MergeStep, ControlWorks
<1>5. CASE WriteMetadata(t)
  <2>1. task[t].ok /\ task[t].md.present
    BY <1>5 DEF WriteMetadata, Control
  <2> QED
    BY <1>1, <1>5, <2>1, WriteStep, ControlWorks
<1>6. CASE SkipDistribution(t)
  BY <1>1, <1>6, SkipStep, ControlWorks
<1>7. CASE DistributeShards(t)
  BY <1>1, <1>7, DistributeStep, ControlWorks
<1>8. CASE PushShard(t)
  <2>1. /\ task[t].pc = "push" /\ task'[t].pc = "wait" /\ task'[t].md = task[t].md
        /\ UNCHANGED <<meta, gen, status>>
    BY <1>8, PostStep
  <2> QED
    BY <1>1, <2>1, ControlWorks DEF Control
<1>9. CASE DropLocal(t)
  <2>1. task[t].md.present
    BY <1>9 DEF DropLocal, Control
  <2> QED
    BY <1>1, <1>9, <2>1, HandOverStep, ControlWorks
<1>10. CASE KeepAfterFailure(t)
  <2>1. task[t].md.present
    BY <1>10 DEF KeepAfterFailure, Control
  <2> QED
    BY <1>1, <1>10, <2>1, GivenUpStep, ControlWorks
<1>11. CASE PublishPlacement(t)
  <2>1. task[t].md.present
    BY <1>11 DEF PublishPlacement, Control
  <2> QED
    BY <1>1, <1>11, <2>1, PublishStep, ControlWorks
<1> QED
  BY <1>2, <1>3, <1>4, <1>5, <1>6, <1>7, <1>8, <1>9, <1>1, <1>10, <1>11, <1>12, NoRaise,
     EncoderRuns DEF Pipeline

(* What stays away from a file that is tended.                             *)
LEMMA TendedOnly ==
    ASSUME Tended, TypeInv, Control
    PROVE  /\ ~RenameRead /\ ~RenameWrite /\ ~DeleteFile /\ ~Crash
           /\ ~Removing("delete")
  <1>1. ~RenameRead /\ ~RenameWrite /\ ~DeleteFile /\ ~Crash
    BY DEF Tended, Control, RenameRead, RenameWrite, DeleteFile, Admitted, Crash
  <1>2. ~Removing("delete")
    BY DEF Control, Removing, DropReplicas, RemoveShards
  <1> QED
    BY <1>1, <1>2

LEMMA ControlStep ==
    ASSUME Tended, TypeInv, Control, [Next]_vars
    PROVE  Control'
<1> USE DEF disk, peers, history
<1>1. /\ task \in [Task -> TaskState] /\ gather \in [Reader -> GatherState]
      /\ remove \in [Remover -> RemoveState] /\ Task = {"upload", "repair"}
      /\ "read" \in Reader /\ "repair" \in Reader /\ "delete" \in Remover /\ "purge" \in Remover
  BY DEF TypeInv, TypeOK, Task, Reader, Remover
<1>2. CASE UploadFile
  <2>1. task' = [task EXCEPT !["upload"].pc = "queued"] /\ up.pc = "new" /\ status' = "processing"
    BY <1>2 DEF UploadFile, up
  <2>2. up'.pc = "queued" /\ task'["repair"] = task["repair"]
    BY <1>1, <2>1 DEF up, TaskState
  <2>3. UNCHANGED <<online, gen, gather, scan, remove, rename>>
    BY <1>2 DEF UploadFile
  <2> QED
    BY <1>1, <2>1, <2>2, <2>3 DEF Control, up
<1>3. CASE ReadFile \/ Reading
  <2>1. UNCHANGED <<meta, online, gen, task, scan, remove, rename, status>>
    BY <1>3
       DEF ReadFile, StartGather, Reading, ServeRange, GatherAll, FinishRead, FetchShard
  <2>2. gather'["repair"] = gather["repair"]
    BY <1>1, <1>3 DEF ReadFile, StartGather, Reading, ServeRange, GatherAll, FinishRead,
                      FetchShard
  <2> QED
    BY <2>1, <2>2 DEF Control, up
<1>4. CASE StartScan
  <2>1. /\ meta.present /\ scan'.pc = "listed" /\ scan'.md = meta
        /\ up.pc \in Rest /\ scan.pc = "idle"
        /\ UNCHANGED <<meta, online, gen, task, gather, remove, rename, status>>
    BY <1>4 DEF StartScan, Admitted, Tended, up, IdleScan
  <2> QED
    BY <2>1 DEF Control, up, Rest
<1>18. CASE AssessLocal
  <2>1. /\ scan'.pc = "probe" /\ scan.pc = "listed" /\ scan'.md = scan.md
        /\ UNCHANGED <<meta, online, gen, task, gather, remove, rename, status>>
    BY <1>18 DEF AssessLocal, TypeInv, TypeOK, ScanState
  <2> QED
    BY <2>1 DEF Control, up
<1>5. ASSUME NEW p \in Peer, ProbePeer(p) PROVE Control'
  <2>1. /\ scan'.pc = "probe" /\ scan.pc = "probe" /\ scan'.md = scan.md
        /\ UNCHANGED <<meta, online, gen, task, gather, remove, rename, status>>
    BY <1>5 DEF ProbePeer, TypeInv, TypeOK, ScanState
  <2> QED
    BY <2>1 DEF Control, up
<1>6. CASE Classify
  <2>1. /\ scan'.pc = "verdict" /\ scan.pc = "probe" /\ scan'.md = scan.md
        /\ UNCHANGED <<meta, online, gen, task, gather, remove, rename, status>>
    BY <1>6 DEF Classify, TypeInv, TypeOK, ScanState
  <2> QED
    BY <2>1 DEF Control, up
<1>7. CASE LeaveAlone \/ PurgeOrphan
  <2>1. /\ scan'.pc = "idle" /\ scan.pc = "verdict"
        /\ UNCHANGED <<online, gen, task, gather, remove, rename, status>>
    BY <1>7 DEF LeaveAlone, PurgeOrphan, IdleScan
  <2> QED
    BY <2>1 DEF Control, up
<1>8. CASE StartRebuild
  <2>1. /\ scan'.pc = "rebuild" /\ scan.pc = "verdict" /\ meta.present
        /\ UNCHANGED <<meta, online, gen, task, remove, rename, status>>
    BY <1>8 DEF StartRebuild, StartGather, TypeInv, TypeOK, ScanState
  <2> QED
    BY <2>1 DEF Control, up
<1>9. CASE AbandonRebuild
  <2>1. /\ scan'.pc = "idle" /\ gather'["repair"].pc = "idle" /\ gather["repair"].pc = "fetch"
        /\ UNCHANGED <<meta, online, gen, task, remove, rename, status>>
    BY <1>1, <1>9 DEF AbandonRebuild, IdleScan, IdleGather
  <2>2. task["repair"].pc = "new" /\ scan.pc = "rebuild"
    BY <2>1 DEF Control
  <2> QED
    BY <2>1, <2>2 DEF Control, up
<1>10. ASSUME NEW i \in Shard, FetchShard("repair", i) PROVE Control'
  <2>1. /\ gather["repair"].pc = "fetch"
        /\ UNCHANGED <<meta, online, gen, task, scan, remove, rename, status>>
    BY <1>10 DEF FetchShard
  <2>2. task["repair"].pc = "new" /\ scan.pc = "rebuild"
    BY <2>1 DEF Control
  <2> QED
    BY <2>1, <2>2 DEF Control, up
<1>11. CASE ReplaceShards
  <2>1. /\ task' = [task EXCEPT !["repair"] =
                      [IdleTask EXCEPT !.pc = "queued", !.md = gather["repair"].md]]
        /\ gather'["repair"].pc = "idle" /\ gather["repair"].pc = "fetch"
        /\ UNCHANGED <<meta, online, gen, scan, remove, rename, status>>
    BY <1>1, <1>11 DEF ReplaceShards, IdleGather
  <2>2. task'["repair"].pc = "queued" /\ up' = up
    BY <1>1, <2>1 DEF up, IdleTask
  <2>3. scan.pc = "rebuild"
    BY <2>1 DEF Control
  <2> QED
    BY <1>1, <2>1, <2>2, <2>3 DEF Control, up
<1>12. CASE FinishRebuild
  <2>1. /\ task' = [task EXCEPT !["repair"] = IdleTask] /\ scan'.pc = "idle"
        /\ task["repair"].pc = "done"
        /\ UNCHANGED <<meta, online, gen, gather, remove, rename, status>>
    BY <1>12 DEF FinishRebuild, IdleScan
  <2>2. task'["repair"].pc = "new" /\ up' = up
    BY <1>1, <2>1 DEF up, IdleTask
  <2> QED
    BY <1>1, <2>1, <2>2 DEF Control, up
<1>13. CASE PurgeUnrecoverable
  <2>1. /\ scan'.pc = "purge" /\ scan.pc = "verdict" /\ ~meta'.present
        /\ remove'["delete"] = remove["delete"]
        /\ UNCHANGED <<online, gen, task, gather, rename, status>>
    BY <1>1, <1>13
       DEF PurgeUnrecoverable, RetireMetadata, Unlink, NoMetadata, TypeInv, TypeOK,
              ScanState
  <2> QED
    BY <2>1 DEF Control, up
<1>14. ASSUME Removing("purge") PROVE Control'
  <2>1. CASE RemoveShards("purge")
    <3>1. /\ scan'.pc = "idle" /\ remove["purge"].pc = "tell" /\ remove'["purge"].pc = "idle"
          /\ remove'["delete"] = remove["delete"]
          /\ UNCHANGED <<meta, online, gen, task, gather, rename, status>>
      BY <1>1, <2>1 DEF RemoveShards, IdleScan, RemoveState
    <3> QED
      BY <3>1 DEF Control, up
  <2>2. ASSUME NEW p \in Peer, DropReplicas("purge", p) PROVE Control'
    <3>1. /\ remove["purge"].pc = "tell" /\ remove'["purge"].pc = "tell"
          /\ remove'["delete"] = remove["delete"]
          /\ UNCHANGED <<meta, online, gen, task, gather, rename, status, scan>>
      BY <1>1, <2>2 DEF DropReplicas, RemoveState
    <3> QED
      BY <3>1 DEF Control, up
  <2> QED
    BY <1>14, <2>1, <2>2 DEF Removing
<1>15. ASSUME NEW m \in net, ReceiveShard(m) PROVE Control'
  <2>1. m.by \in Task
    BY DEF TypeInv, TypeOK, Push
  <2>2. UNCHANGED <<meta, online, gen, gather, remove, rename, status, scan>>
    BY <1>15 DEF ReceiveShard
  <2>3. \A t \in Task : /\ task'[t].pc = task[t].pc /\ task'[t].md = task[t].md
                        /\ task'[t].ok = task[t].ok
    BY <1>1, <1>15, <2>1 DEF ReceiveShard, TaskState
  <2> QED
    BY <1>1, <2>2, <2>3 DEF Control, up
<1>16. CASE Environment
  <2>1. UNCHANGED <<meta, gen, task, gather, remove, rename, status, scan>>
    BY <1>16, TendedOnly DEF Environment, PeerOffline, PeerOnline, PeerLosesShard
  <2>2. "offline" \notin Events /\ online = Peer => online' = online
    BY <1>16, TendedOnly DEF Environment, PeerOffline, PeerOnline, PeerLosesShard
  <2> QED
    BY <2>1, <2>2 DEF Control, up
<1>17. CASE UNCHANGED vars
  BY <1>17 DEF vars, Control, up
<1> QED
  BY <1>2, <1>3, <1>4, <1>5, <1>6, <1>7, <1>8, <1>9, <1>10, <1>11, <1>12, <1>13, <1>14,
     <1>15, <1>16, <1>17, <1>18, ControlPipeline, TendedOnly DEF Next, Requests,
     Repairing, Remover

-----------------------------------------------------------------------------
(* Where shards can be.  As long as all peers are there, every plan deals  *)
(* the shards round the same ring; as long as the file was encoded once,   *)
(* there is only the plan of its upload.                                   *)

Target == IF Prompt THEN PlanFor(PeerOrder) ELSE up.plan

Awaits(t, m) == task[t].pc = "wait" /\ task[t].reply = Absent /\ m = Sent(t)

Aimed ==
    /\ up.pc \in AtHome => net = {} /\ \A p \in Peer, f \in File : held[p][f] = Absent
    /\ \A m \in net : m.gen # Absent
    /\ Prompt => \A m \in net : \E t \in Task : Awaits(t, m)
    /\ Traced =>
          /\ \A p \in Peer, f \in File : held[p][f] # Absent => Target[f[2]] = p
          /\ \A m \in net : Target[m.file[2]] = m.to
          /\ \A t \in Task : task[t].pc \in {"push", "wait"} =>
                /\ task[t].plan = Target
                /\ \A m \in net : m.file[2] < task[t].next \/ Awaits(t, m)

(* With all peers there, they can be listed in one order only.             *)
LEMMA OneRing ==
    ASSUME Prompt, online = Peer, NEW urls \in HealthyUrls
    PROVE  urls = PeerOrder
<1> DEFINE Rings == UNION {[1..n -> Peer] : n \in 0..Cardinality(Peer)}
<1>1. /\ urls \in Rings /\ PeerOrder \in Rings
      /\ \A j, k \in DOMAIN urls : urls[j] = urls[k] => j = k
      /\ \A j, k \in DOMAIN PeerOrder : PeerOrder[j] = PeerOrder[k] => j = k
  BY LifecycleAssumption DEF HealthyUrls, Ring
<1>2. PICK n \in Nat : urls \in [1..n -> Peer]
  BY <1>1, FS_CardinalityType, ShardsAssumption
<1>3. PICK o \in Nat : PeerOrder \in [1..o -> Peer]
  BY <1>1, FS_CardinalityType, ShardsAssumption
<1> HIDE DEF Rings
<1>4. \A p \in Peer : /\ \E k \in 1..n : urls[k] = p
                      /\ \E k \in 1..o : PeerOrder[k] = p
  BY <1>2, <1>3, LifecycleAssumption DEF HealthyUrls, Prompt
<1>5. \A j, k \in 1..n, a, b \in 1..o :
          urls[j] = PeerOrder[a] /\ urls[k] = PeerOrder[b] /\ j < k => a < b
  BY <1>2, <1>3 DEF HealthyUrls, InPeerOrder
<1>6. /\ \A j, k \in 1..n : urls[j] = urls[k] => j = k
      /\ \A j, k \in 1..o : PeerOrder[j] = PeerOrder[k] => j = k
  BY <1>1, <1>2, <1>3
<1> DEFINE Differ == {k \in Nat : k \in 1..n /\ k \in 1..o /\ urls[k] # PeerOrder[k]}
<1>7. Differ = {}
  <2> SUFFICES ASSUME Differ # {} PROVE FALSE
    OBVIOUS
  <2>1. PICK k \in Differ : \A l \in Differ : k <= l
    <3>1. Differ \in SUBSET Nat
      OBVIOUS
    <3> HIDE DEF Differ
    <3> QED
      BY <3>1, LeastNumber
  <2>2. PICK j \in 1..n : urls[j] = PeerOrder[k]
    BY <1>3, <1>4
  <2>3. PICK a \in 1..o : urls[k] = PeerOrder[a]
    BY <1>2, <1>4
  <2>4. ~(j < k)
    <3>1. j < k => urls[j] = PeerOrder[j] /\ j \in 1..o
      BY <2>1, <2>2
    <3> QED
      BY <1>6, <2>1, <2>2, <3>1
  <2>5. k < j
    BY <2>1, <2>2, <2>4
  <2>6. a < k
    BY <1>5, <2>1, <2>2, <2>3, <2>5
  <2>7. urls[a] = PeerOrder[a] /\ a \in 1..n
    BY <2>1, <2>6
  <2> QED
    BY <1>6, <2>1, <2>3, <2>6, <2>7
<1>8. \A k \in 1..n : k \in 1..o => urls[k] = PeerOrder[k]
  BY <1>7
<1> HIDE DEF Differ
<1>9. ~(n < o)
  <2> SUFFICES ASSUME n < o PROVE FALSE
    OBVIOUS
  <2>1. PICK j \in 1..n : urls[j] = PeerOrder[n + 1]
    BY <1>3, <1>4
  <2>2. PeerOrder[j] = PeerOrder[n + 1] /\ j \in 1..o /\ n + 1 \in 1..o
    BY <1>8, <2>1
  <2> QED
    BY <1>6, <2>1, <2>2
<1>10. ~(o < n)
  <2> SUFFICES ASSUME o < n PROVE FALSE
    OBVIOUS
  <2>1. PICK a \in 1..o : PeerOrder[a] = urls[o + 1]
    BY <1>2, <1>4
  <2>2. urls[a] = urls[o + 1] /\ a \in 1..n /\ o + 1 \in 1..n
    BY <1>8, <2>1
  <2> QED
    BY <1>6, <2>1, <2>2
<1>11. n = o
  BY <1>9, <1>10
<1> QED
  BY <1>2, <1>3, <1>8, <1>11

LEMMA AimedInit == Init => Aimed
<1> SUFFICES ASSUME Init PROVE Aimed
  OBVIOUS
<1>1. net = {} /\ \A p \in Peer, f \in File : held[p][f] = Absent
  BY DEF Init, NoFiles
<1>2. \A t \in Task : task[t].pc = "new"
  BY DEF Init, IdleTask
<1> QED
  BY <1>1, <1>2 DEF Aimed

(* Whatever sends nothing and begins no distribution.                      *)
LEMMA AimedFrame ==
    ASSUME TypeInv, TypeInv', Aimed, Traced' => Traced, up'.pc \in AtHome => up.pc \in AtHome,
           up'.plan = up.plan, net' \subseteq net,
           \A p \in Peer, f \in File : held'[p][f] # Absent =>
              held[p][f] # Absent \/ \E m \in net : m.to = p /\ m.file = f,
           \A t \in Task, m \in net' : Awaits(t, m) =>
              Awaits(t, m)' \/ (~Prompt /\ m.file[2] < task'[t].next),
           \A t \in Task : task'[t].pc \in {"push", "wait"} =>
              /\ task[t].pc \in {"push", "wait"} /\ task'[t].plan = task[t].plan
              /\ task'[t].next >= task[t].next
    PROVE  Aimed'
<1>1. Target' = Target
  BY DEF Target
<1>2. /\ \A m \in net' : m.gen # Absent
      /\ Prompt => \A m \in net' : \E t \in Task : Awaits(t, m)'
  BY DEF Aimed
<1>3. ASSUME Traced'
      PROVE  /\ \A p \in Peer, f \in File : held'[p][f] # Absent => Target[f[2]] = p
             /\ \A m \in net' : Target[m.file[2]] = m.to
             /\ \A t \in Task : task'[t].pc \in {"push", "wait"} => task'[t].plan = Target
  BY <1>3 DEF Aimed
<1>4. ASSUME Traced', NEW t \in Task, task'[t].pc \in {"push", "wait"}, NEW m \in net'
      PROVE  m.file[2] < task'[t].next \/ Awaits(t, m)'
  <2>1. m.file[2] < task[t].next \/ Awaits(t, m)
    BY <1>4 DEF Aimed
  <2>2. m.file[2] \in Nat /\ task[t].next \in Nat /\ task'[t].next \in Nat
    BY ConstantFacts DEF TypeInv, TypeOK, TaskState, Push, File, Shard
  <2> QED
    BY <1>4, <2>1, <2>2
<1>5. up'.pc \in AtHome => net' = {} /\ \A p \in Peer, f \in File : held'[p][f] = Absent
  BY DEF Aimed
<1> QED
  BY <1>1, <1>2, <1>3, <1>4, <1>5 DEF Aimed

(* A shard is posted according to the plan.                                *)
LEMMA AimedPost ==
    ASSUME TypeInv, TypeInv', Control, Aimed, NEW t \in Task, Pipeline(t), PushShard(t)
    PROVE  Aimed'
<1>1. PICK i \in Shard :
              /\ task[t].pc = "push" /\ task'[t].pc = "wait"
              /\ i >= task[t].next /\ task[t].next \in Nat
              /\ task'[t].next = i /\ task'[t].reply = Absent
              /\ UNCHANGED <<meta, local, gen, status>>
              /\ task'[t].md = task[t].md /\ task'[t].plan = task[t].plan
              /\ \E m : /\ net' = net \cup {m} /\ m = Sent(t)' /\ m \in Push
                        /\ m.to = task[t].plan[i] /\ m.file = PathOf(task[t].md, i)
                        /\ m.gen # Absent
  BY PostStep
<1>2. PICK n : /\ net' = net \cup {n} /\ n = Sent(t)' /\ n \in Push
               /\ n.to = task[t].plan[i] /\ n.file[2] = i /\ n.gen # Absent
  BY <1>1 DEF PathOf
<1>3. Awaits(t, n)'
  BY <1>1, <1>2 DEF Awaits
<1>4. /\ held' = held /\ \A u \in Task \ {t} : task'[u] = task[u] /\ ~Working(u)
      /\ Working(t)
  BY PipelineFrame, OneWorks
<1>5. up'.plan = up.plan /\ up'.pc \notin AtHome
  <2>1. CASE t = "upload"
    BY <1>1, <2>1 DEF up, AtHome
  <2>2. CASE t = "repair"
    <3>1. up.pc = "done" /\ up' = up
      BY <1>4, <2>2, OneWorks DEF up, Task
    <3> QED
      BY <3>1 DEF AtHome
  <2> QED
    BY <2>1, <2>2 DEF Task
<1>6. Target' = Target /\ (Traced' => Traced)
  BY <1>1, <1>5 DEF Target, Traced
<1>7. ASSUME NEW u \in Task, NEW m PROVE ~Awaits(u, m)
  BY <1>1, <1>4 DEF Awaits, Working
<1>8. Prompt => net = {}
  BY <1>7 DEF Aimed
<1>9. ASSUME Traced', NEW m \in net'
      PROVE  Target[m.file[2]] = m.to /\ (m.file[2] < i \/ Awaits(t, m)')
  <2>1. CASE m = n
    BY <1>1, <1>2, <1>3, <1>6, <1>9, <2>1 DEF Aimed
  <2>2. CASE m \in net
    <3>1. m.file[2] < task[t].next /\ Target[m.file[2]] = m.to
      BY <1>1, <1>6, <1>7, <1>9, <2>2 DEF Aimed
    <3>2. m.file[2] \in Nat /\ i \in Nat
      BY <2>2, ConstantFacts DEF TypeInv, TypeOK, Push, File
    <3> QED
      BY <1>1, <3>1, <3>2
  <2> QED
    BY <1>2, <1>9, <2>1, <2>2
<1>10. \A u \in Task \ {t} : task'[u].pc \notin {"push", "wait"}
  BY <1>4 DEF Working
<1>11. Prompt => \A m \in net' : \E u \in Task : Awaits(u, m)'
  BY <1>2, <1>3, <1>8
<1>12. \A m \in net' : m.gen # Absent
  BY <1>2 DEF Aimed
<1>13. ASSUME Traced'
       PROVE  /\ \A p \in Peer, f \in File : held'[p][f] # Absent => Target[f[2]] = p
              /\ task'[t].plan = Target
  BY <1>1, <1>4, <1>6, <1>13 DEF Aimed
<1>14. ASSUME Traced', NEW u \in Task, task'[u].pc \in {"push", "wait"}
       PROVE  task'[u].plan = Target /\ \A m \in net' : m.file[2] < task'[u].next \/ Awaits(u, m)'
  BY <1>1, <1>9, <1>10, <1>13, <1>14
<1> QED
  BY <1>5, <1>6, <1>9, <1>11, <1>12, <1>13, <1>14 DEF Aimed

LEMMA AimedDistribute ==
    ASSUME TypeInv, Control, Aimed, NEW t \in Task, Pipeline(t), DistributeShards(t)
    PROVE  Aimed'
<1>1. /\ task[t].pc = "place" /\ task'[t].pc = "push" /\ task'[t].next = 0
      /\ UNCHANGED <<meta, local, net, gen>>
  BY DistributeStep
<1>2. PICK urls \in HealthyUrls : task'[t].plan = PlanFor(urls)
  BY DistributeStep
<1>3. /\ held' = held /\ \A u \in Task \ {t} : task'[u] = task[u] /\ ~Working(u)
      /\ Working(t)
  BY PipelineFrame, OneWorks
<1>4. ASSUME NEW u \in Task, NEW m PROVE ~Awaits(u, m)
  BY <1>1, <1>3 DEF Awaits, Working
<1>5. Prompt => net = {}
  BY <1>4 DEF Aimed
<1>6. Prompt => task'[t].plan = PlanFor(PeerOrder)
  BY <1>2, OneRing DEF Prompt, Control
<1>7. CASE t = "upload"
  <2>1. net = {} /\ \A p \in Peer, f \in File : held[p][f] = Absent
    BY <1>1, <1>7 DEF Aimed, AtHome, up
  <2>2. up'.pc \notin AtHome /\ task'[t].plan = Target'
    BY <1>1, <1>6, <1>7 DEF AtHome, up, Target
  <2>3. \A u \in Task \ {t} : task'[u].pc \notin {"push", "wait"}
    BY <1>3 DEF Working
  <2> QED
    BY <1>1, <1>3, <2>1, <2>2, <2>3 DEF Aimed
<1>8. CASE t = "repair"
  <2>1. up.pc = "done" /\ up' = up /\ gen >= 2 /\ gen \in Nat
    BY <1>1, <1>3, <1>8, OneWorks DEF up, Control, Task, TypeInv, TypeOK
  <2>2. Traced => Prompt
    BY <2>1 DEF Traced
  <2>3. Target' = Target /\ (Traced' <=> Traced)
    BY <1>1, <2>1 DEF Target, Traced
  <2>4. \A u \in Task \ {t} : task'[u].pc \notin {"push", "wait"}
    BY <1>3 DEF Working
  <2>5. Prompt => task'[t].plan = Target
    BY <1>6 DEF Target
  <2>6. /\ up'.pc \notin AtHome
        /\ \A m \in net' : m.gen # Absent
        /\ Prompt => \A m \in net' : \E u \in Task : Awaits(u, m)'
    BY <1>1, <1>5, <2>1 DEF AtHome, Aimed
  <2>7. Traced => \A p \in Peer, f \in File : held'[p][f] # Absent => Target[f[2]] = p
    BY <1>3 DEF Aimed
  <2> QED
    BY <1>1, <1>5, <2>2, <2>3, <2>4, <2>5, <2>6, <2>7 DEF Aimed
<1> QED
  BY <1>7, <1>8 DEF Task

(* A pipeline that sends nothing and begins no distribution.               *)
LEMMA AimedWorks ==
    ASSUME TypeInv, TypeInv', Aimed, NEW t \in Task, Pipeline(t),
           gen' \in Nat, gen \in Nat, gen' >= gen, net' \subseteq net,
           task'[t].plan = task[t].plan, task'[t].pc \in AtHome => task[t].pc \in AtHome,
           task[t].pc = "wait" => /\ task'[t].pc = "push" /\ task'[t].next = task[t].next + 1
                                  /\ Prompt => task[t].reply # Absent,
           task'[t].pc \in {"push", "wait"} => task[t].pc = "wait"
    PROVE  Aimed'
<1>1. /\ held' = held /\ \A u \in Task \ {t} : task'[u] = task[u]
      /\ task \in [Task -> TaskState] /\ task[t].next \in Nat
  BY PipelineFrame, ConstantFacts DEF TypeInv, TypeOK, TaskState
<1>2. Traced' => Traced
  BY DEF Traced
<1>3. up'.plan = up.plan /\ (up'.pc \in AtHome => up.pc \in AtHome)
  BY <1>1 DEF up, Task
<1>4. ASSUME NEW u \in Task, NEW m \in net', Awaits(u, m)
      PROVE  Awaits(u, m)' \/ (~Prompt /\ m.file[2] < task'[u].next)
  <2>1. CASE u = t
    <3>1. task[t].pc = "wait" /\ ~Prompt /\ m.file[2] = task[t].next
      BY <1>4, <2>1 DEF Awaits, Sent, PathOf
    <3> QED
      BY <1>1, <2>1, <3>1
  <2>2. CASE u # t
    BY <1>1, <1>4, <2>2 DEF Awaits, Sent, PathOf
  <2> QED
    BY <2>1, <2>2
<1>5. ASSUME NEW u \in Task, task'[u].pc \in {"push", "wait"}
      PROVE  /\ task[u].pc \in {"push", "wait"} /\ task'[u].plan = task[u].plan
             /\ task'[u].next >= task[u].next
  <2>1. CASE u = t
    BY <1>1, <1>5, <2>1
  <2>2. CASE u # t
    <3>1. task[u].next \in Nat
      BY ConstantFacts DEF TypeInv, TypeOK, TaskState
    <3> QED
      BY <1>1, <1>5, <2>2, <3>1
  <2> QED
    BY <2>1, <2>2
<1> QED
  BY <1>1, <1>2, <1>3, <1>4, <1>5, AimedFrame

LEMMA AimedPipeline ==
    ASSUME Tended, TypeInv, TypeInv', Control, Aimed, NEW t \in Task, Pipeline(t)
    PROVE  Aimed'
<1>1. gen \in Nat /\ status # "none" /\ task[t].pc \in Stage
  <2>1. Working(t)
    BY PipelineFrame
  <2>2. up.pc # "new"
    BY <2>1, OneWorks DEF Working, up, Task
  <2> QED
    BY <2>2, LifecycleAssumption DEF Control, TypeInv, TypeOK, TaskState
<1>2. CASE StartEncoding(t)
  BY <1>1, <1>2, BeginStep, AimedWorks DEF AtHome
<1>3. CASE WriteShard(t) \/ EncryptShard(t)
  <2>1. /\ task[t].pc \in {"encode", "encrypt"} /\ task'[t].pc = task[t].pc
        /\ task'[t].plan = task[t].plan /\ UNCHANGED <<net, gen>>
    BY <1>3, ShardStep
  <2> QED
    BY <1>1, <2>1, AimedWorks DEF AtHome
<1>12. CASE FinishEncoder(t) \/ FinishEncryption(t)
  BY <1>1, <1>12, EncoderStep, AimedWorks DEF AtHome
<1>4. CASE MergeMetadata(t)
  <2>1. task[t].ok
    BY <1>4 DEF MergeMetadata, Control
  <2> QED
    BY <1>1, <1>4, <2>1, MergeStep, AimedWorks DEF AtHome
<1>5. CASE WriteMetadata(t)
  <2>1. task[t].ok /\ task[t].md.present
    BY <1>5 DEF WriteMetadata, Control
  <2> QED
    BY <1>1, <1>5, <2>1, WriteStep, AimedWorks DEF AtHome
<1>6. CASE SkipDistribution(t)
  BY <1>1, <1>6, SkipStep, AimedWorks DEF AtHome
<1>7. CASE DistributeShards(t)
  BY <1>7, AimedDistribute
<1>8. CASE PushShard(t)
  BY <1>8, AimedPost
<1>9. CASE DropLocal(t)
  BY <1>1, <1>9, HandOverStep, AimedWorks DEF AtHome
<1>10. CASE KeepAfterFailure(t)
  <2>1. Prompt => task[t].reply # Absent
    <3>1. Sent(t).to \in Peer
      BY <1>10, GivenUpStep DEF Sent
    <3> QED
      BY <1>10, <3>1, GivenUpStep DEF GivesUp, Prompt, Control
  <2> QED
    BY <1>1, <1>10, <2>1, GivenUpStep, AimedWorks DEF AtHome
<1>11. CASE PublishPlacement(t)
  BY <1>1, <1>11, PublishStep, AimedWorks DEF AtHome
<1> QED
  BY <1>1, <1>2, <1>3, <1>4, <1>5, <1>6, <1>7, <1>8, <1>9, <1>10, <1>11, <1>12, NoRaise,
     EncoderRuns DEF Pipeline

(* What a message that arrives does to the tasks.                          *)
LEMMA Arrives ==
    ASSUME TypeInv, NEW m \in net, ReceiveShard(m)
    PROVE  /\ net' = net \ {m} /\ m.to \in Peer /\ m.file \in File /\ m.by \in Task
           /\ \A p \in Peer, f \in File :
                 held'[p][f] # held[p][f] => p = m.to /\ f = m.file
           /\ m.gen # Absent => held'[m.to][m.file] # Absent
           /\ \A t \in Task :
                 /\ task'[t].pc = task[t].pc /\ task'[t].md = task[t].md
                 /\ task'[t].ok = task[t].ok /\ task'[t].gen = task[t].gen
                 /\ task'[t].sent = task[t].sent
                 /\ task'[t].plan = task[t].plan /\ task'[t].next = task[t].next
                 /\ Sent(t)' = Sent(t)
                 /\ task'[t].reply # task[t].reply =>
                       /\ task[t].pc = "wait" /\ Sent(t) = m
                       /\ held'[m.to][m.file] = task'[t].reply
           /\ UNCHANGED <<meta, local, online, gen, status, gather, scan, remove, rename,
                          wanted, deleted, crashes, losses>>
<1>1. /\ m.to \in Peer /\ m.file \in File /\ m.by \in Task
      /\ task \in [Task -> TaskState] /\ held \in [Peer -> [File -> Content]]
  BY DEF TypeInv, TypeOK, Push
<1>2. PICK stored \in {m.gen} \cup (IF "corrupt" \in Events THEN {Corrupt} ELSE {}) :
          /\ held' = [held EXCEPT ![m.to][m.file] = stored]
          /\ task' = IF task[m.by].pc = "wait" /\ Sent(m.by) = m
                     THEN [task EXCEPT ![m.by].reply = stored]
                     ELSE task
  BY DEF ReceiveShard
<1>3. \A p \in Peer, f \in File :
          held'[p][f] = IF p = m.to /\ f = m.file THEN stored ELSE held[p][f]
  BY <1>1, <1>2
<1>4. m.gen # Absent => stored # Absent
  BY LifecycleAssumption DEF Corrupt, Absent
<1>5. ASSUME NEW t \in Task
      PROVE  /\ task'[t].pc = task[t].pc /\ task'[t].md = task[t].md
             /\ task'[t].ok = task[t].ok /\ task'[t].gen = task[t].gen
             /\ task'[t].plan = task[t].plan /\ task'[t].next = task[t].next
             /\ task'[t].sent = task[t].sent
             /\ task'[t].reply # task[t].reply =>
                   task[t].pc = "wait" /\ Sent(t) = m /\ task'[t].reply = stored
  BY <1>1, <1>2 DEF TaskState
<1>6. \A t \in Task : Sent(t)' = Sent(t)
  BY <1>5 DEF Sent, PathOf
<1>7. /\ net' = net \ {m}
      /\ UNCHANGED <<meta, local, online, gen, status, gather, scan, remove, rename,
                     wanted, deleted, crashes, losses>>
  BY DEF ReceiveShard, disk, history
<1> QED
  BY <1>1, <1>3, <1>4, <1>5, <1>6, <1>7

LEMMA AimedStep ==
    ASSUME Tended, TypeInv, TypeInv', Control, Aimed, [Next]_vars
    PROVE  Aimed'
<1> USE DEF disk, peers, history
<1>1. /\ task \in [Task -> TaskState] /\ Task = {"upload", "repair"}
      /\ \A t \in Task : task[t].next \in Nat
  BY ConstantFacts DEF TypeInv, TypeOK, TaskState, Task
(* Steps that send and begin nothing.                                      *)
<1> DEFINE Idler(t) == /\ task[t].pc # "wait" /\ task'[t].pc \notin {"push", "wait"}
           Fewer == \A p \in Peer, f \in File : held'[p][f] # Absent => held[p][f] # Absent
<1>2. ASSUME net' = net, gen' = gen, Fewer, up'.plan = up.plan,
             up'.pc \in AtHome => up.pc \in AtHome,
             \A t \in Task : task'[t] = task[t] \/ Idler(t)
      PROVE  Aimed'
  <2>1. Traced' => Traced
    BY <1>2 DEF Traced
  <2>2. ASSUME NEW t \in Task, NEW m, Awaits(t, m) PROVE Awaits(t, m)'
    <3>1. task'[t] = task[t]
      BY <1>2, <2>2 DEF Awaits
    <3> QED
      BY <2>2, <3>1 DEF Awaits, Sent, PathOf
  <2>3. ASSUME NEW t \in Task, task'[t].pc \in {"push", "wait"}
        PROVE  /\ task[t].pc \in {"push", "wait"} /\ task'[t].plan = task[t].plan
               /\ task'[t].next >= task[t].next
    <3>1. task'[t] = task[t]
      BY <1>2, <2>3
    <3> QED
      BY <1>1, <2>3, <3>1
  <2> QED
    BY <1>2, <2>1, <2>2, <2>3, AimedFrame
<1>3. ASSUME UNCHANGED <<net, gen, task>>, Fewer PROVE Aimed'
  <2> HIDE DEF Fewer
  <2> QED
    BY <1>2, <1>3 DEF up
<1>4. CASE UploadFile
  <2>1. /\ task' = [task EXCEPT !["upload"].pc = "queued"] /\ up.pc = "new"
        /\ UNCHANGED <<net, gen, held>>
    BY <1>4 DEF UploadFile, up
  <2>2. /\ up'.pc = "queued" /\ up'.plan = up.plan /\ task'["repair"] = task["repair"]
    BY <1>1, <2>1 DEF up, TaskState
  <2>3. Idler("upload")
    BY <2>1, <2>2 DEF up
  <2> QED
    BY <1>1, <1>2, <2>1, <2>2, <2>3 DEF AtHome
<1>5. CASE ReadFile \/ StartScan \/ Reading \/ AssessLocal \/ Classify \/ LeaveAlone \/ StartRebuild \/ AbandonRebuild
           \/ PurgeOrphan \/ PurgeUnrecoverable \/ (\E p \in Peer : ProbePeer(p))
           \/ (\E i \in Shard : FetchShard("repair", i))
  <2>1. UNCHANGED <<net, gen, task, held>>
    BY <1>5
       DEF ReadFile, StartGather, StartScan, Reading, ServeRange, GatherAll, FinishRead,
       FetchShard, AssessLocal, Classify, LeaveAlone, StartRebuild,
       AbandonRebuild, PurgeOrphan, PurgeUnrecoverable, ProbePeer
  <2> QED
    BY <1>3, <2>1
<1>6. CASE ReplaceShards \/ FinishRebuild
  <2>1. /\ UNCHANGED <<net, gen, held>>
        /\ \E s \in {[IdleTask EXCEPT !.pc = "queued", !.md = gather["repair"].md], IdleTask} :
              task' = [task EXCEPT !["repair"] = s]
    BY <1>6 DEF ReplaceShards, FinishRebuild
  <2>2. task["repair"].pc # "wait" /\ task'["repair"].pc \in {"queued", "new"} /\ up' = up
    <3>1. task["repair"].pc # "wait"
      BY <1>6 DEF ReplaceShards, FinishRebuild, Control
    <3>2. PICK s \in {[IdleTask EXCEPT !.pc = "queued", !.md = gather["repair"].md], IdleTask} :
              task' = [task EXCEPT !["repair"] = s]
      BY <2>1
    <3>3. s.pc \in {"queued", "new"}
      <4>1. /\ IdleTask.pc = "new"
            /\ [IdleTask EXCEPT !.pc = "queued", !.md = gather["repair"].md].pc = "queued"
        BY DEF IdleTask
      <4> QED
        BY <4>1
    <3> QED
      BY <1>1, <3>1, <3>2, <3>3 DEF up
  <2>3. Idler("repair") /\ task'["upload"] = task["upload"]
    BY <2>2 DEF up
  <2> QED
    BY <1>1, <1>2, <2>1, <2>2, <2>3
<1>7. CASE Removing("purge")
  <2>1. UNCHANGED <<net, gen, task>>
    BY <1>7 DEF Removing, DropReplicas, RemoveShards
  <2>2. Fewer
    BY <1>7 DEF Removing, DropReplicas, RemoveShards, NoFiles, TypeInv, TypeOK
  <2> QED
    BY <1>3, <2>1, <2>2
<1>8. CASE Environment
  <2>1. UNCHANGED <<net, gen, task>>
    BY <1>8, TendedOnly DEF Environment, PeerOffline, PeerOnline, PeerLosesShard
  <2>2. Fewer
    <3>1. held' = held \/ \E p \in Peer, f \in File : held' = [held EXCEPT ![p][f] = Absent]
      BY <1>8, TendedOnly DEF Environment, PeerOffline, PeerOnline, PeerLosesShard
    <3>2. held \in [Peer -> [File -> Content]]
      BY DEF TypeInv, TypeOK
    <3> QED
      BY <3>1, <3>2
  <2> QED
    BY <1>3, <2>1, <2>2
<1>9. ASSUME NEW m \in net, ReceiveShard(m) PROVE Aimed'
  <2>1. /\ net' = net \ {m}
        /\ \A p \in Peer, f \in File : held'[p][f] # held[p][f] => p = m.to /\ f = m.file
        /\ \A t \in Task :
              /\ task'[t].pc = task[t].pc
              /\ task'[t].plan = task[t].plan /\ task'[t].next = task[t].next
              /\ Sent(t)' = Sent(t)
              /\ task'[t].reply # task[t].reply => task[t].pc = "wait" /\ Sent(t) = m
        /\ gen' = gen
    BY <1>9, Arrives
  <2>2. (Traced' => Traced) /\ up'.plan = up.plan /\ up'.pc = up.pc
    BY <1>1, <2>1 DEF Traced, up
  <2>3. \A t \in Task, n \in net' : Awaits(t, n) => Awaits(t, n)'
    BY <2>1 DEF Awaits
  <2>4. \A t \in Task : task'[t].next >= task[t].next
    BY <1>1, <2>1
  <2>5. \A p \in Peer, f \in File : held'[p][f] # Absent =>
              held[p][f] # Absent \/ \E n \in net : n.to = p /\ n.file = f
    BY <2>1
  <2> QED
    BY <2>1, <2>2, <2>3, <2>4, <2>5, AimedFrame
<1>10. CASE UNCHANGED vars
  BY <1>3, <1>10 DEF vars
<1>11. \A t \in Task : Pipeline(t) => Aimed'
  BY AimedPipeline
<1> QED
  BY <1>4, <1>5, <1>6, <1>7, <1>8, <1>9, <1>10, <1>11, TendedOnly
     DEF Next, Requests, Repairing, Remover

-----------------------------------------------------------------------------
(* What is where, but for the shards in `lost`: every shard is here or at  *)
(* the peer that md names, and while shards are traced there are no others.*)

Sound(md, lost) ==
    /\ \A i \in Shard : md.chunks[i].base \in Task
    /\ \A f \in File : local[f] # Absent => f = PathOf(md, f[2])
    /\ \A i \in Shard \ lost :
          \/ local[PathOf(md, i)] # Absent
          \/ md.chunks[i].peer # Here /\ held[md.chunks[i].peer][PathOf(md, i)] # Absent
    /\ Traced =>
          /\ \A p \in Peer, f \in File : held[p][f] # Absent =>
                local[PathOf(md, f[2])] # Absent \/ md.chunks[f[2]].peer = p
          /\ \A m \in net : local[PathOf(md, m.file[2])] # Absent

NothingLocal == \A f \in File : local[f] = Absent
OnlyLocal(t) == \A f \in File : local[f] # Absent <=> f[1] = t
WrittenBelow(t, n) == \A f \in File : local[f] # Absent <=> f[1] = t /\ f[2] < n

(* What a pipeline has to do with at each of its stages.                   *)
Stages(t, lost) ==
    /\ task[t].pc = "queued" => NothingLocal /\ task[t].next = 0
    /\ task[t].pc = "encode" => WrittenBelow(t, task[t].next)
    /\ task[t].pc \in {"encode", "encrypt", "merge"} => task[t].gen # 0
    /\ task[t].pc \in {"encrypt", "merge", "write", "place"} => OnlyLocal(t)
    /\ task[t].pc = "write" => task[t].md.chunks = FreshChunks(t)
    /\ task[t].pc = "place" => meta.chunks = FreshChunks(t)
    /\ task[t].pc \in {"push", "wait"} => Sound(task[t].md, lost)
    /\ task[t].pc = "wait" /\ task[t].reply # Absent =>
          \/ task[t].next \in lost
          \/ held[task[t].plan[task[t].next]][PathOf(task[t].md, task[t].next)] # Absent

Resting == up.pc = "done" /\ task["repair"].pc \in {"new", "done"}

Data(lost) ==
    /\ up.pc = "new" => NothingLocal /\ up.next = 0
    /\ \A t \in Task : Stages(t, lost)
    /\ Resting /\ meta.present => Sound(meta, lost)

(* What the scan has found so far, and where it has still to look.         *)
Unprobed == {i \in OnPeers(meta) : meta.chunks[i].peer \in scan.probe}

Probing(lost) ==
    scan.pc \in {"probe", "verdict"} =>
        /\ OnDisk(meta) \subseteq scan.avail
        /\ \A p \in scan.probe :
              scan.claims[p] = {i \in OnPeers(meta) : meta.chunks[i].peer = p}
        /\ Shard \ lost \subseteq scan.avail \cup Unprobed
        /\ Traced => Existing \subseteq scan.avail \cup Unprobed
        /\ scan.pc = "verdict" =>
              /\ scan.probe = {}
              /\ scan.verdict = VerdictOn(Cardinality(scan.avail), Claimed(scan.md))

LEMMA DataInit == Init => Data({}) /\ Probing({})
<1> SUFFICES ASSUME Init PROVE Data({}) /\ Probing({})
  OBVIOUS
<1>1. NothingLocal /\ \A t \in Task : task[t].pc = "new" /\ task[t].next = 0
  BY DEF Init, NoFiles, IdleTask, NothingLocal
<1>2. up.pc = "new" /\ up.next = 0 /\ scan.pc = "idle"
  BY <1>1 DEF Init, IdleScan, up, Task
<1> QED
  BY <1>1, <1>2 DEF Data, Stages, Resting, Probing

LEMMA PathIsFile ==
    ASSUME NEW md, NEW i \in Shard, md.chunks[i].base \in Task
    PROVE  PathOf(md, i) \in File /\ PathOf(md, i)[2] = i /\ PathOf(md, i)[1] = md.chunks[i].base
  BY DEF PathOf, File

(* A freshly encoded file has all its shards here.                         *)
LEMMA FreshSound ==
    ASSUME TypeInv, NEW t \in Task, OnlyLocal(t), NEW md, md.chunks = FreshChunks(t), NEW lost
    PROVE  Sound(md, lost)
<1>1. \A i \in Shard : md.chunks[i].base = t /\ PathOf(md, i) = <<t, i>>
  BY DEF FreshChunks, PathOf
<1>2. \A i \in Shard : local[PathOf(md, i)] # Absent
  BY <1>1 DEF OnlyLocal, File
<1>3. \A f \in File : f[2] \in Shard /\ f = <<f[1], f[2]>>
  BY DEF File
<1>4. \A m \in net : m.file \in File
  BY DEF TypeInv, TypeOK, Push
<1> QED
  BY <1>1, <1>2, <1>3, <1>4 DEF Sound, OnlyLocal

(* While a pipeline works, only its own stage is at stake.                 *)
LEMMA DataWorks ==
    ASSUME TypeInv, Control, NEW t \in Task, Pipeline(t), NEW lost, Stages(t, lost)',
           task'[t].pc # "new", task'[t].pc = "done" /\ meta'.present => Sound(meta, lost)'
    PROVE  Data(lost)' /\ Probing(lost)'
<1>1. /\ Working(t) /\ scan' = scan
      /\ \A u \in Task \ {t} : task'[u] = task[u] /\ ~Working(u)
  BY PipelineFrame, OneWorks
<1>2. up'.pc # "new" /\ scan.pc \notin {"probe", "verdict"}
  <2>1. CASE t = "upload"
    BY <1>1, <2>1, OneWorks DEF up, Task
  <2>2. CASE t = "repair"
    <3>1. up.pc = "done" /\ up' = up /\ scan.pc = "rebuild"
      BY <1>1, <2>2, OneWorks DEF up, Task
    <3> QED
      BY <3>1
  <2> QED
    BY <2>1, <2>2 DEF Task
<1>3. \A u \in Task \ {t} : Stages(u, lost)'
  BY <1>1 DEF Stages, Working
<1>4. Resting' => task'[t].pc = "done"
  BY DEF Resting, up, Task
<1> QED
  BY <1>1, <1>2, <1>3, <1>4 DEF Data, Probing

LEMMA SoundFrame ==
    ASSUME NEW md, NEW lost, Sound(md, lost), local' = local, held' = held,
           net' \subseteq net, Traced' => Traced
    PROVE  Sound(md, lost)'
  BY DEF Sound, PathOf

(* A shard is handed over: it is at the peer that was given it.            *)
LEMMA DataHandOver ==
    ASSUME TypeInv, Control, Aimed, NEW t \in Task, NEW lost, Stages(t, lost), Pipeline(t), DropLocal(t)
    PROVE  Sound(task[t].md, lost)'
<1> DEFINE n == task[t].next
<1>1. /\ task[t].pc = "wait" /\ task[t].reply # Absent
      /\ n \in Shard /\ task[t].plan[n] \in Peer
      /\ \A i \in Shard :
            /\ task'[t].md.chunks[i].base = task[t].md.chunks[i].base
            /\ task'[t].md.chunks[i].peer =
                 IF i = n THEN task[t].plan[i] ELSE task[t].md.chunks[i].peer
      /\ \A f \in File : local'[f] # local[f] =>
            f = PathOf(task[t].md, n) /\ local'[f] = Absent
      /\ UNCHANGED <<net, gen>>
  BY HandOverStep
<1>2. held' = held
  BY PipelineFrame
<1>3. PICK md : md = task[t].md
  OBVIOUS
<1>4. PICK new : new = task'[t].md
  OBVIOUS
<1>5. Sound(md, lost) /\ \A i \in Shard : PathOf(new, i) = PathOf(md, i)
  BY <1>1, <1>3, <1>4 DEF Stages, PathOf
<1>6. \A i \in Shard : PathOf(md, i) \in File /\ PathOf(md, i)[2] = i
  BY <1>5, PathIsFile DEF Sound
<1>7. n \in lost \/ held[task[t].plan[n]][PathOf(md, n)] # Absent
  BY <1>1, <1>3 DEF Stages
<1>8. \A i \in Shard : i # n => local'[PathOf(md, i)] = local[PathOf(md, i)]
  BY <1>1, <1>3, <1>6
<1>9. \A f \in File : local'[f] # Absent => local[f] # Absent
  BY <1>1
<1>10. (Traced' <=> Traced) /\ Here \notin Peer
  BY <1>1, ConstantFacts, ShardsAssumption DEF Traced
<1>11. ASSUME Traced
       PROVE  /\ \A p \in Peer, f \in File : held[p][f] # Absent /\ f[2] = n => task[t].plan[n] = p
              /\ \A m \in net : m.file[2] # n
  <2>1. task[t].plan = Target
    BY <1>1, <1>11 DEF Aimed
  <2>2. \A p \in Peer, f \in File : held[p][f] # Absent /\ f[2] = n => task[t].plan[n] = p
    BY <1>11, <2>1 DEF Aimed
  <2>3. ASSUME NEW m \in net PROVE m.file[2] # n
    <3>1. m.file[2] < n
      BY <1>1, <1>11 DEF Aimed, Awaits
    <3>2. n \in Nat
      BY <1>1, ConstantFacts
    <3> QED
      BY <3>1, <3>2
  <2> QED
    BY <2>2, <2>3
<1>12. \A f \in File : f[2] \in Shard
  BY DEF File
<1>13. \A m \in net : m.file[2] \in Shard
  BY <1>12 DEF TypeInv, TypeOK, Push
<1> HIDE DEF n
<1>14. /\ \A i \in Shard : new.chunks[i].base \in Task
       /\ \A f \in File : local'[f] # Absent => f = PathOf(new, f[2])
  BY <1>1, <1>3, <1>4, <1>5, <1>9, <1>12 DEF Sound
<1>15. ASSUME NEW i \in Shard \ lost
       PROVE  \/ local'[PathOf(new, i)] # Absent
              \/ new.chunks[i].peer # Here /\ held'[new.chunks[i].peer][PathOf(new, i)] # Absent
  <2>1. CASE i = n
    BY <1>1, <1>2, <1>3, <1>4, <1>5, <1>7, <1>10, <2>1
  <2>2. CASE i # n
    <3>1. new.chunks[i].peer = md.chunks[i].peer
      BY <1>1, <1>3, <1>4, <2>2
    <3> QED
      BY <1>2, <1>5, <1>8, <2>2, <3>1 DEF Sound
  <2> QED
    BY <2>1, <2>2
<1>16. ASSUME Traced', NEW p \in Peer, NEW f \in File, held'[p][f] # Absent
       PROVE  local'[PathOf(new, f[2])] # Absent \/ new.chunks[f[2]].peer = p
  <2>1. CASE f[2] = n
    BY <1>1, <1>2, <1>4, <1>10, <1>11, <1>16, <2>1
  <2>2. CASE f[2] # n
    BY <1>1, <1>2, <1>3, <1>4, <1>5, <1>8, <1>10, <1>12, <1>16, <2>2 DEF Sound
  <2> QED
    BY <2>1, <2>2
<1>17. ASSUME Traced', NEW m \in net' PROVE local'[PathOf(new, m.file[2])] # Absent
  BY <1>1, <1>5, <1>8, <1>10, <1>11, <1>13, <1>17 DEF Sound
<1> QED
  BY <1>4, <1>14, <1>15, <1>16, <1>17 DEF Sound, PathOf

LEMMA DataPost ==
    ASSUME TypeInv, Control, NEW t \in Task, NEW lost, Stages(t, lost), Pipeline(t), PushShard(t)
    PROVE  Sound(task[t].md, lost)'
<1>1. PICK i \in Shard :
              /\ task[t].pc = "push" /\ task'[t].md = task[t].md
              /\ UNCHANGED <<local, gen>>
              /\ local[PathOf(task[t].md, i)] # Absent
              /\ \E m : net' = net \cup {m} /\ m.file = PathOf(task[t].md, i)
  BY PostStep
<1>2. PICK m : net' = net \cup {m} /\ m.file = PathOf(task[t].md, i)
  BY <1>1
<1>3. held' = held /\ (Traced' <=> Traced)
  BY <1>1, PipelineFrame DEF Traced
<1>4. PICK md : md = task[t].md
  OBVIOUS
<1>5. Sound(md, lost) /\ task'[t].md = md
  BY <1>1, <1>4 DEF Stages
<1>6. m.file[2] = i /\ local[PathOf(md, i)] # Absent
  BY <1>1, <1>2, <1>4 DEF PathOf
<1>7. Traced' => \A n \in net' : local'[PathOf(md, n.file[2])] # Absent
  BY <1>1, <1>2, <1>3, <1>5, <1>6 DEF Sound
<1> QED
  BY <1>1, <1>3, <1>5, <1>7 DEF Sound, PathOf

LEMMA DataPipeline ==
    ASSUME Tended, TypeInv, TypeInv', Control, Aimed, NEW lost, Data(lost),
           NEW t \in Task, Pipeline(t)
    PROVE  Data(lost)' /\ Probing(lost)'
<1>1. /\ task[t] \in TaskState /\ gen \in Nat /\ held' = held /\ status # "none"
      /\ Stages(t, lost)
  <2>1. Working(t)
    BY PipelineFrame
  <2>2. up.pc # "new"
    BY <2>1, OneWorks DEF Working, up, Task
  <2> QED
    BY <2>2, PipelineFrame, LifecycleAssumption DEF Control, Data, TypeInv, TypeOK
<1>2. CASE StartEncoding(t)
  <2>1. Stages(t, lost)'
    <3>1. /\ task[t].pc = "queued" /\ task'[t].pc = "encode" /\ task'[t].gen # 0
          /\ task'[t].next = task[t].next /\ local' = local
      BY <1>1, <1>2, BeginStep
    <3>2. NothingLocal /\ task'[t].next = 0
      BY <1>1, <3>1 DEF Stages
    <3>3. WrittenBelow(t, 0)'
      <4>1. \A f \in File : f[2] \in Nat
        BY ConstantFacts DEF File
      <4> QED
        BY <3>1, <3>2, <4>1 DEF NothingLocal, WrittenBelow
    <3>4. WrittenBelow(t, task[t].next)'
      BY <3>2, <3>3 DEF WrittenBelow
    <3> QED
      BY <3>1, <3>4 DEF Stages
  <2> QED
    BY <1>2, <2>1, BeginStep, DataWorks
<1>3. CASE WriteShard(t) \/ EncryptShard(t)
  <2>1. /\ task[t].pc \in {"encode", "encrypt"} /\ task'[t].pc = task[t].pc
        /\ task[t].next \in Shard /\ task'[t].next = task[t].next + 1
        /\ task'[t].gen = task[t].gen
        /\ \A f \in File : f # <<t, task[t].next>> => local'[f] = local[f]
    BY <1>3, ShardStep
  <2>2. task[t].gen # 0
    BY <1>1, <2>1 DEF Stages
  <2>3. CASE WriteShard(t)
    <3>1. task[t].pc = "encode" /\ local'[<<t, task[t].next>>] # Absent
      BY <2>3, ShardStep
    <3>2. WrittenBelow(t, task[t].next)
      BY <1>1, <3>1 DEF Stages
    <3>3. ASSUME NEW f \in File
          PROVE  local'[f] # Absent <=> f[1] = t /\ f[2] < task[t].next + 1
      <4>1. f[2] \in Nat /\ task[t].next \in Nat /\ f = <<f[1], f[2]>>
        BY <2>1, ConstantFacts DEF File
      <4>2. local[f] # Absent <=> f[1] = t /\ f[2] < task[t].next
        BY <3>2 DEF WrittenBelow
      <4>3. CASE f = <<t, task[t].next>>
        <5>1. f[1] = t /\ f[2] = task[t].next
          BY <4>3
        <5> QED
          BY <3>1, <4>1, <4>3, <5>1
      <4>4. CASE f # <<t, task[t].next>>
        <5>1. local'[f] = local[f] /\ ~(f[1] = t /\ f[2] = task[t].next)
          BY <2>1, <4>1, <4>4
        <5> QED
          BY <4>1, <4>2, <5>1
      <4> QED
        BY <4>3, <4>4
    <3>4. WrittenBelow(t, task[t].next)'
      BY <2>1, <3>3 DEF WrittenBelow
    <3>5. Stages(t, lost)'
      BY <2>1, <2>2, <3>1, <3>4 DEF Stages
    <3> QED
      BY <1>3, <2>1, <3>5, DataWorks
  <2>4. CASE EncryptShard(t)
    <3>1. /\ task[t].pc = "encrypt"
          /\ local'[<<t, task[t].next>>] = Absent <=> local[<<t, task[t].next>>] = Absent
      BY <2>2, <2>4, ShardStep
    <3>2. OnlyLocal(t)
      BY <1>1, <3>1 DEF Stages
    <3>3. \A f \in File : local'[f] = Absent <=> local[f] = Absent
      BY <2>1, <3>1
    <3>4. OnlyLocal(t)'
      BY <3>2, <3>3 DEF OnlyLocal
    <3>5. Stages(t, lost)'
      BY <2>1, <2>2, <3>1, <3>4 DEF Stages
    <3> QED
      BY <1>3, <2>1, <3>5, DataWorks
  <2> QED
    BY <1>3, <2>3, <2>4
<1>12. CASE FinishEncoder(t) \/ FinishEncryption(t)
  <2>1. /\ task[t].next = Total /\ task'[t].gen = task[t].gen /\ local' = local
        /\ FinishEncoder(t) => task[t].pc = "encode" /\ task'[t].pc = "encrypt"
        /\ FinishEncryption(t) => task[t].pc = "encrypt" /\ task'[t].pc = "merge"
    BY <1>12, EncoderStep
  <2>2. OnlyLocal(t)
    <3>1. CASE FinishEncoder(t)
      <4>1. WrittenBelow(t, Total)
        BY <1>1, <2>1, <3>1 DEF Stages
      <4>2. \A f \in File : f[2] < Total
        BY ConstantFacts DEF File, Shard
      <4> QED
        BY <4>1, <4>2 DEF WrittenBelow, OnlyLocal
    <3>2. CASE FinishEncryption(t)
      BY <1>1, <2>1, <3>2 DEF Stages
    <3> QED
      BY <1>12, <3>1, <3>2
  <2>3. OnlyLocal(t)' /\ task'[t].gen # 0 /\ task'[t].pc \in {"encrypt", "merge"}
    BY <1>1, <1>12, <2>1, <2>2 DEF Stages, OnlyLocal
  <2>4. Stages(t, lost)'
    BY <2>3 DEF Stages
  <2> QED
    BY <1>12, <2>3, <2>4, DataWorks
<1>4. CASE MergeMetadata(t)
  <2>1. task[t].ok
    BY <1>4 DEF MergeMetadata, Control
  <2>2. /\ task[t].pc = "merge" /\ task'[t].pc = "write" /\ UNCHANGED local
        /\ task[t].gen # 0 => task'[t].md.chunks = FreshChunks(t)
    BY <1>4, <2>1, MergeStep
  <2>3. Stages(t, lost)'
    BY <1>1, <2>2 DEF Stages, OnlyLocal
  <2> QED
    BY <1>4, <2>2, <2>3, DataWorks
<1>5. CASE WriteMetadata(t)
  <2>1. task[t].ok /\ task[t].md.present
    BY <1>5 DEF WriteMetadata, Control
  <2>2. task[t].pc = "write" /\ task'[t].pc = "place" /\ meta' = task[t].md /\ UNCHANGED local
    BY <1>5, <2>1, WriteStep
  <2>3. Stages(t, lost)'
    BY <1>1, <2>2 DEF Stages, OnlyLocal
  <2> QED
    BY <1>5, <2>2, <2>3, DataWorks
<1>6. CASE SkipDistribution(t)
  <2>1. /\ task[t].pc = "place" /\ task'[t].pc = "done" /\ UNCHANGED <<meta, local, net, gen>>
    BY <1>6, SkipStep
  <2>2. Sound(meta, lost)'
    <3>1. PICK md : md = meta
      OBVIOUS
    <3>2. Sound(md, lost)
      BY <1>1, <2>1, <3>1, FreshSound DEF Stages
    <3> QED
      BY <1>1, <2>1, <3>1, <3>2 DEF Sound, PathOf, Traced
  <2>3. Stages(t, lost)'
    BY <2>1 DEF Stages
  <2> QED
    BY <1>6, <2>1, <2>2, <2>3, DataWorks
<1>7. CASE DistributeShards(t)
  <2>1. /\ task[t].pc = "place" /\ task'[t].pc = "push" /\ task'[t].md = meta
        /\ UNCHANGED <<local, net, gen>>
    BY <1>7, DistributeStep
  <2>2. Sound(task[t].md, lost)'
    <3>1. PICK md : md = meta
      OBVIOUS
    <3>2. Sound(md, lost)
      BY <1>1, <2>1, <3>1, FreshSound DEF Stages
    <3> QED
      BY <1>1, <2>1, <3>1, <3>2 DEF Sound, PathOf, Traced
  <2>3. Stages(t, lost)'
    BY <2>1, <2>2 DEF Stages
  <2> QED
    BY <1>7, <2>1, <2>3, DataWorks
<1>8. CASE PushShard(t)
  <2>1. Sound(task[t].md, lost)'
    BY <1>1, <1>8, DataPost
  <2>2. task'[t].pc = "wait" /\ task'[t].reply = Absent
    BY <1>8, PostStep
  <2>3. Stages(t, lost)'
    BY <2>1, <2>2 DEF Stages
  <2> QED
    BY <1>8, <2>2, <2>3, DataWorks
<1>9. CASE DropLocal(t)
  <2>1. Sound(task[t].md, lost)' /\ task'[t].pc = "push"
    BY <1>1, <1>9, DataHandOver, HandOverStep
  <2>2. Stages(t, lost)'
    BY <2>1 DEF Stages
  <2> QED
    BY <1>9, <2>1, <2>2, DataWorks
<1>10. CASE KeepAfterFailure(t)
  <2>1. /\ task[t].pc = "wait" /\ task'[t].pc = "push" /\ task'[t].md = task[t].md
        /\ net' \subseteq net /\ UNCHANGED <<local, gen>>
    BY <1>10, GivenUpStep
  <2>2. Sound(task[t].md, lost)'
    <3>1. PICK md : md = task[t].md
      OBVIOUS
    <3>2. Sound(md, lost) /\ (Traced' => Traced)
      BY <1>1, <2>1, <3>1 DEF Stages, Traced
    <3>3. Sound(md, lost)'
      BY <1>1, <2>1, <3>2, SoundFrame
    <3> QED
      BY <2>1, <3>1, <3>3 DEF Sound, PathOf
  <2>3. Stages(t, lost)'
    BY <2>1, <2>2 DEF Stages
  <2> QED
    BY <1>10, <2>1, <2>3, DataWorks
<1>11. CASE PublishPlacement(t)
  <2>1. task[t].pc = "push" /\ task'[t].pc = "done" /\ meta' = task[t].md /\ UNCHANGED <<local, net, gen>>
    BY <1>11, PublishStep
  <2>2. Sound(meta, lost)'
    <3>1. PICK md : md = task[t].md
      OBVIOUS
    <3>2. Sound(md, lost) /\ (Traced' => Traced)
      BY <1>1, <2>1, <3>1 DEF Stages, Traced
    <3>3. Sound(md, lost)'
      BY <1>1, <2>1, <3>2, SoundFrame
    <3> QED
      BY <2>1, <3>1, <3>3 DEF Sound, PathOf
  <2>3. Stages(t, lost)'
    BY <2>1 DEF Stages
  <2> QED
    BY <1>11, <2>1, <2>2, <2>3, DataWorks
<1> QED
  BY <1>1, <1>2, <1>3, <1>4, <1>5, <1>6, <1>7, <1>8, <1>9, <1>10, <1>11, <1>12, NoRaise,
     EncoderRuns DEF Pipeline

(* While a scan is on, nothing works and every shard is where it belongs.  *)
LEMMA ScanAtRest ==
    ASSUME TypeInv, Control, NEW lost, Data(lost),
           scan.pc \in {"listed", "probe", "verdict"}
    PROVE  Resting /\ meta.present /\ scan.md = meta /\ Sound(meta, lost)
  BY DEF Control, Resting, Data

(* A shard arrives.                                                        *)
LEMMA DataReceive ==
    ASSUME TypeInv, Control, Aimed, NEW lost, Data(lost), Probing(lost), NEW m \in net, ReceiveShard(m)
    PROVE  Data(lost)' /\ Probing(lost)'
<1>1. /\ net' = net \ {m} /\ m.to \in Peer /\ m.file \in File
      /\ \A p \in Peer, f \in File : held'[p][f] # held[p][f] => p = m.to /\ f = m.file
      /\ held'[m.to][m.file] # Absent
      /\ \A t \in Task :
            /\ task'[t].pc = task[t].pc /\ task'[t].md = task[t].md
            /\ task'[t].gen = task[t].gen
            /\ task'[t].plan = task[t].plan /\ task'[t].next = task[t].next
            /\ task'[t].reply # task[t].reply => task[t].pc = "wait" /\ Sent(t) = m
      /\ UNCHANGED <<meta, local, gen, scan>>
  BY Arrives DEF Aimed
<1>2. \A p \in Peer, f \in File : held[p][f] # Absent => held'[p][f] # Absent
  BY <1>1
<1>3. Traced' <=> Traced
  BY <1>1 DEF Traced
<1>4. ASSUME NEW md \in Metadata, Sound(md, lost) PROVE Sound(md, lost)'
  <2>1. \A i \in Shard : PathOf(md, i) \in File
    BY <1>4, PathIsFile DEF Sound
  <2>2. \A i \in Shard : md.chunks[i].peer # Here => md.chunks[i].peer \in Peer
    BY DEF Metadata, Chunk, Site
  <2>3. \A i \in Shard \ lost :
          \/ local'[PathOf(md, i)] # Absent
          \/ md.chunks[i].peer # Here /\ held'[md.chunks[i].peer][PathOf(md, i)] # Absent
    BY <1>1, <1>2, <1>4, <2>1, <2>2 DEF Sound
  <2>4. ASSUME Traced
        PROVE  /\ \A p \in Peer, f \in File : held'[p][f] # Absent =>
                     local'[PathOf(md, f[2])] # Absent \/ md.chunks[f[2]].peer = p
               /\ \A n \in net' : local'[PathOf(md, n.file[2])] # Absent
    BY <1>1, <1>4, <2>4 DEF Sound
  <2> QED
    BY <1>1, <1>3, <1>4, <2>3, <2>4 DEF Sound, PathOf
<1>5. ASSUME NEW t \in Task PROVE Stages(t, lost)'
  <2>1. Stages(t, lost)
    BY DEF Data
  <2>2. task[t].md \in Metadata /\ task[t].pc = "wait" => /\ task[t].next \in Shard
                                                         /\ task[t].plan[task[t].next] \in Peer
    BY DEF TypeInv, TypeOK, TaskState, Waiting
  <2>3. task[t].pc \in {"push", "wait"} => Sound(task[t].md, lost)'
    <3>1. PICK md : md = task[t].md
      OBVIOUS
    <3>2. md \in Metadata
      BY <3>1 DEF TypeInv, TypeOK, TaskState
    <3>3. task[t].pc \in {"push", "wait"} => Sound(md, lost)'
      BY <1>4, <2>1, <3>1, <3>2 DEF Stages
    <3>4. task'[t].md = md
      BY <1>1, <3>1
    <3> QED
      BY <3>3, <3>4 DEF Sound, PathOf
  <2>4. ASSUME task[t].pc = "wait", task'[t].reply # Absent, task[t].next \notin lost
        PROVE  held'[task[t].plan[task[t].next]][PathOf(task[t].md, task[t].next)] # Absent
    <3>1. CASE task'[t].reply # task[t].reply
      BY <1>1, <3>1 DEF Sent
    <3>2. CASE task'[t].reply = task[t].reply
      <4>1. held[task[t].plan[task[t].next]][PathOf(task[t].md, task[t].next)] # Absent
        BY <2>1, <2>4, <3>2 DEF Stages
      <4>2. PathOf(task[t].md, task[t].next) \in File
        <5>1. task[t].md.chunks[task[t].next].base \in Task /\ task[t].next \in Shard
          BY <2>1, <2>4 DEF Stages, Sound, TypeInv, Waiting
        <5> QED
          BY <5>1 DEF PathOf, File
      <4>3. task[t].plan[task[t].next] \in Peer
        BY <2>4 DEF TypeInv, Waiting
      <4> QED
        BY <1>2, <4>1, <4>2, <4>3
    <3> QED
      BY <3>1, <3>2
  <2> QED
    BY <1>1, <2>1, <2>3, <2>4 DEF Stages, NothingLocal, WrittenBelow, OnlyLocal, PathOf
<1>6. (up.pc = "new" => NothingLocal /\ up.next = 0)' /\ (Resting' => Resting)
  BY <1>1 DEF Data, NothingLocal, up, Task, Resting
<1>7. Resting /\ meta.present => Sound(meta, lost)'
  <2>1. PICK md : md = meta
    OBVIOUS
  <2>2. md \in Metadata
    BY <2>1 DEF TypeInv, TypeOK
  <2>3. Resting /\ meta.present => Sound(md, lost)'
    BY <1>4, <2>1, <2>2 DEF Data
  <2> QED
    BY <1>1, <2>1, <2>3 DEF Sound, PathOf
<1>8. Probing(lost)'
  <2> SUFFICES ASSUME scan.pc \in {"probe", "verdict"} PROVE Probing(lost)'
    BY <1>1 DEF Probing
  <2>1. Sound(meta, lost)
    BY ScanAtRest
  <2>2. OnDisk(meta)' = OnDisk(meta) /\ OnPeers(meta)' = OnPeers(meta) /\ Unprobed' = Unprobed
    BY <1>1 DEF OnDisk, OnPeers, Unprobed, PathOf
  <2>3. Traced => m.file[2] \in OnDisk(meta)
    <3>1. m.file[2] \in Shard
      BY <1>1 DEF File
    <3>2. "none" \notin Task
      BY DEF Task
    <3> QED
      BY <2>1, <3>1, <3>2 DEF Sound, OnDisk
  <2>4. ASSUME Traced PROVE Existing' \subseteq scan.avail \cup Unprobed
    <3> SUFFICES ASSUME NEW i \in Existing' PROVE i \in scan.avail \cup Unprobed
      OBVIOUS
    <3>1. i \in Shard
      BY DEF Existing
    <3>2. CASE i \in Existing
      BY <2>4, <3>2 DEF Probing
    <3>3. CASE i \notin Existing
      <4>1. PICK t \in Task, p \in Peer : held'[p][<<t, i>>] # held[p][<<t, i>>]
        BY <1>1, <3>1, <3>3 DEF Existing
      <4>2. <<t, i>> = m.file
        BY <1>1, <3>1, <4>1 DEF File
      <4>3. m.file[2] = i
        BY <4>2
      <4> QED
        BY <2>3, <2>4, <4>3 DEF Probing
    <3> QED
      BY <3>2, <3>3
  <2> QED
    BY <1>1, <1>3, <2>2, <2>4 DEF Probing
<1> QED
  BY <1>1, <1>5, <1>6, <1>7, <1>8 DEF Data

(* A peer's disk loses a shard.                                            *)
LEMMA DataLoss ==
    ASSUME TypeInv, NEW lost, Data(lost), Probing(lost),
           NEW p \in Peer, NEW f \in File, PeerLosesShard(p, f)
    PROVE  Data(lost \cup {f[2]})' /\ Probing(lost \cup {f[2]})'
<1> DEFINE more == lost \cup {f[2]}
<1>1. /\ UNCHANGED <<meta, local, net, task, gen, scan>>
      /\ \A q \in Peer, g \in File : held'[q][g] = IF q = p /\ g = f THEN Absent ELSE held[q][g]
  BY DEF PeerLosesShard, disk, TypeInv, TypeOK
<1>2. \A q \in Peer, g \in File : g[2] \notin more => held'[q][g] = held[q][g]
  BY <1>1
<1>3. Traced' <=> Traced
  BY <1>1 DEF Traced
<1>4. ASSUME NEW md \in Metadata, Sound(md, lost) PROVE Sound(md, more)'
  <2>1. \A i \in Shard : PathOf(md, i) \in File /\ PathOf(md, i)[2] = i
    BY <1>4, PathIsFile DEF Sound
  <2>2. \A i \in Shard : md.chunks[i].peer # Here => md.chunks[i].peer \in Peer
    BY DEF Metadata, Chunk, Site
  <2>3. \A i \in Shard \ more :
          \/ local'[PathOf(md, i)] # Absent
          \/ md.chunks[i].peer # Here /\ held'[md.chunks[i].peer][PathOf(md, i)] # Absent
    BY <1>1, <1>2, <1>4, <2>1, <2>2 DEF Sound
  <2>4. ASSUME Traced
        PROVE  /\ \A q \in Peer, g \in File : held'[q][g] # Absent =>
                     local'[PathOf(md, g[2])] # Absent \/ md.chunks[g[2]].peer = q
               /\ \A n \in net' : local'[PathOf(md, n.file[2])] # Absent
    BY <1>1, <1>4, <2>4 DEF Sound
  <2> HIDE DEF more
  <2> QED
    BY <1>1, <1>3, <1>4, <2>3, <2>4 DEF Sound, PathOf
<1>5. ASSUME NEW t \in Task PROVE Stages(t, more)'
  <2>1. Stages(t, lost)
    BY DEF Data
  <2>2. task[t].pc \in {"push", "wait"} => Sound(task[t].md, more)'
    <3>1. PICK md : md = task[t].md
      OBVIOUS
    <3>2. md \in Metadata
      BY <3>1 DEF TypeInv, TypeOK, TaskState
    <3>3. task[t].pc \in {"push", "wait"} => Sound(md, more)'
      BY <1>4, <2>1, <3>1, <3>2 DEF Stages
    <3>4. task'[t].md = md
      BY <1>1, <3>1
    <3> HIDE DEF more
    <3> QED
      BY <3>3, <3>4 DEF Sound, PathOf
  <2>3. ASSUME task[t].pc = "wait", task[t].reply # Absent, task[t].next \notin more
        PROVE  held'[task[t].plan[task[t].next]][PathOf(task[t].md, task[t].next)] # Absent
    <3>1. held[task[t].plan[task[t].next]][PathOf(task[t].md, task[t].next)] # Absent
      BY <2>1, <2>3 DEF Stages
    <3>2. task[t].next \in Shard /\ task[t].plan[task[t].next] \in Peer
      BY <2>3 DEF TypeInv, Waiting
    <3>3. /\ PathOf(task[t].md, task[t].next) \in File
          /\ PathOf(task[t].md, task[t].next)[2] = task[t].next
      BY <2>1, <2>3, <3>2 DEF Stages, Sound, PathOf, File
    <3> QED
      BY <1>2, <2>3, <3>1, <3>2, <3>3
  <2> HIDE DEF more
  <2> QED
    BY <1>1, <2>1, <2>2, <2>3 DEF Stages, NothingLocal, WrittenBelow, OnlyLocal, PathOf
<1>6. (up.pc = "new" => NothingLocal /\ up.next = 0)' /\ (Resting' => Resting)
  BY <1>1 DEF Data, NothingLocal, up, Task, Resting
<1>7. Resting /\ meta.present => Sound(meta, more)'
  <2>1. PICK md : md = meta
    OBVIOUS
  <2>2. md \in Metadata
    BY <2>1 DEF TypeInv, TypeOK
  <2>3. Resting /\ meta.present => Sound(md, more)'
    BY <1>4, <2>1, <2>2 DEF Data
  <2> HIDE DEF more
  <2> QED
    BY <1>1, <2>1, <2>3 DEF Sound, PathOf
<1>8. Probing(more)'
  <2>1. /\ OnDisk(meta)' = OnDisk(meta) /\ OnPeers(meta)' = OnPeers(meta) /\ Unprobed' = Unprobed
    BY <1>1 DEF OnDisk, OnPeers, Unprobed, PathOf
  <2>2. Existing' \subseteq Existing
    <3> SUFFICES ASSUME NEW i \in Existing' PROVE i \in Existing
      OBVIOUS
    <3>1. i \in Shard /\ \A t \in Task : <<t, i>> \in File
      BY DEF Existing, File
    <3>2. Absent \notin Gen
      BY LifecycleAssumption DEF Absent, Gen
    <3> QED
      BY <1>1, <3>1, <3>2 DEF Existing
  <2> QED
    BY <1>1, <1>3, <2>1, <2>2 DEF Probing
<1> QED
  BY <1>1, <1>5, <1>6, <1>7, <1>8 DEF Data

-----------------------------------------------------------------------------
(* Where a scan has to look: what is not here is claimed of a peer.        *)

LEMMA AllClaimed ==
    ASSUME TypeInv, NEW md \in Metadata, NEW lost, Sound(md, lost)
    PROVE  /\ Shard \ lost \subseteq OnDisk(md) \cup OnPeers(md)
           /\ \A i \in OnPeers(md) : md.chunks[i].peer \in Peer /\ i \in Shard
           /\ \A i \in OnPeers(md) \ lost : ServedBy(md.chunks[i].peer, i) # {}
           /\ Traced => /\ Existing \subseteq OnDisk(md) \cup OnPeers(md)
                        /\ \A i \in Existing \ OnDisk(md) : ServedBy(md.chunks[i].peer, i) # {}
<1>1. "none" \notin Task /\ Absent \notin Gen /\ \A i \in Shard, t \in Task : <<t, i>> \in File
  BY LifecycleAssumption DEF Task, Absent, Gen, File
<1>2. \A i \in Shard : local[PathOf(md, i)] # Absent => i \in OnDisk(md)
  BY <1>1 DEF Sound, OnDisk
<1>3. \A i \in OnPeers(md) : i \in Shard /\ md.chunks[i].peer \in Peer /\ i \notin OnDisk(md)
  BY DEF OnPeers, Metadata, Chunk, Site
<1>4. Shard \ lost \subseteq OnDisk(md) \cup OnPeers(md)
  BY <1>2 DEF Sound, OnPeers
<1>5. ASSUME NEW i \in Shard, NEW p \in Peer, NEW t \in Task, held[p][<<t, i>>] # Absent
      PROVE  ServedBy(p, i) # {}
  BY <1>5 DEF ServedBy
<1>6. ASSUME NEW i \in OnPeers(md) \ lost PROVE ServedBy(md.chunks[i].peer, i) # {}
  <2>1. held[md.chunks[i].peer][PathOf(md, i)] # Absent
    BY <1>2, <1>3, <1>6 DEF Sound
  <2>2. md.chunks[i].base \in Task /\ PathOf(md, i) = <<md.chunks[i].base, i>>
    BY <1>3 DEF Sound, PathOf
  <2> QED
    BY <1>3, <1>5, <2>1, <2>2
<1>7. ASSUME Traced, NEW i \in Existing, i \notin OnDisk(md)
      PROVE  i \in OnPeers(md) /\ ServedBy(md.chunks[i].peer, i) # {}
  <2>1. PICK t \in Task : \/ local[<<t, i>>] \in Gen
                          \/ \E p \in Peer : held[p][<<t, i>>] \in Gen
    BY DEF Existing
  <2>2. i \in Shard /\ <<t, i>> \in File /\ <<t, i>>[2] = i
    BY <1>1 DEF Existing
  <2>3. local[PathOf(md, i)] = Absent
    BY <1>2, <1>7, <2>2
  <2>4. local[<<t, i>>] = Absent
    BY <2>2, <2>3 DEF Sound
  <2>5. PICK p \in Peer : held[p][<<t, i>>] # Absent
    BY <1>1, <2>1, <2>4
  <2>6. md.chunks[i].peer = p
    BY <1>7, <2>2, <2>3, <2>5 DEF Sound
  <2>7. p # Here
    BY ShardsAssumption
  <2> QED
    BY <1>5, <1>7, <2>2, <2>5, <2>6, <2>7 DEF OnPeers
<1> QED
  BY <1>3, <1>4, <1>6, <1>7

LEMMA ScanBegins ==
    ASSUME TypeInv, Control, NEW lost, Data(lost), AssessLocal
    PROVE  Probing(lost)'
<1>2. Sound(meta, lost) /\ scan.md = meta
  BY ScanAtRest DEF AssessLocal
<1>1. /\ scan'.pc = "probe" /\ scan'.avail = OnDisk(meta)
      /\ scan'.claims = [p \in Peer |-> {i \in OnPeers(meta) : meta.chunks[i].peer = p}]
      /\ scan'.probe = {p \in Peer : scan'.claims[p] # {}}
      /\ UNCHANGED <<meta, local, held, gen>>
  BY <1>2 DEF AssessLocal, disk, peers, TypeInv, TypeOK, ScanState
<1>3. PICK md \in Metadata : md = meta
  BY DEF TypeInv, TypeOK
<1>4. /\ Shard \ lost \subseteq OnDisk(md) \cup OnPeers(md)
      /\ \A i \in OnPeers(md) : md.chunks[i].peer \in Peer /\ i \in Shard
      /\ Traced => Existing \subseteq OnDisk(md) \cup OnPeers(md)
  BY <1>2, <1>3, AllClaimed
<1>5. /\ OnDisk(meta)' = OnDisk(md) /\ OnPeers(meta)' = OnPeers(md) /\ Existing' = Existing
      /\ (Traced' <=> Traced) /\ meta' = md
  BY <1>1, <1>3 DEF OnDisk, OnPeers, PathOf, Existing, Traced
<1>6. Unprobed' = OnPeers(md)
  <2>1. \A i \in OnPeers(md) : md.chunks[i].peer \in scan'.probe
    BY <1>1, <1>3, <1>4
  <2> QED
    BY <1>5, <2>1 DEF Unprobed
<1>7. \A p \in scan'.probe :
          scan'.claims[p] = {i \in OnPeers(meta)' : meta'.chunks[i].peer = p}
  BY <1>1, <1>3, <1>5
<1> QED
  BY <1>1, <1>3, <1>4, <1>5, <1>6, <1>7 DEF Probing

LEMMA ScanProbes ==
    ASSUME TypeInv, Control, NEW lost, Data(lost), Probing(lost), NEW p \in Peer, ProbePeer(p)
    PROVE  Probing(lost)'
<1>1. /\ scan.pc = "probe" /\ scan'.pc = "probe" /\ p \in scan.probe
      /\ scan'.probe = scan.probe \ {p} /\ scan'.avail = scan.avail \cup Confirmed(p)
      /\ scan'.claims = scan.claims
      /\ UNCHANGED <<meta, local, held, gen>>
  BY DEF ProbePeer, disk, peers, TypeInv, TypeOK, ScanState
<1>2. Sound(meta, lost)
  BY <1>1, ScanAtRest
<1>3. PICK md \in Metadata : md = meta
  BY DEF TypeInv, TypeOK
<1>4. /\ \A i \in OnPeers(md) \ lost : ServedBy(md.chunks[i].peer, i) # {}
      /\ Traced => \A i \in Existing \ OnDisk(md) : ServedBy(md.chunks[i].peer, i) # {}
  BY <1>2, <1>3, AllClaimed
<1>5. /\ OnDisk(meta)' = OnDisk(md) /\ OnPeers(meta)' = OnPeers(md) /\ Existing' = Existing
      /\ (Traced' <=> Traced) /\ meta' = md
  BY <1>1, <1>3 DEF OnDisk, OnPeers, PathOf, Existing, Traced
<1>6. \A i \in Unprobed \ Unprobed' : i \in OnPeers(md) /\ md.chunks[i].peer = p
  BY <1>1, <1>3, <1>5 DEF Unprobed
<1>7. \A i \in OnPeers(md) : md.chunks[i].peer = p /\ ServedBy(p, i) # {} => i \in scan'.avail
  <2>1. scan.claims[p] = {i \in OnPeers(md) : md.chunks[i].peer = p}
    BY <1>1, <1>3 DEF Probing
  <2> QED
    BY <1>1, <2>1 DEF Confirmed
<1>8. /\ OnDisk(md) \subseteq scan.avail
      /\ \A q \in scan.probe :
            scan.claims[q] = {i \in OnPeers(md) : md.chunks[i].peer = q}
      /\ Shard \ lost \subseteq scan.avail \cup Unprobed
      /\ Traced => Existing \subseteq scan.avail \cup Unprobed
  BY <1>1, <1>3 DEF Probing
<1>9. scan.avail \subseteq scan'.avail
  BY <1>1
<1>10. Shard \ lost \subseteq scan'.avail \cup Unprobed'
  <2> SUFFICES ASSUME NEW i \in Shard \ lost, i \notin Unprobed' PROVE i \in scan'.avail
    OBVIOUS
  <2>1. CASE i \in scan.avail
    BY <1>9, <2>1
  <2>2. CASE i \in Unprobed
    BY <1>4, <1>6, <1>7, <2>2
  <2> QED
    BY <1>8, <2>1, <2>2
<1>11. Traced => Existing \subseteq scan'.avail \cup Unprobed'
  <2> SUFFICES ASSUME Traced, NEW i \in Existing, i \notin Unprobed' PROVE i \in scan'.avail
    OBVIOUS
  <2>1. CASE i \in scan.avail
    BY <1>9, <2>1
  <2>2. CASE i \in Unprobed /\ i \notin OnDisk(md)
    BY <1>4, <1>6, <1>7, <2>2
  <2> QED
    BY <1>8, <1>9, <2>1, <2>2
<1> QED
  BY <1>1, <1>3, <1>5, <1>8, <1>9, <1>10, <1>11 DEF Probing

LEMMA ScanConcludes ==
    ASSUME TypeInv, NEW lost, Probing(lost), Classify
    PROVE  Probing(lost)'
<1>1. /\ scan.pc = "probe" /\ scan.probe = {}
      /\ scan' = [scan EXCEPT !.pc = "verdict",
                     !.verdict = VerdictOn(Cardinality(scan.avail), Claimed(scan.md))]
      /\ UNCHANGED <<meta, local, held, gen>>
  BY DEF Classify, disk, peers
<1>2. /\ scan'.pc = "verdict" /\ scan'.verdict = VerdictOn(Cardinality(scan.avail), Claimed(scan.md))
      /\ scan'.probe = scan.probe /\ scan'.avail = scan.avail /\ scan'.claims = scan.claims
      /\ scan'.md = scan.md
  BY <1>1 DEF TypeInv, TypeOK, ScanState
<1>3. /\ OnDisk(meta)' = OnDisk(meta) /\ OnPeers(meta)' = OnPeers(meta) /\ Existing' = Existing
      /\ (Traced' <=> Traced) /\ meta' = meta
  BY <1>1 DEF OnDisk, OnPeers, PathOf, Existing, Traced
<1>4. Unprobed' = Unprobed
  BY <1>2, <1>3 DEF Unprobed
<1>5. /\ OnDisk(meta) \subseteq scan.avail
      /\ \A q \in scan.probe : scan.claims[q] = {i \in OnPeers(meta) : meta.chunks[i].peer = q}
      /\ Shard \ lost \subseteq scan.avail \cup Unprobed
      /\ Traced => Existing \subseteq scan.avail \cup Unprobed
  BY <1>1 DEF Probing
<1> QED
  BY <1>1, <1>2, <1>3, <1>4, <1>5 DEF Probing

LEMMA DataStill ==
    ASSUME NEW lost, Data(lost), UNCHANGED <<meta, local, held, net, gen, task>>
    PROVE  /\ Data(lost)'
           /\ Probing(lost) /\ scan' = scan => Probing(lost)'
<1>1. (Traced' <=> Traced) /\ up' = up /\ (Resting' <=> Resting)
  BY DEF Traced, up, Resting
<1>2. ASSUME NEW md PROVE Sound(md, lost)' <=> Sound(md, lost)
  BY <1>1 DEF Sound, PathOf
<1>3. ASSUME NEW t \in Task PROVE Stages(t, lost)'
  <2>1. PICK md : md = task[t].md
    OBVIOUS
  <2>2. Sound(task[t].md, lost)' <=> Sound(md, lost)'
    BY <2>1 DEF Sound, PathOf
  <2>3. Stages(t, lost)
    BY DEF Data
  <2> QED
    BY <1>2, <2>1, <2>2, <2>3 DEF Stages, NothingLocal, WrittenBelow, OnlyLocal, PathOf
<1>4. Sound(meta, lost)' <=> Sound(meta, lost)
  <2>1. PICK md : md = meta
    OBVIOUS
  <2>2. Sound(meta, lost)' <=> Sound(md, lost)'
    BY <2>1 DEF Sound, PathOf
  <2> QED
    BY <1>2, <2>1, <2>2
<1>5. Data(lost)'
  BY <1>1, <1>3, <1>4 DEF Data, NothingLocal
<1>6. /\ OnDisk(meta)' = OnDisk(meta) /\ OnPeers(meta)' = OnPeers(meta) /\ Existing' = Existing
  BY DEF OnDisk, OnPeers, PathOf, Existing
<1>7. ASSUME Probing(lost), scan' = scan PROVE Probing(lost)'
  BY <1>1, <1>6, <1>7 DEF Probing, Unprobed
<1> QED
  BY <1>5, <1>7

(* Once its metadata is gone, nothing is promised.                         *)
LEMMA DataGone ==
    ASSUME NEW lost, up'.pc = "done", task'["repair"].pc = "new", ~meta'.present,
           scan'.pc \notin {"probe", "verdict"}
    PROVE  Data(lost)' /\ Probing(lost)'
<1>1. \A t \in Task : task'[t].pc \in {"new", "done"}
  BY DEF up, Task
<1> QED
  BY <1>1 DEF Data, Stages, Probing

LEMMA DataStep ==
    ASSUME Tended, TypeInv, TypeInv', Control, Control', Aimed, NEW lost, Data(lost), Probing(lost),
           [Next]_vars, \A p \in Peer, f \in File : ~PeerLosesShard(p, f)
    PROVE  Data(lost)' /\ Probing(lost)'
<1> USE DEF disk, peers, history
<1>1. /\ task \in [Task -> TaskState] /\ Task = {"upload", "repair"}
  BY DEF TypeInv, TypeOK, Task
<1>2. CASE UploadFile
  <2>1. /\ task' = [task EXCEPT !["upload"].pc = "queued"] /\ up.pc = "new"
        /\ UNCHANGED <<local, scan>>
    BY <1>2 DEF UploadFile, up
  <2>2. up'.pc = "queued" /\ task'["repair"] = task["repair"] /\ up'.next = 0
    BY <1>1, <2>1 DEF up, TaskState, Data
  <2>3. scan.pc = "idle" /\ task["repair"].pc = "new" /\ NothingLocal
    BY <2>1 DEF Control, Data
  <2>4. \A t \in Task : Stages(t, lost)'
    BY <1>1, <2>1, <2>2, <2>3 DEF Stages, NothingLocal, up
  <2> QED
    BY <2>1, <2>2, <2>3, <2>4 DEF Data, Probing, Resting
<1>3. CASE ReadFile \/ Reading \/ (\E p \in Peer : PeerOffline(p) \/ PeerOnline(p)) \/ UNCHANGED vars
  <2>1. UNCHANGED <<meta, local, held, net, gen, task, scan>>
    BY <1>3
       DEF ReadFile, StartGather, Reading, ServeRange, GatherAll, FinishRead,
              FetchShard,
       PeerOffline, PeerOnline, vars
  <2> QED
    BY <2>1, DataStill
<1>4. CASE StartScan
  <2>1. UNCHANGED <<meta, local, held, net, gen, task>> /\ scan'.pc = "listed"
    BY <1>4 DEF StartScan, IdleScan
  <2> QED
    BY <2>1, DataStill DEF Probing
<1>14. CASE AssessLocal
  <2>1. UNCHANGED <<meta, local, held, net, gen, task>>
    BY <1>14 DEF AssessLocal
  <2> QED
    BY <1>14, <2>1, DataStill, ScanBegins
<1>5. ASSUME NEW p \in Peer, ProbePeer(p) PROVE Data(lost)' /\ Probing(lost)'
  <2>1. UNCHANGED <<meta, local, held, net, gen, task>>
    BY <1>5 DEF ProbePeer
  <2> QED
    BY <1>5, <2>1, DataStill, ScanProbes
<1>6. CASE Classify
  <2>1. UNCHANGED <<meta, local, held, net, gen, task>>
    BY <1>6 DEF Classify
  <2> QED
    BY <1>6, <2>1, DataStill, ScanConcludes
<1>7. CASE LeaveAlone \/ StartRebuild \/ AbandonRebuild \/ (\E i \in Shard : FetchShard("repair", i))
  <2>1. UNCHANGED <<meta, local, held, net, gen, task>>
    BY <1>7 DEF LeaveAlone, StartRebuild, StartGather, AbandonRebuild, FetchShard
  <2>2. scan'.pc \notin {"probe", "verdict"}
    <3>1. CASE LeaveAlone \/ StartRebuild \/ AbandonRebuild
      BY <3>1
         DEF LeaveAlone, StartRebuild, AbandonRebuild, IdleScan, TypeInv, TypeOK,
                ScanState
    <3>2. CASE \E i \in Shard : FetchShard("repair", i)
      BY <3>2 DEF FetchShard, Control
    <3> QED
      BY <1>7, <3>1, <3>2
  <2> QED
    BY <2>1, <2>2, DataStill DEF Probing
<1>8. CASE ReplaceShards
  <2>1. /\ task' = [task EXCEPT !["repair"] =
                      [IdleTask EXCEPT !.pc = "queued", !.md = gather["repair"].md]]
        /\ local' = NoFiles /\ gather["repair"].pc = "fetch" /\ scan' = scan
    BY <1>8 DEF ReplaceShards
  <2>2. up' = up /\ task'["repair"].pc = "queued" /\ NothingLocal'
    BY <1>1, <2>1 DEF up, IdleTask, NoFiles, NothingLocal
  <2>3. up.pc = "done" /\ scan.pc = "rebuild"
    BY <2>1 DEF Control
  <2>5. task'["repair"].next = 0
    BY <1>1, <2>1 DEF IdleTask
  <2>4. \A t \in Task : Stages(t, lost)'
    BY <1>1, <2>2, <2>3, <2>5 DEF Stages, up
  <2> QED
    BY <2>1, <2>2, <2>3, <2>4 DEF Data, Probing, Resting
<1>9. CASE FinishRebuild
  <2>1. /\ task' = [task EXCEPT !["repair"] = IdleTask] /\ scan'.pc = "idle"
        /\ task["repair"].pc = "done"
        /\ UNCHANGED <<meta, local, held, net, gen>>
    BY <1>9 DEF FinishRebuild, IdleScan
  <2>2. task'["repair"].pc = "new" /\ up' = up
    BY <1>1, <2>1 DEF up, IdleTask
  <2>3. up.pc = "done"
    BY <2>1 DEF Control
  <2>4. \A t \in Task : Stages(t, lost)'
    BY <1>1, <2>2, <2>3 DEF Stages, up
  <2>5. meta.present => Sound(meta, lost)'
    <3>1. PICK md : md = meta
      OBVIOUS
    <3>2. meta.present => Sound(md, lost)
      BY <2>1, <2>3, <3>1 DEF Data, Resting
    <3>3. Sound(md, lost) => Sound(md, lost)'
      BY <2>1 DEF Sound, Traced, PathOf
    <3> QED
      BY <2>1, <3>1, <3>2, <3>3 DEF Sound, PathOf
  <2> QED
    BY <2>1, <2>2, <2>3, <2>4, <2>5 DEF Data, Probing
<1>10. CASE PurgeOrphan \/ PurgeUnrecoverable
  <2>1. task' = task /\ scan'.pc \notin {"probe", "verdict"} /\ ~meta'.present /\ scan.pc = "verdict"
    BY <1>10
       DEF PurgeOrphan, PurgeUnrecoverable, RetireMetadata, Unlink, NoMetadata,
              IdleScan,
                 TypeInv, TypeOK, ScanState
  <2>2. up.pc = "done" /\ task["repair"].pc = "new"
    BY <2>1 DEF Control
  <2> QED
    BY <2>1, <2>2, DataGone DEF up
<1>11. CASE Removing("purge")
  <2>1. /\ task' = task /\ meta' = meta /\ remove["purge"].pc = "tell"
        /\ scan' = scan \/ scan' = IdleScan
    BY <1>11 DEF Removing, DropReplicas, RemoveShards
  <2>2. scan.pc = "purge" /\ ~meta.present
    BY <2>1 DEF Control
  <2>3. up.pc = "done" /\ task["repair"].pc = "new"
    BY <2>2 DEF Control
  <2>4. scan'.pc \notin {"probe", "verdict"}
    BY <2>1, <2>2 DEF IdleScan
  <2> QED
    BY <2>1, <2>2, <2>3, <2>4, DataGone DEF up
<1>12. \A t \in Task : Pipeline(t) => Data(lost)' /\ Probing(lost)'
  BY DataPipeline
<1>13. \A m \in net : ReceiveShard(m) => Data(lost)' /\ Probing(lost)'
  BY DataReceive
<1> QED
  BY <1>2, <1>3, <1>4, <1>5, <1>6, <1>7, <1>8, <1>9, <1>10, <1>11, <1>12, <1>13,
     <1>14, TendedOnly
     DEF Next, Requests, Repairing, Remover, Environment

RepairInv ==
    /\ Control /\ Aimed
    /\ \E lost \in SUBSET Shard :
          Cardinality(lost) <= losses /\ Data(lost) /\ Probing(lost)

LEMMA RepairInit == Init => RepairInv
<1> SUFFICES ASSUME Init PROVE RepairInv
  OBVIOUS
<1>1. losses = 0 /\ {} \in SUBSET Shard /\ Cardinality({}) = 0
  BY FS_EmptySet DEF Init
<1> QED
  BY <1>1, ControlInit, AimedInit, DataInit DEF RepairInv

LEMMA RepairStep ==
    ASSUME Tended, TypeInv, TypeInv', RepairInv, [Next]_vars
    PROVE  RepairInv'
<1>1. Control' /\ Aimed'
  BY ControlStep, AimedStep DEF RepairInv
<1>2. PICK lost \in SUBSET Shard : Cardinality(lost) <= losses /\ Data(lost) /\ Probing(lost)
  BY DEF RepairInv
<1>3. losses \in Nat
  BY LifecycleAssumption DEF TypeInv, TypeOK
<1>4. ASSUME NEW p \in Peer, NEW f \in File, PeerLosesShard(p, f) PROVE RepairInv'
  <2>1. losses' = losses + 1 /\ f[2] \in Shard
    BY <1>4 DEF PeerLosesShard, File
  <2>2. lost \cup {f[2]} \in SUBSET Shard /\ Cardinality(lost \cup {f[2]}) <= losses'
    BY <1>2, <1>3, <2>1, OneMoreLost
  <2>3. Data(lost \cup {f[2]})' /\ Probing(lost \cup {f[2]})'
    BY <1>2, <1>4, DataLoss
  <2> QED
    BY <1>1, <2>2, <2>3 DEF RepairInv
<1>5. ASSUME \A p \in Peer, f \in File : ~PeerLosesShard(p, f) PROVE RepairInv'
  <2>1. losses' = losses
    BY <1>5
       DEF Next, Requests, UploadFile, RenameRead, DeleteFile, ReadFile, StartScan,
              Pipeline,
         StartEncoding, WriteShard, FinishEncoder, EncryptShard, FinishEncryption,
         EncoderFails, EncodingRaises, MergeMetadata, WriteMetadata, SkipDistribution,
         DistributeShards, PushShard, DropLocal, KeepAfterFailure, PushRaises,
         PublishPlacement, ReceiveShard, RenameWrite, Reading, ServeRange, GatherAll,
         FinishRead,
         FetchShard, StartGather, Repairing, AssessLocal, ProbePeer, Classify,
         LeaveAlone, StartRebuild, AbandonRebuild,
         ReplaceShards, FinishRebuild, PurgeOrphan, PurgeUnrecoverable, Removing,
         DropReplicas, RemoveShards, Environment, Crash, PeerOffline, PeerOnline,
         vars, history
  <2>2. Data(lost)' /\ Probing(lost)'
    BY <1>1, <1>2, <1>5, DataStep DEF RepairInv
  <2> QED
    BY <1>1, <1>2, <2>1, <2>2 DEF RepairInv
<1> QED
  BY <1>4, <1>5

LEMMA VerdictOnEnough ==
    ASSUME NEW n \in Nat, NEW total, n >= DataShards
    PROVE  VerdictOn(n, total) \notin {"unrecoverable", "orphaned"}
  BY ShardsAssumption DEF VerdictOn

LEMMA VerdictFollows ==
    ASSUME Prompt \/ MaxLoss <= ParityShards, TypeInv, RepairInv
    PROVE  VerdictJustified
<1> SUFFICES ASSUME scan.pc = "verdict", scan.verdict \in {"unrecoverable", "orphaned"}
             PROVE  Cardinality(Existing) < DataShards
  BY DEF VerdictJustified
<1>1. PICK lost \in SUBSET Shard : Cardinality(lost) <= losses /\ Data(lost) /\ Probing(lost)
  BY DEF RepairInv
<1>2. Unprobed = {} /\ scan.verdict = VerdictOn(Cardinality(scan.avail), Claimed(scan.md))
  BY <1>1 DEF Probing, Unprobed
<1>3. /\ Shard \ lost \subseteq scan.avail /\ (Traced => Existing \subseteq scan.avail)
  BY <1>1, <1>2 DEF Probing
<1>4. /\ scan.avail \in SUBSET Shard /\ gen \in Nat /\ losses \in 0..MaxLoss
      /\ MaxLoss \in Nat /\ MaxGen \in Nat /\ ParityShards \in Nat /\ DataShards \in Nat
  BY LifecycleAssumption, ShardsAssumption DEF TypeInv, TypeOK, ScanState
<1>5. IsFiniteSet(Shard)
  BY FS_Interval, ShardsAssumption DEF Shard, Total
<1>6. IsFiniteSet(scan.avail) /\ Cardinality(scan.avail) \in Nat
  BY <1>4, <1>5, FS_Subset, FS_CardinalityType
<1>7. Cardinality(scan.avail) < DataShards
  BY <1>2, <1>4, <1>6, VerdictOnEnough
<1>8. CASE Traced
  <2>1. Cardinality(Existing) <= Cardinality(scan.avail) /\ Cardinality(Existing) \in Nat
    BY <1>3, <1>6, <1>8, FS_Subset, FS_CardinalityType
  <2> QED
    BY <1>4, <1>6, <1>7, <2>1
<1>9. CASE ~Traced
  <2>1. losses <= ParityShards
    BY <1>4, <1>9 DEF Traced
  <2>2. Cardinality(lost) <= ParityShards
    <3>1. Cardinality(lost) \in Nat
      BY <1>5, FS_Subset, FS_CardinalityType
    <3> QED
      BY <1>1, <1>4, <2>1, <3>1
  <2>3. Cardinality(scan.avail) + ParityShards >= Total
    BY <1>1, <1>3, <1>4, <2>2, EnoughLeft
  <2> QED
    BY <1>4, <1>6, <1>7, <2>3 DEF Total
<1> QED
  BY <1>8, <1>9

(* main.py:2190, 2200-2202, repair.py:38-40: a file at rest is found       *)
(* unrecoverable, or without shards, only when too few of its shards exist *)
(* anywhere, whatever transfers were refused, damaged, late or unanswered, *)
(* whichever peers came and went, however many shards their disks lost and *)
(* however often the file was rebuilt, purged and scanned again.  When     *)
(* messages may come late, no more shards are lost than there is parity.   *)
THEOREM VerdictsJustified ==
    ASSUME Tended, Prompt \/ MaxLoss <= ParityShards
    PROVE  Spec => []VerdictJustified
<1>1. TypeInv /\ RepairInv => VerdictJustified
  BY VerdictFollows
<1>2. TypeInv /\ RepairInv /\ [Next]_vars => TypeInv' /\ RepairInv'
  BY TypeStep, RepairStep
<1>3. Init => TypeInv /\ RepairInv
  BY TypeInit, RepairInit
<1> QED
  BY <1>1, <1>2, <1>3, PTL DEF Spec

=============================================================================
