------------------------- MODULE ResourceStoreProofs -------------------------
(* Theorems about ResourceStore, for every value of its constants.         *)
EXTENDS ResourceStore, SequenceTheorems, TLAPS

\* A request in progress has its input, its step fits its operation, and a step
\* that uses the path found by a listing has one.
Shape(p) ==
  /\ pc[p] # "idle" => req[p] \in Request
  /\ pc[p] \in {"content", "settle"} => req[p].op = "put"
  /\ pc[p] = "meta" => req[p].op = "putMeta"
  /\ pc[p] = "drop" => req[p].op = "delete"
  /\ pc[p] = "chunk" => req[p].op = "putChunk"
  /\ pc[p] = "dropChunk" => req[p].op = "deleteChunk"
  /\ pc[p] \in {"chunkMeta"} => req[p].op \in {"putChunk", "deleteChunk"}
  /\ pc[p] \in {"drop", "stat", "etag", "open"} => snap[p].path \in ContentTypes
  /\ pc[p] = "reply" => req[p].op \in {"put", "putMeta", "delete", "putChunk", "deleteChunk"}

ShapeInv == \A p \in Slots : Shape(p)

\* The holder of the lock is the head of the chain: there is one at most.
LockInv == \A p \in Slots : Holds(p) => queue # <<>> /\ Head(queue) = p

\* What a put writes as the content of its type.
Written(p) == [write |-> number[p], version |-> NextVersion(snap[p].prior)]

\* What the holder of the lock has established on disk at each of its steps.
Progress(p) ==
  /\ pc[p] \in {"content", "settle", "meta"} => snap[p].prior = sidecar
  /\ pc[p] = "content" =>
       /\ snap[p].files = Files
       /\ ~PreconditionFails(req[p].ifMatch, req[p].ifNoneMatch, Exists, VersionOf(sidecar))
  /\ pc[p] = "settle" =>
       /\ ~settled
       /\ reps[req[p].type] = Written(p)
       /\ Files = snap[p].files \cup {req[p].type}
  /\ pc[p] = "meta" =>
       /\ Exists
       /\ ~MetaPreconditionFails(req[p].ifMatch, req[p].ifNoneMatch, MetaVersionOf(sidecar))
  /\ pc[p] = "drop" =>
       /\ snap[p].files = Files
       /\ settled => Exists
       /\ req[p].ifMatch # None => req[p].ifMatch = VersionOf(sidecar)
  /\ pc[p] = "chunk" \/ (pc[p] = "chunkMeta" /\ req[p].op = "putChunk") => Exists
  /\ pc[p] = "reply" /\ req[p].op = "put" =>
       /\ ~settled
       /\ Files = {req[p].type}
       /\ reps[req[p].type] = Written(p)
       /\ sidecar = PutSidecarOf(req[p], snap[p].prior)
       /\ acked.version <= VersionOf(snap[p].prior)
  /\ pc[p] = "reply" /\ req[p].op = "delete" =>
       /\ ~settled
       /\ ~Exists
       /\ ChunkDirEmpty
       /\ sidecar = TombstoneOf(snap[p].prior, snap[p].path)
       /\ snap[p].path \in ContentTypes
       /\ acked.version <= VersionOf(snap[p].prior)

ProgressInv == \A p \in Slots : Progress(p)

\* What the disk remembers of the acknowledgements.
AckedInv == acked.version <= VersionOf(sidecar) /\ AckedStateOnDisk

\* The inductive invariant.
IInv == TypeOK /\ ShapeInv /\ LockInv /\ ProgressInv /\ AckedInv

LEMMA CountersTyped ==
  ASSUME NEW s \in Sidecar \cup {None}
  PROVE  VersionOf(s) \in Nat /\ MetaVersionOf(s) \in Nat /\ NextVersion(s) \in Nat
BY DEF VersionOf, MetaVersionOf, NextVersion, Sidecar

LEMMA SidecarsTyped ==
  ASSUME NEW r \in Request, NEW s \in Sidecar \cup {None}, NEW ct \in ContentTypes
  PROVE  /\ PutSidecarOf(r, s) \in Sidecar
         /\ MetaSidecarOf(r, s) \in Sidecar
         /\ TombstoneOf(s, ct) \in Sidecar
BY CountersTyped
   DEF PutSidecarOf, MetaSidecarOf, TombstoneOf, KeptCustom, KeptCreator, WrittenEpoch,
       Sidecar, Request, VersionOf, NextVersion

LEMMA InitTyped == Init => TypeOK /\ ShapeInv /\ LockInv
BY ConstantsAssumption
   DEF Init, TypeOK, StoreTypeOK, SlotTypeOK, ClientTypeOK, BoundTypeOK, ShapeInv, Shape, LockInv,
       Holds, Locked, Reading, Snap, NoSnap

Status == {"ok", "absent", "precondition", "error"}

LEMMA AnswerTyped ==
  ASSUME SlotTypeOK, NEW p \in Slots, NEW status \in Status, NEW version \in Nat,
         NEW content \in Content \cup {None}, Answer(p, status, version, content), queue' \in Seq(Slots)
  PROVE  SlotTypeOK' /\ answer' \in Reply \cup {None}
<1>1. ETag(version) \in (Nat \ {0}) \cup {None}
  BY DEF ETag
<1>2. answer' \in Reply
  BY <1>1 DEF Answer, Reply, Status
<1>3. SlotTypeOK'
  BY DEF SlotTypeOK, Answer, NoSnap, Snap
<1> QED BY <1>2, <1>3

LEMMA ReleaseTyped ==
  ASSUME SlotTypeOK, NEW p \in Slots, NEW status \in Status, NEW version \in Nat, queue # <<>>,
         Release(p, status, version)
  PROVE  SlotTypeOK' /\ answer' \in Reply \cup {None}
<1>1. Answer(p, status, version, None) /\ None \in Content \cup {None}
  BY DEF Release
<1>2. queue' \in Seq(Slots)
  BY HeadTailProperties DEF Release, SlotTypeOK
<1> QED BY <1>1, <1>2, AnswerTyped

\* A slot moves to its next step, with a new snapshot or the old one.
LEMMA MoveTyped ==
  ASSUME SlotTypeOK, NEW p \in Slots, NEW label \in {"idle", "queued"} \cup Locked \cup Reading,
         NEW s \in Snap, Goto(p, label) \/ UNCHANGED pc,
         snap' = [snap EXCEPT ![p] = s] \/ UNCHANGED snap, UNCHANGED <<queue, input>>
  PROVE  SlotTypeOK'
BY DEF SlotTypeOK, Goto, input

LEMMA PutTyped ==
  ASSUME TypeOK, ShapeInv, LockInv, NEW p \in Slots, Put(p)
  PROVE  TypeOK'
<1> USE DEF TypeOK
<1> DEFINE r == req[p]
           s == snap[p].prior
<1>0. /\ snap[p] \in Snap /\ snap[p].prior \in Sidecar \cup {None}
      /\ Holds(p) => queue # <<>>
      /\ pc[p] # "idle" => req[p] \in Request
      /\ pc[p] \in {"content", "settle", "chunk", "reply"} => Holds(p)
  BY DEF SlotTypeOK, Snap, ShapeInv, Shape, LockInv, Holds, Locked
<1>1. CASE PutBegin(p)
  <2>1. StoreTypeOK' /\ BoundTypeOK'
    BY <1>1 DEF PutBegin, StoreTypeOK, BoundTypeOK, disk
  <2>2. SlotTypeOK' /\ answer' \in Reply \cup {None}
    <3>1. CASE Release(p, "precondition", 0)
      BY <1>1, <3>1, ReleaseTyped DEF PutBegin, Granted, Status
    <3>2. CASE ~Release(p, "precondition", 0)
      <4> DEFINE new == [snap[p] EXCEPT !.files = Files, !.prior = sidecar]
      <4>1. /\ snap' = [snap EXCEPT ![p] = new]
            /\ Goto(p, "content") /\ UNCHANGED <<input, queue, answer>>
        BY <1>1, <3>2 DEF PutBegin
      <4>2. new \in Snap
        BY <1>0 DEF Snap, StoreTypeOK, Files
      <4> HIDE DEF new
      <4> QED BY <4>1, <4>2, MoveTyped DEF ClientTypeOK, Locked
    <3> QED BY <3>1, <3>2
  <2>3. ClientTypeOK'
    BY <1>1, <2>2 DEF PutBegin, ClientTypeOK, history
  <2> QED BY <2>1, <2>2, <2>3
<1>2. CASE PutRefused(p)
  <2>1. SlotTypeOK' /\ answer' \in Reply \cup {None}
    BY <1>0, <1>2, ReleaseTyped DEF PutRefused, Status
  <2> QED BY <1>2, <2>1 DEF PutRefused, StoreTypeOK, ClientTypeOK, BoundTypeOK, disk, history
<1>3. CASE PutContent(p)
  <2>1. reps' \in [ContentTypes -> Content \cup {None}]
    BY <1>0, <1>3, CountersTyped DEF PutContent, StoreTypeOK, SlotTypeOK, Request, Content
  <2>2. SlotTypeOK'
    BY <1>3 DEF PutContent, SlotTypeOK, Goto, input, Locked
  <2> QED BY <1>3, <2>1, <2>2 DEF PutContent, StoreTypeOK, ClientTypeOK, BoundTypeOK
<1>4. CASE PutPrune(p)
  <2>1. reps' \in [ContentTypes -> Content \cup {None}]
    BY <1>4 DEF PutPrune, StoreTypeOK
  <2>2. SlotTypeOK'
    <3>1. PICK ct \in Stale(p) : snap' = [snap EXCEPT ![p].files = @ \ {ct}]
      BY <1>4 DEF PutPrune
    <3> DEFINE new == [snap[p] EXCEPT !.files = @ \ {ct}]
    <3>2. snap' = [snap EXCEPT ![p] = new]
      BY <3>1
    <3>3. new \in Snap
      BY <1>0 DEF Snap
    <3> HIDE DEF new
    <3> QED BY <1>4, <3>2, <3>3, MoveTyped DEF PutPrune
  <2> QED BY <1>4, <2>1, <2>2 DEF PutPrune, StoreTypeOK, ClientTypeOK, BoundTypeOK, history
<1>5. CASE PutSidecar(p)
  <2>1. sidecar' \in Sidecar
    BY <1>0, <1>5, SidecarsTyped DEF PutSidecar, Request
  <2>2. SlotTypeOK'
    BY <1>5 DEF PutSidecar, SlotTypeOK, Goto, input, Locked
  <2> QED BY <1>5, <2>1, <2>2 DEF PutSidecar, StoreTypeOK, ClientTypeOK, BoundTypeOK, history
<1>6. CASE PutReply(p)
  <2>1. PutSidecarOf(r, s).version \in Nat
    BY <1>0, <1>6, SidecarsTyped DEF PutReply, Request, Sidecar
  <2>2. Release(p, "ok", PutSidecarOf(r, s).version)
    BY <1>6 DEF PutReply
  <2>3. SlotTypeOK' /\ answer' \in Reply \cup {None}
    BY <1>0, <1>6, <2>1, <2>2, ReleaseTyped DEF PutReply, Status
  <2>4. acked' \in [live : BOOLEAN, version : Nat, write : Nat] /\ settled' \in BOOLEAN
    BY <1>6, <2>1 DEF PutReply, SlotTypeOK
  <2> QED BY <1>6, <2>3, <2>4 DEF PutReply, StoreTypeOK, ClientTypeOK, BoundTypeOK, disk
<1> QED BY <1>1, <1>2, <1>3, <1>4, <1>5, <1>6 DEF Put

LEMMA InProgress ==
  ASSUME TypeOK, ShapeInv, LockInv, NEW p \in Slots
  PROVE  /\ snap[p] \in Snap /\ snap[p].prior \in Sidecar \cup {None}
         /\ Holds(p) => queue # <<>>
         /\ pc[p] # "idle" => req[p] \in Request
BY DEF TypeOK, SlotTypeOK, Snap, ShapeInv, Shape, LockInv, Holds, Locked

LEMMA MetaTyped ==
  ASSUME TypeOK, ShapeInv, LockInv, NEW p \in Slots, Meta(p)
  PROVE  TypeOK'
<1> USE DEF TypeOK
<1> DEFINE r == req[p]
           s == snap[p].prior
<1>1. CASE MetaBegin(p)
  <2>1. SlotTypeOK' /\ answer' \in Reply \cup {None}
    <3>1. CASE Release(p, "absent", 0)
      BY <1>1, <3>1, ReleaseTyped DEF MetaBegin, Granted, Status
    <3>2. CASE Release(p, "precondition", 0)
      BY <1>1, <3>2, ReleaseTyped DEF MetaBegin, Granted, Status
    <3>3. CASE ~Release(p, "absent", 0) /\ ~Release(p, "precondition", 0)
      <4> DEFINE new == [snap[p] EXCEPT !.prior = sidecar]
      <4>1. /\ snap' = [snap EXCEPT ![p] = new]
            /\ Goto(p, "meta") /\ UNCHANGED <<input, queue, answer>>
        BY <1>1, <3>3 DEF MetaBegin
      <4>2. new \in Snap
        BY InProgress DEF Snap, StoreTypeOK
      <4> HIDE DEF new
      <4> QED BY <4>1, <4>2, MoveTyped DEF ClientTypeOK, Locked
    <3> QED BY <3>1, <3>2, <3>3
  <2> QED BY <1>1, <2>1 DEF MetaBegin, StoreTypeOK, ClientTypeOK, BoundTypeOK, disk, history
<1>2. CASE MetaSidecar(p)
  <2>1. sidecar' \in Sidecar
    <3>1. r \in Request /\ r.type \in ContentTypes /\ s \in Sidecar \cup {None}
      BY <1>2, InProgress DEF MetaSidecar, Request
    <3> QED BY <1>2, <3>1, SidecarsTyped DEF MetaSidecar
  <2>2. SlotTypeOK'
    BY <1>2 DEF MetaSidecar, SlotTypeOK, Goto, input, Locked
  <2> QED BY <1>2, <2>1, <2>2 DEF MetaSidecar, StoreTypeOK, ClientTypeOK, BoundTypeOK, history
<1>3. CASE MetaReply(p)
  <2> DEFINE written == MetaSidecarOf(r, s)
  <2>1. r \in Request /\ r.type \in ContentTypes /\ s \in Sidecar \cup {None}
    BY <1>3, InProgress DEF MetaReply, Request
  <2>2. written.metaVersion \in Nat
    BY <2>1, SidecarsTyped DEF Sidecar
  <2>3. Release(p, "ok", written.metaVersion) /\ Holds(p)
    BY <1>3 DEF MetaReply, Holds, Locked
  <2>4. SlotTypeOK' /\ answer' \in Reply \cup {None}
    <3> HIDE DEF written
    <3> QED BY <2>2, <2>3, InProgress, ReleaseTyped DEF Status
  <2>5. metaAck' \in [version : Nat, custom : Customs \cup {None}]
    BY <1>3, <2>1, <2>2 DEF MetaReply, Request
  <2> QED BY <1>3, <2>4, <2>5 DEF MetaReply, StoreTypeOK, ClientTypeOK, BoundTypeOK, disk
<1> QED BY <1>1, <1>2, <1>3 DEF Meta

LEMMA DeleteTyped ==
  ASSUME TypeOK, ShapeInv, LockInv, NEW p \in Slots, Delete(p)
  PROVE  TypeOK'
<1> USE DEF TypeOK
<1>1. CASE DeleteBegin(p)
  <2>1. SlotTypeOK' /\ answer' \in Reply \cup {None}
    <3>1. CASE Release(p, "precondition", 0)
      BY <1>1, <3>1, ReleaseTyped DEF DeleteBegin, Granted, Status
    <3>2. CASE Release(p, "ok", 0)
      BY <1>1, <3>2, ReleaseTyped DEF DeleteBegin, Granted, Status
    <3>3. CASE ~Release(p, "ok", 0) /\ ~Release(p, "precondition", 0)
      <4>1. PICK ct \in Files : snap' = [snap EXCEPT ![p] = [@ EXCEPT !.files = Files, !.path = ct]]
        BY <1>1, <3>3 DEF DeleteBegin
      <4> DEFINE new == [snap[p] EXCEPT !.files = Files, !.path = ct]
      <4>2. /\ snap' = [snap EXCEPT ![p] = new]
            /\ Goto(p, "drop") /\ UNCHANGED <<input, queue, answer>>
        BY <1>1, <3>3, <4>1 DEF DeleteBegin
      <4>3. new \in Snap
        BY InProgress DEF Snap, Files
      <4> HIDE DEF new
      <4> QED BY <4>2, <4>3, MoveTyped DEF ClientTypeOK, Locked
    <3> QED BY <3>1, <3>2, <3>3
  <2> QED BY <1>1, <2>1 DEF DeleteBegin, StoreTypeOK, ClientTypeOK, BoundTypeOK, disk, history
<1>2. CASE DeleteContent(p)
  <2>1. reps' \in [ContentTypes -> Content \cup {None}]
    BY <1>2 DEF DeleteContent, StoreTypeOK
  <2>2. SlotTypeOK'
    <3>1. PICK ct \in snap[p].files : snap' = [snap EXCEPT ![p].files = @ \ {ct}]
      BY <1>2 DEF DeleteContent
    <3> DEFINE new == [snap[p] EXCEPT !.files = @ \ {ct}]
    <3>2. snap' = [snap EXCEPT ![p] = new]
      BY <3>1
    <3>3. new \in Snap
      BY InProgress DEF Snap
    <3> HIDE DEF new
    <3> QED BY <1>2, <3>2, <3>3, MoveTyped DEF DeleteContent
  <2> QED BY <1>2, <2>1, <2>2 DEF DeleteContent, StoreTypeOK, ClientTypeOK, BoundTypeOK
<1>3. CASE DeleteChunks(p)
  <2>1. chunks' \in [ChunkIndexes -> [stored : BOOLEAN, version : Nat]]
    BY <1>3 DEF DeleteChunks, StoreTypeOK
  <2> QED BY <1>3, <2>1 DEF DeleteChunks, StoreTypeOK, SlotTypeOK, ClientTypeOK, BoundTypeOK, input, history
<1>4. CASE DeleteTombstone(p)
  <2>1. sidecar' \in Sidecar
    <3>1. snap[p].path \in ContentTypes /\ sidecar \in Sidecar \cup {None}
      BY <1>4 DEF DeleteTombstone, ShapeInv, Shape, StoreTypeOK
    <3>2. req[p] \in Request
      BY <1>4, InProgress DEF DeleteTombstone
    <3> QED BY <1>4, <3>1, <3>2, SidecarsTyped DEF DeleteTombstone
  <2>2. SlotTypeOK'
    <3> DEFINE new == [snap[p] EXCEPT !.prior = sidecar]
    <3>1. snap' = [snap EXCEPT ![p] = new] /\ Goto(p, "reply") /\ UNCHANGED <<queue, input>>
      BY <1>4 DEF DeleteTombstone
    <3>2. new \in Snap
      BY InProgress DEF Snap, StoreTypeOK
    <3> HIDE DEF new
    <3> QED BY <3>1, <3>2, MoveTyped DEF Locked
  <2>3. metaAck' \in [version : Nat, custom : Customs \cup {None}]
    BY <1>4 DEF DeleteTombstone
  <2> QED BY <1>4, <2>1, <2>2, <2>3 DEF DeleteTombstone, StoreTypeOK, ClientTypeOK, BoundTypeOK
<1>5. CASE DeleteReply(p)
  <2>1. SlotTypeOK' /\ answer' \in Reply \cup {None}
    BY <1>5, InProgress, ReleaseTyped DEF DeleteReply, Holds, Locked, Status
  <2>2. TombstoneOf(snap[p].prior, snap[p].path).version \in Nat
    BY InProgress, CountersTyped DEF TombstoneOf
  <2>3. acked' \in [live : BOOLEAN, version : Nat, write : Nat] /\ settled' \in BOOLEAN
    BY <1>5, <2>2 DEF DeleteReply
  <2> QED BY <1>5, <2>1, <2>3 DEF DeleteReply, StoreTypeOK, ClientTypeOK, BoundTypeOK, disk
<1> QED BY <1>1, <1>2, <1>3, <1>4, <1>5 DEF Delete

LEMMA ChunkTyped ==
  ASSUME TypeOK, ShapeInv, LockInv, NEW p \in Slots, Chunk(p)
  PROVE  TypeOK'
<1> USE DEF TypeOK
<1> DEFINE Chunks == [ChunkIndexes -> [stored : BOOLEAN, version : Nat]]
<1>1. ASSUME PutChunkBegin(p) \/ DeleteChunkBegin(p)
      PROVE  TypeOK'
  <2>1. SlotTypeOK' /\ answer' \in Reply \cup {None}
    <3>1. CASE Release(p, "absent", 0) \/ Release(p, "precondition", 0)
      BY <1>1, <3>1, ReleaseTyped DEF PutChunkBegin, DeleteChunkBegin, Granted, Status
    <3>2. CASE ~(Release(p, "absent", 0) \/ Release(p, "precondition", 0))
      <4>1. /\ Goto(p, "chunk") \/ Goto(p, "dropChunk")
            /\ UNCHANGED <<input, queue, snap, answer>>
        BY <1>1, <3>2 DEF PutChunkBegin, DeleteChunkBegin
      <4> QED BY <4>1 DEF SlotTypeOK, ClientTypeOK, Goto, input, Locked
    <3> QED BY <3>1, <3>2
  <2>2. UNCHANGED <<disk, issued, faults, history>>
    BY <1>1 DEF PutChunkBegin, DeleteChunkBegin
  <2> QED BY <2>1, <2>2 DEF StoreTypeOK, ClientTypeOK, BoundTypeOK, disk, history
<1>2. ASSUME PutChunkContent(p) \/ PutChunkSidecar(p) \/ DeleteChunkContent(p) \/ DeleteChunkSidecar(p)
      PROVE  TypeOK'
  <2>1. chunks' \in Chunks
    <3>1. chunks \in Chunks
      BY DEF StoreTypeOK
    <3>2. req[p].chunk \in ChunkIndexes
      BY <1>2, InProgress
         DEF PutChunkContent, PutChunkSidecar, DeleteChunkContent, DeleteChunkSidecar, Request
    <3>3. CASE PutChunkContent(p) \/ DeleteChunkContent(p)
      BY <3>1, <3>2, <3>3 DEF PutChunkContent, DeleteChunkContent
    <3>4. CASE PutChunkSidecar(p)
      BY <3>1, <3>2, <3>4 DEF PutChunkSidecar
    <3>5. CASE DeleteChunkSidecar(p)
      BY <3>1, <3>2, <3>5 DEF DeleteChunkSidecar
    <3> QED BY <1>2, <3>3, <3>4, <3>5
  <2>2. /\ Goto(p, "chunkMeta") \/ Goto(p, "reply")
        /\ UNCHANGED <<reps, sidecar, queue, input, snap, answer, issued, faults, history>>
    BY <1>2 DEF PutChunkContent, PutChunkSidecar, DeleteChunkContent, DeleteChunkSidecar
  <2>3. SlotTypeOK'
    BY <2>2 DEF SlotTypeOK, Goto, input, Locked
  <2> QED BY <2>1, <2>2, <2>3 DEF StoreTypeOK, ClientTypeOK, BoundTypeOK, history
<1>3. CASE ChunkReply(p)
  <2>1. chunks[req[p].chunk].version \in Nat
    BY <1>3, InProgress DEF ChunkReply, StoreTypeOK, Request
  <2>2. SlotTypeOK' /\ answer' \in Reply \cup {None}
    BY <1>3, <2>1, InProgress, ReleaseTyped DEF ChunkReply, Holds, Locked, Status
  <2> QED BY <1>3, <2>2 DEF ChunkReply, StoreTypeOK, ClientTypeOK, BoundTypeOK, disk, history
<1> QED BY <1>1, <1>2, <1>3 DEF Chunk

LEMMA ReadTyped ==
  ASSUME TypeOK, ShapeInv, LockInv, NEW p \in Slots, Read(p)
  PROVE  TypeOK'
<1> USE DEF TypeOK
<1>1. UNCHANGED <<disk, queue, issued, faults, history>>
  BY DEF Read, ReadFind, HeadStat, HeadSidecar, GetSidecar, GetOpen
<1>2. SlotTypeOK' /\ answer' \in Reply \cup {None}
  <2>1. ASSUME NEW status \in Status, NEW version \in Nat, NEW content \in Content \cup {None},
               Answer(p, status, version, content)
        PROVE  SlotTypeOK' /\ answer' \in Reply \cup {None}
    BY <1>1, <2>1, AnswerTyped DEF SlotTypeOK
  <2>2. ASSUME NEW new \in Snap, NEW label \in Reading, snap' = [snap EXCEPT ![p] = new],
               Goto(p, label), UNCHANGED <<input, answer>>
        PROVE  SlotTypeOK' /\ answer' \in Reply \cup {None}
    BY <1>1, <2>2, MoveTyped DEF ClientTypeOK
  <2>3. /\ snap[p] \in Snap
        /\ \A ct \in ContentTypes : reps[ct] \in Content \cup {None}
        /\ VersionOf(sidecar) \in Nat /\ VersionOf(snap[p].prior) \in Nat
    BY InProgress, CountersTyped DEF StoreTypeOK
  <2>4. CASE ReadFind(p)
    <3>1. CASE Answer(p, "absent", 0, None)
      BY <3>1, <2>1 DEF Status
    <3>2. CASE ~Answer(p, "absent", 0, None)
      <4>1. PICK ct \in Files : snap' = [snap EXCEPT ![p].path = ct]
        BY <2>4, <3>2 DEF ReadFind
      <4>2. PICK label \in Reading : Goto(p, label)
        BY <2>4, <3>2 DEF ReadFind, Reading
      <4> DEFINE new == [snap[p] EXCEPT !.path = ct]
      <4>3. new \in Snap /\ snap' = [snap EXCEPT ![p] = new]
        BY <2>3, <4>1 DEF Snap, Files
      <4>4. UNCHANGED <<input, answer>>
        BY <2>4, <3>2 DEF ReadFind
      <4> HIDE DEF new
      <4> QED BY <4>2, <4>3, <4>4, <2>2
    <3> QED BY <3>1, <3>2
  <2>5. CASE HeadStat(p)
    <3>1. CASE Answer(p, "absent", 0, None)
      BY <3>1, <2>1 DEF Status
    <3>2. CASE ~Answer(p, "absent", 0, None)
      <4> DEFINE new == [snap[p] EXCEPT !.body = reps[snap[p].path]]
      <4>1. snap' = [snap EXCEPT ![p] = new] /\ Goto(p, "etag") /\ UNCHANGED <<input, answer>>
        BY <2>5, <3>2 DEF HeadStat
      <4>2. new \in Snap
        BY <2>3, <2>5 DEF HeadStat, Snap, ShapeInv, Shape
      <4> HIDE DEF new
      <4> QED BY <4>1, <4>2, <2>2 DEF Reading
    <3> QED BY <3>1, <3>2
  <2>6. CASE HeadSidecar(p)
    <3>1. snap[p].body \in Content \cup {None}
      BY <2>3 DEF Snap
    <3> QED BY <2>1, <2>3, <2>6, <3>1 DEF HeadSidecar, Status
  <2>7. CASE GetSidecar(p)
    <3> DEFINE new == [snap[p] EXCEPT !.prior = sidecar]
    <3>1. snap' = [snap EXCEPT ![p] = new] /\ Goto(p, "open") /\ UNCHANGED <<input, answer>>
      BY <2>7 DEF GetSidecar
    <3>2. new \in Snap
      BY <2>3 DEF Snap, StoreTypeOK
    <3> HIDE DEF new
    <3> QED BY <3>1, <3>2, <2>2 DEF Reading
  <2>8. CASE GetOpen(p)
    <3>1. reps[snap[p].path] \in Content \cup {None}
      BY <2>3, <2>8 DEF GetOpen, ShapeInv, Shape
    <3>2. CASE Answer(p, "error", 0, None)
      BY <3>2, <2>1 DEF Status
    <3>3. CASE ~Answer(p, "error", 0, None)
      <4>1. Answer(p, "ok", VersionOf(snap[p].prior), reps[snap[p].path])
        BY <2>8, <3>3 DEF GetOpen
      <4> QED BY <4>1, <3>1, <2>1, <2>3 DEF Status
    <3> QED BY <3>2, <3>3
  <2> QED BY <2>4, <2>5, <2>6, <2>7, <2>8 DEF Read
<1> QED BY <1>1, <1>2 DEF StoreTypeOK, ClientTypeOK, BoundTypeOK, disk, history

LEMMA ArriveTyped ==
  ASSUME TypeOK, NEW p \in Slots, Arrive(p)
  PROVE  TypeOK'
<1> USE DEF TypeOK
<1>1. issued' \in 0..MaxRequests /\ issued' \in Nat
  BY ConstantsAssumption DEF Arrive, BoundTypeOK
<1>2. req' \in [Slots -> Request \cup {None}] /\ number' \in [Slots -> Nat]
  BY <1>1, ConstantsAssumption DEF Arrive, SlotTypeOK
<1>3. pc' \in [Slots -> {"idle", "queued"} \cup Locked \cup Reading]
  <2>1. Goto(p, "find") \/ Goto(p, "queued")
    BY DEF Arrive
  <2> QED BY <2>1 DEF SlotTypeOK, Goto, Reading
<1>4. queue' \in Seq(Slots)
  <2>1. UNCHANGED queue \/ queue' = Append(queue, p)
    BY DEF Arrive
  <2> QED BY <2>1, AppendProperties DEF SlotTypeOK
<1> QED BY <1>1, <1>2, <1>3, <1>4
        DEF Arrive, StoreTypeOK, SlotTypeOK, ClientTypeOK, BoundTypeOK, disk, history

LEMMA FaultTyped ==
  ASSUME TypeOK, ShapeInv, LockInv, Crash \/ \E p \in Slots : IoError(p)
  PROVE  TypeOK'
<1> USE DEF TypeOK
<1>1. faults' \in 0..MaxFaults
  BY ConstantsAssumption DEF Crash, IoError, BoundTypeOK
<1>2. SlotTypeOK' /\ answer' \in Reply \cup {None}
  <2>1. CASE Crash
    BY <2>1 DEF Crash, SlotTypeOK, Snap, NoSnap
  <2>2. ASSUME NEW p \in Slots, IoError(p)
        PROVE  SlotTypeOK' /\ answer' \in Reply \cup {None}
    BY <2>2, InProgress, ReleaseTyped DEF IoError, Status
  <2> QED BY <2>1, <2>2
<1> QED BY <1>1, <1>2 DEF Crash, IoError, StoreTypeOK, ClientTypeOK, BoundTypeOK, disk, history

----------------------------------------------------------------------------
(* The lock: what a step does to the other slots and to the chain.         *)

Operating(p) == Step(p) \/ IoError(p)

OthersKept(p) ==
  \A q \in Slots \ {p} :
    pc'[q] = pc[q] /\ req'[q] = req[q] /\ number'[q] = number[q] /\ snap'[q] = snap[q]

AtHead(p) == queue # <<>> /\ Head(queue) = p

LEMMA StepKeepsOthers ==
  ASSUME SlotTypeOK, NEW p \in Slots, Operating(p) \/ Arrive(p)
  PROVE  OthersKept(p)
<1>1. CASE Put(p)
  BY <1>1 DEF Put, PutBegin, PutRefused, PutContent, PutPrune, PutSidecar, PutReply,
              OthersKept, SlotTypeOK, Release, Answer, Goto, input
<1>2. CASE Meta(p)
  BY <1>2 DEF Meta, MetaBegin, MetaSidecar, MetaReply, OthersKept, SlotTypeOK, Release, Answer, Goto, input
<1>3. CASE Delete(p)
  BY <1>3 DEF Delete, DeleteBegin, DeleteContent, DeleteChunks, DeleteTombstone, DeleteReply,
              OthersKept, SlotTypeOK, Release, Answer, Goto, input
<1>4. CASE Chunk(p)
  BY <1>4 DEF Chunk, PutChunkBegin, PutChunkContent, PutChunkSidecar, DeleteChunkBegin, DeleteChunkContent,
              DeleteChunkSidecar, ChunkReply, OthersKept, SlotTypeOK, Release, Answer, Goto, input
<1>5. CASE Read(p)
  BY <1>5 DEF Read, ReadFind, HeadStat, HeadSidecar, GetSidecar, GetOpen,
              OthersKept, SlotTypeOK, Answer, Goto, input
<1>6. CASE IoError(p) \/ Arrive(p)
  BY <1>6 DEF IoError, Arrive, OthersKept, SlotTypeOK, Release, Answer, Goto
<1> QED BY <1>1, <1>2, <1>3, <1>4, <1>5, <1>6 DEF Operating, Step

\* A step of a request releases the lock from the head of the chain, or leaves
\* the chain alone and holds the lock only at its head.
LEMMA StepAtHead ==
  ASSUME SlotTypeOK, LockInv, NEW p \in Slots, Operating(p)
  PROVE  \/ AtHead(p) /\ queue' = Tail(queue) /\ pc'[p] = "idle"
         \/ queue' = queue /\ (pc'[p] \in Locked => AtHead(p))
<1> USE DEF AtHead
<1>1. Holds(p) => AtHead(p)
  BY DEF LockInv
<1>2. CASE Put(p)
  BY <1>1, <1>2 DEF Put, PutBegin, PutRefused, PutContent, PutPrune, PutSidecar, PutReply,
                    Granted, Holds, Locked, SlotTypeOK, Release, Answer, Goto, input
<1>3. CASE Meta(p)
  BY <1>1, <1>3 DEF Meta, MetaBegin, MetaSidecar, MetaReply,
                    Granted, Holds, Locked, SlotTypeOK, Release, Answer, Goto, input
<1>4. CASE Delete(p)
  BY <1>1, <1>4 DEF Delete, DeleteBegin, DeleteContent, DeleteChunks, DeleteTombstone, DeleteReply,
                    Granted, Holds, Locked, SlotTypeOK, Release, Answer, Goto, input
<1>5. CASE Chunk(p)
  BY <1>1, <1>5 DEF Chunk, PutChunkBegin, PutChunkContent, PutChunkSidecar, DeleteChunkBegin,
                    DeleteChunkContent, DeleteChunkSidecar, ChunkReply,
                    Granted, Holds, Locked, SlotTypeOK, Release, Answer, Goto, input
<1>6. CASE Read(p)
  BY <1>6 DEF Read, ReadFind, HeadStat, HeadSidecar, GetSidecar, GetOpen,
              Locked, Reading, SlotTypeOK, Answer, Goto, input
<1>7. CASE IoError(p)
  BY <1>1, <1>7 DEF IoError, SlotTypeOK, Release, Answer
<1> QED BY <1>2, <1>3, <1>4, <1>5, <1>6, <1>7 DEF Operating, Step

LEMMA LockStep ==
  ASSUME SlotTypeOK, LockInv, [Next]_vars
  PROVE  LockInv'
<1>1. ASSUME NEW p \in Slots, Operating(p)
      PROVE  LockInv'
  <2>1. \A q \in Slots \ {p} : pc'[q] = pc[q]
    BY <1>1, StepKeepsOthers DEF OthersKept
  <2>2. \A q \in Slots \ {p} : pc[q] \in Locked /\ AtHead(p) => FALSE
    BY DEF LockInv, Holds, AtHead
  <2>3. \A q \in Slots : pc[q] \in Locked => AtHead(q)
    BY DEF LockInv, Holds, AtHead
  <2>4. CASE AtHead(p) /\ queue' = Tail(queue) /\ pc'[p] = "idle"
    BY <2>1, <2>2, <2>4 DEF LockInv, Holds, Locked
  <2>5. CASE queue' = queue /\ (pc'[p] \in Locked => AtHead(p))
    BY <2>1, <2>3, <2>5 DEF LockInv, Holds, AtHead
  <2> QED BY <1>1, <2>4, <2>5, StepAtHead
<1>2. ASSUME NEW p \in Slots, Arrive(p)
      PROVE  LockInv'
  <2>1. \A q \in Slots \ {p} : pc'[q] = pc[q]
    BY <1>2, StepKeepsOthers DEF OthersKept
  <2>2. Goto(p, "find") \/ Goto(p, "queued")
    BY <1>2 DEF Arrive
  <2>3. pc'[p] \notin Locked
    BY <2>2 DEF Goto, SlotTypeOK, Locked
  <2>4. queue' = queue \/ queue' = Append(queue, p)
    BY <1>2 DEF Arrive
  <2>5. queue # <<>> => queue' # <<>> /\ Head(queue') = Head(queue)
    <3>1. CASE queue' = queue
      BY <3>1
    <3>2. CASE queue' = Append(queue, p) /\ queue # <<>>
      <4>1. queue \in Seq(Slots) /\ Len(queue) \in Nat /\ Len(queue) >= 1
        BY <3>2, EmptySeq DEF SlotTypeOK
      <4>2. queue' # <<>> /\ queue'[1] = queue[1]
        BY <3>2, <4>1, AppendProperties
      <4> QED BY <4>1, <4>2
    <3> QED BY <2>4, <3>1, <3>2
  <2> QED BY <2>1, <2>3, <2>5 DEF LockInv, Holds
<1>3. CASE Crash
  BY <1>3 DEF Crash, LockInv, Holds, Locked
<1>4. CASE UNCHANGED vars
  BY <1>4 DEF vars, LockInv, Holds
<1> QED BY <1>1, <1>2, <1>3, <1>4 DEF Next, Operating, Finished

----------------------------------------------------------------------------
(* What the holder has established, and what was acknowledged.             *)

LEMMA OnlyHolderWrites ==
  ASSUME LockInv, NEW p \in Slots, Operating(p) \/ Arrive(p), ~AtHead(p)
  PROVE  UNCHANGED <<disk, acked, settled>>
<1>1. ~Holds(p)
  BY DEF LockInv, AtHead
<1>2. CASE Put(p)
  BY <1>1, <1>2 DEF Put, PutBegin, PutRefused, PutContent, PutPrune, PutSidecar, PutReply, Granted, AtHead, Holds, Locked
<1>3. CASE Meta(p)
  BY <1>1, <1>3 DEF Meta, MetaBegin, MetaSidecar, MetaReply, Granted, AtHead, Holds, Locked
<1>4. CASE Delete(p)
  BY <1>1, <1>4 DEF Delete, DeleteBegin, DeleteContent, DeleteChunks, DeleteTombstone, DeleteReply,
                    Granted, AtHead, Holds, Locked
<1>5. CASE Chunk(p)
  BY <1>1, <1>5 DEF Chunk, PutChunkBegin, PutChunkContent, PutChunkSidecar, DeleteChunkBegin,
                    DeleteChunkContent, DeleteChunkSidecar, ChunkReply, Granted, AtHead, Holds, Locked
<1>6. CASE Read(p)
  BY <1>6 DEF Read, ReadFind, HeadStat, HeadSidecar, GetSidecar, GetOpen, history
<1>7. CASE IoError(p) \/ Arrive(p)
  BY <1>7 DEF IoError, Arrive, history
<1> QED BY <1>2, <1>3, <1>4, <1>5, <1>6, <1>7 DEF Operating, Step

\* A slot that does not hold the lock has nothing to show.
LEMMA NoProgressUnlocked ==
  ASSUME NEW p \in Slots, pc[p] \notin Locked
  PROVE  Progress(p)
BY DEF Progress, Locked

LEMMA NoProgressUnlockedNext ==
  ASSUME NEW p \in Slots, pc'[p] \notin Locked
  PROVE  Progress(p)'
BY DEF Progress, Locked

LEMMA OthersProgress ==
  ASSUME IInv, NEW p \in Slots, Operating(p) \/ Arrive(p), NEW q \in Slots \ {p}
  PROVE  Progress(q)'
<1>1. /\ pc'[q] = pc[q] /\ req'[q] = req[q] /\ number'[q] = number[q] /\ snap'[q] = snap[q]
      /\ Progress(q)
  BY StepKeepsOthers DEF OthersKept, IInv, TypeOK, ProgressInv
<1>2. CASE AtHead(p)
  <2>1. pc'[q] \notin Locked
    BY <1>1, <1>2 DEF AtHead, IInv, LockInv, Holds
  <2> QED BY <2>1, NoProgressUnlockedNext
<1>3. CASE ~AtHead(p)
  <2>1. reps' = reps /\ sidecar' = sidecar /\ chunks' = chunks /\ acked' = acked /\ settled' = settled
    BY <1>3, OnlyHolderWrites DEF IInv, disk
  <2>2. Files' = Files /\ Exists' = Exists /\ ChunkDirEmpty' = ChunkDirEmpty /\ Written(q)' = Written(q)
    BY <1>1, <2>1 DEF Files, Exists, ChunkDirEmpty, Written
  <2> QED BY <1>1, <2>1, <2>2 DEF Progress
<1> QED BY <1>2, <1>3

LEMMA AckedKept ==
  ASSUME AckedInv, UNCHANGED <<disk, acked, settled>>
  PROVE  AckedInv'
BY DEF AckedInv, AckedStateOnDisk, disk, Files, Exists, ChunkDirEmpty

LEMMA Released ==
  ASSUME SlotTypeOK, NEW p \in Slots, NEW status, NEW version, Release(p, status, version)
  PROVE  Progress(p)'
<1>1. pc'[p] \notin Locked
  BY DEF Release, Answer, SlotTypeOK, Locked
<1> QED BY <1>1, NoProgressUnlockedNext

\* Storing a representation adds its type to the files; removing one removes it.
LEMMA FilesStored ==
  ASSUME StoreTypeOK, NEW ct \in ContentTypes, NEW c \in Content, reps' = [reps EXCEPT ![ct] = c]
  PROVE  Files' = Files \cup {ct} /\ reps'[ct] = c
BY ConstantsAssumption DEF StoreTypeOK, Files

LEMMA FilesRemoved ==
  ASSUME StoreTypeOK, NEW ct \in ContentTypes, reps' = [reps EXCEPT ![ct] = None]
  PROVE  Files' = Files \ {ct} /\ \A other \in ContentTypes \ {ct} : reps'[other] = reps[other]
BY DEF StoreTypeOK, Files

LEMMA PutProgress ==
  ASSUME IInv, NEW p \in Slots, Put(p)
  PROVE  Progress(p)' /\ AckedInv'
<1> DEFINE s == snap[p].prior
           ct == req[p].type
<1>1. /\ TypeOK /\ StoreTypeOK /\ SlotTypeOK /\ ShapeInv /\ LockInv /\ AckedInv
      /\ Progress(p) /\ Shape(p) /\ snap[p] \in Snap /\ s \in Sidecar \cup {None}
  BY InProgress DEF IInv, TypeOK, ProgressInv, ShapeInv
<1>2. CASE PutBegin(p)
  <2>1. UNCHANGED disk /\ AckedInv'
    BY <1>1, <1>2, AckedKept DEF PutBegin, history
  <2>2. CASE Release(p, "precondition", 0)
    BY <1>1, <2>1, <2>2, Released
  <2>3. CASE ~Release(p, "precondition", 0)
    <3> DEFINE new == [snap[p] EXCEPT !.files = Files, !.prior = sidecar]
    <3>1. /\ ~PreconditionFails(req[p].ifMatch, req[p].ifNoneMatch, Exists, VersionOf(sidecar))
          /\ snap' = [snap EXCEPT ![p] = new] /\ Goto(p, "content") /\ UNCHANGED input
      BY <1>2, <2>3 DEF PutBegin
    <3>2. pc'[p] = "content" /\ req'[p] = req[p]
      BY <1>1, <3>1 DEF SlotTypeOK, Goto, input
    <3>3. snap'[p].files = Files /\ snap'[p].prior = sidecar
      BY <1>1, <3>1 DEF SlotTypeOK, Snap
    <3>4. Files' = Files /\ Exists' = Exists /\ sidecar' = sidecar
      BY <2>1 DEF disk, Files, Exists
    <3> QED BY <2>1, <3>1, <3>2, <3>3, <3>4 DEF Progress
  <2> QED BY <2>1, <2>2, <2>3
<1>3. CASE PutRefused(p)
  BY <1>1, <1>3, AckedKept, Released DEF PutRefused, history
<1>4. CASE PutContent(p)
  <2>1. /\ pc'[p] = "settle" /\ settled' = FALSE /\ sidecar' = sidecar /\ acked' = acked
        /\ req'[p] = req[p] /\ snap'[p] = snap[p] /\ number'[p] = number[p]
    BY <1>1, <1>4 DEF PutContent, SlotTypeOK, Goto, input
  <2>2. /\ ct \in ContentTypes /\ Written(p) \in Content /\ s = sidecar /\ snap[p].files = Files
    BY <1>1, <1>4, CountersTyped DEF PutContent, Shape, Request, Content, SlotTypeOK, Written, Progress
  <2>3. reps' = [reps EXCEPT ![ct] = Written(p)]
    BY <1>4 DEF PutContent, Written
  <2>4. Files' = Files \cup {ct} /\ reps'[ct] = Written(p)
    BY <1>1, <2>2, <2>3, FilesStored
  <2>5. Written(p)' = Written(p)
    BY <2>1 DEF Written
  <2>6. Progress(p)'
    BY <2>1, <2>2, <2>4, <2>5 DEF Progress
  <2>7. AckedInv'
    BY <1>1, <2>1 DEF AckedInv, AckedStateOnDisk
  <2> QED BY <2>6, <2>7
<1>5. CASE PutPrune(p)
  <2>1. PICK old \in Stale(p) : /\ reps' = [reps EXCEPT ![old] = None]
                                /\ snap' = [snap EXCEPT ![p].files = @ \ {old}]
    BY <1>5 DEF PutPrune
  <2>2. /\ old \in ContentTypes /\ old # ct /\ old \in snap[p].files
        /\ snap'[p].files = snap[p].files \ {old} /\ snap'[p].prior = s
    BY <1>1, <2>1 DEF Stale, Snap, SlotTypeOK
  <2>3. /\ pc[p] = "settle" /\ pc'[p] = pc[p] /\ sidecar' = sidecar /\ acked' = acked /\ settled' = settled
        /\ req'[p] = req[p] /\ number'[p] = number[p]
    BY <1>1, <1>5 DEF PutPrune, input, history
  <2>4. ct \in ContentTypes
    BY <1>1, <2>3 DEF Shape, Request
  <2>5. Files' = Files \ {old} /\ reps'[ct] = reps[ct]
    BY <1>1, <2>1, <2>2, <2>4, FilesRemoved
  <2>6. Written(p)' = Written(p)
    BY <2>2, <2>3 DEF Written
  <2>7. ~settled /\ s = sidecar /\ reps[ct] = Written(p) /\ Files = snap[p].files \cup {ct}
    BY <1>1, <2>3 DEF Progress
  <2>8. Files' = snap'[p].files \cup {req'[p].type}
    BY <2>2, <2>3, <2>5, <2>7
  <2>9. Progress(p)'
    BY <2>2, <2>3, <2>5, <2>6, <2>7, <2>8 DEF Progress
  <2>10. AckedInv'
    BY <1>1, <2>3, <2>7 DEF AckedInv, AckedStateOnDisk
  <2> QED BY <2>9, <2>10
<1>6. CASE PutSidecar(p)
  <2>1. /\ pc[p] = "settle" /\ Stale(p) = {} /\ reps' = reps /\ sidecar' = PutSidecarOf(req[p], s)
        /\ pc'[p] = "reply" /\ req'[p] = req[p] /\ snap'[p] = snap[p] /\ number'[p] = number[p]
        /\ acked' = acked /\ settled' = settled
    BY <1>1, <1>6 DEF PutSidecar, SlotTypeOK, Goto, input, history
  <2>2. req[p].op = "put" /\ ~settled /\ s = sidecar /\ reps[ct] = Written(p) /\ Files = snap[p].files \cup {ct}
    BY <1>1, <2>1 DEF Progress, Shape
  <2>3. Files' = {ct} /\ Written(p)' = Written(p)
    BY <2>1, <2>2 DEF Stale, Files, Written
  <2>4. acked.version <= VersionOf(s)
    BY <1>1, <2>2 DEF AckedInv
  <2>5. sidecar' # None /\ VersionOf(sidecar') = VersionOf(s) + 1
    <3>1. req[p] \in Request /\ ct \in ContentTypes
      BY <1>1, <2>1 DEF Shape, Request
    <3>2. sidecar' \in Sidecar
      BY <1>1, <2>1, <3>1, SidecarsTyped
    <3> QED BY <2>1, <3>2, ConstantsAssumption DEF PutSidecarOf, VersionOf, NextVersion
  <2>6. Progress(p)'
    BY <2>1, <2>2, <2>3, <2>4 DEF Progress
  <2>7. AckedInv'
    <3>1. VersionOf(s) \in Nat /\ acked.version \in Nat
      BY <1>1, CountersTyped DEF TypeOK, ClientTypeOK
    <3>2. acked.version <= VersionOf(s) + 1
      BY <2>4, <3>1
    <3>3. VersionOf(sidecar)' = VersionOf(s) + 1
      BY <2>5 DEF VersionOf
    <3> QED BY <2>1, <2>2, <3>2, <3>3 DEF AckedInv, AckedStateOnDisk
  <2> QED BY <2>6, <2>7
<1>7. CASE PutReply(p)
  <2>1. /\ pc[p] = "reply" /\ req[p].op = "put" /\ UNCHANGED disk /\ settled' = TRUE
        /\ acked' = [live |-> TRUE, version |-> PutSidecarOf(req[p], s).version, write |-> number[p]]
    BY <1>7 DEF PutReply
  <2>2. Progress(p)'
    BY <1>1, <1>7, Released DEF PutReply
  <2>3. /\ Files = {ct} /\ reps[ct] = Written(p) /\ sidecar = PutSidecarOf(req[p], s)
    BY <1>1, <2>1 DEF Progress
  <2>4. req[p] \in Request /\ ct \in ContentTypes
    BY <1>1, <2>1 DEF Shape, Request
  <2>5. sidecar \in Sidecar /\ sidecar # None /\ sidecar.version = NextVersion(s) /\ sidecar.tombstone = None
    <3>1. sidecar \in Sidecar
      BY <1>1, <2>3, <2>4, SidecarsTyped
    <3> QED BY <2>3, <3>1, ConstantsAssumption DEF PutSidecarOf
  <2>6. acked'.live = TRUE /\ acked'.version = sidecar.version /\ acked'.write = number[p]
    BY <2>1, <2>3
  <2>7. AckedStateOnDisk'
    BY <2>1, <2>3, <2>4, <2>5, <2>6 DEF AckedStateOnDisk, disk, Files, Exists, ChunkDirEmpty, Written
  <2>8. acked'.version <= VersionOf(sidecar')
    BY <2>1, <2>5, <2>6 DEF disk, VersionOf, Sidecar
  <2>9. VersionOf(sidecar)' = VersionOf(sidecar')
    BY DEF VersionOf
  <2> QED BY <2>2, <2>7, <2>8, <2>9 DEF AckedInv
<1> QED BY <1>2, <1>3, <1>4, <1>5, <1>6, <1>7 DEF Put

LEMMA MetaProgress ==
  ASSUME IInv, NEW p \in Slots, Meta(p)
  PROVE  Progress(p)' /\ AckedInv'
<1> DEFINE s == snap[p].prior
<1>1. /\ TypeOK /\ StoreTypeOK /\ SlotTypeOK /\ ShapeInv /\ LockInv /\ AckedInv
      /\ Progress(p) /\ Shape(p) /\ snap[p] \in Snap /\ s \in Sidecar \cup {None}
  BY InProgress DEF IInv, TypeOK, ProgressInv, ShapeInv
<1>2. CASE MetaBegin(p)
  <2>1. UNCHANGED disk /\ AckedInv'
    BY <1>1, <1>2, AckedKept DEF MetaBegin, history
  <2>2. CASE Release(p, "precondition", 0) \/ Release(p, "absent", 0)
    BY <1>1, <2>1, <2>2, Released
  <2>3. CASE ~(Release(p, "precondition", 0) \/ Release(p, "absent", 0))
    <3> DEFINE new == [snap[p] EXCEPT !.prior = sidecar]
    <3>1. /\ ~MetaPreconditionFails(req[p].ifMatch, req[p].ifNoneMatch, MetaVersionOf(sidecar)) /\ Exists
          /\ snap' = [snap EXCEPT ![p] = new] /\ Goto(p, "meta") /\ UNCHANGED input
      BY <1>2, <2>3 DEF MetaBegin
    <3>2. pc'[p] = "meta" /\ req'[p] = req[p]
      BY <1>1, <3>1 DEF SlotTypeOK, Goto, input
    <3>3. snap'[p].prior = sidecar
      BY <1>1, <3>1 DEF SlotTypeOK, Snap
    <3>4. Exists' = Exists /\ sidecar' = sidecar
      BY <2>1 DEF disk, Files, Exists
    <3> QED BY <2>1, <3>1, <3>2, <3>3, <3>4 DEF Progress
  <2> QED BY <2>2, <2>3
<1>3. CASE MetaSidecar(p)
  <2>1. /\ pc[p] = "meta" /\ reps' = reps /\ sidecar' = MetaSidecarOf(req[p], s)
        /\ pc'[p] = "reply" /\ req'[p] = req[p] /\ chunks' = chunks
        /\ acked' = acked /\ settled' = settled
    BY <1>1, <1>3 DEF MetaSidecar, SlotTypeOK, Goto, input, history
  <2>2. req[p].op = "putMeta" /\ s = sidecar /\ Exists
    BY <1>1, <2>1 DEF Progress, Shape
  <2>3. Progress(p)'
    BY <2>1, <2>2 DEF Progress
  <2>4. /\ sidecar' \in Sidecar /\ sidecar' # None /\ sidecar'.version = VersionOf(sidecar)
        /\ sidecar'.tombstone = None
    <3>1. req[p] \in Request /\ req[p].type \in ContentTypes
      BY <1>1, <2>1 DEF Shape, Request
    <3>2. sidecar' \in Sidecar
      BY <1>1, <2>1, <3>1, SidecarsTyped
    <3> QED BY <2>1, <2>2, <3>2, ConstantsAssumption DEF MetaSidecarOf
  <2>5. VersionOf(sidecar)' = VersionOf(sidecar)
    BY <2>4 DEF VersionOf
  <2>6. AckedStateOnDisk'
    BY <1>1, <2>1, <2>2, <2>4 DEF AckedInv, AckedStateOnDisk, Files, Exists, VersionOf
  <2> QED BY <1>1, <2>1, <2>3, <2>5, <2>6 DEF AckedInv
<1>4. CASE MetaReply(p)
  BY <1>1, <1>4, AckedKept, Released DEF MetaReply
<1> QED BY <1>2, <1>3, <1>4 DEF Meta

LEMMA DeleteProgress ==
  ASSUME IInv, NEW p \in Slots, Delete(p)
  PROVE  Progress(p)' /\ AckedInv'
<1> DEFINE s == snap[p].prior
<1>1. /\ TypeOK /\ StoreTypeOK /\ SlotTypeOK /\ ShapeInv /\ LockInv /\ AckedInv
      /\ Progress(p) /\ Shape(p) /\ snap[p] \in Snap /\ s \in Sidecar \cup {None}
  BY InProgress DEF IInv, TypeOK, ProgressInv, ShapeInv
<1>2. CASE DeleteBegin(p)
  <2>1. UNCHANGED disk /\ AckedInv'
    BY <1>1, <1>2, AckedKept DEF DeleteBegin, history
  <2>2. CASE Release(p, "precondition", 0) \/ Release(p, "ok", 0)
    BY <1>1, <2>1, <2>2, Released
  <2>3. CASE ~(Release(p, "precondition", 0) \/ Release(p, "ok", 0))
    <3>1. /\ ~PreconditionFails(req[p].ifMatch, FALSE, Exists, VersionOf(sidecar)) /\ Exists
          /\ Goto(p, "drop") /\ UNCHANGED input
      BY <1>2, <2>3 DEF DeleteBegin
    <3>2. PICK ct \in Files : snap' = [snap EXCEPT ![p] = [@ EXCEPT !.files = Files, !.path = ct]]
      BY <1>2, <2>3 DEF DeleteBegin
    <3> DEFINE new == [snap[p] EXCEPT !.files = Files, !.path = ct]
    <3>3. pc'[p] = "drop" /\ req'[p] = req[p]
      BY <1>1, <3>1 DEF SlotTypeOK, Goto, input
    <3>4. snap'[p].files = Files
      BY <1>1, <3>2 DEF SlotTypeOK, Snap
    <3>5. Files' = Files /\ Exists' = Exists /\ sidecar' = sidecar
      BY <2>1 DEF disk, Files, Exists
    <3>6. req[p].ifMatch # None => req[p].ifMatch = VersionOf(sidecar)
      BY <3>1 DEF PreconditionFails
    <3> QED BY <2>1, <3>1, <3>3, <3>4, <3>5, <3>6 DEF Progress
  <2> QED BY <2>2, <2>3
<1>3. CASE DeleteContent(p)
  <2>1. PICK old \in snap[p].files : /\ reps' = [reps EXCEPT ![old] = None]
                                     /\ snap' = [snap EXCEPT ![p].files = @ \ {old}]
    BY <1>3 DEF DeleteContent
  <2>2. old \in ContentTypes /\ snap'[p].files = snap[p].files \ {old}
    BY <1>1, <2>1 DEF Snap, SlotTypeOK
  <2>3. /\ pc[p] = "drop" /\ pc'[p] = "drop" /\ sidecar' = sidecar /\ acked' = acked /\ settled' = FALSE
        /\ req'[p] = req[p]
    BY <1>1, <1>3 DEF DeleteContent, input
  <2>4. Files' = Files \ {old}
    BY <1>1, <2>1, <2>2, FilesRemoved
  <2>5. Progress(p)'
    BY <1>1, <2>2, <2>3, <2>4 DEF Progress
  <2>6. AckedInv'
    BY <1>1, <2>3 DEF AckedInv, AckedStateOnDisk
  <2> QED BY <2>5, <2>6
<1>4. CASE DeleteChunks(p)
  <2>1. /\ pc[p] = "drop" /\ snap[p].files = {} /\ reps' = reps /\ sidecar' = sidecar /\ acked' = acked
        /\ settled' = settled /\ pc'[p] = "drop" /\ req'[p] = req[p] /\ snap'[p] = snap[p]
    BY <1>1, <1>4 DEF DeleteChunks, input, history
  <2>2. ~settled /\ Files' = Files /\ Exists' = Exists
    BY <1>1, <2>1 DEF Progress, Files, Exists
  <2>3. Progress(p)'
    BY <1>1, <2>1, <2>2 DEF Progress
  <2>4. AckedInv'
    BY <1>1, <2>1, <2>2 DEF AckedInv, AckedStateOnDisk
  <2> QED BY <2>3, <2>4
<1>5. CASE DeleteTombstone(p)
  <2> DEFINE ct == snap[p].path
             new == [snap[p] EXCEPT !.prior = sidecar]
  <2>1. /\ pc[p] = "drop" /\ snap[p].files = {} /\ ChunkDirEmpty /\ reps' = reps /\ chunks' = chunks
        /\ sidecar' = TombstoneOf(sidecar, ct) /\ pc'[p] = "reply" /\ req'[p] = req[p]
        /\ acked' = acked /\ settled' = settled
    BY <1>1, <1>5 DEF DeleteTombstone, ChunkDirGone, SlotTypeOK, Goto, input
  <2>2. snap'[p].prior = sidecar /\ snap'[p].path = ct
    BY <1>1, <1>5 DEF DeleteTombstone, SlotTypeOK, Snap
  <2>3. req[p].op = "delete" /\ ct \in ContentTypes /\ ~settled /\ ~Exists
    BY <1>1, <2>1 DEF Shape, Progress, Exists
  <2>4. acked.version <= VersionOf(sidecar) /\ VersionOf(sidecar) \in Nat /\ acked.version \in Nat
    BY <1>1, CountersTyped DEF AckedInv, TypeOK, ClientTypeOK, StoreTypeOK
  <2>5. ~Exists' /\ ChunkDirEmpty'
    BY <2>1, <2>3 DEF Exists, Files, ChunkDirEmpty
  <2>6. Progress(p)'
    BY <2>1, <2>2, <2>3, <2>4, <2>5 DEF Progress
  <2>7. VersionOf(sidecar)' = VersionOf(sidecar) + 1
    <3>1. req[p] \in Request
      BY <1>1, <2>1 DEF Shape
    <3>2. sidecar' # None
      BY <1>1, <2>1, <2>3, <3>1, SidecarsTyped, ConstantsAssumption DEF StoreTypeOK
    <3> QED BY <2>1, <3>2 DEF TombstoneOf, VersionOf, NextVersion
  <2>8. acked'.version <= VersionOf(sidecar)'
    BY <2>1, <2>4, <2>7
  <2> QED BY <2>1, <2>3, <2>6, <2>8 DEF AckedInv, AckedStateOnDisk
<1>6. CASE DeleteReply(p)
  <2> DEFINE ct == snap[p].path
  <2>1. /\ pc[p] = "reply" /\ req[p].op = "delete" /\ UNCHANGED disk /\ settled' = TRUE
        /\ acked' = [live |-> FALSE, version |-> TombstoneOf(s, ct).version, write |-> 0]
    BY <1>6 DEF DeleteReply
  <2>2. Progress(p)'
    BY <1>1, <1>6, Released DEF DeleteReply
  <2>3. ~Exists /\ ChunkDirEmpty /\ sidecar = TombstoneOf(s, ct) /\ ct \in ContentTypes
    BY <1>1, <2>1 DEF Progress
  <2>4. sidecar \in Sidecar /\ sidecar # None /\ sidecar.version = NextVersion(s) /\ sidecar.tombstone = ct
    <3>1. sidecar \in Sidecar
      <4>1. req[p] \in Request
        BY <1>1, <2>1 DEF Shape
      <4> QED BY <1>1, <2>3, <4>1, SidecarsTyped
    <3> QED BY <2>3, <3>1, ConstantsAssumption DEF TombstoneOf
  <2>5. acked'.live = FALSE /\ acked'.version = sidecar.version /\ sidecar.version \in Nat
    BY <2>1, <2>3, <2>4 DEF Sidecar
  <2>6. sidecar' = sidecar /\ ~Exists' /\ ChunkDirEmpty'
    BY <2>1, <2>3 DEF disk, Exists, Files, ChunkDirEmpty
  <2>7. sidecar.tombstone # None
    BY <2>3, <2>4, ConstantsAssumption
  <2>8. AckedStateOnDisk'
    <3>1. sidecar.version # 0
      BY <1>1, <2>4, CountersTyped DEF NextVersion
    <3> QED BY <2>4, <2>5, <2>6, <2>7, <3>1 DEF AckedStateOnDisk
  <2>9. acked'.version <= VersionOf(sidecar)'
    BY <2>4, <2>5, <2>6 DEF VersionOf
  <2> QED BY <2>2, <2>8, <2>9 DEF AckedInv
<1> QED BY <1>2, <1>3, <1>4, <1>5, <1>6 DEF Delete

LEMMA ChunkProgress ==
  ASSUME IInv, NEW p \in Slots, Chunk(p)
  PROVE  Progress(p)' /\ AckedInv'
<1>1. /\ TypeOK /\ StoreTypeOK /\ SlotTypeOK /\ ShapeInv /\ LockInv /\ AckedInv
      /\ Progress(p) /\ Shape(p)
  BY DEF IInv, TypeOK, ProgressInv, ShapeInv
<1>2. ASSUME PutChunkBegin(p) \/ DeleteChunkBegin(p)
      PROVE  Progress(p)' /\ AckedInv'
  <2>1. UNCHANGED disk /\ AckedInv'
    BY <1>1, <1>2, AckedKept DEF PutChunkBegin, DeleteChunkBegin, history
  <2>2. CASE Release(p, "precondition", 0) \/ Release(p, "absent", 0)
    BY <1>1, <2>1, <2>2, Released
  <2>3. CASE ~(Release(p, "precondition", 0) \/ Release(p, "absent", 0))
    <3>1. (Goto(p, "chunk") /\ Exists) \/ Goto(p, "dropChunk")
      BY <1>2, <2>3 DEF PutChunkBegin, DeleteChunkBegin
    <3>2. (pc'[p] = "chunk" /\ Exists) \/ pc'[p] = "dropChunk"
      BY <1>1, <3>1 DEF SlotTypeOK, Goto
    <3>3. Exists' = Exists
      BY <2>1 DEF disk, Files, Exists
    <3> QED BY <2>1, <3>2, <3>3 DEF Progress
  <2> QED BY <2>2, <2>3
<1>3. ASSUME PutChunkContent(p) \/ PutChunkSidecar(p) \/ DeleteChunkContent(p) \/ DeleteChunkSidecar(p)
      PROVE  Progress(p)' /\ AckedInv'
  <2>1. /\ reps' = reps /\ sidecar' = sidecar /\ acked' = acked /\ settled' = settled /\ req'[p] = req[p]
    BY <1>3 DEF PutChunkContent, PutChunkSidecar, DeleteChunkContent, DeleteChunkSidecar, input, history
  <2>2. Exists' = Exists /\ Files' = Files
    BY <2>1 DEF Exists, Files
  <2>3. \/ pc[p] \in {"chunk", "chunkMeta"} /\ req[p].op = "putChunk" /\ pc'[p] \in {"chunkMeta", "reply"}
        \/ req[p].op = "deleteChunk" /\ pc'[p] \in {"chunkMeta", "reply"} /\ (ChunkDirEmpty => ChunkDirEmpty')
    <3>1. CASE PutChunkContent(p) \/ PutChunkSidecar(p)
      BY <1>1, <3>1 DEF PutChunkContent, PutChunkSidecar, SlotTypeOK, Goto, Shape
    <3>2. CASE DeleteChunkContent(p) \/ DeleteChunkSidecar(p)
      <4>1. req[p].op = "deleteChunk" /\ pc'[p] \in {"chunkMeta", "reply"}
        BY <1>1, <3>2 DEF DeleteChunkContent, DeleteChunkSidecar, SlotTypeOK, Goto, Shape
      <4>2. ChunkDirEmpty => ChunkDirEmpty'
        <5>1. ASSUME ChunkDirEmpty, NEW i \in ChunkIndexes
              PROVE  chunks'[i] = [stored |-> FALSE, version |-> 0]
          <6> DEFINE c == req[p].chunk
          <6>1. chunks[i] = [stored |-> FALSE, version |-> 0]
            BY <5>1 DEF ChunkDirEmpty
          <6>2. \/ chunks' = [chunks EXCEPT ![c].stored = FALSE]
                \/ chunks' = [chunks EXCEPT ![c].version = 0]
            BY <3>2 DEF DeleteChunkContent, DeleteChunkSidecar
          <6>3. CASE i = c
            <7> DEFINE empty == [stored |-> FALSE, version |-> 0]
            <7>1. ASSUME NEW e \in [stored : BOOLEAN, version : Nat], e.stored = FALSE, e.version = 0
                  PROVE  [e EXCEPT !.stored = FALSE] = e /\ [e EXCEPT !.version = 0] = e
              BY <7>1
            <7>2. /\ chunks' = [chunks EXCEPT ![c].stored = FALSE] => chunks'[c] = [chunks[c] EXCEPT !.stored = FALSE]
                  /\ chunks' = [chunks EXCEPT ![c].version = 0] => chunks'[c] = [chunks[c] EXCEPT !.version = 0]
              BY <1>1, <6>3 DEF StoreTypeOK
            <7>3. empty \in [stored : BOOLEAN, version : Nat] /\ empty.stored = FALSE /\ empty.version = 0
              OBVIOUS
            <7>4. [empty EXCEPT !.stored = FALSE] = empty /\ [empty EXCEPT !.version = 0] = empty
              BY <7>1, <7>3
            <7>5. chunks[c] = empty /\ i = c
              BY <6>1, <6>3
            <7>6. chunks'[c] = empty
              <8> HIDE DEF empty
              <8> QED BY <6>2, <7>2, <7>4, <7>5
            <7> QED BY <7>5, <7>6
          <6>4. CASE i # c
            BY <1>1, <6>1, <6>2, <6>4 DEF StoreTypeOK
          <6> QED BY <6>3, <6>4
        <5> QED BY <5>1 DEF ChunkDirEmpty
      <4> QED BY <4>1, <4>2
    <3> QED BY <1>3, <3>1, <3>2
  <2>4. req[p].op = "putChunk" => Exists
    BY <1>1, <2>3 DEF Progress
  <2>5. Progress(p)'
    BY <2>1, <2>2, <2>3, <2>4 DEF Progress
  <2>6. AckedInv'
    BY <1>1, <2>1, <2>2, <2>3, <2>4 DEF AckedInv, AckedStateOnDisk
  <2> QED BY <2>5, <2>6
<1>4. CASE ChunkReply(p)
  BY <1>1, <1>4, AckedKept, Released DEF ChunkReply, history
<1> QED BY <1>2, <1>3, <1>4 DEF Chunk

LEMMA RestProgress ==
  ASSUME IInv, NEW p \in Slots, Read(p) \/ IoError(p) \/ Arrive(p)
  PROVE  Progress(p)' /\ AckedInv'
<1>1. SlotTypeOK /\ AckedInv
  BY DEF IInv, TypeOK
<1>2. UNCHANGED <<disk, acked, settled>>
  BY DEF Read, ReadFind, HeadStat, HeadSidecar, GetSidecar, GetOpen, IoError, Arrive, history
<1>3. pc'[p] \notin Locked
  <2>1. CASE Read(p)
    BY <1>1, <2>1 DEF Read, ReadFind, HeadStat, HeadSidecar, GetSidecar, GetOpen,
                      SlotTypeOK, Locked, Answer, Goto
  <2>2. CASE IoError(p)
    BY <1>1, <2>2 DEF IoError, SlotTypeOK, Locked, Release, Answer
  <2>3. CASE Arrive(p)
    <3>1. Goto(p, "find") \/ Goto(p, "queued")
      BY <2>3 DEF Arrive
    <3> QED BY <1>1, <3>1 DEF SlotTypeOK, Locked, Goto
  <2> QED BY <2>1, <2>2, <2>3
<1> QED BY <1>1, <1>2, <1>3, AckedKept, NoProgressUnlockedNext

LEMMA ProgressStep ==
  ASSUME IInv, [Next]_vars
  PROVE  ProgressInv' /\ AckedInv'
<1>1. ASSUME NEW p \in Slots, Operating(p) \/ Arrive(p)
      PROVE  ProgressInv' /\ AckedInv'
  <2>1. Progress(p)' /\ AckedInv'
    BY <1>1, PutProgress, MetaProgress, DeleteProgress, ChunkProgress, RestProgress DEF Operating, Step
  <2>2. \A q \in Slots \ {p} : Progress(q)'
    BY <1>1, OthersProgress
  <2> QED BY <2>1, <2>2 DEF ProgressInv
<1>2. CASE Crash
  <2>1. \A p \in Slots : Progress(p)'
    BY <1>2, NoProgressUnlockedNext DEF Crash, Locked
  <2> QED BY <1>2, <2>1, AckedKept DEF Crash, IInv, history, ProgressInv
<1>3. CASE UNCHANGED vars
  <2>1. /\ reps' = reps /\ sidecar' = sidecar /\ chunks' = chunks /\ acked' = acked /\ settled' = settled
        /\ pc' = pc /\ req' = req /\ number' = number /\ snap' = snap
    BY <1>3 DEF vars
  <2>2. Files' = Files /\ Exists' = Exists /\ ChunkDirEmpty' = ChunkDirEmpty
    BY <2>1 DEF Files, Exists, ChunkDirEmpty
  <2>3. \A p \in Slots : Progress(p) => Progress(p)'
    BY <2>1, <2>2 DEF Progress, Written
  <2>4. AckedInv'
    BY <2>1, AckedKept DEF IInv, disk
  <2> QED BY <2>3, <2>4 DEF IInv, ProgressInv
<1> QED BY <1>1, <1>2, <1>3 DEF Next, Operating, Finished

----------------------------------------------------------------------------
(* The inductive invariant and the theorems.                               *)

LEMMA ShapeOwn ==
  ASSUME TypeOK, ShapeInv, NEW p \in Slots, Operating(p) \/ Arrive(p)
  PROVE  Shape(p)'
<1>1. SlotTypeOK /\ Shape(p)
  BY DEF TypeOK, ShapeInv
<1>2. ASSUME pc'[p] = "idle" PROVE Shape(p)'
  BY <1>2 DEF Shape
<1>3. CASE Put(p)
  <2>1. CASE pc'[p] = "idle"
    BY <1>2, <2>1
  <2>2. CASE PutBegin(p) /\ pc'[p] # "idle"
    BY <1>1, <2>2 DEF PutBegin, Granted, Release, Answer, Goto, input, SlotTypeOK, Shape
  <2>3. CASE PutContent(p) \/ PutPrune(p) \/ PutSidecar(p)
    BY <1>1, <2>3 DEF PutContent, PutPrune, PutSidecar, Goto, input, SlotTypeOK, Shape
  <2>4. PutRefused(p) \/ PutReply(p) => pc'[p] = "idle"
    BY <1>1 DEF PutRefused, PutReply, Release, Answer, SlotTypeOK
  <2> QED BY <1>3, <2>1, <2>2, <2>3, <2>4 DEF Put
<1>4. CASE Meta(p)
  <2>1. CASE pc'[p] = "idle"
    BY <1>2, <2>1
  <2>2. CASE pc'[p] # "idle"
    BY <1>1, <1>4, <2>2 DEF Meta, MetaBegin, MetaSidecar, MetaReply, Granted, Release, Answer, Goto, input,
                            SlotTypeOK, Shape
  <2> QED BY <2>1, <2>2
<1>5. CASE Delete(p)
  <2>1. CASE pc'[p] = "idle"
    BY <1>2, <2>1
  <2>2. CASE DeleteBegin(p) /\ pc'[p] # "idle"
    <3>1. PICK ct \in Files : snap' = [snap EXCEPT ![p] = [@ EXCEPT !.files = Files, !.path = ct]]
      BY <1>1, <2>2 DEF DeleteBegin, Release, Answer, SlotTypeOK
    <3>2. pc'[p] = "drop" /\ req'[p] = req[p] /\ req[p].op = "delete" /\ pc[p] = "queued"
      BY <1>1, <2>2 DEF DeleteBegin, Release, Answer, Granted, Goto, input, SlotTypeOK
    <3>3. snap'[p].path = ct /\ ct \in ContentTypes
      BY <1>1, <3>1 DEF SlotTypeOK, Snap, Files
    <3> QED BY <1>1, <3>2, <3>3 DEF Shape
  <2>3. CASE DeleteContent(p) \/ DeleteChunks(p) \/ DeleteTombstone(p)
    <3>1. pc[p] = "drop" /\ pc'[p] \in {"drop", "reply"} /\ req'[p] = req[p]
      BY <1>1, <2>3 DEF DeleteContent, DeleteChunks, DeleteTombstone, Goto, input, SlotTypeOK
    <3>2. snap'[p].path = snap[p].path
      BY <1>1, <2>3 DEF DeleteContent, DeleteChunks, DeleteTombstone, SlotTypeOK, Snap
    <3> QED BY <1>1, <3>1, <3>2 DEF Shape
  <2>4. DeleteReply(p) => pc'[p] = "idle"
    BY <1>1 DEF DeleteReply, Release, Answer, SlotTypeOK
  <2> QED BY <1>5, <2>1, <2>2, <2>3, <2>4 DEF Delete
<1>6. CASE Chunk(p)
  <2>1. CASE pc'[p] = "idle"
    BY <1>2, <2>1
  <2>2. CASE pc'[p] # "idle"
    <3>1. pc[p] # "idle" /\ req'[p] = req[p]
      BY <1>1, <1>6, <2>2 DEF Chunk, PutChunkBegin, PutChunkContent, PutChunkSidecar, DeleteChunkBegin,
         DeleteChunkContent, DeleteChunkSidecar, ChunkReply, Granted, Release, Answer, input, SlotTypeOK
    <3>2. \/ pc'[p] = "chunk" /\ req[p].op = "putChunk"
          \/ pc'[p] = "dropChunk" /\ req[p].op = "deleteChunk"
          \/ pc'[p] \in {"chunkMeta", "reply"} /\ req[p].op \in {"putChunk", "deleteChunk"}
      BY <1>1, <1>6, <2>2 DEF Chunk, PutChunkBegin, PutChunkContent, PutChunkSidecar, DeleteChunkBegin,
         DeleteChunkContent, DeleteChunkSidecar, ChunkReply, Granted, Release, Answer, Goto, SlotTypeOK, Shape
    <3> QED BY <1>1, <3>1, <3>2 DEF Shape
  <2> QED BY <2>1, <2>2
<1>7. CASE Read(p)
  <2>1. CASE pc'[p] = "idle"
    BY <1>2, <2>1
  <2>2. CASE ReadFind(p) /\ pc'[p] # "idle"
    <3>1. PICK ct \in Files : snap' = [snap EXCEPT ![p].path = ct]
      BY <1>1, <2>2 DEF ReadFind, Answer, SlotTypeOK
    <3>2. pc'[p] \in {"etag", "stat"} /\ req'[p] = req[p] /\ pc[p] = "find"
      BY <1>1, <2>2 DEF ReadFind, Answer, Goto, input, SlotTypeOK
    <3>3. snap'[p].path = ct /\ ct \in ContentTypes
      BY <1>1, <3>1 DEF SlotTypeOK, Snap, Files
    <3> QED BY <1>1, <3>2, <3>3 DEF Shape
  <2>3. CASE (HeadStat(p) \/ GetSidecar(p)) /\ pc'[p] # "idle"
    <3>1. pc[p] \in {"stat", "etag"} /\ pc'[p] \in {"etag", "open"} /\ req'[p] = req[p]
      BY <1>1, <2>3 DEF HeadStat, GetSidecar, Answer, Goto, input, SlotTypeOK
    <3>2. snap'[p].path = snap[p].path
      BY <1>1, <2>3 DEF HeadStat, GetSidecar, Answer, SlotTypeOK, Snap
    <3> QED BY <1>1, <3>1, <3>2 DEF Shape
  <2>4. HeadSidecar(p) \/ GetOpen(p) => pc'[p] = "idle"
    BY <1>1 DEF HeadSidecar, GetOpen, Answer, SlotTypeOK
  <2> QED BY <1>7, <2>1, <2>2, <2>3, <2>4 DEF Read
<1>8. CASE IoError(p)
  BY <1>1, <1>2, <1>8 DEF IoError, Release, Answer, SlotTypeOK
<1>9. CASE Arrive(p)
  <2>1. req'[p] \in Request
    BY <1>1, <1>9, ConstantsAssumption DEF Arrive, SlotTypeOK
  <2>2. Goto(p, "find") \/ Goto(p, "queued")
    BY <1>9 DEF Arrive
  <2> QED BY <1>1, <2>1, <2>2 DEF Goto, SlotTypeOK, Shape
<1> QED BY <1>3, <1>4, <1>5, <1>6, <1>7, <1>8, <1>9 DEF Operating, Step

LEMMA ShapeStep ==
  ASSUME TypeOK, ShapeInv, [Next]_vars
  PROVE  ShapeInv'
<1>1. ASSUME NEW p \in Slots, Operating(p) \/ Arrive(p)
      PROVE  ShapeInv'
  <2>1. ASSUME NEW q \in Slots \ {p}
        PROVE  Shape(q)'
    <3>1. pc'[q] = pc[q] /\ req'[q] = req[q] /\ snap'[q] = snap[q]
      BY <1>1, StepKeepsOthers DEF OthersKept, TypeOK
    <3> QED BY <3>1 DEF ShapeInv, Shape
  <2> QED BY <1>1, <2>1, ShapeOwn DEF ShapeInv
<1>2. CASE Crash
  BY <1>2 DEF Crash, ShapeInv, Shape
<1>3. CASE UNCHANGED vars
  BY <1>3 DEF vars, ShapeInv, Shape
<1> QED BY <1>1, <1>2, <1>3 DEF Next, Operating, Finished

LEMMA TypeStep ==
  ASSUME TypeOK, ShapeInv, LockInv, [Next]_vars
  PROVE  TypeOK'
<1>1. CASE UNCHANGED vars
  BY <1>1 DEF vars, TypeOK, StoreTypeOK, SlotTypeOK, ClientTypeOK, BoundTypeOK
<1> QED BY <1>1, PutTyped, MetaTyped, DeleteTyped, ChunkTyped, ReadTyped, ArriveTyped, FaultTyped
        DEF Next, Step, Finished

LEMMA InitProgress == Init => ProgressInv /\ AckedInv
BY ConstantsAssumption
   DEF Init, ProgressInv, Progress, AckedInv, AckedStateOnDisk, VersionOf, Exists, Files, ChunkDirEmpty

\* The inductive invariant holds in every reachable state.
THEOREM InductiveInvariant == Spec => []IInv
<1>1. Init => IInv
  BY InitTyped, InitProgress DEF IInv
<1>2. IInv /\ [Next]_vars => IInv'
  BY TypeStep, ShapeStep, LockStep, ProgressStep DEF IInv, TypeOK
<1> QED BY <1>1, <1>2, PTL DEF Spec

\* Every variable stays in the shape the handlers build, for any number of
\* concurrent requests, content types, chunks, requests and faults.
THEOREM TypeCorrect == Spec => []TypeOK
<1>1. IInv => TypeOK
  BY DEF IInv
<1> QED BY <1>1, InductiveInvariant, PTL

\* The sidecar a mutation read under the lock is the one it replaces: the
\* read-modify-write of the ETag counters is atomic.
THEOREM SnapshotCurrent == Spec => []SnapshotIsCurrent
<1>1. IInv => SnapshotIsCurrent
  BY DEF IInv, ProgressInv, Progress, SnapshotIsCurrent
<1> QED BY <1>1, InductiveInvariant, PTL

\* The disk holds exactly the last acknowledged write or delete, whatever
\* crashed or failed before or since, until the next mutation touches it.
THEOREM AckedOnDisk == Spec => []AckedStateOnDisk
<1>1. IInv => AckedStateOnDisk
  BY DEF IInv, AckedInv
<1> QED BY <1>1, InductiveInvariant, PTL

\* A conditional write, metadata write or delete changes the disk only in a
\* state in which its precondition holds.
THEOREM PreconditionAtWrite == Spec => PreconditionHoldsAtWrite
<1>1. IInv /\ [Next]_vars =>
        [\A p \in Slots :
           /\ PutContent(p) =>
                ~PreconditionFails(req[p].ifMatch, req[p].ifNoneMatch, Exists, VersionOf(sidecar))
           /\ MetaSidecar(p) =>
                ~MetaPreconditionFails(req[p].ifMatch, req[p].ifNoneMatch, MetaVersionOf(sidecar))
           /\ DeleteContent(p) =>
                ~PreconditionFails(req[p].ifMatch, FALSE, Exists, VersionOf(sidecar))]_vars
  <2>1. ASSUME IInv, NEW p \in Slots
        PROVE  /\ PutContent(p) =>
                    ~PreconditionFails(req[p].ifMatch, req[p].ifNoneMatch, Exists, VersionOf(sidecar))
               /\ MetaSidecar(p) =>
                    ~MetaPreconditionFails(req[p].ifMatch, req[p].ifNoneMatch, MetaVersionOf(sidecar))
               /\ DeleteContent(p) =>
                    ~PreconditionFails(req[p].ifMatch, FALSE, Exists, VersionOf(sidecar))
    <3>1. Progress(p)
      BY <2>1 DEF IInv, ProgressInv
    <3>2. DeleteContent(p) => Exists
      BY <3>1 DEF DeleteContent, Progress, Exists
    <3> QED BY <3>1, <3>2 DEF PutContent, MetaSidecar, DeleteContent, Progress, PreconditionFails
  <2> QED BY <2>1
<1> QED BY <1>1, InductiveInvariant, PTL DEF Spec, PreconditionHoldsAtWrite

\* Acknowledged versions only grow: no ETag names two acknowledged mutations.
THEOREM AckedIncrease == Spec => AckedVersionsIncrease
<1>1. IInv /\ [Next]_vars => [acked' # acked => acked'.version > acked.version]_vars
  <2>1. ASSUME IInv, NEW p \in Slots, PutReply(p) \/ DeleteReply(p)
        PROVE  acked'.version > acked.version
    <3> DEFINE s == snap[p].prior
    <3>1. acked'.version = NextVersion(s)
      BY <2>1 DEF PutReply, DeleteReply, PutSidecarOf, TombstoneOf
    <3>2. acked.version <= VersionOf(s)
      BY <2>1 DEF IInv, ProgressInv, Progress, PutReply, DeleteReply
    <3>3. VersionOf(s) \in Nat /\ acked.version \in Nat
      BY <2>1, InProgress, CountersTyped DEF IInv, TypeOK, ClientTypeOK
    <3> QED BY <3>1, <3>2, <3>3 DEF NextVersion
  <2>2. ASSUME NEW p \in Slots, Operating(p) \/ Arrive(p), ~PutReply(p), ~DeleteReply(p)
        PROVE  acked' = acked
    <3>1. CASE Put(p) \/ Meta(p) \/ Delete(p)
      BY <2>2, <3>1 DEF Put, PutBegin, PutRefused, PutContent, PutPrune, PutSidecar,
         Meta, MetaBegin, MetaSidecar, MetaReply,
         Delete, DeleteBegin, DeleteContent, DeleteChunks, DeleteTombstone, history
    <3>2. CASE Chunk(p) \/ Read(p)
      BY <3>2 DEF Chunk, PutChunkBegin, PutChunkContent, PutChunkSidecar, DeleteChunkBegin,
         DeleteChunkContent, DeleteChunkSidecar, ChunkReply,
         Read, ReadFind, HeadStat, HeadSidecar, GetSidecar, GetOpen, history
    <3>3. CASE IoError(p) \/ Arrive(p)
      BY <3>3 DEF IoError, Arrive, history
    <3> QED BY <2>2, <3>1, <3>2, <3>3 DEF Operating, Step
  <2>3. Crash \/ Finished => acked' = acked
    BY DEF Crash, Finished, vars, history
  <2> QED BY <2>1, <2>2, <2>3 DEF Next, Operating
<1> QED BY <1>1, InductiveInvariant, PTL DEF Spec, AckedVersionsIncrease
=============================================================================
