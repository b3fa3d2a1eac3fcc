--------------------- MODULE ResourceStoreContractProofs ---------------------
(* More theorems about ResourceStore: what its sidecar says of epochs and  *)
(* metadata, what its reads return, and that it implements the contract of *)
(* a Resource.  The inductive invariant is the one of ResourceStoreProofs. *)
EXTENDS ResourceStoreProofs

\* A metadata write that is about to be answered has its sidecar on disk.
MetaReplyInv ==
  \A p \in Slots : pc[p] = "reply" /\ req[p].op = "putMeta" =>
    sidecar = MetaSidecarOf(req[p], snap[p].prior)

\* No representation on disk is older than the ETag, and no GET holds an ETag
\* that is ahead of the one on disk.
FreshContentInv == \A ct \in ContentTypes : reps[ct] # None => reps[ct].version >= VersionOf(sidecar)
ReaderInv == \A p \in Slots : pc[p] = "open" => VersionOf(snap[p].prior) <= VersionOf(sidecar)

\* A stamp names the version it is stored with.
StampInv == sidecar # None /\ sidecar.epoch # 0 => sidecar.epoch = sidecar.version

HistoryInv == MetaReplyInv /\ FreshContentInv /\ ReaderInv /\ StampInv /\ AckedMetadataKept

----------------------------------------------------------------------------
(* What changes the sidecar, the representations and the acknowledgements. *)

WritesSidecar(p) == PutSidecar(p) \/ MetaSidecar(p) \/ DeleteTombstone(p)
WritesContent(p) == PutContent(p) \/ PutPrune(p) \/ DeleteContent(p)

\* Every other step leaves the sidecar, the representations and metaAck alone.
LEMMA QuietStep ==
  ASSUME [Next]_vars, \A p \in Slots : ~WritesSidecar(p) /\ ~WritesContent(p) /\ ~MetaReply(p)
  PROVE  UNCHANGED <<reps, sidecar, metaAck>>
<1>1. ASSUME NEW p \in Slots, Arrive(p) \/ Step(p) \/ IoError(p)
      PROVE  UNCHANGED <<reps, sidecar, metaAck>>
  <2>1. CASE Put(p)
    BY <2>1 DEF WritesSidecar, WritesContent, Put, PutBegin, PutRefused, PutReply, disk, history
  <2>2. CASE Meta(p)
    BY <2>2 DEF WritesSidecar, WritesContent, Meta, MetaBegin, disk, history
  <2>3. CASE Delete(p)
    BY <2>3 DEF WritesSidecar, WritesContent, Delete, DeleteBegin, DeleteChunks, DeleteReply, disk, history
  <2>4. CASE Chunk(p)
    BY <2>4 DEF Chunk, PutChunkBegin, PutChunkContent, PutChunkSidecar, DeleteChunkBegin, DeleteChunkContent,
                DeleteChunkSidecar, ChunkReply, disk, history
  <2>5. CASE Read(p)
    BY <2>5 DEF Read, ReadFind, HeadStat, HeadSidecar, GetSidecar, GetOpen, disk, history
  <2>6. CASE Arrive(p) \/ IoError(p)
    BY <2>6 DEF Arrive, IoError, disk, history
  <2> QED BY <1>1, <2>1, <2>2, <2>3, <2>4, <2>5, <2>6 DEF Step
<1>2. CASE Crash \/ Finished \/ UNCHANGED vars
  BY <1>2 DEF Crash, Finished, vars, disk, history
<1> QED BY <1>1, <1>2 DEF Next

\* The slot that changes any of them is the head of the chain and the others keep
\* their locals.
LEMMA WriterAtHead ==
  ASSUME IInv, NEW p \in Slots, WritesSidecar(p) \/ WritesContent(p) \/ MetaReply(p)
  PROVE  /\ Holds(p) /\ AtHead(p) /\ OthersKept(p) /\ req[p] \in Request
         /\ \A q \in Slots : Holds(q) => q = p
<1>1. Holds(p) /\ Operating(p)
  BY DEF WritesSidecar, WritesContent, PutSidecar, MetaSidecar, DeleteTombstone, PutContent, PutPrune,
         DeleteContent, MetaReply, Holds, Locked, Operating, Step, Put, Meta, Delete
<1>2. AtHead(p) /\ \A q \in Slots : Holds(q) => AtHead(q)
  BY <1>1 DEF IInv, LockInv, AtHead
<1>3. OthersKept(p)
  BY <1>1, StepKeepsOthers DEF IInv, TypeOK
<1>4. req[p] \in Request
  BY <1>1 DEF IInv, ShapeInv, Shape, Holds, Locked
<1> QED BY <1>1, <1>2, <1>3, <1>4 DEF AtHead

\* What each writer of the sidecar replaces: the sidecar on disk.
LEMMA SidecarWrite ==
  ASSUME IInv, NEW p \in Slots, WritesSidecar(p)
  PROVE  /\ sidecar \in Sidecar \cup {None} /\ sidecar' \in Sidecar /\ req[p] \in Request
         /\ \/ PutSidecar(p) /\ sidecar' = PutSidecarOf(req[p], sidecar)
            \/ MetaSidecar(p) /\ sidecar' = MetaSidecarOf(req[p], sidecar)
            \/ DeleteTombstone(p) /\ sidecar' = TombstoneOf(sidecar, snap[p].path)
<1>1. req[p] \in Request /\ Progress(p) /\ Shape(p) /\ sidecar \in Sidecar \cup {None}
  BY WriterAtHead DEF IInv, ProgressInv, ShapeInv, TypeOK, StoreTypeOK
<1>2. \/ PutSidecar(p) /\ sidecar' = PutSidecarOf(req[p], sidecar)
      \/ MetaSidecar(p) /\ sidecar' = MetaSidecarOf(req[p], sidecar)
      \/ DeleteTombstone(p) /\ sidecar' = TombstoneOf(sidecar, snap[p].path)
  BY <1>1 DEF WritesSidecar, PutSidecar, MetaSidecar, DeleteTombstone, Progress
<1>3. DeleteTombstone(p) => snap[p].path \in ContentTypes
  BY <1>1 DEF DeleteTombstone, Shape
<1>4. req[p].type \in ContentTypes
  BY <1>1 DEF Request
<1>5. sidecar' \in Sidecar
  <2>1. CASE DeleteTombstone(p)
    BY <1>1, <1>3, <2>1, SidecarsTyped DEF DeleteTombstone
  <2>2. CASE ~DeleteTombstone(p)
    BY <1>1, <1>2, <1>4, <2>2, SidecarsTyped
  <2> QED BY <2>1, <2>2
<1> QED BY <1>1, <1>2, <1>5

\* The content counter of the sidecar never goes back.
LEMMA VersionGrows ==
  ASSUME IInv, [Next]_vars
  PROVE  VersionOf(sidecar) \in Nat /\ VersionOf(sidecar') \in Nat /\ VersionOf(sidecar) <= VersionOf(sidecar')
<1>1. sidecar \in Sidecar \cup {None} /\ VersionOf(sidecar) \in Nat
  BY CountersTyped DEF IInv, TypeOK, StoreTypeOK
<1>2. CASE sidecar' = sidecar
  BY <1>1, <1>2
<1>3. CASE sidecar' # sidecar
  <2>1. PICK p \in Slots : WritesSidecar(p)
    <3>1. ASSUME NEW p \in Slots, WritesContent(p) \/ MetaReply(p) PROVE sidecar' = sidecar
      BY <3>1 DEF WritesContent, PutContent, PutPrune, DeleteContent, MetaReply, disk
    <3> QED BY <1>3, <3>1, QuietStep
  <2>2. /\ sidecar' \in Sidecar
        /\ sidecar'.version \in {VersionOf(sidecar), NextVersion(sidecar)}
    BY <2>1, SidecarWrite DEF PutSidecarOf, MetaSidecarOf, TombstoneOf
  <2>3. sidecar' # None
    BY <2>2, ConstantsAssumption
  <2>4. VersionOf(sidecar') = sidecar'.version
    BY <2>3 DEF VersionOf
  <2>5. NextVersion(sidecar) = VersionOf(sidecar) + 1
    BY DEF NextVersion
  <2> QED BY <1>1, <2>2, <2>4, <2>5
<1> QED BY <1>2, <1>3

----------------------------------------------------------------------------
(* The invariant of the histories.                                         *)

LEMMA MetaReplyStep ==
  ASSUME IInv, HistoryInv, [Next]_vars
  PROVE  MetaReplyInv'
<1> SUFFICES ASSUME NEW p \in Slots, pc'[p] = "reply", req'[p].op = "putMeta"
             PROVE  sidecar' = MetaSidecarOf(req'[p], snap'[p].prior)
  BY DEF MetaReplyInv
<1>1. CASE UNCHANGED vars
  BY <1>1 DEF vars, HistoryInv, MetaReplyInv
<1>2. CASE Crash
  BY <1>2 DEF Crash
<1>3. ASSUME NEW q \in Slots, Operating(q) \/ Arrive(q), q # p
      PROVE  sidecar' = MetaSidecarOf(req'[p], snap'[p].prior)
  <2>1. pc'[p] = pc[p] /\ req'[p] = req[p] /\ snap'[p] = snap[p]
    BY <1>3, StepKeepsOthers DEF OthersKept, IInv, TypeOK
  <2>2. ~AtHead(q)
    BY <1>3, <2>1 DEF IInv, LockInv, Holds, Locked, AtHead
  <2>3. sidecar' = sidecar
    BY <1>3, <2>2, OnlyHolderWrites DEF IInv, disk
  <2> QED BY <2>1, <2>3 DEF HistoryInv, MetaReplyInv
<1>4. CASE Operating(p) \/ Arrive(p)
  <2>1. SlotTypeOK /\ Shape(p)
    BY DEF IInv, TypeOK, ShapeInv
  <2>2. CASE MetaSidecar(p)
    BY <2>1, <2>2 DEF MetaSidecar, input, SlotTypeOK
  <2>3. CASE Put(p)
    BY <2>1, <2>3 DEF Put, PutBegin, PutRefused, PutContent, PutPrune, PutSidecar, PutReply, Granted,
                      Release, Answer, Goto, input, SlotTypeOK, Shape
  <2>4. CASE MetaBegin(p) \/ MetaReply(p)
    BY <2>1, <2>4 DEF MetaBegin, MetaReply, Release, Answer, Goto, SlotTypeOK
  <2>5. CASE Delete(p)
    BY <2>1, <2>5 DEF Delete, DeleteBegin, DeleteContent, DeleteChunks, DeleteTombstone, DeleteReply, Granted,
                      Release, Answer, Goto, input, SlotTypeOK, Shape
  <2>6. CASE Chunk(p)
    BY <2>1, <2>6 DEF Chunk, PutChunkBegin, PutChunkContent, PutChunkSidecar, DeleteChunkBegin,
                      DeleteChunkContent, DeleteChunkSidecar, ChunkReply, Granted,
                      Release, Answer, Goto, input, SlotTypeOK, Shape
  <2>7. CASE Read(p)
    BY <2>1, <2>7 DEF Read, ReadFind, HeadStat, HeadSidecar, GetSidecar, GetOpen, Answer, Goto, SlotTypeOK
  <2>8. CASE IoError(p)
    BY <2>1, <2>8 DEF IoError, Release, Answer, SlotTypeOK
  <2>9. CASE Arrive(p)
    <3>1. Goto(p, "find") \/ Goto(p, "queued")
      BY <2>9 DEF Arrive
    <3> QED BY <2>1, <3>1 DEF Goto, SlotTypeOK
  <2> QED BY <1>4, <2>2, <2>3, <2>4, <2>5, <2>6, <2>7, <2>8, <2>9 DEF Operating, Step, Meta
<1> QED BY <1>1, <1>2, <1>3, <1>4 DEF Next, Operating, Finished

\* The steps that write the sidecar, one by one.
LEMMA StampStep ==
  ASSUME IInv, StampInv, [Next]_vars
  PROVE  StampInv'
<1>1. CASE sidecar' = sidecar
  BY <1>1 DEF StampInv
<1>2. ASSUME NEW p \in Slots, WritesSidecar(p)
      PROVE  StampInv'
  <2>1. sidecar \in Sidecar \cup {None}
    BY <1>2, SidecarWrite
  <2>2. CASE sidecar' = PutSidecarOf(req[p], sidecar) \/ sidecar' = TombstoneOf(sidecar, snap[p].path)
    BY <2>2 DEF StampInv, PutSidecarOf, TombstoneOf, WrittenEpoch
  <2>3. CASE sidecar' = MetaSidecarOf(req[p], sidecar)
    BY <2>3 DEF StampInv, MetaSidecarOf, VersionOf
  <2> QED BY <1>2, <2>2, <2>3, SidecarWrite
<1>3. ASSUME NEW p \in Slots, WritesContent(p) \/ MetaReply(p)
      PROVE  sidecar' = sidecar
  BY <1>3 DEF WritesContent, PutContent, PutPrune, DeleteContent, MetaReply, disk
<1> QED BY <1>1, <1>2, <1>3, QuietStep

LEMMA AckedMetadataStep ==
  ASSUME IInv, HistoryInv, [Next]_vars
  PROVE  AckedMetadataKept'
<1>1. /\ sidecar \in Sidecar \cup {None} /\ metaAck \in [version : Nat, custom : Customs \cup {None}]
      /\ MetaVersionOf(sidecar) \in Nat /\ AckedMetadataKept
  BY CountersTyped DEF IInv, TypeOK, StoreTypeOK, ClientTypeOK, HistoryInv
<1>2. CASE UNCHANGED <<sidecar, metaAck>>
  BY <1>1, <1>2 DEF AckedMetadataKept
<1>3. ASSUME NEW p \in Slots, PutSidecar(p)
      PROVE  AckedMetadataKept'
  <2>1. sidecar' \in Sidecar /\ sidecar' = PutSidecarOf(req[p], sidecar) /\ metaAck' = metaAck
    BY <1>3, SidecarWrite DEF WritesSidecar, PutSidecar, MetaSidecar, DeleteTombstone, history
  <2>2. sidecar # None => sidecar'.metaVersion = sidecar.metaVersion /\ sidecar'.custom = sidecar.custom
    BY <2>1 DEF PutSidecarOf, MetaVersionOf, KeptCustom
  <2>3. sidecar' # None
    BY <2>1, ConstantsAssumption
  <2> QED BY <1>1, <2>1, <2>2, <2>3 DEF AckedMetadataKept
<1>4. ASSUME NEW p \in Slots, MetaSidecar(p)
      PROVE  AckedMetadataKept'
  <2>1. sidecar' \in Sidecar /\ sidecar' = MetaSidecarOf(req[p], sidecar) /\ metaAck' = metaAck
    BY <1>4, SidecarWrite DEF WritesSidecar, PutSidecar, MetaSidecar, DeleteTombstone, history
  <2>2. sidecar # None => sidecar'.metaVersion = sidecar.metaVersion + 1
    BY <2>1 DEF MetaSidecarOf, MetaVersionOf
  <2>3. sidecar' # None
    BY <2>1, ConstantsAssumption
  <2>4. sidecar # None => sidecar.metaVersion \in Nat
    BY <1>1 DEF Sidecar
  <2> QED BY <1>1, <2>1, <2>2, <2>3, <2>4 DEF AckedMetadataKept
<1>5. ASSUME NEW p \in Slots, DeleteTombstone(p)
      PROVE  AckedMetadataKept'
  BY <1>5 DEF DeleteTombstone, AckedMetadataKept
<1>6. ASSUME NEW p \in Slots, MetaReply(p)
      PROVE  AckedMetadataKept'
  <2>1. sidecar = MetaSidecarOf(req[p], snap[p].prior) /\ sidecar' = sidecar
    BY <1>6 DEF HistoryInv, MetaReplyInv, MetaReply, disk
  <2>2. metaAck'.version = sidecar.metaVersion /\ metaAck'.custom = sidecar.custom
    BY <1>6, <2>1 DEF MetaReply, MetaSidecarOf
  <2>3. sidecar # None
    <3>1. req[p] \in Request /\ req[p].type \in ContentTypes /\ snap[p].prior \in Sidecar \cup {None}
      BY <1>6, InProgress DEF MetaReply, IInv, Request
    <3>2. sidecar \in Sidecar
      BY <2>1, <3>1, SidecarsTyped
    <3> QED BY <3>2, ConstantsAssumption
  <2>4. sidecar.metaVersion \in Nat
    BY <1>1, <2>3 DEF Sidecar
  <2> QED BY <2>1, <2>2, <2>3, <2>4 DEF AckedMetadataKept
<1>7. ASSUME NEW p \in Slots, WritesContent(p)
      PROVE  UNCHANGED <<sidecar, metaAck>>
  BY <1>7 DEF WritesContent, PutContent, PutPrune, DeleteContent, history
<1> QED BY <1>2, <1>3, <1>4, <1>5, <1>6, <1>7, QuietStep DEF WritesSidecar

\* A put writes its representation ahead of the ETag and bumps the ETag when
\* that is the only representation left.
LEMMA FreshContentStep ==
  ASSUME IInv, FreshContentInv, [Next]_vars
  PROVE  FreshContentInv'
<1>1. /\ reps \in [ContentTypes -> Content \cup {None}] /\ sidecar \in Sidecar \cup {None}
      /\ VersionOf(sidecar) \in Nat
  BY VersionGrows DEF IInv, TypeOK, StoreTypeOK
<1>2. CASE UNCHANGED <<reps, sidecar>>
  BY <1>2 DEF FreshContentInv
<1>3. ASSUME NEW p \in Slots, PutContent(p)
      PROVE  FreshContentInv'
  <2>1. snap[p].prior = sidecar /\ req[p].type \in ContentTypes
    BY <1>3, WriterAtHead DEF WritesContent, IInv, ProgressInv, Progress, PutContent, Request
  <2>2. reps' = [reps EXCEPT ![req[p].type] = [write |-> number[p], version |-> NextVersion(sidecar)]]
    BY <1>3, <2>1 DEF PutContent
  <2>3. sidecar' = sidecar /\ NextVersion(sidecar) = VersionOf(sidecar) + 1
    BY <1>3 DEF PutContent, NextVersion
  <2>4. ASSUME NEW ct \in ContentTypes, reps'[ct] # None
        PROVE  reps'[ct].version >= VersionOf(sidecar)
    <3>1. CASE ct = req[p].type
      <4>1. reps'[ct].version = NextVersion(sidecar)
        BY <1>1, <2>2, <3>1
      <4> QED BY <1>1, <2>3, <4>1
    <3>2. CASE ct # req[p].type
      <4>1. reps'[ct] = reps[ct]
        BY <1>1, <2>2, <3>2
      <4> QED BY <2>4, <4>1 DEF FreshContentInv
    <3> QED BY <3>1, <3>2
  <2> QED BY <2>3, <2>4 DEF FreshContentInv
<1>4. ASSUME NEW p \in Slots, PutPrune(p) \/ DeleteContent(p)
      PROVE  FreshContentInv'
  <2>1. PICK ct \in ContentTypes : reps' = [reps EXCEPT ![ct] = None] /\ sidecar' = sidecar
    <3>1. snap[p] \in Snap
      BY InProgress DEF IInv
    <3> QED BY <1>4, <3>1 DEF PutPrune, DeleteContent, Stale, Snap
  <2> QED BY <1>1, <2>1 DEF FreshContentInv
<1>5. ASSUME NEW p \in Slots, PutSidecar(p)
      PROVE  FreshContentInv'
  <2>1. sidecar' \in Sidecar /\ sidecar' = PutSidecarOf(req[p], sidecar) /\ reps' = reps
    BY <1>5, SidecarWrite DEF WritesSidecar, PutSidecar, MetaSidecar, DeleteTombstone
  <2>2. snap[p].prior = sidecar /\ reps[req[p].type] = Written(p) /\ Files = {req[p].type}
    BY <1>5 DEF PutSidecar, Stale, IInv, ProgressInv, Progress
  <2>3. VersionOf(sidecar') = NextVersion(sidecar)
    BY <2>1, ConstantsAssumption DEF VersionOf, PutSidecarOf
  <2>4. ASSUME NEW ct \in ContentTypes, reps[ct] # None
        PROVE  reps[ct].version = NextVersion(sidecar)
    BY <2>2, <2>4 DEF Files, Written
  <2>5. NextVersion(sidecar) \in Nat
    BY <1>1, CountersTyped
  <2> QED BY <2>1, <2>3, <2>4, <2>5 DEF FreshContentInv
<1>6. ASSUME NEW p \in Slots, MetaSidecar(p)
      PROVE  FreshContentInv'
  <2>1. sidecar' \in Sidecar /\ sidecar' = MetaSidecarOf(req[p], sidecar) /\ reps' = reps
    BY <1>6, SidecarWrite DEF WritesSidecar, PutSidecar, MetaSidecar, DeleteTombstone
  <2>2. VersionOf(sidecar') = VersionOf(sidecar)
    BY <2>1, ConstantsAssumption DEF VersionOf, MetaSidecarOf
  <2> QED BY <2>1, <2>2 DEF FreshContentInv
<1>7. ASSUME NEW p \in Slots, DeleteTombstone(p)
      PROVE  FreshContentInv'
  <2>1. Files = {} /\ reps' = reps
    BY <1>7 DEF DeleteTombstone, IInv, ProgressInv, Progress
  <2> QED BY <2>1 DEF FreshContentInv, Files
<1>8. ASSUME NEW p \in Slots, MetaReply(p)
      PROVE  UNCHANGED <<reps, sidecar>>
  BY <1>8 DEF MetaReply, disk
<1> QED BY <1>2, <1>3, <1>4, <1>5, <1>6, <1>7, <1>8, QuietStep DEF WritesSidecar, WritesContent

\* A GET takes its ETag from the sidecar on disk, and that one only grows.
LEMMA ReaderStep ==
  ASSUME IInv, ReaderInv, [Next]_vars
  PROVE  ReaderInv'
<1> SUFFICES ASSUME NEW p \in Slots, pc'[p] = "open"
             PROVE  VersionOf(snap'[p].prior) <= VersionOf(sidecar')
  BY DEF ReaderInv
<1>1. snap[p].prior \in Sidecar \cup {None} /\ VersionOf(snap[p].prior) \in Nat
  BY InProgress, CountersTyped DEF IInv
<1>2. CASE pc[p] = "open" /\ snap'[p].prior = snap[p].prior
  BY <1>1, <1>2, VersionGrows DEF ReaderInv
<1>3. CASE GetSidecar(p)
  <2>1. snap'[p].prior = sidecar /\ sidecar' = sidecar
    BY <1>3 DEF GetSidecar, disk, IInv, TypeOK, SlotTypeOK, Snap
  <2> QED BY <2>1, VersionGrows
<1>4. ASSUME NEW q \in Slots, q # p, Operating(q) \/ Arrive(q)
      PROVE  pc[p] = "open" /\ snap'[p].prior = snap[p].prior
  BY <1>4, StepKeepsOthers DEF OthersKept, IInv, TypeOK
<1>5. CASE UNCHANGED vars
  BY <1>2, <1>5 DEF vars
<1>6. Operating(p) \/ Arrive(p) => GetSidecar(p)
  <2>1. SlotTypeOK /\ Shape(p)
    BY DEF IInv, TypeOK, ShapeInv
  <2>2. ~Put(p)
    BY <2>1 DEF Put, PutBegin, PutRefused, PutContent, PutPrune, PutSidecar, PutReply, Granted,
                Release, Answer, Goto, SlotTypeOK
  <2>3. ~Meta(p) /\ ~Delete(p)
    BY <2>1 DEF Meta, MetaBegin, MetaSidecar, MetaReply, Delete, DeleteBegin, DeleteContent, DeleteChunks,
                DeleteTombstone, DeleteReply, Granted, Release, Answer, Goto, SlotTypeOK
  <2>4. ~Chunk(p)
    BY <2>1 DEF Chunk, PutChunkBegin, PutChunkContent, PutChunkSidecar, DeleteChunkBegin,
                DeleteChunkContent, DeleteChunkSidecar, ChunkReply, Granted, Release, Answer, Goto, SlotTypeOK
  <2>5. Read(p) => GetSidecar(p)
    BY <2>1 DEF Read, ReadFind, HeadStat, HeadSidecar, GetSidecar, GetOpen, Answer, Goto, SlotTypeOK
  <2>6. ~IoError(p)
    BY <2>1 DEF IoError, Release, Answer, SlotTypeOK
  <2>7. ~Arrive(p)
    <3>1. Arrive(p) => Goto(p, "find") \/ Goto(p, "queued")
      BY DEF Arrive
    <3> QED BY <2>1, <3>1 DEF Goto, SlotTypeOK
  <2> QED BY <2>2, <2>3, <2>4, <2>5, <2>6, <2>7 DEF Operating, Step
<1>7. ~Crash
  BY DEF Crash
<1> QED BY <1>2, <1>3, <1>4, <1>5, <1>6, <1>7 DEF Next, Operating, Finished

\* What is acknowledged of metadata, what stamps say, and what readers have opened
\* stay consistent with the disk in every behaviour.
THEOREM HistoryInvariant == Spec => [](IInv /\ HistoryInv)
<1>1. Init => HistoryInv
  BY ConstantsAssumption
     DEF Init, HistoryInv, MetaReplyInv, FreshContentInv, ReaderInv, StampInv, AckedMetadataKept
<1>2. IInv /\ IInv' /\ HistoryInv /\ [Next]_vars => HistoryInv'
  BY MetaReplyStep, FreshContentStep, ReaderStep, StampStep, AckedMetadataStep DEF HistoryInv
<1> QED BY <1>1, <1>2, InductiveInvariant, PTL DEF Spec

\* A stored key-epoch stamp was declared for the content version it stands
\* beside, whatever writes, metadata writes, deletes and faults came between;
\* the content on disk is of that version unless a write stopped half-way.
THEOREM EpochStampCurrent == Spec => []EpochStampIsNotStale
<1>1. IInv /\ HistoryInv => EpochStampIsNotStale
  BY DEF HistoryInv, StampInv, IInv, AckedInv, AckedStateOnDisk, Exists, Files, EpochStampIsNotStale
<1> QED BY <1>1, HistoryInvariant, PTL

\* An acknowledged metadata write is not undone by the content writes that run
\* beside it or after it.
THEOREM MetadataKept == Spec => []AckedMetadataKept
<1>1. HistoryInv => AckedMetadataKept
  BY DEF HistoryInv
<1> QED BY <1>1, HistoryInvariant, PTL

\* No GET pairs the ETag it sends with content older than the write the ETag
\* names, although reads take no lock.
THEOREM FreshReads == Spec => GetServesNoStaleContent
<1>1. IInv /\ HistoryInv /\ [Next]_vars =>
        [\A p \in Slots : GetOpen(p) /\ answer'.status = "ok" /\ answer'.etag # None
           => answer'.content.version >= answer'.etag]_vars
  <2>1. ASSUME IInv, HistoryInv, NEW p \in Slots, GetOpen(p), answer'.status = "ok",
               answer'.etag # None
        PROVE  answer'.content.version >= answer'.etag
    <3> DEFINE ct == snap[p].path
    <3>1. ct \in ContentTypes /\ snap[p].prior \in Sidecar \cup {None}
      BY <2>1, InProgress DEF GetOpen, IInv, ShapeInv, Shape
    <3>2. reps[ct] # None /\ answer'.etag = VersionOf(snap[p].prior) /\ answer'.content = reps[ct]
      BY <2>1 DEF GetOpen, Answer, ETag
    <3>3. reps[ct].version >= VersionOf(sidecar) /\ VersionOf(snap[p].prior) <= VersionOf(sidecar)
      BY <2>1, <3>1, <3>2 DEF HistoryInv, FreshContentInv, ReaderInv, GetOpen
    <3>4. VersionOf(snap[p].prior) \in Nat /\ VersionOf(sidecar) \in Nat /\ reps[ct].version \in Nat
      BY <2>1, <3>1, <3>2, CountersTyped DEF IInv, TypeOK, StoreTypeOK, Content
    <3> QED BY <3>2, <3>3, <3>4
  <2> QED BY <2>1
<1> QED BY <1>1, HistoryInvariant, PTL DEF Spec, GetServesNoStaleContent

----------------------------------------------------------------------------
(* Without faults the store implements ResourceContract.                   *)

Live == sidecar # None /\ sidecar.tombstone = None
Busy(p) == pc[p] \in {"settle", "drop"}

\* Between mutations there is a representation on disk exactly when the sidecar
\* says that the Resource is live; a delete began on a live one.
LiveInv ==
  /\ sidecar # None => sidecar.version >= 1
  /\ (\A p \in Slots : ~Busy(p)) => (Exists <=> Live)
  /\ \A p \in Slots : pc[p] = "drop" => Live

\* Without faults a step that writes no file leaves a write or a delete that is
\* under way where it is.
LEMMA NoFaults == ASSUME MaxFaults = 0, IInv PROVE ~Crash /\ \A p \in Slots : ~IoError(p)
BY DEF IInv, TypeOK, BoundTypeOK, Crash, IoError

LEMMA BusyStays ==
  ASSUME MaxFaults = 0, IInv, [Next]_vars, \A p \in Slots : ~WritesSidecar(p) /\ ~WritesContent(p)
  PROVE  /\ UNCHANGED <<reps, sidecar>>
         /\ \A p \in Slots : (Busy(p) => pc'[p] = pc[p])
                          /\ (pc'[p] \in {"settle", "drop"} => pc'[p] = pc[p] \/ DeleteBegin(p))
<1>1. UNCHANGED <<reps, sidecar>>
  <2>1. CASE \E p \in Slots : MetaReply(p)
    BY <2>1 DEF MetaReply, disk
  <2> QED BY <2>1, QuietStep
<1>2. ASSUME NEW p \in Slots
      PROVE  /\ Busy(p) => pc'[p] = pc[p]
             /\ pc'[p] \in {"settle", "drop"} => pc'[p] = pc[p] \/ DeleteBegin(p)
  <2>1. CASE UNCHANGED vars
    BY <2>1 DEF vars
  <2>2. ASSUME NEW q \in Slots \ {p}, Operating(q) \/ Arrive(q)
        PROVE  pc'[p] = pc[p]
    BY <2>2, StepKeepsOthers DEF OthersKept, IInv, TypeOK
  <2>3. CASE Operating(p) \/ Arrive(p)
    <3>1. SlotTypeOK /\ Shape(p) /\ ~IoError(p)
      BY NoFaults DEF IInv, TypeOK, ShapeInv
    <3>2. CASE Put(p)
      BY <3>1, <3>2 DEF WritesSidecar, WritesContent, Put, PutBegin, PutRefused, PutReply, Granted,
                        Release, Answer, Goto, SlotTypeOK, Busy
    <3>3. CASE Meta(p)
      BY <3>1, <3>3 DEF WritesSidecar, Meta, MetaBegin, MetaReply, Granted,
                        Release, Answer, Goto, SlotTypeOK, Busy
    <3>4. CASE Delete(p)
      BY <3>1, <3>4 DEF WritesSidecar, WritesContent, Delete, DeleteBegin, DeleteChunks, DeleteReply, Granted,
                        Release, Answer, Goto, SlotTypeOK, Busy
    <3>5. CASE Chunk(p)
      BY <3>1, <3>5 DEF Chunk, PutChunkBegin, PutChunkContent, PutChunkSidecar, DeleteChunkBegin,
                        DeleteChunkContent, DeleteChunkSidecar, ChunkReply, Granted,
                        Release, Answer, Goto, SlotTypeOK, Busy
    <3>6. CASE Read(p)
      BY <3>1, <3>6 DEF Read, ReadFind, HeadStat, HeadSidecar, GetSidecar, GetOpen, Answer, Goto, SlotTypeOK, Busy
    <3>7. CASE Arrive(p)
      <4>1. pc[p] = "idle" /\ (Goto(p, "find") \/ Goto(p, "queued"))
        BY <3>7 DEF Arrive
      <4> QED BY <3>1, <4>1 DEF Goto, SlotTypeOK, Busy
    <3> QED BY <2>3, <3>1, <3>2, <3>3, <3>4, <3>5, <3>6, <3>7 DEF Operating, Step
  <2> QED BY <2>1, <2>2, <2>3, NoFaults DEF Next, Operating, Finished
<1> QED BY <1>1, <1>2

LEMMA LiveStep ==
  ASSUME MaxFaults = 0, IInv, LiveInv, [Next]_vars
  PROVE  LiveInv'
<1>1. sidecar \in Sidecar \cup {None} /\ SlotTypeOK /\ (sidecar # None => sidecar.version \in Nat)
  BY DEF IInv, TypeOK, StoreTypeOK, Sidecar
<1>2. ASSUME NEW p \in Slots, WritesSidecar(p) \/ WritesContent(p) \/ DeleteBegin(p)
      PROVE  \A q \in Slots \ {p} : ~Busy(q) /\ pc'[q] \notin {"settle", "drop"}
  <2>1. AtHead(p) /\ OthersKept(p)
    <3>1. CASE DeleteBegin(p)
      BY <3>1, StepKeepsOthers DEF DeleteBegin, Granted, AtHead, Operating, Step, Delete, IInv, TypeOK
    <3>2. CASE WritesSidecar(p) \/ WritesContent(p)
      BY <3>2, WriterAtHead
    <3> QED BY <1>2, <3>1, <3>2
  <2>2. \A q \in Slots \ {p} : ~Holds(q)
    BY <2>1 DEF IInv, LockInv, AtHead
  <2> QED BY <2>1, <2>2 DEF OthersKept, Holds, Locked, Busy
<1>3. ASSUME NEW p \in Slots, PutSidecar(p)
      PROVE  LiveInv'
  <2>1. sidecar' \in Sidecar /\ sidecar' = PutSidecarOf(req[p], sidecar) /\ reps' = reps
    BY <1>3, SidecarWrite DEF WritesSidecar, PutSidecar, MetaSidecar, DeleteTombstone
  <2>2. Exists' /\ pc'[p] = "reply"
    <3>1. Files = {req[p].type}
      BY <1>3 DEF PutSidecar, Stale, IInv, ProgressInv, Progress
    <3> QED BY <1>1, <1>3, <2>1, <3>1 DEF Exists, Files, PutSidecar, Goto, SlotTypeOK
  <2>3. Live' /\ sidecar'.version >= 1
    <3>1. sidecar'.version = VersionOf(sidecar) + 1 /\ sidecar'.tombstone = None
      BY <2>1 DEF PutSidecarOf, NextVersion
    <3> QED BY <1>1, <2>1, <3>1, CountersTyped, ConstantsAssumption DEF Live
  <2> QED BY <1>2, <1>3, <2>2, <2>3 DEF LiveInv, WritesSidecar
<1>4. ASSUME NEW p \in Slots, MetaSidecar(p)
      PROVE  LiveInv'
  <2>1. sidecar' \in Sidecar /\ sidecar' = MetaSidecarOf(req[p], sidecar) /\ reps' = reps
    BY <1>4, SidecarWrite DEF WritesSidecar, PutSidecar, MetaSidecar, DeleteTombstone
  <2>2. Exists /\ Live /\ pc'[p] = "reply"
    <3>1. Exists /\ ~Busy(p)
      BY <1>4 DEF MetaSidecar, IInv, ProgressInv, Progress, Busy
    <3>2. pc'[p] = "reply"
      BY <1>1, <1>4 DEF MetaSidecar, Goto, SlotTypeOK
    <3> QED BY <1>2, <1>4, <3>1, <3>2 DEF LiveInv, WritesSidecar
  <2>3. Exists' /\ Live' /\ sidecar'.version >= 1
    <3>1. sidecar'.version = sidecar.version /\ sidecar'.tombstone = None
      BY <2>1, <2>2 DEF MetaSidecarOf, VersionOf, Live
    <3> QED BY <2>1, <2>2, <3>1, ConstantsAssumption DEF Live, LiveInv, Exists, Files
  <2> QED BY <1>2, <1>4, <2>2, <2>3 DEF LiveInv, WritesSidecar
<1>5. ASSUME NEW p \in Slots, DeleteTombstone(p)
      PROVE  LiveInv'
  <2>1. sidecar' \in Sidecar /\ sidecar' = TombstoneOf(sidecar, snap[p].path) /\ reps' = reps
    BY <1>5, SidecarWrite DEF WritesSidecar, PutSidecar, MetaSidecar, DeleteTombstone
  <2>2. ~Exists' /\ pc'[p] = "reply"
    <3>1. Files = {}
      BY <1>5 DEF DeleteTombstone, IInv, ProgressInv, Progress
    <3> QED BY <1>1, <1>5, <2>1, <3>1 DEF Exists, Files, DeleteTombstone, Goto, SlotTypeOK
  <2>3. ~Live' /\ sidecar'.version >= 1
    <3>1. sidecar'.version = VersionOf(sidecar) + 1 /\ sidecar'.tombstone \in ContentTypes
      BY <1>5, <2>1 DEF TombstoneOf, NextVersion, DeleteTombstone, IInv, ShapeInv, Shape
    <3> QED BY <1>1, <3>1, CountersTyped, ConstantsAssumption DEF Live
  <2> QED BY <1>2, <1>5, <2>2, <2>3 DEF LiveInv, WritesSidecar
<1>6. ASSUME NEW p \in Slots, WritesContent(p)
      PROVE  LiveInv'
  <2>1. sidecar' = sidecar /\ pc'[p] \in {"settle", "drop"} /\ (pc'[p] = "drop" => pc[p] = "drop")
    BY <1>1, <1>6 DEF WritesContent, PutContent, PutPrune, DeleteContent, Goto, SlotTypeOK
  <2> QED BY <1>2, <1>6, <2>1 DEF LiveInv, Live, Busy
<1>7. CASE \A p \in Slots : ~WritesSidecar(p) /\ ~WritesContent(p)
  <2>1. /\ UNCHANGED <<reps, sidecar>>
        /\ \A p \in Slots : (Busy(p) => pc'[p] = pc[p])
                         /\ (pc'[p] \in {"settle", "drop"} => pc'[p] = pc[p] \/ DeleteBegin(p))
    BY <1>7, BusyStays
  <2>2. (Exists' <=> Exists) /\ (Live' <=> Live)
    BY <2>1 DEF Exists, Files, Live
  <2>3. ASSUME \A p \in Slots : ~Busy(p)' PROVE \A p \in Slots : ~Busy(p)
    BY <2>1, <2>3 DEF Busy
  <2>4. ASSUME NEW p \in Slots, pc'[p] = "drop" PROVE Live
    <3>1. CASE pc[p] = "drop"
      BY <3>1 DEF LiveInv
    <3>2. CASE DeleteBegin(p) /\ pc[p] # "drop"
      <4>1. pc[p] = "queued" /\ Exists
        BY <1>1, <2>4, <3>2 DEF DeleteBegin, Granted, Release, Answer, SlotTypeOK
      <4>2. ~Busy(p) /\ \A q \in Slots \ {p} : ~Busy(q)
        BY <1>2, <3>2, <4>1 DEF Busy
      <4> QED BY <4>1, <4>2 DEF LiveInv
    <3> QED BY <2>1, <2>4, <3>1, <3>2
  <2> QED BY <2>1, <2>2, <2>3, <2>4 DEF LiveInv
<1> QED BY <1>3, <1>4, <1>5, <1>6, <1>7 DEF WritesSidecar

\* Two abstract Resources are equal when their fields are.
LEMMA SameFields ==
  ASSUME NEW a \in Contract!Resource, NEW b \in Contract!Resource,
         a.live = b.live, a.version = b.version, a.metaVersion = b.metaVersion,
         a.custom = b.custom, a.createdBy = b.createdBy, a.stamped = b.stamped
  PROVE  a = b
BY DEF Contract!Resource

LEMMA ResourceTyped ==
  ASSUME NEW s \in Sidecar \cup {None}
  PROVE  ResourceOf(s) \in Contract!Resource
<1>1. VersionOf(s) \in Nat /\ MetaVersionOf(s) \in Nat
  BY CountersTyped
<1>2. s # None => s.custom \in Customs \cup {None} /\ s.createdBy \in Agents \cup {None}
  BY DEF Sidecar
<1> QED BY <1>1, <1>2 DEF ResourceOf, Contract!Resource

\* What the three writers of the sidecar do to the abstract Resource.
PutOn(resource, agent, stamp) ==
  [resource EXCEPT !.live = TRUE, !.version = @ + 1,
                   !.createdBy = IF resource.version = 0 THEN agent ELSE @, !.stamped = stamp]

MetaOn(resource, custom, stamp) ==
  [resource EXCEPT !.metaVersion = @ + 1, !.custom = custom, !.stamped = @ \/ stamp]

LEMMA PutAbstracts ==
  ASSUME NEW s \in Sidecar \cup {None}, NEW r \in Request, s # None => s.version >= 1,
         PutSidecarOf(r, s) \in Sidecar
  PROVE  ResourceOf(PutSidecarOf(r, s)) = PutOn(ResourceOf(s), r.agent, r.stamp)
<1> DEFINE new == PutSidecarOf(r, s)
           old == ResourceOf(s)
           creator == IF old.version = 0 THEN r.agent ELSE old.createdBy
           put == [old EXCEPT !.live = TRUE, !.version = @ + 1, !.createdBy = creator, !.stamped = r.stamp]
<1>1. /\ new # None /\ r.stamp \in BOOLEAN /\ r.agent \in Agents \cup {None} /\ VersionOf(s) \in Nat
      /\ old \in Contract!Resource /\ ResourceOf(new) \in Contract!Resource
  BY ConstantsAssumption, CountersTyped, ResourceTyped DEF Request
<1>2. /\ VersionOf(new) = VersionOf(s) + 1 /\ MetaVersionOf(new) = MetaVersionOf(s)
      /\ new.custom = IF s = None THEN None ELSE s.custom
      /\ new.createdBy = IF s = None THEN r.agent ELSE s.createdBy
      /\ new.tombstone = None
  BY <1>1 DEF PutSidecarOf, VersionOf, MetaVersionOf, NextVersion, KeptCustom
<1>3. new.epoch # 0 <=> r.stamp
  <2>1. new.epoch = IF r.stamp THEN VersionOf(s) + 1 ELSE 0
    BY DEF PutSidecarOf, WrittenEpoch, NextVersion
  <2>2. VersionOf(s) + 1 # 0
    BY <1>1
  <2> QED BY <2>1, <2>2, Zenon
<1>4. /\ ResourceOf(new).live /\ ResourceOf(new).version = old.version + 1
      /\ ResourceOf(new).metaVersion = old.metaVersion /\ ResourceOf(new).custom = old.custom
      /\ ResourceOf(new).createdBy = creator
      /\ ResourceOf(new).stamped <=> r.stamp
  <2>1. s = None <=> VersionOf(s) = 0
    BY DEF VersionOf, Sidecar
  <2> HIDE DEF new
  <2> QED BY <1>1, <1>2, <1>3, <2>1 DEF ResourceOf
<1> HIDE DEF old, creator
<1>5. /\ put.live /\ put.version = old.version + 1 /\ put.metaVersion = old.metaVersion
      /\ put.custom = old.custom /\ put.createdBy = creator /\ put.stamped = r.stamp
  BY <1>1 DEF Contract!Resource
<1>6. put \in Contract!Resource
  <2>1. old.version + 1 \in Nat /\ creator \in Agents \cup {None}
    BY <1>1 DEF Contract!Resource, creator
  <2>2. [old EXCEPT !.live = TRUE] \in Contract!Resource
    BY <1>1 DEF Contract!Resource
  <2>3. [[old EXCEPT !.live = TRUE] EXCEPT !.version = old.version + 1] \in Contract!Resource
    BY <2>1, <2>2 DEF Contract!Resource
  <2> QED BY <1>1, <2>1, <2>3 DEF Contract!Resource
<1>7. ResourceOf(new) = put
  <2> HIDE DEF put, new
  <2> QED BY <1>1, <1>4, <1>5, <1>6, SameFields DEF Contract!Resource
<1> QED BY <1>7 DEF old, creator, PutOn

LEMMA MetaAbstracts ==
  ASSUME NEW s \in Sidecar, NEW r \in Request, s.version >= 1, s.tombstone = None,
         s.epoch # 0 => s.epoch = s.version, MetaSidecarOf(r, s) \in Sidecar
  PROVE  /\ ResourceOf(s).live
         /\ ResourceOf(MetaSidecarOf(r, s)) = MetaOn(ResourceOf(s), r.custom, r.stamp)
<1> DEFINE new == MetaSidecarOf(r, s)
           old == ResourceOf(s)
           meta == [old EXCEPT !.metaVersion = @ + 1, !.custom = r.custom, !.stamped = @ \/ r.stamp]
<1>1. /\ new # None /\ s # None /\ r.stamp \in BOOLEAN /\ r.custom \in Customs \cup {None}
      /\ old \in Contract!Resource /\ ResourceOf(new) \in Contract!Resource
  BY ConstantsAssumption, ResourceTyped DEF Request
<1>2. /\ VersionOf(new) = VersionOf(s) /\ MetaVersionOf(new) = MetaVersionOf(s) + 1
      /\ new.custom = r.custom /\ new.createdBy = s.createdBy /\ new.tombstone = None
  BY <1>1 DEF MetaSidecarOf, VersionOf, MetaVersionOf, KeptCreator
<1>3. new.epoch # 0 <=> s.epoch # 0 \/ r.stamp
  <2>1. new.epoch = IF r.stamp THEN s.version ELSE s.epoch
    BY <1>1 DEF MetaSidecarOf, VersionOf
  <2>2. s.version # 0
    BY DEF Sidecar
  <2> QED BY <2>1, <2>2, Zenon
<1>4. /\ old.live /\ (old.stamped <=> s.epoch # 0)
      /\ ResourceOf(new).live /\ ResourceOf(new).version = old.version
      /\ ResourceOf(new).metaVersion = old.metaVersion + 1 /\ ResourceOf(new).custom = r.custom
      /\ ResourceOf(new).createdBy = old.createdBy
      /\ ResourceOf(new).stamped <=> (s.epoch # 0 \/ r.stamp)
  <2> HIDE DEF new
  <2> QED BY <1>1, <1>2, <1>3 DEF ResourceOf
<1> HIDE DEF old
<1>5. /\ meta.live = old.live /\ meta.version = old.version /\ meta.metaVersion = old.metaVersion + 1
      /\ meta.custom = r.custom /\ meta.createdBy = old.createdBy /\ (meta.stamped <=> (old.stamped \/ r.stamp))
  BY <1>1 DEF Contract!Resource
<1>6. meta \in Contract!Resource
  <2>1. old.metaVersion + 1 \in Nat /\ (old.stamped \/ r.stamp) \in BOOLEAN
    BY <1>1 DEF Contract!Resource
  <2> QED BY <1>1, <2>1 DEF Contract!Resource
<1>7. ResourceOf(new) = meta
  <2> HIDE DEF meta, new
  <2>1. ResourceOf(new).live = meta.live /\ ResourceOf(new).stamped = meta.stamped
    BY <1>1, <1>4, <1>5, <1>6 DEF Contract!Resource
  <2>2. /\ ResourceOf(new).version = meta.version /\ ResourceOf(new).metaVersion = meta.metaVersion
        /\ ResourceOf(new).custom = meta.custom /\ ResourceOf(new).createdBy = meta.createdBy
    BY <1>4, <1>5
  <2> QED BY <1>1, <1>6, <2>1, <2>2, SameFields
<1> QED BY <1>4, <1>7 DEF old, MetaOn

LEMMA DeleteAbstracts ==
  ASSUME NEW s \in Sidecar, NEW ct \in ContentTypes, s.tombstone = None, TombstoneOf(s, ct) \in Sidecar
  PROVE  /\ ResourceOf(s).live
         /\ ResourceOf(TombstoneOf(s, ct)) =
              [ResourceOf(s) EXCEPT !.live = FALSE, !.version = @ + 1, !.metaVersion = 0,
                                    !.custom = None, !.stamped = FALSE]
<1> DEFINE new == TombstoneOf(s, ct)
           old == ResourceOf(s)
           gone == [old EXCEPT !.live = FALSE, !.version = @ + 1, !.metaVersion = 0, !.custom = None,
                               !.stamped = FALSE]
<1>1. /\ new # None /\ s # None /\ ct # None
      /\ old \in Contract!Resource /\ ResourceOf(new) \in Contract!Resource
  BY ConstantsAssumption, ResourceTyped
<1>2. /\ VersionOf(new) = VersionOf(s) + 1 /\ MetaVersionOf(new) = 0
      /\ new.custom = None /\ new.createdBy = s.createdBy /\ new.tombstone = ct /\ new.epoch = 0
  BY <1>1 DEF TombstoneOf, VersionOf, MetaVersionOf, NextVersion, KeptCreator
<1>3. /\ old.live /\ ~ResourceOf(new).live /\ ResourceOf(new).version = old.version + 1
      /\ ResourceOf(new).metaVersion = 0 /\ ResourceOf(new).custom = None
      /\ ResourceOf(new).createdBy = old.createdBy /\ ~ResourceOf(new).stamped
  <2> HIDE DEF new
  <2> QED BY <1>1, <1>2 DEF ResourceOf
<1> HIDE DEF old
<1>4. /\ ~gone.live /\ gone.version = old.version + 1 /\ gone.metaVersion = 0 /\ gone.custom = None
      /\ gone.createdBy = old.createdBy /\ ~gone.stamped
  BY <1>1 DEF Contract!Resource
<1>5. gone \in Contract!Resource
  <2>1. old.version + 1 \in Nat
    BY <1>1 DEF Contract!Resource
  <2> QED BY <1>1, <2>1 DEF Contract!Resource
<1>6. ResourceOf(new) = gone
  <2> HIDE DEF gone, new
  <2> QED BY <1>1, <1>3, <1>4, <1>5, SameFields DEF Contract!Resource
<1> QED BY <1>3, <1>6 DEF old

LEMMA ContractStep ==
  ASSUME IInv, HistoryInv, LiveInv, [Next]_vars
  PROVE  [Contract!Next]_(ResourceOf(sidecar))
<1>1. CASE sidecar' = sidecar
  BY <1>1
<1>2. ASSUME NEW p \in Slots, PutSidecar(p)
      PROVE  Contract!Write
  <2>1. /\ sidecar \in Sidecar \cup {None} /\ req[p] \in Request
        /\ sidecar' \in Sidecar /\ sidecar' = PutSidecarOf(req[p], sidecar)
    BY <1>2, SidecarWrite DEF WritesSidecar, PutSidecar, MetaSidecar, DeleteTombstone
  <2>2. ResourceOf(sidecar') = PutOn(ResourceOf(sidecar), req[p].agent, req[p].stamp)
    BY <2>1, PutAbstracts DEF LiveInv
  <2>3. req[p].agent \in Agents \cup {None} /\ req[p].stamp \in BOOLEAN
    BY <2>1 DEF Request
  <2>4. ResourceOf(sidecar)' = PutOn(ResourceOf(sidecar), req[p].agent, req[p].stamp)
    BY <2>2
  <2> QED BY <2>3, <2>4 DEF Contract!Write, PutOn
<1>3. ASSUME NEW p \in Slots, MetaSidecar(p)
      PROVE  Contract!WriteMetadata
  <2>1. /\ sidecar \in Sidecar \cup {None} /\ req[p] \in Request
        /\ sidecar' \in Sidecar /\ sidecar' = MetaSidecarOf(req[p], sidecar)
    BY <1>3, SidecarWrite DEF WritesSidecar, PutSidecar, MetaSidecar, DeleteTombstone
  <2>2. Live
    <3>1. AtHead(p) /\ \A q \in Slots : Holds(q) => q = p
      BY <1>3, WriterAtHead DEF WritesSidecar
    <3>2. \A q \in Slots : ~Busy(q)
      BY <1>3, <3>1 DEF MetaSidecar, Busy, Holds, Locked
    <3> QED BY <1>3, <3>2 DEF MetaSidecar, IInv, ProgressInv, Progress, LiveInv
  <2>3. sidecar \in Sidecar /\ sidecar.version >= 1 /\ sidecar.tombstone = None
        /\ (sidecar.epoch # 0 => sidecar.epoch = sidecar.version)
    BY <2>1, <2>2 DEF Live, LiveInv, HistoryInv, StampInv
  <2>4. /\ ResourceOf(sidecar).live
        /\ ResourceOf(sidecar') = MetaOn(ResourceOf(sidecar), req[p].custom, req[p].stamp)
    BY <2>1, <2>3, MetaAbstracts
  <2>5. req[p].custom \in Customs \cup {None} /\ req[p].stamp \in BOOLEAN
    BY <2>1 DEF Request
  <2>6. ResourceOf(sidecar)' = MetaOn(ResourceOf(sidecar), req[p].custom, req[p].stamp)
    BY <2>4
  <2> QED BY <2>4, <2>5, <2>6 DEF Contract!WriteMetadata, MetaOn
<1>4. ASSUME NEW p \in Slots, DeleteTombstone(p)
      PROVE  Contract!Delete
  <2>1. /\ sidecar \in Sidecar \cup {None} /\ snap[p].path \in ContentTypes
        /\ sidecar' \in Sidecar /\ sidecar' = TombstoneOf(sidecar, snap[p].path)
    BY <1>4, SidecarWrite DEF WritesSidecar, PutSidecar, MetaSidecar, DeleteTombstone, IInv, ShapeInv, Shape
  <2>2. sidecar \in Sidecar /\ sidecar.tombstone = None
    BY <1>4, <2>1 DEF DeleteTombstone, Live, LiveInv
  <2>3. /\ ResourceOf(sidecar).live
        /\ ResourceOf(sidecar') =
             [ResourceOf(sidecar) EXCEPT !.live = FALSE, !.version = @ + 1, !.metaVersion = 0,
                                         !.custom = None, !.stamped = FALSE]
    BY <2>1, <2>2, DeleteAbstracts
  <2>4. ResourceOf(sidecar)' =
          [ResourceOf(sidecar) EXCEPT !.live = FALSE, !.version = @ + 1, !.metaVersion = 0,
                                      !.custom = None, !.stamped = FALSE]
    BY <2>3
  <2> QED BY <2>3, <2>4 DEF Contract!Delete
<1>5. ASSUME NEW p \in Slots, WritesContent(p) \/ MetaReply(p)
      PROVE  sidecar' = sidecar
  BY <1>5 DEF WritesContent, PutContent, PutPrune, DeleteContent, MetaReply, disk
<1> QED BY <1>1, <1>2, <1>3, <1>4, <1>5, QuietStep DEF WritesSidecar, Contract!Next

\* Without crashes and I/O errors, every step of every interleaving of the
\* handlers is one atomic write, metadata write or delete of the contract, or
\* changes nothing the contract speaks of.
THEOREM StoreImplementsContract ==
  ASSUME MaxFaults = 0
  PROVE  Spec => ImplementsContract
<1>1. Init => Contract!Init /\ LiveInv
  BY ConstantsAssumption
     DEF Init, Contract!Init, LiveInv, Live, Exists, Files, ResourceOf, VersionOf, MetaVersionOf
<1>2. IInv /\ LiveInv /\ [Next]_vars => LiveInv'
  BY LiveStep
<1>3. IInv /\ HistoryInv /\ LiveInv /\ [Next]_vars => [Contract!Next]_(ResourceOf(sidecar))
  BY ContractStep
<1> QED BY <1>1, <1>2, <1>3, HistoryInvariant, PTL DEF Spec, ImplementsContract, Contract!Spec
==============================================================================
