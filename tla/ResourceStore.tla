----------------------------- MODULE ResourceStore -----------------------------
(***************************************************************************)
(* One Resource of the filesystem backend (src/src/backends/filesystem.ts) *)
(* and the requests that read and write it concurrently.                   *)
(*                                                                         *)
(* On disk a Resource is: its representation files, one per content type   *)
(* (`r.<id>.<type>.<ext>`), of which there should be one; a metadata       *)
(* sidecar (`.meta.<id>.json`) with the two ETag counters; and the files   *)
(* of its chunk directory.  Each is replaced atomically (temp file, fsync, *)
(* rename: lib/atomicFile.ts), but an operation touches several, one after *)
(* another, so every await between two of them is a step boundary here.    *)
(* Mutations of one Resource are serialized by the in-process KeyedMutex;  *)
(* reads take no lock.  Distinct Resources share no state of this module.  *)
(*                                                                         *)
(* A crash of the process (lock queue and pending requests are lost, files *)
(* stay) and an I/O error (the critical section rejects part-way) can      *)
(* strike between any two steps; MaxFaults bounds how many do.             *)
(***************************************************************************)
EXTENDS Naturals, Sequences

CONSTANTS
  Slots,         \* requests that can be in progress at once
  ContentTypes,  \* media types a representation can be stored under
  Agents,        \* DIDs whose capability invocation authorizes a request
  Customs,       \* user-writable `custom` objects
  ChunkIndexes,  \* indexes of the chunks stored under the Resource
  Workload,      \* the requests clients may send
  MaxRequests,   \* bound: requests sent in a behaviour
  MaxFaults,     \* bound: crashes and I/O errors in a behaviour
  None           \* an absent field, file or header

Operations == {"put", "putMeta", "delete", "get", "head", "putChunk", "deleteChunk"}

\* A request as the storage layer sees it; an operation ignores the fields it
\* has no use for.  `stamp`: the write declares the key epoch of its content.
Request ==
  [op : Operations, type : ContentTypes, ifMatch : Nat \cup {None},
   ifNoneMatch : BOOLEAN, agent : Agents \cup {None}, stamp : BOOLEAN,
   custom : Customs \cup {None}, chunk : ChunkIndexes]

\* The bytes of a representation: which request wrote them, and (history, not
\* stored) the version that write gets if it completes.
Content == [write : Nat, version : Nat]

\* The sidecar's counters start at 1; 0 stands for an absent counter, which the
\* code treats as 0 throughout (`?? 0`).  `epoch` is the version of the content
\* the stored key-epoch stamp was declared for (0: no stamp).  `tombstone` is
\* None, or the last content type of a deleted Resource.
Sidecar ==
  [version : Nat, metaVersion : Nat, createdBy : Agents \cup {None},
   custom : Customs \cup {None}, epoch : Nat, tombstone : ContentTypes \cup {None}]

\* What a client is answered; `etag` is None when the header is not sent.
Reply ==
  [status : {"ok", "absent", "precondition", "error"}, etag : (Nat \ {0}) \cup {None},
   content : Content \cup {None}]

ASSUME ConstantsAssumption ==
  /\ MaxRequests \in Nat
  /\ MaxFaults \in Nat
  /\ None \notin Nat \cup ContentTypes \cup Agents \cup Customs \cup Sidecar \cup Content \cup Reply \cup Request
  /\ Workload \subseteq Request

VARIABLES
  reps,     \* representation file of each content type, or None
  sidecar,  \* the metadata sidecar, or None
  chunks,   \* per chunk index: [stored, version] of its file and its sidecar
  queue,    \* the KeyedMutex chain of this Resource's key; its head runs
  pc,       \* per slot: the step its request is at
  req,      \* per slot: the request
  number,   \* per slot: its number, the identity of the bytes it carries
  snap,     \* per slot: what the handler has read so far
  answer,   \* the last answer sent
  issued,   \* requests sent so far
  faults,   \* crashes and I/O errors so far
  \* History of what clients were told, read by the properties only:
  acked,    \* the last acknowledged content write or delete
  settled,  \* no content change on disk since that acknowledgement
  metaAck   \* the last acknowledged metadata write

disk == <<reps, sidecar, chunks>>
input == <<req, number>>
history == <<acked, settled, metaAck>>
vars == <<reps, sidecar, chunks, queue, pc, req, number, snap, answer, issued, faults, acked, settled, metaAck>>

----------------------------------------------------------------------------
(* Helpers.                                                                *)

Files == {ct \in ContentTypes : reps[ct] # None}
Exists == Files # {}

VersionOf(s) == IF s = None THEN 0 ELSE s.version
MetaVersionOf(s) == IF s = None THEN 0 ELSE s.metaVersion

\* Mutant of NextVersion: a write starts to count anew.
RestartedVersion(prior) == 1
NextVersion(prior) == VersionOf(prior) + 1

\* Mutant of KeptCustom: a content write drops the user's metadata.
DroppedCustom(prior) == None
KeptCustom(prior) == IF prior = None THEN None ELSE prior.custom

KeptCreator(prior) == IF prior = None THEN None ELSE prior.createdBy

\* Mutant of WrittenEpoch: an undeclared epoch keeps the stamp of the old content.
PreservedEpoch(r, prior) ==
  IF r.stamp THEN NextVersion(prior) ELSE IF prior = None THEN 0 ELSE prior.epoch
WrittenEpoch(r, prior) == IF r.stamp THEN NextVersion(prior) ELSE 0

\* assertWritePrecondition: If-None-Match wins over If-Match, and an If-Match
\* is met by no absent Resource.
PreconditionFails(ifMatch, ifNoneMatch, exists, version) ==
  IF ifNoneMatch THEN exists
  ELSE ifMatch # None /\ (~exists \/ ifMatch # version)

\* assertMetaPrecondition, on the independent metadata counter.
MetaPreconditionFails(ifMatch, ifNoneMatch, metaVersion) ==
  IF ifNoneMatch THEN metaVersion # 0
  ELSE ifMatch # None /\ ifMatch # metaVersion

Locked == {"content", "settle", "drop", "meta", "chunk", "chunkMeta", "dropChunk", "reply"}
Reading == {"find", "stat", "etag", "open"}
Holds(p) == pc[p] \in Locked

NoSnap == [files |-> {}, prior |-> None, path |-> None, body |-> None]

\* The header is set only of a counter that is there (`version !== undefined`).
ETag(version) == IF version = 0 THEN None ELSE version

\* The handler is over: its answer is sent and its locals are gone.
Answer(p, status, version, content) ==
  /\ pc' = [pc EXCEPT ![p] = "idle"]
  /\ req' = [req EXCEPT ![p] = None]
  /\ number' = [number EXCEPT ![p] = 0]
  /\ snap' = [snap EXCEPT ![p] = NoSnap]
  /\ answer' = [status |-> status, etag |-> ETag(version), content |-> content]

\* The lock holder's promise settles, either way: the next of the chain runs.
Release(p, status, version) ==
  /\ Answer(p, status, version, None)
  /\ queue' = Tail(queue)

\* Mutant of Granted: no lock, every queued request runs.
GrantedToAll(p, op) == pc[p] = "queued" /\ queue # <<>> /\ req[p].op = op

Granted(p, op) ==
  /\ pc[p] = "queued"
  /\ queue # <<>> /\ Head(queue) = p
  /\ req[p].op = op

Goto(p, label) == pc' = [pc EXCEPT ![p] = label]

----------------------------------------------------------------------------
Init ==
  /\ reps = [ct \in ContentTypes |-> None]
  /\ sidecar = None
  /\ chunks = [i \in ChunkIndexes |-> [stored |-> FALSE, version |-> 0]]
  /\ queue = <<>>
  /\ pc = [p \in Slots |-> "idle"]
  /\ req = [p \in Slots |-> None]
  /\ number = [p \in Slots |-> 0]
  /\ snap = [p \in Slots |-> NoSnap]
  /\ answer = None
  /\ issued = 0
  /\ faults = 0
  /\ acked = [live |-> FALSE, version |-> 0, write |-> 0]
  /\ settled = TRUE
  /\ metaAck = [version |-> 0, custom |-> None]

\* A request reaches the backend.  A mutation joins the chain of the Resource's
\* key (KeyedMutex.run); a read starts at once.
Arrive(p) ==
  /\ pc[p] = "idle"
  /\ issued < MaxRequests
  /\ issued' = issued + 1
  /\ number' = [number EXCEPT ![p] = issued + 1]
  /\ \E r \in Workload :
       /\ req' = [req EXCEPT ![p] = r]
       /\ IF r.op \in {"get", "head"}
            THEN Goto(p, "find") /\ UNCHANGED queue
            ELSE Goto(p, "queued") /\ queue' = Append(queue, p)
  /\ UNCHANGED <<disk, snap, answer, faults, history>>

----------------------------------------------------------------------------
(* writeResource                                                           *)

\* The pre-write snapshot (one listing, one sidecar read) and the precondition
\* it is checked against.
PutBegin(p) ==
  /\ Granted(p, "put")
  /\ IF PreconditionFails(req[p].ifMatch, req[p].ifNoneMatch, Exists, VersionOf(sidecar))
       THEN Release(p, "precondition", 0)
       ELSE /\ snap' = [snap EXCEPT ![p] = [@ EXCEPT !.files = Files, !.prior = sidecar]]
            /\ Goto(p, "content")
            /\ UNCHANGED <<input, queue, answer>>
  /\ UNCHANGED <<disk, issued, faults, history>>

\* Mutant of PutRefused: a rejected critical section leaves the chain stuck.
PutRefusedWedging(p) ==
  /\ pc[p] \in {"content", "chunk"}
  /\ Answer(p, "error", 0, None)
  /\ UNCHANGED <<disk, queue, issued, faults, history>>

\* Refused before any byte of a Resource or a chunk is published: a count or byte
\* quota (507), the upload cap (413), a digest mismatch or an aborted upload.
PutRefused(p) ==
  /\ pc[p] \in {"content", "chunk"}
  /\ Release(p, "error", 0)
  /\ UNCHANGED <<disk, issued, faults, history>>

\* The new representation is renamed into place.
PutContent(p) ==
  /\ pc[p] = "content"
  /\ reps' = [reps EXCEPT ![req[p].type] =
                [write |-> number[p], version |-> NextVersion(snap[p].prior)]]
  /\ Goto(p, "settle")
  /\ settled' = FALSE
  /\ UNCHANGED <<sidecar, chunks, queue, input, snap, answer, issued, faults, acked, metaAck>>

\* Mutant of Stale: no representation is ever pruned.
StaleNever(p) == snap[p].files \ snap[p].files

Stale(p) == snap[p].files \ {req[p].type}

\* One of the representations the snapshot lists under another type is removed.
PutPrune(p) ==
  /\ pc[p] = "settle"
  /\ \E ct \in Stale(p) :
       /\ reps' = [reps EXCEPT ![ct] = None]
       /\ snap' = [snap EXCEPT ![p].files = @ \ {ct}]
  /\ UNCHANGED <<sidecar, chunks, queue, pc, input, answer, issued, faults, history>>

\* The bumped sidecar: creator, metadata counter and `custom` come from the
\* snapshot, the epoch stamp from this write alone.
PutSidecarOf(r, prior) ==
  [version |-> NextVersion(prior),
   metaVersion |-> MetaVersionOf(prior),
   createdBy |-> IF prior = None THEN r.agent ELSE prior.createdBy,
   custom |-> KeptCustom(prior),
   epoch |-> WrittenEpoch(r, prior),
   tombstone |-> None]

\* Mutant of PutSidecar: the ETag is bumped before the old files are pruned.
PutSidecarBeforePrune(p) ==
  /\ pc[p] = "settle"
  /\ sidecar' = PutSidecarOf(req[p], snap[p].prior)
  /\ Goto(p, "reply")
  /\ UNCHANGED <<reps, chunks, queue, input, snap, answer, issued, faults, history>>

PutSidecar(p) ==
  /\ pc[p] = "settle"
  /\ Stale(p) = {}
  /\ sidecar' = PutSidecarOf(req[p], snap[p].prior)
  /\ Goto(p, "reply")
  /\ UNCHANGED <<reps, chunks, queue, input, snap, answer, issued, faults, history>>

PutReply(p) ==
  /\ pc[p] = "reply" /\ req[p].op = "put"
  /\ LET written == PutSidecarOf(req[p], snap[p].prior)
     IN  /\ Release(p, "ok", written.version)
         /\ acked' = [live |-> TRUE, version |-> written.version, write |-> number[p]]
  /\ settled' = TRUE
  /\ UNCHANGED <<disk, issued, faults, metaAck>>

----------------------------------------------------------------------------
(* writeResourceMetadata                                                   *)

MetaBegin(p) ==
  /\ Granted(p, "putMeta")
  /\ IF ~Exists THEN Release(p, "absent", 0)
     ELSE IF MetaPreconditionFails(req[p].ifMatch, req[p].ifNoneMatch, MetaVersionOf(sidecar))
       THEN Release(p, "precondition", 0)
       ELSE /\ snap' = [snap EXCEPT ![p].prior = sidecar]
            /\ Goto(p, "meta")
            /\ UNCHANGED <<input, queue, answer>>
  /\ UNCHANGED <<disk, issued, faults, history>>

\* Mutants of MetaSidecarOf: the missing counter of a Resource without a sidecar
\* is copied as it is; a metadata write bumps the content counter.
MetaSidecarUncounted(r, prior) ==
  [version |-> IF prior = None THEN None ELSE prior.version,
   metaVersion |-> MetaVersionOf(prior) + 1, createdBy |-> KeptCreator(prior),
   custom |-> r.custom, epoch |-> 0, tombstone |-> None]
MetaSidecarBumpingContent(r, prior) ==
  [version |-> NextVersion(prior),
   metaVersion |-> MetaVersionOf(prior) + 1, createdBy |-> KeptCreator(prior),
   custom |-> r.custom, epoch |-> 0, tombstone |-> None]

\* `custom` is replaced, the content counter, the creator and (unless the
\* request declares one) the epoch stamp are kept.
MetaSidecarOf(r, prior) ==
  [version |-> VersionOf(prior),
   metaVersion |-> MetaVersionOf(prior) + 1,
   createdBy |-> KeptCreator(prior),
   custom |-> r.custom,
   epoch |-> IF r.stamp THEN VersionOf(prior) ELSE IF prior = None THEN 0 ELSE prior.epoch,
   tombstone |-> None]

MetaSidecar(p) ==
  /\ pc[p] = "meta"
  /\ sidecar' = MetaSidecarOf(req[p], snap[p].prior)
  /\ Goto(p, "reply")
  /\ UNCHANGED <<reps, chunks, queue, input, snap, answer, issued, faults, history>>

MetaReply(p) ==
  /\ pc[p] = "reply" /\ req[p].op = "putMeta"
  /\ LET written == MetaSidecarOf(req[p], snap[p].prior)
     IN  /\ Release(p, "ok", written.metaVersion)
         /\ metaAck' = [version |-> written.metaVersion, custom |-> req[p].custom]
  /\ UNCHANGED <<disk, issued, faults, acked, settled>>

----------------------------------------------------------------------------
(* deleteResource                                                          *)

\* An absent Resource is a no-op, whatever its sidecar says; otherwise the
\* files to drop and the content type the tombstone will record are listed.
DeleteBegin(p) ==
  /\ Granted(p, "delete")
  /\ IF PreconditionFails(req[p].ifMatch, FALSE, Exists, VersionOf(sidecar))
       THEN Release(p, "precondition", 0)
     ELSE IF ~Exists THEN Release(p, "ok", 0)
     ELSE /\ \E ct \in Files :
               snap' = [snap EXCEPT ![p] = [@ EXCEPT !.files = Files, !.path = ct]]
          /\ Goto(p, "drop")
          /\ UNCHANGED <<input, queue, answer>>
  /\ UNCHANGED <<disk, issued, faults, history>>

DeleteContent(p) ==
  /\ pc[p] = "drop"
  /\ \E ct \in snap[p].files :
       /\ reps' = [reps EXCEPT ![ct] = None]
       /\ snap' = [snap EXCEPT ![p].files = @ \ {ct}]
  /\ settled' = FALSE
  /\ UNCHANGED <<sidecar, chunks, queue, pc, input, answer, issued, faults, acked, metaAck>>

ChunkDirEmpty == \A i \in ChunkIndexes : chunks[i] = [stored |-> FALSE, version |-> 0]

ChunkDirGone == ChunkDirEmpty

\* The recursive removal of the chunk directory, one chunk at a time.
DeleteChunks(p) ==
  /\ pc[p] = "drop" /\ snap[p].files = {}
  /\ \E i \in ChunkIndexes :
       /\ chunks[i] # [stored |-> FALSE, version |-> 0]
       /\ chunks' = [chunks EXCEPT ![i] = [stored |-> FALSE, version |-> 0]]
  /\ UNCHANGED <<reps, sidecar, queue, pc, input, snap, answer, issued, faults, history>>

\* The sidecar is read only now, and replaced by a tombstone that goes on
\* counting and keeps the creator; metadata and stamp go with the content.
TombstoneOf(prior, ct) ==
  [version |-> NextVersion(prior),
   metaVersion |-> 0,
   createdBy |-> KeptCreator(prior),
   custom |-> None,
   epoch |-> 0,
   tombstone |-> ct]

DeleteTombstone(p) ==
  /\ pc[p] = "drop" /\ snap[p].files = {} /\ ChunkDirGone
  /\ sidecar' = TombstoneOf(sidecar, snap[p].path)
  /\ snap' = [snap EXCEPT ![p].prior = sidecar]
  /\ metaAck' = [version |-> 0, custom |-> None]
  /\ Goto(p, "reply")
  /\ UNCHANGED <<reps, chunks, queue, input, answer, issued, faults, acked, settled>>

DeleteReply(p) ==
  /\ pc[p] = "reply" /\ req[p].op = "delete"
  /\ Release(p, "ok", 0)
  /\ acked' = [live |-> FALSE, version |-> TombstoneOf(snap[p].prior, snap[p].path).version, write |-> 0]
  /\ settled' = TRUE
  /\ UNCHANGED <<disk, issued, faults, metaAck>>

----------------------------------------------------------------------------
(* writeChunk and deleteChunk, under the parent Resource's key.  A chunk's *)
(* content type is not distinguished, so its write replaces its file.      *)

PutChunkBegin(p) ==
  /\ Granted(p, "putChunk")
  /\ LET chunk == chunks[req[p].chunk]
     IN  IF ~Exists THEN Release(p, "absent", 0)
         ELSE IF PreconditionFails(req[p].ifMatch, req[p].ifNoneMatch, chunk.stored, chunk.version)
           THEN Release(p, "precondition", 0)
           ELSE Goto(p, "chunk") /\ UNCHANGED <<input, queue, snap, answer>>
  /\ UNCHANGED <<disk, issued, faults, history>>

PutChunkContent(p) ==
  /\ pc[p] = "chunk"
  /\ chunks' = [chunks EXCEPT ![req[p].chunk].stored = TRUE]
  /\ Goto(p, "chunkMeta")
  /\ UNCHANGED <<reps, sidecar, queue, input, snap, answer, issued, faults, history>>

PutChunkSidecar(p) ==
  /\ pc[p] = "chunkMeta" /\ req[p].op = "putChunk"
  /\ chunks' = [chunks EXCEPT ![req[p].chunk].version = @ + 1]
  /\ Goto(p, "reply")
  /\ UNCHANGED <<reps, sidecar, queue, input, snap, answer, issued, faults, history>>

DeleteChunkBegin(p) ==
  /\ Granted(p, "deleteChunk")
  /\ LET chunk == chunks[req[p].chunk]
     IN  IF ~chunk.stored THEN Release(p, "absent", 0)
         ELSE IF PreconditionFails(req[p].ifMatch, FALSE, TRUE, chunk.version)
           THEN Release(p, "precondition", 0)
           ELSE Goto(p, "dropChunk") /\ UNCHANGED <<input, queue, snap, answer>>
  /\ UNCHANGED <<disk, issued, faults, history>>

DeleteChunkContent(p) ==
  /\ pc[p] = "dropChunk"
  /\ chunks' = [chunks EXCEPT ![req[p].chunk].stored = FALSE]
  /\ Goto(p, "chunkMeta")
  /\ UNCHANGED <<reps, sidecar, queue, input, snap, answer, issued, faults, history>>

DeleteChunkSidecar(p) ==
  /\ pc[p] = "chunkMeta" /\ req[p].op = "deleteChunk"
  /\ chunks' = [chunks EXCEPT ![req[p].chunk].version = 0]
  /\ Goto(p, "reply")
  /\ UNCHANGED <<reps, sidecar, queue, input, snap, answer, issued, faults, history>>

ChunkReply(p) ==
  /\ pc[p] = "reply" /\ req[p].op \in {"putChunk", "deleteChunk"}
  /\ Release(p, "ok", chunks[req[p].chunk].version)
  /\ UNCHANGED <<disk, issued, faults, history>>

----------------------------------------------------------------------------
(* getResource and getResourceMetadata (the core of HEAD): no lock.        *)

\* The first representation the directory listing yields, in whatever order.
ReadFind(p) ==
  /\ pc[p] = "find"
  /\ \/ /\ ~Exists
        /\ Answer(p, "absent", 0, None)
     \/ /\ \E ct \in Files : snap' = [snap EXCEPT ![p].path = ct]
        /\ Goto(p, IF req[p].op = "get" THEN "etag" ELSE "stat")
        /\ UNCHANGED <<input, answer>>
  /\ UNCHANGED <<disk, queue, issued, faults, history>>

\* HEAD: the file's size is taken before the sidecar is read.
HeadStat(p) ==
  /\ pc[p] = "stat"
  /\ IF reps[snap[p].path] = None
       THEN Answer(p, "absent", 0, None)
       ELSE /\ snap' = [snap EXCEPT ![p].body = reps[snap[p].path]]
            /\ Goto(p, "etag") /\ UNCHANGED <<input, answer>>
  /\ UNCHANGED <<disk, queue, issued, faults, history>>

HeadSidecar(p) ==
  /\ pc[p] = "etag" /\ req[p].op = "head"
  /\ Answer(p, "ok", VersionOf(sidecar), snap[p].body)
  /\ UNCHANGED <<disk, queue, issued, faults, history>>

GetSidecar(p) ==
  /\ pc[p] = "etag" /\ req[p].op = "get"
  /\ snap' = [snap EXCEPT ![p].prior = sidecar]
  /\ Goto(p, "open")
  /\ UNCHANGED <<disk, queue, input, answer, issued, faults, history>>

\* GET: the file found first is opened last; a vanished one is a plain error.
GetOpen(p) ==
  /\ pc[p] = "open"
  /\ IF reps[snap[p].path] = None
       THEN Answer(p, "error", 0, None)
       ELSE Answer(p, "ok", VersionOf(snap[p].prior), reps[snap[p].path])
  /\ UNCHANGED <<disk, queue, issued, faults, history>>

----------------------------------------------------------------------------
(* Faults.                                                                 *)

\* An I/O error rejects the critical section where it stands.  At "reply" the
\* last rename is done and the fsync of its directory fails.
IoError(p) ==
  /\ Holds(p)
  /\ faults < MaxFaults /\ faults' = faults + 1
  /\ Release(p, "error", 0)
  /\ UNCHANGED <<disk, issued, history>>

\* The process dies and restarts on the same directory.
Crash ==
  /\ faults < MaxFaults /\ faults' = faults + 1
  /\ pc' = [p \in Slots |-> "idle"]
  /\ queue' = <<>>
  /\ req' = [p \in Slots |-> None]
  /\ number' = [p \in Slots |-> 0]
  /\ snap' = [p \in Slots |-> NoSnap]
  /\ answer' = None
  /\ UNCHANGED <<disk, issued, history>>

----------------------------------------------------------------------------
Put(p) == PutBegin(p) \/ PutRefused(p) \/ PutContent(p) \/ PutPrune(p) \/ PutSidecar(p) \/ PutReply(p)
Meta(p) == MetaBegin(p) \/ MetaSidecar(p) \/ MetaReply(p)
Delete(p) == DeleteBegin(p) \/ DeleteContent(p) \/ DeleteChunks(p) \/ DeleteTombstone(p) \/ DeleteReply(p)
Chunk(p) ==
  \/ PutChunkBegin(p) \/ PutChunkContent(p) \/ PutChunkSidecar(p)
  \/ DeleteChunkBegin(p) \/ DeleteChunkContent(p) \/ DeleteChunkSidecar(p)
  \/ ChunkReply(p)
Read(p) == ReadFind(p) \/ HeadStat(p) \/ HeadSidecar(p) \/ GetSidecar(p) \/ GetOpen(p)

Step(p) == Put(p) \/ Meta(p) \/ Delete(p) \/ Chunk(p) \/ Read(p)

\* Every request has been sent and answered: the behaviour may end here.
Finished == issued = MaxRequests /\ (\A p \in Slots : pc[p] = "idle") /\ UNCHANGED vars

Next == Crash \/ Finished \/ \E p \in Slots : Arrive(p) \/ Step(p) \/ IoError(p)

Spec == Init /\ [][Next]_vars

\* The event loop runs every continuation that is ready.
FairSpec == Spec /\ \A p \in Slots : WF_vars(Step(p))

----------------------------------------------------------------------------
(* Properties.                                                             *)

Snap ==
  [files : SUBSET ContentTypes, prior : Sidecar \cup {None},
   path : ContentTypes \cup {None}, body : Content \cup {None}]

StoreTypeOK ==
  /\ reps \in [ContentTypes -> Content \cup {None}]
  /\ sidecar \in Sidecar \cup {None}
  /\ chunks \in [ChunkIndexes -> [stored : BOOLEAN, version : Nat]]

SlotTypeOK ==
  /\ queue \in Seq(Slots)
  /\ pc \in [Slots -> {"idle", "queued"} \cup Locked \cup Reading]
  /\ req \in [Slots -> Request \cup {None}]
  /\ number \in [Slots -> Nat]
  /\ snap \in [Slots -> Snap]

ClientTypeOK ==
  /\ answer \in Reply \cup {None}
  /\ acked \in [live : BOOLEAN, version : Nat, write : Nat]
  /\ settled \in BOOLEAN
  /\ metaAck \in [version : Nat, custom : Customs \cup {None}]

BoundTypeOK == issued \in 0..MaxRequests /\ faults \in 0..MaxFaults

\* Every variable stays within the shapes the handlers build.
TypeOK == StoreTypeOK /\ SlotTypeOK /\ ClientTypeOK /\ BoundTypeOK

\* "Nothing else mutates this Resource while the lock is held"
\* (#writeResourceLocked): the sidecar a mutation read when it began is still
\* the sidecar on disk when it writes its own.
SnapshotIsCurrent ==
  \A p \in Slots : pc[p] \in {"content", "settle", "meta"} => snap[p].prior = sidecar

\* Once a content write or a delete is acknowledged, and until the next one
\* touches the disk, the disk holds exactly what was acknowledged: one
\* representation, of that write and version, or a tombstone of that version
\* with neither content nor chunks.  Faults before or since do not matter.
AckedStateOnDisk ==
  settled =>
    IF acked.live
      THEN /\ sidecar # None /\ sidecar.version = acked.version /\ sidecar.tombstone = None
           /\ \E ct \in ContentTypes :
                /\ Files = {ct}
                /\ reps[ct] = [write |-> acked.write, version |-> acked.version]
      ELSE /\ ~Exists /\ ChunkDirEmpty
           /\ IF acked.version = 0 THEN sidecar = None
              ELSE sidecar # None /\ sidecar.version = acked.version /\ sidecar.tombstone # None

\* A GET never pairs an ETag with content older than the write that ETag names
\* (#readRepresentation takes the ETag before it opens the file, a write
\* publishes and prunes before it bumps the ETag): whoever then updates with
\* that ETag has seen every write up to it.  An answer without the header names
\* no write.
GetServesNoStaleContent ==
  [][\A p \in Slots : GetOpen(p) /\ answer'.status = "ok" /\ answer'.etag # None
       => answer'.content.version >= answer'.etag]_vars

\* A precondition is "evaluated atomically with the write" (types.ts): it still
\* holds in the state in which the content, the metadata or the first file of a
\* delete changes, not only when it was checked.
PreconditionHoldsAtWrite ==
  [][\A p \in Slots :
       /\ PutContent(p) =>
            ~PreconditionFails(req[p].ifMatch, req[p].ifNoneMatch, Exists, VersionOf(sidecar))
       /\ MetaSidecar(p) =>
            ~MetaPreconditionFails(req[p].ifMatch, req[p].ifNoneMatch, MetaVersionOf(sidecar))
       /\ DeleteContent(p) =>
            ~PreconditionFails(req[p].ifMatch, FALSE, Exists, VersionOf(sidecar))]_vars

\* No ETag names two acknowledged mutations of a Resource: across writes,
\* deletes and re-creations, and whatever crashes in between, acknowledged
\* versions only grow.
AckedVersionsIncrease ==
  [][acked' # acked => acked'.version > acked.version]_vars

\* An acknowledged metadata write survives every content write that runs beside
\* or after it: the sidecar holds that write's `custom`, or a later one's.
AckedMetadataKept ==
  metaAck.version > 0 =>
    /\ sidecar # None
    /\ sidecar.metaVersion >= metaAck.version
    /\ sidecar.metaVersion = metaAck.version => sidecar.custom = metaAck.custom

\* "A stale stamp is worse than none": a key-epoch stamp was declared for the
\* content version it is stored with, by its write or by a later metadata write,
\* and (unless a content write is under way, or died after it had renamed its
\* bytes into place) that is the version of the content on disk.
EpochStampIsNotStale ==
  sidecar # None /\ sidecar.epoch # 0 =>
    /\ sidecar.epoch = sidecar.version
    /\ settled => \A ct \in Files : reps[ct].version = sidecar.epoch

DeleteAnswered(p) ==
  pc[p] # "idle" /\ pc'[p] = "idle" /\ req[p].op = "delete" /\ answer' # None /\ answer'.status = "ok"

\* A delete answered with success leaves the tombstone the change feed serves
\* "until clients catch up", and no chunk outlives its parent (deleteResource).
\* It holds without faults; a crash between the steps of a delete breaks it.
DeleteLeavesTombstone ==
  [][\A p \in Slots : DeleteAnswered(p) =>
       /\ sidecar = None \/ sidecar.tombstone # None
       /\ ChunkDirEmpty]_vars

\* The ETag sent with content identifies that content: what the strong validator
\* of metaSidecar.ts ("increments on each subsequent content write") stands for.
\* An answer without the header, as between the first write of a Resource and
\* its sidecar, claims nothing.
EtagIdentifiesContent ==
  answer # None /\ answer.content # None /\ answer.etag # None
    => answer.content.version = answer.etag

\* Whatever fails in a critical section, every request that waits on the key's
\* chain gets its turn and its answer.
EveryRequestAnswered == \A p \in Slots : pc[p] # "idle" ~> pc[p] = "idle"

\* The abstract Resource that a sidecar stands for.
ResourceOf(s) ==
  [live |-> s # None /\ s.tombstone = None,
   version |-> VersionOf(s),
   metaVersion |-> MetaVersionOf(s),
   custom |-> IF s = None THEN None ELSE s.custom,
   createdBy |-> IF s = None THEN None ELSE s.createdBy,
   stamped |-> s # None /\ s.epoch # 0]

Contract == INSTANCE ResourceContract WITH resource <- ResourceOf(sidecar)

\* Without faults the store implements the contract of the StorageBackend: every
\* step of every interleaving is one atomic operation of it, or invisible.
ImplementsContract == Contract!Spec
=============================================================================
