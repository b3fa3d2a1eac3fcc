------------------------------ MODULE ChangeFeed ------------------------------
(***************************************************************************)
(* The replication change feed of one Collection on the filesystem backend *)
(* (FileSystemBackend.changesSince behind POST .../query, profile          *)
(* `changes`), and one replica that pulls it page by page.                 *)
(*                                                                         *)
(* A writer stamps `updatedAt` when it builds the sidecar and publishes    *)
(* the sidecar later; a pull lists the directory, reads the sidecars one   *)
(* by one in any order, and reads the bodies of its page last.  No lock    *)
(* orders a pull with a writer.  Writers of one Resource exclude each      *)
(* other (ResourceStore); writers of different Resources do not.           *)
(***************************************************************************)
EXTENDS Naturals, FiniteSets

CONSTANTS
  Docs,         \* Resource ids, numbers in the order compareCodeUnits gives them
  Operations,   \* what clients may send: a subset of {"json", "binary", "meta", "delete"}
  PageSize,     \* the clamped `limit` of a pull
  MaxRequests,  \* bound: writes sent in a behaviour
  MaxTime,      \* bound: milliseconds the clock advances
  MaxFaults,    \* bound: crashes in a behaviour
  None          \* an absent file, sidecar, field or body

Formats == {"json", "binary"}

\* A content file: which content version it holds, and its modification time.
File == [number : Nat, mtime : Nat]
Sidecar == [version : Nat, metaVersion : Nat, updatedAt : Nat, deleted : BOOLEAN,
            contentType : Formats \cup {None}]
\* A descriptor and, at the replica, the document it became.
Descriptor == [version : Nat, metaVersion : Nat, updatedAt : Nat, deleted : BOOLEAN]
Document == [version : Nat, metaVersion : Nat, deleted : BOOLEAN, data : Nat \cup {None}]
Checkpoint == [at : Nat, id : Nat]

ASSUME ConstantsAssumption ==
  /\ Docs \subseteq Nat \ {0} /\ IsFiniteSet(Docs)
  /\ Operations \subseteq Formats \cup {"meta", "delete"}
  /\ PageSize \in Nat \ {0}
  /\ MaxRequests \in Nat /\ MaxTime \in Nat /\ MaxFaults \in Nat
  /\ None \notin Nat \cup Formats \cup File \cup Sidecar \cup Document \cup Descriptor

VARIABLES
  files,       \* per Resource and format: the content file, or None
  side,        \* per Resource: the `.meta.` sidecar on disk, or None
  writer,      \* per Resource: the write holding its lock
  clock,       \* Date.now(), in milliseconds
  phase,       \* the step the replica's pull is at
  listed,      \* the pull's directory listing: per Resource "live", "dead" or None
  found,       \* the pull's descriptors so far, by Resource
  body,        \* the pull's bodies read so far, by Resource
  replica,     \* the replica: per Resource the last document it applied, or None
  checkpoint,  \* the replica's resume position
  caughtUp,    \* the last answered page was empty
  landed,      \* history: Resources whose sidecar was published during this pull
               \* and that the pull has not taken in since
  late,        \* history: Resources whose sidecar a checkpoint passed without a pull
               \* having taken it in since it was published
  revived,     \* history: Resources whose tombstone was delivered as a live document
  torn,        \* history: Resources of which a write or a delete died after it
               \* changed the content, since the last one that completed
  issued,      \* writes sent so far
  faults       \* crashes so far

storeVars == <<files, side, writer, clock, issued>>
pullVars == <<phase, listed, found, body>>
replicaVars == <<replica, checkpoint, caughtUp>>
vars == <<storeVars, pullVars, replicaVars, landed, late, revived, torn, faults>>

----------------------------------------------------------------------------
(* Order.  A position of the feed is (updatedAt, id).                      *)

Precedes(at1, id1, at2, id2) == at1 < at2 \/ (at1 = at2 /\ id1 < id2)

\* Strictly past a checkpoint.
After(at, id, mark) == Precedes(mark.at, mark.id, at, id)

Live(d) == {f \in Formats : files[d][f] # None}
VersionOf(d) == IF side[d] = None THEN 0 ELSE side[d].version
MetaVersionOf(d) == IF side[d] = None THEN 0 ELSE side[d].metaVersion

\* Mutant of Past: documents of the checkpoint's own instant are skipped.
PastInstant(all) == {d \in DOMAIN all : checkpoint.at < all[d].updatedAt}

\* Mutant of Past: the seek returns to the checkpoint's own document.
PastInclusive(all) ==
  {d \in DOMAIN all : ~Precedes(all[d].updatedAt, d, checkpoint.at, checkpoint.id)}

\* The seek of changesSince, and its slice: the PageSize first descriptors of it.
Past(all) == {d \in DOMAIN all : After(all[d].updatedAt, d, checkpoint)}
Page(all) ==
  LET first(d) == {e \in Past(all) : Precedes(all[e].updatedAt, e, all[d].updatedAt, d)}
  IN [d \in {e \in Past(all) : Cardinality(first(e)) < PageSize} |-> all[d]]

Idle == [pc |-> "idle", op |-> None, stamp |-> 0]
Nothing == [d \in {} |-> None]

----------------------------------------------------------------------------
Init ==
  /\ files = [d \in Docs |-> [f \in Formats |-> None]]
  /\ side = [d \in Docs |-> None]
  /\ writer = [d \in Docs |-> Idle]
  /\ clock = 1
  /\ phase = "idle" /\ listed = Nothing /\ found = Nothing /\ body = Nothing
  /\ replica = [d \in Docs |-> None]
  /\ checkpoint = [at |-> 0, id |-> 0]
  /\ caughtUp = FALSE
  /\ landed = {} /\ late = {} /\ revived = {} /\ torn = {}
  /\ issued = 0 /\ faults = 0

Tick ==
  /\ clock < MaxTime
  /\ clock' = clock + 1
  /\ UNCHANGED <<files, side, writer, issued, pullVars, replicaVars, landed, late, revived, torn, faults>>

----------------------------------------------------------------------------
(* Writers.                                                                *)

WriterGoto(d, next) == writer' = [writer EXCEPT ![d] = next]

\* The writes of one Resource exclude each other, so what a write does before its
\* first visible step cannot be told apart from that step.
Begin(d, next) ==
  /\ writer[d] = Idle
  /\ issued < MaxRequests
  /\ issued' = issued + 1
  /\ WriterGoto(d, next)
  /\ UNCHANGED <<side, clock, pullVars, replicaVars, landed, late, revived, torn, faults>>

\* PUT: atomicWriteFile / commitTempFile publish the representation.
Publish(d, format) ==
  /\ format \in Operations
  /\ Begin(d, [pc |-> "prune", op |-> format, stamp |-> 0])
  /\ files' = [files EXCEPT ![d][format] = [number |-> VersionOf(d) + 1, mtime |-> clock]]

\* PUT /meta changes no content; an absent Resource is refused (404).
Edit(d) ==
  /\ "meta" \in Operations
  /\ Live(d) # {}
  /\ Begin(d, [pc |-> "stamp", op |-> "meta", stamp |-> 0])
  /\ UNCHANGED files

\* DELETE removes every representation and remembers the type of the first; the
\* delete of an absent Resource is a no-op.
Remove(d) ==
  /\ "delete" \in Operations
  /\ \E first \in Live(d) :
       Begin(d, [pc |-> "stamp", stamp |-> 0,
                 op |-> IF first = "json" THEN "deleteJson" ELSE "deleteBinary"])
  /\ files' = [files EXCEPT ![d] = [f \in Formats |-> None]]

\* #pruneStaleRepresentations.
Prune(d) ==
  /\ writer[d].pc = "prune"
  /\ files' = [files EXCEPT ![d] =
       [f \in Formats |-> IF f = writer[d].op THEN files[d][f] ELSE None]]
  /\ WriterGoto(d, [writer[d] EXCEPT !.pc = "stamp"])
  /\ UNCHANGED <<side, clock, issued, pullVars, replicaVars, landed, late, revived, torn, faults>>

\* `now = new Date()`, read before the sidecar is written.
Stamp(d) ==
  /\ writer[d].pc = "stamp"
  /\ WriterGoto(d, [writer[d] EXCEPT !.pc = "sidecar", !.stamp = clock])
  /\ UNCHANGED <<files, side, clock, issued, pullVars, replicaVars, landed, late, revived, torn, faults>>

\* Mutant of SidecarOf: a tombstone starts the version count again.
SidecarRestarting(d) ==
  LET op == writer[d].op IN
  [version |-> CASE op = "meta" -> VersionOf(d)
                 [] op \in Formats -> VersionOf(d) + 1
                 [] OTHER -> 1,
   metaVersion |-> 0, updatedAt |-> writer[d].stamp, deleted |-> op \notin Formats \cup {"meta"},
   contentType |-> None]

\* Mutant of SidecarOf: the deleted representation's type is not recorded.
SidecarUntyped(d) ==
  [version |-> VersionOf(d) + 1, metaVersion |-> 0, updatedAt |-> writer[d].stamp,
   deleted |-> writer[d].op \notin Formats \cup {"meta"}, contentType |-> None]

\* The sidecar each write persists: content writes and deletes count `version`,
\* metadata writes `metaVersion`; a delete drops `metaVersion` with `custom`.
SidecarOf(d) ==
  LET op == writer[d].op
      dead == op \in {"deleteJson", "deleteBinary"} IN
  [version |-> VersionOf(d) + (IF op = "meta" THEN 0 ELSE 1),
   metaVersion |-> IF dead THEN 0 ELSE MetaVersionOf(d) + (IF op = "meta" THEN 1 ELSE 0),
   updatedAt |-> writer[d].stamp,
   deleted |-> dead,
   contentType |-> CASE op = "deleteJson" -> "json"
                     [] op = "deleteBinary" -> "binary"
                     [] OTHER -> None]

\* #writeMetaSidecar publishes the sidecar and the lock is released.
WriteSidecar(d) ==
  /\ writer[d].pc = "sidecar"
  /\ side' = [side EXCEPT ![d] = SidecarOf(d)]
  /\ WriterGoto(d, Idle)
  /\ landed' = IF phase = "idle" THEN landed ELSE landed \cup {d}
  /\ late' = IF After(writer[d].stamp, d, checkpoint) THEN late \ {d} ELSE late \cup {d}
  /\ revived' = revived \ {d}
  /\ torn' = IF writer[d].op = "meta" THEN torn ELSE torn \ {d}
  /\ UNCHANGED <<files, clock, issued, pullVars, replicaVars, faults>>

----------------------------------------------------------------------------
(* The pull.                                                               *)

\* #readDirEntries.  Of two representations of one Resource the later entry wins;
\* a Resource whose winning representation is not JSON is left out.
PullList ==
  /\ phase = "idle"
  /\ \E winner \in [Docs -> Formats \cup {None}] :
       /\ \A d \in Docs : IF Live(d) = {} THEN winner[d] = None ELSE winner[d] \in Live(d)
       /\ listed' = [d \in {e \in Docs : winner[e] = "json" \/ (winner[e] = None /\ side[e] # None)} |->
                       IF winner[d] = "json" THEN "live" ELSE "dead"]
  /\ phase' = IF listed' = Nothing THEN "bodies" ELSE "sidecars"
  /\ found' = Nothing /\ body' = Nothing
  /\ landed' = {}
  /\ UNCHANGED <<storeVars, replicaVars, late, revived, torn, faults>>

\* The descriptor of a listed Resource, from its sidecar as it is now.  A live
\* Resource without a sidecar has version 0 and its file's modification time.
LiveDescriptor(d) ==
  IF side[d] # None
  THEN [version |-> side[d].version, metaVersion |-> side[d].metaVersion,
        updatedAt |-> side[d].updatedAt, deleted |-> FALSE]
  ELSE [version |-> 0, metaVersion |-> 0, updatedAt |-> files[d].json.mtime, deleted |-> FALSE]

Tombstone(d) ==
  [version |-> side[d].version, metaVersion |-> side[d].metaVersion,
   updatedAt |-> side[d].updatedAt, deleted |-> TRUE]

Included(d) ==
  IF listed[d] = "live" THEN side[d] # None \/ files[d].json # None
  ELSE side[d].deleted /\ side[d].contentType = "json"

Without(f, d) == [e \in DOMAIN f \ {d} |-> f[e]]
With(f, d, value) == [e \in DOMAIN f \cup {d} |-> IF e = d THEN value ELSE f[e]]

\* readMetaSidecar of one listed Resource, in any order; after the last one the
\* descriptors are sorted and the page is cut.
PullSidecar(d) ==
  /\ phase = "sidecars"
  /\ d \in DOMAIN listed
  /\ LET all == IF ~Included(d) THEN found
                ELSE With(found, d, IF listed[d] = "live" THEN LiveDescriptor(d) ELSE Tombstone(d))
         last == DOMAIN listed = {d}
     IN /\ found' = IF last THEN Page(all) ELSE all
        /\ phase' = IF last THEN "bodies" ELSE "sidecars"
  /\ listed' = Without(listed, d)
  /\ landed' = IF Included(d) THEN landed \ {d} ELSE landed
  /\ UNCHANGED <<storeVars, replicaVars, body, late, revived, torn, faults>>

\* A tombstone has no body; a live document's file is read now, and may be gone.
PullBody(d) ==
  /\ phase = "bodies"
  /\ d \in DOMAIN found \ DOMAIN body
  /\ body' = With(body, d, IF found[d].deleted \/ files[d].json = None THEN None
                           ELSE files[d].json.number)
  /\ UNCHANGED <<storeVars, replicaVars, phase, listed, found, landed, late, revived, torn, faults>>

\* Mutant of Delivered: the version is read again when the page is answered.
DeliveredRelabelled(d) ==
  [version |-> VersionOf(d), metaVersion |-> found[d].metaVersion,
   deleted |-> found[d].deleted, data |-> body[d]]

\* A feed document: the descriptor and the body.
Delivered(d) ==
  [version |-> found[d].version, metaVersion |-> found[d].metaVersion,
   deleted |-> found[d].deleted, data |-> body[d]]

\* The Resources of S whose sidecar is not past the checkpoint.
Behind(S, mark) == {d \in S : side[d] # None /\ ~After(side[d].updatedAt, d, mark)}

\* The Resources of the page whose tombstone the pull took for the sidecar of a
\* live document.
Risen ==
  {d \in DOMAIN found : /\ side[d] # None /\ side[d].deleted /\ ~found[d].deleted
                        /\ found[d].version = side[d].version}

\* The page is answered; the replica applies it and keeps the checkpoint of its
\* last document (an empty page has none).
PullReply ==
  /\ phase = "bodies"
  /\ DOMAIN body = DOMAIN found
  /\ phase' = "idle" /\ listed' = Nothing /\ found' = Nothing /\ body' = Nothing
  /\ replica' = [d \in Docs |->
       IF d \in DOMAIN found THEN Delivered(d) ELSE replica[d]]
  /\ \/ DOMAIN found = {} /\ UNCHANGED checkpoint
     \/ \E last \in DOMAIN found :
          /\ \A d \in DOMAIN found \ {last} :
               Precedes(found[d].updatedAt, d, found[last].updatedAt, last)
          /\ checkpoint' = [at |-> found[last].updatedAt, id |-> last]
  /\ caughtUp' = (DOMAIN found = {})
  /\ late' = late \cup Behind(landed, checkpoint')
  /\ revived' = (revived \ DOMAIN found) \cup Risen
  /\ landed' = {}
  /\ UNCHANGED <<storeVars, torn, faults>>

\* The server restarts: writes die where they are, and a pull is not answered (with
\* no write in progress that changes nothing but the pull, which asks again).
Crash ==
  /\ faults < MaxFaults
  /\ \E d \in Docs : writer[d] # Idle
  /\ faults' = faults + 1
  /\ writer' = [d \in Docs |-> Idle]
  /\ phase' = "idle" /\ listed' = Nothing /\ found' = Nothing /\ body' = Nothing
  /\ landed' = {}
  /\ torn' = torn \cup {d \in Docs : writer[d].pc # "idle" /\ writer[d].op # "meta"}
  /\ UNCHANGED <<files, side, clock, issued, replicaVars, late, revived>>

Request(d) == (\E format \in Formats : Publish(d, format)) \/ Edit(d) \/ Remove(d)
Write(d) == Prune(d) \/ Stamp(d) \/ WriteSidecar(d)
Pull == PullList \/ PullReply \/ \E d \in Docs : PullSidecar(d) \/ PullBody(d)

Next ==
  \/ Tick
  \/ \E d \in Docs : Request(d) \/ Write(d)
  \/ Pull
  \/ Crash

Spec == Init /\ [][Next]_vars

\* The event loop runs every ready continuation; the replica keeps polling.
Fairness == (\A d \in Docs : WF_vars(Write(d))) /\ WF_vars(Pull)
FairSpec == Spec /\ Fairness

----------------------------------------------------------------------------
(* Properties.                                                             *)

\* Every variable has its type: files, sidecars, the pull's progress, the
\* documents the replica applied, the checkpoint and the history variables; a
\* sidecar records a content type exactly when it is a tombstone (metaSidecar.ts:43).
TypeOK ==
  /\ files \in [Docs -> [Formats -> File \cup {None}]]
  /\ side \in [Docs -> Sidecar \cup {None}]
  /\ \A d \in Docs : side[d] # None => (side[d].deleted <=> side[d].contentType # None)
  /\ writer \in [Docs -> [pc : {"idle", "prune", "stamp", "sidecar"},
                          op : Formats \cup {"meta", "deleteJson", "deleteBinary", None},
                          stamp : Nat]]
  /\ phase \in {"idle", "sidecars", "bodies"}
  /\ \A d \in DOMAIN found : d \in Docs /\ found[d] \in Descriptor
  /\ \A d \in DOMAIN body : d \in DOMAIN found /\ body[d] \in Nat \cup {None}
  /\ replica \in [Docs -> Document \cup {None}]
  /\ checkpoint \in Checkpoint
  /\ clock \in Nat /\ issued \in Nat /\ faults \in Nat /\ caughtUp \in BOOLEAN
  /\ late \subseteq Docs /\ landed \subseteq Docs /\ revived \subseteq Docs /\ torn \subseteq Docs

\* The sidecar on disk describes the content on disk and no write is in progress
\* (neither holds for ever after a crash between the two).
Settled(d) ==
  /\ writer[d] = Idle
  /\ side[d] # None
  /\ side[d].deleted = (Live(d) = {})
  /\ \A f \in Live(d) : files[d][f].number = side[d].version

InFeed(d) ==
  \/ Live(d) = {"json"}
  \/ Live(d) = {} /\ side[d].contentType = "json"

InSync(d) ==
  /\ replica[d] # None
  /\ replica[d].version = side[d].version
  /\ replica[d].metaVersion = side[d].metaVersion
  /\ replica[d].deleted = side[d].deleted
  /\ replica[d].data = IF side[d].deleted THEN None ELSE side[d].version

\* Whatever the interleaving, a JSON Resource behind the checkpoint is in sync at
\* the replica: same version, same metadata, same content.  There are three
\* exceptions.  Late: its sidecar was published behind the checkpoint, or during
\* the pull that moved the checkpoint past it and too late for that pull, which
\* had read the sidecar before, or had listed the Resource as absent, deleted or
\* not JSON.  Revived: it was listed as live and deleted before its sidecar was
\* read, so that the tombstone was delivered as a live document
\* (DeleteReplicates).  Torn: a write of it died after it had changed the content;
\* a tombstone that a re-creation covered and a delete uncovered, both of which
\* died before their sidecar, was hidden from the pulls in between.
LostOnlyToLateLanding ==
  \A d \in Docs \ (late \cup revived \cup torn) :
    phase = "idle" /\ Settled(d) /\ InFeed(d) /\ ~After(side[d].updatedAt, d, checkpoint)
    => InSync(d)

\* A document is never delivered with content older than the version it is
\* labelled with (changesSince reads the sidecar first and the body last, a
\* writer publishes the content first and the sidecar last).
DeliveredContentIsCurrent ==
  \A d \in Docs : replica[d] # None /\ replica[d].data # None
                  => replica[d].data >= replica[d].version

\* What the replica holds of a Resource never goes back to an older version,
\* through deletes, re-creation, changes of format and crashes.
ReplicaVersionsIncrease ==
  [][\A d \in Docs : replica[d] # None => replica'[d].version >= replica[d].version]_replica

\* Once writes stop, paging reaches an empty page and stays there.
FeedDrains == <>[]caughtUp

\* types.ts:926-928: "A tombstone (soft-deleted Resource) is surfaced with
\* `deleted: true` [...] so the delete replicates until clients catch up".
DeleteReplicates ==
  \A d \in Docs :
    /\ phase = "idle" /\ caughtUp /\ \A e \in Docs : Settled(e)
    /\ side[d].deleted /\ side[d].updatedAt < checkpoint.at
    /\ replica[d] # None
    => replica[d].deleted
=============================================================================
