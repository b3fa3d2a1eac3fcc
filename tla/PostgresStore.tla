----------------------------- MODULE PostgresStore -----------------------------
(***************************************************************************)
(* One Resource of the Postgres backend (src/src/backends/postgres.ts),    *)
(* one of its chunks, the Collection that holds it and the Space's usage   *)
(* counter, under concurrent transactions of any number of servers.        *)
(*                                                                         *)
(* Every mutation is one READ COMMITTED transaction.  A statement is one   *)
(* step: it waits until the locks it needs are free, takes them, sees what *)
(* is committed and what its own transaction wrote (View), and adds to the *)
(* latter.  COMMIT publishes all of it at once; locks are held to the end. *)
(* Reads of a Resource are single statements and change nothing; they have *)
(* no action.  The row locks are PostgreSQL's, modelled in two modes: FOR  *)
(* UPDATE, UPDATE, DELETE and an uncommitted INSERT are "exclusive", FOR   *)
(* SHARE and the KEY SHARE of a foreign key check are "shared".            *)
(***************************************************************************)
EXTENDS Integers

CONSTANTS
  Slots,        \* transactions that can be in progress at once
  Agents,       \* DIDs whose capability invocation authorizes a request
  Customs,      \* user-writable `custom` objects
  Sizes,        \* byte lengths of a body
  Capacity,     \* capacityBytes of the Space, or None
  OtherBytes,   \* bytes stored in the Space's other Collections
  SiblingBytes, \* bytes of the Collection's other Resources at the start
  Workload,     \* the requests clients may send
  MaxRequests,  \* bound: requests sent in a behaviour
  None          \* an absent row, column or header

Writes == {"put", "putChunk"}
Bulk == {"deleteCollection", "import"}
Operations == {"put", "putMeta", "delete", "putChunk", "deleteChunk"} \cup Bulk

\* An operation ignores the fields it has no use for.  `claim`: the Collection
\* declares unique attributes.  An import's archive has the Resource, live or a
\* tombstone, with its `version`, and one chunk; both are `size` bytes.
Request ==
  [op : Operations, size : Sizes, ifMatch : Nat \cup {None}, ifNoneMatch : BOOLEAN,
   agent : Agents \cup {None}, stamp : BOOLEAN, custom : Customs \cup {None},
   claim : BOOLEAN, live : BOOLEAN, version : Nat]

\* A `resources` row.  NULL counters are 0.  `stamp`: the epoch column is set.
\* `write` (history) is the number of the request that wrote the content.
Row ==
  [live : BOOLEAN, version : Nat, metaVersion : Nat, custom : Customs \cup {None},
   createdBy : Agents \cup {None}, stamp : BOOLEAN, size : Nat, write : Nat]

\* A `chunks` row; a chunk has no tombstone.
Chunk == [live : {TRUE}, version : Nat, size : Nat]

Database ==
  [collection : BOOLEAN, siblings : Nat, row : Row \cup {None},
   chunk : Chunk \cup {None}, usage : Nat]
Fields == {"collection", "siblings", "row", "chunk", "usage"}

\* Rows, and the advisory locks of the three key domains.
Lockables == {"space", "collection", "row", "chunk", "uniqueness", "createRow", "createChunk"}

ASSUME ConstantsAssumption ==
  /\ MaxRequests \in Nat /\ OtherBytes \in Nat /\ SiblingBytes \in Nat
  /\ Sizes \subseteq Nat
  /\ Capacity \in Nat \cup {None}
  /\ None \notin Nat \cup Agents \cup Customs \cup Row \cup Chunk \cup Request
  /\ Workload \subseteq Request

VARIABLES
  db,      \* what is committed
  locks,   \* per lockable: the transactions that hold it, by mode
  pc,      \* per slot: the statement its transaction is at
  req,     \* per slot: the request
  number,  \* per slot: its number
  txn,     \* per slot: what it read and what it wrote, uncommitted
  answer,  \* the last answer sent
  issued,  \* requests sent so far
  stale    \* history: a bulk operation committed on a reading no longer true

vars == <<db, locks, pc, req, number, txn, answer, issued, stale>>

----------------------------------------------------------------------------
(* Transactions and locks.                                                 *)

NoTxn == [pending |-> <<>>, prior |-> None, delta |-> 0]

View(p) == [field \in Fields |-> IF field \in DOMAIN txn[p].pending THEN txn[p].pending[field]
                                                                 ELSE db[field]]
Wrote(t, field, value) ==
  [t EXCEPT !.pending = [f \in DOMAIN @ \cup {field} |-> IF f = field THEN value ELSE @[f]]]

\* The row a request is about, and the create lock of its identity.
Target(p) == IF req[p].op \in {"putChunk", "deleteChunk"} THEN "chunk" ELSE "row"

\* Mutant of CreateKey: without its prefix, the domain of the uniqueness lock.
UnprefixedKey(p) == "uniqueness"
CreateKey(p) == IF Target(p) = "chunk" THEN "createChunk" ELSE "createRow"

Present(p, field) ==
  IF field = "collection" THEN View(p).collection ELSE View(p)[field] # None
WrittenByOther(p, field) == \E q \in Slots \ {p} : field \in DOMAIN txn[q].pending

\* A locking SELECT, an UPDATE, a DELETE or a foreign key check: on a row that
\* does not exist it locks nothing, and does not wait.
OnExisting(p, field, mode) == IF Present(p, field) THEN {<<field, mode>>} ELSE {}

\* An INSERT: it waits for whoever has inserted or removed the same key, and
\* does not wait when the key is taken for certain.
OnInsert(p, field) ==
  IF Present(p, field) /\ ~WrittenByOther(p, field) THEN {} ELSE {<<field, "exclusive">>}

\* Mutant of ParentMode: the parent of a chunk is read without FOR SHARE.
ParentUnlocked(p) == {}
ParentMode(p) == OnExisting(p, "row", "shared")

\* The locks the statement a transaction is at has to take.
Needs(p) ==
  CASE pc[p] = "ensure"                 -> OnInsert(p, "collection")
    [] pc[p] = "claim"                  -> {<<"uniqueness", "exclusive">>}
    [] pc[p] \in {"lock", "relock"}     -> OnExisting(p, Target(p), "exclusive")
    [] pc[p] = "create"                 -> {<<CreateKey(p), "exclusive">>}
    [] pc[p] \in {"usage", "importLock"} -> {<<"space", "exclusive">>}
    [] pc[p] = "insert"                 -> OnInsert(p, Target(p))
    [] pc[p] = "upsert"                 -> {<<Target(p), "exclusive">>}
    [] pc[p] = "parent"                 -> ParentMode(p)
    [] pc[p] = "fkCollection"           -> OnExisting(p, "collection", "shared")
    [] pc[p] = "fkRow"                  -> OnExisting(p, "row", "shared")
    [] pc[p] = "dropCollection"         -> OnExisting(p, "collection", "exclusive")
    [] pc[p] = "cascade"                -> OnExisting(p, "row", "exclusive")
    [] pc[p] = "dropChunks"             -> OnExisting(p, "chunk", "exclusive")
    [] pc[p] = "restore"                -> OnInsert(p, "row")
    [] pc[p] = "restoreChunk"           -> OnInsert(p, "chunk")
    [] OTHER                            -> {}

\* The transactions that p waits for.
Blockers(p) ==
  UNION {(locks[need[1]].exclusive
          \cup (IF need[2] = "exclusive" THEN locks[need[1]].shared ELSE {})) \ {p} :
         need \in Needs(p)}

At(p, label) == pc[p] = label /\ Blockers(p) = {}

Take(p) ==
  LET needs == Needs(p)
  IN  locks' = [o \in Lockables |-> [m \in {"shared", "exclusive"} |->
                  locks[o][m] \cup (IF <<o, m>> \in needs THEN {p} ELSE {})]]

\* The transaction goes on to its next statement.
Proceed(p, label, t) ==
  /\ Take(p)
  /\ pc' = [pc EXCEPT ![p] = label]
  /\ txn' = [txn EXCEPT ![p] = t]
  /\ UNCHANGED <<db, req, number, answer, issued, stale>>

\* Mutant of Released: ending a transaction leaves its locks behind.
ReleasedNone(p) == locks
Released(p) == [o \in Lockables |-> [m \in {"shared", "exclusive"} |-> locks[o][m] \ {p}]]

End(p, status, version) ==
  /\ locks' = Released(p)
  /\ pc' = [pc EXCEPT ![p] = "idle"]
  /\ req' = [req EXCEPT ![p] = None]
  /\ number' = [number EXCEPT ![p] = 0]
  /\ txn' = [txn EXCEPT ![p] = NoTxn]
  /\ answer' = [status |-> status, version |-> version]
  /\ UNCHANGED issued

\* ROLLBACK, or the COMMIT of a transaction that wrote nothing.
Quit(p, status) == End(p, status, 0) /\ UNCHANGED <<db, stale>>

----------------------------------------------------------------------------
(* Rows.                                                                   *)

Live(t) == t # None /\ t.live
VersionOf(t) == IF t = None THEN 0 ELSE t.version
SizeOf(t) == IF t = None THEN 0 ELSE t.size

\* The Collection's bytes in a state of the database.
Bytes(view) == view.siblings + SizeOf(view.row) + SizeOf(view.chunk)

\* assertWritePrecondition and assertMetaWritePrecondition.
PreconditionFails(ifMatch, ifNoneMatch, exists, version) ==
  IF ifNoneMatch THEN exists
  ELSE ifMatch # None /\ (~exists \/ ifMatch # version)
MetaPreconditionFails(r, metaVersion) ==
  IF r.ifNoneMatch THEN metaVersion # 0
  ELSE r.ifMatch # None /\ r.ifMatch # metaVersion

\* The VALUES of writeResource and of writeChunk when there is no row.
FreshRow(r, n) ==
  [live |-> TRUE, version |-> 1, metaVersion |-> 0, custom |-> None,
   createdBy |-> r.agent, stamp |-> r.stamp, size |-> r.size, write |-> n]
FreshChunk(r) == [live |-> TRUE, version |-> 1, size |-> r.size]

\* Mutant of UpsertedRow: the conflict arm takes the creator from this write.
UpsertedRowReattributed(row, r, n) ==
  [row EXCEPT !.live = TRUE, !.version = @ + 1, !.createdBy = r.agent,
              !.stamp = r.stamp, !.size = r.size, !.write = n]

\* DO UPDATE SET: version from the row itself; creator and metadata stay.
UpsertedRow(row, r, n) ==
  [row EXCEPT !.live = TRUE, !.version = @ + 1, !.stamp = r.stamp,
              !.size = r.size, !.write = n]
UpsertedChunk(chunk, r) == [chunk EXCEPT !.version = @ + 1, !.size = r.size]

MetadataRow(row, r) ==
  [row EXCEPT !.metaVersion = @ + 1, !.custom = r.custom, !.stamp = @ \/ r.stamp]

TombstoneRow(row) ==
  [row EXCEPT !.live = FALSE, !.version = @ + 1, !.metaVersion = 0, !.custom = None,
              !.stamp = FALSE, !.size = 0]

ArchivedRow(r, n) ==
  [live |-> r.live, version |-> r.version,
   metaVersion |-> IF r.custom = None THEN 0 ELSE 1, custom |-> r.custom,
   createdBy |-> r.agent, stamp |-> r.live /\ r.stamp,
   size |-> IF r.live THEN r.size ELSE 0, write |-> n]

----------------------------------------------------------------------------
(* Steps that several operations share.                                    *)

\* Mutant of WriteStatement: create-if-absent as an upsert too.
WriteStatementUpserting(p, t) ==
  CASE req[p].op \in Writes   -> "upsert"
    [] req[p].op = "delete" -> "tombstone"
    [] OTHER                -> "commit"
\* What follows the usage counter: If-None-Match on no row at all is a plain
\* INSERT, so that the primary key decides.
WriteStatement(p, t) ==
  CASE req[p].op \in Writes ->
         IF req[p].ifNoneMatch /\ t.prior = None THEN "insert" ELSE "upsert"
    [] req[p].op = "delete" -> "tombstone"
    [] OTHER                -> "commit"

\* The statement that decides a usage delta is over; a delta of zero skips the
\* counter, and so its lock.
Account(p, t) == Proceed(p, IF t.delta = 0 THEN WriteStatement(p, t) ELSE "usage", t)

\* Mutant of Exceeds: the size of this write is not looked at.
ExceedsAlready(p) == db.usage > Capacity
Exceeds(p) == db.usage + txn[p].delta > Capacity

\* Mutant of AtLeastZero: no GREATEST.
Unclamped(usage) == usage
AtLeastZero(usage) == IF usage < 0 THEN 0 ELSE usage

\* applyUsageDelta: only growth can exceed the capacity; drift stops at zero.
ApplyUsageDelta(p) ==
  /\ At(p, "usage")
  /\ IF txn[p].delta > 0 /\ Capacity # None /\ Exceeds(p)
       THEN Quit(p, "quota")
       ELSE Proceed(p, WriteStatement(p, txn[p]),
                    Wrote(txn[p], "usage", AtLeastZero(db.usage + txn[p].delta)))

\* #ensureCollectionRow: a placeholder when there is none.
EnsureCollection(p) ==
  /\ At(p, "ensure")
  /\ Proceed(p, IF req[p].op = "import" THEN "ids" ELSE IF req[p].claim THEN "claim" ELSE "lock",
             IF Present(p, "collection") THEN txn[p] ELSE Wrote(txn[p], "collection", TRUE))

\* #lockCollectionUniqueness.  The scan it protects is Collection's subject.
LockUniqueness(p) ==
  /\ At(p, "claim")
  /\ Proceed(p, "lock", txn[p])

\* The foreign key check that follows an INSERT.
CheckCollection(p) ==
  /\ At(p, "fkCollection")
  /\ IF Present(p, "collection")
       THEN Proceed(p, IF req[p].op = "import" THEN "probe" ELSE "commit", txn[p])
       ELSE Quit(p, "error")

----------------------------------------------------------------------------
(* writeResource, writeChunk: #lockRowForWrite, precondition, usage, write *)

\* The parent of a chunk, FOR SHARE.
LockParent(p) ==
  /\ At(p, "parent")
  /\ IF Live(db.row) THEN Proceed(p, "lock", txn[p]) ELSE Quit(p, "absent")

CheckedAgainst(p, prior) ==
  IF PreconditionFails(req[p].ifMatch, req[p].ifNoneMatch, Live(prior), VersionOf(prior))
    THEN Quit(p, "precondition")
    ELSE Account(p, [txn[p] EXCEPT !.prior = prior, !.delta = req[p].size - SizeOf(prior)])

\* Mutant of LockForWrite: no row, no lock: the first reading is taken for good.
LockForWriteOnce(p) ==
  /\ At(p, "lock") /\ req[p].op \in Writes
  /\ CheckedAgainst(p, db[Target(p)])

LockForWrite(p) ==
  /\ At(p, "lock") /\ req[p].op \in Writes
  /\ IF db[Target(p)] = None
       THEN Proceed(p, "create", txn[p])
       ELSE CheckedAgainst(p, db[Target(p)])

LockSameKeyCreate(p) ==
  /\ At(p, "create")
  /\ Proceed(p, "relock", txn[p])

RelockForWrite(p) ==
  /\ At(p, "relock")
  /\ CheckedAgainst(p, db[Target(p)])

Fresh(p) == IF Target(p) = "row" THEN FreshRow(req[p], number[p]) ELSE FreshChunk(req[p])
Upserted(p, prior) ==
  IF Target(p) = "row" THEN UpsertedRow(prior, req[p], number[p]) ELSE UpsertedChunk(prior, req[p])

\* A new Resource row has its Collection checked; a new chunk's parent is
\* locked already.
AfterInsert(p) == IF Target(p) = "row" THEN "fkCollection" ELSE "commit"

\* A unique violation is answered like a failed precondition.
Insert(p) ==
  /\ At(p, "insert")
  /\ IF db[Target(p)] # None
       THEN Quit(p, "precondition")
       ELSE Proceed(p, AfterInsert(p), Wrote(txn[p], Target(p), Fresh(p)))

\* ON CONFLICT DO UPDATE sees a row committed since the locking SELECT, too.
Upsert(p) ==
  /\ At(p, "upsert")
  /\ IF db[Target(p)] = None
       THEN Proceed(p, AfterInsert(p), Wrote(txn[p], Target(p), Fresh(p)))
       ELSE Proceed(p, "commit", Wrote(txn[p], Target(p), Upserted(p, db[Target(p)])))

----------------------------------------------------------------------------
(* writeResourceMetadata, deleteResource, deleteChunk                      *)

WriteMetadata(p) ==
  /\ At(p, "lock") /\ req[p].op = "putMeta"
  /\ IF ~Live(db.row) THEN Quit(p, "absent")
     ELSE IF MetaPreconditionFails(req[p], db.row.metaVersion) THEN Quit(p, "precondition")
     ELSE Proceed(p, "commit", Wrote(txn[p], "row", MetadataRow(db.row, req[p])))

LockForDelete(p) ==
  /\ At(p, "lock") /\ req[p].op = "delete"
  /\ IF PreconditionFails(req[p].ifMatch, FALSE, Live(db.row), VersionOf(db.row))
       THEN Quit(p, "precondition")
     ELSE IF ~Live(db.row) THEN Quit(p, "ok")
     ELSE Proceed(p, "dropChunks", [txn[p] EXCEPT !.prior = db.row, !.delta = -db.row.size])

\* DELETE FROM chunks: by deleteResource, which counts what it removed, or the
\* cascade of deleteCollection, which has counted before.
DropChunks(p) ==
  /\ At(p, "dropChunks")
  /\ LET counted == [txn[p] EXCEPT !.delta =
                       @ - (IF req[p].op = "delete" THEN SizeOf(db.chunk) ELSE 0)]
     IN  Account(p, IF db.chunk = None THEN counted ELSE Wrote(counted, "chunk", None))

WriteTombstone(p) ==
  /\ At(p, "tombstone")
  /\ Proceed(p, "commit", Wrote(txn[p], "row", TombstoneRow(db.row)))

DeleteChunk(p) ==
  /\ At(p, "lock") /\ req[p].op = "deleteChunk"
  /\ IF db.chunk = None THEN Quit(p, "absent")
     ELSE IF PreconditionFails(req[p].ifMatch, FALSE, TRUE, db.chunk.version) THEN Quit(p, "precondition")
     ELSE Account(p, Wrote([txn[p] EXCEPT !.delta = -db.chunk.size], "chunk", None))

----------------------------------------------------------------------------
(* deleteCollection                                                        *)

\* The bytes to free are summed without a lock.
SumCollection(p) ==
  /\ At(p, "sum")
  /\ Proceed(p, "dropCollection",
             [txn[p] EXCEPT !.delta = -Bytes(db)])

DropCollection(p) ==
  /\ At(p, "dropCollection")
  /\ IF Present(p, "collection")
       THEN Proceed(p, "cascade", Wrote(Wrote(txn[p], "collection", FALSE), "siblings", 0))
       ELSE Account(p, txn[p])

\* ON DELETE CASCADE, to the Resource and then to its chunks.
Cascade(p) ==
  /\ At(p, "cascade")
  /\ Proceed(p, "dropChunks", IF db.row = None THEN txn[p] ELSE Wrote(txn[p], "row", None))

----------------------------------------------------------------------------
(* importSpace                                                             *)

\* FOR UPDATE of the spaces row, "the natural lock"; the pre-flight counts what
\* will be skipped as well.
LockSpace(p) ==
  /\ At(p, "importLock")
  /\ IF Capacity # None /\ db.usage + (IF req[p].live THEN 2 ELSE 1) * req[p].size > Capacity
       THEN Quit(p, "quota")
       ELSE Proceed(p, IF db.collection THEN "ids" ELSE "ensure", txn[p])

\* The ids the Collection holds, live or tombstone: those are skipped.
ReadIds(p) ==
  /\ At(p, "ids")
  /\ Proceed(p, IF db.row = None THEN "restore" ELSE "probe", txn[p])

\* The whole import fails on an id it did not see.
RestoreResource(p) ==
  /\ At(p, "restore")
  /\ IF db.row # None
       THEN Quit(p, "error")
       ELSE Proceed(p, "fkCollection", Wrote(txn[p], "row", ArchivedRow(req[p], number[p])))

Created(t) ==
  LET sizeIn(field) == IF field \in DOMAIN t.pending THEN t.pending[field].size ELSE 0
  IN  [t EXCEPT !.delta = sizeIn("row") + sizeIn("chunk")]

\* A chunk whose parent is no live Resource is skipped.
ProbeParent(p) ==
  /\ At(p, "probe")
  /\ IF Live(View(p).row) THEN Proceed(p, "restoreChunk", txn[p]) ELSE Account(p, Created(txn[p]))

\* ON CONFLICT DO NOTHING.
RestoreChunk(p) ==
  /\ At(p, "restoreChunk")
  /\ IF db.chunk # None
       THEN Account(p, Created(txn[p]))
       ELSE Proceed(p, "fkRow", Wrote(txn[p], "chunk", [FreshChunk(req[p]) EXCEPT !.version = req[p].version]))

CheckParent(p) ==
  /\ At(p, "fkRow")
  /\ IF Present(p, "row") THEN Account(p, Created(txn[p])) ELSE Quit(p, "error")

----------------------------------------------------------------------------
(* The ends of a transaction.                                              *)

\* Mutant of Reported: the version computed from the locking SELECT.
ReportedFromPrior(p) ==
  CASE req[p].op \in Writes    -> VersionOf(txn[p].prior) + 1
    [] req[p].op = "putMeta" -> View(p).row.metaVersion
    [] OTHER                 -> 0

\* The version reported is the one that landed (RETURNING version).
Reported(p) ==
  CASE req[p].op \in Writes    -> View(p)[Target(p)].version
    [] req[p].op = "putMeta" -> View(p).row.metaVersion
    [] OTHER                 -> 0

\* A write that found no row, and whose upsert will find the one p inserted.
Unaware(q, field) ==
  /\ req[q] # None /\ req[q].op \in Writes /\ Target(q) = field
  /\ pc[q] \in {"usage", "upsert"} /\ txn[q].prior = None

\* What a bulk operation read without locking it has changed: the bytes a
\* deletion summed are not those it removes, or an import creates what another
\* writer does not know of, or a chunk of a Resource deleted since.
Outdated(p) ==
  \/ /\ req[p].op = "deleteCollection"
     /\ txn[p].delta # Bytes(View(p)) - Bytes(db)
  \/ /\ req[p].op = "import"
     /\ \/ \E q \in Slots \ {p}, field \in {"row", "chunk"} \cap DOMAIN txn[p].pending :
             Unaware(q, field)
        \/ "chunk" \in DOMAIN txn[p].pending /\ ~Live(View(p).row)

Commit(p, status) ==
  /\ At(p, "commit")
  /\ db' = View(p)
  /\ stale' = (stale \/ Outdated(p))
  /\ End(p, status, IF status = "ok" THEN Reported(p) ELSE 0)

CommitAnswered(p) == Commit(p, "ok")

\* The connection is lost between the COMMIT and its answer.
CommitLost(p) == Commit(p, "error")

\* A refusal (413, a count quota, a unique conflict), a failed statement, a lost
\* connection or a dead server: at any statement, and without a trace.
Rollback(p) == pc[p] # "idle" /\ Quit(p, "error")

\* Each waits for another of them, and none of fewer would do: a cycle.
Deadlock(D) == D # {} /\ \A p \in D : Blockers(p) \cap D # {}
InCycle(p) ==
  /\ Blockers(p) # {}
  /\ \E D \in SUBSET Slots : p \in D /\ Deadlock(D) /\ \A E \in SUBSET D : Deadlock(E) => E = D

\* PostgreSQL ends a deadlock by failing a transaction of the cycle.
DeadlockVictim(p) == InCycle(p) /\ Quit(p, "error")

----------------------------------------------------------------------------
Init ==
  /\ db = [collection |-> TRUE, siblings |-> SiblingBytes, row |-> None, chunk |-> None,
           usage |-> OtherBytes + SiblingBytes]
  /\ locks = [o \in Lockables |-> [m \in {"shared", "exclusive"} |-> {}]]
  /\ pc = [p \in Slots |-> "idle"]
  /\ req = [p \in Slots |-> None]
  /\ number = [p \in Slots |-> 0]
  /\ txn = [p \in Slots |-> NoTxn]
  /\ answer = None
  /\ issued = 0
  /\ stale = FALSE

\* The first statement of an operation that reads or writes shared rows.
First(r) ==
  CASE r.op = "put"              -> "ensure"
    [] r.op = "putMeta"          -> IF r.claim THEN "claim" ELSE "lock"
    [] r.op = "putChunk"         -> "parent"
    [] r.op = "deleteCollection" -> "sum"
    [] r.op = "import"           -> "importLock"
    [] OTHER                     -> "lock"

\* BEGIN.  The body has been received before.
Arrive(p) ==
  /\ pc[p] = "idle"
  /\ issued < MaxRequests
  /\ issued' = issued + 1
  /\ number' = [number EXCEPT ![p] = issued + 1]
  /\ \E r \in Workload :
       /\ req' = [req EXCEPT ![p] = r]
       /\ pc' = [pc EXCEPT ![p] = First(r)]
  /\ UNCHANGED <<db, locks, txn, answer, stale>>

Statement(p) ==
  \/ EnsureCollection(p) \/ LockUniqueness(p) \/ ApplyUsageDelta(p) \/ CheckCollection(p)
  \/ LockParent(p) \/ LockForWrite(p) \/ LockSameKeyCreate(p) \/ RelockForWrite(p)
  \/ Insert(p) \/ Upsert(p)
  \/ WriteMetadata(p) \/ LockForDelete(p) \/ DropChunks(p) \/ WriteTombstone(p) \/ DeleteChunk(p)
  \/ SumCollection(p) \/ DropCollection(p) \/ Cascade(p)
  \/ LockSpace(p) \/ ReadIds(p) \/ RestoreResource(p)
  \/ ProbeParent(p) \/ RestoreChunk(p) \/ CheckParent(p)

Step(p) == Statement(p) \/ CommitAnswered(p) \/ DeadlockVictim(p)

Finished == issued = MaxRequests /\ (\A p \in Slots : pc[p] = "idle") /\ UNCHANGED vars

Next == Finished \/ \E p \in Slots : Arrive(p) \/ Step(p) \/ CommitLost(p) \/ Rollback(p)

Spec == Init /\ [][Next]_vars

\* A statement whose locks are free is executed; deadlocks are detected.
FairSpec == Spec /\ \A p \in Slots : WF_vars(Step(p))

----------------------------------------------------------------------------
(* Properties.                                                             *)

Labels ==
  {"idle", "ensure", "claim", "lock", "create", "relock", "usage", "insert", "upsert", "parent",
   "fkCollection", "fkRow", "tombstone", "dropChunks", "sum", "dropCollection", "cascade",
   "importLock", "ids", "restore", "probe", "restoreChunk", "commit"}

\* Every variable stays within the shapes the statements build; what is
\* uncommitted has the columns of what it will replace.
TypeOK ==
  /\ db \in Database
  /\ locks \in [Lockables -> [{"shared", "exclusive"} -> SUBSET Slots]]
  /\ pc \in [Slots -> Labels]
  /\ req \in [Slots -> Request \cup {None}]
  /\ number \in [Slots -> Nat]
  /\ \A p \in Slots :
       /\ DOMAIN txn[p] = {"pending", "prior", "delta"}
       /\ View(p) \in Database
       /\ txn[p].prior \in Row \cup Chunk \cup {None}
       /\ txn[p].delta \in Int
  /\ answer = None \/ answer.version \in Nat
  /\ issued \in 0..MaxRequests
  /\ stale \in BOOLEAN

Stored == OtherBytes + Bytes(db)

\* usage_bytes is "maintained in the same transaction as every content write and
\* delete" (postgresSchema.ts): it is what the Space's rows hold.  Imports and
\* Collection deletions that race a write break it.
UsageIsExact == db.usage = Stored

\* The counter is exact, whoever races, rolls back or dies, unless a bulk
\* operation committed on a reading that was no longer true.
UsageExactUnlessStale == ~stale => UsageIsExact

\* "The per-Space capacity is now a hard limit under concurrency" (CHANGELOG.md): what
\* is stored never exceeds it.  Collection deletions that race each other break it:
\* each frees the bytes both had counted (deleteCollection).
CapacityNeverExceeded == Capacity # None => Stored <= Capacity

\* The capacity is hard, unless a bulk operation committed on a reading that was no
\* longer true.
CapacityIsHard == ~stale => CapacityNeverExceeded

\* "So a parent's row is stable for this pass" (importSpace): no chunk stands under a
\* Resource that is not live.  A delete of an empty Resource takes no lock that the
\* import holds, and breaks it.
ChunkHasParent == db.chunk # None => Live(db.row)

\* "A chunk can never be orphaned by a racing deleteResource" (writeChunk): a
\* stored chunk has a live parent.  A chunk that an import restored under a reading of
\* its parent that was no longer true is excepted.
NoOrphanChunk == ~stale => ChunkHasParent

\* A precondition holds of the row that the COMMIT replaces, though it was
\* checked statements before, on a row that may not have existed to be locked.
PreconditionHoldsAtCommit ==
  [][\A p \in Slots : pc[p] = "commit" /\ db' # db =>
       \/ pc'[p] = "commit" \/ req[p].op \in Bulk
       \/ req[p].op = "putMeta" /\ ~MetaPreconditionFails(req[p], db.row.metaVersion)
       \/ /\ req[p].op # "putMeta"
          /\ ~PreconditionFails(req[p].ifMatch, req[p].op \in Writes /\ req[p].ifNoneMatch,
                                Live(db[Target(p)]), VersionOf(db[Target(p)]))]_vars

\* The ETag a PUT is answered with is the version its content got: no other
\* write has it, even one that slipped in behind the locking SELECT.
AnsweredVersionLanded ==
  [][\A p \in Slots : pc[p] = "commit" /\ pc'[p] = "idle" /\ answer'.status = "ok" /\ req[p].op = "put"
       => db'.row.write = number[p] /\ db'.row.version = answer'.version]_vars

\* The order of locks: Resource writes, metadata writes, deletes and chunk
\* requests never block each other for good.  A deadlock has a bulk operation,
\* or a write that found no row and upserts one an import has inserted since.
OnlyBulkDeadlocks ==
  ~stale => \A p \in Slots : InCycle(p) => \E q \in Slots : InCycle(q) /\ req[q].op \in Bulk

\* Every request is answered: what a transaction waits for is released when the
\* other ends, and a deadlock does not last.
EveryRequestAnswered == \A p \in Slots : pc[p] # "idle" ~> pc[p] = "idle"

ResourceOf(row) ==
  [live |-> Live(row), version |-> VersionOf(row),
   metaVersion |-> IF row = None THEN 0 ELSE row.metaVersion,
   custom |-> IF row = None THEN None ELSE row.custom,
   createdBy |-> IF row = None THEN None ELSE row.createdBy,
   stamped |-> row # None /\ row.stamp]

RowContract == INSTANCE ResourceContract WITH resource <- ResourceOf(db.row)

BulkCommit(p) == req[p] # None /\ req[p].op \in Bulk /\ pc[p] = "commit" /\ pc'[p] = "idle"

\* The rows implement the contract of the StorageBackend, faults included: every
\* COMMIT that is not a bulk operation's is one atomic operation of it.
ImplementsContract ==
  /\ RowContract!Init
  /\ [][RowContract!Next \/ \E p \in Slots : BulkCommit(p)]_<<db.row>>
=============================================================================
