# A TLA+ model of was-teaching-server

The server implements Wallet Attached Storage: controllers own Spaces, Spaces
hold Collections, Collections hold Resources (JSON documents or binaries, with
chunks), all over HTTP with capability authorization. This directory holds the
TLA+ modules that model its core, the TLC runs that check them on small
instances and the proofs TLAPS checks for every instance. Paths below are
relative to `src/src/` of the repository.

    tlc -config MCResourceStore_mixed.cfg MCResourceStore     (each run likewise)
    tlapm ResourceStoreProofs.tla                             (about a minute)
    tlapm ResourceStoreContractProofs.tla                     (about a minute)
    tlapm CollectionProofs.tla                                (about a minute)
    tlapm ChangeFeedProofs.tla                                (about a minute)
    tlapm AuthorityProofs.tla                                 (a few minutes)
    tlapm PostgresStoreProofs.tla                             (about a minute)
    tlapm PostgresDeadlockProofs.tla                          (about a minute)
    tlapm SpaceTreeProofs.tla                                 (about 10 minutes)

`PROJECT.json` lists the runs, the source lines of every definition, the hazards
and the findings.

## 1. Inventory

One Node process serves all requests. Nothing runs in parallel, but a handler
gives way at every `await`, so handlers interleave there. What survives a
restart is files (or Postgres rows); locks, caches and exchanges do not.

| part | state | operations | what is hard | what makes it correct |
|---|---|---|---|---|
| Resource store: `backends/filesystem.ts`, `requests/ResourceRequest.ts`, `ChunkRequest.ts`, `lib/metaSidecar.ts`, `preconditions.ts` | per Resource: representation files, `.meta.` sidecar (version, metaVersion, createdBy, custom, epoch, tombstone), chunk directory | PUT, POST, PUT /meta, DELETE, GET, HEAD, chunk PUT and DELETE | an operation is several file operations; reads take no lock; a crash or an I/O error between any two | acknowledged state is on disk; versions never repeat; preconditions atomic with writes; creator, metadata and epoch stamp kept |
| Keyed mutex: `lib/keyedMutex.ts` | a promise chain per key | run | rejection, nesting | mutual exclusion, order, no wedge |
| Durable files: `lib/atomicFile.ts` | temp and final file | write, create, commit | errors before or after the rename | all or nothing |
| Collection description: `requests/CollectionRequest.ts`, `lib/encryption.ts` | name, encryption epochs, indexes, creator, version | PUT, POST, DELETE | checked against a reading made before the lock | epochs append-only; index and encryption exclude each other; If-Match loses nothing |
| Unique claims: `lib/equalityIndex.ts` and the two above | the declaration, all Resources | declare-time scan, write-time check | a scan awaits between files; two locks nest | two checked values never coincide |
| Change feed: `changesSince`, `#queryChanges` | directory, sidecars; at the client a checkpoint | pull | three passes without a lock, wall-clock stamps, ties | a replica converges |
| Spaces: `requests/SpaceRequest.ts`, `SpacesRepositoryRequest.ts`, `controllerConsent.ts`, `provisioning.ts` | description with controller, creator, type | create, update, hand-over, delete | read, verify, write without a lock | only the controller's writes count |
| Caches: `lib/spaceDescriptionCache.ts`, `lib/webvhController.ts` | memoized reads, TTL | read, join, fill, invalidate | a read in flight while invalidated | no stale controller |
| Authorization: `zcap.ts`, `authorize.ts`, `lib/clientAnnexClause.ts`, `requests/spaceContext.ts` | none; reads descriptions, policies, revocations, a controller's DID document | verify a capability, or fall back on a policy | several reads, each stale by the time of the effect | a request takes effect only with an authority that was in force while it ran |
| Access policies: `policy.ts`, `requests/PolicyRequest.ts` | a document per Space, Collection, Resource | put, delete, evaluate | three separate reads | a grant comes from the most specific policy of some moment |
| Keystores, keys, revocations: `requests/KeystoreRequest.ts` ... | configuration with a sequence number, key records, revocation records | create, update, delete, revoke | compare-and-swap, create-only, expiry | a revoked capability stays revoked |
| Postgres backend: `backends/postgres.ts`, `postgresSchema.ts` | rows, a usage counter per Space | all of the above, each mutation one transaction | row locks on absent rows, advisory locks, imports and Collection deletions that lock less, lost COMMIT answers | the same contract; exact usage; a hard capacity; no deadlock |
| Listings and queries: `lib/pagination.ts`, `cursor.ts`, `equalityIndex.ts`, `blindedIndex.ts` | none; a cursor at the client | pages of Collections, Resources, keys, Spaces, matches | each page is a fresh reading; a query reads many files | what stayed is delivered once, what never was is not |
| Export and import: `exportSpace`, `importSpace` of both backends, `lib/importTar.ts`, `exportTar.ts` | an archive at the client | export, import | many reads or writes without a lock; an import must not overwrite | what stayed is in the archive; a restore is a merge |
| Exchanges: `exchanges.ts` | TTL cache | create, answer, poll | expiry against an answer in flight | an accepted answer is delivered |
| Quotas and usage of the filesystem, CORS proxy, plumbing | see `PROJECT.json` | | soft limits | |

Requests meet in five places: the mutex keys (a Resource's, a Collection's
description, a Collection's uniqueness), the files, the Description that a
Resource write reads before it locks, the sidecars and bodies that pulls,
exports and queries read behind the writers' backs, and the two caches that
authorization reads through.

## 2. Modules

| module | models | state and actions |
|---|---|---|
| `ResourceStore` | one Resource of the filesystem backend, and every request on it | `reps`, `sidecar`, `chunks` are the files; `queue` the mutex chain; `pc`, `req`, `snap` the handlers in progress. One action per stretch of code between two awaits that touch shared state: `PutBegin` (snapshot, precondition), `PutContent` (rename), `PutPrune`, `PutSidecar`, `PutReply`, and so on; `IoError` rejects a section where it stands, `Crash` loses all but the files |
| `ResourceContract` | the promises of the `StorageBackend` interface (`types.ts`) about one Resource | one record, three atomic operations |
| `...Proofs` | theorems about `ResourceStore`, `Collection`, `ChangeFeed`, `Authority`, `PostgresStore`, `SpaceTree` | inductive invariants and what follows; `ResourceStoreContractProofs` has what concerns the history of writes and the contract, `PostgresDeadlockProofs` the order of locks |
| `Collection` | a Description and the Resources a unique claim ranges over | `desc`, `items`, one mutex chain per key, `local` (what a handler has read). A Resource's critical section is one step here: `ResourceStore` shows that it may be |
| `ChangeFeed` | `changesSince`, its writers and a replica | `files`, `side`, `writer`; `phase`, `listed`, `found`, `body` of the pull; `replica`, `checkpoint` |
| `PostgresStore` | one Resource of the Postgres backend, a chunk of it, their Collection and the usage counter, under concurrent transactions | `db` is what is committed, `txn` what a transaction has read and written, `locks` who holds what; one action per SQL statement, COMMIT and ROLLBACK. `Needs` says which locks a statement takes, and so who waits for whom |
| `Capabilities` | who may do what with which capability | operators only: chains, attenuation (`Covers`), what a verification accepts (`Verifies`), the clause on annexed clients, effective policies |
| `Authority` | Spaces, keystores, policies, revocations and controllers' logs, behind the two caches, on both backends | `space`, `keystore`, `keys`, `log`, `revs` and `policies` are what is stored, `cache` and `fill` the memoized reads and those under way, `view` what a request has read. `CacheHit`, `CacheMiss`, `CacheJoin`, `CacheFill` are a memoized read; `Authenticate`, `Inspect`, `ReadPolicy`, `DecidePolicy` the decision; then the operation and its invalidations. `Tick` lets entries and capabilities expire, `Restart` empties the caches, `FailLate` fails a write that has landed |
| `Listing` | pages, cursors and the evaluation of queries | operators only |
| `SpaceTree` | a Space as a tree of Collections, Resources, chunks, policies and revocations, under requests that read or write much of it, on both backends | `tree` is what is stored, by path; `archive` the client's last export; `view` what a handler has read and has still to do. On the filesystem one action per file operation (`ExportDir`, `ExportRead`, `QueryRead`, `ImportLook`, `ImportWrite` ...), on Postgres one per query or transaction (`ExportQuery`, `QueryRows`, `ImportRows` ...). `since`, `seen` and `remade` are history |
| `MC...` | instances for TLC | workloads: the requests clients may send |

`ResourceStore` and `PostgresStore` implement `ResourceContract` (property
`ImplementsContract` of each), the former without faults, the latter with them:
the abstract Resource is what the sidecar, or the row, says, so an operation
takes effect when its sidecar is published or its transaction commits. Imports
and Collection deletions are outside the contract's three operations. `Collection`, `ChangeFeed` and
`SpaceTree` use what `ResourceStore` establishes: that mutations of one Resource
exclude each other. `Authority` is built on `Capabilities` and `SpaceTree` on
`Listing`. What a request of `SpaceTree` may do is `Authority`'s subject, and
what two requests do to one Resource `ResourceStore`'s.

Abstractions, where a reader may look for more:

* Bytes are the number of the request that wrote them (`ResourceStore`) or their
  version (`ChangeFeed`). Some variables are history, which the code does not
  store; each is marked where it is declared.
* An absent counter is 0, as the code's `?? 0` has it; an answer of `ResourceStore`
  carries an ETag only of a counter that is there (`ETag`), as the handlers set the header.
* `ResourceStore` has one Resource: different Resources share no key and no
  file. A chunk's content type is not distinguished.
* All refusals for size, quota, digest and aborted upload are one action,
  `PutRefused`, at the place where they leave the disk as it was.
* `ChangeFeed` numbers Resources, because the feed orders them by id. When a
  sidecar is missing, the code's read of it and its `stat` of the file are one
  step. A content file's modification time is that of its publication.
* `PostgresStore` does not model the database's insides: a statement that need
  not wait is atomic, sees committed rows and its transaction's own (READ
  COMMITTED), and row locks have two modes, which is all these statements tell
  apart. Waiters are served in any order. `SiblingBytes` and `OtherBytes` stand
  for the Collection's other Resources and the Space's other Collections, whose
  rows are not locked by these operations. Reads are single statements and have
  no action. An archive holds one Resource and one chunk.
* `Authority`. A tick is both the lifetime of a cache entry and the one-day margin
  a revocation record outlives its capability by; no request spans two ticks, and
  no storage read outlasts a cache entry. The memoization library is external: a
  miss starts one read which later requests join, and the answer of a read that an
  invalidation overtook may or may not be kept, as its versions differ; a failed
  resolution is not kept. Signatures and DID resolution are answers, not
  computations. `FailLate` stands for a write that failed after it landed and for a
  Space's deletion that stopped between its two removals. The removal of a Space's
  directory is one step; `SpaceTree` has it in parts.
* `SpaceTree`. An id is a number and a body an atom. A Resource has one chunk,
  which is its bytes: the version beside them is left out. Ids of Resources differ from
  their Collection's. The pre-write reading of a Resource's directory and the write of
  its content are one step (`ResourceStore` has them apart), as are the reading of
  a Collection's directory and of its chunk directories. An archive is restored
  into the kind of backend that made it, and has passed the checks that come
  before any write. An import is one atomic step on Postgres; its statements are
  in `PostgresStore`. Deletion of keys does not exist, so that the branch of
  List Keys for a key that went is never taken.
* `SpaceTree` has no read errors but absence. On the filesystem the code answers some
  with 200 and less than there is: a Collection's directory that cannot be read is listed
  as empty (`backends/filesystem.ts:1986-1988`), and a file that cannot be read or parsed
  is left out of a query, or counts as one without content (3784-3786, 3919-3921). What
  `ReadsAreExact` says, it says of servers whose reads succeed.
* Power failure (unsynced data lost) is not modelled, only process death.

## 3. Runs

| run | instance | shows |
|---|---|---|
| `resource_mixed` | 3 concurrent requests, 4 in all, 13 different ones; 1 fault anywhere | what clients were told stays true (seven properties) |
| `resource_contract` | 2 concurrent, 3 in all, no fault, fairness | the contract is implemented; all are answered |
| `resource_etag` | as above | *violated*: a read that races an overwrite sends its content under the ETag of the content before |
| `resource_delete` | as above, 1 fault | *violated*: a delete cut by a crash and retried leaves no tombstone |
| `collection_mixed` | 2 concurrent, 4 in all, 11 different ones; 1 crash | the Description's guarantees, unique claims, no deadlock of nested locks |
| `collection_unique` | one request at a time, 7 in all | *violated*: moving a unique claim to another source is not scanned |
| `feed_mixed` | 2 Resources, pages of 1, 3 writes, 2 instants, 1 crash | the replica converges, but for Resources in `late`, `revived` and `torn`; pages end |
| `feed_deletes` | as above, JSON only, no crash | *violated*: a delete that lands during a pull is not delivered |
| `postgres_mixed` | 2 concurrent transactions, 3 in all, 15 different requests with bodies of 0, 1 and 2 bytes; any may roll back anywhere or lose its COMMIT's answer; fairness | the contract holds, faults included; usage, capacity and chunks are right unless a bulk operation went by a stale reading; only bulk operations deadlock; all are answered |
| `postgres_usage` | a PUT and an import | *violated*: the usage counter is left too high |
| `authority_mixed` | 2 concurrent, 3 in all, 18 situations; both backends; 2 ticks; 1 restart or late failure | caches are current after an answer; every effect had an authority that was in force; a revoked capability stays refused; policy grants were effective; the creator changes only where two writers of the Description race on the filesystem |
| `tree_mixed` | 3 slots, 23 situations of 1 to 5 requests; ids up to 3, pages of 1, 2 and 3; both backends; 1 restart or expiry; symmetry of the slots | listings, queries and exports are exact; imports and creates replace only what came after their look; an undisturbed import is the merge of Space and archive |

The five violated properties quote the repository; `PROJECT.json` has the lines.

Why the bounds are enough. Requests on a Resource are serialized, so at any
moment one mutation is in progress and the others wait; a third slot adds a
reader, or a request that is queued behind a failing one. Four requests reach
create, delete, re-create and a conditional request on either, with all races
between neighbours. One fault reaches every half-done operation, and the
following requests every recovery from it. In `Collection` the hazards are
between two handlers with a stale reading each, after one or two that set the
scene; seven requests are needed for the sequential violation. In `ChangeFeed`
two instants give both a tie and an order, and pages of one make every pull stop
between two documents. In `PostgresStore` every hazard is between two
transactions, after at most one that stored something; bodies of three sizes
make an overwrite grow, shrink or skip the counter, and a capacity of 4, of which
2 are taken, is met exactly, exceeded, and exceeded by a growing overwrite.

The situations of `MCAuthority` and `MCSpaceTree` each fix what is stored and
which requests may be sent, in any order and overlap; a hazard there is between a
request with several reads or writes and the one or two that land between them.
In `authority_mixed` two requests give every such pair, and a third the request
that would profit. In `tree_mixed` three slots are needed where an import races a
creation and a deletion of the same Collection, five requests for a backup, the
loss of the Space and its restoration. Three ids, pages of one and a locale's
order that differs from that of code units put a page boundary before, on and
behind every id that comes or goes.

What the exemptions in these properties stand for, each of them needed:
`ExportIsExact` lets Postgres pack an empty body for a row that went between the
query and its body, and the new bytes under the old type's file name for a Resource
that was converted between them: the body is read by the Resource's id alone
(`#resourceContent`), the name comes from the query; `ListingIsExact` lets a Resource whose type changed meanwhile
appear under each type that it had, on end on one page (three when a crash cut one
change of type short and another is under way); `ReplacesOnlyWhatItSaw` leaves out the
metadata and policies that come with what an import creates, and Collections
whose version counter restarted with them (`remade`); `RestoreIsFaithful` speaks
of imports during which nothing else changed, since its racing form is
`ReplacesOnlyWhatItSaw`.

`CreatorIsFixed` lets a filesystem write store the creator of a Description that was
there at some instant of its request, since it reads the prior one before it writes
and locks nothing. Three requests show why: a create that found no Space is still to
write, a second creates the Space, its owner's update reads that Description, the
first create lands with its own creator, and the update restores the second's.
`RevokedStaysRefused` counts a revocation (`acked`) until a pruning that had read an
expired record of that name removes the new one with it, or a deletion of the Space
gets to its revocations, even if it then stops. `AuthorityWasInForce` asks for an
authority in force at some instant of the request, not at its effect: a hand-over that
lands in between may be reverted. `CachesAreCurrent` and it leave out what was overtaken
on its way into a cache (`stale`): whether the library keeps such an answer is not in the
repository. The hazards these leave uncovered are listed in `PROJECT.json` with a note.

What a sidecar says of the content has two forms. `EpochStampIsNotStale` compares the
key-epoch stamp with the sidecar's version at all times, and with the content on disk
when no write of content is under way and none failed half-way: between a crash after
the content's rename and the next write, new bytes stand under the old stamp.

`LostOnlyToLateLanding` names three ways in which a replica may have passed over a
Resource, each needed (without it TLC finds a counterexample). `late`: a sidecar was
published behind the checkpoint while no pull ran, or during the pull that moved the
checkpoint past it, too late for that pull: it had read the sidecar before, or had listed
the Resource as absent, deleted or not JSON.
`revived`: the pull had listed the Resource as live, read its tombstone, and delivered
the deletion as a live document, which `feed_deletes` shows; it ends with the next
write. `torn` is the third: the Resources a crash left between a content file and
its sidecar in a state the feed cannot tell from a settled one: a re-creation over a
tombstone dies before its sidecar, so that a pull reads the tombstone's sidecar for a
document that is there, or a delete then dies before its own. The proof found it; TLC
reaches it with one Resource, a few writes and two crashes. A Resource the pull
delivered as it then was is in none of the three.

`stale` in `PostgresStore` names the case in
which a guarantee is lost, so that the guarantee can be checked in all others:
an import created a row that a writer in progress had found absent, or a chunk of
a Resource deleted since, or a deletion of a Collection freed other bytes than it
had summed. What is lost in that case is `UsageIsExact` (`postgres_usage`), and, as TLC
finds when they are checked as they stand, `CapacityNeverExceeded` and `ChunkHasParent`:
the observations below tell how.

Fairness. `FairSpec` of `PostgresStore` makes each transaction's next statement
weakly fair, COMMIT and the database's deadlock detection included. `FairSpec`
of `ResourceStore` and `Collection` makes every step of a request weakly fair,
in `ChangeFeed` every step of a writer and of the pull.
That is what the event loop does: a settled promise's continuation runs, and
file operations end. It assumes that a client sends its upload or goes away,
and for `FeedDrains` that the replica goes on polling. Faults, refusals' causes
and new requests are never assumed to happen. Where a run's property needs no
fairness the run uses `Spec`.

Behaviours of `ResourceStore`, `Collection` and `PostgresStore` end when all requests are
answered; `Finished` stutters there, so that TLC's deadlock check is on: a
handler that waits for ever is reported. `Authority` and `SpaceTree` stop
when the clients have nothing more to ask, and their runs check no deadlock.

Observations. These follow from the code and happen in the models; the properties of the
passing runs except them by name or do not speak of them, and they have no run of their
own. The first five contradict what the repository says: TLC finds each of them as a
violation when the exemption is taken out of the property.

* Two concurrent creates of a Collection by POST both answer 201, and the second replaces
  the Description of the first ("POST must not replace an existing Collection",
  `requests/SpaceRequest.ts:425`): the look (428-436) and the write (454) are apart.
* Two concurrent creates of one Space id on the filesystem both answer 201, and the
  second replaces the creator that the first recorded ("preserved verbatim afterward",
  `backends/filesystem.ts:838-840`); it may then alternate, by further updates in flight.
* `isRevoked` of the filesystem removes by name a record that it read as expired
  (`backends/filesystem.ts:4587-4590`). If a capability was meanwhile delegated again under
  the old id and revoked, its new record goes with it (records "lapse via `meta.expires`",
  `types.ts:1166-1169`).
* Two deletions of one Collection on Postgres both free the bytes that both had summed
  (`backends/postgres.ts:1308-1329`); the counter is then too low, and later writes exceed
  the capacity ("a hard limit under concurrency", `CHANGELOG.md:706-708`).
* An import on Postgres probes a chunk's parent without a lock ("a parent's row is stable
  for this pass", `backends/postgres.ts:3988`). A delete of a Resource without bytes asks
  for nothing that the import holds, and the chunk is then stored under a tombstone.
* An import takes no Description lock on the filesystem, so that a conditional PUT
  can replace a Description restored after its comparison. It can leave two
  representations of a Resource written meanwhile, replaces the policy of a
  Collection that had no Description, and a repeated import skips a Resource whose
  sidecar the first did not get to write. It checks no unique claims, and keeps
  the archive's `updatedAt`, which a replica's checkpoint may already have passed.
* An export can pair a sidecar with the content of the next version, hold a
  tombstone beside a representation, and, when it races the Space's deletion, lack
  the revocations. On Postgres it packs a Resource that is converted meanwhile as one of
  its old type with its new bytes (`backends/postgres.ts:3521-3527`, 3620-3635), which a
  restore then stores.
* Deleting a Collection restarts its version counter: an If-Match from before the
  deletion can match the successor.
* A query can miss a Resource converted between two JSON types while it reads.
* A write, policy or revocation that was admitted before a Space's deletion and
  lands after it makes the directory, or a row without description, again.
* A write that fails after it landed skips the invalidation of the cache, which
  stays stale until the entry's lifetime ends.

## 4. Proofs

`ResourceStoreProofs` proves, for any number of slots, content types, agents,
chunks, requests and faults and any workload (`ConstantsAssumption` is all that
is assumed):

* `TypeCorrect`: type correctness;
* `SnapshotCurrent`: nothing changes the sidecar between a mutation's reading of
  it and its write;
* `AckedOnDisk`: what was acknowledged is on disk until the next change of content;
* `PreconditionAtWrite`: a precondition holds where the write happens;
* `AckedIncrease`: acknowledged versions only grow.

None is inductive. `IInv` adds: the shape of each handler's locals at each step
(`ShapeInv`); the holder of the lock is the head of the chain (`LockInv`), hence
unique; what the holder may assume of the disk at each step (`ProgressInv`): its
snapshot is current, the files still to prune are those beyond its own, the
sidecar it is about to acknowledge is there; and that the version on disk is at
least the acknowledged one (`AckedInv`), which is what a fault cannot take away.
The argument per step: only the head of the chain writes (`OnlyHolderWrites`), so
other handlers' progress is kept (`OthersProgress`); the holder's own step
establishes what its next one assumes (`PutProgress`, `MetaProgress`,
`DeleteProgress`, `ChunkProgress`); a fault ends the section and with it the
assumptions, and leaves the disk alone.

`CollectionProofs` proves every safety property of `Collection` that its runs
check, but `UniqueOnceDeclared`, which the code does not keep: `TypeCorrect`,
`IndexedOrEncrypted`, `CheckedClaimsHold`, `AppendOnly`, `CreatorKept` and
`NothingLost`. Its `IInv` adds to them the fit of a request to its step
(`ShapeInv`); that the Description is persisted, and a unique claim is scanned for
and written, by the head of the lock's chain (`LockInv`); that a merge was made from
the Description on disk or from one of a lower version, no older than the If-Match,
and that at the write the one re-read under the lock is the one on disk
(`UpdateInv`); and that a scan has seen, or is still to read, every checked value
another Resource holds, so that after it its own is different (`ClaimInv`). A write
without a claim only takes away from what is checked (`ItemAfterChecked`), which is
why it may run beside the scan. The argument per step is `HandlerStep`: a step that
writes neither the Description nor a Resource leaves only its own slot to be shown;
the two writes (`CollectionPersistStep`, `ItemWriteStep`) and the crash are apart.

`ResourceStoreContractProofs` builds on the first module's invariant. `EpochStampCurrent` (with
`StampInv`: what a write of content has done to the stamp and the files at each of its
steps), `MetadataKept` and `FreshReads` need `HistoryInv` besides: a metadata write about to be
answered has its sidecar on disk, no representation is older than the ETag, and no GET
holds an ETag ahead of the one on disk. `StoreImplementsContract` is the refinement, by
steps, for `MaxFaults = 0` (a hypothesis of the theorem): each step that publishes a
sidecar is one operation of `ResourceContract`, every other step a stutter. `LiveInv`
says that the files and the sidecar agree on whether the Resource is there, except
between the first and the last file operation of a write or delete. With a fault the
store does not refine the contract: a delete that dies before its tombstone leaves
content gone that the contract still has.

`ChangeFeedProofs` proves `FeedTypeCorrect`, `NothingElseLost`, `DeliveredCurrent` and
`ReplicaMovesForward` for any number of Resources, any page size, clock and crashes.
Its `IInv`: what each write has done before its sidecar, and that a sidecar describes
the content unless a write is under way or died (`StoreInv`); versions grow on the way
from sidecar to descriptor to replica, and bodies are read after descriptors
(`FlowInv`); a pull does not miss a Resource that stands still while it runs
(`SeenInv`); and what stands still behind the checkpoint is in sync (`SyncInv`).
`SeenInv` follows a Resource through the three passes of a pull to where it is in the
page, behind the checkpoint, or past the page's end; that is what makes the checkpoint
safe to advance. A Resource leaves `landed`, and with it the way into `late`, when the pull
reads its sidecar, so that the theorem speaks of every Resource that the pull delivered.

`AuthorityProofs` proves all six properties of `authority_mixed`, for any scenarios,
requests, capabilities, documents, ticks and faults that `ConstantsAssumption` admits
(requests a route lets through, distinct model values). The parts of its invariants:

* `ShapeInv`: a request fits its step and its view, a cache fill is what its handler
  waits for;
* `CurrentInv` for `CachesCurrent`: what is stored is always current, a cached value or
  one on its way is current or was overtaken, and requests have seen what is current;
* `AuthorityInv` for `AuthorityInForce`: where the controller, the document and the
  key that signed came from;
* `RevInv` for `RevokedRefused`: an acknowledged revocation has a record that outlives
  the capability by a tick, a revocation about to be recorded is of a capability that
  has not expired by more than a tick, and past the inspectors a chain holds no
  revocation acknowledged before the request;
* `PriorInv` for `CreatorFixed`: the Description that a write merges with was stored
  since its request began;
* `PolicyInv` for `PolicyEffective`: the policies a read has collected so far are those
  of one instant (`Instant`), now or before the one change.

Two of these properties, `RevokedStaysRefused` and `CreatorIsFixed`, once said too
much: the attempt to prove them led to counterexamples beyond the former instance,
and the property (or a history variable) was corrected; section 3 says how.

`PostgresStoreProofs` proves, for any number of transactions, any bodies and any
workload, with a rollback or a lost COMMIT answer at any step: `TypeCorrect`,
`UsageStaysExact`, `ChunksHaveParents`, `CapacityHolds` (for a Space whose Collections
start within its capacity, a hypothesis of the theorem: the code does not shrink what an
operator's lower limit finds), `PreconditionsHold`, `AnswersAreTrue` and, for the
refinement of `ResourceContract`, `RowsImplementContract`. `IInv` says of each
transaction (`TxnOk`):

* `Exclusion` and `WriteLocked`: locks exclude, and what is written is behind an
  exclusive lock, so that a COMMIT changes no row that another transaction has written
  (`OthersOk`: nor anything else that it relies on);
* `Booked`: what is written to the counter is the committed counter plus this
  transaction's change, within the capacity;
* `WriteOk`: a PUT that has decided holds the row it read, unchanged, or the lock on
  creating it, and there is still no row; `DeleteOk`, `DropOk`: what is about to be
  deleted is locked, or absent and cannot come; `ImportOk`: what is restored is absent
  and stands under what the import holds.

From these `DeltaIsChange` and `CommitExact` conclude that what a COMMIT publishes
changes the stored bytes by what it books, and `PutLands`, `DeleteLands` and so on which
operation of the contract it is. The refinement holds with faults because nothing but a
COMMIT publishes, in one step. The proof corrected the model twice:
`PreconditionHoldsAtCommit` held a delete to an If-None-Match that `deleteResource` does
not take, which no workload of the runs sends, and two arms of a CASE overlapped.

`PostgresDeadlockProofs` proves `OnlyBulkDeadlocks`, from `IInv` and `LockInv`, which says
that a transaction other than a bulk one holds a lock only for what it has written or
read, at its present statement (`Where`). `Rank` numbers the statements in the order of
their locks: Collection, uniqueness, Resource row, right to create it, chunk row, right to
create that, usage counter. Whoever waits, waits for one of a higher rank
(`WaitsForLater`, one lemma per lock), so that a set in which each waits for another of it
has a bulk operation. Two exceptions to the order need more (`Awaited`): an INSERT may wait
behind its own row's deleter, which goes on to the counter, but then it has booked
nothing and the counter is free; and a create waits at its upsert for no one, since it
has the right to create and there is still no row.

`SpaceTreeProofs` proves, for any number of requests, any starting contents and archive
that `IsScenario` admits, either backend, with crashes:

* `TypesAreKept`: type correctness, and that no two requests hold a Description's lock,
  or a Resource's, at a time. It rests on lemmas on the model's operators: `Turn` and
  `Place` order all paths (`LowerIsAnOrder`, `TurnsDiffer`, `PlacesDiffer`), so that a
  plan is the sequence of what is planned (`PlanIsSorted`); writes and removals leave
  every other file alone (`PutFacts`, `WithoutFacts`, `RestoredFacts`, `InsertedFacts`);
  what an import on Postgres starts with and every entry keeps, the whole import has
  (`ImportKeeps`);
* `ReplacesOnlyWhatWasSeen`: the action property `ReplacesOnlyWhatItSaw`. Its invariant
  (`ReplaceInv`) says of a POST that found no Description that one there now came since
  (`Upserting`); of a PUT about to write that the Description it compared is still the
  one on disk, unless it was removed or restored meanwhile (`Replacing`: here the lock is
  needed, and here an import, which takes none, is the exception); of an import about to
  write that nothing of what it writes is there unless it came since it looked, is a
  revocation, which is never written over, or comes with something new (`Fresh`); and
  that a Description never removed or restored is its first one or has a higher version
  (`DescribedSince`), so that a version names one Description. `ImportSpares` is the same
  for the transaction of Postgres.

* `ReadsStayExact`: the invariant `ReadsAreExact`. What a reader's history
  records comes in steps: files come, go, or are pruned, one set at a time (`Moves`), and
  `HistoryOk` says that what was there all along is there now, and what is there now was
  there at some time.

  For an export `ExportOk`: whatever is packed, or still to be packed, was there at one
  instant, and whatever was there all along is packed or still to come. On the filesystem
  this needs that what is in a Collection is in its directory (`HousedNext`), since the
  walk goes by directories. On Postgres a body is read by the Resource's id
  (`RowContentIs`), and `MayStand` says what it may be.

  For a listing `ListOk`: what was delivered is in the listing's order, may be listed, and
  up to the cursor misses nothing that must be. A page is a window of a sequence that
  rises (`Rising`) from the first item past the cursor (`SeekIsPage`, `KeyPageIsPage`,
  `SpacesPageIsPage`), and joining it to what was delivered keeps all three
  (`PageDelivers`). What a page is made of differs by listing (`KeysServe`, `SpacesServe`,
  `CollectionsServe`, `ItemsServe`, `QueriedServes`); `ReadSoFar` follows a query on the
  filesystem through its directory and its file reads. Keys resume behind the key that
  the cursor names, and this goes forward in the locale's order only because no request
  removes a key (`KeysStay`).

* `RestoresStayFaithful`: the invariant `RestoreIsFaithful`. `Share` says what one entry of
  the plan adds to the tree the import began with: a Description brings its metadata and
  policy, a Resource its sidecar and policy, and each only where nothing is there; of a
  Resource with several representations only the one of least type. `Merging` says that the
  tree is the one before plus the shares of the entries done, but for the files still to be
  written; this is the invariant of an import that nothing disturbed (`Restoring`,
  `RestoreOk`), and with every entry done it is `Merged` (`MergedIsTaken`, `MergedAtEnd`).

  The order of the plan is what makes it inductive. An entry looks at the tree as it is by
  then, not as it was (`WritesItsShare`), and finds its share all the same because what
  comes before it is done (`Ahead`): a second representation finds the first one there and
  is skipped, a tombstone's Resource has no other entry (`ResourceBefore`), and a chunk finds
  its Resource live if it was, or if the archive brought it (`RepresentationAhead`). The
  mutant `PartChunksFirst` breaks exactly this. On the filesystem an entry is a look
  (`LookMerges`) and a write per file (`WriteMerges`); on Postgres it is one step of the
  transaction (`InsertMerges`), and the import a sequence of them (`ImportMerges`).

What `IsScenario` assumes: contents, archive and requests are well typed, stored files
are in their Collections' directories (`Housed`), the archive holds no Collection that is
the Space itself, and a conditional PUT names the first
Description of its Collection, or an older version. The last is a limit of the
statement: a client may also name a Description that another request is still to
write, which a set of requests fixed in advance cannot. What `ListingAssumption` assumes: finitely
many other Spaces, page sizes of at least one, and that no two key ids stand at one place
in the locale's order (they are base58 strings, so none compare equal). Writing the proofs showed that
the order in which an archive is packed was not total for ids of 10 and more; it is
lexicographic now. `ListingIsExact` allowed a Resource twice at most, which a page
of three refutes. And `Merged` promised chunks of Collections that the archive does not
list, which `importSpace` never looks at: no archive in the runs has any.

Only model-checked: liveness (out of TLAPS's reach, as is ENABLED). Every invariant and
every action property that a passing run shows is a theorem.
No module has a RECURSIVE operator, which the prover cannot handle; the one recursion
about which something is proved (`Imported`) is a recursive function, and its induction
is over a set of numbers with its least element (`LeastNumber`, `UpTo`), since the
library's induction theorems cannot be instantiated here.

## 5. Plan

What is left, in this order.

1. The Collection's own metadata sidecar, keystore creation and listing, backend
   records.
2. The filesystem's cached disk scan behind its capacity quota.

Not modelled: signatures, ciphers, digests and DID resolution (external libraries,
taken as answers), tar and YAML encoding, the CORS proxy (forwards one request),
exchanges (a map in memory with a lifetime, unconnected to the storage), usage
reports, routing and configuration. `PROJECT.json` lists every part with its
reason.
