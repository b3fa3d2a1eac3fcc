------------------------------ MODULE Collection ------------------------------
(***************************************************************************)
(* One Collection: its Description (name, encryption descriptor, index     *)
(* declaration), updated by PUT requests that read it, check a request     *)
(* against it and replace it whole; and the Resources stored in it, whose  *)
(* writes must respect a `unique: true` claim of the Description.          *)
(*                                                                         *)
(* requests/CollectionRequest.ts and ResourceRequest.ts read the           *)
(* Description first and act on that reading several awaits later.  The    *)
(* backend serializes Description writes under one KeyedMutex key, writes  *)
(* that carry a unique claim under a second, and all mutations of one      *)
(* Resource under a third, nested inside the second.                       *)
(*                                                                         *)
(* A Resource is the value its indexed attribute has in its content and in *)
(* its `custom` metadata.  How it is written to disk is ResourceStore's    *)
(* subject, so its critical section is one step here.                      *)
(***************************************************************************)
EXTENDS Naturals, Sequences

CONSTANTS
  Slots,        \* requests that can be in progress at once
  Items,        \* ids of the Resources
  Values,       \* values of the indexed attribute
  Names,        \* names of the Collection (any freely updatable field)
  Epochs,       \* ids of encryption key epochs
  Agents,       \* DIDs whose capability invocation authorizes a request
  Workload,     \* the requests clients may send
  MaxRequests,  \* bound: requests sent in a behaviour
  MaxFaults,    \* bound: crashes in a behaviour
  None          \* an absent field, file or header

Sources == {"content", "custom"}

\* The id-to-keys list of key epochs, and the one new content is written under.
Encryption == [epochs : SUBSET Epochs, current : Epochs \cup {None}]

\* `indexes` is the source the attribute is declared unique in, or None when
\* the attribute is not declared unique.
Description ==
  [name : Names \cup {None}, encryption : Encryption \cup {None},
   indexes : Sources \cup {None}, createdBy : Agents, version : Nat]

\* A request; `name`, `encryption` and `indexes` None are absent from the body,
\* and indexes "cleared" is the empty declaration.
Request ==
  [op : {"putCollection", "putItem", "putMeta", "deleteItem"},
   name : Names \cup {None}, encryption : Encryption \cup {None},
   indexes : Sources \cup {"cleared", None}, conditional : BOOLEAN, agent : Agents,
   item : Items, value : Values]

\* `checked` (history, not stored): the sources whose value here was written by
\* a request that enforced a unique claim on that source.
Item == [content : Values, custom : Values \cup {None}, checked : SUBSET Sources]

ASSUME ConstantsAssumption ==
  /\ MaxRequests \in Nat
  /\ MaxFaults \in Nat
  /\ {"desc", "unique"} \cap Items = {}
  /\ None \notin Nat \cup Names \cup Values \cup Epochs \cup Agents \cup Sources \cup {"cleared"}
  /\ None \notin Encryption \cup Description \cup Request \cup Item
  /\ Workload \subseteq Request

VARIABLES
  desc,    \* the Description on disk, or None
  items,   \* the Resources on disk
  queue,   \* per lock: the KeyedMutex chain of its key; its head runs
  pc,      \* per slot: the step its request is at
  req,     \* per slot: the request
  local,   \* per slot: what its handler has read so far
  issued,  \* requests sent so far
  faults   \* crashes so far

vars == <<desc, items, queue, pc, req, local, issued, faults>>

Locks == {"desc", "unique"} \cup Items

NoLocal ==
  [etag |-> None, base |-> None, prior |-> None, claim |-> None,
   own |-> None, list |-> {}, seen |-> {}]

----------------------------------------------------------------------------
(* Helpers.                                                                *)

VersionOf(d) == IF d = None THEN 0 ELSE d.version
EncryptionOf(d) == IF d = None THEN None ELSE d.encryption
IndexesOf(d) == IF d = None THEN None ELSE d.indexes

\* assertEncryptionDescriptorTransition: set once; epochs are append-only; the
\* current epoch moves only to a newly appended one.
TransitionFails(existing, incoming) ==
  /\ existing # None
  /\ \/ incoming = None
     \/ ~(existing.epochs \subseteq incoming.epochs)
     \/ incoming.current # existing.current /\ incoming.current \in existing.epochs

\* The description to be persisted: what was read, overwritten by the fields the
\* request supplies.
Merged(base, r) ==
  [name |-> IF r.name # None THEN r.name ELSE IF base = None THEN None ELSE base.name,
   encryption |-> IF r.encryption # None THEN r.encryption ELSE EncryptionOf(base),
   indexes |-> CASE r.indexes = None -> IndexesOf(base)
                 [] r.indexes = "cleared" -> None
                 [] OTHER -> r.indexes]

\* Mutant of IndexedAndEncrypted: only the fields the request supplies are looked at.
SuppliedTogether(base, r) == r.indexes \in Sources /\ r.encryption # None

\* assertIndexesNotEncrypted, on the merged description.
IndexedAndEncrypted(base, r) ==
  Merged(base, r).indexes # None /\ Merged(base, r).encryption # None

\* newlyUniqueDeclarations compares names of attributes, not their sources.
NewlyUnique(base, r) == Merged(base, r).indexes # None /\ IndexesOf(base) = None

Joins(p, lock) == queue' = [queue EXCEPT ![lock] = Append(@, p)]
Runs(p, lock) == queue[lock] # <<>> /\ Head(queue[lock]) = p

Goto(p, label) == pc' = [pc EXCEPT ![p] = label]

\* The handler is over, with an answer or a refusal.
Done(p) ==
  /\ Goto(p, "idle")
  /\ req' = [req EXCEPT ![p] = None]
  /\ local' = [local EXCEPT ![p] = NoLocal]

\* Mutant of Releases: a rejected critical section keeps its lock.
KeepsLock(p) == queue

\* Every lock the request runs under passes to the next of its chain.
Releases(p) ==
  [lock \in Locks |-> IF queue[lock] # <<>> /\ Head(queue[lock]) = p THEN Tail(queue[lock]) ELSE queue[lock]]

Refuse(p) == Done(p) /\ queue' = Releases(p)

----------------------------------------------------------------------------
Init ==
  /\ desc = None
  /\ items = [i \in Items |-> None]
  /\ queue = [lock \in Locks |-> <<>>]
  /\ pc = [p \in Slots |-> "idle"]
  /\ req = [p \in Slots |-> None]
  /\ local = [p \in Slots |-> NoLocal]
  /\ issued = 0
  /\ faults = 0

\* A client sends a request.  If-Match names a version it can have learned: one
\* that the Description has or had.
Arrive(p) ==
  /\ pc[p] = "idle"
  /\ issued < MaxRequests /\ issued' = issued + 1
  /\ \E r \in Workload :
       /\ req' = [req EXCEPT ![p] = r]
       /\ IF r.conditional
            THEN \E v \in 1..VersionOf(desc) : local' = [local EXCEPT ![p].etag = v]
            ELSE UNCHANGED local
  /\ Goto(p, "read")
  /\ UNCHANGED <<desc, items, queue, faults>>

----------------------------------------------------------------------------
(* PUT of the Collection Description.                                      *)

\* The Description is read; the supplied descriptor and the merge are checked
\* against that reading, and a new unique claim leads to a scan.
CollectionRead(p) ==
  /\ pc[p] = "read" /\ req[p].op = "putCollection"
  /\ LET r == req[p]
     IN  IF \/ r.encryption # None /\ TransitionFails(EncryptionOf(desc), r.encryption)
            \/ IndexedAndEncrypted(desc, r)
           THEN Refuse(p)
           ELSE /\ local' = [local EXCEPT ![p].base = desc, ![p].claim = Merged(desc, r).indexes]
                /\ IF NewlyUnique(desc, r)
                     THEN Goto(p, "list") /\ UNCHANGED queue
                     ELSE Goto(p, "waitDesc") /\ Joins(p, "desc")
                /\ UNCHANGED req
  /\ UNCHANGED <<desc, items, issued, faults>>

\* Mutants of the two checks made under the lock: they look at the reading the
\* handler started from.
StalePreconditionFails(p) == local[p].etag # None /\ local[p].etag # VersionOf(local[p].base)
StaleTransitionFails(p) ==
  TransitionFails(EncryptionOf(local[p].base), Merged(local[p].base, req[p]).encryption)

CollectionPreconditionFails(p) == local[p].etag # None /\ local[p].etag # VersionOf(desc)
CollectionTransitionFails(p) ==
  TransitionFails(EncryptionOf(desc), Merged(local[p].base, req[p]).encryption)

\* writeCollection: the prior is read again under the lock.
CollectionLocked(p) ==
  /\ pc[p] = "waitDesc" /\ Runs(p, "desc")
  /\ IF CollectionPreconditionFails(p) \/ CollectionTransitionFails(p)
       THEN Refuse(p)
       ELSE /\ local' = [local EXCEPT ![p].prior = desc]
            /\ Goto(p, "persist")
            /\ UNCHANGED <<req, queue>>
  /\ UNCHANGED <<desc, items, issued, faults>>

\* Mutants of Replacement: a new Collection records no creator; the creator is
\* whoever writes.
ReplacementUnattributed(base, prior, r) ==
  LET merged == Merged(base, r)
  IN  [name |-> merged.name, encryption |-> merged.encryption, indexes |-> merged.indexes,
       createdBy |-> IF prior = None THEN None ELSE prior.createdBy,
       version |-> VersionOf(prior) + 1]
ReplacementByWriter(base, prior, r) ==
  LET merged == Merged(base, r)
  IN  [name |-> merged.name, encryption |-> merged.encryption, indexes |-> merged.indexes,
       createdBy |-> r.agent, version |-> VersionOf(prior) + 1]

\* The whole Description is replaced by the merge made from the first reading;
\* its creator and its version come from the second.
Replacement(base, prior, r) ==
  LET merged == Merged(base, r)
  IN  [name |-> merged.name, encryption |-> merged.encryption, indexes |-> merged.indexes,
       createdBy |-> IF prior = None THEN r.agent ELSE prior.createdBy,
       version |-> VersionOf(prior) + 1]

CollectionPersist(p) ==
  /\ pc[p] = "persist"
  /\ desc' = Replacement(local[p].base, local[p].prior, req[p])
  /\ Done(p) /\ queue' = Releases(p)
  /\ UNCHANGED <<items, issued, faults>>

----------------------------------------------------------------------------
(* Writes and deletes of a Resource.                                       *)

\* A write takes the unique claims from the Description it reads now.
ItemRead(p) ==
  /\ pc[p] = "read" /\ req[p].op \in {"putItem", "putMeta", "deleteItem"}
  /\ IF desc = None THEN Refuse(p)
     ELSE LET claim == IF req[p].op = "deleteItem" THEN None ELSE desc.indexes
              lock == IF claim = None THEN req[p].item ELSE "unique"
          IN  /\ local' = [local EXCEPT ![p].claim = claim]
              /\ Joins(p, lock)
              /\ Goto(p, IF claim = None THEN "waitItem" ELSE "waitUnique")
              /\ UNCHANGED req
  /\ UNCHANGED <<desc, items, issued, faults>>

\* The written Resource's own value of the claimed attribute: the request's, or
\* the stored one when the claim is on the half the request does not write.
OwnTerm(p) ==
  LET r == req[p]
  IN  IF (r.op = "putItem") = (local[p].claim = "content") THEN r.value
      ELSE IF items[r.item] = None THEN None ELSE items[r.item][local[p].claim]

\* Mutant of Granted: a claim is checked without the Collection's lock.
GrantedAtOnce(p) == pc[p] = "waitUnique"
Granted(p) == pc[p] = "waitUnique" /\ Runs(p, "unique")

\* A metadata write reads its own content before it looks at the others.
UniqueLocked(p) ==
  /\ Granted(p)
  /\ local' = [local EXCEPT ![p].own = IF req[p].op = "putMeta" THEN OwnTerm(p) ELSE None]
  /\ Goto(p, "list")
  /\ UNCHANGED <<desc, items, queue, req, issued, faults>>

\* #readEqualityCandidates: one listing, then every file of it in any order.
ScanList(p) ==
  /\ pc[p] = "list"
  /\ LET own == IF req[p].op = "putCollection" THEN {} ELSE {req[p].item}
     IN  local' = [local EXCEPT ![p].list = {i \in Items : items[i] # None} \ own]
  /\ Goto(p, "scan")
  /\ UNCHANGED <<desc, items, queue, req, issued, faults>>

ScanRead(p) ==
  /\ pc[p] = "scan"
  /\ \E i \in local[p].list :
       LET held == IF items[i] = None THEN None ELSE items[i][local[p].claim]
       IN  local' = [local EXCEPT ![p].list = @ \ {i},
                                  ![p].seen = IF held = None THEN @ ELSE @ \cup {<<i, held>>}]
  /\ UNCHANGED <<desc, items, queue, pc, req, issued, faults>>

\* findEqualityUniqueViolation, for a Description that adds the claim.
CollectionScanned(p) ==
  /\ pc[p] = "scan" /\ local[p].list = {} /\ req[p].op = "putCollection"
  /\ IF \E a, b \in local[p].seen : a[1] # b[1] /\ a[2] = b[2]
       THEN Refuse(p)
       ELSE /\ Goto(p, "waitDesc") /\ Joins(p, "desc")
            /\ UNCHANGED <<req, local>>
  /\ UNCHANGED <<desc, items, issued, faults>>

\* assertNoUniqueEqualityConflict, for a write that enforces the claim.
ItemScanned(p) ==
  /\ pc[p] = "scan" /\ local[p].list = {} /\ req[p].op # "putCollection"
  /\ LET own == IF req[p].op = "putItem" THEN OwnTerm(p) ELSE local[p].own
     IN  IF \E a \in local[p].seen : a[2] = own
           THEN Refuse(p)
           ELSE /\ Goto(p, "waitItem") /\ Joins(p, req[p].item)
                /\ UNCHANGED <<req, local>>
  /\ UNCHANGED <<desc, items, issued, faults>>

\* The Resource under its lock: written, annotated (if it is there) or deleted.
ItemAfter(p) ==
  LET r == req[p]
      old == items[r.item]
      half == IF r.op = "putItem" THEN "content" ELSE "custom"
      checked == (IF old = None THEN {} ELSE old.checked \ {half}) \cup ({local[p].claim} \cap {half})
  IN  CASE r.op = "deleteItem" -> None
        [] r.op = "putItem" ->
             [content |-> r.value, custom |-> IF old = None THEN None ELSE old.custom, checked |-> checked]
        [] r.op = "putMeta" ->
             IF old = None THEN None ELSE [old EXCEPT !.custom = r.value, !.checked = checked]

ItemWrite(p) ==
  /\ pc[p] = "waitItem" /\ Runs(p, req[p].item)
  /\ items' = [items EXCEPT ![req[p].item] = ItemAfter(p)]
  /\ Done(p) /\ queue' = Releases(p)
  /\ UNCHANGED <<desc, issued, faults>>

----------------------------------------------------------------------------
\* The process dies and restarts: requests and locks are lost, files stay.
Crash ==
  /\ faults < MaxFaults /\ faults' = faults + 1
  /\ queue' = [lock \in Locks |-> <<>>]
  /\ pc' = [p \in Slots |-> "idle"]
  /\ req' = [p \in Slots |-> None]
  /\ local' = [p \in Slots |-> NoLocal]
  /\ UNCHANGED <<desc, items, issued>>

Step(p) ==
  \/ CollectionRead(p) \/ CollectionScanned(p) \/ CollectionLocked(p) \/ CollectionPersist(p)
  \/ ItemRead(p) \/ UniqueLocked(p) \/ ScanList(p) \/ ScanRead(p) \/ ItemScanned(p) \/ ItemWrite(p)

Idle == \A p \in Slots : pc[p] = "idle"

\* Every request has been sent and answered: the behaviour may end here.
Finished == issued = MaxRequests /\ Idle /\ UNCHANGED vars

Next == Crash \/ Finished \/ \E p \in Slots : Arrive(p) \/ Step(p)

Spec == Init /\ [][Next]_vars

\* The event loop runs every continuation that is ready.
FairSpec == Spec /\ \A p \in Slots : WF_vars(Step(p))

----------------------------------------------------------------------------
(* Properties.                                                             *)

Local ==
  [etag : Nat \cup {None}, base : Description \cup {None}, prior : Description \cup {None},
   claim : Sources \cup {None}, own : Values \cup {None},
   list : SUBSET Items, seen : SUBSET (Items \X Values)]

\* Every variable stays within the shapes the handlers build.
TypeOK ==
  /\ desc \in Description \cup {None}
  /\ items \in [Items -> Item \cup {None}]
  /\ queue \in [Locks -> Seq(Slots)]
  /\ pc \in [Slots -> {"idle", "read", "list", "scan", "waitDesc", "persist", "waitUnique", "waitItem"}]
  /\ req \in [Slots -> Request \cup {None}]
  /\ local \in [Slots -> Local]
  /\ issued \in 0..MaxRequests /\ faults \in 0..MaxFaults

\* "The append-only guarantee must hold unconditionally" (CollectionRequest.put):
\* whatever two Description writes read before they wrote, an encryption
\* descriptor is never dropped, no epoch is lost, and the current epoch never
\* moves back to one that was there already.
EpochsAppendOnly ==
  [][desc # None => ~TransitionFails(desc.encryption, desc'.encryption)]_desc

\* A Description never both declares an index and an encryption descriptor,
\* though the merge that is checked for it is made from a stale reading.
NeverIndexedAndEncrypted ==
  desc # None => desc.indexes = None \/ desc.encryption = None

\* A conditional update changes nothing but what its body supplies: between
\* reading the version its If-Match names and its write, no other update of the
\* Description is lost.
ConditionalPutLosesNothing ==
  [][\A p \in Slots : CollectionPersist(p) /\ local[p].etag # None =>
       LET r == req[p]
       IN  /\ VersionOf(desc) = local[p].etag
           /\ r.name = None => desc'.name = desc.name
           /\ r.encryption = None => desc'.encryption = desc.encryption
           /\ r.indexes = None => desc'.indexes = desc.indexes]_vars

\* Concurrent creates and updates agree on one creator, the first to be stored,
\* and each takes the next version: none is skipped or given out twice.
CreatorAndVersionKept ==
  [][desc # None => desc'.createdBy = desc.createdBy /\ desc'.version = desc.version + 1]_desc

\* Two Resources whose values were each written under an enforced unique claim
\* never hold the same value: the check is "enforced atomically with the write".
CheckedClaimsDiffer ==
  \A i, j \in Items : i # j /\ items[i] # None /\ items[j] # None =>
    \A s \in items[i].checked \cap items[j].checked :
      items[i][s] = None \/ items[i][s] # items[j][s]

\* The nested locks never wait on each other, and a refusal passes them on.
EveryRequestAnswered == \A p \in Slots : pc[p] # "idle" ~> pc[p] = "idle"

\* With no request in progress, no two Resources hold the same value of an
\* attribute the Description declares unique.
UniqueOnceDeclared ==
  Idle /\ IndexesOf(desc) # None =>
    \A i, j \in Items : i # j /\ items[i] # None /\ items[j] # None =>
      items[i][desc.indexes] = None \/ items[i][desc.indexes] # items[j][desc.indexes]
=============================================================================
