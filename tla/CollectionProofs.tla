--------------------------- MODULE CollectionProofs ---------------------------
(* Theorems about Collection, for every value of its constants.            *)
EXTENDS Collection, SequenceTheorems, TLAPS

\* A request in progress fits the step it is at.
Shape(p) ==
  /\ pc[p] # "idle" => req[p] \in Request
  /\ pc[p] \in {"waitDesc", "persist"} => req[p].op = "putCollection"
  /\ pc[p] \in {"waitUnique", "list", "scan"} => local[p].claim \in Sources /\ req[p].op # "deleteItem"
  /\ pc[p] = "waitUnique" => req[p].op # "putCollection"
  /\ pc[p] = "waitItem" => req[p].op # "putCollection"
  /\ pc[p] = "waitItem" /\ req[p].op = "deleteItem" => local[p].claim = None

ShapeInv == \A p \in Slots : Shape(p)

\* A write that enforces a unique claim, from its grant to its end.
Claiming(p) ==
  pc[p] \in {"list", "scan", "waitItem"} /\ req[p].op # "putCollection" /\ local[p].claim # None

\* The critical sections of the Description and of the unique claims are run by
\* the head of their chain: by one request at most.
Exclusive(p) ==
  /\ pc[p] = "persist" => Runs(p, "desc")
  /\ Claiming(p) => Runs(p, "unique")

LockInv == \A p \in Slots : Exclusive(p)

\* A PUT of the Description that has read it.
Merging(p) == pc[p] \in {"list", "scan", "waitDesc", "persist"} /\ req[p].op = "putCollection"

\* What such a PUT knows: its merge is not both indexed and encrypted, and it
\* started from the Description on disk or from an earlier one, no older than its
\* If-Match; under the lock it knows the Description on disk.
Update(p) ==
  /\ local[p].etag # None => 1 <= local[p].etag /\ local[p].etag <= VersionOf(desc)
  /\ Merging(p) =>
       /\ ~IndexedAndEncrypted(local[p].base, req[p])
       /\ VersionOf(local[p].base) <= VersionOf(desc)
       /\ VersionOf(local[p].base) = VersionOf(desc) => local[p].base = desc
       /\ local[p].etag # None => local[p].etag <= VersionOf(local[p].base)
  /\ pc[p] = "persist" =>
       /\ local[p].prior = desc
       /\ ~CollectionPreconditionFails(p)
       /\ ~CollectionTransitionFails(p)

UpdateInv == \A p \in Slots : Update(p)

\* Resource i holds a value of source s that was checked against a claim.
Checked(i, s) == items[i] # None /\ s \in items[i].checked

\* The half of a Resource that a request writes.
Half(r) == IF r.op = "putItem" THEN "content" ELSE "custom"

\* What a claiming write knows of the other Resources whose value was checked: it
\* has seen that value or is still to read it, and after the scan its own differs.
Claim(p) ==
  /\ Claiming(p) /\ pc[p] \in {"list", "scan"} /\ req[p].op = "putMeta" /\ local[p].claim = "custom" =>
       local[p].own = req[p].value
  /\ Claiming(p) /\ pc[p] = "scan" =>
       \A j \in Items \ {req[p].item} : Checked(j, local[p].claim) =>
         \/ j \in local[p].list
         \/ items[j][local[p].claim] = None
         \/ <<j, items[j][local[p].claim]>> \in local[p].seen
  /\ Claiming(p) /\ pc[p] = "waitItem" /\ local[p].claim = Half(req[p]) =>
       \A j \in Items \ {req[p].item} :
         Checked(j, local[p].claim) => items[j][local[p].claim] # req[p].value

ClaimInv == \A p \in Slots : Claim(p)

\* The inductive invariant.
IInv ==
  /\ TypeOK /\ ShapeInv /\ LockInv /\ UpdateInv /\ ClaimInv
  /\ NeverIndexedAndEncrypted /\ CheckedClaimsDiffer

LEMMA MergedTyped ==
  ASSUME NEW d \in Description \cup {None}, NEW r \in Request
  PROVE  /\ VersionOf(d) \in Nat
         /\ EncryptionOf(d) \in Encryption \cup {None}
         /\ IndexesOf(d) \in Sources \cup {None}
         /\ Merged(d, r).name \in Names \cup {None}
         /\ Merged(d, r).encryption \in Encryption \cup {None}
         /\ Merged(d, r).indexes \in Sources \cup {None}
BY DEF Merged, VersionOf, EncryptionOf, IndexesOf, Description, Request

LEMMA ReplacementTyped ==
  ASSUME NEW b \in Description \cup {None}, NEW d \in Description \cup {None}, NEW r \in Request
  PROVE  Replacement(b, d, r) \in Description
<1>1. r.agent \in Agents /\ (d # None => d.createdBy \in Agents)
  BY DEF Request, Description
<1> QED BY <1>1, MergedTyped DEF Replacement, Description

LEMMA InitInvariant == Init => IInv
<1> SUFFICES ASSUME Init PROVE IInv
  OBVIOUS
<1>1. TypeOK
  BY ConstantsAssumption DEF Init, TypeOK, NoLocal, Local, Locks
<1>2. ShapeInv /\ LockInv /\ UpdateInv /\ ClaimInv
  BY DEF Init, ShapeInv, Shape, LockInv, Exclusive, Claiming, UpdateInv, Update, Merging, ClaimInv, Claim, NoLocal
<1>3. NeverIndexedAndEncrypted /\ CheckedClaimsDiffer
  BY DEF Init, NeverIndexedAndEncrypted, CheckedClaimsDiffer
<1> QED BY <1>1, <1>2, <1>3 DEF IInv

(* Chains of the locks.                                                    *)

\* Whoever runs under a lock keeps it when another request joins any chain or
\* leaves the ones it heads.
LEMMA OthersKeepLocks ==
  ASSUME queue \in [Locks -> Seq(Slots)], NEW p \in Slots, NEW q \in Slots, p # q,
         NEW k \in Locks, Runs(p, k),
         \/ UNCHANGED queue
         \/ \E l \in Locks : Joins(q, l)
         \/ queue' = Releases(q)
  PROVE  Runs(p, k)'
<1>1. queue[k] \in Seq(Slots) /\ queue[k] # <<>> /\ Head(queue[k]) = p
  BY DEF Runs
<1>2. CASE UNCHANGED queue
  BY <1>1, <1>2 DEF Runs
<1>3. ASSUME NEW l \in Locks, Joins(q, l) PROVE Runs(p, k)'
  <2>1. queue'[k] = queue[k] \/ queue'[k] = Append(queue[k], q)
    BY <1>3 DEF Joins
  <2>2. Append(queue[k], q) # <<>> /\ Head(Append(queue[k], q)) = Head(queue[k])
    BY <1>1, AppendProperties
  <2> QED BY <1>1, <2>1, <2>2 DEF Runs
<1>4. CASE queue' = Releases(q)
  BY <1>1, <1>4 DEF Releases, Runs
<1> QED BY <1>2, <1>3, <1>4

\* A request that joins a chain keeps the ones it heads.
LEMMA JoinKeepsLocks ==
  ASSUME queue \in [Locks -> Seq(Slots)], NEW p \in Slots, NEW k \in Locks, NEW l \in Locks,
         Runs(p, k), Joins(p, l)
  PROVE  Runs(p, k)'
<1>1. queue[k] \in Seq(Slots) /\ queue[k] # <<>> /\ Head(queue[k]) = p
  BY DEF Runs
<1>2. queue'[k] = queue[k] \/ queue'[k] = Append(queue[k], p)
  BY DEF Joins
<1>3. Append(queue[k], p) # <<>> /\ Head(Append(queue[k], p)) = Head(queue[k])
  BY <1>1, AppendProperties
<1> QED BY <1>1, <1>2, <1>3 DEF Runs

LEMMA QueueTyped ==
  ASSUME queue \in [Locks -> Seq(Slots)], NEW p \in Slots,
         (\E l \in Locks : Joins(p, l)) \/ queue' = Releases(p)
  PROVE  queue' \in [Locks -> Seq(Slots)]
<1>1. ASSUME NEW s \in Seq(Slots) PROVE Append(s, p) \in Seq(Slots) /\ (s # <<>> => Tail(s) \in Seq(Slots))
  BY AppendProperties, HeadTailProperties
<1>2. CASE \E l \in Locks : Joins(p, l)
  BY <1>1, <1>2 DEF Joins
<1>3. CASE queue' = Releases(p)
  BY <1>1, <1>3 DEF Releases
<1> QED BY <1>2, <1>3

(* A handler's step that writes neither the Description nor a Resource.    *)

\* No slot but q takes part in the step.
Frame(q) ==
  \A p \in Slots \ {q} : pc'[p] = pc[p] /\ req'[p] = req[p] /\ local'[p] = local[p]

QueueMove(q) == UNCHANGED queue \/ (\E l \in Locks : Joins(q, l)) \/ queue' = Releases(q)

LEMMA OthersShape ==
  ASSUME ShapeInv, NEW q \in Slots, Frame(q), NEW p \in Slots \ {q}
  PROVE  Shape(p)'
BY DEF ShapeInv, Shape, Frame

LEMMA OthersExclusive ==
  ASSUME LockInv, queue \in [Locks -> Seq(Slots)], NEW q \in Slots, Frame(q), QueueMove(q),
         NEW p \in Slots \ {q}
  PROVE  Exclusive(p)'
<1>1. /\ pc'[p] = "persist" => Runs(p, "desc")
      /\ Claiming(p)' => Runs(p, "unique")
  BY DEF LockInv, Exclusive, Claiming, Frame
<1>2. "desc" \in Locks /\ "unique" \in Locks
  BY DEF Locks
<1>3. ASSUME NEW k \in Locks, Runs(p, k) PROVE Runs(p, k)'
  BY <1>3, OthersKeepLocks DEF QueueMove
<1> QED BY <1>1, <1>2, <1>3 DEF Exclusive

LEMMA OthersUpdate ==
  ASSUME UpdateInv, NEW q \in Slots, Frame(q), desc' = desc, NEW p \in Slots \ {q}
  PROVE  Update(p)'
<1>1. Update(p) /\ pc'[p] = pc[p] /\ req'[p] = req[p] /\ local'[p] = local[p]
  BY DEF UpdateInv, Frame
<1> QED BY <1>1 DEF Update, Merging, CollectionPreconditionFails, CollectionTransitionFails

LEMMA OthersClaim ==
  ASSUME ClaimInv, NEW q \in Slots, Frame(q), items' = items, NEW p \in Slots \ {q}
  PROVE  Claim(p)'
<1>1. Claim(p) /\ pc'[p] = pc[p] /\ req'[p] = req[p] /\ local'[p] = local[p]
  BY DEF ClaimInv, Frame
<1> QED BY <1>1 DEF Claim, Claiming, Checked

\* What is left to show of such a step is about its own slot.
LEMMA HandlerStep ==
  ASSUME IInv, NEW q \in Slots, Frame(q), QueueMove(q), UNCHANGED <<desc, items>>,
         TypeOK', Shape(q)', Exclusive(q)', Update(q)', Claim(q)'
  PROVE  IInv'
<1>1. queue \in [Locks -> Seq(Slots)]
  BY DEF IInv, TypeOK
<1>2. \A p \in Slots : Shape(p)' /\ Exclusive(p)' /\ Update(p)' /\ Claim(p)'
  <2> TAKE p \in Slots
  <2>1. CASE p = q
    BY <2>1
  <2>2. CASE p # q
    BY <1>1, <2>2, OthersShape, OthersExclusive, OthersUpdate, OthersClaim DEF IInv
  <2> QED BY <2>1, <2>2
<1>3. ShapeInv' /\ LockInv' /\ UpdateInv' /\ ClaimInv'
  BY <1>2 DEF ShapeInv, LockInv, UpdateInv, ClaimInv
<1>4. NeverIndexedAndEncrypted' /\ CheckedClaimsDiffer'
  BY DEF IInv, NeverIndexedAndEncrypted, CheckedClaimsDiffer
<1> QED BY <1>3, <1>4 DEF IInv

\* The parts of TypeOK a handler's step can disturb.
LEMMA HandlerTyped ==
  ASSUME TypeOK, NEW q \in Slots, QueueMove(q), UNCHANGED <<desc, items, issued, faults>>,
         NEW label \in {"idle", "read", "list", "scan", "waitDesc", "persist", "waitUnique", "waitItem"},
         NEW l \in Local, NEW r \in Request \cup {None},
         Goto(q, label) \/ UNCHANGED pc,
         local' = [local EXCEPT ![q] = l] \/ UNCHANGED local,
         req' = [req EXCEPT ![q] = r] \/ UNCHANGED req
  PROVE  TypeOK' /\ Frame(q)
<1>1. queue' \in [Locks -> Seq(Slots)]
  BY QueueTyped DEF QueueMove, TypeOK
<1>2. /\ pc' \in [Slots -> {"idle", "read", "list", "scan", "waitDesc", "persist", "waitUnique", "waitItem"}]
      /\ local' \in [Slots -> Local] /\ req' \in [Slots -> Request \cup {None}]
  BY DEF TypeOK, Goto
<1>3. Frame(q)
  BY DEF Frame, TypeOK, Goto
<1> QED BY <1>1, <1>2, <1>3 DEF TypeOK

LEMMA NoLocalTyped == NoLocal \in Local
BY DEF NoLocal, Local

LEMMA RefuseStep ==
  ASSUME IInv, NEW q \in Slots, Refuse(q), UNCHANGED <<desc, items, issued, faults>>
  PROVE  IInv'
<1>1. TypeOK' /\ Frame(q)
  BY HandlerTyped, NoLocalTyped DEF IInv, Refuse, Done, QueueMove
<1>2. pc'[q] = "idle" /\ local'[q].etag = None
  BY DEF IInv, TypeOK, Refuse, Done, Goto, NoLocal
<1>3. Shape(q)' /\ Exclusive(q)' /\ Update(q)' /\ Claim(q)'
  BY <1>2 DEF Shape, Exclusive, Claiming, Update, Merging, Claim
<1> QED BY <1>1, <1>3, HandlerStep DEF Refuse, QueueMove

LEMMA ArriveStep ==
  ASSUME IInv, NEW q \in Slots, Arrive(q)
  PROVE  IInv'
<1>1. PICK r \in Workload :
        /\ req' = [req EXCEPT ![q] = r]
        /\ \/ \E v \in 1..VersionOf(desc) : local' = [local EXCEPT ![q].etag = v]
           \/ UNCHANGED local
  BY DEF Arrive
<1>2. r \in Request /\ local[q] \in Local /\ VersionOf(desc) \in Nat
  BY ConstantsAssumption, MergedTyped DEF IInv, TypeOK, VersionOf, Description
<1>3. PICK l \in Local :
        /\ local' = [local EXCEPT ![q] = l]
        /\ l.etag # None => l.etag \in 1..VersionOf(desc)
  <2>1. CASE UNCHANGED local
    <3>1. local' = [local EXCEPT ![q] = local[q]]
      BY <2>1 DEF IInv, TypeOK
    <3>2. local[q].etag # None => local[q].etag \in 1..VersionOf(desc)
      BY <1>2 DEF IInv, UpdateInv, Update, Local
    <3> QED BY <1>2, <3>1, <3>2
  <2>2. ASSUME NEW v \in 1..VersionOf(desc), local' = [local EXCEPT ![q].etag = v]
        PROVE  \E l \in Local : local' = [local EXCEPT ![q] = l] /\ (l.etag # None => l.etag \in 1..VersionOf(desc))
    <3> DEFINE l == [local[q] EXCEPT !.etag = v]
    <3>1. l \in Local /\ l.etag = v
      BY <1>2 DEF Local
    <3>2. local' = [local EXCEPT ![q] = l]
      BY <2>2
    <3> QED BY <3>1, <3>2
  <2> QED BY <1>1, <2>1, <2>2
<1>4. TypeOK' /\ Frame(q)
  <2>1. issued' \in 0..MaxRequests
    BY ConstantsAssumption DEF IInv, TypeOK, Arrive
  <2>2. /\ pc' \in [Slots -> {"idle", "read", "list", "scan", "waitDesc", "persist", "waitUnique", "waitItem"}]
        /\ local' \in [Slots -> Local] /\ req' \in [Slots -> Request \cup {None}]
    BY <1>1, <1>2, <1>3 DEF IInv, TypeOK, Goto, Arrive
  <2>3. Frame(q)
    BY <1>1, <1>3 DEF Frame, IInv, TypeOK, Goto, Arrive
  <2> QED BY <2>1, <2>2, <2>3 DEF IInv, TypeOK, Arrive
<1>6. Shape(q)' /\ Exclusive(q)' /\ Update(q)' /\ Claim(q)'
  <2>1. pc'[q] = "read" /\ req'[q] = r /\ desc' = desc
    BY <1>1 DEF IInv, TypeOK, Goto, Arrive
  <2>2. local'[q].etag # None => local'[q].etag \in 1..VersionOf(desc)
    BY <1>3 DEF IInv, TypeOK
  <2>3. Shape(q)' /\ Exclusive(q)' /\ Claim(q)'
    BY <1>2, <2>1 DEF Shape, Exclusive, Claiming, Claim
  <2>4. Update(q)'
    BY <1>2, <2>1, <2>2 DEF Update, Merging
  <2> QED BY <2>3, <2>4
<1> QED BY <1>4, <1>6, HandlerStep DEF Arrive, QueueMove

LEMMA CollectionReadStep ==
  ASSUME IInv, NEW q \in Slots, CollectionRead(q)
  PROVE  IInv'
<1> DEFINE r == req[q]
           l == [local[q] EXCEPT !.base = desc, !.claim = Merged(desc, r).indexes]
<1>1. CASE Refuse(q)
  BY <1>1, RefuseStep DEF CollectionRead
<1>2. CASE ~Refuse(q)
  <2>1. /\ pc[q] = "read" /\ r.op = "putCollection"
        /\ ~(r.encryption # None /\ TransitionFails(EncryptionOf(desc), r.encryption))
        /\ ~IndexedAndEncrypted(desc, r)
        /\ UNCHANGED <<desc, items, req, issued, faults>>
        /\ local' = [local EXCEPT ![q].base = desc, ![q].claim = Merged(desc, r).indexes]
        /\ \/ NewlyUnique(desc, r) /\ Goto(q, "list") /\ UNCHANGED queue
           \/ Goto(q, "waitDesc") /\ Joins(q, "desc")
    BY <1>2 DEF CollectionRead
  <2>2. r \in Request /\ desc \in Description \cup {None} /\ local[q] \in Local
    BY <2>1 DEF IInv, TypeOK, ShapeInv, Shape
  <2>3. Merged(desc, r).indexes \in Sources \cup {None} /\ VersionOf(desc) \in Nat
    BY <2>2, MergedTyped
  <2>4. l \in Local /\ l.base = desc /\ l.claim = Merged(desc, r).indexes /\ l.etag = local[q].etag
    BY <2>2, <2>3 DEF Local
  <2>5. local' = [local EXCEPT ![q] = l] /\ QueueMove(q)
    BY <2>1 DEF QueueMove, Locks
  <2>6. TypeOK' /\ Frame(q)
    BY <2>1, <2>4, <2>5, HandlerTyped DEF IInv
  <2>7. /\ req'[q] = r /\ desc' = desc /\ local'[q] = l
        /\ (pc'[q] = "list" /\ NewlyUnique(desc, r)) \/ pc'[q] = "waitDesc"
    BY <2>1, <2>5 DEF IInv, TypeOK, Goto
  <2>8. Shape(q)'
    BY <2>1, <2>2, <2>3, <2>4, <2>7 DEF Shape, NewlyUnique
  <2>9. Exclusive(q)' /\ Claim(q)'
    BY <2>1, <2>7 DEF Exclusive, Claiming, Claim
  <2>10. Update(q)'
    <3>1. l.etag # None => 1 <= l.etag /\ l.etag <= VersionOf(desc)
      BY <2>4 DEF IInv, UpdateInv, Update
    <3>2. local'[q].etag = local[q].etag /\ local'[q].base = desc /\ req'[q] = req[q]
      BY <2>4, <2>7
    <3>3. ~IndexedAndEncrypted(local'[q].base, req'[q])
      BY <2>1, <3>2
    <3>4. /\ VersionOf(local'[q].base) <= VersionOf(desc')
          /\ local'[q].etag # None => local'[q].etag <= VersionOf(local'[q].base)
          /\ local'[q].etag # None => 1 <= local'[q].etag /\ local'[q].etag <= VersionOf(desc')
      BY <2>3, <2>7, <3>1, <3>2
    <3> QED BY <2>7, <3>2, <3>3, <3>4 DEF Update, Merging
  <2> QED BY <2>1, <2>5, <2>6, <2>8, <2>9, <2>10, HandlerStep
<1> QED BY <1>1, <1>2

\* A slot that keeps its request and its locals moves on.
LEMMA MoveOn ==
  ASSUME IInv, NEW q \in Slots, QueueMove(q), UNCHANGED <<desc, items, req, local, issued, faults>>,
         NEW label \in {"idle", "read", "list", "scan", "waitDesc", "persist", "waitUnique", "waitItem"},
         Goto(q, label)
  PROVE  /\ TypeOK' /\ Frame(q)
         /\ pc'[q] = label /\ req'[q] = req[q] /\ local'[q] = local[q] /\ desc' = desc /\ items' = items
<1>1. TypeOK' /\ Frame(q)
  BY HandlerTyped, NoLocalTyped DEF IInv
<1>2. pc'[q] = label
  BY DEF Goto, IInv, TypeOK
<1> QED BY <1>1, <1>2

LEMMA CollectionScannedStep ==
  ASSUME IInv, NEW q \in Slots, CollectionScanned(q)
  PROVE  IInv'
<1>1. CASE Refuse(q)
  BY <1>1, RefuseStep DEF CollectionScanned
<1>2. CASE ~Refuse(q)
  <2>1. /\ pc[q] = "scan" /\ req[q].op = "putCollection" /\ Goto(q, "waitDesc") /\ Joins(q, "desc")
        /\ UNCHANGED <<desc, items, req, local, issued, faults>>
    BY <1>2 DEF CollectionScanned
  <2>2. QueueMove(q)
    BY <2>1 DEF QueueMove, Locks
  <2>3. /\ TypeOK' /\ Frame(q)
        /\ pc'[q] = "waitDesc" /\ req'[q] = req[q] /\ local'[q] = local[q] /\ desc' = desc
    BY <2>1, <2>2, MoveOn
  <2>4. Shape(q)'
    BY <2>1, <2>3 DEF IInv, ShapeInv, Shape
  <2>5. Exclusive(q)' /\ Claim(q)'
    BY <2>3 DEF Exclusive, Claiming, Claim
  <2>6. Update(q)'
    BY <2>1, <2>3 DEF IInv, UpdateInv, Update, Merging
  <2> QED BY <2>1, <2>2, <2>3, <2>4, <2>5, <2>6, HandlerStep
<1> QED BY <1>1, <1>2

LEMMA CollectionLockedStep ==
  ASSUME IInv, NEW q \in Slots, CollectionLocked(q)
  PROVE  IInv'
<1> DEFINE l == [local[q] EXCEPT !.prior = desc]
<1>1. CASE Refuse(q)
  BY <1>1, RefuseStep DEF CollectionLocked
<1>2. CASE ~Refuse(q)
  <2>1. /\ pc[q] = "waitDesc" /\ Runs(q, "desc") /\ Goto(q, "persist")
        /\ ~CollectionPreconditionFails(q) /\ ~CollectionTransitionFails(q)
        /\ local' = [local EXCEPT ![q].prior = desc]
        /\ UNCHANGED <<desc, items, req, queue, issued, faults>>
    BY <1>2 DEF CollectionLocked
  <2>2. local[q] \in Local /\ desc \in Description \cup {None}
    BY DEF IInv, TypeOK
  <2>3. l \in Local /\ l.prior = desc /\ l.base = local[q].base /\ l.etag = local[q].etag
    BY <2>2 DEF Local
  <2>4. local' = [local EXCEPT ![q] = l] /\ QueueMove(q)
    BY <2>1 DEF QueueMove
  <2>5. TypeOK' /\ Frame(q)
    BY <2>1, <2>3, <2>4, HandlerTyped DEF IInv
  <2>6. pc'[q] = "persist" /\ req'[q] = req[q] /\ desc' = desc /\ local'[q] = l /\ queue' = queue
    BY <2>1, <2>4 DEF IInv, TypeOK, Goto
  <2>7. Shape(q)'
    BY <2>1, <2>6 DEF IInv, ShapeInv, Shape
  <2>8. Exclusive(q)' /\ Claim(q)'
    BY <2>1, <2>6 DEF Exclusive, Claiming, Claim, Runs
  <2>9. Update(q)'
    <3>1. req[q].op = "putCollection"
      BY <2>1 DEF IInv, ShapeInv, Shape
    <3>2. ~CollectionPreconditionFails(q)' /\ ~CollectionTransitionFails(q)'
      BY <2>1, <2>3, <2>6 DEF CollectionPreconditionFails, CollectionTransitionFails
    <3> QED BY <2>1, <2>3, <2>6, <3>1, <3>2 DEF IInv, UpdateInv, Update, Merging
  <2> QED BY <2>1, <2>4, <2>5, <2>7, <2>8, <2>9, HandlerStep
<1> QED BY <1>1, <1>2

LEMMA ItemReadStep ==
  ASSUME IInv, NEW q \in Slots, ItemRead(q)
  PROVE  IInv'
<1> DEFINE claim == IF req[q].op = "deleteItem" THEN None ELSE desc.indexes
           lock == IF claim = None THEN req[q].item ELSE "unique"
           l == [local[q] EXCEPT !.claim = claim]
<1>1. CASE Refuse(q)
  BY <1>1, RefuseStep DEF ItemRead
<1>2. CASE ~Refuse(q)
  <2>1. /\ pc[q] = "read" /\ req[q].op \in {"putItem", "putMeta", "deleteItem"} /\ desc # None
        /\ local' = [local EXCEPT ![q].claim = claim]
        /\ Joins(q, lock)
        /\ Goto(q, IF claim = None THEN "waitItem" ELSE "waitUnique")
        /\ UNCHANGED <<desc, items, req, issued, faults>>
    BY <1>2 DEF ItemRead
  <2>2. req[q] \in Request /\ local[q] \in Local /\ desc \in Description
    BY <2>1 DEF IInv, TypeOK, ShapeInv, Shape
  <2>3. claim \in Sources \cup {None} /\ lock \in Locks
    BY <2>2 DEF Description, Request, Locks
  <2>4. l \in Local /\ l.claim = claim /\ l.etag = local[q].etag
    BY <2>2, <2>3 DEF Local
  <2>5. local' = [local EXCEPT ![q] = l] /\ QueueMove(q)
    BY <2>1, <2>3 DEF QueueMove
  <2>6. TypeOK' /\ Frame(q)
    BY <2>1, <2>4, <2>5, HandlerTyped DEF IInv
  <2>7. /\ pc'[q] = (IF claim = None THEN "waitItem" ELSE "waitUnique")
        /\ req'[q] = req[q] /\ desc' = desc /\ local'[q] = l
    BY <2>1, <2>5 DEF IInv, TypeOK, Goto
  <2>8. Shape(q)'
    BY <2>1, <2>2, <2>3, <2>4, <2>7 DEF Shape
  <2>9. Exclusive(q)' /\ Claim(q)'
    BY <2>1, <2>4, <2>7 DEF Exclusive, Claiming, Claim
  <2>10. Update(q)'
    BY <2>1, <2>4, <2>7 DEF IInv, UpdateInv, Update, Merging
  <2> QED BY <2>1, <2>5, <2>6, <2>8, <2>9, <2>10, HandlerStep
<1> QED BY <1>1, <1>2

(* The scan of a claiming write.                                           *)

LEMMA HeldTyped ==
  ASSUME TypeOK, NEW i \in Items, NEW s \in Sources, items[i] # None
  PROVE  items[i][s] \in Values \cup {None}
<1>1. items[i] \in Item
  BY DEF TypeOK
<1>2. CASE s = "content"
  BY <1>1, <1>2 DEF Item
<1>3. CASE s = "custom"
  BY <1>1, <1>3 DEF Item
<1> QED BY <1>2, <1>3 DEF Sources

LEMMA UniqueLockedStep ==
  ASSUME IInv, NEW q \in Slots, UniqueLocked(q)
  PROVE  IInv'
<1> DEFINE own == IF req[q].op = "putMeta" THEN OwnTerm(q) ELSE None
           l == [local[q] EXCEPT !.own = own]
<1>1. /\ pc[q] = "waitUnique" /\ Runs(q, "unique") /\ Goto(q, "list")
      /\ local' = [local EXCEPT ![q] = l]
      /\ UNCHANGED <<desc, items, queue, req, issued, faults>>
  BY DEF UniqueLocked, Granted
<1>2. /\ req[q] \in Request /\ req[q].op \notin {"putCollection", "deleteItem"}
      /\ local[q] \in Local /\ local[q].claim \in Sources
  BY <1>1 DEF IInv, TypeOK, ShapeInv, Shape
<1>3. OwnTerm(q) \in Values \cup {None}
  <2>1. req[q].item \in Items /\ req[q].value \in Values
    BY <1>2 DEF Request
  <2> QED BY <1>2, <2>1, HeldTyped DEF OwnTerm, IInv
<1>4. l \in Local /\ l.own = own /\ l.claim = local[q].claim /\ l.etag = local[q].etag
  BY <1>2, <1>3 DEF Local
<1>5. TypeOK' /\ Frame(q)
  BY <1>1, <1>4, HandlerTyped DEF IInv, QueueMove
<1>6. pc'[q] = "list" /\ req'[q] = req[q] /\ desc' = desc /\ local'[q] = l /\ queue' = queue
  BY <1>1 DEF IInv, TypeOK, Goto
<1>7. Shape(q)'
  BY <1>2, <1>4, <1>6 DEF Shape
<1>8. Exclusive(q)'
  BY <1>1, <1>6 DEF Exclusive, Runs
<1>9. Update(q)'
  BY <1>2, <1>4, <1>6 DEF IInv, UpdateInv, Update, Merging
<1>10. Claim(q)'
  <2>1. req[q].op = "putMeta" /\ local[q].claim = "custom" => own = req[q].value
    BY DEF OwnTerm
  <2> QED BY <1>4, <1>6, <2>1 DEF Claim
<1> QED BY <1>1, <1>5, <1>7, <1>8, <1>9, <1>10, HandlerStep DEF QueueMove

\* A step of a scan changes what the handler has read and nothing else.
LEMMA ScanFrame ==
  ASSUME IInv, NEW q \in Slots, pc[q] \in {"list", "scan"},
         Goto(q, "scan"), UNCHANGED <<desc, items, queue, req, issued, faults>>,
         NEW l \in Local, local' = [local EXCEPT ![q] = l],
         \A field \in {"etag", "base", "prior", "claim", "own"} : l[field] = local[q][field]
  PROVE  /\ TypeOK' /\ Frame(q) /\ Shape(q)' /\ Exclusive(q)' /\ Update(q)'
         /\ pc'[q] = "scan" /\ req'[q] = req[q] /\ local'[q] = l /\ items' = items
<1>1. /\ l.etag = local[q].etag /\ l.base = local[q].base
      /\ l.claim = local[q].claim /\ l.own = local[q].own
  OBVIOUS
<1>2. TypeOK' /\ Frame(q)
  BY HandlerTyped DEF IInv, QueueMove
<1>3. /\ pc'[q] = "scan" /\ req'[q] = req[q] /\ desc' = desc /\ local'[q] = l
      /\ queue' = queue /\ items' = items
  BY DEF IInv, TypeOK, Goto
<1>4. Shape(q)'
  BY <1>1, <1>3 DEF IInv, ShapeInv, Shape
<1>5. Exclusive(q)'
  BY <1>1, <1>3 DEF IInv, LockInv, Exclusive, Claiming, Runs
<1>6. Update(q)'
  BY <1>1, <1>3 DEF IInv, UpdateInv, Update, Merging
<1> QED BY <1>2, <1>3, <1>4, <1>5, <1>6

LEMMA ScanListStep ==
  ASSUME IInv, NEW q \in Slots, ScanList(q)
  PROVE  IInv'
<1> DEFINE skip == IF req[q].op = "putCollection" THEN {} ELSE {req[q].item}
           l == [local[q] EXCEPT !.list = {i \in Items : items[i] # None} \ skip]
<1>1. /\ pc[q] = "list" /\ Goto(q, "scan") /\ local' = [local EXCEPT ![q] = l]
      /\ UNCHANGED <<desc, items, queue, req, issued, faults>>
  BY DEF ScanList
<1>2. local[q] \in Local
  BY DEF IInv, TypeOK
<1>3. /\ l \in Local /\ l.list = {i \in Items : items[i] # None} \ skip
      /\ l.claim = local[q].claim /\ l.own = local[q].own
      /\ \A field \in {"etag", "base", "prior", "claim", "own"} : l[field] = local[q][field]
  BY <1>2 DEF Local
<1>4. /\ TypeOK' /\ Frame(q) /\ Shape(q)' /\ Exclusive(q)' /\ Update(q)'
      /\ pc'[q] = "scan" /\ req'[q] = req[q] /\ local'[q] = l /\ items' = items
  BY <1>1, <1>3, ScanFrame
<1>5. Claim(q)'
  <2>1. Claiming(q)' => Claiming(q)
    BY <1>1, <1>3, <1>4 DEF Claiming
  <2>2. Claiming(q) => \A j \in Items \ {req[q].item} : items[j] # None => j \in l.list
    BY <1>3 DEF Claiming
  <2>3. Claim(q)
    BY DEF IInv, ClaimInv
  <2>4. local'[q].claim = local[q].claim /\ local'[q].own = local[q].own /\ local'[q].list = l.list
    BY <1>3, <1>4
  <2>5. pc'[q] # "waitItem" /\ pc[q] = "list" /\ req'[q] = req[q]
    BY <1>1, <1>4
  <2>6. Claiming(q)' => \A j \in Items \ {req[q].item} :
                            items'[j] # None /\ local'[q].claim \in items'[j].checked => j \in local'[q].list
    BY <1>4, <2>1, <2>2, <2>4
  <2> HIDE DEF l
  <2>7. Claiming(q)' /\ req'[q].op = "putMeta" /\ local'[q].claim = "custom" => local'[q].own = req'[q].value
    BY <2>1, <2>3, <2>4, <2>5 DEF Claim
  <2> QED BY <2>5, <2>6, <2>7 DEF Claim, Checked
<1> QED BY <1>1, <1>4, <1>5, HandlerStep DEF QueueMove

LEMMA ScanReadStep ==
  ASSUME IInv, NEW q \in Slots, ScanRead(q)
  PROVE  IInv'
<1>1. /\ pc[q] = "scan" /\ UNCHANGED <<desc, items, queue, pc, req, issued, faults>>
      /\ local[q] \in Local /\ local[q].claim \in Sources
  BY DEF ScanRead, IInv, TypeOK, ShapeInv, Shape
<1>2. PICK i \in local[q].list :
        local' = [local EXCEPT ![q].list = @ \ {i},
                               ![q].seen = IF (IF items[i] = None THEN None ELSE items[i][local[q].claim]) = None
                                             THEN @
                                             ELSE @ \cup {<<i, IF items[i] = None THEN None ELSE items[i][local[q].claim]>>}]
  BY DEF ScanRead
<1> DEFINE held == IF items[i] = None THEN None ELSE items[i][local[q].claim]
           seen == IF held = None THEN local[q].seen ELSE local[q].seen \cup {<<i, held>>}
           l == [local[q] EXCEPT !.list = local[q].list \ {i}, !.seen = seen]
<1>3. i \in Items /\ held \in Values \cup {None}
  BY <1>1, HeldTyped DEF Local, IInv
<1>4. seen \in SUBSET (Items \X Values) /\ local[q].list \ {i} \in SUBSET Items
  BY <1>1, <1>3 DEF Local
<1>5. /\ l \in Local /\ l.list = local[q].list \ {i} /\ l.seen = seen
      /\ l.claim = local[q].claim /\ l.own = local[q].own
      /\ \A field \in {"etag", "base", "prior", "claim", "own"} : l[field] = local[q][field]
  <2> HIDE DEF seen
  <2> QED BY <1>1, <1>4 DEF Local
<1>6. local' = [local EXCEPT ![q] = l]
  BY <1>1, <1>2 DEF IInv, TypeOK, Local
<1>7. Goto(q, "scan")
  BY <1>1 DEF Goto, IInv, TypeOK
<1>8. /\ TypeOK' /\ Frame(q) /\ Shape(q)' /\ Exclusive(q)' /\ Update(q)'
      /\ pc'[q] = "scan" /\ req'[q] = req[q] /\ local'[q] = l /\ items' = items
  <2> HIDE DEF l
  <2> QED BY <1>1, <1>5, <1>6, <1>7, ScanFrame
<1>9. Claim(q)'
  <2>1. Claiming(q)' => Claiming(q)
    BY <1>1, <1>5, <1>8 DEF Claiming
  <2>2. /\ Claiming(q) /\ req[q].op = "putMeta" /\ local[q].claim = "custom" => l.own = req[q].value
        /\ Claiming(q) => \A j \in Items \ {req[q].item} : Checked(j, l.claim) =>
             j \in local[q].list \/ items[j][l.claim] = None \/ <<j, items[j][l.claim]>> \in local[q].seen
    BY <1>1, <1>5 DEF IInv, ClaimInv, Claim
  <2>3. \A j : Checked(j, l.claim) /\ j \in local[q].list =>
          j \in l.list \/ items[j][l.claim] = None \/ <<j, items[j][l.claim]>> \in l.seen
    BY <1>5 DEF Checked
  <2>4. local[q].seen \subseteq l.seen
    BY <1>5
  <2> HIDE DEF l
  <2>5. Claiming(q) => \A j \in Items \ {req[q].item} : Checked(j, l.claim) =>
             j \in l.list \/ items[j][l.claim] = None \/ <<j, items[j][l.claim]>> \in l.seen
    BY <2>2, <2>3, <2>4
  <2>6. Claiming(q)' => \A j \in Items \ {req'[q].item} :
          items'[j] # None /\ local'[q].claim \in items'[j].checked =>
             \/ j \in local'[q].list
             \/ items'[j][local'[q].claim] = None
             \/ <<j, items'[j][local'[q].claim]>> \in local'[q].seen
    BY <1>8, <2>1, <2>5 DEF Checked
  <2>7. Claiming(q)' /\ req'[q].op = "putMeta" /\ local'[q].claim = "custom" => local'[q].own = req'[q].value
    BY <1>5, <1>8, <2>1, <2>2
  <2> QED BY <1>8, <2>6, <2>7 DEF Claim, Checked
<1> QED BY <1>1, <1>8, <1>9, HandlerStep DEF QueueMove

LEMMA ItemScannedStep ==
  ASSUME IInv, NEW q \in Slots, ItemScanned(q)
  PROVE  IInv'
<1> DEFINE own == IF req[q].op = "putItem" THEN OwnTerm(q) ELSE local[q].own
<1>1. CASE Refuse(q)
  BY <1>1, RefuseStep DEF ItemScanned
<1>2. CASE ~Refuse(q)
  <2>1. /\ pc[q] = "scan" /\ local[q].list = {} /\ req[q].op # "putCollection"
        /\ ~(\E a \in local[q].seen : a[2] = own)
        /\ Goto(q, "waitItem") /\ Joins(q, req[q].item)
        /\ UNCHANGED <<desc, items, req, local, issued, faults>>
    BY <1>2 DEF ItemScanned
  <2>2. /\ req[q] \in Request /\ local[q].claim \in Sources
        /\ req[q].op \in {"putItem", "putMeta"} /\ req[q].item \in Locks /\ req[q].value \in Values
    BY <2>1 DEF IInv, ShapeInv, Shape, Request, Locks
  <2>3. QueueMove(q)
    BY <2>1, <2>2 DEF QueueMove
  <2>4. /\ TypeOK' /\ Frame(q) /\ items' = items
        /\ pc'[q] = "waitItem" /\ req'[q] = req[q] /\ local'[q] = local[q] /\ desc' = desc
    BY <2>1, <2>3, MoveOn
  <2>5. Shape(q)'
    BY <2>2, <2>4 DEF Shape
  <2>6. Claiming(q) /\ Exclusive(q)'
    <3>1. Claiming(q)
      BY <2>1, <2>2, ConstantsAssumption DEF Claiming
    <3>2. Runs(q, "unique")'
      BY <2>1, <2>2, <3>1, JoinKeepsLocks DEF IInv, TypeOK, LockInv, Exclusive, Locks
    <3> QED BY <2>4, <3>1, <3>2 DEF Exclusive
  <2>7. Update(q)'
    BY <2>4 DEF IInv, UpdateInv, Update, Merging
  <2>8. Claim(q)'
    <3>1. SUFFICES ASSUME local[q].claim = Half(req[q]), NEW j \in Items \ {req[q].item},
                          Checked(j, local[q].claim)
                   PROVE  items[j][local[q].claim] # req[q].value
      BY <2>4 DEF Claim, Checked
    <3>2. own = req[q].value
      BY <2>1, <2>2, <2>6, <3>1 DEF OwnTerm, Half, IInv, ClaimInv, Claim
    <3>3. items[j][local[q].claim] = None \/ <<j, items[j][local[q].claim]>> \in local[q].seen
      BY <2>1, <2>6, <3>1 DEF IInv, ClaimInv, Claim
    <3>4. <<j, items[j][local[q].claim]>> \in local[q].seen => items[j][local[q].claim] # own
      BY <2>1
    <3> QED BY <2>2, <3>2, <3>3, <3>4, ConstantsAssumption
  <2> QED BY <2>1, <2>3, <2>4, <2>5, <2>6, <2>7, <2>8, HandlerStep
<1> QED BY <1>1, <1>2

(* The write of the Description.                                           *)

LEMMA CollectionPersistStep ==
  ASSUME IInv, NEW q \in Slots, CollectionPersist(q)
  PROVE  IInv'
<1> DEFINE base == local[q].base
           r == req[q]
<1>1. /\ pc[q] = "persist" /\ queue' = Releases(q) /\ Done(q)
      /\ desc' = Replacement(base, local[q].prior, r)
      /\ UNCHANGED <<items, issued, faults>>
  BY DEF CollectionPersist
<1>2. /\ r \in Request /\ desc \in Description \cup {None} /\ base \in Description \cup {None}
      /\ local[q].prior = desc /\ ~IndexedAndEncrypted(base, r)
  BY <1>1 DEF IInv, TypeOK, Local, ShapeInv, Shape, UpdateInv, Update, Merging
<1>3. desc' \in Description
  BY <1>1, <1>2, ReplacementTyped
<1>4. VersionOf(desc) \in Nat /\ VersionOf(desc') = VersionOf(desc) + 1
  <2>1. desc' # None
    BY <1>3, ConstantsAssumption
  <2>2. VersionOf(desc) \in Nat
    BY <1>2, MergedTyped
  <2> QED BY <1>1, <1>2, <2>1, <2>2 DEF Replacement, VersionOf
<1>5. /\ pc'[q] = "idle" /\ local'[q].etag = None
      /\ Frame(q) /\ QueueMove(q)
  BY <1>1 DEF IInv, TypeOK, Done, Goto, NoLocal, Frame, QueueMove
<1>6. TypeOK'
  <2>1. queue' \in [Locks -> Seq(Slots)]
    BY <1>1, QueueTyped DEF IInv, TypeOK
  <2> QED BY <1>1, <1>3, <2>1, NoLocalTyped DEF IInv, TypeOK, Done, Goto
<1>7. Shape(q)' /\ Exclusive(q)' /\ Update(q)' /\ Claim(q)'
  BY <1>5 DEF Shape, Exclusive, Claiming, Update, Merging, Claim
<1>8. \A p \in Slots : Shape(p)' /\ Exclusive(p)' /\ Update(p)' /\ Claim(p)'
  <2> SUFFICES ASSUME NEW p \in Slots \ {q} PROVE Shape(p)' /\ Exclusive(p)' /\ Update(p)' /\ Claim(p)'
    BY <1>7
  <2>1. Shape(p)' /\ Exclusive(p)' /\ Claim(p)'
    BY <1>1, <1>5, OthersShape, OthersExclusive, OthersClaim DEF IInv, TypeOK
  <2>2. pc[p] # "persist"
    BY <1>1 DEF IInv, LockInv, Exclusive, Runs
  <2>3. Update(p) /\ pc'[p] = pc[p] /\ req'[p] = req[p] /\ local'[p] = local[p]
    BY <1>5 DEF IInv, UpdateInv, Frame
  <2>4. local[p].etag \in Nat \cup {None} /\ VersionOf(local[p].base) \in Nat
    BY <1>2, MergedTyped DEF IInv, TypeOK, Local
  <2>5. Update(p)'
    BY <1>4, <2>2, <2>3, <2>4 DEF Update, Merging
  <2> QED BY <2>1, <2>5
<1>9. NeverIndexedAndEncrypted'
  BY <1>1, <1>2 DEF NeverIndexedAndEncrypted, IndexedAndEncrypted, Replacement
<1>10. CheckedClaimsDiffer'
  BY <1>1 DEF IInv, CheckedClaimsDiffer
<1> QED BY <1>6, <1>8, <1>9, <1>10 DEF IInv, ShapeInv, LockInv, UpdateInv, ClaimInv

(* The write of a Resource.                                                *)

LEMMA ItemAfterTyped ==
  ASSUME IInv, NEW q \in Slots, pc[q] = "waitItem"
  PROVE  ItemAfter(q) \in Item \cup {None}
<1> DEFINE r == req[q]
           old == items[r.item]
           checked == (IF old = None THEN {} ELSE old.checked \ {Half(r)}) \cup ({local[q].claim} \cap {Half(r)})
<1>1. /\ r \in Request /\ r.op \in {"putItem", "putMeta", "deleteItem"}
      /\ r.item \in Items /\ r.value \in Values /\ old \in Item \cup {None}
  BY DEF IInv, TypeOK, ShapeInv, Shape, Request
<1>2. checked \in SUBSET Sources
  BY <1>1 DEF Half, Sources, Item
<1>3. CASE r.op = "deleteItem"
  BY <1>3 DEF ItemAfter
<1>4. CASE r.op = "putItem"
  <2>1. ItemAfter(q) = [content |-> r.value, custom |-> IF old = None THEN None ELSE old.custom, checked |-> checked]
    BY <1>4 DEF ItemAfter, Half
  <2>2. (IF old = None THEN None ELSE old.custom) \in Values \cup {None}
    BY <1>1 DEF Item
  <2> QED BY <1>1, <1>2, <2>1, <2>2 DEF Item
<1>5. CASE r.op = "putMeta"
  <2>1. ItemAfter(q) = IF old = None THEN None ELSE [old EXCEPT !.custom = r.value, !.checked = checked]
    BY <1>5 DEF ItemAfter, Half
  <2> QED BY <1>1, <1>2, <2>1 DEF Item
<1> QED BY <1>1, <1>3, <1>4, <1>5

\* A checked value of the written Resource is the request's, checked under its
\* claim, or it was there before.
LEMMA ItemAfterChecked ==
  ASSUME IInv, NEW q \in Slots, pc[q] = "waitItem", NEW s \in Sources,
         ItemAfter(q) # None, s \in ItemAfter(q).checked
  PROVE  \/ local[q].claim = s /\ s = Half(req[q]) /\ ItemAfter(q)[s] = req[q].value
         \/ Checked(req[q].item, s) /\ ItemAfter(q)[s] = items[req[q].item][s]
<1> DEFINE r == req[q]
           old == items[r.item]
           checked == (IF old = None THEN {} ELSE old.checked \ {Half(r)}) \cup ({local[q].claim} \cap {Half(r)})
<1>1. /\ r \in Request /\ r.op \in {"putItem", "putMeta", "deleteItem"}
      /\ r.item \in Items /\ r.value \in Values /\ old \in Item \cup {None}
  BY DEF IInv, TypeOK, ShapeInv, Shape, Request
<1>2. CASE r.op = "deleteItem"
  BY <1>2 DEF ItemAfter
<1>3. CASE r.op = "putItem"
  <2>1. ItemAfter(q) = [content |-> r.value, custom |-> IF old = None THEN None ELSE old.custom, checked |-> checked]
    BY <1>3 DEF ItemAfter, Half
  <2>2. CASE s = "content"
    BY <1>3, <2>1, <2>2 DEF Half
  <2>3. CASE s = "custom"
    BY <1>3, <2>1, <2>3 DEF Half, Checked
  <2> QED BY <2>2, <2>3 DEF Sources
<1>4. CASE r.op = "putMeta"
  <2>1. old # None /\ ItemAfter(q) = [old EXCEPT !.custom = r.value, !.checked = checked]
    BY <1>4 DEF ItemAfter, Half
  <2>2. /\ ItemAfter(q).checked = checked
        /\ ItemAfter(q).custom = r.value /\ ItemAfter(q).content = old.content
    BY <1>1, <2>1 DEF Item
  <2>3. CASE s = "content"
    BY <1>4, <2>1, <2>2, <2>3 DEF Half, Checked
  <2>4. CASE s = "custom"
    BY <1>4, <2>2, <2>4 DEF Half
  <2> QED BY <2>3, <2>4 DEF Sources
<1> QED BY <1>1, <1>2, <1>3, <1>4

LEMMA ItemWriteStep ==
  ASSUME IInv, NEW q \in Slots, ItemWrite(q)
  PROVE  IInv'
<1> DEFINE i == req[q].item
<1>1. /\ pc[q] = "waitItem" /\ queue' = Releases(q) /\ Done(q)
      /\ items' = [items EXCEPT ![i] = ItemAfter(q)]
      /\ UNCHANGED <<desc, issued, faults>>
  BY DEF ItemWrite
<1>2. /\ req[q] \in Request /\ i \in Items /\ req[q].op # "putCollection"
      /\ items'[i] = ItemAfter(q) /\ \A j \in Items \ {i} : items'[j] = items[j]
  BY <1>1 DEF IInv, TypeOK, ShapeInv, Shape, Request
<1>3. /\ pc'[q] = "idle" /\ local'[q].etag = None
      /\ Frame(q) /\ QueueMove(q)
  BY <1>1 DEF IInv, TypeOK, Done, Goto, NoLocal, Frame, QueueMove
<1>4. TypeOK'
  <2>1. queue' \in [Locks -> Seq(Slots)]
    BY <1>1, QueueTyped DEF IInv, TypeOK
  <2>2. items' \in [Items -> Item \cup {None}]
    BY <1>1, <1>2, ItemAfterTyped DEF IInv, TypeOK
  <2> QED BY <1>1, <2>1, <2>2, NoLocalTyped DEF IInv, TypeOK, Done, Goto
<1>5. Shape(q)' /\ Exclusive(q)' /\ Update(q)' /\ Claim(q)'
  BY <1>3 DEF Shape, Exclusive, Claiming, Update, Merging, Claim
<1>6. \A p \in Slots : Shape(p)' /\ Exclusive(p)' /\ Update(p)' /\ Claim(p)'
  <2> SUFFICES ASSUME NEW p \in Slots \ {q} PROVE Shape(p)' /\ Exclusive(p)' /\ Update(p)' /\ Claim(p)'
    BY <1>5
  <2>1. Shape(p)' /\ Exclusive(p)' /\ Update(p)'
    BY <1>1, <1>3, OthersShape, OthersExclusive, OthersUpdate DEF IInv, TypeOK
  <2>2. Claim(p) /\ pc'[p] = pc[p] /\ req'[p] = req[p] /\ local'[p] = local[p]
    BY <1>3 DEF IInv, ClaimInv, Frame
  <2>3. ASSUME Claiming(p), NEW j \in Items, NEW s \in Sources, Checked(j, s)'
        PROVE  Checked(j, s) /\ items'[j][s] = items[j][s]
    <3>1. ~Claiming(q)
      BY <2>3 DEF IInv, LockInv, Exclusive, Runs
    <3>2. local[q].claim # s
      BY <1>1, <1>2, <3>1, ConstantsAssumption DEF Claiming
    <3>3. CASE j = i
      BY <1>1, <1>2, <2>3, <3>2, <3>3, ItemAfterChecked DEF Checked
    <3>4. CASE j # i
      BY <1>2, <2>3, <3>4 DEF Checked
    <3> QED BY <3>3, <3>4
  <2>4. Claiming(p) => local[p].claim \in Sources
    BY DEF Claiming, IInv, TypeOK, Local
  <2>5. ASSUME Claiming(p), NEW j \in Items, items'[j] # None, local[p].claim \in items'[j].checked
        PROVE  Checked(j, local[p].claim) /\ items'[j][local[p].claim] = items[j][local[p].claim]
    BY <2>3, <2>4, <2>5 DEF Checked
  <2>6. Claim(p)'
    <3>1. Claiming(p)' <=> Claiming(p)
      BY <2>2 DEF Claiming
    <3> QED BY <2>2, <2>5, <3>1 DEF Claim, Checked
  <2> QED BY <2>1, <2>6
<1>7. NeverIndexedAndEncrypted'
  BY <1>1 DEF IInv, NeverIndexedAndEncrypted
<1>8. CheckedClaimsDiffer'
  <2>1. ASSUME NEW j \in Items \ {i}, NEW s \in Sources,
               items'[i] # None, s \in items'[i].checked, items'[j] # None, s \in items'[j].checked
        PROVE  /\ items'[i][s] = None \/ items'[i][s] # items'[j][s]
               /\ items'[j][s] = None \/ items'[i][s] # items'[j][s]
    <3>1. ItemAfter(q) # None /\ s \in ItemAfter(q).checked /\ Checked(j, s) /\ items'[j] = items[j]
      BY <1>2, <2>1 DEF Checked
    <3>2. CASE local[q].claim = s /\ s = Half(req[q]) /\ ItemAfter(q)[s] = req[q].value
      <4>1. Claiming(q)
        BY <1>1, <1>2, <3>2, ConstantsAssumption DEF Claiming
      <4>2. items[j][s] # req[q].value
        BY <1>1, <3>1, <3>2, <4>1 DEF IInv, ClaimInv, Claim
      <4> QED BY <1>2, <3>1, <3>2, <4>2
    <3>3. CASE Checked(i, s) /\ ItemAfter(q)[s] = items[i][s]
      <4>1. /\ items[i][s] = None \/ items[i][s] # items[j][s]
            /\ items[j][s] = None \/ items[j][s] # items[i][s]
        BY <1>2, <3>1, <3>3 DEF IInv, CheckedClaimsDiffer, Checked
      <4> QED BY <1>2, <3>1, <3>3, <4>1
    <3> QED BY <1>1, <3>1, <3>2, <3>3, ItemAfterChecked
  <2>2. ASSUME NEW j \in Items, NEW k \in Items, j # k, NEW s \in Sources,
               items'[j] # None, s \in items'[j].checked, items'[k] # None, s \in items'[k].checked
        PROVE  items'[j][s] = None \/ items'[j][s] # items'[k][s]
    <3>1. CASE j = i
      BY <2>1, <2>2, <3>1
    <3>2. CASE k = i
      BY <2>1, <2>2, <3>2
    <3>3. CASE j # i /\ k # i
      BY <1>2, <2>2, <3>3 DEF IInv, CheckedClaimsDiffer, Checked
    <3> QED BY <3>1, <3>2, <3>3
  <2>3. \A j \in Items : items'[j] # None => items'[j].checked \subseteq Sources
    BY <1>4 DEF TypeOK, Item
  <2> QED BY <2>2, <2>3 DEF CheckedClaimsDiffer
<1> QED BY <1>4, <1>6, <1>7, <1>8 DEF IInv, ShapeInv, LockInv, UpdateInv, ClaimInv

LEMMA CrashStep ==
  ASSUME IInv, Crash
  PROVE  IInv'
<1>1. \A p \in Slots : pc'[p] = "idle" /\ local'[p].etag = None
  BY DEF Crash, NoLocal
<1>2. TypeOK'
  BY NoLocalTyped, ConstantsAssumption DEF IInv, TypeOK, Crash
<1>3. ShapeInv' /\ LockInv' /\ UpdateInv' /\ ClaimInv'
  BY <1>1 DEF ShapeInv, Shape, LockInv, Exclusive, Claiming, UpdateInv, Update, Merging, ClaimInv, Claim
<1>4. NeverIndexedAndEncrypted' /\ CheckedClaimsDiffer'
  BY DEF IInv, Crash, NeverIndexedAndEncrypted, CheckedClaimsDiffer
<1> QED BY <1>2, <1>3, <1>4 DEF IInv

LEMMA NextInvariant == IInv /\ [Next]_vars => IInv'
<1> SUFFICES ASSUME IInv, [Next]_vars PROVE IInv'
  OBVIOUS
<1>1. CASE UNCHANGED vars
  <2>1. TypeOK' /\ ShapeInv' /\ NeverIndexedAndEncrypted' /\ CheckedClaimsDiffer'
    BY <1>1 DEF IInv, vars, TypeOK, ShapeInv, Shape, NeverIndexedAndEncrypted, CheckedClaimsDiffer
  <2>2. LockInv' /\ ClaimInv'
    BY <1>1 DEF IInv, vars, LockInv, Exclusive, Claiming, Runs, ClaimInv, Claim, Checked
  <2>3. UpdateInv'
    BY <1>1 DEF IInv, vars, UpdateInv, Update, Merging, CollectionPreconditionFails, CollectionTransitionFails
  <2> QED BY <2>1, <2>2, <2>3 DEF IInv
<1>2. CASE Crash
  BY <1>2, CrashStep
<1>3. ASSUME NEW p \in Slots, Arrive(p) PROVE IInv'
  BY <1>3, ArriveStep
<1>4. ASSUME NEW p \in Slots, CollectionRead(p) \/ CollectionScanned(p) \/ CollectionLocked(p) \/ CollectionPersist(p)
      PROVE  IInv'
  BY <1>4, CollectionReadStep, CollectionScannedStep, CollectionLockedStep, CollectionPersistStep
<1>5. ASSUME NEW p \in Slots, ItemRead(p) \/ UniqueLocked(p) \/ ItemScanned(p) \/ ItemWrite(p)
      PROVE  IInv'
  BY <1>5, ItemReadStep, UniqueLockedStep, ItemScannedStep, ItemWriteStep
<1>6. ASSUME NEW p \in Slots, ScanList(p) \/ ScanRead(p) PROVE IInv'
  BY <1>6, ScanListStep, ScanReadStep
<1> QED BY <1>1, <1>2, <1>3, <1>4, <1>5, <1>6 DEF Next, Step, Finished

\* What every reachable state satisfies, for any number of requests and any
\* workload: types, who runs under a lock, what a PUT of the Description knows of
\* the one on disk, and what a scan knows of the values it must not repeat.
THEOREM InductiveInvariant == Spec => []IInv
<1> QED BY InitInvariant, NextInvariant, PTL DEF Spec

\* Type correctness of the Description, the Resources, the chains and the handlers.
THEOREM TypeCorrect == Spec => []TypeOK
<1>1. IInv => TypeOK
  BY DEF IInv
<1> QED BY <1>1, InductiveInvariant, PTL

\* writeCollection stores a merge that was checked before the lock; the stored
\* Description still never has both an index and an encryption descriptor.
THEOREM IndexedOrEncrypted == Spec => []NeverIndexedAndEncrypted
<1>1. IInv => NeverIndexedAndEncrypted
  BY DEF IInv
<1> QED BY <1>1, InductiveInvariant, PTL

\* The unique lock makes the scan and the write that follows it one step towards
\* every other claiming write, and no unclaimed write can disturb what was checked.
THEOREM CheckedClaimsHold == Spec => []CheckedClaimsDiffer
<1>1. IInv => CheckedClaimsDiffer
  BY DEF IInv
<1> QED BY <1>1, InductiveInvariant, PTL

\* Only writeCollection changes the Description, and it knows the one it replaces.
LEMMA DescriptionChange ==
  ASSUME IInv, [Next]_vars, desc' # desc
  PROVE  \E p \in Slots :
           /\ pc[p] = "persist" /\ local[p].prior = desc /\ ~CollectionTransitionFails(p)
           /\ desc' = Replacement(local[p].base, desc, req[p])
<1>1. PICK p \in Slots : CollectionPersist(p)
  BY DEF Next, vars, Crash, Finished, Arrive, Step, CollectionRead, CollectionScanned, CollectionLocked,
         ItemRead, UniqueLocked, ScanList, ScanRead, ItemScanned, ItemWrite
<1> QED BY <1>1 DEF CollectionPersist, IInv, UpdateInv, Update

\* assertEncryptionDescriptorTransition is made again under the lock: the epochs
\* of a Collection are append-only whatever its writers had read.
THEOREM AppendOnly == Spec => EpochsAppendOnly
<1>1. IInv /\ [Next]_vars => [desc # None => ~TransitionFails(desc.encryption, desc'.encryption)]_desc
  <2> SUFFICES ASSUME IInv, [Next]_vars, desc' # desc, desc # None
               PROVE  ~TransitionFails(desc.encryption, desc'.encryption)
    OBVIOUS
  <2>1. PICK p \in Slots : ~CollectionTransitionFails(p) /\ desc' = Replacement(local[p].base, desc, req[p])
    BY DescriptionChange
  <2>2. desc'.encryption = Merged(local[p].base, req[p]).encryption
    BY <2>1 DEF Replacement
  <2> QED BY <2>1, <2>2 DEF CollectionTransitionFails, EncryptionOf
<1> QED BY <1>1, InductiveInvariant, PTL DEF Spec, EpochsAppendOnly

\* The creator and the version of a Description come from the reading under the
\* lock: the first creator stays and no version is skipped or given out twice.
THEOREM CreatorKept == Spec => CreatorAndVersionKept
<1>1. IInv /\ [Next]_vars =>
        [desc # None => desc'.createdBy = desc.createdBy /\ desc'.version = desc.version + 1]_desc
  <2> SUFFICES ASSUME IInv, [Next]_vars, desc' # desc, desc # None
               PROVE  desc'.createdBy = desc.createdBy /\ desc'.version = desc.version + 1
    OBVIOUS
  <2>1. PICK p \in Slots : desc' = Replacement(local[p].base, desc, req[p])
    BY DescriptionChange
  <2> QED BY <2>1 DEF Replacement, VersionOf
<1> QED BY <1>1, InductiveInvariant, PTL DEF Spec, CreatorAndVersionKept

\* An If-Match that holds under the lock names the very Description the merge was
\* made from: an update that carries one loses no other update.
THEOREM NothingLost == Spec => ConditionalPutLosesNothing
<1> DEFINE Kept(p) ==
      LET r == req[p]
      IN  /\ VersionOf(desc) = local[p].etag
          /\ r.name = None => desc'.name = desc.name
          /\ r.encryption = None => desc'.encryption = desc.encryption
          /\ r.indexes = None => desc'.indexes = desc.indexes
<1>1. ASSUME IInv, NEW p \in Slots, CollectionPersist(p), local[p].etag # None
      PROVE  Kept(p)
  <2> DEFINE base == local[p].base
  <2>1. /\ pc[p] = "persist" /\ desc' = Replacement(base, local[p].prior, req[p])
        /\ req[p].op = "putCollection"
    BY <1>1 DEF CollectionPersist, IInv, ShapeInv, Shape
  <2>2. /\ Update(p) /\ Merging(p) /\ req[p] \in Request
        /\ local[p].etag \in Nat /\ base \in Description \cup {None} /\ desc \in Description \cup {None}
    BY <1>1, <2>1 DEF IInv, UpdateInv, Merging, TypeOK, Local, ShapeInv, Shape
  <2>3. VersionOf(desc) = local[p].etag
    BY <1>1, <2>1, <2>2 DEF Update, CollectionPreconditionFails
  <2>4. VersionOf(base) \in Nat /\ VersionOf(desc) \in Nat
    BY <2>2, MergedTyped
  <2>5. base = desc
    BY <1>1, <2>2, <2>3, <2>4 DEF Update
  <2>6. desc # None
    BY <1>1, <2>2, <2>3 DEF Update, VersionOf
  <2>7. /\ desc'.name = Merged(desc, req[p]).name
        /\ desc'.encryption = Merged(desc, req[p]).encryption
        /\ desc'.indexes = Merged(desc, req[p]).indexes
    BY <2>1, <2>5 DEF Replacement
  <2>8. /\ req[p].name = None => Merged(desc, req[p]).name = desc.name
        /\ req[p].encryption = None => Merged(desc, req[p]).encryption = desc.encryption
    BY <2>6 DEF Merged, EncryptionOf
  <2>9. req[p].indexes = None => Merged(desc, req[p]).indexes = desc.indexes
    <3>1. None # "cleared"
      BY ConstantsAssumption
    <3> QED BY <2>6, <3>1 DEF Merged, IndexesOf
  <2> QED BY <2>3, <2>7, <2>8, <2>9
<1>2. IInv /\ [Next]_vars =>
        [\A p \in Slots : CollectionPersist(p) /\ local[p].etag # None => Kept(p)]_vars
  BY <1>1
<1> QED BY <1>2, InductiveInvariant, PTL DEF Spec, ConditionalPutLosesNothing
===============================================================================
