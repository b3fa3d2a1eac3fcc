--------------------------- MODULE AuthorityProofs ---------------------------
(* Theorems about Authority, for every value of its constants.             *)
EXTENDS Authority, FiniteSetTheorems, TLAPS

----------------------------------------------------------------------------
(* The inductive invariant.                                                *)

\* The steps of a handler whose request was authenticated, and of one that the
\* inspectors let through as well.
PastInspect == {"clause", "target", "prune target", "act", "write", "removed", "create", "landed"}
PastAuth == PastInspect \cup {"inspect", "prune"}
Labels == {"idle", "fetch", "auth", "policy", "granted"} \cup PastAuth

\* The request r fits the step p it is at, and its view v holds what the step needs.
SlotOk(r, p, v) ==
  /\ v \in View(r)
  /\ p \in Labels
  /\ p = "idle" <=> r = None
  /\ p \in {"idle", "fetch"} => v.root = None /\ v.doc = Unread
  /\ r # None => WellFormed(r)
  /\ p = "policy" => r.kind = "get"
  /\ p = "granted" => r.kind \in {"get", "operate"}
  /\ p = "write" => r.kind \in {"put", "post"}
  /\ p \in {"target", "prune target", "create"} => r.kind = "revoke"
  /\ p \in PastAuth /\ r.kind = "revoke" => r.target # <<>>
  /\ p \in Labels \ {"idle", "fetch"} => v.root # None \/ (r.kind \in {"put", "post"} /\ p \in PastInspect)
  /\ p \in PastAuth /\ v.root # None => r.signer # None

\* A storage read on its way is what its handler waits for.
FillShape(s) == fill[s] # None => request[s] # None /\ Wants(s, fill[s].of)

ShapeInv ==
  /\ DOMAIN pc = Slots /\ DOMAIN view = Slots /\ DOMAIN fill = Slots /\ DOMAIN seen = Slots
  /\ DOMAIN current = Stores /\ DOMAIN acked = Scopes
  /\ \A r \in todo : WellFormed(r)
  /\ \A s \in Slots : SlotOk(request[s], pc[s], view[s]) /\ FillShape(s)

\* What may be answered is among the values no acknowledged write has replaced, and
\* every request in flight has seen these.
SlotCurrent(s) ==
  /\ fill[s] # None => fill[s].value \in current[fill[s].of] \/ fill[s].stale
  /\ request[s] # None =>
       /\ current["space"] \subseteq seen[s].spaces
       /\ current["doc"] \subseteq seen[s].docs
       /\ keystore \in seen[s].configs
CurrentInv ==
  /\ \A k \in Stores : Stored(k) \in current[k]
  /\ \A k \in Stores : cache[k] # None => cache[k].until <= clock + 1
  /\ CachesAreCurrent
  /\ \A s \in Slots : SlotCurrent(s)

----------------------------------------------------------------------------
(* What a step leaves of the other slots, and what witnesses keep.         *)

Kept(t) == request'[t] = request[t] /\ pc'[t] = pc[t] /\ view'[t] = view[t]
Answered(s) == request'[s] = None /\ pc'[s] = "idle" /\ view'[s] = NoView

LEMMA StepOwn ==
  ASSUME TypeOK, ShapeInv, NEW s \in Slots, NEW p, NEW v, Step(s, p, v)
  PROVE  /\ request' = request /\ pc'[s] = p /\ view'[s] = v
         /\ DOMAIN pc' = Slots /\ DOMAIN view' = Slots
         /\ \A t \in Slots \ {s} : Kept(t)
BY DEF Step, Kept, ShapeInv, TypeOK

LEMMA AnswerOwn ==
  ASSUME TypeOK, ShapeInv, NEW s \in Slots, Answer(s)
  PROVE  /\ Answered(s) /\ request' \in [Slots -> Request \cup {None}]
         /\ DOMAIN pc' = Slots /\ DOMAIN view' = Slots
         /\ \A t \in Slots \ {s} : Kept(t)
BY DEF Answer, Answered, Kept, ShapeInv, TypeOK

\* The handler of s steps on with a view that differs in what it has read, or answers.
Moves(s) ==
  /\ \A t \in Slots \ {s} : Kept(t)
  /\ DOMAIN pc' = Slots /\ DOMAIN view' = Slots
  /\ (Answered(s) /\ request' \in [Slots -> Request \cup {None}]) \/ request' = request

LEMMA StepMoves ==
  ASSUME TypeOK, ShapeInv, NEW s \in Slots, NEW p, NEW v, Step(s, p, v)
  PROVE  Moves(s)
BY StepOwn DEF Moves

LEMMA AnswerMoves ==
  ASSUME TypeOK, ShapeInv, NEW s \in Slots, Answer(s)
  PROVE  Moves(s)
BY AnswerOwn DEF Moves

LEMMA AllMove ==
  ASSUME TypeOK, ShapeInv, NEW s \in Slots, Handle(s) \/ FailLate(s), ~Begin(s)
  PROVE  Moves(s)
<1>1. \A p, v : Step(s, p, v) => Moves(s)
  BY StepMoves
<1>2. Answer(s) => Moves(s)
  BY AnswerMoves
<1>3. Deny(s) => Moves(s)
  BY <1>1, <1>2 DEF Deny
<1>4. \A v : Admit(s, v) => Moves(s)
  BY <1>1 DEF Admit
<1>5. \A b, v : Verdict(s, b, v) => Moves(s)
  BY <1>1, <1>2, <1>3, <1>4 DEF Verdict
<1>6. \A k, value, b : Deliver(s, k, value, b) => Moves(s)
  BY <1>1, <1>2 DEF Deliver
<1>7. CASE Fetch(s)
  BY <1>1, <1>2, <1>7 DEF Fetch
<1>8. CASE CacheHit(s) \/ CacheJoin(s) \/ CacheFill(s)
  BY <1>6, <1>8 DEF CacheHit, CacheJoin, CacheFill
<1>9. CASE CacheMiss(s)
  BY <1>9 DEF CacheMiss, Moves, Kept, ShapeInv
<1>10. CASE Authenticate(s) \/ Clause(s) \/ ReadPolicy(s) \/ DecidePolicy(s)
  BY <1>1, <1>2, <1>3, <1>4, <1>10 DEF Authenticate, Clause, ReadPolicy, DecidePolicy
<1>11. CASE Inspect(s) \/ Prune(s)
  BY <1>1, <1>5, <1>11 DEF Inspect, Prune
<1>12. CASE \/ ReadPrior(s) \/ QuotaRefuses(s) \/ WriteSpace(s) \/ RemoveRevocations(s) \/ RemoveSpace(s)
            \/ PublishLog(s) \/ Acknowledge(s)
  BY <1>1, <1>2, <1>12 DEF ReadPrior, QuotaRefuses, WriteSpace, RemoveRevocations, RemoveSpace,
       PublishLog, Acknowledge, Land
<1>13. CASE \/ ChangePolicy(s) \/ ScopeExists(s) \/ InsertRevocation(s) \/ UpdateKeystore(s)
            \/ GenerateKey(s) \/ Operate(s) \/ Serve(s) \/ FailLate(s)
  BY <1>1, <1>2, <1>13 DEF ChangePolicy, ScopeExists, InsertRevocation, UpdateKeystore,
       GenerateKey, Operate, Serve, FailLate
<1> QED BY <1>7, <1>8, <1>9, <1>10, <1>11, <1>12, <1>13 DEF Handle

\* What a request has seen it goes on having seen, and the revocations it knew of at its
\* beginning only become fewer.
LEMMA WitnessGrows ==
  ASSUME Witness, NEW s \in Slots, request'[s] # None, request'[s] = request[s]
  PROVE  /\ seen'[s].spaces = seen[s].spaces \cup {space'}
         /\ seen'[s].docs = seen[s].docs \cup {log'}
         /\ seen'[s].configs = seen[s].configs \cup {keystore'}
         /\ seen'[s].granting <=> (seen[s].granting \/ GrantingNow(request[s].level, policies'))
         /\ seen'[s].changes = seen[s].changes + Cardinality({l \in Levels : policies'[l] # policies[l]})
         /\ seen'[s].revoked = seen[s].revoked \cap acked'[request[s].scope]
BY DEF Witness

LEMMA WitnessBegins ==
  ASSUME Witness, NEW s \in Slots, request'[s] # None, request[s] = None
  PROVE  /\ seen'[s].spaces = current["space"] \cup {space'}
         /\ seen'[s].docs = current["doc"] \cup {log'}
         /\ seen'[s].configs = {keystore'}
         /\ seen'[s].granting <=> GrantingNow(request'[s].level, policies')
         /\ seen'[s].changes = 0
         /\ seen'[s].revoked = acked[request'[s].scope] \cap acked'[request'[s].scope]
<1>1. {l \in Levels : request[s] # None /\ policies'[l] # policies[l]} = {}
  OBVIOUS
<1>2. Cardinality({l \in Levels : request[s] # None /\ policies'[l] # policies[l]}) = 0
  BY <1>1, FS_EmptySet
<1> DEFINE old == [Unseen EXCEPT !.spaces = current["space"], !.docs = current["doc"],
                              !.revoked = acked[request'[s].scope]]
<1>3. /\ old.spaces = current["space"] /\ old.docs = current["doc"] /\ old.configs = {}
      /\ old.granting = FALSE /\ old.changes = 0 /\ old.revoked = acked[request'[s].scope]
  BY DEF Unseen
<1>4. seen'[s] =
        [spaces |-> old.spaces \cup {space'}, docs |-> old.docs \cup {log'},
         configs |-> old.configs \cup {keystore'},
         granting |-> old.granting \/ GrantingNow(request'[s].level, policies'),
         changes |-> old.changes
           + Cardinality({l \in Levels : request[s] # None /\ policies'[l] # policies[l]}),
         revoked |-> old.revoked \cap acked'[request'[s].scope]]
  BY DEF Witness
<1> HIDE DEF old
<1>5. /\ seen'[s].spaces = current["space"] \cup {space'}
      /\ seen'[s].docs = current["doc"] \cup {log'}
      /\ seen'[s].configs = {keystore'}
  BY <1>3, <1>4
<1>6. seen'[s].changes = 0
  BY <1>2, <1>3, <1>4
<1>7. seen'[s].revoked = acked[request'[s].scope] \cap acked'[request'[s].scope]
  BY <1>3, <1>4
<1>8. seen'[s].granting <=> GrantingNow(request'[s].level, policies')
  <2>1. seen'[s].granting = (old.granting \/ GrantingNow(request'[s].level, policies'))
    BY <1>4
  <2>2. old.granting = FALSE
    BY <1>3
  <2> QED BY <2>1, <2>2, Zenon
<1> QED BY <1>5, <1>6, <1>7, <1>8

----------------------------------------------------------------------------
(* Types and shape.                                                        *)

LEMMA ViewUpdate ==
  ASSUME NEW r \in Request \cup {None}, NEW v \in View(r)
  PROVE  /\ \A d \in Versions \cup {Unread} : [v EXCEPT !.doc = d] \in View(r)
         /\ \A k \in Stores : [v EXCEPT !.stale = @ \cup {k}] \in View(r)
         /\ \A q \in Description \cup {None} : [v EXCEPT !.prior = q] \in View(r)
         /\ \A q \in [Levels -> PolicyTypes \cup {None, Unread}] : [v EXCEPT !.policies = q] \in View(r)
         /\ \A q \in SUBSET RevocationNames, b \in BOOLEAN :
              [v EXCEPT !.expired = q, !.revoked = b] \in View(r)
         /\ \A n \in Nat : [v EXCEPT !.began = n] \in View(r)
<1>1. \A d \in Versions \cup {Unread} : [v EXCEPT !.doc = d] \in View(r)
  BY DEF View
<1>2. \A k \in Stores : [v EXCEPT !.stale = @ \cup {k}] \in View(r)
  BY DEF View
<1>3. \A q \in Description \cup {None} : [v EXCEPT !.prior = q] \in View(r)
  BY DEF View
<1>4. \A q \in [Levels -> PolicyTypes \cup {None, Unread}] : [v EXCEPT !.policies = q] \in View(r)
  BY DEF View
<1>5. \A q \in SUBSET RevocationNames, b \in BOOLEAN :
         [v EXCEPT !.expired = q, !.revoked = b] \in View(r)
  BY DEF View
<1>6. \A n \in Nat : [v EXCEPT !.began = n] \in View(r)
  BY DEF View
<1> QED BY <1>1, <1>2, <1>3, <1>4, <1>5, <1>6

LEMMA RootUpdate ==
  ASSUME NEW r \in Request, NEW v \in View(r)
  PROVE  /\ \A d \in Description : r.scope = "space" => [v EXCEPT !.root = d] \in View(r)
         /\ \A d \in Config : r.scope = "keystore" => [v EXCEPT !.root = d] \in View(r)
<1>1. r # None
  BY ConstantsAssumption
<1>2. \A d \in Description : r.scope = "space" => [v EXCEPT !.root = d] \in View(r)
  BY <1>1 DEF View
<1>3. \A d \in Config : r.scope = "keystore" => [v EXCEPT !.root = d] \in View(r)
  BY <1>1 DEF View
<1> QED BY <1>2, <1>3

LEMMA IdleOk == SlotOk(None, "idle", NoView)
<1>1. NoView \in View(None)
  BY DEF NoView, View, Stores
<1> QED BY <1>1 DEF SlotOk, NoView, Labels, PastAuth, PastInspect

LEMMA SlotStep ==
  ASSUME TypeOK, ShapeInv, NEW s \in Slots, Handle(s) \/ FailLate(s)
  PROVE  SlotOk(request'[s], pc'[s], view'[s])
<1> DEFINE r == request[s]
           v == view[s]
           Ok(p, w) == SlotOk(r, p, w)
<1>1. r \in Request \cup {None} /\ v \in View(r) /\ Ok(pc[s], v) /\ FillShape(s)
  BY DEF TypeOK, ShapeInv
<1>2. \A p, w : Step(s, p, w) /\ Ok(p, w) => SlotOk(request'[s], pc'[s], view'[s])
  BY StepOwn
<1>3. Answer(s) => SlotOk(request'[s], pc'[s], view'[s])
  BY AnswerOwn, IdleOk DEF Answered
<1>4. \A w : w \in View(r) => [w EXCEPT !.doc = Unread] \in View(r)
  BY <1>1, ViewUpdate
<1>5. \A w \in View(r) : pc[s] \in PastAuth \cup {"auth"} /\ w.root # None /\ r.signer # None
                           /\ (r.kind = "revoke" => r.target # <<>>) /\ Admit(s, w)
                         => SlotOk(request'[s], pc'[s], view'[s])
  <2> SUFFICES ASSUME NEW w \in View(r), pc[s] \in PastAuth \cup {"auth"}, w.root # None, r.signer # None,
                      r.kind = "revoke" => r.target # <<>>, Admit(s, w)
               PROVE  SlotOk(request'[s], pc'[s], view'[s])
    OBVIOUS
  <2> DEFINE x == [w EXCEPT !.doc = Unread]
             p == IF r.kind = "revoke" THEN "target" ELSE "act"
  <2>1. x \in View(r) /\ x.root = w.root
    BY <1>4 DEF View
  <2> HIDE DEF x
  <2>2. Ok(p, x)
    BY <1>1, <2>1 DEF SlotOk, Labels, PastAuth, PastInspect
  <2>3. Step(s, p, x)
    BY DEF Admit, x
  <2> QED BY <1>2, <2>2, <2>3
<1>6. pc[s] \in PastAuth \cup {"auth"} /\ Deny(s) => SlotOk(request'[s], pc'[s], view'[s])
  <2> DEFINE q == [l \in Levels |-> IF l \in Consulted(r.level) THEN Unread ELSE None]
             w == [v EXCEPT !.policies = q]
  <2>1. q \in [Levels -> PolicyTypes \cup {None, Unread}]
    OBVIOUS
  <2> HIDE DEF q
  <2>2. w \in View(r)
    BY <1>1, <2>1, ViewUpdate
  <2>3. w.root = v.root
    BY <1>1 DEF View
  <2>4. pc[s] \in PastAuth \cup {"auth"} /\ r.kind = "get" => Ok("policy", w)
    BY <1>1, <2>2, <2>3 DEF SlotOk, Labels, PastAuth, PastInspect
  <2>5. r.kind = "get" /\ Deny(s) => Step(s, "policy", w)
    BY DEF Deny, q
  <2>6. r.kind # "get" /\ Deny(s) => Answer(s)
    BY DEF Deny
  <2> HIDE DEF w, Ok
  <2>7. CASE r.kind = "get"
    BY <1>2, <2>4, <2>5, <2>7
  <2>8. CASE r.kind # "get"
    BY <1>3, <2>6, <2>8
  <2> QED BY <2>7, <2>8
<1> HIDE DEF Ok
<1>7. \A b, w : /\ pc[s] \in {"inspect", "prune", "target", "prune target"} /\ w \in View(r)
               /\ w.root = v.root /\ Verdict(s, b, w)
              => SlotOk(request'[s], pc'[s], view'[s])
  <2> SUFFICES ASSUME NEW b, NEW w \in View(r), w.root = v.root, Verdict(s, b, w),
                      pc[s] \in {"inspect", "prune", "target", "prune target"}
               PROVE  SlotOk(request'[s], pc'[s], view'[s])
    OBVIOUS
  <2>0. /\ pc[s] \in PastAuth /\ r # None /\ v.root # None /\ r.signer # None
        /\ r.kind = "revoke" => r.target # <<>>
    BY <1>1 DEF SlotOk, PastAuth, PastInspect, Labels, Ok
  <2>1. CASE pc[s] \in {"target", "prune target"}
    <3>1. Ok("act", w)
      BY <1>1, <2>0 DEF SlotOk, Labels, PastAuth, PastInspect, Ok
    <3> QED BY <1>2, <1>3, <2>1, <3>1 DEF Verdict
  <2>2. CASE pc[s] \in {"inspect", "prune"}
    <3> DEFINE x == [w EXCEPT !.doc = Unread]
    <3>1. x \in View(r) /\ x.root = w.root
      BY <1>4 DEF View
    <3> HIDE DEF x
    <3>2. Ok("clause", x)
      BY <1>1, <2>0, <3>1 DEF SlotOk, Labels, PastAuth, PastInspect, Ok
    <3>3. Deny(s) \/ Admit(s, w) \/ Step(s, "clause", x)
      BY <2>2 DEF Verdict, x
    <3> QED BY <1>2, <1>5, <1>6, <2>0, <3>2, <3>3
  <2> QED BY <2>1, <2>2
<1>8. CASE Begin(s)
  <2>1. /\ request'[s] \in Request /\ WellFormed(request'[s]) /\ pc'[s] = "fetch"
        /\ view'[s] = [v EXCEPT !.began = clock]
    BY <1>8 DEF Begin, ShapeInv, TypeOK
  <2>2. r = None /\ pc[s] = "idle" /\ v.root = None /\ v.doc = Unread
    BY <1>1, <1>8 DEF Begin, Idle, SlotOk, Ok
  <2>3. request'[s] # None
    BY <2>1, ConstantsAssumption
  <2>4. clock \in Nat
    BY DEF TypeOK
  <2>5. v \in View(request'[s])
    BY <1>1, <2>2 DEF View
  <2>6. view'[s] \in View(request'[s])
    <3>1. request'[s] \in Request \cup {None}
      BY <2>1
    <3>2. \A n \in Nat : [v EXCEPT !.began = n] \in View(request'[s])
      BY <2>5, <3>1, ViewUpdate
    <3> QED BY <2>1, <2>4, <3>2
  <2>7. view'[s].root = None /\ view'[s].doc = Unread
    BY <2>1, <2>2, <2>5 DEF View
  <2> QED BY <2>1, <2>3, <2>6, <2>7 DEF SlotOk, Labels, PastAuth, PastInspect
<1>9. CASE Fetch(s)
  <2>1. r # None /\ pc[s] = "fetch" /\ r \in Request /\ WellFormed(r)
    BY <1>1, <1>9 DEF Fetch, Ready, SlotOk, Ok
  <2>2. r.scope = "space" \/ r.scope = "keystore"
    BY <2>1 DEF Request, Scopes
  <2>3. CASE Answer(s)
    BY <1>3, <2>3
  <2>4. CASE r.scope = "keystore" /\ Step(s, "auth", [v EXCEPT !.root = keystore])
    <3> DEFINE x == [v EXCEPT !.root = keystore]
    <3>1. x \in View(r)
      BY <1>1, <2>1, <2>4, RootUpdate DEF TypeOK
    <3>2. x.root # None
      BY <1>1, ConstantsAssumption DEF TypeOK, View
    <3> HIDE DEF x
    <3>3. Ok("auth", x)
      BY <2>1, <3>1, <3>2 DEF SlotOk, Labels, PastAuth, PastInspect, Ok
    <3> QED BY <1>2, <2>4, <3>3 DEF x
  <2>5. CASE r.kind = "put" /\ space # None /\ Step(s, "auth", [v EXCEPT !.root = space])
    <3> DEFINE x == [v EXCEPT !.root = space]
    <3>1. r.scope = "space"
      BY <2>1, <2>2, <2>5 DEF WellFormed
    <3>2. x \in View(r)
      BY <1>1, <2>1, <2>5, <3>1, RootUpdate DEF TypeOK
    <3>3. x.root # None
      BY <1>1, <2>5 DEF View
    <3> HIDE DEF x
    <3>4. Ok("auth", x)
      BY <2>1, <3>2, <3>3 DEF SlotOk, Labels, PastAuth, PastInspect, Ok
    <3> QED BY <1>2, <2>5, <3>4 DEF x
  <2>6. CASE r.scope = "space" /\ Step(s, "act", v)
    <3>1. r.kind \in {"put", "post"}
      BY <1>9, <2>6 DEF Fetch, Uncached
    <3>2. v.root = None
      BY <1>1, <2>1 DEF SlotOk, Ok
    <3>3. Ok("act", v)
      BY <1>1, <2>1, <3>1, <3>2 DEF SlotOk, Labels, PastAuth, PastInspect, Ok
    <3> QED BY <1>2, <2>6, <3>3
  <2>7. \/ Answer(s)
        \/ r.scope = "keystore" /\ Step(s, "auth", [v EXCEPT !.root = keystore])
        \/ r.kind = "put" /\ space # None /\ Step(s, "auth", [v EXCEPT !.root = space])
        \/ r.scope = "space" /\ Step(s, "act", v)
    <3> HIDE DEF v
    <3> QED BY <1>9 DEF Fetch, v
  <2> QED BY <2>3, <2>4, <2>5, <2>6, <2>7
<1>10. \A k \in Stores, b \in BOOLEAN : \A x \in Values(k) :
         Wants(s, k) /\ r # None /\ Deliver(s, k, x, b) => SlotOk(request'[s], pc'[s], view'[s])
  <2> SUFFICES ASSUME NEW k \in Stores, NEW b \in BOOLEAN, NEW x \in Values(k),
                      Wants(s, k), r # None, Deliver(s, k, x, b)
               PROVE  SlotOk(request'[s], pc'[s], view'[s])
    OBVIOUS
  <2> DEFINE w == [v EXCEPT !.stale = IF b THEN @ \cup {k} ELSE @]
  <2>1. w \in View(r) /\ w.root = v.root /\ w.doc = v.doc
    <3>1. CASE b
      <4>1. [v EXCEPT !.stale = @ \cup {k}] \in View(r)
        BY <1>1, ViewUpdate
      <4>2. w = [v EXCEPT !.stale = @ \cup {k}]
        BY <3>1
      <4> HIDE DEF v
      <4> QED BY <4>1, <4>2, <1>1 DEF View
    <3>2. CASE ~b
      BY <1>1, <3>2 DEF View
    <3> QED BY <3>1, <3>2
  <2> HIDE DEF w
  <2>2. CASE k = "doc"
    <3> DEFINE y == [w EXCEPT !.doc = x]
    <3>1. y \in View(r) /\ y.root = v.root
      <4>1. x \in Versions
        BY <2>2 DEF Values
      <4>2. y \in View(r)
        BY <1>1, <2>1, <4>1, ViewUpdate
      <4> QED BY <2>1, <4>2 DEF View
    <3>2. pc[s] \notin {"idle", "fetch"}
      BY <2>2 DEF Wants, WantsDocument
    <3> HIDE DEF y
    <3>3. Ok(pc[s], y)
      BY <1>1, <3>1, <3>2 DEF SlotOk, Labels, PastAuth, PastInspect, Ok
    <3>4. Step(s, pc[s], y)
      BY <2>2 DEF Deliver, w, y
    <3> QED BY <1>2, <3>3, <3>4
  <2>3. CASE k = "space"
    <3> DEFINE y == [w EXCEPT !.root = x]
    <3>1. pc[s] = "fetch" /\ ~Uncached(r) /\ r \in Request /\ WellFormed(r)
      BY <1>1, <2>3 DEF Wants, SlotOk, Ok
    <3>2. r.scope = "space"
      BY <3>1 DEF Uncached, Request, Scopes
    <3>3. CASE x = None
      <4>1. Answer(s)
        BY <2>3, <3>3 DEF Deliver
      <4> QED BY <1>3, <4>1
    <3>4. CASE x # None
      <4>1. x \in Description
        BY <2>3, <3>4 DEF Values
      <4>2. y \in View(r)
        BY <2>1, <3>1, <3>2, <4>1, RootUpdate
      <4>3. y.root # None
        BY <2>1, <3>4 DEF View
      <4> HIDE DEF y
      <4>4. Ok("auth", y)
        BY <2>3, <3>1, <4>2, <4>3 DEF SlotOk, Labels, PastAuth, PastInspect, Ok
      <4>5. Step(s, "auth", y)
        BY <2>3, <3>4 DEF Deliver, w, y
      <4> QED BY <1>2, <4>4, <4>5
    <3> QED BY <3>3, <3>4
  <2> QED BY <2>2, <2>3 DEF Stores
<1>11. CASE CacheHit(s)
  <2>1. PICK k \in DOMAIN cache : Wants(s, k) /\ Usable(k) /\ Deliver(s, k, cache[k].value, cache[k].stale)
    BY <1>11 DEF CacheHit
  <2>2. k \in Stores /\ cache[k] \in Entry(k)
    BY <2>1 DEF TypeOK, Usable
  <2>3. cache[k].value \in Values(k) /\ cache[k].stale \in BOOLEAN
    BY <2>2 DEF Entry
  <2>4. r # None
    BY <1>1, <2>1 DEF Wants, WantsDocument, SlotOk, Ok
  <2> QED BY <1>10, <2>1, <2>2, <2>3, <2>4
<1>12. CASE CacheMiss(s)
  BY <1>1, <1>12 DEF CacheMiss, Ok
<1>13. CASE CacheJoin(s)
  <2>1. PICK t \in Slots : /\ fill[t] # None /\ Wants(s, fill[t].of)
                          /\ Deliver(s, fill[t].of, fill[t].value, fill[t].stale)
    BY <1>13 DEF CacheJoin
  <2>2. fill[t].of \in Stores /\ fill[t].value \in Values(fill[t].of) /\ fill[t].stale \in BOOLEAN
    BY <2>1 DEF TypeOK, Fill
  <2>3. r # None
    BY <1>1, <2>1 DEF Wants, WantsDocument, SlotOk, Ok
  <2> QED BY <1>10, <2>1, <2>2, <2>3
<1>14. CASE CacheFill(s)
  <2>1. fill[s] # None /\ Deliver(s, fill[s].of, fill[s].value, fill[s].stale)
    BY <1>14 DEF CacheFill
  <2>2. fill[s].of \in Stores /\ fill[s].value \in Values(fill[s].of) /\ fill[s].stale \in BOOLEAN
    BY <2>1 DEF TypeOK, Fill
  <2>3. r # None /\ Wants(s, fill[s].of)
    BY <1>1, <2>1 DEF FillShape
  <2> QED BY <1>10, <2>1, <2>2, <2>3
<1>15. CASE Authenticate(s)
  <2>1. /\ pc[s] = "auth" /\ r # None /\ v.root # None
        /\ Deny(s) \/ (r.signer # None /\ Authenticated(s) /\ (Admit(s, v) \/ Step(s, "inspect", v)))
    <3>1. pc[s] = "auth" /\ r # None /\ v.root # None
      BY <1>1, <1>15 DEF Authenticate, Ready, SlotOk, Labels, PastInspect, Ok
    <3> QED BY <1>15, <3>1 DEF Authenticate
  <2>2. CASE Deny(s)
    BY <1>6, <2>1, <2>2
  <2>3. CASE r.signer # None /\ Authenticated(s)
    <3>1. r.kind = "revoke" => r.target # <<>>
      BY <2>3 DEF Authenticated, ChainHolds
    <3>2. CASE Admit(s, v)
      BY <1>1, <1>5, <2>1, <2>3, <3>1, <3>2
    <3>3. CASE Step(s, "inspect", v)
      <4>1. Ok("inspect", v)
        BY <1>1, <2>1, <2>3, <3>1 DEF SlotOk, Labels, PastAuth, PastInspect, Ok
      <4> QED BY <1>2, <3>3, <4>1
    <3> QED BY <1>6, <2>1, <3>2, <3>3
  <2> QED BY <2>1, <2>2, <2>3
<1>16. CASE Inspect(s)
  <2> DEFINE names == Summaries(IF pc[s] = "inspect" THEN r.chain ELSE r.target, v.root.controller)
             known == names \cap DOMAIN revs[r.scope]
             expired == {n \in known : revs[r.scope][n] <= clock}
             w == [v EXCEPT !.expired = expired, !.revoked = known # expired]
  <2>1. pc[s] \in {"inspect", "target"} /\ r # None /\ r \in Request
    BY <1>1, <1>16 DEF Inspect, Ready, SlotOk, Ok
  <2>2. \/ Verdict(s, known # expired, v)
        \/ Step(s, IF pc[s] = "inspect" THEN "prune" ELSE "prune target", w)
    BY <1>16 DEF Inspect
  <2>3. expired \in SUBSET RevocationNames
    BY <2>1 DEF TypeOK, Request
  <2> HIDE DEF expired, known
  <2>4. (known # expired) \in BOOLEAN
    OBVIOUS
  <2>5. w \in View(r)
    BY <1>1, <2>3, <2>4, ViewUpdate
  <2>6. w.root = v.root
    BY <1>1 DEF View
  <2> HIDE DEF w
  <2>7. Ok(IF pc[s] = "inspect" THEN "prune" ELSE "prune target", w)
    BY <1>1, <2>1, <2>5, <2>6 DEF SlotOk, Labels, PastAuth, PastInspect, Ok
  <2>8. CASE Verdict(s, known # expired, v)
    BY <1>1, <1>7, <2>1, <2>8
  <2>9. CASE Step(s, IF pc[s] = "inspect" THEN "prune" ELSE "prune target", w)
    BY <1>2, <2>7, <2>9
  <2> QED BY <2>2, <2>8, <2>9
<1>17. CASE Prune(s)
  <2> DEFINE w == [v EXCEPT !.expired = {}, !.revoked = FALSE]
  <2>1. pc[s] \in {"prune", "prune target"} /\ Verdict(s, v.revoked, w)
    BY <1>17 DEF Prune, Ready
  <2>2. w \in View(r) /\ w.root = v.root
    BY <1>1 DEF View
  <2> HIDE DEF w
  <2> QED BY <1>7, <2>1, <2>2
<1>18. CASE Clause(s)
  <2>1. pc[s] = "clause" /\ (Admit(s, v) \/ Deny(s))
    BY <1>18 DEF Clause, Ready
  <2>2. pc[s] \in PastAuth /\ r # None
    BY <1>1, <2>1 DEF PastAuth, PastInspect, SlotOk, Ok
  <2>3. CASE Deny(s)
    BY <1>6, <2>2, <2>3
  <2>4. CASE Admit(s, v)
    <3>2. CASE v.root # None
      BY <1>1, <1>5, <2>1, <2>2, <2>4, <3>2 DEF SlotOk, Ok
    <3>3. CASE v.root = None
      <4>1. r.kind \in {"put", "post"}
        BY <1>1, <2>1, <3>3 DEF SlotOk, Labels, PastAuth, PastInspect, Ok
      <4> DEFINE x == [v EXCEPT !.doc = Unread]
      <4>2. x \in View(r) /\ x.root = None
        BY <1>1, <1>4, <3>3 DEF View
      <4>3. Step(s, "act", x)
        BY <2>4, <4>1 DEF Admit
      <4> HIDE DEF x
      <4>4. Ok("act", x)
        BY <1>1, <2>2, <4>1, <4>2 DEF SlotOk, Labels, PastAuth, PastInspect, Ok
      <4> QED BY <1>2, <4>3, <4>4
    <3> QED BY <3>2, <3>3
  <2> QED BY <2>1, <2>3, <2>4
<1>19. CASE ReadPolicy(s)
  <2>1. pc[s] = "policy"
    BY <1>19 DEF ReadPolicy, Ready
  <2>2. PICK l \in Levels : Step(s, "policy", [v EXCEPT !.policies[l] = policies[l]])
    BY <1>19 DEF ReadPolicy
  <2> DEFINE q == [v.policies EXCEPT ![l] = policies[l]]
             w == [v EXCEPT !.policies = q]
  <2>3. q \in [Levels -> PolicyTypes \cup {None, Unread}]
    BY <1>1 DEF View, TypeOK
  <2>4. Step(s, "policy", w)
    BY <2>2
  <2> HIDE DEF q
  <2>5. w \in View(r)
    BY <1>1, <2>3, ViewUpdate
  <2>6. w.root = v.root
    BY <1>1 DEF View
  <2> HIDE DEF w
  <2>7. Ok("policy", w)
    BY <1>1, <2>1, <2>5, <2>6 DEF SlotOk, Labels, PastAuth, PastInspect, Ok
  <2> QED BY <1>2, <2>4, <2>7
<1>20. CASE DecidePolicy(s) \/ Operate(s)
  <2>1. Answer(s) \/ Step(s, "granted", v)
    BY <1>20 DEF DecidePolicy, Operate
  <2>2. Ok("granted", v)
    <3>1. pc[s] = "policy" \/ (pc[s] = "act" /\ r.kind = "operate")
      BY <1>20 DEF DecidePolicy, Operate, Ready
    <3> QED BY <1>1, <3>1 DEF SlotOk, Labels, PastAuth, PastInspect, Ok
  <2> QED BY <1>2, <1>3, <2>1, <2>2
<1>21. CASE ReadPrior(s)
  <2> DEFINE w == IF backend = "filesystem" THEN [v EXCEPT !.prior = space] ELSE v
  <2>1. pc[s] = "act" /\ r.kind \in {"put", "post"} /\ (Answer(s) \/ Step(s, "write", w))
    BY <1>21 DEF ReadPrior, Ready
  <2>2. w \in View(r) /\ w.root = v.root
    <3>1. space \in Description \cup {None}
      BY DEF TypeOK
    <3>2. [v EXCEPT !.prior = space] \in View(r)
      BY <1>1, <3>1, ViewUpdate
    <3>3. [v EXCEPT !.prior = space].root = v.root
      BY <1>1 DEF View
    <3> QED BY <1>1, <3>2, <3>3
  <2> HIDE DEF w
  <2>3. Ok("write", w)
    BY <1>1, <2>1, <2>2 DEF SlotOk, Labels, PastAuth, PastInspect, Ok
  <2> QED BY <1>2, <1>3, <2>1, <2>3
<1>22. CASE WriteSpace(s) \/ RemoveRevocations(s) \/ RemoveSpace(s) \/ PublishLog(s)
  <2>1. Step(s, "landed", v) \/ Step(s, "removed", v)
    BY <1>22 DEF WriteSpace, RemoveRevocations, RemoveSpace, PublishLog, Land
  <2>2. pc[s] \in {"write", "act", "removed"}
    BY <1>22 DEF WriteSpace, RemoveRevocations, RemoveSpace, PublishLog, Ready
  <2>3. Ok("landed", v) /\ Ok("removed", v)
    BY <1>1, <2>2 DEF SlotOk, Labels, PastAuth, PastInspect, Ok
  <2> QED BY <1>2, <2>1, <2>3
<1>23. CASE ScopeExists(s)
  <2>1. pc[s] = "act" /\ r.kind = "revoke" /\ (Answer(s) \/ Step(s, "create", v))
    BY <1>23 DEF ScopeExists, Ready
  <2>2. Ok("create", v)
    BY <1>1, <2>1 DEF SlotOk, Labels, PastAuth, PastInspect, Ok
  <2> QED BY <1>2, <1>3, <2>1, <2>2
<1>24. CASE \/ QuotaRefuses(s) \/ Acknowledge(s) \/ ChangePolicy(s) \/ InsertRevocation(s)
            \/ UpdateKeystore(s) \/ GenerateKey(s) \/ Serve(s) \/ FailLate(s)
  <2>1. Answer(s)
    BY <1>24 DEF QuotaRefuses, Acknowledge, ChangePolicy, InsertRevocation, UpdateKeystore,
         GenerateKey, Serve, FailLate
  <2> QED BY <1>3, <2>1
<1> QED BY <1>8, <1>9, <1>11, <1>12, <1>13, <1>14, <1>15, <1>16, <1>17, <1>18, <1>19, <1>20, <1>21,
       <1>22, <1>23, <1>24 DEF Handle

\* A handler that answers waits for nothing; only a miss starts a storage read.
LEMMA FillOfHandler ==
  ASSUME NEW s \in Slots, ShapeInv, Handle(s) \/ FailLate(s)
  PROVE  \/ CacheMiss(s)
         \/ CacheFill(s)
         \/ fill[s] = None /\ fill' = fill
         \/ Begin(s) /\ fill' = fill
         \/ fill[s] = None /\ Acknowledge(s)
<1>1. \A p : Ready(s, p) => fill[s] = None
  BY DEF Ready
<1>2. CASE Begin(s)
  BY <1>2 DEF Begin
<1>3. CASE CacheHit(s) \/ CacheJoin(s)
  BY <1>3 DEF CacheHit, CacheJoin
<1>4. CASE \/ Fetch(s) \/ Authenticate(s) \/ Inspect(s) \/ Prune(s) \/ Clause(s) \/ ReadPolicy(s)
           \/ DecidePolicy(s) \/ ReadPrior(s) \/ QuotaRefuses(s) \/ WriteSpace(s) \/ RemoveRevocations(s)
           \/ RemoveSpace(s) \/ PublishLog(s)
  BY <1>1, <1>4 DEF Fetch, Authenticate, Inspect, Prune, Clause, ReadPolicy, DecidePolicy, ReadPrior,
       QuotaRefuses, WriteSpace, RemoveRevocations, RemoveSpace, PublishLog
<1>5. CASE \/ ChangePolicy(s) \/ ScopeExists(s) \/ InsertRevocation(s) \/ UpdateKeystore(s)
           \/ GenerateKey(s) \/ Operate(s) \/ Serve(s) \/ FailLate(s)
  BY <1>1, <1>5 DEF ChangePolicy, ScopeExists, InsertRevocation, UpdateKeystore, GenerateKey, Operate,
       Serve, FailLate
<1>6. CASE Acknowledge(s)
  BY <1>1, <1>6 DEF Acknowledge
<1> QED BY <1>2, <1>3, <1>4, <1>5, <1>6 DEF Handle

LEMMA WantsKept ==
  ASSUME NEW t \in Slots, NEW k, Kept(t), Wants(t, k)
  PROVE  Wants(t, k)'
BY DEF Kept, Wants, WantsDocument

FillOk(s) == fill[s] # None => fill[s].of \in Stores /\ fill[s] \in Fill(fill[s].of)

LEMMA StoredTyped ==
  ASSUME TypeOK, NEW k \in Stores
  PROVE  Stored(k) \in Values(k)
BY DEF TypeOK, Stored, Values

LEMMA FillStep ==
  ASSUME TypeOK, ShapeInv, NEW s \in Slots, Handle(s) \/ FailLate(s)
  PROVE  DOMAIN fill' = Slots /\ \A t \in Slots : FillOk(t)' /\ FillShape(t)'
<1>1. DOMAIN fill = Slots /\ \A t \in Slots : FillOk(t) /\ FillShape(t)
  BY DEF ShapeInv, TypeOK, FillOk
<1>2. \A t \in Slots \ {s} : FillShape(t) /\ Kept(t) /\ (fill'[t] # None => fill[t] # None /\ fill'[t].of = fill[t].of)
                               => FillShape(t)'
  BY WantsKept DEF FillShape, Kept
<1>3. CASE fill[s] = None /\ fill' = fill
  <2>1. ~Begin(s) => \A t \in Slots \ {s} : Kept(t)
    BY AllMove DEF Moves
  <2>2. Begin(s) => \A t \in Slots \ {s} : Kept(t)
    BY DEF Begin, Kept, TypeOK, ShapeInv
  <2>3. \A t \in Slots \ {s} : FillShape(t)'
    BY <1>1, <1>2, <1>3, <2>1, <2>2
  <2>4. FillShape(s)'
    BY <1>3 DEF FillShape
  <2>5. \A t \in Slots : FillOk(t)'
    BY <1>1, <1>3 DEF FillOk
  <2> QED BY <1>1, <1>3, <2>3, <2>4, <2>5
<1>4. CASE Begin(s) /\ fill' = fill
  <2>1. fill[s] = None
    <3>1. request[s] = None
      BY <1>4 DEF Begin, Idle
    <3> QED BY <1>1, <3>1 DEF FillShape
  <2> QED BY <1>3, <1>4, <2>1
<1>5. CASE CacheMiss(s)
  <2>1. PICK k \in Stores : Wants(s, k) /\ fill' = [fill EXCEPT ![s] = [of |-> k, value |-> Stored(k), stale |-> FALSE]]
    BY <1>5 DEF CacheMiss, TypeOK
  <2>2. UNCHANGED <<request, pc, view>>
    BY <1>5 DEF CacheMiss
  <2>3. \A t \in Slots : Kept(t)
    BY <2>2 DEF Kept
  <2>4. fill'[s] = [of |-> k, value |-> Stored(k), stale |-> FALSE]
    BY <1>1, <2>1
  <2>5. fill'[s].of = k /\ fill'[s] \in Fill(k)
    BY <2>4, StoredTyped DEF Fill
  <2>6. FillOk(s)'
    BY <2>1, <2>5 DEF FillOk
  <2>7. Wants(s, k)'
    BY <2>1, <2>3, WantsKept
  <2>8. request[s] # None
    BY <2>1 DEF Wants, WantsDocument, ShapeInv, SlotOk
  <2>9. FillShape(s)'
    BY <2>2, <2>5, <2>7, <2>8 DEF FillShape
  <2>10. \A t \in Slots \ {s} : fill'[t] = fill[t]
    BY <1>1, <2>1
  <2>11. \A t \in Slots \ {s} : FillShape(t)' /\ FillOk(t)'
    BY <1>1, <1>2, <2>3, <2>10 DEF FillOk
  <2> QED BY <1>1, <2>1, <2>6, <2>9, <2>11
<1>6. CASE CacheFill(s)
  <2>1. fill' = [fill EXCEPT ![s] = None]
    BY <1>6 DEF CacheFill
  <2>2. ~Begin(s)
    BY <1>1, <1>6 DEF CacheFill, Begin, Idle, FillShape
  <2>3. \A t \in Slots \ {s} : Kept(t)
    BY <2>2, AllMove DEF Moves
  <2>4. FillShape(s)' /\ FillOk(s)'
    BY <1>1, <2>1 DEF FillShape, FillOk
  <2>5. \A t \in Slots \ {s} : fill'[t] = fill[t]
    BY <1>1, <2>1
  <2>6. \A t \in Slots \ {s} : FillShape(t)' /\ FillOk(t)'
    BY <1>1, <1>2, <2>3, <2>5 DEF FillOk
  <2> QED BY <1>1, <2>1, <2>4, <2>6
<1>7. CASE fill[s] = None /\ Acknowledge(s)
  <2>1. pc[s] = "landed"
    BY <1>7 DEF Acknowledge, Ready
  <2>2. ~Begin(s)
    BY <2>1 DEF Begin, Idle, ShapeInv, SlotOk
  <2>3. \A t \in Slots \ {s} : Kept(t)
    BY <2>2, AllMove DEF Moves
  <2>4. DOMAIN fill' = Slots /\ \A t \in Slots : fill'[t] = fill[t] \/ (fill[t] # None /\ fill'[t] = [fill[t] EXCEPT !.stale = TRUE])
    BY <1>7 DEF Acknowledge
  <2>5. \A t \in Slots : fill[t] # None => /\ [fill[t] EXCEPT !.stale = TRUE].of = fill[t].of
                                          /\ [fill[t] EXCEPT !.stale = TRUE] \in Fill(fill[t].of)
    BY <1>1 DEF FillOk, Fill
  <2>6. \A t \in Slots : fill'[t] # None => /\ fill[t] # None /\ fill'[t].of = fill[t].of
                                           /\ fill'[t] \in Fill(fill[t].of)
    BY <1>1, <2>4, <2>5 DEF FillOk
  <2>7. fill'[s] = None
    BY <1>7, <2>6
  <2>8. \A t \in Slots : FillOk(t)'
    BY <1>1, <2>6 DEF FillOk
  <2>9. \A t \in Slots : FillShape(t)'
    BY <1>1, <1>2, <2>3, <2>6, <2>7 DEF FillShape
  <2> QED BY <2>4, <2>8, <2>9
<1> QED BY <1>3, <1>4, <1>5, <1>6, <1>7, FillOfHandler

\* Steps of a handler that only read.
Quiet(s) ==
  \/ Fetch(s) \/ CacheHit(s) \/ CacheMiss(s) \/ CacheJoin(s) \/ Authenticate(s) \/ Inspect(s) \/ Clause(s)
  \/ ReadPolicy(s) \/ DecidePolicy(s) \/ ReadPrior(s) \/ QuotaRefuses(s) \/ ScopeExists(s)
  \/ Operate(s) \/ Serve(s)

LEMMA QuietLeaves ==
  ASSUME NEW s \in Slots, Quiet(s)
  PROVE  UNCHANGED <<stored, cache, books>> /\ Witness
<1>1. CASE Fetch(s) \/ CacheHit(s) \/ CacheMiss(s) \/ CacheJoin(s) \/ Authenticate(s) \/ Inspect(s) \/ Clause(s)
  BY <1>1 DEF Fetch, CacheHit, CacheMiss, CacheJoin, Authenticate, Inspect, Clause
<1>2. CASE \/ ReadPolicy(s) \/ DecidePolicy(s) \/ ReadPrior(s) \/ QuotaRefuses(s) \/ ScopeExists(s)
           \/ Operate(s) \/ Serve(s)
  BY <1>2 DEF ReadPolicy, DecidePolicy, ReadPrior, QuotaRefuses, ScopeExists, Operate, Serve
<1> QED BY <1>1, <1>2 DEF Quiet

\* The variables that are not per slot have their types.
StoredOk ==
  /\ backend \in {"filesystem", "postgres"}
  /\ space \in Description \cup {None}
  /\ keystore \in Config
  /\ keys \in Seq(Nat)
  /\ log \in Versions
  /\ policies \in [Levels -> PolicyTypes \cup {None}]
RevsOk ==
  /\ DOMAIN revs = Scopes
  /\ \A c \in Scopes : /\ DOMAIN revs[c] \subseteq RevocationNames
                       /\ \A n \in DOMAIN revs[c] : revs[c][n] \in Nat
CacheOk == DOMAIN cache = Stores /\ \A k \in Stores : cache[k] \in Entry(k) \cup {None}
CountsOk == clock \in 0 .. MaxTime /\ faults \in 0 .. MaxFaults /\ todo \subseteq Request
CurrentOk == current["space"] \subseteq Description \cup {None} /\ current["doc"] \subseteq Versions

LEMMA TypeParts ==
  TypeOK <=> /\ StoredOk /\ RevsOk /\ CacheOk /\ CountsOk /\ CurrentOk
             /\ request \in [Slots -> Request \cup {None}]
             /\ \A s \in Slots : view[s] \in View(request[s]) /\ FillOk(s)
             /\ \A s \in Slots : pc[s] = "idle" <=> request[s] = None
BY DEF TypeOK, StoredOk, RevsOk, CacheOk, CountsOk, CurrentOk, FillOk

LEMMA TypePartsNext ==
  (StoredOk /\ RevsOk /\ CacheOk /\ CountsOk /\ CurrentOk
   /\ request \in [Slots -> Request \cup {None}]
   /\ (\A s \in Slots : view[s] \in View(request[s]) /\ FillOk(s))
   /\ (\A s \in Slots : pc[s] = "idle" <=> request[s] = None))' => TypeOK'
BY TypeParts, PTL

LEMMA ChainMembers ==
  ASSUME NEW chain \in Chains
  PROVE  chain \in Seq(DOMAIN Capability) /\ \A j \in DOMAIN chain : chain[j] \in DOMAIN Capability
<1>1. CASE chain = <<>>
  BY <1>1
<1>2. CASE \E c \in DOMAIN Capability : chain = <<c>>
  BY <1>2
<1>3. CASE \E c, d \in DOMAIN Capability : chain = <<c, d>>
  BY <1>3
<1> QED BY <1>1, <1>2, <1>3 DEF Chains

LEMMA DelegatorTyped ==
  ASSUME NEW chain \in Chains, NEW controller \in Dids, NEW i \in 1 .. Len(chain) + 1
  PROVE  Delegator(chain, controller, i) \in Dids
<1>1. chain \in Seq(DOMAIN Capability) /\ \A j \in DOMAIN chain : chain[j] \in DOMAIN Capability
  BY ChainMembers
<1>2. Len(chain) \in Nat /\ DOMAIN chain = 1 .. Len(chain)
  BY <1>1
<1>3. CASE i = 1
  BY <1>1, <1>3 DEF Delegator
<1>4. CASE i # 1
  <2>1. i - 1 \in DOMAIN chain
    BY <1>2, <1>4
  <2>2. Capability[chain[i - 1]].controller \in Dids
    BY <1>1, <2>1 DEF Dids
  <2> QED BY <1>1, <1>4, <2>2 DEF Delegator
<1> QED BY <1>3, <1>4

\* The name of a record to be created is one.
LEMMA TargetNameTyped ==
  ASSUME TypeOK, ShapeInv, NEW s \in Slots, pc[s] \in PastAuth, request[s].kind = "revoke"
  PROVE  /\ TargetName(s) \in RevocationNames
         /\ request[s].target[Len(request[s].target)] \in DOMAIN Capability
<1> DEFINE r == request[s]
           target == request[s].target
<1>1. r # None /\ r \in Request /\ target # <<>> /\ view[s].root # None /\ view[s] \in View(r)
  BY DEF ShapeInv, SlotOk, TypeOK, PastAuth, PastInspect, Labels
<1>2. target \in Chains
  BY <1>1 DEF Request
<1>3. view[s].root.controller \in Dids
  BY <1>1 DEF View, Config, Description
<1>4. Len(target) \in 1 .. Len(target) + 1 /\ Len(target) \in DOMAIN target
  BY <1>1, <1>2 DEF Chains
<1>5. Delegator(target, view[s].root.controller, Len(target)) \in Dids
  BY <1>2, <1>3, <1>4, DelegatorTyped
<1>6. target[Len(target)] \in DOMAIN Capability
  BY <1>2, <1>4, ChainMembers
<1> QED BY <1>5, <1>6 DEF TargetName, RevocationNames

LEMMA CreatorTyped ==
  ASSUME TypeOK, ShapeInv, NEW s \in Slots, WriteSpace(s)
  PROVE  space' \in Description
<1> DEFINE r == request[s]
           root == view[s].root
           prior == IF backend = "filesystem" THEN view[s].prior ELSE space
           type == IF root # None THEN root.type ELSE IF r.type # None THEN r.type ELSE "plain"
<1>1. pc[s] = "write"
  BY DEF WriteSpace, Ready
<1>2. r \in Request /\ r.kind \in {"put", "post"} /\ WellFormed(r) /\ view[s] \in View(r) /\ r # None
  BY <1>1 DEF ShapeInv, SlotOk, TypeOK
<1>3. r.controller \in Dids /\ r.scope = "space"
  BY <1>2 DEF Request, WellFormed, Scopes
<1>4. root \in Description \cup {None} /\ view[s].prior \in Description \cup {None}
  BY <1>2, <1>3 DEF View
<1>5. prior \in Description \cup {None}
  BY <1>4 DEF TypeOK
<1>6. InvokerDid(r) \in Dids \cup {None}
  BY <1>2 DEF InvokerDid, Request, Dids
<1>7. Creator(prior, r) \in Dids \cup {None}
  BY <1>5, <1>6 DEF Creator, Description
<1>8. type \in SpaceTypes
  BY <1>2, <1>4 DEF Description, Request, SpaceTypes
<1>9. space' = [controller |-> r.controller, creator |-> Creator(prior, r), type |-> type]
  BY DEF WriteSpace
<1> HIDE DEF type, prior
<1> QED BY <1>3, <1>7, <1>8, <1>9 DEF Description

LEMMA GlobalsStep ==
  ASSUME TypeOK, ShapeInv, NEW s \in Slots, Handle(s) \/ FailLate(s)
  PROVE  (StoredOk /\ RevsOk /\ CacheOk /\ CountsOk /\ CurrentOk)'
<1>1. StoredOk /\ RevsOk /\ CacheOk /\ CountsOk /\ CurrentOk
  BY TypeParts
<1>2. DOMAIN current = Stores /\ "space" \in Stores /\ "doc" \in Stores
  BY DEF ShapeInv, Stores
<1>3. UNCHANGED <<backend, space, keystore, keys, log, policies>> => StoredOk'
  BY <1>1 DEF StoredOk
<1>4. UNCHANGED revs => RevsOk'
  BY <1>1 DEF RevsOk
<1>5. UNCHANGED cache => CacheOk'
  BY <1>1 DEF CacheOk
<1>6. UNCHANGED <<clock, todo, faults>> => CountsOk'
  BY <1>1 DEF CountsOk
<1>7. UNCHANGED current => CurrentOk'
  BY <1>1 DEF CurrentOk
<1>8. Land(s) /\ StoredOk' => CurrentOk'
  BY <1>1, <1>2 DEF Land, CurrentOk, StoredOk
<1>9. CASE Quiet(s)
  BY <1>3, <1>4, <1>5, <1>6, <1>7, <1>9, QuietLeaves DEF stored, books
<1>10. CASE Begin(s)
  <2>1. CountsOk'
    BY <1>1, <1>10 DEF Begin, CountsOk
  <2> QED BY <1>3, <1>4, <1>5, <1>7, <1>10, <2>1 DEF Begin, stored
<1>11. CASE CacheFill(s)
  <2>1. UNCHANGED <<stored, books>>
    BY <1>11 DEF CacheFill
  <2>2. fill[s] # None /\ fill[s] \in Fill(fill[s].of) /\ fill[s].of \in Stores
    BY <1>11 DEF CacheFill, TypeOK
  <2>3. \/ cache' = [cache EXCEPT ![fill[s].of] =
                  [value |-> fill[s].value, until |-> clock + 1, stale |-> fill[s].stale]]
        \/ UNCHANGED cache
    BY <1>11 DEF CacheFill
  <2>4. [value |-> fill[s].value, until |-> clock + 1, stale |-> fill[s].stale] \in Entry(fill[s].of)
    BY <1>1, <2>2 DEF Fill, Entry, CountsOk
  <2>5. CacheOk'
    BY <1>1, <1>5, <2>2, <2>3, <2>4 DEF CacheOk
  <2> QED BY <1>3, <1>4, <1>6, <1>7, <2>1, <2>5 DEF stored, books
<1>12. CASE Prune(s)
  <2> DEFINE scope == request[s].scope
             gone == view[s].expired
  <2>1. revs' = [revs EXCEPT ![scope] = [n \in DOMAIN @ \ gone |-> @[n]]]
    BY <1>12 DEF Prune
  <2>2. RevsOk'
    <3> HIDE DEF scope, gone
    <3> QED BY <1>1, <2>1 DEF RevsOk
  <2> QED BY <1>3, <1>5, <1>6, <1>7, <1>12, <2>2 DEF Prune
<1>13. CASE WriteSpace(s)
  <2>1. StoredOk'
    BY <1>1, <1>13, CreatorTyped DEF StoredOk, WriteSpace
  <2> QED BY <1>4, <1>5, <1>6, <1>8, <1>13, <2>1 DEF WriteSpace
<1>14. CASE RemoveRevocations(s)
  <2>1. revs' = [revs EXCEPT !["space"] = <<>>]
    BY <1>14 DEF RemoveRevocations
  <2>2. RevsOk'
    BY <1>1, <2>1 DEF RevsOk
  <2> QED BY <1>3, <1>5, <1>6, <1>7, <1>14, <2>2 DEF RemoveRevocations
<1>15. CASE RemoveSpace(s)
  <2>1. StoredOk'
    BY <1>1, <1>15 DEF RemoveSpace, StoredOk, Versions
  <2>2. UNCHANGED revs \/ revs' = [revs EXCEPT !["space"] = <<>>]
    BY <1>15 DEF RemoveSpace
  <2>3. RevsOk'
    BY <1>1, <2>2 DEF RevsOk
  <2> QED BY <1>5, <1>6, <1>8, <1>15, <2>1, <2>3 DEF RemoveSpace
<1>16. CASE PublishLog(s)
  <2>1. pc[s] = "act"
    BY <1>16 DEF PublishLog, Ready
  <2>2. request[s] \in Request
    BY <2>1 DEF TypeOK
  <2>3. request[s].version \in Versions
    BY <2>2 DEF Request
  <2>4. StoredOk'
    BY <1>1, <1>16, <2>3 DEF PublishLog, StoredOk
  <2> QED BY <1>4, <1>5, <1>6, <1>8, <1>16, <2>4 DEF PublishLog
<1>17. CASE Acknowledge(s)
  <2>1. UNCHANGED <<stored, backend, clock, todo, acked, faults>>
    BY <1>17 DEF Acknowledge
  <2>2. DOMAIN cache' = DOMAIN cache /\ \A k \in DOMAIN cache : cache'[k] = None \/ cache'[k] = cache[k]
    BY <1>17 DEF Acknowledge
  <2>3. CacheOk'
    BY <1>1, <2>2 DEF CacheOk
  <2>4. \A k \in DOMAIN current : current'[k] = {Stored(k)} \/ current'[k] = current[k]
    BY <1>17 DEF Acknowledge
  <2>5. CurrentOk'
    BY <1>1, <1>2, <2>4, StoredTyped DEF CurrentOk, Values
  <2> QED BY <1>3, <1>4, <1>6, <2>1, <2>3, <2>5 DEF stored
<1>18. CASE ChangePolicy(s)
  <2>1. pc[s] = "act"
    BY <1>18 DEF ChangePolicy, Ready
  <2>2. request[s] \in Request
    BY <2>1 DEF TypeOK
  <2>3. request[s].policy \in PolicyTypes \cup {None}
    BY <2>2 DEF Request
  <2>4. policies' = [policies EXCEPT ![request[s].level] = request[s].policy]
    BY <1>18 DEF ChangePolicy
  <2>5. StoredOk'
    BY <1>1, <1>18, <2>3, <2>4 DEF ChangePolicy, StoredOk, books
  <2> QED BY <1>4, <1>5, <1>6, <1>7, <1>18, <2>5 DEF ChangePolicy, books
<1>19. CASE InsertRevocation(s)
  <2> DEFINE r == request[s]
             name == TargetName(s)
             kept == IF backend = "filesystem" THEN DOMAIN revs[r.scope]
                     ELSE {n \in DOMAIN revs[r.scope] : clock < revs[r.scope][n]}
             last == r.target[Len(r.target)]
  <2>1. pc[s] \in PastAuth /\ r.kind = "revoke"
    BY <1>19 DEF InsertRevocation, Ready, PastAuth, PastInspect
  <2>2. name \in RevocationNames /\ last \in DOMAIN Capability
    BY <2>1, TargetNameTyped
  <2>3. r \in Request /\ r.scope \in Scopes
    <3>1. pc[s] # "idle"
      BY <2>1 DEF PastAuth, PastInspect
    <3>2. request[s] \in Request
      BY <3>1 DEF TypeOK
    <3> QED BY <3>2 DEF Request
  <2>4. RecordExpiry(last) \in Nat
    BY <2>2, ConstantsAssumption DEF RecordExpiry
  <2>5. \/ revs' = [revs EXCEPT ![r.scope] = [n \in kept |-> @[n]]]
        \/ revs' = [revs EXCEPT ![r.scope] = [n \in kept \cup {name} |-> IF n = name THEN RecordExpiry(last) ELSE @[n]]]
    BY <1>19 DEF InsertRevocation
  <2>6. kept \subseteq DOMAIN revs[r.scope]
    OBVIOUS
  <2> HIDE DEF kept, name, last
  <2>7. RevsOk'
    <3>1. CASE revs' = [revs EXCEPT ![r.scope] = [n \in kept |-> @[n]]]
      BY <1>1, <2>3, <2>6, <3>1 DEF RevsOk
    <3>2. CASE revs' = [revs EXCEPT ![r.scope] = [n \in kept \cup {name} |-> IF n = name THEN RecordExpiry(last) ELSE @[n]]]
      BY <1>1, <2>2, <2>3, <2>4, <2>6, <3>2 DEF RevsOk
    <3> QED BY <2>5, <3>1, <3>2
  <2> QED BY <1>3, <1>5, <1>6, <1>7, <1>19, <2>7 DEF InsertRevocation
<1>20. CASE UpdateKeystore(s)
  <2>1. pc[s] = "act" /\ request[s].kind = "update"
    BY <1>20 DEF UpdateKeystore, Ready
  <2>2. request[s] \in Request /\ WellFormed(request[s])
    BY <2>1 DEF TypeOK, ShapeInv, SlotOk
  <2>3. request[s].controller \in Dids /\ request[s].sequence \in Nat
    BY <2>1, <2>2 DEF Request, WellFormed
  <2>4. keystore' \in Config
    BY <1>1, <1>20, <2>3 DEF UpdateKeystore, StoredOk, Config
  <2>5. StoredOk'
    BY <1>1, <1>20, <2>4 DEF UpdateKeystore, StoredOk, books
  <2> QED BY <1>4, <1>5, <1>6, <1>7, <1>20, <2>5 DEF UpdateKeystore, books
<1>21. CASE GenerateKey(s)
  <2>1. pc[s] = "act"
    BY <1>21 DEF GenerateKey, Ready
  <2>2. request[s] \in Request
    BY <2>1 DEF TypeOK
  <2>3. request[s].bound \in Nat
    BY <2>2 DEF Request
  <2>4. keys' = Append(keys, request[s].bound) /\ keys' \in Seq(Nat)
    BY <1>1, <1>21, <2>3 DEF GenerateKey, StoredOk
  <2>5. StoredOk'
    BY <1>1, <1>21, <2>4 DEF GenerateKey, StoredOk, books
  <2> QED BY <1>4, <1>5, <1>6, <1>7, <1>21, <2>5 DEF GenerateKey, books
<1>22. CASE FailLate(s)
  <2>1. CountsOk'
    BY <1>1, <1>22, ConstantsAssumption DEF FailLate, CountsOk
  <2> QED BY <1>3, <1>4, <1>5, <1>7, <1>22, <2>1 DEF FailLate, stored
<1> QED BY <1>9, <1>10, <1>11, <1>12, <1>13, <1>14, <1>15, <1>16, <1>17, <1>18, <1>19, <1>20, <1>21, <1>22
     DEF Handle, Quiet

LEMMA AlwaysWitness ==
  ASSUME NEW s \in Slots, Handle(s) \/ FailLate(s)
  PROVE  Witness
<1>1. Quiet(s) => Witness
  BY QuietLeaves
<1>2. CASE Begin(s) \/ CacheFill(s) \/ Prune(s) \/ WriteSpace(s) \/ RemoveRevocations(s)
           \/ RemoveSpace(s) \/ PublishLog(s)
  BY <1>2 DEF Begin, CacheFill, Prune, WriteSpace, RemoveRevocations, RemoveSpace, PublishLog
<1>3. CASE \/ Acknowledge(s) \/ ChangePolicy(s) \/ InsertRevocation(s) \/ UpdateKeystore(s)
           \/ GenerateKey(s) \/ FailLate(s)
  BY <1>3 DEF Acknowledge, ChangePolicy, InsertRevocation, UpdateKeystore, GenerateKey, FailLate
<1> QED BY <1>1, <1>2, <1>3 DEF Handle, Quiet

\* Only these change the histories, and only Begin takes a request.
LEMMA BookDomains ==
  ASSUME ShapeInv, NEW s \in Slots, Handle(s) \/ FailLate(s)
  PROVE  DOMAIN current' = Stores /\ DOMAIN acked' = Scopes /\ todo' \subseteq todo
<1>1. DOMAIN current = Stores /\ DOMAIN acked = Scopes
  BY DEF ShapeInv
<1>2. CASE Quiet(s)
  BY <1>1, <1>2, QuietLeaves DEF books
<1>3. CASE Begin(s) \/ CacheFill(s) \/ Prune(s) \/ RemoveRevocations(s)
  BY <1>1, <1>3 DEF Begin, CacheFill, Prune, RemoveRevocations, books
<1>4. CASE WriteSpace(s) \/ RemoveSpace(s) \/ PublishLog(s)
  BY <1>1, <1>4 DEF WriteSpace, RemoveSpace, PublishLog, Land
<1>5. CASE \/ Acknowledge(s) \/ ChangePolicy(s) \/ InsertRevocation(s) \/ UpdateKeystore(s)
           \/ GenerateKey(s) \/ FailLate(s)
  BY <1>1, <1>5 DEF Acknowledge, ChangePolicy, InsertRevocation, UpdateKeystore, GenerateKey, FailLate, books
<1> QED BY <1>2, <1>3, <1>4, <1>5 DEF Handle, Quiet

LEMMA BeginMoves ==
  ASSUME TypeOK, ShapeInv, NEW s \in Slots, Begin(s)
  PROVE  /\ \A t \in Slots \ {s} : Kept(t)
         /\ DOMAIN pc' = Slots /\ DOMAIN view' = Slots
         /\ request' \in [Slots -> Request \cup {None}]
         /\ request[s] = None /\ request'[s] \in todo /\ pc'[s] = "fetch"
         /\ view'[s] = [view[s] EXCEPT !.began = clock]
BY DEF Begin, Idle, Kept, ShapeInv, TypeOK

LEMMA HandlerTyped ==
  ASSUME TypeOK, ShapeInv, NEW s \in Slots, Handle(s) \/ FailLate(s)
  PROVE  TypeOK' /\ ShapeInv'
<1>1. \A t \in Slots \ {s} : Kept(t)
  BY BeginMoves, AllMove DEF Moves
<1>2. DOMAIN pc' = Slots /\ DOMAIN view' = Slots /\ request' \in [Slots -> Request \cup {None}]
  BY BeginMoves, AllMove DEF Moves, TypeOK
<1>3. \A t \in Slots : SlotOk(request[t], pc[t], view[t])'
  <2>1. SlotOk(request'[s], pc'[s], view'[s])
    BY SlotStep
  <2>2. \A t \in Slots \ {s} : SlotOk(request'[t], pc'[t], view'[t])
    BY <1>1 DEF Kept, ShapeInv
  <2> QED BY <2>1, <2>2
<1>4. \A t \in Slots : view'[t] \in View(request'[t]) /\ (pc'[t] = "idle" <=> request'[t] = None)
  BY <1>3 DEF SlotOk
<1>5. DOMAIN fill' = Slots /\ \A t \in Slots : FillOk(t)' /\ FillShape(t)'
  BY FillStep
<1>6. (StoredOk /\ RevsOk /\ CacheOk /\ CountsOk /\ CurrentOk)'
  BY GlobalsStep
<1>7. TypeOK'
  BY <1>2, <1>4, <1>5, <1>6, TypePartsNext
<1>8. DOMAIN current' = Stores /\ DOMAIN acked' = Scopes /\ \A q \in todo' : WellFormed(q)
  BY BookDomains DEF ShapeInv
<1>9. DOMAIN seen' = Slots
  BY AlwaysWitness DEF Witness
<1>10. ShapeInv'
  BY <1>2, <1>3, <1>5, <1>8, <1>9 DEF ShapeInv
<1> QED BY <1>7, <1>10

LEMMA TickTyped ==
  ASSUME TypeOK, ShapeInv, Tick
  PROVE  TypeOK' /\ ShapeInv'
<1>1. UNCHANGED <<backend, stored, cache, todo, flight, faults>> /\ Witness
  BY DEF Tick
<1>2. clock' = clock + 1 /\ clock < MaxTime
  BY DEF Tick
<1>3. /\ DOMAIN current' = Stores
      /\ \A k \in Stores : current'[k] = current[k] \/ current'[k] = {Stored(k)}
  BY DEF Tick, ShapeInv
<1>4. CurrentOk'
  BY <1>3, StoredTyped, TypeParts DEF CurrentOk, Values, Stores
<1>5. (StoredOk /\ RevsOk /\ CacheOk)' /\ CountsOk'
  BY <1>1, <1>2, TypeParts, ConstantsAssumption DEF StoredOk, RevsOk, CacheOk, CountsOk, stored
<1>6. \A s \in Slots : FillOk(s)'
  BY <1>1, TypeParts DEF FillOk, flight
<1>7. TypeOK'
  BY <1>1, <1>4, <1>5, <1>6, TypePartsNext, TypeParts DEF flight
<1>8. \A s \in Slots : FillShape(s)'
  BY <1>1 DEF FillShape, ShapeInv, Wants, WantsDocument, flight
<1>9. DOMAIN seen' = Slots /\ DOMAIN acked' = Scopes
  BY <1>1 DEF Witness, Tick
<1>10. ShapeInv'
  BY <1>1, <1>3, <1>8, <1>9 DEF ShapeInv, flight
<1> QED BY <1>7, <1>10

LEMMA RestartTyped ==
  ASSUME TypeOK, ShapeInv, Restart
  PROVE  TypeOK' /\ ShapeInv'
<1>1. UNCHANGED <<backend, stored, clock, todo, acked>> /\ Witness
  BY DEF Restart
<1>2. /\ request' = [s \in Slots |-> None] /\ pc' = [s \in Slots |-> "idle"]
      /\ view' = [s \in Slots |-> NoView] /\ fill' = [s \in Slots |-> None]
      /\ cache' = [k \in DOMAIN cache |-> None] /\ current' = [k \in DOMAIN current |-> {Stored(k)}]
      /\ faults' = faults + 1 /\ faults < MaxFaults
  BY DEF Restart
<1>3. DOMAIN current' = Stores /\ \A k \in Stores : current'[k] = {Stored(k)}
  BY <1>2 DEF ShapeInv
<1>4. CurrentOk'
  BY <1>3, StoredTyped DEF CurrentOk, Values, Stores
<1>5. (StoredOk /\ RevsOk /\ CountsOk)'
  BY <1>1, <1>2, TypeParts, ConstantsAssumption DEF StoredOk, RevsOk, CountsOk, stored
<1>6. CacheOk'
  BY <1>2, TypeParts DEF CacheOk
<1>7. \A s \in Slots : FillOk(s)' /\ FillShape(s)'
  BY <1>2 DEF FillOk, FillShape
<1>8. \A s \in Slots : SlotOk(request'[s], pc'[s], view'[s])
  BY <1>2, IdleOk
<1>9. \A s \in Slots : view'[s] \in View(request'[s]) /\ (pc'[s] = "idle" <=> request'[s] = None)
  BY <1>8 DEF SlotOk
<1>10. request' \in [Slots -> Request \cup {None}]
  BY <1>2
<1>11. TypeOK'
  BY <1>4, <1>5, <1>6, <1>7, <1>9, <1>10, TypePartsNext
<1>12. DOMAIN seen' = Slots /\ DOMAIN acked' = Scopes /\ \A q \in todo' : WellFormed(q)
  BY <1>1 DEF Witness, ShapeInv
<1>13. ShapeInv'
  BY <1>2, <1>3, <1>7, <1>8, <1>12 DEF ShapeInv
<1> QED BY <1>11, <1>13

LEMMA TypedInit == Init => TypeOK /\ ShapeInv
<1> SUFFICES ASSUME Init PROVE TypeOK /\ ShapeInv
  OBVIOUS
<1>1. PICK c \in Scenarios : /\ space = c.space /\ keystore = c.keystore /\ keys = c.keys
                             /\ log = c.log /\ revs = c.revs /\ policies = c.policies
                             /\ todo = c.requests
  BY DEF Init
<1>2. WellFormedScenario(c)
  BY ConstantsAssumption
<1>3. StoredOk /\ RevsOk
  BY <1>1, <1>2, ConstantsAssumption DEF WellFormedScenario, StoredOk, RevsOk, Init
<1>4. /\ request = [s \in Slots |-> None] /\ pc = [s \in Slots |-> "idle"]
      /\ view = [s \in Slots |-> NoView] /\ fill = [s \in Slots |-> None]
      /\ cache = [k \in Stores |-> None] /\ current = [k \in Stores |-> {Stored(k)}]
      /\ clock = 0 /\ faults = 0
  BY DEF Init
<1>5. CacheOk
  BY <1>4 DEF CacheOk
<1>6. CountsOk /\ \A q \in todo : WellFormed(q)
  BY <1>1, <1>2, <1>4, ConstantsAssumption DEF CountsOk, WellFormedScenario
<1>7. CurrentOk
  BY <1>3, <1>4 DEF CurrentOk, Stored, Stores, StoredOk
<1>8. \A s \in Slots : FillOk(s) /\ FillShape(s)
  BY <1>4 DEF FillOk, FillShape
<1>9. \A s \in Slots : SlotOk(request[s], pc[s], view[s])
  BY <1>4, IdleOk
<1>10. \A s \in Slots : view[s] \in View(request[s]) /\ (pc[s] = "idle" <=> request[s] = None)
  BY <1>9 DEF SlotOk
<1>11. request \in [Slots -> Request \cup {None}]
  BY <1>4
<1>12. TypeOK
  BY <1>3, <1>5, <1>6, <1>7, <1>8, <1>10, <1>11, TypeParts
<1>13. DOMAIN seen = Slots /\ DOMAIN acked = Scopes
  BY DEF Init
<1>14. ShapeInv
  BY <1>4, <1>6, <1>8, <1>9, <1>13 DEF ShapeInv
<1> QED BY <1>12, <1>14

LEMMA TypedNext == TypeOK /\ ShapeInv /\ [Next]_vars => TypeOK' /\ ShapeInv'
<1> SUFFICES ASSUME TypeOK, ShapeInv, [Next]_vars PROVE TypeOK' /\ ShapeInv'
  OBVIOUS
<1>1. CASE \E s \in Slots : Handle(s) \/ FailLate(s)
  BY <1>1, HandlerTyped
<1>2. CASE Tick
  BY <1>2, TickTyped
<1>3. CASE Restart
  BY <1>3, RestartTyped
<1>4. CASE UNCHANGED vars
  <2>1. UNCHANGED <<backend, space, keystore, keys, log, revs, policies, cache, clock, todo, faults>>
    BY <1>4 DEF vars, stored
  <2>2. UNCHANGED <<request, pc, view, fill, current, acked, seen>>
    BY <1>4 DEF vars, flight
  <2>3. TypeOK'
    BY <2>1, <2>2 DEF TypeOK
  <2>4. \A s \in Slots : FillShape(s)'
    BY <2>2 DEF ShapeInv, FillShape, Wants, WantsDocument
  <2>5. ShapeInv'
    BY <2>1, <2>2, <2>4 DEF ShapeInv
  <2> QED BY <2>3, <2>5
<1> QED BY <1>1, <1>2, <1>3, <1>4 DEF Next

\* Every variable has its type: for any requests, whatever caches, crashes and races do,
\* a handler only ever holds values of the kinds its next step expects (spaceContext.ts,
\* keystoreContext.ts, SpaceRequest.ts).
THEOREM TypeCorrect == Spec => []TypeOK
<1> QED BY TypedInit, TypedNext, PTL DEF Spec

----------------------------------------------------------------------------
(* The caches, and what requests have seen.                                *)

LEMMA SeenCovers ==
  ASSUME Witness, NEW t \in Slots, request'[t] # None,
         request[t] # None => /\ request'[t] = request[t]
                              /\ current["space"] \subseteq seen[t].spaces
                              /\ current["doc"] \subseteq seen[t].docs,
         current'["space"] \subseteq current["space"] \cup {space'},
         current'["doc"] \subseteq current["doc"] \cup {log'}
  PROVE  /\ current'["space"] \subseteq seen'[t].spaces
         /\ current'["doc"] \subseteq seen'[t].docs
         /\ keystore' \in seen'[t].configs
<1>1. CASE request[t] = None
  BY <1>1, WitnessBegins
<1>2. CASE request[t] # None
  BY <1>2, WitnessGrows
<1> QED BY <1>1, <1>2

\* A step of s adds at most what is stored after it to what may be answered.
LEMMA CurrentGrows ==
  ASSUME TypeOK, ShapeInv, CurrentInv, NEW s \in Slots, Handle(s) \/ FailLate(s)
  PROVE  /\ current'["space"] \subseteq current["space"] \cup {space'}
         /\ current'["doc"] \subseteq current["doc"] \cup {log'}
         /\ \A k \in Stores : Stored(k)' \in current'[k]
         /\ Acknowledge(s) \/ \A k \in Stores : current[k] \subseteq current'[k]
<1>1. DOMAIN current = Stores /\ Stores = {"space", "doc"} /\ space \in current["space"] /\ log \in current["doc"]
  BY DEF ShapeInv, Stores, CurrentInv, Stored
<1>2. \A k \in Stores : Stored(k)' = IF k = "space" THEN space' ELSE log'
  BY DEF Stored
<1>3. CASE Land(s)
  BY <1>1, <1>2, <1>3 DEF Land
<1>4. CASE UNCHANGED <<current, space, log>>
  BY <1>1, <1>2, <1>4
<1>5. CASE Acknowledge(s)
  <2>1. UNCHANGED <<space, log>>
    BY <1>5 DEF Acknowledge, stored
  <2>2. DOMAIN current' = Stores /\ \A k \in Stores : current'[k] = current[k] \/ current'[k] = {Stored(k)}
    BY <1>1, <1>5 DEF Acknowledge
  <2>3. Stored("space") = space /\ Stored("doc") = log
    BY DEF Stored
  <2> QED BY <1>1, <1>2, <1>5, <2>1, <2>2, <2>3
<1>6. Quiet(s) => UNCHANGED <<current, space, log>>
  BY QuietLeaves DEF stored, books
<1>7. Begin(s) \/ CacheFill(s) \/ Prune(s) \/ RemoveRevocations(s) => UNCHANGED <<current, space, log>>
  BY DEF Begin, CacheFill, Prune, RemoveRevocations, books, stored
<1>8. \/ ChangePolicy(s) \/ InsertRevocation(s) \/ UpdateKeystore(s) \/ GenerateKey(s) \/ FailLate(s)
      => UNCHANGED <<current, space, log>>
  BY DEF ChangePolicy, InsertRevocation, UpdateKeystore, GenerateKey, FailLate, books, stored
<1>9. WriteSpace(s) \/ RemoveSpace(s) \/ PublishLog(s) => Land(s)
  BY DEF WriteSpace, RemoveSpace, PublishLog
<1> QED BY <1>3, <1>4, <1>5, <1>6, <1>7, <1>8, <1>9 DEF Handle, Quiet

LEMMA RequestKept ==
  ASSUME TypeOK, ShapeInv, NEW s \in Slots, Handle(s) \/ FailLate(s), NEW t \in Slots,
         request[t] # None, request'[t] # None
  PROVE  request'[t] = request[t]
<1>1. CASE Begin(s)
  BY <1>1, BeginMoves DEF Kept
<1>2. CASE ~Begin(s)
  BY <1>2, AllMove DEF Moves, Kept, Answered
<1> QED BY <1>1, <1>2

LEMMA CurrentHandler ==
  ASSUME TypeOK, ShapeInv, CurrentInv, NEW s \in Slots, Handle(s) \/ FailLate(s)
  PROVE  CurrentInv'
<1> DEFINE Fresh(k) == cache[k] # None =>
             cache[k].until <= clock + 1 /\ (Usable(k) => cache[k].value \in current[k] \/ cache[k].stale)
           FillFresh(t) == fill[t] # None => fill[t].value \in current[fill[t].of] \/ fill[t].stale
<1>0. /\ DOMAIN cache = Stores /\ \A k \in Stores : Fresh(k)
      /\ \A t \in Slots : FillFresh(t) /\ FillOk(t)
      /\ \A k \in Stores : Stored(k) \in current[k]
  BY TypeParts DEF CurrentInv, CachesAreCurrent, SlotCurrent, CacheOk
<1>1. \A k \in Stores : Stored(k)' \in current'[k]
  BY CurrentGrows
<1>2. \A t \in Slots : request'[t] # None =>
        /\ current'["space"] \subseteq seen'[t].spaces
        /\ current'["doc"] \subseteq seen'[t].docs
        /\ keystore' \in seen'[t].configs
  <2> SUFFICES ASSUME NEW t \in Slots, request'[t] # None
               PROVE  /\ current'["space"] \subseteq seen'[t].spaces
                      /\ current'["doc"] \subseteq seen'[t].docs
                      /\ keystore' \in seen'[t].configs
    OBVIOUS
  <2>1. Witness
    BY AlwaysWitness
  <2>2. request[t] # None => request'[t] = request[t]
    BY RequestKept
  <2>3. request[t] # None => current["space"] \subseteq seen[t].spaces /\ current["doc"] \subseteq seen[t].docs
    BY DEF CurrentInv, SlotCurrent
  <2> QED BY <2>1, <2>2, <2>3, CurrentGrows, SeenCovers
<1>3. (\A k \in Stores : Fresh(k)') /\ (\A t \in Slots : FillFresh(t)')
  <2>1. CASE Acknowledge(s)
    <3> DEFINE gone == Touches(request[s])
    <3>1. UNCHANGED <<space, log, clock>>
      BY <2>1 DEF Acknowledge, stored
    <3>2. \A k \in Stores : cache'[k] = None \/ (k \notin gone /\ cache'[k] = cache[k])
      BY <1>0, <2>1 DEF Acknowledge, Invalidated
    <3>3. \A t \in Slots : fill'[t] = (IF fill[t] # None /\ fill[t].of \in gone /\ fill[t].value # Stored(fill[t].of)
                                       THEN [fill[t] EXCEPT !.stale = TRUE] ELSE fill[t])
      BY <2>1 DEF Acknowledge, Invalidated
    <3>4. \A k \in Stores : (k \notin gone => current'[k] = current[k]) /\ Stored(k) \in current'[k]
      <4>1. \A k \in Stores : (k \notin gone => current'[k] = current[k])
        BY <2>1 DEF Acknowledge, ShapeInv
      <4>2. \A k \in Stores : Stored(k)' = Stored(k)
        BY <3>1 DEF Stored
      <4> QED BY <1>1, <4>1, <4>2
    <3> HIDE DEF gone
    <3>5. \A k \in Stores : Fresh(k)'
      BY <1>0, <3>1, <3>2, <3>4 DEF Usable
    <3>6. \A t \in Slots : FillFresh(t)'
      <4> SUFFICES ASSUME NEW t \in Slots, fill'[t] # None
                   PROVE  fill'[t].value \in current'[fill'[t].of] \/ fill'[t].stale
        OBVIOUS
      <4>1. CASE fill[t] # None /\ fill[t].of \in gone /\ fill[t].value # Stored(fill[t].of)
        <5>1. fill'[t] = [fill[t] EXCEPT !.stale = TRUE]
          BY <3>3, <4>1
        <5>2. fill[t] \in Fill(fill[t].of)
          BY <1>0, <4>1 DEF FillOk
        <5>3. fill'[t].stale = TRUE
          BY <5>1, <5>2 DEF Fill
        <5> QED BY <5>3
      <4>2. CASE ~(fill[t] # None /\ fill[t].of \in gone /\ fill[t].value # Stored(fill[t].of))
        <5>1. fill'[t] = fill[t]
          BY <3>3, <4>2
        <5>2. fill[t] # None /\ fill[t].of \in Stores
          BY <1>0, <5>1 DEF FillOk
        <5>3. CASE fill[t].of \in gone
          <6>1. fill[t].value = Stored(fill[t].of)
            BY <4>2, <5>2, <5>3
          <6>2. fill[t].value \in current'[fill[t].of]
            BY <3>4, <5>2, <6>1
          <6> QED BY <5>1, <6>2
        <5>4. CASE fill[t].of \notin gone
          <6>1. current'[fill[t].of] = current[fill[t].of]
            BY <3>4, <5>2, <5>4
          <6>2. fill[t].value \in current[fill[t].of] \/ fill[t].stale
            BY <1>0, <5>2
          <6> QED BY <5>1, <6>1, <6>2
        <5> QED BY <5>3, <5>4
      <4> QED BY <4>1, <4>2
    <3> QED BY <3>5, <3>6
  <2>2. CASE ~Acknowledge(s)
    <3>1. \A k \in Stores : current[k] \subseteq current'[k]
      BY <2>2, CurrentGrows
    <3>2. clock' = clock
      <4>1. Quiet(s) => clock' = clock
        BY QuietLeaves DEF books
      <4>2. Begin(s) \/ CacheFill(s) \/ Prune(s) \/ WriteSpace(s) \/ RemoveRevocations(s)
              \/ RemoveSpace(s) \/ PublishLog(s) => clock' = clock
        BY DEF Begin, CacheFill, Prune, WriteSpace, RemoveRevocations, RemoveSpace, PublishLog, books
      <4>3. ChangePolicy(s) \/ InsertRevocation(s) \/ UpdateKeystore(s) \/ GenerateKey(s) \/ FailLate(s)
              => clock' = clock
        BY DEF ChangePolicy, InsertRevocation, UpdateKeystore, GenerateKey, FailLate, books
      <4> QED BY <2>2, <4>1, <4>2, <4>3 DEF Handle, Quiet
    <3>3. ~CacheFill(s) => cache' = cache
      <4>1. Quiet(s) => cache' = cache
        BY QuietLeaves
      <4>2. Begin(s) \/ Prune(s) \/ WriteSpace(s) \/ RemoveRevocations(s)
              \/ RemoveSpace(s) \/ PublishLog(s) => cache' = cache
        BY DEF Begin, Prune, WriteSpace, RemoveRevocations, RemoveSpace, PublishLog
      <4>3. ChangePolicy(s) \/ InsertRevocation(s) \/ UpdateKeystore(s) \/ GenerateKey(s) \/ FailLate(s)
              => cache' = cache
        BY DEF ChangePolicy, InsertRevocation, UpdateKeystore, GenerateKey, FailLate
      <4> QED BY <2>2, <4>1, <4>2, <4>3 DEF Handle, Quiet
    <3>4. \A k \in Stores : cache'[k] = cache[k] => Fresh(k)'
      BY <1>0, <3>1, <3>2 DEF Usable
    <3>5. \A t \in Slots : fill'[t] = fill[t] => FillFresh(t)'
      BY <1>0, <3>1 DEF FillOk
    <3>6. CASE CacheFill(s)
      <4> DEFINE f == fill[s]
                 e == [value |-> f.value, until |-> clock + 1, stale |-> f.stale]
      <4>1. f # None /\ fill' = [fill EXCEPT ![s] = None] /\ (cache' = [cache EXCEPT ![f.of] = e] \/ cache' = cache)
        BY <3>6 DEF CacheFill
      <4>2. f.of \in Stores /\ (f.value \in current[f.of] \/ f.stale)
        BY <1>0, <4>1 DEF FillOk
      <4>3. \A t \in Slots : FillFresh(t)'
        BY <3>5, <4>1 DEF ShapeInv
      <4>4. PICK k \in Stores : k = f.of
        BY <4>2
      <4>5. cache' = [cache EXCEPT ![k] = e] => Fresh(k)'
        <5> SUFFICES ASSUME cache' = [cache EXCEPT ![k] = e] PROVE Fresh(k)'
          OBVIOUS
        <5>1. /\ cache'[k].value = f.value /\ cache'[k].until = clock + 1 /\ cache'[k].stale = f.stale
          BY <1>0
        <5>2. f.value \in current'[k] \/ f.stale
          BY <3>1, <4>2, <4>4
        <5>3. clock \in Nat
          BY DEF TypeOK
        <5>4. cache'[k].value \in current'[k] \/ cache'[k].stale
          BY <5>1, <5>2
        <5> QED BY <3>2, <5>1, <5>3, <5>4
      <4>6. \A m \in Stores : Fresh(m)'
        <5> SUFFICES ASSUME NEW m \in Stores PROVE Fresh(m)'
          OBVIOUS
        <5>1. CASE m = k
          BY <3>4, <4>1, <4>4, <4>5, <5>1
        <5>2. CASE m # k
          <6>1. cache'[m] = cache[m]
            BY <1>0, <4>1, <4>4, <5>2
          <6> QED BY <3>4, <6>1
        <5> QED BY <5>1, <5>2
      <4> QED BY <4>3, <4>6
    <3>7. CASE CacheMiss(s)
      <4>1. PICK k \in Stores : fill' = [fill EXCEPT ![s] = [of |-> k, value |-> Stored(k), stale |-> FALSE]]
        BY <3>7 DEF CacheMiss, TypeOK
      <4>2. FillFresh(s)'
        <5>1. fill'[s] = [of |-> k, value |-> Stored(k), stale |-> FALSE]
          BY <4>1 DEF ShapeInv
        <5>2. fill'[s].of = k /\ fill'[s].value = Stored(k)
          BY <5>1
        <5> QED BY <1>0, <3>1, <5>2
      <4>3. \A t \in Slots \ {s} : fill'[t] = fill[t]
        BY <4>1 DEF ShapeInv
      <4>4. ~CacheFill(s)
        BY <3>7 DEF CacheMiss, CacheFill
      <4> QED BY <3>3, <3>4, <3>5, <4>2, <4>3, <4>4
    <3>8. CASE ~CacheFill(s) /\ ~CacheMiss(s)
      <4>1. fill' = fill
        BY <2>2, <3>8, FillOfHandler
      <4> QED BY <3>3, <3>4, <3>5, <3>8, <4>1
    <3> QED BY <3>6, <3>7, <3>8
  <2> QED BY <2>1, <2>2
<1>4. DOMAIN cache' = Stores
  BY HandlerTyped DEF TypeOK
<1>5. CachesAreCurrent' /\ \A k \in Stores : cache'[k] # None => cache'[k].until <= clock' + 1
  BY <1>3, <1>4 DEF CachesAreCurrent, Usable
<1>6. \A t \in Slots : SlotCurrent(t)'
  BY <1>2, <1>3 DEF SlotCurrent
<1> QED BY <1>1, <1>5, <1>6 DEF CurrentInv

LEMMA CurrentTick ==
  ASSUME TypeOK, ShapeInv, CurrentInv, Tick
  PROVE  CurrentInv'
<1>1. /\ UNCHANGED <<space, keystore, log, cache, request, fill>> /\ clock' = clock + 1
      /\ clock \in Nat /\ Witness /\ \A t \in Slots : fill[t] = None
  BY DEF Tick, stored, flight, TypeOK
<1>2. \A k \in Stores : Stored(k) \in current[k]
  BY DEF CurrentInv
<1>3. /\ DOMAIN current' = Stores
      /\ \A k \in Stores : current'[k] = current[k] \/ current'[k] = {Stored(k)}
  BY DEF Tick, ShapeInv
<1>4. \A k \in Stores : Stored(k) \in current'[k] /\ current'[k] \subseteq current[k]
  BY <1>2, <1>3
<1>5. \A k \in Stores : Stored(k)' = Stored(k)
  BY <1>1 DEF Stored
<1>6. \A k \in Stores : cache[k] # None => cache[k].until <= clock + 1 /\ cache[k].until \in Nat
  BY DEF CurrentInv, TypeOK, Entry
<1>7. \A k \in Stores : ~Usable(k)'
  BY <1>1, <1>6 DEF Usable
<1>8. CachesAreCurrent' /\ \A k \in Stores : cache'[k] # None => cache'[k].until <= clock' + 1
  BY <1>1, <1>6, <1>7 DEF CachesAreCurrent, TypeOK
<1>9. \A t \in Slots : SlotCurrent(t)'
  <2> SUFFICES ASSUME NEW t \in Slots PROVE SlotCurrent(t)'
    OBVIOUS
  <2>1. request[t] # None => /\ current["space"] \subseteq seen[t].spaces
                             /\ current["doc"] \subseteq seen[t].docs
    BY DEF CurrentInv, SlotCurrent
  <2>2. current'["space"] \subseteq current["space"] \cup {space'} /\ current'["doc"] \subseteq current["doc"] \cup {log'}
    BY <1>4 DEF Stores
  <2>3. request'[t] # None => /\ current'["space"] \subseteq seen'[t].spaces
                              /\ current'["doc"] \subseteq seen'[t].docs
                              /\ keystore' \in seen'[t].configs
    BY <1>1, <2>1, <2>2, SeenCovers
  <2> QED BY <1>1, <2>3 DEF SlotCurrent
<1> QED BY <1>4, <1>5, <1>8, <1>9 DEF CurrentInv

LEMMA CurrentNext == TypeOK /\ ShapeInv /\ CurrentInv /\ [Next]_vars => CurrentInv'
<1> SUFFICES ASSUME TypeOK, ShapeInv, CurrentInv, [Next]_vars PROVE CurrentInv'
  OBVIOUS
<1>1. CASE \E s \in Slots : Handle(s) \/ FailLate(s)
  BY <1>1, CurrentHandler
<1>2. CASE Tick
  BY <1>2, CurrentTick
<1>3. CASE Restart
  <2>1. /\ \A s \in Slots : request'[s] = None /\ fill'[s] = None
        /\ DOMAIN cache' = Stores /\ \A k \in Stores : cache'[k] = None
        /\ \A k \in Stores : current'[k] = {Stored(k)}
        /\ UNCHANGED <<space, log>>
    BY <1>3 DEF Restart, stored, ShapeInv, TypeOK
  <2>2. \A k \in Stores : Stored(k)' = Stored(k)
    BY <2>1 DEF Stored
  <2>3. CachesAreCurrent' /\ \A s \in Slots : SlotCurrent(s)'
    BY <2>1 DEF CachesAreCurrent, Usable, SlotCurrent
  <2> QED BY <2>1, <2>2, <2>3 DEF CurrentInv
<1>4. CASE UNCHANGED vars
  <2>1. UNCHANGED <<space, log, keystore, cache, clock, request, fill, current, seen>>
    BY <1>4 DEF vars, stored, flight
  <2>2. \A k \in Stores : Stored(k)' = Stored(k)
    BY <2>1 DEF Stored
  <2>3. CachesAreCurrent'
    BY <2>1 DEF CurrentInv, CachesAreCurrent, Usable
  <2>4. \A s \in Slots : SlotCurrent(s)'
    BY <2>1 DEF CurrentInv, SlotCurrent
  <2> QED BY <2>1, <2>2, <2>3, <2>4 DEF CurrentInv
<1> QED BY <1>1, <1>2, <1>3, <1>4 DEF Next

LEMMA CurrentInit == Init => CurrentInv
<1> SUFFICES ASSUME Init PROVE CurrentInv
  OBVIOUS
<1>1. /\ current = [k \in Stores |-> {Stored(k)}] /\ cache = [k \in Stores |-> None]
      /\ \A s \in Slots : request[s] = None /\ fill[s] = None
  BY DEF Init
<1>2. \A k \in Stores : Stored(k) \in current[k] /\ cache[k] = None
  BY <1>1
<1>3. CachesAreCurrent
  BY <1>1 DEF CachesAreCurrent, Usable
<1>4. \A s \in Slots : SlotCurrent(s)
  BY <1>1 DEF SlotCurrent
<1> QED BY <1>2, <1>3, <1>4 DEF CurrentInv

\* What a cache answers was stored after every write that was acknowledged, or is the
\* answer of a read that such a write overtook: publications, updates and deletions all
\* invalidate before they answer, and what a failed write left behind lasts no longer
\* than an entry (spaceDescriptionCache.ts, webvhController.ts).
THEOREM CachesCurrent == Spec => []CachesAreCurrent
<1>1. Init => TypeOK /\ ShapeInv /\ CurrentInv
  BY TypedInit, CurrentInit
<1>2. TypeOK /\ ShapeInv /\ CurrentInv /\ [Next]_vars => (TypeOK /\ ShapeInv /\ CurrentInv)'
  BY TypedNext, CurrentNext
<1>3. CurrentInv => CachesAreCurrent
  BY DEF CurrentInv
<1> QED BY <1>1, <1>2, <1>3, PTL DEF Spec

----------------------------------------------------------------------------
(* What a handler's authority came from.                                   *)

\* Views that agree on what authorised the request.
Same(v, w) == w.root = v.root /\ w.stale = v.stale /\ w.began = v.began /\ (w.doc = v.doc \/ w.doc = Unread)

\* But for the reads of the authority itself, a step keeps them.
LEMMA ViewKeeps ==
  ASSUME TypeOK, ShapeInv, NEW s \in Slots, Handle(s) \/ FailLate(s), request'[s] # None,
         ~Begin(s), ~Fetch(s), ~CacheHit(s), ~CacheJoin(s), ~CacheFill(s)
  PROVE  Same(view[s], view'[s]) /\ (pc[s] = "fetch" => pc'[s] = "fetch")
<1> DEFINE v == view[s]
           r == request[s]
           Goal == Same(v, view'[s]) /\ (pc[s] = "fetch" => pc'[s] = "fetch")
<1> SUFFICES Goal
  OBVIOUS
<1>0. v \in View(r)
  BY DEF TypeOK
<1>1. ~Answer(s)
  BY AnswerOwn DEF Answered
<1>2. Same(v, v)
  BY DEF Same
<1>3. \A p, w : Step(s, p, w) /\ Same(v, w) /\ pc[s] # "fetch" => Goal
  BY StepOwn
<1>4. \A w : w \in View(r) => Same(w, [w EXCEPT !.doc = Unread])
  BY DEF View, Same
<1>5. pc[s] # "fetch" /\ Deny(s) => Goal
  <2> DEFINE w == [v EXCEPT !.policies = [l \in Levels |-> IF l \in Consulted(r.level) THEN Unread ELSE None]]
  <2>1. Same(v, w)
    BY <1>0 DEF View, Same
  <2>2. Deny(s) => Step(s, "policy", w)
    BY <1>1 DEF Deny
  <2> HIDE DEF w
  <2> QED BY <1>3, <2>1, <2>2
<1>6. \A w \in View(r) : Same(v, w) /\ pc[s] # "fetch" /\ Admit(s, w) => Goal
  <2> SUFFICES ASSUME NEW w \in View(r), Same(v, w), pc[s] # "fetch", Admit(s, w) PROVE Goal
    OBVIOUS
  <2>1. Same(v, [w EXCEPT !.doc = Unread])
    BY <1>4 DEF Same
  <2> QED BY <1>3, <2>1 DEF Admit
<1>7. \A b : \A w \in View(r) : Same(v, w) /\ pc[s] # "fetch" /\ Verdict(s, b, w) => Goal
  <2> SUFFICES ASSUME NEW b, NEW w \in View(r), Same(v, w), pc[s] # "fetch", Verdict(s, b, w) PROVE Goal
    OBVIOUS
  <2>1. Same(v, [w EXCEPT !.doc = Unread])
    BY <1>4 DEF Same
  <2>2. Step(s, "act", w) \/ Step(s, "clause", [w EXCEPT !.doc = Unread]) \/ Admit(s, w) \/ Deny(s)
    BY <1>1 DEF Verdict
  <2> HIDE DEF Goal
  <2> QED BY <1>3, <1>5, <1>6, <2>1, <2>2
<1>8. CASE CacheMiss(s)
  BY <1>2, <1>8 DEF CacheMiss
<1>9. CASE Authenticate(s) \/ Clause(s)
  <2>1. pc[s] # "fetch" /\ (Deny(s) \/ Admit(s, v) \/ Step(s, "inspect", v))
    BY <1>9 DEF Authenticate, Clause, Ready
  <2> HIDE DEF Goal
  <2> QED BY <1>0, <1>2, <1>3, <1>5, <1>6, <2>1
<1>10. CASE Inspect(s)
  <2>1. PICK e, b : \/ Verdict(s, b, v)
                    \/ Step(s, "prune", [v EXCEPT !.expired = e, !.revoked = b])
                    \/ Step(s, "prune target", [v EXCEPT !.expired = e, !.revoked = b])
    BY <1>10 DEF Inspect
  <2>2. pc[s] # "fetch"
    BY <1>10 DEF Inspect, Ready
  <2>3. Same(v, [v EXCEPT !.expired = e, !.revoked = b])
    BY <1>0 DEF View, Same
  <2> HIDE DEF Goal
  <2> QED BY <1>0, <1>2, <1>3, <1>7, <2>1, <2>2, <2>3
<1>11. CASE Prune(s)
  <2> DEFINE w == [v EXCEPT !.expired = {}, !.revoked = FALSE]
  <2>1. pc[s] # "fetch" /\ Verdict(s, v.revoked, w)
    BY <1>11 DEF Prune, Ready
  <2>2. w \in View(r) /\ Same(v, w)
    BY <1>0 DEF View, Same
  <2> HIDE DEF Goal, w
  <2> QED BY <1>7, <2>1, <2>2
<1>12. CASE ReadPolicy(s)
  <2>1. PICK l \in Levels : Step(s, "policy", [v EXCEPT !.policies[l] = policies[l]])
    BY <1>12 DEF ReadPolicy
  <2>2. pc[s] # "fetch"
    BY <1>12 DEF ReadPolicy, Ready
  <2>3. Same(v, [v EXCEPT !.policies[l] = policies[l]])
    BY <1>0 DEF View, Same
  <2> QED BY <1>3, <2>1, <2>2, <2>3
<1>13. CASE ReadPrior(s)
  <2>1. pc[s] # "fetch" /\ (Step(s, "write", [v EXCEPT !.prior = space]) \/ Step(s, "write", v))
    BY <1>1, <1>13 DEF ReadPrior, Ready
  <2>2. Same(v, [v EXCEPT !.prior = space])
    BY <1>0 DEF View, Same
  <2> QED BY <1>2, <1>3, <2>1, <2>2
<1>14. CASE DecidePolicy(s) \/ ScopeExists(s) \/ Operate(s)
  <2>1. pc[s] # "fetch" /\ (Step(s, "granted", v) \/ Step(s, "create", v))
    BY <1>1, <1>14 DEF DecidePolicy, ScopeExists, Operate, Ready
  <2> QED BY <1>2, <1>3, <2>1
<1>15. CASE WriteSpace(s) \/ RemoveRevocations(s) \/ RemoveSpace(s) \/ PublishLog(s)
  <2>1. Step(s, "landed", v) \/ Step(s, "removed", v)
    BY <1>15 DEF WriteSpace, RemoveRevocations, RemoveSpace, PublishLog, Land
  <2>2. pc[s] # "fetch"
    BY <1>15 DEF WriteSpace, RemoveRevocations, RemoveSpace, PublishLog, Ready
  <2> QED BY <1>2, <1>3, <2>1, <2>2
<1>16. CASE \/ QuotaRefuses(s) \/ Acknowledge(s) \/ ChangePolicy(s) \/ InsertRevocation(s)
            \/ UpdateKeystore(s) \/ GenerateKey(s) \/ Serve(s) \/ FailLate(s)
  BY <1>1, <1>16 DEF QuotaRefuses, Acknowledge, ChangePolicy, InsertRevocation, UpdateKeystore,
       GenerateKey, Serve, FailLate
<1> QED BY <1>8, <1>9, <1>10, <1>11, <1>12, <1>13, <1>14, <1>15, <1>16 DEF Handle

\* The steps of a handler that was authenticated by a key and a chain.
Holds(s) == pc[s] \in PastAuth \/ (pc[s] = "granted" /\ request[s].kind = "operate")

\* The controller came from storage at some instant since the request began, or from a
\* cache that a write overtook; likewise the document; and the key that signed was a key
\* of such a document.
RootKnown(s) ==
  request[s] # None /\ pc[s] # "fetch" =>
    IF request[s].scope = "keystore" THEN view[s].root \in seen[s].configs
    ELSE view[s].root \in seen[s].spaces \/ ("space" \in view[s].stale /\ ~Uncached(request[s]))
DocKnown(s) ==
  request[s] # None /\ view[s].doc # Unread => view[s].doc \in seen[s].docs \/ "doc" \in view[s].stale
SignerKnown(s) ==
  Holds(s) /\ view[s].root # None /\ OwnerOf[request[s].signer] = Webvh =>
    \/ "doc" \in view[s].stale
    \/ \E n \in seen[s].docs \ {NoDocument} : request[s].signer \in Document[n].invocation
AuthorityInv == \A s \in Slots : RootKnown(s) /\ DocKnown(s) /\ SignerKnown(s)

LEMMA AuthorityKept ==
  ASSUME TypeOK, ShapeInv, TypeOK', ShapeInv', Witness, NEW t \in Slots, Kept(t),
         RootKnown(t), DocKnown(t), SignerKnown(t)
  PROVE  (RootKnown(t) /\ DocKnown(t) /\ SignerKnown(t))'
<1>1. CASE request[t] = None
  <2>1. request'[t] = None /\ pc'[t] = "idle"
    BY <1>1 DEF Kept, TypeOK
  <2> QED BY <2>1 DEF RootKnown, DocKnown, SignerKnown, Holds, PastAuth, PastInspect
<1>2. CASE request[t] # None
  <2>1. /\ seen[t].spaces \subseteq seen'[t].spaces /\ seen[t].docs \subseteq seen'[t].docs
        /\ seen[t].configs \subseteq seen'[t].configs
    BY <1>2, WitnessGrows DEF Kept
  <2>2. RootKnown(t)' /\ DocKnown(t)'
    BY <1>2, <2>1 DEF RootKnown, DocKnown, Kept
  <2>3. SignerKnown(t)'
    BY <1>2, <2>1 DEF SignerKnown, Holds, Kept
  <2> QED BY <2>2, <2>3
<1> QED BY <1>1, <1>2

\* A key of the did:webvh only verifies under the document that lists it.
LEMMA WebvhKey ==
  ASSUME NEW signer \in DOMAIN OwnerOf, OwnerOf[signer] = Webvh, NEW did \in Dids, NEW doc,
         signer \in KeysOf(did, "invocation", doc)
  PROVE  doc # NoDocument /\ signer \in Document[doc].invocation
<1>1. CASE did = Webvh
  BY <1>1 DEF KeysOf
<1>2. CASE did # Webvh
  <2>1. signer = did
    BY <1>2 DEF KeysOf
  <2>2. OwnerOf[did] = did
    BY <1>2, <2>1, ConstantsAssumption
  <2> QED BY <1>2, <2>1, <2>2
<1> QED BY <1>1, <1>2

LEMMA HolderTyped ==
  ASSUME NEW chain \in Chains, NEW controller \in Dids
  PROVE  Holder(chain, controller) \in Dids /\ ChainControllers(chain, controller) \subseteq Dids
<1>1. Len(chain) + 1 \in 1 .. Len(chain) + 1
  BY DEF Chains
<1>2. Holder(chain, controller) \in Dids
  BY <1>1, DelegatorTyped DEF Holder
<1>3. \A j \in DOMAIN chain : chain[j] \in DOMAIN Capability
  BY ChainMembers
<1>4. ChainControllers(chain, controller) \subseteq Dids
  BY <1>3 DEF ChainControllers, Dids
<1> QED BY <1>2, <1>4

LEMMA AuthenticatedSigner ==
  ASSUME TypeOK, ShapeInv, NEW s \in Slots, pc[s] = "auth", request[s].signer # None, Authenticated(s),
         OwnerOf[request[s].signer] = Webvh
  PROVE  /\ view[s].doc \notin {Unread, NoDocument}
         /\ request[s].signer \in Document[view[s].doc].invocation
<1> DEFINE r == request[s]
           did == view[s].root.controller
           doc == IF view[s].doc = Unread THEN NoDocument ELSE view[s].doc
<1>1. r # None /\ r \in Request /\ view[s] \in View(r) /\ view[s].root # None
  BY DEF ShapeInv, SlotOk, TypeOK, Labels, PastInspect
<1>2. did \in Dids /\ r.chain \in Chains /\ r.target \in Chains /\ r.signer \in DOMAIN OwnerOf
  BY <1>1 DEF View, Config, Description, Request
<1>3. \A d \in Dids : r.signer \in KeysOf(d, "invocation", doc)
                        => doc # NoDocument /\ r.signer \in Document[doc].invocation
  BY <1>2, WebvhKey
<1>4. Holder(r.chain, did) \in Dids /\ ChainControllers(r.target, did) \subseteq Dids
  BY <1>2, HolderTyped
<1>5. \E d \in Dids : r.signer \in KeysOf(d, "invocation", doc)
  <2>1. CASE r.kind = "revoke"
    <3>1. RevocationVerifies(r.signer, r.chain, r.target, did, r.scope, Verb(r), doc, clock)
      BY <2>1 DEF Authenticated
    <3> HIDE DEF r, did, doc
    <3> QED BY <1>4, <3>1 DEF RevocationVerifies, Verifies
  <2>2. CASE r.kind # "revoke"
    <3>1. Verifies(r.signer, r.chain, did, r.scope, TargetOf(r), Verb(r), doc, clock)
      BY <2>2 DEF Authenticated
    <3> HIDE DEF r, did, doc
    <3> QED BY <1>4, <3>1 DEF Verifies
  <2> QED BY <2>1, <2>2
<1> QED BY <1>3, <1>5

\* Authority is acquired by an authentication; a create has none.
LEMMA HoldsFrom ==
  ASSUME TypeOK, ShapeInv, NEW s \in Slots, Handle(s) \/ FailLate(s), request'[s] # None, Holds(s)', ~Holds(s)
  PROVE  \/ Fetch(s)
         \/ Authenticate(s) /\ pc[s] = "auth" /\ request[s].signer # None /\ Authenticated(s)
<1>1. ~Answer(s)
  BY AnswerOwn DEF Answered
<1>2. pc[s] \notin PastAuth
  BY DEF Holds
<1>3. \A p \in PastAuth : ~Ready(s, p)
  BY <1>2 DEF Ready
<1>4. pc'[s] = pc[s] => request'[s] # request[s]
  BY DEF Holds
<1>5. \A p, w : Step(s, p, w) => pc'[s] = p /\ request'[s] = request[s]
  BY StepOwn
<1>6. Deny(s) => pc'[s] = "policy"
  BY <1>1, <1>5 DEF Deny
<1>7. pc'[s] \in PastAuth \cup {"granted"}
  BY DEF Holds
<1>8. pc'[s] \notin {"idle", "fetch", "auth", "policy"}
  BY <1>7 DEF PastAuth, PastInspect
<1>9. ~Begin(s)
  BY <1>8, BeginMoves
<1>10. \A k, x, b : ~Deliver(s, k, x, b)
  BY <1>1, <1>4, <1>5, <1>8 DEF Deliver
<1>11. ~CacheHit(s) /\ ~CacheJoin(s) /\ ~CacheFill(s)
  BY <1>10 DEF CacheHit, CacheJoin, CacheFill
<1>12. ~CacheMiss(s)
  BY <1>4 DEF CacheMiss
<1>13. ~ReadPolicy(s)
  BY <1>5, <1>8 DEF ReadPolicy
<1>14. ~DecidePolicy(s)
  <2> SUFFICES ASSUME DecidePolicy(s) PROVE FALSE
    OBVIOUS
  <2>1. pc[s] = "policy" /\ Step(s, "granted", view[s])
    BY <1>1 DEF DecidePolicy, Ready
  <2>2. request[s].kind = "get"
    BY <2>1 DEF ShapeInv, SlotOk
  <2>3. pc'[s] = "granted" /\ request'[s] = request[s]
    BY <1>5, <2>1
  <2> QED BY <2>2, <2>3 DEF Holds, PastAuth, PastInspect
<1>15. \/ Fetch(s) \/ Authenticate(s)
  <2>1. ~Inspect(s) /\ ~Prune(s) /\ ~Clause(s) /\ ~ReadPrior(s) /\ ~QuotaRefuses(s) /\ ~WriteSpace(s)
    BY <1>3 DEF Inspect, Prune, Clause, ReadPrior, QuotaRefuses, WriteSpace, PastAuth, PastInspect
  <2>2. ~RemoveRevocations(s) /\ ~RemoveSpace(s) /\ ~PublishLog(s) /\ ~Acknowledge(s)
    BY <1>3 DEF RemoveRevocations, RemoveSpace, PublishLog, Acknowledge, PastAuth, PastInspect
  <2>3. ~ChangePolicy(s) /\ ~ScopeExists(s) /\ ~InsertRevocation(s) /\ ~UpdateKeystore(s)
    BY <1>3 DEF ChangePolicy, ScopeExists, InsertRevocation, UpdateKeystore, PastAuth, PastInspect
  <2>4. ~GenerateKey(s) /\ ~Operate(s) /\ ~FailLate(s) /\ ~Serve(s)
    BY <1>1, <1>3 DEF GenerateKey, Operate, FailLate, Serve, PastAuth, PastInspect
  <2> QED BY <1>9, <1>11, <1>12, <1>13, <1>14, <2>1, <2>2, <2>3, <2>4 DEF Handle
<1>16. Authenticate(s) => pc[s] = "auth" /\ (Deny(s) \/ (request[s].signer # None /\ Authenticated(s)))
  BY DEF Authenticate, Ready
<1> QED BY <1>6, <1>8, <1>15, <1>16

LEMMA AuthorityOwn ==
  ASSUME TypeOK, ShapeInv, CurrentInv, NEW s \in Slots, RootKnown(s), DocKnown(s), SignerKnown(s),
         Handle(s) \/ FailLate(s), TypeOK', ShapeInv'
  PROVE  (RootKnown(s) /\ DocKnown(s) /\ SignerKnown(s))'
<1> DEFINE r == request[s]
           v == view[s]
           Goal == (RootKnown(s) /\ DocKnown(s) /\ SignerKnown(s))'
<1> SUFFICES Goal
  OBVIOUS
<1>0. Witness /\ v \in View(r)
  BY AlwaysWitness DEF TypeOK
<1>1. CASE request'[s] = None
  <2>1. pc'[s] = "idle"
    BY <1>1 DEF TypeOK
  <2> QED BY <1>1, <2>1 DEF RootKnown, DocKnown, SignerKnown, Holds, PastAuth, PastInspect
<1>2. CASE Begin(s)
  <2>1. pc'[s] = "fetch" /\ view'[s].doc = Unread
    BY <1>2, BeginMoves DEF ShapeInv, SlotOk
  <2> QED BY <2>1 DEF RootKnown, DocKnown, SignerKnown, Holds, PastAuth, PastInspect
<1> DEFINE Goes == request'[s] # None /\ ~Begin(s)
<1>3. Goes => /\ request'[s] = r /\ r # None
              /\ seen'[s].spaces = seen[s].spaces \cup {space'}
              /\ seen'[s].docs = seen[s].docs \cup {log'}
              /\ seen'[s].configs = seen[s].configs \cup {keystore'}
  <2> SUFFICES ASSUME Goes
               PROVE  /\ request'[s] = r /\ r # None
                      /\ seen'[s].spaces = seen[s].spaces \cup {space'}
                      /\ seen'[s].docs = seen[s].docs \cup {log'}
                      /\ seen'[s].configs = seen[s].configs \cup {keystore'}
    OBVIOUS
  <2>1. request'[s] = r
    BY AllMove DEF Moves, Answered
  <2> QED BY <1>0, <2>1, WitnessGrows
<1>4. ASSUME Goes, NEW k \in Stores, NEW b \in BOOLEAN, NEW x \in Values(k), Wants(s, k), Deliver(s, k, x, b),
             x \in current[k] \/ b
      PROVE  Goal
  <2> DEFINE w == [v EXCEPT !.stale = IF b THEN @ \cup {k} ELSE @]
  <2>1. w.root = v.root /\ w.doc = v.doc /\ v.stale \subseteq w.stale /\ (b => k \in w.stale)
        /\ "root" \in DOMAIN w /\ "doc" \in DOMAIN w /\ "stale" \in DOMAIN w
    BY <1>0 DEF View
  <2>2. ~Answer(s)
    BY <1>4, AnswerOwn DEF Answered
  <2>3. \A n \in current["space"] : n \in seen[s].spaces
    BY <1>3, <1>4 DEF CurrentInv, SlotCurrent
  <2>4. \A n \in current["doc"] : n \in seen[s].docs
    BY <1>3, <1>4 DEF CurrentInv, SlotCurrent
  <2> HIDE DEF w
  <2>5. CASE k = "doc"
    <3> DEFINE y == [w EXCEPT !.doc = x]
    <3>1. Step(s, pc[s], y)
      BY <1>4, <2>5 DEF Deliver, w
    <3>2. y.root = v.root /\ y.doc = x /\ y.stale = w.stale
      BY <2>1
    <3> HIDE DEF y
    <3>3. view'[s] = y /\ pc'[s] = pc[s]
      BY <3>1, StepOwn
    <3>4. RootKnown(s)'
      BY <1>3, <1>4, <2>1, <3>2, <3>3 DEF RootKnown
    <3>5. DocKnown(s)'
      BY <1>3, <1>4, <2>1, <2>4, <2>5, <3>2, <3>3 DEF DocKnown
    <3>6. SignerKnown(s)'
      BY <1>3, <1>4, <2>1, <3>2, <3>3 DEF SignerKnown, Holds
    <3> QED BY <3>4, <3>5, <3>6
  <2>6. CASE k = "space"
    <3> DEFINE y == [w EXCEPT !.root = x]
    <3>1. Step(s, "auth", y)
      BY <1>4, <2>2, <2>6 DEF Deliver, w
    <3>2. y.root = x /\ y.doc = v.doc /\ y.stale = w.stale
      BY <2>1
    <3> HIDE DEF y
    <3>3. view'[s] = y /\ pc'[s] = "auth"
      BY <3>1, StepOwn
    <3>4. pc[s] = "fetch" /\ ~Uncached(r) /\ r.scope # "keystore"
      BY <1>4, <2>6 DEF Wants, Uncached
    <3>5. RootKnown(s)'
      BY <1>3, <1>4, <2>1, <2>3, <2>6, <3>2, <3>3, <3>4 DEF RootKnown, Uncached
    <3>6. DocKnown(s)'
      BY <1>3, <1>4, <2>1, <3>2, <3>3 DEF DocKnown
    <3>7. SignerKnown(s)'
      BY <3>3 DEF SignerKnown, Holds, PastAuth, PastInspect
    <3> QED BY <3>5, <3>6, <3>7
  <2> QED BY <2>5, <2>6 DEF Stores
<1>5. CASE CacheHit(s) /\ Goes
  <2>1. PICK k \in DOMAIN cache : Wants(s, k) /\ Usable(k) /\ Deliver(s, k, cache[k].value, cache[k].stale)
    BY <1>5 DEF CacheHit
  <2>2. k \in Stores /\ cache[k] \in Entry(k)
    BY <2>1 DEF TypeOK, Usable
  <2>3. cache[k].value \in Values(k) /\ cache[k].stale \in BOOLEAN
    BY <2>2 DEF Entry
  <2>4. cache[k].value \in current[k] \/ cache[k].stale
    BY <2>1 DEF CurrentInv, CachesAreCurrent
  <2> QED BY <1>4, <1>5, <2>1, <2>2, <2>3, <2>4
<1>6. CASE CacheJoin(s) /\ Goes
  <2>1. PICK t \in Slots : /\ fill[t] # None /\ Wants(s, fill[t].of)
                          /\ Deliver(s, fill[t].of, fill[t].value, fill[t].stale)
    BY <1>6 DEF CacheJoin
  <2>2. fill[t].of \in Stores /\ fill[t].value \in Values(fill[t].of) /\ fill[t].stale \in BOOLEAN
    BY <2>1 DEF TypeOK, Fill
  <2>3. fill[t].value \in current[fill[t].of] \/ fill[t].stale
    BY <2>1 DEF CurrentInv, SlotCurrent
  <2> QED BY <1>4, <1>6, <2>1, <2>2, <2>3
<1>7. CASE CacheFill(s) /\ Goes
  <2>1. fill[s] # None /\ Deliver(s, fill[s].of, fill[s].value, fill[s].stale)
    BY <1>7 DEF CacheFill
  <2>2. fill[s].of \in Stores /\ fill[s].value \in Values(fill[s].of) /\ fill[s].stale \in BOOLEAN
    BY <2>1 DEF TypeOK, Fill
  <2>3. fill[s].value \in current[fill[s].of] \/ fill[s].stale
    BY <2>1 DEF CurrentInv, SlotCurrent
  <2>4. Wants(s, fill[s].of)
    BY <2>1 DEF ShapeInv, FillShape
  <2> QED BY <1>4, <1>7, <2>1, <2>2, <2>3, <2>4
<1>8. CASE Fetch(s) /\ Goes
  <2>1. pc[s] = "fetch" /\ UNCHANGED <<space, keystore>>
    BY <1>8 DEF Fetch, Ready, stored
  <2>2. v.root = None /\ v.doc = Unread
    BY <2>1 DEF ShapeInv, SlotOk
  <2>3. ~Answer(s)
    BY <1>8, AnswerOwn DEF Answered
  <2>4. \/ r.scope = "keystore" /\ Step(s, "auth", [v EXCEPT !.root = keystore])
        \/ r.kind = "put" /\ space # None /\ Step(s, "auth", [v EXCEPT !.root = space])
        \/ r.scope = "space" /\ space = None /\ Step(s, "act", v)
    <3> HIDE DEF v
    <3> QED BY <1>8, <2>3 DEF Fetch, v
  <2>5. r.scope = "keystore" => r.kind # "put"
    BY <1>3, <1>8 DEF ShapeInv, SlotOk, WellFormed
  <2>6. [v EXCEPT !.root = keystore].root = keystore /\ [v EXCEPT !.root = keystore].doc = Unread
    BY <1>0, <2>2 DEF View
  <2>7. [v EXCEPT !.root = space].root = space /\ [v EXCEPT !.root = space].doc = Unread
    BY <1>0, <2>2 DEF View
  <2>8. CASE r.scope = "keystore" /\ Step(s, "auth", [v EXCEPT !.root = keystore])
    <3>1. pc'[s] = "auth" /\ view'[s].root = keystore /\ view'[s].doc = Unread
      <4> DEFINE x == [v EXCEPT !.root = keystore]
      <4>1. x.root = keystore /\ x.doc = Unread /\ Step(s, "auth", x)
        BY <2>6, <2>8
      <4> HIDE DEF x
      <4>2. pc'[s] = "auth" /\ view'[s] = x
        BY <4>1, StepOwn
      <4> QED BY <4>1, <4>2
    <3>2. RootKnown(s)'
      BY <1>3, <1>8, <2>1, <2>8, <3>1 DEF RootKnown
    <3> QED BY <3>1, <3>2 DEF DocKnown, SignerKnown, Holds, PastAuth, PastInspect
  <2>9. CASE r.kind = "put" /\ space # None /\ Step(s, "auth", [v EXCEPT !.root = space])
    <3>1. pc'[s] = "auth" /\ view'[s].root = space /\ view'[s].doc = Unread
      <4> DEFINE x == [v EXCEPT !.root = space]
      <4>1. x.root = space /\ x.doc = Unread /\ Step(s, "auth", x)
        BY <2>7, <2>9
      <4> HIDE DEF x
      <4>2. pc'[s] = "auth" /\ view'[s] = x
        BY <4>1, StepOwn
      <4> QED BY <4>1, <4>2
    <3>2. RootKnown(s)'
      BY <1>3, <1>8, <2>1, <2>5, <2>9, <3>1 DEF RootKnown
    <3> QED BY <3>1, <3>2 DEF DocKnown, SignerKnown, Holds, PastAuth, PastInspect
  <2>10. CASE r.scope = "space" /\ space = None /\ Step(s, "act", v)
    <3>1. pc'[s] = "act" /\ view'[s].root = None /\ view'[s].doc = Unread
      BY <2>2, <2>10, StepOwn
    <3>2. RootKnown(s)'
      BY <1>3, <1>8, <2>1, <2>10, <3>1 DEF RootKnown
    <3> QED BY <3>1, <3>2 DEF DocKnown, SignerKnown
  <2> QED BY <2>4, <2>8, <2>9, <2>10
<1>9. CASE Goes /\ ~CacheHit(s) /\ ~CacheJoin(s) /\ ~CacheFill(s) /\ ~Fetch(s)
  <2>1. Same(v, view'[s]) /\ (pc[s] = "fetch" => pc'[s] = "fetch")
    BY <1>9, ViewKeeps
  <2>2. RootKnown(s)'
    BY <1>3, <1>9, <2>1 DEF RootKnown, Same
  <2>3. DocKnown(s)'
    BY <1>3, <1>9, <2>1 DEF DocKnown, Same
  <2>4. CASE Holds(s) \/ ~Holds(s)'
    <3>1. SignerKnown(s)'
      BY <1>3, <1>9, <2>1, <2>4 DEF SignerKnown, Same
    <3> QED BY <2>2, <2>3, <3>1
  <2>5. CASE ~Holds(s) /\ Holds(s)'
    <3>1. pc[s] = "auth" /\ r.signer # None /\ Authenticated(s)
      BY <1>9, <2>5, HoldsFrom
    <3>2. OwnerOf[r.signer] = Webvh => /\ v.doc \notin {Unread, NoDocument}
                                       /\ r.signer \in Document[v.doc].invocation
      BY <3>1, AuthenticatedSigner
    <3>3. v.doc # Unread => v.doc \in seen[s].docs \/ "doc" \in v.stale
      BY <1>3, <1>9 DEF DocKnown
    <3>4. SignerKnown(s)'
      BY <1>3, <1>9, <2>1, <3>2, <3>3 DEF SignerKnown, Same
    <3> QED BY <2>2, <2>3, <3>4
  <2> QED BY <2>4, <2>5
<1> QED BY <1>1, <1>2, <1>5, <1>6, <1>7, <1>8, <1>9

LEMMA AuthorityNext ==
  TypeOK /\ ShapeInv /\ CurrentInv /\ AuthorityInv /\ [Next]_vars => AuthorityInv'
<1> SUFFICES ASSUME TypeOK, ShapeInv, CurrentInv, AuthorityInv, [Next]_vars PROVE AuthorityInv'
  OBVIOUS
<1>0. TypeOK' /\ ShapeInv'
  BY TypedNext
<1>1. CASE \E s \in Slots : Handle(s) \/ FailLate(s)
  <2>1. PICK s \in Slots : Handle(s) \/ FailLate(s)
    BY <1>1
  <2>2. \A t \in Slots \ {s} : Kept(t)
    BY <2>1, BeginMoves, AllMove DEF Moves
  <2>3. Witness
    BY <2>1, AlwaysWitness
  <2>4. \A t \in Slots \ {s} : (RootKnown(t) /\ DocKnown(t) /\ SignerKnown(t))'
    BY <1>0, <2>2, <2>3, AuthorityKept DEF AuthorityInv
  <2>5. (RootKnown(s) /\ DocKnown(s) /\ SignerKnown(s))'
    BY <1>0, <2>1, AuthorityOwn DEF AuthorityInv
  <2> QED BY <2>4, <2>5 DEF AuthorityInv
<1>2. CASE Tick
  <2>1. Witness /\ \A t \in Slots : Kept(t)
    BY <1>2 DEF Tick, Kept, flight
  <2> QED BY <1>0, <2>1, AuthorityKept DEF AuthorityInv
<1>3. CASE Restart
  <2>1. \A t \in Slots : request'[t] = None /\ pc'[t] = "idle"
    BY <1>3 DEF Restart
  <2> QED BY <2>1 DEF AuthorityInv, RootKnown, DocKnown, SignerKnown, Holds, PastAuth, PastInspect
<1>4. CASE UNCHANGED vars
  <2>1. UNCHANGED <<request, pc, view, seen>>
    BY <1>4 DEF vars, flight
  <2>2. \A t \in Slots : RootKnown(t)' /\ DocKnown(t)'
    BY <2>1 DEF AuthorityInv, RootKnown, DocKnown
  <2>3. \A t \in Slots : SignerKnown(t)'
    BY <2>1 DEF AuthorityInv, SignerKnown, Holds
  <2> QED BY <2>2, <2>3 DEF AuthorityInv
<1> QED BY <1>1, <1>2, <1>3, <1>4 DEF Next

LEMMA InForce == TypeOK /\ ShapeInv /\ AuthorityInv => AuthorityWasInForce
<1> SUFFICES ASSUME TypeOK, ShapeInv, AuthorityInv, NEW s \in Slots, Authorised(s)
             PROVE  LET r == request[s]
                        v == view[s]
                    IN  /\ IF r.scope = "keystore" THEN v.root \in seen[s].configs
                           ELSE \/ v.root \in seen[s].spaces
                                \/ "space" \in v.stale /\ r.kind \notin {"put", "post"}
                        /\ (v.root # None /\ OwnerOf[r.signer] = Webvh) =>
                             \/ "doc" \in v.stale
                             \/ \E n \in seen[s].docs \ {NoDocument} : r.signer \in Document[n].invocation
  BY DEF AuthorityWasInForce
<1>1. Holds(s) /\ pc[s] \notin {"idle", "fetch"}
  BY DEF Authorised, Holds, PastAuth, PastInspect
<1>2. request[s] # None
  BY <1>1 DEF TypeOK
<1>3. RootKnown(s) /\ SignerKnown(s)
  BY DEF AuthorityInv
<1>4. IF request[s].scope = "keystore" THEN view[s].root \in seen[s].configs
      ELSE \/ view[s].root \in seen[s].spaces
           \/ "space" \in view[s].stale /\ request[s].kind \notin {"put", "post"}
  BY <1>1, <1>2, <1>3 DEF RootKnown, Uncached
<1> QED BY <1>1, <1>3, <1>4 DEF SignerKnown

LEMMA AuthorityInit == Init => AuthorityInv
<1> SUFFICES ASSUME Init PROVE AuthorityInv
  OBVIOUS
<1>1. \A s \in Slots : request[s] = None /\ pc[s] = "idle"
  BY DEF Init
<1> QED BY <1>1 DEF AuthorityInv, RootKnown, DocKnown, SignerKnown, Holds, PastAuth, PastInspect

\* A request that acts was authorised by a controller and a document that were in force
\* at some instant since it began, but for values a cache answered while a write
\* overtook it; Space PUT and POST and the keystore routes read the controller
\* themselves, without that exception (SpaceRequest.ts, spaceContext.ts, keystoreContext.ts).
THEOREM AuthorityInForce == Spec => []AuthorityWasInForce
<1> DEFINE Inv == TypeOK /\ ShapeInv /\ CurrentInv /\ AuthorityInv
<1>1. Init => Inv
  BY TypedInit, CurrentInit, AuthorityInit
<1>2. Inv /\ [Next]_vars => Inv'
  BY TypedNext, CurrentNext, AuthorityNext
<1>3. Inv => AuthorityWasInForce
  BY InForce
<1> QED BY <1>1, <1>2, <1>3, PTL DEF Spec

----------------------------------------------------------------------------
(* Revocations.                                                            *)

LEMMA ClockKept ==
  ASSUME NEW s \in Slots, Handle(s) \/ FailLate(s)
  PROVE  clock' = clock
<1>1. Quiet(s) => clock' = clock
  BY QuietLeaves DEF books
<1>2. Begin(s) \/ CacheFill(s) \/ Prune(s) \/ WriteSpace(s) \/ RemoveRevocations(s)
        \/ RemoveSpace(s) \/ PublishLog(s) => clock' = clock
  BY DEF Begin, CacheFill, Prune, WriteSpace, RemoveRevocations, RemoveSpace, PublishLog, books
<1>3. Acknowledge(s) \/ ChangePolicy(s) \/ InsertRevocation(s) \/ UpdateKeystore(s) \/ GenerateKey(s)
        \/ FailLate(s) => clock' = clock
  BY DEF Acknowledge, ChangePolicy, InsertRevocation, UpdateKeystore, GenerateKey, FailLate, books
<1>4. \/ Quiet(s)
      \/ Begin(s) \/ CacheFill(s) \/ Prune(s) \/ WriteSpace(s) \/ RemoveRevocations(s)
      \/ RemoveSpace(s) \/ PublishLog(s)
      \/ Acknowledge(s) \/ ChangePolicy(s) \/ InsertRevocation(s) \/ UpdateKeystore(s) \/ GenerateKey(s)
      \/ FailLate(s)
  BY DEF Handle, Quiet
<1> QED BY <1>1, <1>2, <1>3, <1>4

\* A handler that has fetched its controller keeps it.
LEMMA RootKept ==
  ASSUME TypeOK, ShapeInv, NEW s \in Slots, Handle(s) \/ FailLate(s), request'[s] # None,
         pc[s] \notin {"idle", "fetch"}
  PROVE  /\ request'[s] = request[s] /\ request[s] # None /\ view'[s].root = view[s].root
         /\ view'[s].began = view[s].began
<1> DEFINE v == view[s]
           r == request[s]
<1>1. ~Begin(s) /\ ~Fetch(s) /\ r # None /\ v \in View(r)
  BY DEF Begin, Idle, Fetch, Ready, TypeOK
<1>2. request'[s] = r
  BY <1>1, AllMove DEF Moves, Answered
<1>3. \A k \in Stores : \A x, b :
        Wants(s, k) /\ Deliver(s, k, x, b) => view'[s].root = v.root /\ view'[s].began = v.began
  <2> SUFFICES ASSUME NEW k \in Stores, NEW x, NEW b, Wants(s, k), Deliver(s, k, x, b)
               PROVE  view'[s].root = v.root /\ view'[s].began = v.began
    OBVIOUS
  <2>1. k = "doc"
    BY DEF Wants, Stores
  <2> DEFINE w == [v EXCEPT !.stale = IF b THEN @ \cup {k} ELSE @]
             y == [w EXCEPT !.doc = x]
  <2>2. y.root = v.root /\ y.began = v.began
    BY <1>1 DEF View
  <2>3. Step(s, pc[s], y)
    BY <2>1 DEF Deliver
  <2> HIDE DEF y
  <2> QED BY <2>2, <2>3, StepOwn
<1> DEFINE RootSame == view'[s].root = v.root /\ view'[s].began = v.began
<1>4. CacheHit(s) => RootSame
  BY <1>3 DEF CacheHit, TypeOK
<1>5. CacheJoin(s) => RootSame
  BY <1>3 DEF CacheJoin, TypeOK
<1>6. ASSUME CacheFill(s) PROVE RootSame
  <2>1. fill[s] # None /\ Deliver(s, fill[s].of, fill[s].value, fill[s].stale)
    BY <1>6 DEF CacheFill
  <2>2. fill[s].of \in Stores /\ Wants(s, fill[s].of)
    BY <2>1 DEF ShapeInv, FillShape, TypeOK
  <2> QED BY <1>3, <2>1, <2>2
<1>7. ~CacheHit(s) /\ ~CacheJoin(s) /\ ~CacheFill(s) => RootSame
  BY <1>1, ViewKeeps DEF Same
<1>8. RootSame
  BY <1>4, <1>5, <1>6, <1>7
<1> QED BY <1>1, <1>2, <1>8

\* An acknowledged revocation has its record, which outlives the capability by a tick.
RecordsInv ==
  \A c \in Scopes : \A a \in acked[c] :
    /\ a.expires \in Nat /\ clock <= a.expires
    /\ a.name \in DOMAIN revs[c] /\ revs[c][a.name] = a.expires + 1

\* A revocation about to be recorded is of a capability that had not expired when the
\* request was authenticated, at most a tick ago.
TargetExpires(s) == Capability[request[s].target[Len(request[s].target)]].expires
TargetInv(s) ==
  pc[s] \in PastAuth /\ request[s].kind = "revoke" =>
    clock <= TargetExpires(s) /\ (view[s].began = clock => clock < TargetExpires(s))

\* The steps after the inspectors found no revocation.
Vouched(s) ==
  \/ pc[s] \in PastInspect
  \/ pc[s] = "prune" /\ ~view[s].revoked
  \/ pc[s] = "granted" /\ request[s].kind = "operate"
RevokedInv(s) ==
  /\ request[s] # None => seen[s].revoked \subseteq acked[request[s].scope]
  /\ Vouched(s) /\ view[s].root # None =>
       Summaries(request[s].chain, view[s].root.controller) \cap {a.name : a \in seen[s].revoked} = {}
RevInv == RecordsInv /\ \A s \in Slots : TargetInv(s) /\ RevokedInv(s)

LEMMA RecordsHandler ==
  ASSUME TypeOK, ShapeInv, RecordsInv, NEW s \in Slots, TargetInv(s), Handle(s) \/ FailLate(s)
  PROVE  RecordsInv'
<1>0. DOMAIN revs = Scopes /\ DOMAIN acked = Scopes /\ "space" \in Scopes /\ clock' = clock /\ clock \in Nat
  BY ClockKept DEF TypeOK, ShapeInv, Scopes
<1>1. UNCHANGED <<revs, acked>> => RecordsInv'
  BY <1>0 DEF RecordsInv
<1>2. revs' = [revs EXCEPT !["space"] = <<>>] /\ acked' = [acked EXCEPT !["space"] = {}] => RecordsInv'
  <2> SUFFICES ASSUME revs' = [revs EXCEPT !["space"] = <<>>], acked' = [acked EXCEPT !["space"] = {}],
                      NEW c \in Scopes, NEW a \in acked'[c]
               PROVE  /\ a.expires \in Nat /\ clock <= a.expires
                      /\ a.name \in DOMAIN revs'[c] /\ revs'[c][a.name] = a.expires + 1
    BY <1>0 DEF RecordsInv
  <2>1. c # "space"
    BY <1>0
  <2>2. acked'[c] = acked[c] /\ revs'[c] = revs[c]
    BY <1>0, <2>1
  <2> QED BY <2>2 DEF RecordsInv
<1>3. CASE Quiet(s)
  <2>1. UNCHANGED <<revs, acked>>
    BY <1>3, QuietLeaves DEF stored, books
  <2> QED BY <1>1, <2>1
<1>4. CASE Begin(s) \/ CacheFill(s) \/ WriteSpace(s) \/ PublishLog(s) \/ Acknowledge(s)
  <2>1. UNCHANGED <<revs, acked>>
    BY <1>4 DEF Begin, CacheFill, WriteSpace, PublishLog, Acknowledge, stored, books
  <2> QED BY <1>1, <2>1
<1>5. CASE ChangePolicy(s) \/ UpdateKeystore(s) \/ GenerateKey(s) \/ FailLate(s)
  <2>1. UNCHANGED <<revs, acked>>
    BY <1>5 DEF ChangePolicy, UpdateKeystore, GenerateKey, FailLate, stored, books
  <2> QED BY <1>1, <2>1
<1>6. CASE RemoveRevocations(s) \/ RemoveSpace(s)
  BY <1>1, <1>2, <1>6 DEF RemoveRevocations, RemoveSpace
<1>7. CASE Prune(s)
  <2> DEFINE scope == request[s].scope
             gone == view[s].expired
  <2>1. /\ revs' = [revs EXCEPT ![scope] = [n \in DOMAIN revs[scope] \ gone |-> revs[scope][n]]]
        /\ acked' = [acked EXCEPT ![scope] = {a \in acked[scope] : a.name \notin gone}]
    BY <1>0, <1>7 DEF Prune
  <2> HIDE DEF scope, gone
  <2> SUFFICES ASSUME NEW c \in Scopes, NEW a \in acked'[c]
               PROVE  /\ a.expires \in Nat /\ clock <= a.expires
                      /\ a.name \in DOMAIN revs'[c] /\ revs'[c][a.name] = a.expires + 1
    BY <1>0 DEF RecordsInv
  <2>2. CASE c = scope
    <3>1. revs'[c] = [n \in DOMAIN revs[c] \ gone |-> revs[c][n]]
      BY <1>0, <2>1, <2>2
    <3>2. acked'[c] = {x \in acked[c] : x.name \notin gone}
      BY <1>0, <2>1, <2>2
    <3>3. a \in acked[c] /\ a.name \notin gone
      BY <3>2
    <3> QED BY <3>1, <3>3 DEF RecordsInv
  <2>3. CASE c # scope
    <3>1. revs'[c] = revs[c] /\ acked'[c] = acked[c]
      BY <1>0, <2>1, <2>3
    <3> QED BY <3>1 DEF RecordsInv
  <2> QED BY <2>2, <2>3
<1>8. CASE InsertRevocation(s)
  <2> DEFINE r == request[s]
             scope == r.scope
             name == TargetName(s)
             kept == IF backend = "filesystem" THEN DOMAIN revs[scope]
                     ELSE {n \in DOMAIN revs[scope] : clock < revs[scope][n]}
             last == r.target[Len(r.target)]
             exp == Capability[last].expires
             new == [name |-> name, expires |-> exp]
  <2>1. pc[s] \in PastAuth /\ r.kind = "revoke"
    BY <1>8 DEF InsertRevocation, Ready, PastAuth, PastInspect
  <2>2. exp \in Nat /\ clock <= exp /\ RecordExpiry(last) = exp + 1
    <3>1. last \in DOMAIN Capability
      BY <2>1, TargetNameTyped
    <3>2. exp \in Nat
      BY <3>1, ConstantsAssumption
    <3> QED BY <2>1, <3>2 DEF TargetInv, TargetExpires, RecordExpiry
  <2>3. kept \subseteq DOMAIN revs[scope]
    OBVIOUS
  <2>4. \A c \in Scopes : \A a \in acked[c] : c = scope => a.name \in kept
    <3> SUFFICES ASSUME NEW c \in Scopes, NEW a \in acked[c], c = scope PROVE a.name \in kept
      OBVIOUS
    <3>1. a.expires \in Nat /\ clock <= a.expires /\ a.name \in DOMAIN revs[c] /\ revs[c][a.name] = a.expires + 1
      BY DEF RecordsInv
    <3>2. clock < revs[c][a.name]
      BY <1>0, <3>1
    <3> QED BY <3>1, <3>2
  <2>5. \/ /\ revs' = [revs EXCEPT ![scope] = [n \in kept |-> @[n]]]
           /\ UNCHANGED acked
        \/ /\ name \notin kept
           /\ revs' = [revs EXCEPT ![scope] = [n \in kept \cup {name} |-> IF n = name THEN RecordExpiry(last) ELSE @[n]]]
           /\ acked' = [acked EXCEPT ![scope] = @ \cup {new}]
    BY <1>8 DEF InsertRevocation
  <2>6. new.name = name /\ new.expires = exp
    OBVIOUS
  <2> HIDE DEF kept, name, last, exp, scope, new
  <2> SUFFICES ASSUME NEW c \in Scopes, NEW a \in acked'[c]
               PROVE  /\ a.expires \in Nat /\ clock <= a.expires
                      /\ a.name \in DOMAIN revs'[c] /\ revs'[c][a.name] = a.expires + 1
    BY <1>0 DEF RecordsInv
  <2>7. CASE c # scope
    <3>1. revs'[c] = revs[c] /\ acked'[c] = acked[c]
      BY <1>0, <2>5, <2>7
    <3> QED BY <3>1 DEF RecordsInv
  <2>8. CASE c = scope /\ UNCHANGED acked /\ revs' = [revs EXCEPT ![scope] = [n \in kept |-> @[n]]]
    <3>1. revs'[c] = [n \in kept |-> revs[c][n]] /\ a \in acked[c]
      BY <1>0, <2>8
    <3> QED BY <2>4, <2>8, <3>1 DEF RecordsInv
  <2>9. CASE /\ c = scope /\ name \notin kept
             /\ revs' = [revs EXCEPT ![scope] = [n \in kept \cup {name} |-> IF n = name THEN RecordExpiry(last) ELSE @[n]]]
             /\ acked' = [acked EXCEPT ![scope] = @ \cup {new}]
    <3>1. revs'[c] = [n \in kept \cup {name} |-> IF n = name THEN RecordExpiry(last) ELSE revs[c][n]]
      BY <1>0, <2>9
    <3>2. acked'[c] = acked[c] \cup {new}
      BY <1>0, <2>9
    <3>3. CASE a = new
      BY <2>2, <2>6, <3>1, <3>3
    <3>4. CASE a \in acked[c]
      <4>1. a.name \in kept /\ a.name # name
        BY <2>4, <2>9, <3>4
      <4>2. a.name \in DOMAIN revs'[c] /\ revs'[c][a.name] = revs[c][a.name]
        BY <3>1, <4>1
      <4> QED BY <3>4, <4>2 DEF RecordsInv
    <3> QED BY <3>2, <3>3, <3>4
  <2> QED BY <2>5, <2>7, <2>8, <2>9
<1> QED BY <1>3, <1>4, <1>5, <1>6, <1>7, <1>8 DEF Handle, Quiet

\* No live record of a chain: none of its capabilities is revoked and acknowledged.
LEMMA NoLiveRecord ==
  ASSUME TypeOK, RecordsInv, NEW c \in Scopes, NEW names,
         {n \in names \cap DOMAIN revs[c] : revs[c][n] <= clock} = names \cap DOMAIN revs[c]
  PROVE  names \cap {a.name : a \in acked[c]} = {}
<1> SUFFICES ASSUME NEW a \in acked[c], a.name \in names PROVE FALSE
  OBVIOUS
<1>1. a.expires \in Nat /\ clock <= a.expires /\ a.name \in DOMAIN revs[c] /\ revs[c][a.name] = a.expires + 1
  BY DEF RecordsInv
<1>2. revs[c][a.name] <= clock /\ clock \in Nat
  BY <1>1 DEF TypeOK
<1> QED BY <1>1, <1>2

LEMMA InspectorsNext ==
  ASSUME TypeOK, ShapeInv, NEW s \in Slots, Handle(s) \/ FailLate(s), pc[s] \in {"inspect", "prune"}
  PROVE  Inspect(s) \/ Prune(s)
<1>1. \A p : Ready(s, p) => p \in {"inspect", "prune"}
  BY DEF Ready
<1>2. \A k \in Stores : ~Wants(s, k)
  BY DEF Wants, WantsDocument, Stores
<1>3. ~CacheHit(s) /\ ~CacheMiss(s)
  BY <1>2 DEF CacheHit, CacheMiss, TypeOK
<1>4. ~CacheJoin(s)
  BY <1>2 DEF CacheJoin, TypeOK
<1>5. ~CacheFill(s)
  BY <1>2 DEF CacheFill, ShapeInv, FillShape, TypeOK
<1>6. ~Begin(s) /\ ~Fetch(s)
  BY <1>1 DEF Begin, Idle, Fetch, TypeOK
<1>7. ~Authenticate(s) /\ ~Clause(s) /\ ~ReadPolicy(s) /\ ~DecidePolicy(s)
        /\ ~ReadPrior(s) /\ ~QuotaRefuses(s) /\ ~WriteSpace(s) /\ ~RemoveRevocations(s)
  BY <1>1 DEF Authenticate, Clause, ReadPolicy, DecidePolicy, ReadPrior, QuotaRefuses,
       WriteSpace, RemoveRevocations
<1>8. ~RemoveSpace(s) /\ ~PublishLog(s) /\ ~Acknowledge(s) /\ ~ChangePolicy(s) /\ ~ScopeExists(s)
        /\ ~InsertRevocation(s) /\ ~UpdateKeystore(s)
  BY <1>1 DEF RemoveSpace, PublishLog, Acknowledge, ChangePolicy, ScopeExists, InsertRevocation,
       UpdateKeystore
<1>9. ~GenerateKey(s) /\ ~Operate(s) /\ ~Serve(s) /\ ~FailLate(s)
  BY <1>1 DEF GenerateKey, Operate, Serve, FailLate
<1> QED BY <1>3, <1>4, <1>5, <1>6, <1>7, <1>8, <1>9 DEF Handle

\* A chain is vouched for by the inspector, or has nothing to inspect.
LEMMA VouchedFrom ==
  ASSUME TypeOK, ShapeInv, RecordsInv, NEW s \in Slots, Handle(s) \/ FailLate(s), request'[s] # None,
         Vouched(s)', ~Vouched(s), view'[s].root # None
  PROVE  /\ request'[s] = request[s] /\ request[s] # None /\ view'[s].root = view[s].root
         /\ Summaries(request[s].chain, view[s].root.controller)
              \cap {a.name : a \in acked[request[s].scope]} = {}
<1> DEFINE r == request[s]
           v == view[s]
<1>1. ~Answer(s)
  BY AnswerOwn DEF Answered
<1>2. pc'[s] \in PastInspect \cup {"prune", "granted"} /\ pc'[s] \notin {"idle", "fetch", "auth", "policy", "inspect"}
  BY DEF Vouched, PastInspect
<1>3. Holds(s)'
  BY DEF Vouched, Holds, PastAuth, PastInspect
<1>4. ~Begin(s)
  BY <1>2, BeginMoves
<1>5. ~Fetch(s)
  <2> SUFFICES ASSUME Fetch(s) PROVE FALSE
    OBVIOUS
  <2>1. pc[s] = "fetch"
    BY DEF Fetch, Ready
  <2>2. v.root = None
    BY <2>1 DEF ShapeInv, SlotOk
  <2>3. (\E w : Step(s, "auth", w)) \/ Step(s, "act", v)
    BY <1>1 DEF Fetch
  <2>4. pc'[s] = "auth" \/ view'[s] = v
    BY <2>3, StepOwn
  <2> QED BY <1>2, <2>2, <2>4
<1>6. CASE ~Holds(s)
  <2>1. Authenticate(s) /\ pc[s] = "auth" /\ r.signer # None /\ Authenticated(s)
    BY <1>3, <1>5, <1>6, HoldsFrom
  <2>2. Deny(s) => pc'[s] = "policy"
    BY <1>1, StepOwn DEF Deny
  <2>3. Step(s, "inspect", v) => pc'[s] = "inspect"
    BY StepOwn
  <2>4. r.chain = <<>>
    BY <1>2, <2>1, <2>2, <2>3 DEF Authenticate
  <2>5. Summaries(r.chain, v.root.controller) = {}
    BY <2>4 DEF Summaries
  <2> QED BY <2>1, <2>5, RootKept
<1>7. CASE Holds(s)
  <2>1. pc[s] = "inspect" \/ (pc[s] = "prune" /\ v.revoked)
    BY <1>7 DEF Holds, Vouched, PastAuth
  <2>2. r # None /\ r \in Request
    BY <2>1 DEF TypeOK
  <2>3. request'[s] = r /\ view'[s].root = v.root
    BY <2>1, RootKept
  <2>4. Deny(s) => pc'[s] = "policy"
    BY <1>1, StepOwn DEF Deny
  <2>5. Inspect(s) \/ Prune(s)
    BY <2>1, InspectorsNext
  <2>6. CASE Prune(s)
    <3>1. pc[s] \in {"prune", "prune target"}
      BY <2>6 DEF Prune, Ready
    <3>2. pc[s] = "prune" /\ v.revoked
      BY <2>1, <3>1
    <3>3. Verdict(s, v.revoked, [v EXCEPT !.expired = {}, !.revoked = FALSE])
      BY <2>6 DEF Prune
    <3>4. Deny(s)
      BY <3>2, <3>3 DEF Verdict
    <3> QED BY <1>2, <2>4, <3>4
  <2>7. CASE Inspect(s)
    <3> DEFINE names == Summaries(r.chain, v.root.controller)
               known == names \cap DOMAIN revs[r.scope]
               expired == {n \in known : revs[r.scope][n] <= clock}
               w == [v EXCEPT !.expired = expired, !.revoked = known # expired]
    <3>1. pc[s] = "inspect"
      BY <2>1, <2>7 DEF Inspect, Ready
    <3>2. Step(s, "prune", w) \/ Verdict(s, known # expired, v)
      BY <2>7, <3>1 DEF Inspect
    <3> HIDE DEF known, expired
    <3>3. ASSUME Step(s, "prune", w) PROVE known = expired
      <4>1. pc'[s] = "prune" /\ view'[s] = w
        BY <3>3, StepOwn
      <4>2. v \in View(r)
        BY DEF TypeOK
      <4>3. w.revoked = (known # expired)
        BY <4>2 DEF View
      <4>4. ~view'[s].revoked
        BY <4>1 DEF Vouched, PastInspect
      <4>5. ~w.revoked
        BY <4>1, <4>4
      <4> QED BY <4>3, <4>5
    <3>4. ASSUME Verdict(s, known # expired, v) PROVE known = expired
      <4>1. known # expired => Deny(s)
        BY <3>1, <3>4 DEF Verdict
      <4> QED BY <1>2, <2>4, <4>1
    <3>5. known = expired
      BY <3>2, <3>3, <3>4
    <3>6. names \cap {a.name : a \in acked[r.scope]} = {}
      BY <2>2, <3>5, NoLiveRecord DEF known, expired, Request
    <3> QED BY <2>2, <2>3, <3>6
  <2> QED BY <2>5, <2>6, <2>7
<1> QED BY <1>6, <1>7

LEMMA RevokedKept ==
  ASSUME TypeOK, ShapeInv, Witness, NEW t \in Slots, Kept(t), RevokedInv(t)
  PROVE  RevokedInv(t)'
<1>1. CASE request[t] = None
  <2>1. request'[t] = None /\ pc'[t] = "idle"
    BY <1>1 DEF Kept, TypeOK
  <2> QED BY <2>1 DEF RevokedInv, Vouched, PastInspect
<1>2. CASE request[t] # None
  <2>1. seen'[t].revoked = seen[t].revoked \cap acked'[request[t].scope]
    BY <1>2, WitnessGrows DEF Kept
  <2>2. request'[t] = request[t] /\ view'[t] = view[t] /\ pc'[t] = pc[t]
    BY DEF Kept
  <2>3. Vouched(t)' <=> Vouched(t)
    BY <2>2 DEF Vouched
  <2>4. {a.name : a \in seen'[t].revoked} \subseteq {a.name : a \in seen[t].revoked}
    BY <2>1
  <2>5. Vouched(t) /\ view[t].root # None =>
          Summaries(request[t].chain, view[t].root.controller) \cap {a.name : a \in seen[t].revoked} = {}
    BY DEF RevokedInv
  <2>6. Vouched(t)' /\ view'[t].root # None =>
          Summaries(request'[t].chain, view'[t].root.controller) \cap {a.name : a \in seen'[t].revoked} = {}
    BY <2>2, <2>3, <2>4, <2>5
  <2>7. seen'[t].revoked \subseteq acked'[request'[t].scope]
    BY <2>1, <2>2
  <2> QED BY <2>6, <2>7 DEF RevokedInv, Summaries, Delegator
<1> QED BY <1>1, <1>2

LEMMA RevokedOwn ==
  ASSUME TypeOK, ShapeInv, TypeOK', RecordsInv, NEW s \in Slots, RevokedInv(s), Handle(s) \/ FailLate(s)
  PROVE  RevokedInv(s)'
<1>0. Witness
  BY AlwaysWitness
<1>1. CASE request'[s] = None
  <2>1. pc'[s] = "idle"
    BY <1>1 DEF TypeOK
  <2> QED BY <1>1, <2>1 DEF RevokedInv, Vouched, PastInspect
<1>2. CASE request'[s] # None /\ Begin(s)
  <2>1. pc'[s] = "fetch" /\ request[s] = None
    BY <1>2, BeginMoves
  <2>2. seen'[s].revoked \subseteq acked'[request'[s].scope]
    BY <1>0, <1>2, <2>1, WitnessBegins
  <2> QED BY <2>1, <2>2 DEF RevokedInv, Vouched, PastInspect
<1>3. CASE request'[s] # None /\ ~Begin(s)
  <2>1. request'[s] = request[s] /\ request[s] # None
    BY <1>3, AllMove DEF Moves, Answered
  <2>2. seen'[s].revoked = seen[s].revoked \cap acked'[request[s].scope]
    BY <1>0, <2>1, WitnessGrows
  <2>3. seen[s].revoked \subseteq acked[request[s].scope]
    BY <2>1 DEF RevokedInv
  <2>4. ASSUME Vouched(s)', view'[s].root # None
        PROVE  /\ view'[s].root = view[s].root
               /\ Summaries(request[s].chain, view[s].root.controller) \cap {a.name : a \in seen'[s].revoked} = {}
    <3>1. {a.name : a \in seen'[s].revoked} \subseteq {a.name : a \in seen[s].revoked}
      BY <2>2
    <3>2. {a.name : a \in seen'[s].revoked} \subseteq {a.name : a \in acked[request[s].scope]}
      BY <2>2, <2>3
    <3>3. CASE Vouched(s)
      <4>1. pc[s] \notin {"idle", "fetch"}
        BY <3>3 DEF Vouched, PastInspect
      <4>2. view'[s].root = view[s].root
        BY <1>3, <4>1, RootKept
      <4>3. Summaries(request[s].chain, view[s].root.controller) \cap {a.name : a \in seen[s].revoked} = {}
        BY <2>4, <3>3, <4>2 DEF RevokedInv
      <4> QED BY <3>1, <4>2, <4>3
    <3>4. CASE ~Vouched(s)
      <4>1. /\ view'[s].root = view[s].root
            /\ Summaries(request[s].chain, view[s].root.controller)
                 \cap {a.name : a \in acked[request[s].scope]} = {}
        BY <1>3, <2>4, <3>4, VouchedFrom
      <4> QED BY <3>2, <4>1
    <3> QED BY <3>3, <3>4
  <2>5. Vouched(s)' /\ view'[s].root # None =>
          Summaries(request'[s].chain, view'[s].root.controller) \cap {a.name : a \in seen'[s].revoked} = {}
    BY <2>1, <2>4
  <2>6. seen'[s].revoked \subseteq acked'[request'[s].scope]
    BY <2>1, <2>2
  <2> QED BY <2>5, <2>6 DEF RevokedInv, Summaries, Delegator
<1> QED BY <1>1, <1>2, <1>3

LEMMA TargetOwn ==
  ASSUME TypeOK, ShapeInv, TypeOK', ShapeInv', NEW s \in Slots, TargetInv(s), Handle(s) \/ FailLate(s)
  PROVE  TargetInv(s)'
<1> SUFFICES ASSUME pc'[s] \in PastAuth, request'[s].kind = "revoke"
             PROVE  /\ clock' <= TargetExpires(s)'
                    /\ view'[s].began = clock' => clock' < TargetExpires(s)'
  BY DEF TargetInv
<1>1. request'[s] # None /\ clock' = clock
  BY ClockKept DEF TypeOK, PastAuth, PastInspect
<1>2. CASE pc[s] \in PastAuth
  <2>1. pc[s] \notin {"idle", "fetch"}
    BY <1>2 DEF PastAuth, PastInspect
  <2>2. request'[s] = request[s] /\ view'[s].began = view[s].began
    BY <1>1, <2>1, RootKept
  <2>3. TargetExpires(s)' = TargetExpires(s)
    BY <2>2 DEF TargetExpires
  <2> QED BY <1>1, <1>2, <2>2, <2>3 DEF TargetInv
<1>3. CASE pc[s] \notin PastAuth
  <2>1. Holds(s)'
    BY DEF Holds
  <2>2. pc'[s] \notin {"fetch", "auth"} /\ pc'[s] # "idle"
    BY DEF PastAuth, PastInspect
  <2>3. ~Begin(s)
    BY <2>2, BeginMoves
  <2>4. request'[s] = request[s] /\ request[s] # None
    BY <1>1, <2>3, AllMove DEF Moves, Answered
  <2>5. ~Holds(s)
    BY <1>3, <2>4 DEF Holds
  <2>6. ~Fetch(s)
    <3> SUFFICES ASSUME Fetch(s) PROVE FALSE
      OBVIOUS
    <3>1. pc[s] = "fetch" /\ Uncached(request[s])
      BY DEF Fetch, Ready
    <3>2. ~Answer(s)
      BY <1>1, AnswerOwn DEF Answered
    <3>3. (\E w : Step(s, "auth", w)) \/ request[s].scope = "space"
      BY <3>2 DEF Fetch
    <3>4. request[s].scope = "space"
      BY <2>2, <3>3, StepOwn
    <3> QED BY <2>4, <3>1, <3>4 DEF Uncached
  <2>7. pc[s] = "auth" /\ Authenticated(s)
    BY <1>1, <2>1, <2>5, <2>6, HoldsFrom
  <2>8. request[s].target # <<>> /\ \A i \in DOMAIN request[s].target : clock < Capability[request[s].target[i]].expires
    BY <2>4, <2>7 DEF Authenticated, ChainHolds
  <2>9. request[s].target \in Chains
    BY <2>4 DEF TypeOK, Request
  <2>10. Len(request[s].target) \in DOMAIN request[s].target /\ request[s].target[Len(request[s].target)] \in DOMAIN Capability
    <3>1. Len(request[s].target) \in DOMAIN request[s].target
      BY <2>8, <2>9 DEF Chains
    <3>3. \A j \in DOMAIN request[s].target : request[s].target[j] \in DOMAIN Capability
      BY <2>9, ChainMembers
    <3> QED BY <3>1, <3>3
  <2>11. clock < TargetExpires(s) /\ TargetExpires(s) \in Nat
    BY <2>8, <2>10, ConstantsAssumption DEF TargetExpires
  <2>12. TargetExpires(s)' = TargetExpires(s)
    BY <2>4 DEF TargetExpires
  <2>13. clock \in Nat
    BY DEF TypeOK
  <2> QED BY <1>1, <2>11, <2>12, <2>13
<1> QED BY <1>2, <1>3

LEMMA RevTick ==
  ASSUME TypeOK, ShapeInv, TypeOK', RevInv, Tick
  PROVE  RevInv'
<1>1. /\ clock' = clock + 1 /\ clock \in Nat /\ Witness /\ UNCHANGED <<revs, request, pc, view>>
      /\ \A c \in Scopes : acked'[c] = {a \in acked[c] : clock' <= a.expires}
      /\ \A s \in Slots : request[s] # None => view[s].began = clock
  BY DEF Tick, stored, flight, TypeOK
<1>2. RecordsInv'
  BY <1>1 DEF RevInv, RecordsInv
<1>3. \A s \in Slots : Kept(s)
  BY <1>1 DEF Kept
<1>4. \A s \in Slots : RevokedInv(s)'
  BY <1>1, <1>3, RevokedKept DEF RevInv
<1>5. \A s \in Slots : TargetInv(s)'
  <2> SUFFICES ASSUME NEW s \in Slots, pc[s] \in PastAuth, request[s].kind = "revoke"
               PROVE  clock' <= TargetExpires(s) /\ (view[s].began = clock' => clock' < TargetExpires(s))
    BY <1>1 DEF TargetInv, TargetExpires
  <2>1. request[s] # None /\ request[s] \in Request /\ request[s].target # <<>>
    BY DEF TypeOK, ShapeInv, SlotOk, PastAuth, PastInspect
  <2>2. clock < TargetExpires(s) /\ view[s].began = clock
    BY <1>1, <2>1 DEF RevInv, TargetInv
  <2>3. TargetExpires(s) \in Nat
    <3>1. request[s].target \in Chains
      BY <2>1 DEF Request
    <3>2. Len(request[s].target) \in DOMAIN request[s].target
      BY <2>1, <3>1 DEF Chains
    <3> QED BY <3>1, <3>2, ChainMembers, ConstantsAssumption DEF TargetExpires
  <2> QED BY <1>1, <2>2, <2>3
<1> QED BY <1>2, <1>4, <1>5 DEF RevInv

LEMMA RevNext == TypeOK /\ ShapeInv /\ RevInv /\ [Next]_vars => RevInv'
<1> SUFFICES ASSUME TypeOK, ShapeInv, RevInv, [Next]_vars PROVE RevInv'
  OBVIOUS
<1>0. TypeOK' /\ ShapeInv'
  BY TypedNext
<1>1. CASE \E s \in Slots : Handle(s) \/ FailLate(s)
  <2>1. PICK s \in Slots : Handle(s) \/ FailLate(s)
    BY <1>1
  <2>2. \A t \in Slots \ {s} : Kept(t)
    BY <2>1, BeginMoves, AllMove DEF Moves
  <2>3. Witness /\ clock' = clock
    BY <2>1, AlwaysWitness, ClockKept
  <2>4. RecordsInv'
    BY <2>1, RecordsHandler DEF RevInv
  <2>5. \A t \in Slots \ {s} : RevokedInv(t)'
    BY <2>2, <2>3, RevokedKept DEF RevInv
  <2>6. \A t \in Slots \ {s} : TargetInv(t)'
    BY <2>2, <2>3 DEF RevInv, TargetInv, TargetExpires, Kept
  <2>7. RevokedInv(s)' /\ TargetInv(s)'
    BY <1>0, <2>1, RevokedOwn, TargetOwn DEF RevInv
  <2> QED BY <2>4, <2>5, <2>6, <2>7 DEF RevInv
<1>2. CASE Tick
  BY <1>0, <1>2, RevTick
<1>3. CASE Restart
  <2>1. /\ UNCHANGED <<revs, acked, clock>>
        /\ \A t \in Slots : request'[t] = None /\ pc'[t] = "idle"
    BY <1>3 DEF Restart, stored
  <2>2. RecordsInv'
    BY <2>1 DEF RevInv, RecordsInv
  <2>3. \A t \in Slots : TargetInv(t)' /\ RevokedInv(t)'
    BY <2>1 DEF TargetInv, RevokedInv, Vouched, PastAuth, PastInspect
  <2> QED BY <2>2, <2>3 DEF RevInv
<1>4. CASE UNCHANGED vars
  <2>1. UNCHANGED <<revs, acked, clock, request, pc, view, seen>>
    BY <1>4 DEF vars, stored, flight
  <2>2. RecordsInv'
    BY <2>1 DEF RevInv, RecordsInv
  <2>3. \A t \in Slots : TargetInv(t)'
    BY <2>1 DEF RevInv, TargetInv, TargetExpires
  <2>4. \A t \in Slots : RevokedInv(t)'
    BY <2>1 DEF RevInv, RevokedInv, Vouched, Summaries, Delegator
  <2> QED BY <2>2, <2>3, <2>4 DEF RevInv
<1> QED BY <1>1, <1>2, <1>3, <1>4 DEF Next

LEMMA RevStart == Init => RevInv
<1> SUFFICES ASSUME Init PROVE RevInv
  OBVIOUS
<1>1. /\ \A s \in Slots : request[s] = None /\ pc[s] = "idle"
      /\ clock = 0
      /\ acked = [c \in Scopes |->
           {[name |-> n, expires |-> revs[c][n] - 1] : n \in {m \in DOMAIN revs[c] : clock < revs[c][m]}}]
  BY DEF Init
<1>2. \A c \in Scopes : \A n \in DOMAIN revs[c] : revs[c][n] \in Nat
  BY TypedInit DEF TypeOK
<1>3. RecordsInv
  <2> SUFFICES ASSUME NEW c \in Scopes, NEW a \in acked[c]
               PROVE  /\ a.expires \in Nat /\ clock <= a.expires
                      /\ a.name \in DOMAIN revs[c] /\ revs[c][a.name] = a.expires + 1
    BY DEF RecordsInv
  <2>1. PICK n \in DOMAIN revs[c] : clock < revs[c][n] /\ a = [name |-> n, expires |-> revs[c][n] - 1]
    BY <1>1
  <2>2. a.name = n /\ a.expires = revs[c][n] - 1 /\ revs[c][n] \in Nat
    BY <1>2, <2>1
  <2> QED BY <1>1, <2>1, <2>2
<1>4. \A s \in Slots : TargetInv(s) /\ RevokedInv(s)
  BY <1>1 DEF TargetInv, RevokedInv, Vouched, PastAuth, PastInspect
<1> QED BY <1>3, <1>4 DEF RevInv

\* A request that began after a revocation was acknowledged never acts under a chain that
\* holds the revoked capability: the record outlives the capability for as long as a
\* request authenticated before its expiry may run, and no step between the inspector and
\* the effect takes in another chain or controller (revocations.ts, isRevoked of both
\* backends).
THEOREM RevokedRefused == Spec => []RevokedStaysRefused
<1> DEFINE Inv == TypeOK /\ ShapeInv /\ RevInv
<1>1. Init => Inv
  BY TypedInit, RevStart
<1>2. Inv /\ [Next]_vars => Inv'
  BY TypedNext, RevNext
<1>3. Inv => RevokedStaysRefused
  <2> SUFFICES ASSUME Inv, NEW s \in Slots, Authorised(s), view[s].root # None
               PROVE  Summaries(request[s].chain, view[s].root.controller)
                        \cap {a.name : a \in seen[s].revoked} = {}
    BY DEF RevokedStaysRefused
  <2>1. Vouched(s)
    BY DEF Authorised, Vouched, PastInspect
  <2> QED BY <2>1 DEF RevInv, RevokedInv
<1> QED BY <1>1, <1>2, <1>3, PTL DEF Spec

----------------------------------------------------------------------------
(* The creator of a Space.                                                 *)

\* The Description the file backend read before it writes was there at some instant since
\* the request began.
PriorInv == \A s \in Slots :
  pc[s] = "write" /\ backend = "filesystem" => view[s].prior \in seen[s].spaces

LEMMA WriteFrom ==
  ASSUME TypeOK, ShapeInv, NEW s \in Slots, Handle(s) \/ FailLate(s), pc'[s] = "write"
  PROVE  ReadPrior(s)
<1>1. ~Answer(s)
  BY AnswerOwn DEF Answered
<1>2. \A p, w : Step(s, p, w) => p = "write"
  BY StepOwn
<1>3. ~Deny(s)
  BY <1>1, <1>2 DEF Deny
<1>4. \A w : ~Admit(s, w)
  BY <1>2 DEF Admit
<1>5. \A b, w : ~Verdict(s, b, w)
  BY <1>1, <1>2, <1>3, <1>4 DEF Verdict
<1>6. \A k \in Stores : \A x, b : Wants(s, k) => ~Deliver(s, k, x, b)
  BY <1>1, <1>2 DEF Deliver, Wants, WantsDocument, Stores
<1>7. ~CacheHit(s) /\ ~CacheJoin(s)
  BY <1>6 DEF CacheHit, CacheJoin, TypeOK
<1>8. ~CacheFill(s)
  BY <1>6 DEF CacheFill, ShapeInv, FillShape, TypeOK
<1>9. ~CacheMiss(s)
  <2> SUFFICES ASSUME CacheMiss(s) PROVE FALSE
    OBVIOUS
  <2>1. pc[s] = "write" /\ \E k \in Stores : Wants(s, k)
    BY DEF CacheMiss, TypeOK
  <2> QED BY <2>1 DEF Wants, WantsDocument, Stores
<1>10. ~Begin(s) /\ ~Fetch(s)
  BY <1>1, <1>2, BeginMoves DEF Fetch
<1>11. ~Authenticate(s) /\ ~Inspect(s) /\ ~Prune(s) /\ ~Clause(s) /\ ~ReadPolicy(s) /\ ~DecidePolicy(s)
  BY <1>1, <1>2, <1>3, <1>4, <1>5 DEF Authenticate, Inspect, Prune, Clause, ReadPolicy, DecidePolicy
<1>12. ~QuotaRefuses(s) /\ ~WriteSpace(s) /\ ~RemoveRevocations(s) /\ ~RemoveSpace(s) /\ ~PublishLog(s)
  BY <1>1, <1>2 DEF QuotaRefuses, WriteSpace, RemoveRevocations, RemoveSpace, PublishLog, Land
<1>13. ~Acknowledge(s) /\ ~ChangePolicy(s) /\ ~ScopeExists(s) /\ ~InsertRevocation(s) /\ ~UpdateKeystore(s)
  BY <1>1, <1>2 DEF Acknowledge, ChangePolicy, ScopeExists, InsertRevocation, UpdateKeystore
<1>14. ~GenerateKey(s) /\ ~Operate(s) /\ ~Serve(s) /\ ~FailLate(s)
  BY <1>1, <1>2 DEF GenerateKey, Operate, Serve, FailLate
<1> QED BY <1>7, <1>8, <1>9, <1>10, <1>11, <1>12, <1>13, <1>14 DEF Handle

LEMMA BackendKept == [Next]_vars => backend' = backend
<1> SUFFICES ASSUME [Next]_vars PROVE backend' = backend
  OBVIOUS
<1>1. CASE \E s \in Slots : Handle(s) \/ FailLate(s)
  <2>1. PICK s \in Slots : Handle(s) \/ FailLate(s)
    BY <1>1
  <2>2. Quiet(s) => backend' = backend
    BY QuietLeaves DEF books
  <2>3. Begin(s) \/ CacheFill(s) \/ Prune(s) \/ WriteSpace(s) \/ RemoveRevocations(s)
          \/ RemoveSpace(s) \/ PublishLog(s) => backend' = backend
    BY DEF Begin, CacheFill, Prune, WriteSpace, RemoveRevocations, RemoveSpace, PublishLog, books
  <2>4. Acknowledge(s) \/ ChangePolicy(s) \/ InsertRevocation(s) \/ UpdateKeystore(s) \/ GenerateKey(s)
          \/ FailLate(s) => backend' = backend
    BY DEF Acknowledge, ChangePolicy, InsertRevocation, UpdateKeystore, GenerateKey, FailLate, books
  <2>5. \/ Quiet(s)
        \/ Begin(s) \/ CacheFill(s) \/ Prune(s) \/ WriteSpace(s) \/ RemoveRevocations(s)
        \/ RemoveSpace(s) \/ PublishLog(s)
        \/ Acknowledge(s) \/ ChangePolicy(s) \/ InsertRevocation(s) \/ UpdateKeystore(s) \/ GenerateKey(s)
        \/ FailLate(s)
    BY <2>1 DEF Handle, Quiet
  <2> QED BY <2>2, <2>3, <2>4, <2>5
<1>2. CASE Tick \/ Restart \/ UNCHANGED vars
  BY <1>2 DEF Tick, Restart, vars
<1> QED BY <1>1, <1>2 DEF Next

LEMMA PriorNext == TypeOK /\ ShapeInv /\ PriorInv /\ [Next]_vars => PriorInv'
<1> SUFFICES ASSUME TypeOK, ShapeInv, PriorInv, [Next]_vars, NEW t \in Slots,
                    pc'[t] = "write", backend' = "filesystem"
             PROVE  view'[t].prior \in seen'[t].spaces
  BY DEF PriorInv
<1>0. TypeOK' /\ ShapeInv' /\ backend = "filesystem"
  BY TypedNext, BackendKept
<1>1. request'[t] # None
  BY <1>0 DEF TypeOK
<1>2. Kept(t) /\ Witness => view'[t].prior \in seen'[t].spaces
  <2> SUFFICES ASSUME Kept(t), Witness PROVE view'[t].prior \in seen'[t].spaces
    OBVIOUS
  <2>1. view[t].prior \in seen[t].spaces
    BY <1>0 DEF Kept, PriorInv
  <2>2. seen[t].spaces \subseteq seen'[t].spaces
    BY <1>1, WitnessGrows DEF Kept
  <2> QED BY <2>1, <2>2 DEF Kept
<1>3. CASE \E s \in Slots : Handle(s) \/ FailLate(s)
  <2>1. PICK s \in Slots : Handle(s) \/ FailLate(s)
    BY <1>3
  <2>2. Witness
    BY <2>1, AlwaysWitness
  <2>3. CASE t # s
    <3>1. Kept(t)
      BY <2>1, <2>3, BeginMoves, AllMove DEF Moves
    <3> QED BY <1>2, <2>2, <3>1
  <2>4. CASE t = s
    <3>1. ReadPrior(t)
      BY <2>1, <2>4, WriteFrom
    <3>2. pc[t] = "act" /\ space' = space
      BY <3>1 DEF ReadPrior, Ready, stored
    <3>3. ~Answer(t)
      BY <1>1, AnswerOwn DEF Answered
    <3>4. Step(t, "write", [view[t] EXCEPT !.prior = space])
      BY <1>0, <3>1, <3>3 DEF ReadPrior
    <3>5. view[t] \in View(request[t]) /\ request[t] # None
      BY <3>2 DEF TypeOK
    <3>6. [view[t] EXCEPT !.prior = space].prior = space
      BY <3>5 DEF View
    <3>7. view'[t].prior = space /\ request'[t] = request[t]
      <4> DEFINE x == [view[t] EXCEPT !.prior = space]
      <4>1. x.prior = space /\ Step(t, "write", x)
        BY <3>4, <3>6
      <4> HIDE DEF x
      <4> QED BY <4>1, StepOwn
    <3>8. space' \in seen'[t].spaces
      BY <1>1, <2>2, <3>5, <3>7, WitnessGrows
    <3> QED BY <3>2, <3>7, <3>8
  <2> QED BY <2>3, <2>4
<1>4. CASE Tick
  BY <1>2, <1>4 DEF Tick, Kept, flight
<1>5. CASE Restart
  BY <1>1, <1>5 DEF Restart
<1>6. CASE UNCHANGED vars
  BY <1>0, <1>6 DEF vars, flight, PriorInv
<1> QED BY <1>3, <1>4, <1>5, <1>6 DEF Next

LEMMA SpaceWriters ==
  ASSUME [Next]_vars, space' # space, space' # None
  PROVE  \E s \in Slots : WriteSpace(s)
<1>1. CASE \E s \in Slots : Handle(s) \/ FailLate(s)
  <2>1. PICK s \in Slots : Handle(s) \/ FailLate(s)
    BY <1>1
  <2>2. ~Quiet(s)
    BY QuietLeaves DEF stored
  <2>3. ~Begin(s) /\ ~CacheFill(s) /\ ~Prune(s) /\ ~RemoveRevocations(s) /\ ~RemoveSpace(s) /\ ~PublishLog(s)
    BY DEF Begin, CacheFill, Prune, RemoveRevocations, RemoveSpace, PublishLog, stored
  <2>4. ~Acknowledge(s) /\ ~ChangePolicy(s) /\ ~InsertRevocation(s) /\ ~UpdateKeystore(s) /\ ~GenerateKey(s)
          /\ ~FailLate(s)
    BY DEF Acknowledge, ChangePolicy, InsertRevocation, UpdateKeystore, GenerateKey, FailLate, stored
  <2>5. WriteSpace(s)
    BY <2>1, <2>2, <2>3, <2>4 DEF Handle, Quiet
  <2> QED BY <2>5
<1>2. CASE Tick \/ Restart \/ UNCHANGED vars
  BY <1>2 DEF Tick, Restart, vars, stored
<1> QED BY <1>1, <1>2 DEF Next

\* A Space keeps its creator for as long as it lives, except that a request on the
\* filesystem may store the creator it found, or its own invoker where it found no Space,
\* when a deletion or a create overtook it (writeSpace of both backends).
THEOREM CreatorFixed == Spec => CreatorIsFixed
<1> DEFINE Inv == TypeOK /\ ShapeInv /\ PriorInv
           Changes == space # None /\ space' # None /\ space'.creator # space.creator
           Overtaken == \E s \in Slots : /\ pc[s] = "write" /\ pc'[s] = "landed" /\ backend = "filesystem"
                                         /\ \E d \in seen[s].spaces : d = None \/ d.creator = space'.creator
<1>1. Init => Inv
  <2>1. Init => PriorInv
    BY DEF Init, PriorInv
  <2> QED BY <2>1, TypedInit
<1>2. Inv /\ [Next]_vars => Inv'
  BY TypedNext, PriorNext
<1>3. Inv /\ [Next]_vars => [Changes => Overtaken]_vars
  <2> SUFFICES ASSUME Inv, [Next]_vars, Changes PROVE Overtaken
    OBVIOUS
  <2>1. PICK s \in Slots : WriteSpace(s)
    BY SpaceWriters
  <2> DEFINE prior == IF backend = "filesystem" THEN view[s].prior ELSE space
  <2>2. pc[s] = "write" /\ pc'[s] = "landed" /\ space'.creator = Creator(prior, request[s])
    BY <2>1, StepOwn DEF WriteSpace, Land, Ready
  <2>3. backend = "filesystem"
    BY <2>2 DEF Creator
  <2>4. view[s].prior \in seen[s].spaces
    BY <2>2, <2>3 DEF PriorInv
  <2>5. view[s].prior = None \/ view[s].prior.creator = space'.creator
    BY <2>2, <2>3 DEF Creator
  <2> QED BY <2>2, <2>3, <2>4, <2>5
<1> QED BY <1>1, <1>2, <1>3, PTL DEF Spec, CreatorIsFixed

----------------------------------------------------------------------------
(* Reads that a policy grants.                                             *)

\* The policies a read has collected are those of some instant since it began: now, or
\* before the one change that came while it was reading.
Instant(s, Q) ==
  /\ Q \in [Levels -> PolicyTypes \cup {None}]
  /\ GrantingNow(request[s].level, Q) => seen[s].granting
  /\ \A l \in Levels : view[s].policies[l] \in IF l \in Consulted(request[s].level) THEN {Unread, Q[l]} ELSE {None}
  /\ \/ Q = policies
     \/ /\ seen[s].changes = 1
        /\ \E m \in Levels : /\ view[s].policies[m] # Unread
                             /\ \A l \in Levels \ {m} : Q[l] = policies[l]
ReadsInv(s) ==
  /\ request[s] # None => /\ seen[s].changes \in Nat
                          /\ GrantingNow(request[s].level, policies) => seen[s].granting
  /\ pc[s] = "policy" => seen[s].changes > 1 \/ \E Q \in [Levels -> PolicyTypes \cup {None}] : Instant(s, Q)
  /\ pc[s] = "granted" /\ request[s].kind = "get" => seen[s].granting \/ seen[s].changes > 1
PolicyInv == \A s \in Slots : ReadsInv(s)

\* What decides grants exactly by a public policy with none more specific.
LEMMA EffectiveGrants ==
  ASSUME NEW level \in Levels, NEW P,
         \A l \in Levels : P[l] \in PolicyTypes \cup {None},
         \A l \in Levels \ Consulted(level) : P[l] = None,
         Grants(Effective(P), "read")
  PROVE  GrantingNow(level, P)
<1>1. Effective(P) = "PublicCanRead"
  BY DEF Grants
<1>2. None # "PublicCanRead"
  BY ConstantsAssumption DEF PolicyTypes
<1>3. level \in {"space", "collection", "resource"}
  BY DEF Levels
<1>4. CASE P["resource"] # None
  <2>1. P["resource"] = "PublicCanRead" /\ "resource" \in Consulted(level)
    BY <1>1, <1>4 DEF Effective, Levels
  <2> QED BY <2>1 DEF GrantingNow, Below
<1>5. CASE P["resource"] = None /\ P["collection"] # None
  <2>1. P["collection"] = "PublicCanRead" /\ "collection" \in Consulted(level)
    BY <1>1, <1>5 DEF Effective, Levels
  <2>2. \A m \in Consulted(level) \cap Below["collection"] : P[m] = None
    BY <1>5 DEF Below
  <2> QED BY <2>1, <2>2 DEF GrantingNow
<1>6. CASE P["resource"] = None /\ P["collection"] = None
  <2>1. P["space"] = "PublicCanRead" /\ "space" \in Consulted(level)
    BY <1>1, <1>3, <1>6 DEF Effective, Levels, Consulted
  <2>2. \A m \in Consulted(level) \cap Below["space"] : P[m] = None
    BY <1>6 DEF Below
  <2> QED BY <2>1, <2>2 DEF GrantingNow
<1> QED BY <1>4, <1>5, <1>6

LEMMA PolicyFrom ==
  ASSUME TypeOK, ShapeInv, NEW s \in Slots, Handle(s) \/ FailLate(s), pc'[s] \in {"policy", "granted"}
  PROVE  ReadPolicy(s) \/ DecidePolicy(s) \/ Operate(s) \/ Deny(s)
<1> SUFFICES ASSUME ~ReadPolicy(s), ~DecidePolicy(s), ~Operate(s), ~Deny(s) PROVE FALSE
  OBVIOUS
<1>1. ~Answer(s)
  BY AnswerOwn DEF Answered
<1>2. \A p, w : Step(s, p, w) => p \in {"policy", "granted"}
  BY StepOwn
<1>3. \A w : /\ ~Step(s, "auth", w) /\ ~Step(s, "act", w) /\ ~Step(s, "clause", w)
            /\ ~Step(s, "inspect", w) /\ ~Step(s, "prune", w) /\ ~Step(s, "prune target", w)
  <2>1. \A p, w : Step(s, p, w) => p = pc'[s]
    BY StepOwn
  <2>2. pc'[s] \notin {"auth", "act", "clause", "inspect", "prune", "prune target"}
    OBVIOUS
  <2>3. \A p \in {"auth", "act", "clause", "inspect", "prune", "prune target"} : \A w : ~Step(s, p, w)
    BY <2>1, <2>2
  <2> QED BY <2>3
<1>4. \A w : ~Admit(s, w)
  BY <1>2 DEF Admit
<1>5. \A b, w : ~Verdict(s, b, w)
  BY <1>1, <1>3, <1>4 DEF Verdict
<1>6. \A k \in Stores : \A x, b : Wants(s, k) => ~Deliver(s, k, x, b)
  BY <1>1, <1>2 DEF Deliver, Wants, WantsDocument, Stores
<1>7. ~CacheHit(s) /\ ~CacheJoin(s)
  BY <1>6 DEF CacheHit, CacheJoin, TypeOK
<1>8. ~CacheFill(s)
  BY <1>6 DEF CacheFill, ShapeInv, FillShape, TypeOK
<1>9. ~CacheMiss(s)
  <2> SUFFICES ASSUME CacheMiss(s) PROVE FALSE
    OBVIOUS
  <2>1. pc[s] \in {"policy", "granted"} /\ \E k \in Stores : Wants(s, k)
    BY DEF CacheMiss, TypeOK
  <2> QED BY <2>1 DEF Wants, WantsDocument, Stores
<1>10. ~Begin(s) /\ ~Fetch(s)
  BY <1>1, <1>3, BeginMoves DEF Fetch
<1>11. ~Authenticate(s) /\ ~Inspect(s) /\ ~Prune(s) /\ ~Clause(s)
  BY <1>1, <1>3, <1>4, <1>5 DEF Authenticate, Inspect, Prune, Clause
<1>12. ~ReadPrior(s) /\ ~QuotaRefuses(s) /\ ~WriteSpace(s) /\ ~RemoveRevocations(s) /\ ~RemoveSpace(s) /\ ~PublishLog(s)
  BY <1>1, <1>2 DEF ReadPrior, QuotaRefuses, WriteSpace, RemoveRevocations, RemoveSpace, PublishLog, Land
<1>13. ~Acknowledge(s) /\ ~ChangePolicy(s) /\ ~ScopeExists(s) /\ ~InsertRevocation(s) /\ ~UpdateKeystore(s)
  BY <1>1, <1>2 DEF Acknowledge, ChangePolicy, ScopeExists, InsertRevocation, UpdateKeystore
<1>14. ~GenerateKey(s) /\ ~Serve(s) /\ ~FailLate(s)
  BY <1>1, <1>2 DEF GenerateKey, Serve, FailLate
<1> QED BY <1>7, <1>8, <1>9, <1>10, <1>11, <1>12, <1>13, <1>14 DEF Handle

\* The levels whose policy a step changes.
Changed == {l \in Levels : policies'[l] # policies[l]}

LEMMA ChangedCounts ==
  ASSUME StoredOk, StoredOk'
  PROVE  /\ Cardinality(Changed) \in Nat
         /\ Cardinality(Changed) = 0 => policies' = policies
         /\ Cardinality(Changed) = 1 => \E m \in Levels : \A l \in Levels \ {m} : policies'[l] = policies[l]
         /\ policies' = policies => Cardinality(Changed) = 0
<1>1. IsFiniteSet(Levels)
  <2>1. IsFiniteSet({"space"}) /\ IsFiniteSet({"collection"}) /\ IsFiniteSet({"resource"})
    BY FS_Singleton
  <2>2. IsFiniteSet({"space"} \cup {"collection"})
    BY <2>1, FS_Union
  <2>3. IsFiniteSet(({"space"} \cup {"collection"}) \cup {"resource"})
    BY <2>1, <2>2, FS_Union
  <2>4. Levels = ({"space"} \cup {"collection"}) \cup {"resource"}
    BY DEF Levels
  <2> QED BY <2>3, <2>4
<1>2. IsFiniteSet(Changed)
  BY <1>1, FS_Subset DEF Changed
<1>3. Cardinality(Changed) \in Nat
  BY <1>2, FS_CardinalityType
<1>4. Cardinality(Changed) = 0 <=> Changed = {}
  BY <1>2, FS_EmptySet
<1>5. policies \in [Levels -> PolicyTypes \cup {None}] /\ policies' \in [Levels -> PolicyTypes \cup {None}]
  BY DEF StoredOk
<1>6. Changed = {} => policies' = policies
  BY <1>5 DEF Changed
<1>7. policies' = policies => Changed = {}
  BY DEF Changed
<1>8. Cardinality(Changed) = 1 => \E m \in Levels : \A l \in Levels \ {m} : policies'[l] = policies[l]
  <2> SUFFICES ASSUME Cardinality(Changed) = 1 PROVE \E m \in Levels : \A l \in Levels \ {m} : policies'[l] = policies[l]
    OBVIOUS
  <2>1. PICK m : Changed = {m}
    BY <1>2, FS_Singleton
  <2> QED BY <2>1 DEF Changed
<1> QED BY <1>3, <1>4, <1>6, <1>7, <1>8

\* Whatever policies a step changes, the requests in flight account for it.
LEMMA ReadsKept ==
  ASSUME TypeOK, ShapeInv, StoredOk', Witness, NEW t \in Slots, Kept(t), ReadsInv(t)
  PROVE  ReadsInv(t)'
<1> DEFINE r == request[t]
           v == view[t]
           n == Cardinality(Changed)
<1>0. StoredOk
  BY TypeParts
<1>1. CASE r = None
  <2>1. request'[t] = None /\ pc'[t] = "idle"
    BY <1>1 DEF Kept, TypeOK
  <2> QED BY <2>1 DEF ReadsInv
<1>2. CASE r # None
  <2>1. request'[t] = r /\ view'[t] = v /\ pc'[t] = pc[t]
    BY DEF Kept
  <2>2. /\ seen'[t].granting <=> (seen[t].granting \/ GrantingNow(r.level, policies'))
        /\ seen'[t].changes = seen[t].changes + n
    BY <1>2, <2>1, WitnessGrows DEF Changed
  <2>3. n \in Nat /\ seen[t].changes \in Nat
    BY <1>0, <1>2, ChangedCounts DEF ReadsInv
  <2> HIDE DEF n
  <2>4. seen'[t].changes \in Nat /\ seen'[t].changes >= seen[t].changes
    BY <2>2, <2>3
  <2>5. GrantingNow(r.level, policies') => seen'[t].granting
    BY <2>2
  <2>6. seen[t].granting => seen'[t].granting
    BY <2>2
  <2>7. ASSUME pc[t] = "policy"
        PROVE  seen'[t].changes > 1 \/ \E Q \in [Levels -> PolicyTypes \cup {None}] : Instant(t, Q)'
    <3>1. CASE seen[t].changes > 1
      BY <2>3, <2>4, <3>1
    <3>2. CASE ~(seen[t].changes > 1)
      <4>1. PICK Q \in [Levels -> PolicyTypes \cup {None}] : Instant(t, Q)
        BY <2>7, <3>2 DEF ReadsInv
      <4>2. GrantingNow(r.level, Q) => seen'[t].granting
        BY <2>6, <4>1 DEF Instant
      <4>3. \A l \in Levels : v.policies[l] \in IF l \in Consulted(r.level) THEN {Unread, Q[l]} ELSE {None}
        BY <4>1 DEF Instant
      <4>4. CASE n = 0
        <5>1. policies' = policies /\ seen'[t].changes = seen[t].changes
          BY <1>0, <2>2, <2>3, <4>4, ChangedCounts DEF n
        <5>2. \/ Q = policies'
              \/ /\ seen'[t].changes = 1
                 /\ \E m \in Levels : v.policies[m] # Unread /\ \A l \in Levels \ {m} : Q[l] = policies'[l]
          BY <4>1, <5>1 DEF Instant
        <5>3. Instant(t, Q)'
          BY <2>1, <4>2, <4>3, <5>2 DEF Instant
        <5> QED BY <5>3
      <4>5. CASE n # 0 /\ (seen[t].changes # 0 \/ n # 1)
        BY <2>2, <2>3, <4>5
      <4>6. CASE n = 1 /\ seen[t].changes = 0
        <5>1. seen'[t].changes = 1
          BY <2>2, <2>3, <4>6
        <5>2. Q = policies
          BY <4>1, <4>6 DEF Instant
        <5>3. PICK m \in Levels : \A l \in Levels \ {m} : policies'[l] = policies[l]
          BY <1>0, <4>6, ChangedCounts DEF n
        <5>4. CASE v.policies[m] # Unread
          <6>1. \A l \in Levels \ {m} : Q[l] = policies'[l]
            BY <5>2, <5>3
          <6>2. Instant(t, Q)'
            BY <2>1, <4>2, <4>3, <5>1, <5>4, <6>1 DEF Instant
          <6> QED BY <6>2
        <5>5. CASE v.policies[m] = Unread
          <6>1. \A l \in Levels : v.policies[l] \in IF l \in Consulted(r.level) THEN {Unread, policies'[l]} ELSE {None}
            BY <4>3, <5>2, <5>3, <5>5
          <6>2. policies' \in [Levels -> PolicyTypes \cup {None}]
            BY DEF StoredOk
          <6>3. Instant(t, policies)'
            BY <2>1, <2>5, <6>1, <6>2 DEF Instant
          <6> QED BY <6>2, <6>3
        <5> QED BY <5>4, <5>5
      <4> QED BY <4>4, <4>5, <4>6
    <3> QED BY <3>1, <3>2
  <2>8. pc[t] = "granted" /\ r.kind = "get" => seen'[t].granting \/ seen'[t].changes > 1
    <3> SUFFICES ASSUME pc[t] = "granted", r.kind = "get" PROVE seen'[t].granting \/ seen'[t].changes > 1
      OBVIOUS
    <3>1. seen[t].granting \/ seen[t].changes > 1
      BY DEF ReadsInv
    <3>2. CASE seen[t].granting
      BY <2>6, <3>2
    <3>3. CASE seen[t].changes > 1
      BY <2>3, <2>4, <3>3
    <3> QED BY <3>1, <3>2, <3>3
  <2> QED BY <2>1, <2>4, <2>5, <2>7, <2>8 DEF ReadsInv
<1> QED BY <1>1, <1>2

LEMMA ReadsOwn ==
  ASSUME TypeOK, ShapeInv, TypeOK', NEW s \in Slots, ReadsInv(s), Handle(s) \/ FailLate(s)
  PROVE  ReadsInv(s)'
<1> DEFINE r == request[s]
           v == view[s]
           n == Cardinality(Changed)
<1>0. Witness /\ StoredOk /\ StoredOk'
  BY AlwaysWitness, TypeParts DEF TypeOK, StoredOk
<1>1. CASE request'[s] = None
  <2>1. pc'[s] = "idle"
    BY <1>1 DEF TypeOK
  <2> QED BY <1>1, <2>1 DEF ReadsInv
<1>2. CASE request'[s] # None /\ Begin(s)
  <2>1. pc'[s] = "fetch" /\ request[s] = None
    BY <1>2, BeginMoves
  <2>2. seen'[s].changes = 0 /\ (GrantingNow(request'[s].level, policies') => seen'[s].granting)
    BY <1>0, <1>2, <2>1, WitnessBegins
  <2> QED BY <2>1, <2>2 DEF ReadsInv
<1>3. CASE request'[s] # None /\ ~Begin(s)
  <2>1. request'[s] = r /\ r # None
    BY <1>3, AllMove DEF Moves, Answered
  <2>2. /\ seen'[s].granting <=> (seen[s].granting \/ GrantingNow(r.level, policies'))
        /\ seen'[s].changes = seen[s].changes + n
    BY <1>0, <2>1, WitnessGrows DEF Changed
  <2>3. n \in Nat /\ seen[s].changes \in Nat
    BY <1>0, <2>1, ChangedCounts DEF ReadsInv
  <2>4. policies' = policies => n = 0
    BY <1>0, ChangedCounts
  <2> HIDE DEF n
  <2>5. seen'[s].changes \in Nat /\ seen'[s].changes >= seen[s].changes
    BY <2>2, <2>3
  <2>6. GrantingNow(r.level, policies') => seen'[s].granting
    BY <2>2
  <2>7. seen[s].granting => seen'[s].granting
    BY <2>2
  <2>8. ~Answer(s) /\ v \in View(r)
    BY <1>3, AnswerOwn DEF Answered, TypeOK
  <2>9. request'[s] # None => /\ seen'[s].changes \in Nat
                              /\ GrantingNow(request'[s].level, policies') => seen'[s].granting
    BY <2>1, <2>5, <2>6
  <2>10. CASE pc'[s] \notin {"policy", "granted"}
    BY <2>9, <2>10 DEF ReadsInv
  <2>11. CASE Deny(s)
    <3> DEFINE q == [l \in Levels |-> IF l \in Consulted(r.level) THEN Unread ELSE None]
               w == [v EXCEPT !.policies = q]
    <3>1. Step(s, "policy", w)
      BY <2>8, <2>11 DEF Deny
    <3>2. w.policies = q
      BY <2>8 DEF View
    <3> HIDE DEF w
    <3>3. pc'[s] = "policy" /\ view'[s].policies = q
      BY <3>1, <3>2, StepOwn
    <3>4. policies' \in [Levels -> PolicyTypes \cup {None}]
      BY <1>0 DEF StoredOk
    <3>5. Instant(s, policies)'
      BY <2>1, <2>6, <3>3, <3>4 DEF Instant
    <3> QED BY <2>9, <3>3, <3>4, <3>5 DEF ReadsInv
  <2>12. CASE ReadPolicy(s)
    <3>1. pc[s] = "policy" /\ policies' = policies
      BY <2>12 DEF ReadPolicy, Ready, stored
    <3>2. PICK l \in Levels : v.policies[l] = Unread /\ Step(s, "policy", [v EXCEPT !.policies[l] = policies[l]])
      BY <2>12 DEF ReadPolicy
    <3> DEFINE q == [v.policies EXCEPT ![l] = policies[l]]
               w == [v EXCEPT !.policies = q]
    <3>3. w.policies = q
      BY <2>8 DEF View
    <3>4. Step(s, "policy", w)
      BY <3>2
    <3> HIDE DEF w
    <3>5. pc'[s] = "policy" /\ view'[s].policies = q
      BY <3>3, <3>4, StepOwn
    <3>6. q[l] = policies[l] /\ \A m \in Levels \ {l} : q[m] = v.policies[m]
      BY <2>8 DEF View
    <3> HIDE DEF q
    <3>7. seen'[s].changes = seen[s].changes
      BY <2>2, <2>3, <2>4, <3>1
    <3>8. CASE seen[s].changes > 1
      BY <2>9, <3>5, <3>7, <3>8 DEF ReadsInv
    <3>9. CASE ~(seen[s].changes > 1)
      <4>1. PICK Q \in [Levels -> PolicyTypes \cup {None}] : Instant(s, Q)
        BY <3>1, <3>9 DEF ReadsInv
      <4>2. l \in Consulted(r.level)
        <5>1. None # Unread
          BY ConstantsAssumption
        <5> QED BY <3>2, <4>1, <5>1 DEF Instant
      <4>3. Q[l] = policies[l]
        BY <3>2, <4>1 DEF Instant
      <4>4. \A m \in Levels : q[m] \in IF m \in Consulted(r.level) THEN {Unread, Q[m]} ELSE {None}
        BY <3>6, <4>1, <4>2, <4>3 DEF Instant
      <4>5. GrantingNow(r.level, Q) => seen'[s].granting
        BY <2>7, <4>1 DEF Instant
      <4>6. \/ Q = policies'
            \/ /\ seen'[s].changes = 1
               /\ \E m \in Levels : q[m] # Unread /\ \A k \in Levels \ {m} : Q[k] = policies'[k]
        <5>1. CASE Q = policies
          BY <3>1, <5>1
        <5>2. CASE Q # policies
          <6>1. PICK m \in Levels : v.policies[m] # Unread /\ \A k \in Levels \ {m} : Q[k] = policies[k]
            BY <4>1, <5>2 DEF Instant
          <6>2. q[m] # Unread
            BY <3>2, <3>6, <6>1
          <6>3. seen'[s].changes = 1
            BY <3>7, <4>1, <5>2 DEF Instant
          <6> QED BY <3>1, <6>1, <6>2, <6>3
        <5> QED BY <5>1, <5>2
      <4>7. Instant(s, Q)'
        BY <2>1, <3>5, <4>4, <4>5, <4>6 DEF Instant
      <4> QED BY <2>9, <3>5, <4>7 DEF ReadsInv
    <3> QED BY <3>8, <3>9
  <2>13. CASE DecidePolicy(s)
    <3>1. /\ pc[s] = "policy" /\ Step(s, "granted", v) /\ \A l \in Levels : v.policies[l] # Unread
          /\ Grants(Effective(v.policies), "read")
      BY <2>8, <2>13 DEF DecidePolicy, Ready
    <3>2. pc'[s] = "granted"
      BY <3>1, StepOwn
    <3>3. CASE seen[s].changes > 1
      BY <2>3, <2>5, <2>9, <3>2, <3>3 DEF ReadsInv
    <3>4. CASE ~(seen[s].changes > 1)
      <4>1. PICK Q \in [Levels -> PolicyTypes \cup {None}] : Instant(s, Q)
        BY <3>1, <3>4 DEF ReadsInv
      <4>2. r \in Request
        BY <2>1 DEF TypeOK
      <4>3. r.level \in Levels
        BY <4>2 DEF Request
      <4>4. /\ \A l \in Levels : v.policies[l] \in PolicyTypes \cup {None}
            /\ \A l \in Levels \ Consulted(r.level) : v.policies[l] = None
            /\ \A l \in Levels \cap Consulted(r.level) : v.policies[l] = Q[l]
        BY <3>1, <4>1 DEF Instant
      <4>5. GrantingNow(r.level, v.policies)
        BY <3>1, <4>3, <4>4, EffectiveGrants
      <4>6. Consulted(r.level) \subseteq Levels
        BY <4>3 DEF Consulted, Levels
      <4>7. GrantingNow(r.level, Q)
        BY <4>4, <4>5, <4>6 DEF GrantingNow
      <4>8. seen'[s].granting
        BY <2>7, <4>1, <4>7 DEF Instant
      <4> QED BY <2>9, <3>2, <4>8 DEF ReadsInv
    <3> QED BY <3>3, <3>4
  <2>14. CASE Operate(s)
    <3>1. r.kind = "operate" /\ Step(s, "granted", v)
      BY <2>8, <2>14 DEF Operate
    <3>2. pc'[s] = "granted" /\ request'[s].kind # "get"
      BY <2>1, <3>1, StepOwn
    <3> QED BY <2>9, <3>2 DEF ReadsInv
  <2> QED BY <2>10, <2>11, <2>12, <2>13, <2>14, PolicyFrom
<1> QED BY <1>1, <1>2, <1>3

LEMMA PolicyNext == TypeOK /\ ShapeInv /\ PolicyInv /\ [Next]_vars => PolicyInv'
<1> SUFFICES ASSUME TypeOK, ShapeInv, PolicyInv, [Next]_vars, NEW t \in Slots PROVE ReadsInv(t)'
  BY DEF PolicyInv
<1>0. TypeOK' /\ StoredOk' /\ ReadsInv(t)
  BY TypedNext DEF TypeOK, StoredOk, PolicyInv
<1>1. CASE \E s \in Slots : Handle(s) \/ FailLate(s)
  <2>1. PICK s \in Slots : Handle(s) \/ FailLate(s)
    BY <1>1
  <2>2. CASE t # s
    <3>1. Kept(t) /\ Witness
      BY <2>1, <2>2, BeginMoves, AllMove, AlwaysWitness DEF Moves
    <3> QED BY <1>0, <3>1, ReadsKept
  <2>3. CASE t = s
    BY <1>0, <2>1, <2>3, ReadsOwn
  <2> QED BY <2>2, <2>3
<1>2. CASE Tick
  <2>1. Kept(t) /\ Witness
    BY <1>2 DEF Tick, Kept, flight
  <2> QED BY <1>0, <2>1, ReadsKept
<1>3. CASE Restart
  BY <1>3 DEF Restart, ReadsInv
<1>4. CASE UNCHANGED vars
  <2>1. UNCHANGED <<request, pc, view, seen, policies>>
    BY <1>4 DEF vars, stored, flight
  <2>2. \A Q : Instant(t, Q) => Instant(t, Q)'
    BY <2>1 DEF Instant
  <2> QED BY <1>0, <2>1, <2>2 DEF ReadsInv
<1> QED BY <1>1, <1>2, <1>3, <1>4 DEF Next

\* A read that a policy granted was granted by the effective policy of its target at some
\* instant since it began, though the levels are read one by one, unless two policies
\* changed while it read them (policy.ts).
THEOREM PolicyEffective == Spec => []PolicyGrantWasEffective
<1> DEFINE Inv == TypeOK /\ ShapeInv /\ PolicyInv
<1>1. Init => Inv
  <2>1. Init => PolicyInv
    BY DEF Init, PolicyInv, ReadsInv
  <2> QED BY <2>1, TypedInit
<1>2. Inv /\ [Next]_vars => Inv'
  BY TypedNext, PolicyNext
<1>3. Inv => PolicyGrantWasEffective
  BY DEF PolicyInv, ReadsInv, PolicyGrantWasEffective
<1> QED BY <1>1, <1>2, <1>3, PTL DEF Spec
===============================================================================
