------------------------------- MODULE Authority -------------------------------
(***************************************************************************)
(* Who may do what, when: one Space and one keystore, their controllers,   *)
(* capabilities, revocations and policies, and the requests in flight at a *)
(* server that answers Space Descriptions and did:webvh documents from     *)
(* caches.  Every await of a handler is a step, so a handover, a key       *)
(* rotation, a revocation or a deletion can land between the read that     *)
(* authorises a request and the request's effect.                          *)
(*                                                                         *)
(* The memoisation library is external.  A miss reads storage at once and  *)
(* answers later; requests meanwhile may read for themselves or wait for   *)
(* the answer in flight; an answer whose entry was invalidated in flight   *)
(* may or may not be kept.  A tick outlasts a cache entry, and one tick is *)
(* also the margin a revocation record is kept past its capability.        *)
(***************************************************************************)
EXTENDS Capabilities, FiniteSets

CONSTANTS
  Slots,      \* requests the server handles at a time
  Scenarios,  \* the starting contents and the requests clients may send
  Backends,   \* a subset of {"filesystem", "postgres"}
  Unread,     \* a document or a policy level that has not been read yet
  MaxTime,    \* bound: ticks of the clock
  MaxFaults   \* bound: restarts, and writes that fail after they landed

Dids == {OwnerOf[k] : k \in DOMAIN OwnerOf}
          \cup {Capability[c].controller : c \in DOMAIN Capability}
SpaceTypes == {"plain", "clients"}
Description == [controller : Dids, creator : Dids \cup {None}, type : SpaceTypes]
Config == [controller : Dids, sequence : Nat]
Versions == DOMAIN Document \cup {NoDocument}
RevocationNames == [id : {Capability[c].id : c \in DOMAIN Capability}, delegator : Dids]
PolicyTypes == {"PublicCanRead", "other"}
Kinds == {"put", "post", "delete", "get", "policy", "publish", "revoke",
          "read", "update", "generate", "operate"}
Chains == {<<>>} \cup {<<c>> : c \in DOMAIN Capability}
            \cup {<<c, d>> : c \in DOMAIN Capability, d \in DOMAIN Capability}

\* A request: its scope, who signs it under which chain, and the parts of its body:
\* a controller, a Space type, a policy for a level (None deletes it), a log entry, the
\* chain to be revoked, a keystore sequence, the chain bound of a key.
Request == [kind : Kinds, scope : Scopes, signer : DOMAIN OwnerOf \cup {None},
            chain : Chains, controller : Dids \cup {None}, type : SpaceTypes \cup {None},
            level : Levels, policy : PolicyTypes \cup {None}, version : Versions,
            target : Chains, sequence : Nat, bound : Nat]

Stores == {"space", "doc"}
Values(k) == IF k = "space" THEN Description \cup {None} ELSE Versions
\* A cached value.  `stale` is history: a write was acknowledged between the storage
\* read that produced the value and the moment it was cached.
Entry(k) == [value : Values(k), until : Nat, stale : BOOLEAN]
\* A storage read whose answer is on its way to a cache and to its reader.
Fill(k) == [of : {k}, value : Values(k), stale : BOOLEAN]

\* What a handler has read: the description its authority comes from, the document, the
\* prior description, the policies by level, the expired records it is about to remove
\* with the verdict, whose caches gave it a stale value, and when it began.
View(r) ==
  [root : (IF r # None /\ r.scope = "keystore" THEN Config ELSE Description) \cup {None}, doc : Versions \cup {Unread},
   prior : Description \cup {None}, policies : [Levels -> PolicyTypes \cup {None, Unread}],
   expired : SUBSET RevocationNames, revoked : BOOLEAN, stale : SUBSET Stores, began : Nat]

\* The shape of a request that a route lets through.
WellFormed(r) ==
  /\ r.kind \in {"read", "update", "generate", "operate"} => r.scope = "keystore"
  /\ r.scope = "keystore" => r.kind \in {"read", "update", "generate", "operate", "revoke"}
  /\ r.kind \in {"put", "post", "update"} => r.controller # None

WellFormedScenario(c) ==
  /\ c.space \in Description \cup {None} /\ c.keystore \in Config /\ c.keys \in Seq(Nat)
  /\ c.log \in Versions
  /\ DOMAIN c.revs = Scopes
  /\ \A scope \in Scopes : /\ DOMAIN c.revs[scope] \subseteq RevocationNames
                           /\ \A n \in DOMAIN c.revs[scope] : c.revs[scope][n] \in Nat
  /\ c.policies \in [Levels -> PolicyTypes \cup {None}]
  /\ \A r \in c.requests : r \in Request /\ WellFormed(r)

\* A did:key is its own key; the model values are none of the values they stand beside.
ASSUME ConstantsAssumption ==
  /\ \A did \in Dids \ {Webvh} : did \in DOMAIN OwnerOf => OwnerOf[did] = did
  /\ DOMAIN Document \subseteq Nat \ {NoDocument}
  /\ \A c \in DOMAIN Capability : Capability[c].expires \in Nat
  /\ Backends \subseteq {"filesystem", "postgres"}
  /\ MaxTime \in Nat /\ MaxFaults \in Nat
  /\ None \notin Request /\ None \notin Description /\ None \notin Config /\ None # Unread
  /\ None \notin Dids \cup DOMAIN OwnerOf /\ None \notin PolicyTypes /\ None \notin Versions
  /\ Unread \notin Versions /\ Unread \notin PolicyTypes
  /\ \A c \in Scenarios : WellFormedScenario(c)

VARIABLES
  backend,   \* the storage backend of this server
  space,     \* the Space Description, or None
  keystore,  \* the keystore config
  keys,      \* chain bounds of the keystore's keys, in the order they were made
  log,       \* entries of the history log in the Space, NoDocument when unpublished
  revs,      \* per scope: revocation records, by name the instant each expires
  policies,  \* per level: the policy's type, or None
  cache,     \* the two caches: "space" and "doc" -> Entry or None
  clock,     \* time, in ticks
  todo,      \* requests of this scenario not sent yet
  request,   \* per slot: the request in flight, or None
  pc,        \* per slot: the step its handler is at
  view,      \* per slot: what its handler has read
  fill,      \* per slot: its cache fill in flight, or None
  current,   \* history, per cache: stored values no acknowledged write has replaced
  acked,     \* history, per scope: acknowledged revocations of capabilities that have
             \* not expired, since the Space was last deleted, but for those whose
             \* record a concurrent pruning removed
  seen,      \* history, per slot: what was so at some instant since its request began
  faults     \* faults so far

stored == <<space, keystore, keys, log, revs, policies>>
flight == <<request, pc, view, fill>>
\* What most steps of a handler leave alone.
books == <<backend, clock, todo, current, acked, faults>>
vars == <<backend, stored, cache, clock, todo, flight,
          current, acked, seen, faults>>

----------------------------------------------------------------------------
(* Requests.                                                               *)

\* The action its invocation must carry: the HTTP verb on the Space routes.
Verb(r) ==
  CASE r.kind \in {"put", "publish"} -> "PUT"
    [] r.kind = "policy" -> IF r.policy = None THEN "DELETE" ELSE "PUT"
    [] r.kind = "delete" -> "DELETE"
    [] r.kind = "get" -> "GET"
    [] r.kind = "post" -> "POST"
    [] r.kind = "revoke" -> IF r.scope = "space" THEN "POST" ELSE "write"
    [] r.kind = "read" -> "read"
    [] r.kind = "update" -> "write"
    [] r.kind = "generate" -> "generateKey"
    [] r.kind = "operate" -> "sign"

TargetOf(r) ==
  CASE r.kind \in {"put", "delete", "read", "update"} -> "scope"
    [] r.kind = "get" -> IF r.level = "space" THEN "scope" ELSE "below"
    [] r.kind = "publish" -> "log"
    [] OTHER -> "below"

\* The DID of the key that signed; a request the provisioning policy vouched for has none.
InvokerDid(r) == IF r.signer = None THEN None ELSE OwnerOf[r.signer]

\* Mutant of Uncached: Update Space reads the Description through the cache.
UncachedCreate(r) == r.scope = "keystore" \/ r.kind = "post"

\* Handlers that read the controller from storage themselves: Space PUT and POST, and
\* every keystore route.  The others go through the Space Description cache.
Uncached(r) == r.scope = "keystore" \/ r.kind \in {"put", "post"}

NoView == [root |-> None, doc |-> Unread, prior |-> None,
           policies |-> [l \in Levels |-> None], expired |-> {}, revoked |-> FALSE,
           stale |-> {}, began |-> 0]

Stored(k) == IF k = "space" THEN space ELSE log
Idle(s) == request[s] = None
Ready(s, p) == pc[s] = p /\ fill[s] = None

\* The handler of slot s goes on at step p with view v.
Step(s, p, v) ==
  /\ pc' = [pc EXCEPT ![s] = p]
  /\ view' = [view EXCEPT ![s] = v]
  /\ UNCHANGED request

\* Mutant of Answer: the handler goes on after its answer.
AnswerGoesOn(s) ==
  /\ request' = [request EXCEPT ![s] = None]
  /\ view' = [view EXCEPT ![s] = NoView]
  /\ UNCHANGED pc

\* The request of slot s is answered, whatever the status.
Answer(s) ==
  /\ request' = [request EXCEPT ![s] = None]
  /\ pc' = [pc EXCEPT ![s] = "idle"]
  /\ view' = [view EXCEPT ![s] = NoView]

\* Authorisation failed: a read falls back on the effective policy.
Deny(s) ==
  IF request[s].kind = "get"
  THEN Step(s, "policy",
            [view[s] EXCEPT !.policies = [l \in Levels |->
               IF l \in Consulted(request[s].level) THEN Unread ELSE None]])
  ELSE Answer(s)

----------------------------------------------------------------------------
(* What requests have witnessed: history only.                             *)

Below == [space |-> {"collection", "resource"}, collection |-> {"resource"}, resource |-> {}]

\* A public policy with none more specific.
GrantingNow(level, pol) ==
  \E l \in Consulted(level) :
    /\ pol[l] = "PublicCanRead"
    /\ \A m \in Consulted(level) \cap Below[l] : pol[m] = None

Unseen == [spaces |-> {}, docs |-> {}, configs |-> {}, granting |-> FALSE, changes |-> 0,
           revoked |-> {}]

\* Part of every action: each request in flight notes what is stored after it.
Witness ==
  seen' = [s \in Slots |->
    IF request'[s] = None THEN Unseen
    ELSE LET r == request'[s]
             old == IF request[s] # None THEN seen[s]
                    ELSE [Unseen EXCEPT !.spaces = current["space"], !.docs = current["doc"],
                                        !.revoked = acked[r.scope]]
         IN  [spaces |-> old.spaces \cup {space'},
              docs |-> old.docs \cup {log'},
              configs |-> old.configs \cup {keystore'},
              granting |-> old.granting \/ GrantingNow(r.level, policies'),
              changes |-> old.changes
                + Cardinality({l \in Levels : request[s] # None /\ policies'[l] # policies[l]}),
              revoked |-> old.revoked \cap acked'[r.scope]]]

----------------------------------------------------------------------------
(* The caches.                                                             *)

Usable(k) == cache[k] # None /\ clock < cache[k].until

\* The step reads the did:webvh document: a key of it signed, the clause looks at it,
\* or it is the controller a Space is being handed to.
WantsDocument(s) ==
  LET r == request[s]
      v == view[s]
  IN  /\ v.doc = Unread
      /\ \/ /\ pc[s] = "auth"
            /\ r.signer # None
            /\ IF r.kind = "revoke" THEN v.root.controller = Webvh
                                    ELSE NeedsDocument(r.chain, v.root.controller)
         \/ pc[s] = "clause"
         \/ pc[s] = "act" /\ r.kind = "put" /\ r.controller = Webvh

Wants(s, k) ==
  IF k = "space" THEN pc[s] = "fetch" /\ ~Uncached(request[s]) ELSE WantsDocument(s)

\* An absent Space is a 404; an unresolvable document is left to the step that wants it.
Deliver(s, k, value, stale) ==
  LET v == [view[s] EXCEPT !.stale = IF stale THEN @ \cup {k} ELSE @]
  IN  IF k = "doc" THEN Step(s, pc[s], [v EXCEPT !.doc = value])
      ELSE IF value = None THEN Answer(s) ELSE Step(s, "auth", [v EXCEPT !.root = value])

CacheHit(s) ==
  /\ fill[s] = None
  /\ \E k \in DOMAIN cache : /\ Wants(s, k) /\ Usable(k)
                             /\ Deliver(s, k, cache[k].value, cache[k].stale)
  /\ UNCHANGED <<stored, cache, fill, books>>
  /\ Witness

\* A miss reads storage; the answer takes its time.
CacheMiss(s) ==
  /\ fill[s] = None
  /\ \E k \in DOMAIN cache :
       /\ Wants(s, k) /\ ~Usable(k)
       /\ fill' = [fill EXCEPT ![s] = [of |-> k, value |-> Stored(k), stale |-> FALSE]]
  /\ UNCHANGED <<stored, cache, request, pc, view, books>>
  /\ Witness

\* A miss shares the answer another request waits for.
CacheJoin(s) ==
  /\ fill[s] = None
  /\ \E t \in Slots : /\ fill[t] # None
                      /\ Wants(s, fill[t].of) /\ ~Usable(fill[t].of)
                      /\ Deliver(s, fill[t].of, fill[t].value, fill[t].stale)
  /\ UNCHANGED <<stored, cache, fill, books>>
  /\ Witness

\* A failed resolution is not cached.
Unresolved(f) == f.of = "doc" /\ f.value = NoDocument

\* The answer arrives, an absent Description like any other; one that was invalidated on
\* its way may be dropped.
CacheFill(s) ==
  /\ fill[s] # None
  /\ LET f == fill[s]
     IN  /\ \/ /\ ~Unresolved(f)
               /\ cache' = [cache EXCEPT ![f.of] =
                    [value |-> f.value, until |-> clock + 1, stale |-> f.stale]]
            \/ (f.stale \/ Unresolved(f)) /\ UNCHANGED cache
         /\ Deliver(s, f.of, f.value, f.stale)
  /\ fill' = [fill EXCEPT ![s] = None]
  /\ UNCHANGED <<stored, books>>
  /\ Witness

----------------------------------------------------------------------------
(* Authorisation.                                                          *)

\* A request arrives and passes the checks of its shape.
Begin(s) ==
  /\ Idle(s)
  /\ \E r \in todo :
       /\ request' = [request EXCEPT ![s] = r]
       /\ todo' = todo \ {r}
  /\ pc' = [pc EXCEPT ![s] = "fetch"]
  /\ view' = [view EXCEPT ![s].began = clock]
  /\ UNCHANGED <<backend, stored, cache, fill, clock, current, acked, faults>>
  /\ Witness

\* The keystore handlers, Space PUT and Space POST read the controller themselves.  On a
\* create there is none: the body's controller has to consent, unless the provisioning
\* policy vouched for the POST.
Fetch(s) ==
  LET r == request[s]
      v == view[s]
  IN  /\ Ready(s, "fetch") /\ Uncached(r)
      /\ \/ r.scope = "keystore" /\ Step(s, "auth", [v EXCEPT !.root = keystore])
         \/ /\ r.kind = "put" /\ space # None
            /\ Step(s, "auth", [v EXCEPT !.root = space])
         \/ /\ r.kind = "post" /\ space # None /\ Answer(s)
         \/ /\ r.scope = "space" /\ space = None
            /\ IF \/ r.kind = "post" /\ r.signer = None
                  \/ /\ r.signer # None
                     /\ Consents(r.signer, r.chain, r.controller,
                                 IF r.kind = "post" THEN "spaces" ELSE "space", Verb(r), clock)
               THEN Step(s, "act", v) ELSE Answer(s)
      /\ UNCHANGED <<stored, cache, fill, books>>
      /\ Witness

\* Signatures, chain and, for a revocation, the chain it names; the inspectors come next,
\* and a root invocation has nothing to inspect.
Authenticated(s) ==
  LET r == request[s]
      did == view[s].root.controller
      doc == IF view[s].doc = Unread THEN NoDocument ELSE view[s].doc
  IN  IF r.kind = "revoke"
      THEN /\ ChainHolds(r.target, did, r.scope, doc, clock)
           /\ RevocationVerifies(r.signer, r.chain, r.target, did, r.scope, Verb(r), doc, clock)
      ELSE Verifies(r.signer, r.chain, did, r.scope, TargetOf(r), Verb(r), doc, clock)

\* What follows the inspectors: a revocation first looks its target up.
Admit(s, v) ==
  Step(s, IF request[s].kind = "revoke" THEN "target" ELSE "act", [v EXCEPT !.doc = Unread])

Authenticate(s) ==
  /\ Ready(s, "auth") /\ ~WantsDocument(s)
  /\ IF request[s].signer = None \/ ~Authenticated(s) THEN Deny(s)
     ELSE IF request[s].chain = <<>> THEN Admit(s, view[s])
          ELSE Step(s, "inspect", view[s])
  /\ UNCHANGED <<stored, cache, fill, books>>
  /\ Witness

\* Mutant of RecordExpiry: the record expires with its capability.
RecordExpiryNoMargin(cap) == Capability[cap].expires

\* A record outlives its capability by a day.
RecordExpiry(cap) == Capability[cap].expires + 1

\* The verdict of isRevoked goes to the step that asked.
Verdict(s, revoked, v) ==
  CASE pc[s] \in {"target", "prune target"} ->
         IF revoked THEN Answer(s) ELSE Step(s, "act", v)
    [] OTHER ->
         IF revoked THEN Deny(s)
         ELSE IF WebvhProofs(request[s].chain) = {} THEN Admit(s, v)
              ELSE Step(s, "clause", [v EXCEPT !.doc = Unread])

\* isRevoked: is any record of the chain live.  The filesystem then removes the expired
\* records it met; Postgres ignores them.
Inspect(s) ==
  LET r == request[s]
      names == Summaries(IF pc[s] = "inspect" THEN r.chain ELSE r.target,
                         view[s].root.controller)
      known == names \cap DOMAIN revs[r.scope]
      expired == {n \in known : revs[r.scope][n] <= clock}
  IN  /\ Ready(s, "inspect") \/ Ready(s, "target")
      /\ IF backend = "filesystem" /\ expired # {}
         THEN Step(s, IF pc[s] = "inspect" THEN "prune" ELSE "prune target",
                   [view[s] EXCEPT !.expired = expired, !.revoked = known # expired])
         ELSE Verdict(s, known # expired, view[s])
      /\ UNCHANGED <<stored, cache, fill, books>>
      /\ Witness

\* The removal does not look at the file again.
Prune(s) ==
  LET scope == request[s].scope
      gone == view[s].expired
  IN  /\ Ready(s, "prune") \/ Ready(s, "prune target")
      /\ revs' = [revs EXCEPT ![scope] = [n \in DOMAIN @ \ gone |-> @[n]]]
      /\ acked' = [acked EXCEPT ![scope] = {a \in @ : a.name \notin gone}]
      /\ Verdict(s, view[s].revoked, [view[s] EXCEPT !.expired = {}, !.revoked = FALSE])
      /\ UNCHANGED <<space, keystore, keys, log, policies, cache, fill,
                     backend, clock, todo, current, faults>>
      /\ Witness

\* The annex clause on delegations signed with a delegation-only key.  A Space's type
\* never changes, so the Description at hand stands for the one the clause reads.
Clause(s) ==
  LET v == view[s]
      type == IF request[s].scope = "space" THEN v.root.type ELSE "plain"
  IN  /\ Ready(s, "clause") /\ ~WantsDocument(s)
      /\ IF AnnexClauseAdmits(request[s].chain, v.doc, type) THEN Admit(s, v) ELSE Deny(s)
      /\ UNCHANGED <<stored, cache, fill, books>>
      /\ Witness

\* The levels are read at the same time, each when its file or row is read.
ReadPolicy(s) ==
  /\ Ready(s, "policy")
  /\ \E l \in Levels :
       /\ view[s].policies[l] = Unread
       /\ Step(s, "policy", [view[s] EXCEPT !.policies[l] = policies[l]])
  /\ UNCHANGED <<stored, cache, fill, books>>
  /\ Witness

\* The most specific policy decides.
DecidePolicy(s) ==
  /\ Ready(s, "policy")
  /\ \A l \in Levels : view[s].policies[l] # Unread
  /\ IF Grants(Effective(view[s].policies), "read") THEN Step(s, "granted", view[s])
     ELSE Answer(s)
  /\ UNCHANGED <<stored, cache, fill, books>>
  /\ Witness

----------------------------------------------------------------------------
(* Effects.                                                                *)

\* The caches a landed write has still to invalidate.
Touches(r) ==
  CASE r.kind \in {"put", "post"} -> {"space"}
    [] r.kind = "delete" -> {"space", "doc"}
    [] r.kind = "publish" -> {"doc"}
    [] OTHER -> {}

\* A write lands in storage: until it is acknowledged both values may be answered.
Land(s) ==
  /\ Step(s, "landed", view[s])
  /\ current' = [current EXCEPT !["space"] = @ \cup {space'}, !["doc"] = @ \cup {log'}]

\* Space PUT refuses a did:webvh that does not resolve and a change of type; the file
\* backend then reads the prior Description, for the creator and the quota of a create.
ReadPrior(s) ==
  LET r == request[s]
      v == view[s]
  IN  /\ Ready(s, "act") /\ r.kind \in {"put", "post"} /\ ~WantsDocument(s)
      /\ IF \/ r.kind = "put" /\ r.controller = Webvh /\ v.doc = NoDocument
            \/ v.root # None /\ r.type # None /\ r.type # v.root.type
         THEN Answer(s)
         ELSE Step(s, "write", IF backend = "filesystem" THEN [v EXCEPT !.prior = space] ELSE v)
      /\ UNCHANGED <<stored, cache, fill, books>>
      /\ Witness

\* A create may exceed maxSpacesPerController.
QuotaRefuses(s) ==
  /\ Ready(s, "write")
  /\ IF backend = "filesystem" THEN view[s].prior = None ELSE space = None
  /\ Answer(s)
  /\ UNCHANGED <<stored, cache, fill, books>>
  /\ Witness

\* Mutant of Creator: the invoker of the last write.
CreatorIsInvoker(prior, r) == InvokerDid(r)

\* createdBy is the invoker of the write that creates, and kept after.
Creator(prior, r) == IF prior = None THEN InvokerDid(r) ELSE prior.creator

\* Postgres resolves the creator in the statement that writes.
WriteSpace(s) ==
  LET r == request[s]
      root == view[s].root
      prior == IF backend = "filesystem" THEN view[s].prior ELSE space
  IN  /\ Ready(s, "write")
      /\ space' = [controller |-> r.controller,
                   creator |-> Creator(prior, r),
                   type |-> IF root # None THEN root.type
                            ELSE IF r.type # None THEN r.type ELSE "plain"]
      /\ UNCHANGED <<keystore, keys, log, revs, policies, cache, fill,
                     backend, clock, todo, acked, faults>>
      /\ Land(s)
      /\ Witness

\* The file backend removes the revocations, which sit outside the Space's directory,
\* first.
RemoveRevocations(s) ==
  /\ Ready(s, "act") /\ request[s].kind = "delete" /\ backend = "filesystem"
  /\ revs' = [revs EXCEPT !["space"] = <<>>]
  /\ acked' = [acked EXCEPT !["space"] = {}]
  /\ Step(s, "removed", view[s])
  /\ UNCHANGED <<space, keystore, keys, log, policies, cache, fill,
                 backend, clock, todo, current, faults>>
  /\ Witness

\* The Space goes with everything in it; on Postgres one statement cascades.  The removal of
\* its directory, file by file, is one step here; SpaceTree has its parts.
RemoveSpace(s) ==
  /\ request[s] # None /\ request[s].kind = "delete"
  /\ Ready(s, IF backend = "filesystem" THEN "removed" ELSE "act")
  /\ space' = None
  /\ log' = NoDocument
  /\ policies' = [l \in Levels |-> None]
  /\ IF backend = "filesystem" THEN UNCHANGED <<revs, acked>>
     ELSE /\ revs' = [revs EXCEPT !["space"] = <<>>]
          /\ acked' = [acked EXCEPT !["space"] = {}]
  /\ Land(s)
  /\ UNCHANGED <<keystore, keys, cache, fill, backend, clock, todo, faults>>
  /\ Witness

\* A new entry of the history log, as a Resource of the Space.
PublishLog(s) ==
  /\ Ready(s, "act") /\ request[s].kind = "publish"
  /\ log' = request[s].version
  /\ UNCHANGED <<space, keystore, keys, revs, policies, cache, fill,
                 backend, clock, todo, acked, faults>>
  /\ Land(s)
  /\ Witness

\* Mutant of Invalidated: only the Description cache.
InvalidatedSpaceOnly(r) == Touches(r) \cap {"space"}

Invalidated(r) == Touches(r)

\* The handler drops what its write made stale, then answers: the write is acknowledged.
\* Another write still landed keeps its own alternatives open.
Acknowledge(s) ==
  LET gone == Invalidated(request[s])
      open(k) == \E t \in Slots \ {s} : pc[t] = "landed" /\ k \in Touches(request[t])
  IN  /\ Ready(s, "landed")
      /\ cache' = [k \in DOMAIN cache |-> IF k \in gone THEN None ELSE cache[k]]
      /\ fill' = [t \in Slots |->
           IF fill[t] # None /\ fill[t].of \in gone /\ fill[t].value # Stored(fill[t].of)
           THEN [fill[t] EXCEPT !.stale = TRUE] ELSE fill[t]]
      /\ current' = [k \in DOMAIN current |->
           IF k \in Touches(request[s]) /\ ~open(k) THEN {Stored(k)} ELSE current[k]]
      /\ Answer(s)
      /\ UNCHANGED <<stored, backend, clock, todo, acked, faults>>
      /\ Witness

\* A policy is written or removed.
ChangePolicy(s) ==
  /\ Ready(s, "act") /\ request[s].kind = "policy"
  /\ policies' = [policies EXCEPT ![request[s].level] = request[s].policy]
  /\ Answer(s)
  /\ UNCHANGED <<space, keystore, keys, log, revs, cache, fill, books>>
  /\ Witness

\* The file backend checks that the scope still exists before it creates the record.
ScopeExists(s) ==
  /\ Ready(s, "act") /\ request[s].kind = "revoke" /\ backend = "filesystem"
  /\ IF request[s].scope = "space" /\ space = None THEN Answer(s)
     ELSE Step(s, "create", view[s])
  /\ UNCHANGED <<stored, cache, fill, books>>
  /\ Witness

\* The name of the record of the capability a request revokes.
TargetName(s) ==
  LET target == request[s].target
  IN  [id |-> Capability[target[Len(target)]].id,
       delegator |-> Delegator(target, view[s].root.controller, Len(target))]

\* Create-only insert, a second one is a conflict.  Postgres prunes expired rows first
\* and refuses by its foreign key where the Space is gone.
InsertRevocation(s) ==
  LET r == request[s]
      name == TargetName(s)
      kept == IF backend = "filesystem" THEN DOMAIN revs[r.scope]
              ELSE {n \in DOMAIN revs[r.scope] : clock < revs[r.scope][n]}
  IN  /\ request[s] # None /\ r.kind = "revoke"
      /\ Ready(s, IF backend = "filesystem" THEN "create" ELSE "act")
      /\ IF \/ name \in kept
            \/ backend = "postgres" /\ r.scope = "space" /\ space = None
         THEN /\ revs' = [revs EXCEPT ![r.scope] = [n \in kept |-> @[n]]]
              /\ UNCHANGED acked
         ELSE /\ revs' = [revs EXCEPT ![r.scope] = [n \in kept \cup {name} |->
                   IF n = name THEN RecordExpiry(r.target[Len(r.target)]) ELSE @[n]]]
              /\ acked' = [acked EXCEPT ![r.scope] = @ \cup
                   {[name |-> name, expires |-> Capability[r.target[Len(r.target)]].expires]}]
      /\ Answer(s)
      /\ UNCHANGED <<space, keystore, keys, log, policies, cache, fill,
                     backend, clock, todo, current, faults>>
      /\ Witness

SequenceFollows(r) == r.sequence = keystore.sequence + 1

\* Compare and swap on the sequence, under the keystore's mutex or in one statement.
UpdateKeystore(s) ==
  LET r == request[s]
  IN  /\ Ready(s, "act") /\ r.kind = "update"
      /\ keystore' = IF SequenceFollows(r)
                     THEN [controller |-> r.controller, sequence |-> r.sequence]
                     ELSE keystore
      /\ Answer(s)
      /\ UNCHANGED <<space, keys, log, revs, policies, cache, fill, books>>
      /\ Witness

\* A fresh id, an insert that never replaces.
GenerateKey(s) ==
  /\ Ready(s, "act") /\ request[s].kind = "generate"
  /\ keys' = Append(keys, request[s].bound)
  /\ Answer(s)
  /\ UNCHANGED <<space, keystore, log, revs, policies, cache, fill, books>>
  /\ Witness

\* A key's own bound on the chain, the root counted, is checked once the key is read.
Operate(s) ==
  /\ Ready(s, "act") /\ request[s].kind = "operate"
  /\ IF \E i \in DOMAIN keys : Len(request[s].chain) < keys[i]
     THEN Step(s, "granted", view[s]) ELSE Answer(s)
  /\ UNCHANGED <<stored, cache, fill, books>>
  /\ Witness

\* Get Space, Get Keystore, a key operation, or a read a policy granted, answers.
Serve(s) ==
  /\ \/ Ready(s, "act") /\ request[s].kind \in {"get", "read"}
     \/ Ready(s, "granted")
  /\ Answer(s)
  /\ UNCHANGED <<stored, cache, fill, books>>
  /\ Witness

----------------------------------------------------------------------------
(* The environment.                                                        *)

\* Time passes.  Assumed: no storage read outlasts a cache entry, and no request spans
\* two ticks.
Tick ==
  /\ clock < MaxTime
  /\ \A s \in Slots : fill[s] = None /\ (request[s] # None => view[s].began = clock)
  /\ clock' = clock + 1
  /\ current' = [k \in DOMAIN current |->
       IF \E s \in Slots : pc[s] = "landed" /\ k \in Touches(request[s])
       THEN current[k] ELSE {Stored(k)}]
  /\ acked' = [c \in Scopes |-> {a \in acked[c] : clock' <= a.expires}]
  /\ UNCHANGED <<backend, stored, cache, todo, flight, faults>>
  /\ Witness

\* A write fails after it landed, or between the two removals of a Space: the error
\* answers the request and the caches are not invalidated.
FailLate(s) ==
  /\ faults < MaxFaults
  /\ Ready(s, "landed") \/ Ready(s, "removed")
  /\ faults' = faults + 1
  /\ Answer(s)
  /\ UNCHANGED <<backend, stored, cache, fill, clock, todo, current, acked>>
  /\ Witness

\* The server stops and starts again: requests in flight and caches are gone.
Restart ==
  /\ faults < MaxFaults
  /\ \E s \in Slots : request[s] # None
  /\ faults' = faults + 1
  /\ request' = [s \in Slots |-> None]
  /\ pc' = [s \in Slots |-> "idle"]
  /\ view' = [s \in Slots |-> NoView]
  /\ fill' = [s \in Slots |-> None]
  /\ cache' = [k \in DOMAIN cache |-> None]
  /\ current' = [k \in DOMAIN current |-> {Stored(k)}]
  /\ UNCHANGED <<backend, stored, clock, todo, acked>>
  /\ Witness

----------------------------------------------------------------------------
Handle(s) ==
  \/ Begin(s) \/ Fetch(s) \/ CacheHit(s) \/ CacheMiss(s) \/ CacheJoin(s) \/ CacheFill(s)
  \/ Authenticate(s) \/ Inspect(s) \/ Prune(s) \/ Clause(s)
  \/ ReadPolicy(s) \/ DecidePolicy(s)
  \/ ReadPrior(s) \/ QuotaRefuses(s) \/ WriteSpace(s)
  \/ RemoveRevocations(s) \/ RemoveSpace(s) \/ PublishLog(s) \/ Acknowledge(s)
  \/ ChangePolicy(s) \/ ScopeExists(s) \/ InsertRevocation(s)
  \/ UpdateKeystore(s) \/ GenerateKey(s) \/ Operate(s) \/ Serve(s)

Next == \/ \E s \in Slots : Handle(s) \/ FailLate(s)
        \/ Tick
        \/ Restart

\* A scenario: the stored contents to begin with, and the requests clients may send.
Init ==
  /\ backend \in Backends
  /\ \E c \in Scenarios :
       /\ space = c.space /\ keystore = c.keystore /\ keys = c.keys
       /\ log = c.log /\ revs = c.revs /\ policies = c.policies
       /\ todo = c.requests
  /\ cache = [k \in Stores |-> None]
  /\ clock = 0
  /\ request = [s \in Slots |-> None]
  /\ pc = [s \in Slots |-> "idle"]
  /\ view = [s \in Slots |-> NoView]
  /\ fill = [s \in Slots |-> None]
  /\ current = [k \in Stores |-> {Stored(k)}]
  /\ acked = [c \in Scopes |->
       {[name |-> n, expires |-> revs[c][n] - 1] : n \in {m \in DOMAIN revs[c] : clock < revs[c][m]}}]
  /\ seen = [s \in Slots |-> Unseen]
  /\ faults = 0

Spec == Init /\ [][Next]_vars

----------------------------------------------------------------------------
(* Properties.                                                             *)

\* Every variable has its type.
TypeOK ==
  /\ backend \in {"filesystem", "postgres"}
  /\ space \in Description \cup {None}
  /\ keystore \in Config
  /\ keys \in Seq(Nat)
  /\ log \in Versions
  /\ DOMAIN revs = Scopes
  /\ \A c \in Scopes : /\ DOMAIN revs[c] \subseteq RevocationNames
                       /\ \A n \in DOMAIN revs[c] : revs[c][n] \in Nat
  /\ policies \in [Levels -> PolicyTypes \cup {None}]
  /\ DOMAIN cache = Stores /\ \A k \in Stores : cache[k] \in Entry(k) \cup {None}
  /\ clock \in 0 .. MaxTime /\ faults \in 0 .. MaxFaults
  /\ todo \subseteq Request
  /\ request \in [Slots -> Request \cup {None}]
  /\ \A s \in Slots : /\ view[s] \in View(request[s])
                      /\ fill[s] # None => fill[s].of \in Stores /\ fill[s] \in Fill(fill[s].of)
  /\ \A s \in Slots : pc[s] = "idle" <=> request[s] = None
  /\ current["space"] \subseteq Description \cup {None} /\ current["doc"] \subseteq Versions

\* The steps at which a handler holds its authority and acts on it.
Authorised(s) ==
  \/ pc[s] \in {"act", "write", "removed", "create", "landed"}
  \/ pc[s] = "granted" /\ request[s].kind = "operate"

\* What the caches answer was stored after every write that was acknowledged, or is the
\* answer of a read that such a write overtook (spaceDescriptionCache.ts,
\* webvhController.ts): no write, publication or deletion forgets to invalidate, and a
\* write that failed after landing is not hidden beyond one lifetime of an entry.
CachesAreCurrent ==
  \A k \in DOMAIN cache : Usable(k) => cache[k].value \in current[k] \/ cache[k].stale

\* A request that acts was authorised by a controller and a document that were in force
\* at some instant since it began, the cached ones excepted that a write overtook; Space
\* PUT and the keystore routes have no such exception for the controller, and a create
\* found no Space at some instant since it began (SpaceRequest.ts put, spaceContext.ts,
\* keystoreContext.ts).
AuthorityWasInForce ==
  \A s \in Slots : Authorised(s) =>
    LET r == request[s]
        v == view[s]
    IN  /\ IF r.scope = "keystore" THEN v.root \in seen[s].configs
           ELSE \/ v.root \in seen[s].spaces
                \/ "space" \in v.stale /\ r.kind \notin {"put", "post"}
        /\ (v.root # None /\ OwnerOf[r.signer] = Webvh) =>
             \/ "doc" \in v.stale
             \/ \E n \in seen[s].docs \ {NoDocument} : r.signer \in Document[n].invocation

\* A request that began after a revocation was acknowledged does not act under a chain
\* that holds the revoked capability, not even when the capability expires while the
\* request runs; a Space's deletion ends its revocations.  On the filesystem a record
\* inserted between the read and the removal of an expired one of its name is removed
\* with it, and is then no longer in `acked` (filesystem.ts isRevoked, revocations.ts).
RevokedStaysRefused ==
  \A s \in Slots : (Authorised(s) /\ view[s].root # None) =>
    Summaries(request[s].chain, view[s].root.controller)
      \cap {a.name : a \in seen[s].revoked} = {}

\* A read that a policy granted was granted by the effective policy of its target at
\* some instant since it began, unless two policies changed meanwhile (policy.ts reads
\* the levels at the same time, not together).
PolicyGrantWasEffective ==
  \A s \in Slots : (pc[s] = "granted" /\ request[s].kind = "get")
                     => seen[s].granting \/ seen[s].changes > 1

\* The creator of a Space changes only with the Space, unless a request on the
\* filesystem was overtaken by such a change: it writes the creator of a Description that
\* was stored at some instant since it began, or it found no Space and writes its own
\* invoker, as when two creates race (writeSpace of both backends).
CreatorIsFixed ==
  [][space # None /\ space' # None /\ space'.creator # space.creator
       => \E s \in Slots : /\ pc[s] = "write" /\ pc'[s] = "landed" /\ backend = "filesystem"
                           /\ \E d \in seen[s].spaces : d = None \/ d.creator = space'.creator]_vars

===============================================================================
