------------------------------- MODULE SpaceTree -------------------------------
(***************************************************************************)
(* A Space as a tree of Collections, Resources, chunks, policies and       *)
(* revocations, under the requests that read or write much of it at once:  *)
(* export, import, the deletion of a Collection or of the Space, listings  *)
(* and queries page by page - and under the small writes they race with.   *)
(*                                                                         *)
(* On the filesystem these requests take no lock and run file by file; on  *)
(* Postgres a write is one transaction and a page one query, but an export *)
(* is five queries and then one per body.  What one Resource's requests do *)
(* to each other is ResourceStore's subject.                               *)
(***************************************************************************)
EXTENDS Listing, Functions

CONSTANTS
  Slots,      \* requests the server handles at a time
  Scenarios,  \* the starting contents and the requests clients may send
  Backends,   \* a subset of {"filesystem", "postgres"}
  Spaces,     \* the server's other Spaces, entries of List Spaces
  Here,       \* this Space's entry of List Spaces
  Indexes,    \* per attribute the Collections declare: "content" or "custom"
  MaxId,      \* bound: ids of Collections, Resources, keys and capabilities
  MaxFaults   \* bound: restarts

Types == {"json", "ld", "png"}
JsonTypes == {"json", "ld"}
Kinds == Types \cup {"space", "description", "meta", "policy", "sidecar", "chunk",
                     "revocation", "key"}
\* The place of a file, or of a part of a row: a Collection and a Resource or, for a
\* revocation and a key, a number.  0 stands for none.
Path ==
  {p \in [kind : Kinds, c : 0 .. MaxId, r : 0 .. MaxId] :
     /\ p.kind \in {"space", "revocation", "key"} => p.c = 0
     /\ p.kind = "space" => p.r = 0}
\* A sidecar's body is the user's metadata.
Value == [version : Nat, body : {None} \cup STRING, deleted : BOOLEAN]

At(kind, c, r) == [kind |-> kind, c |-> c, r |-> r]
SpaceFile == At("space", 0, 0)
DescriptionFile(c) == At("description", c, 0)
MetaFile(c) == At("meta", c, 0)
PolicyFile(c, r) == At("policy", c, r)
Sidecar(c, r) == At("sidecar", c, r)
ChunkFile(c, r) == At("chunk", c, r)
Representations(c, r) == {At(t, c, r) : t \in Types}
Data(body) == [version |-> 0, body |-> body, deleted |-> FALSE]

Operations == {"put", "post", "drop", "write", "remove", "chunk", "policy", "create",
               "delete", "revoke", "generate", "export", "import",
               "collections", "items", "query", "keys", "spaces"}
Listings == {"collections", "items", "query", "keys", "spaces"}
Request == [kind : Operations, c : 0 .. MaxId, r : 0 .. MaxId, type : Types,
            body : {None} \cup STRING, match : Value \cup {None}, limit : Nat \cup {None},
            query : [profile : {"equality", "blinded"}, hmac : STRING,
                     equals : SUBSET SUBSET (STRING \X STRING) \cup {None},
                     has : SUBSET STRING] \cup {None}]

VARIABLES
  backend,  \* the storage backend of this server
  tree,     \* dirs: 0 for the Space's directory or row, and its Collections'; files:
            \* what is stored, by path
  expired,  \* capabilities past the horizon of their revocation records
  archive,  \* the last export: dirs and files, or None
  todo,     \* requests of this scenario not sent yet
  request,  \* per slot: the request in flight, or None
  pc,       \* per slot: the step its handler is at
  view,     \* per slot: what its handler has read, and has still to do
  since,    \* history, per slot: what others changed since its handler looked there
  seen,     \* history, per slot: what was so while its request ran
  remade,   \* history: Collections whose Description was removed or restored
  faults    \* faults so far

flight == <<request, pc, view>>
vars == <<backend, tree, expired, archive, todo, flight, since, seen, remade, faults>>

----------------------------------------------------------------------------
(* The tree.                                                               *)

Has(t, p) == p \in DOMAIN t.files
Among(t, S) == {p \in DOMAIN t.files : p \in S}
Live(t, c, r) == Among(t, Representations(c, r)) # {}
Over(new, old) ==
  [p \in DOMAIN new \cup DOMAIN old |-> IF p \in DOMAIN new THEN new[p] ELSE old[p]]
With(t, dirs, p, v) == [dirs |-> t.dirs \cup dirs, files |-> Over([q \in {p} |-> v], t.files)]
Without(t, S) == [t EXCEPT !.files = [p \in DOMAIN @ \ S |-> @[p]]]
OfSpace(t) == {p \in DOMAIN t.files : p.kind # "key"}
InCollection(t, c) == {p \in OfSpace(t) : p.c = c}

\* The directories a write makes on its way: one level for a Description or a policy,
\* all of them for a chunk or the JSON of a Resource.  Postgres inserts placeholder rows.
Makes(p) ==
  IF p.kind = "chunk" \/ p.kind \in JsonTypes THEN {0, p.c} ELSE {p.c}
\* What must be there already.
Needs(p) ==
  CASE p.kind \in {"description", "policy"} /\ p.c # 0 -> {0}
    [] p.kind \in {"space", "policy", "chunk", "key", "revocation"} \cup JsonTypes -> {}
    [] OTHER -> {p.c}
Lands(t, p) == backend = "postgres" \/ Needs(p) \subseteq t.dirs
Put(t, p, v) ==
  With(t, IF p.kind = "key" THEN {} ELSE IF backend = "postgres" THEN {0, p.c} ELSE Makes(p), p, v)

----------------------------------------------------------------------------
(* Requests.                                                               *)

NoView == [snap |-> None, ops |-> <<>>, writes |-> <<>>, left |-> {}, dirs |-> {},
           listed |-> {}, copy |-> [dirs |-> {}, files |-> <<>>], cursor |-> None, got |-> <<>>]
Unseen == [always |-> {}, ever |-> {}, before |-> None, quiet |-> TRUE]

Step(s, p, v) ==
  /\ pc' = [pc EXCEPT ![s] = p]
  /\ view' = [view EXCEPT ![s] = v]
  /\ UNCHANGED request

\* Mutant of Answer: the handler goes on after its answer.
AnswerGoesOn(s) ==
  /\ request' = [request EXCEPT ![s] = None]
  /\ UNCHANGED <<pc, view>>

\* The request is answered, with whatever status.
Answer(s) ==
  /\ request' = [request EXCEPT ![s] = None]
  /\ pc' = [pc EXCEPT ![s] = "idle"]
  /\ view' = [view EXCEPT ![s] = NoView]

Running(s, kind, p) == request[s] # None /\ request[s].kind = kind /\ pc[s] = p
OnFiles(s, kind, p) == Running(s, kind, p) /\ backend = "filesystem"
InRows(s, kind, p) == Running(s, kind, p) /\ backend = "postgres"

\* Everything stored, as facts a reader may or may not have seen.
Facts(t) == {<<p, t.files[p]>> : p \in DOMAIN t.files}
              \cup {<<At("dir", c, 0), None>> : c \in t.dirs \ {0}}
              \cup {<<At("live", p.c, p.r), None>> : p \in {q \in DOMAIN t.files : q.kind \in Types}}
Reads(r) == r.kind \in Listings \cup {"export"}
Changed == {p \in DOMAIN tree.files \cup DOMAIN tree'.files :
              (p \in DOMAIN tree.files) # (p \in DOMAIN tree'.files)
                \/ tree.files[p] # tree'.files[p]}

\* Part of every action: what slot s has just looked at, and what the others see of it.
Witness(s, looked) ==
  /\ since' = [t \in Slots |-> IF request'[t] = None THEN {}
                               ELSE IF t = s THEN since[t] \ looked ELSE since[t] \cup Changed]
  /\ seen' = [t \in Slots |->
       IF request'[t] = None THEN Unseen
       ELSE LET old == IF request[t] # None THEN seen[t]
                       ELSE [Unseen EXCEPT !.always = IF Reads(request'[t]) THEN Facts(tree) ELSE {},
                               !.before = IF request'[t].kind = "import" THEN tree ELSE None]
                facts == IF Reads(request'[t]) THEN Facts(tree') ELSE {}
            IN  [old EXCEPT !.always = @ \cap facts, !.ever = @ \cup facts,
                            !.quiet = @ /\ (t = s \/ (tree' = tree /\ expired' = expired))]]

\* What most steps leave alone.
rest == <<backend, expired, archive, todo, remade, faults>>

\* Every request but the creation of the Space, and those outside it, needs the Space.
Admitted(r) ==
  CASE r.kind = "create" -> ~Has(tree, SpaceFile)
    [] r.kind \in {"keys", "generate", "spaces"} -> TRUE
    [] OTHER -> Has(tree, SpaceFile) /\ (r.kind = "import" => archive # None)

\* Bodies that are too large, or that an encrypted Collection refuses, are refused
\* before anything is written: such an import is never sent here.
Begin(s) ==
  /\ request[s] = None
  /\ \E r \in todo :
       /\ Admitted(r)
       /\ request' = [request EXCEPT ![s] = r]
       /\ todo' = todo \ {r}
       /\ view' = [view EXCEPT ![s].copy = IF r.kind = "import" THEN archive ELSE @]
  /\ pc' = [pc EXCEPT ![s] = "begin"]
  /\ UNCHANGED <<backend, tree, expired, archive, remade, faults>>
  /\ Witness(s, {})

\* A limit on the number of Collections or Resources is met, by one that would be new; an
\* import on Postgres fails as a whole.
QuotaRefuses(s) ==
  LET r == request[s]
      first == Head(view[s].writes)
  IN  /\ r # None
      /\ \/ pc[s] = "persist" /\ view[s].snap = None
         \/ /\ InRows(s, "put", "begin") \/ InRows(s, "post", "upsert")
            /\ ~Has(tree, DescriptionFile(r.c))
         \/ Running(s, "write", "checked") /\ ~Live(tree, r.c, r.r)
         \/ InRows(s, "import", "begin")
         \/ /\ pc[s] = "writing"
            /\ first.kind \in Types \/ (first.kind = "description" /\ first.c \notin view[s].dirs)
      /\ Answer(s)
      /\ UNCHANGED <<tree, rest>>
      /\ Witness(s, {})

----------------------------------------------------------------------------
(* Descriptions.                                                           *)

Holders(step, c, r) ==
  {t \in Slots : request[t] # None /\ request[t].c = c /\ request[t].r = r /\ pc[t] \in step}

\* POST checks for an existing id, and writes later.
PostCheck(s) ==
  /\ Running(s, "post", "begin")
  /\ IF Has(tree, DescriptionFile(request[s].c)) THEN Answer(s) ELSE Step(s, "upsert", view[s])
  /\ UNCHANGED <<tree, rest>>
  /\ Witness(s, {DescriptionFile(request[s].c)})

PreconditionFails(r, prior) == r.match # None /\ (prior = None \/ prior.version # r.match.version)
PriorDescription(r) ==
  IF Has(tree, DescriptionFile(r.c)) THEN tree.files[DescriptionFile(r.c)] ELSE None
Replacement(r, prior) ==
  [version |-> IF prior = None THEN 1 ELSE prior.version + 1, body |-> r.body, deleted |-> FALSE]

\* Under the Description's lock: the prior one, and If-Match against it.
PutPrior(s) ==
  LET r == request[s]
  IN  /\ OnFiles(s, "put", "begin") \/ OnFiles(s, "post", "upsert")
      /\ Holders({"persist"}, r.c, 0) = {}
      /\ IF PreconditionFails(r, PriorDescription(r)) THEN Answer(s)
         ELSE Step(s, "persist", [view[s] EXCEPT !.snap = PriorDescription(r)])
      /\ UNCHANGED <<tree, rest>>
      /\ Witness(s, {})

PutPersist(s) ==
  LET r == request[s]
  IN  /\ request[s] # None /\ pc[s] = "persist"
      /\ tree' = IF Lands(tree, DescriptionFile(r.c))
                 THEN Put(tree, DescriptionFile(r.c), Replacement(r, view[s].snap)) ELSE tree
      /\ Answer(s)
      /\ UNCHANGED rest
      /\ Witness(s, {})

\* On Postgres the prior row is locked to the end of the transaction.
PutRow(s) ==
  LET r == request[s]
  IN  /\ InRows(s, "put", "begin") \/ InRows(s, "post", "upsert")
      /\ tree' = IF PreconditionFails(r, PriorDescription(r)) THEN tree
                 ELSE Put(tree, DescriptionFile(r.c), Replacement(r, PriorDescription(r)))
      /\ Answer(s)
      /\ UNCHANGED rest
      /\ Witness(s, {})

\* The recursive removal of a Collection's directory is half done.
DropSome(s) ==
  LET c == request[s].c
  IN  /\ OnFiles(s, "drop", "begin")
      /\ \E small \in BOOLEAN :
           tree' = Without(tree, {p \in InCollection(tree, c) :
                                    (p.kind \in {"description", "meta", "policy"}) = small})
      /\ tree' # tree
      /\ remade' = remade \cup {c}
      /\ Step(s, "dropped", view[s])
      /\ UNCHANGED <<backend, expired, archive, todo, faults>>
      /\ Witness(s, {})

DropAll(s) ==
  LET c == request[s].c
  IN  /\ Running(s, "drop", "begin") \/ Running(s, "drop", "dropped")
      /\ tree' = [Without(tree, InCollection(tree, c)) EXCEPT !.dirs = @ \ {c}]
      /\ remade' = remade \cup {c}
      /\ Answer(s)
      /\ UNCHANGED <<backend, expired, archive, todo, faults>>
      /\ Witness(s, {})

----------------------------------------------------------------------------
(* Resources, chunks and policies, one at a time.                          *)

HoldingResource == {"prune", "sidecar", "chunks", "tombstone"}
Unlocked(r) == Holders(HoldingResource, r.c, r.r) = {}

WriteCheck(s) ==
  /\ Running(s, "write", "begin")
  /\ IF Has(tree, DescriptionFile(request[s].c)) THEN Step(s, "checked", view[s]) ELSE Answer(s)
  /\ UNCHANGED <<tree, rest>>
  /\ Witness(s, {})

Bumped(prior) ==
  [version |-> IF prior = None THEN 1 ELSE prior.version + 1,
   body |-> IF prior = None THEN None ELSE prior.body, deleted |-> FALSE]
PriorSidecar(r) ==
  IF Has(tree, Sidecar(r.c, r.r)) THEN tree.files[Sidecar(r.c, r.r)] ELSE None

\* Under the Resource's lock: the directory and the sidecar are read, and the new
\* representation written.
WriteContent(s) ==
  LET r == request[s]
      p == At(r.type, r.c, r.r)
  IN  /\ OnFiles(s, "write", "checked")
      /\ Unlocked(r)
      /\ IF Lands(tree, p)
         THEN /\ tree' = Put(tree, p, Data(r.body))
              /\ Step(s, "prune", [view[s] EXCEPT !.snap = PriorSidecar(r),
                                     !.left = Among(tree, Representations(r.c, r.r)) \ {p}])
         ELSE Answer(s) /\ UNCHANGED tree
      /\ UNCHANGED rest
      /\ Witness(s, {})

\* A representation that went meanwhile fails the removal, and the request.
WritePrune(s) ==
  /\ OnFiles(s, "write", "prune")
  /\ tree' = Without(tree, view[s].left)
  /\ IF view[s].left \subseteq DOMAIN tree.files THEN Step(s, "sidecar", view[s]) ELSE Answer(s)
  /\ UNCHANGED rest
  /\ Witness(s, {})

WriteSidecar(s) ==
  LET p == Sidecar(request[s].c, request[s].r)
  IN  /\ OnFiles(s, "write", "sidecar")
      /\ tree' = IF Lands(tree, p) THEN Put(tree, p, Bumped(view[s].snap)) ELSE tree
      /\ Answer(s)
      /\ UNCHANGED rest
      /\ Witness(s, {})

WriteRow(s) ==
  LET r == request[s]
      others == Representations(r.c, r.r) \ {At(r.type, r.c, r.r)}
  IN  /\ InRows(s, "write", "checked")
      /\ tree' = Put(Put(Without(tree, others), At(r.type, r.c, r.r), Data(r.body)),
                     Sidecar(r.c, r.r), Bumped(PriorSidecar(r)))
      /\ Answer(s)
      /\ UNCHANGED rest
      /\ Witness(s, {})

\* Deleting a Resource that is not live changes nothing.
RemoveContent(s) ==
  LET r == request[s]
  IN  /\ OnFiles(s, "remove", "begin")
      /\ Unlocked(r)
      /\ IF Live(tree, r.c, r.r) THEN Step(s, "chunks", view[s]) ELSE Answer(s)
      /\ tree' = Without(tree, Representations(r.c, r.r))
      /\ UNCHANGED rest
      /\ Witness(s, {})

RemoveChunks(s) ==
  /\ OnFiles(s, "remove", "chunks")
  /\ tree' = Without(tree, {ChunkFile(request[s].c, request[s].r)})
  /\ Step(s, "tombstone", view[s])
  /\ UNCHANGED rest
  /\ Witness(s, {})

Tombstone(r) == [Bumped(PriorSidecar(r)) EXCEPT !.body = None, !.deleted = TRUE]

RemoveSidecar(s) ==
  LET r == request[s]
  IN  /\ OnFiles(s, "remove", "tombstone")
      /\ tree' = IF Lands(tree, Sidecar(r.c, r.r)) THEN Put(tree, Sidecar(r.c, r.r), Tombstone(r))
                 ELSE tree
      /\ Answer(s)
      /\ UNCHANGED rest
      /\ Witness(s, {})

RemoveRow(s) ==
  LET r == request[s]
  IN  /\ InRows(s, "remove", "begin")
      /\ tree' = IF Live(tree, r.c, r.r)
                 THEN Put(Without(tree, Representations(r.c, r.r) \cup {ChunkFile(r.c, r.r)}),
                          Sidecar(r.c, r.r), Tombstone(r))
                 ELSE tree
      /\ Answer(s)
      /\ UNCHANGED rest
      /\ Witness(s, {})

\* A chunk is written under its Resource's lock, and only while that is live.  It is its
\* bytes here: the version beside them is left out.
WriteChunk(s) ==
  LET r == request[s]
      p == ChunkFile(r.c, r.r)
  IN  /\ Running(s, "chunk", "begin")
      /\ Unlocked(r)
      /\ tree' = IF Live(tree, r.c, r.r)
                 THEN Put(tree, p, Data(r.body)) ELSE tree
      /\ Answer(s)
      /\ UNCHANGED rest
      /\ Witness(s, {})

\* A policy at any level, there or not; one without a body is deleted.
SetPolicy(s) ==
  LET r == request[s]
      p == PolicyFile(r.c, r.r)
  IN  /\ Running(s, "policy", "begin")
      /\ tree' = IF r.body = None THEN Without(tree, {p})
                 ELSE IF Lands(tree, p) THEN Put(tree, p, Data(r.body)) ELSE tree
      /\ Answer(s)
      /\ UNCHANGED rest
      /\ Witness(s, {})

----------------------------------------------------------------------------
(* The Space, its revocations, and the server's keys.                      *)

CreateSpace(s) ==
  /\ Running(s, "create", "begin")
  /\ tree' = Put(tree, SpaceFile, Data(request[s].body))
  /\ Answer(s)
  /\ UNCHANGED rest
  /\ Witness(s, {})

\* The revocations live beside the Space's directory and go first.
RemoveRevocations(s) ==
  /\ OnFiles(s, "delete", "begin")
  /\ tree' = Without(tree, {p \in DOMAIN tree.files : p.kind = "revocation"})
  /\ Step(s, "removing", view[s])
  /\ UNCHANGED rest
  /\ Witness(s, {})

InSpaceDir(t) == {p \in DOMAIN t.files : p.kind \notin {"key", "revocation"}}

\* The recursive removal is half done: the Space's own files are gone, or its Collections.
RemoveSome(s) ==
  /\ OnFiles(s, "delete", "removing")
  /\ \E own \in BOOLEAN : tree' = Without(tree, {p \in InSpaceDir(tree) : (p.c = 0) = own})
  /\ remade' = 0 .. MaxId
  /\ Step(s, "half", view[s])
  /\ UNCHANGED <<backend, expired, archive, todo, faults>>
  /\ Witness(s, {})

RemoveAll(s) ==
  /\ OnFiles(s, "delete", "half")
  /\ tree' = [Without(tree, InSpaceDir(tree)) EXCEPT !.dirs = {}]
  /\ remade' = 0 .. MaxId
  /\ Answer(s)
  /\ UNCHANGED <<backend, expired, archive, todo, faults>>
  /\ Witness(s, {})

DeleteRows(s) ==
  /\ InRows(s, "delete", "begin")
  /\ tree' = [Without(tree, OfSpace(tree)) EXCEPT !.dirs = {}]
  /\ remade' = 0 .. MaxId
  /\ Answer(s)
  /\ UNCHANGED <<backend, expired, archive, todo, faults>>
  /\ Witness(s, {})

\* A record is never replaced, and needs the Space: its Description, or on Postgres its row.
SpaceIsThere(t) == IF backend = "postgres" THEN 0 \in t.dirs ELSE Has(t, SpaceFile)
Revoked(t, p, v) == IF Has(t, p) \/ ~SpaceIsThere(t) THEN t ELSE Put(t, p, v)

\* Postgres prunes the records past their horizon first.
Pruned(t) ==
  IF backend = "postgres"
  THEN Without(t, {p \in DOMAIN t.files : p.kind = "revocation" /\ p.r \in expired}) ELSE t

Revoke(s) ==
  /\ Running(s, "revoke", "begin")
  /\ tree' = Revoked(Pruned(tree), At("revocation", 0, request[s].r), Data(request[s].body))
  /\ Answer(s)
  /\ UNCHANGED rest
  /\ Witness(s, {})

Generate(s) ==
  /\ Running(s, "generate", "begin")
  /\ tree' = Put(tree, At("key", 0, request[s].r), Data(request[s].body))
  /\ Answer(s)
  /\ UNCHANGED rest
  /\ Witness(s, {})

\* The horizon of a capability's revocation record passes.
Expire ==
  /\ faults < MaxFaults
  /\ \E k \in {p.r : p \in {q \in DOMAIN tree.files : q.kind = "revocation"}} \ expired :
       expired' = expired \cup {k}
  /\ faults' = faults + 1
  /\ UNCHANGED <<backend, tree, archive, todo, flight, remade>>
  /\ seen' = [t \in Slots |-> [seen[t] EXCEPT !.quiet = @ /\ request[t] = None]]
  /\ UNCHANGED since

\* The server restarts: every write is a rename or a commit, and what is in flight is lost.
Crash ==
  /\ faults < MaxFaults
  /\ \E s \in Slots : request[s] # None
  /\ request' = [s \in Slots |-> None]
  /\ pc' = [s \in Slots |-> "idle"]
  /\ view' = [s \in Slots |-> NoView]
  /\ since' = [s \in Slots |-> {}]
  /\ seen' = [s \in Slots |-> Unseen]
  /\ faults' = faults + 1
  /\ UNCHANGED <<backend, tree, expired, archive, todo, remade>>

----------------------------------------------------------------------------
(* Listings and queries, page by page.  Every page is a request of its own:  *)
(* a client follows `next` until there is none.                              *)

\* The order files have in a directory and in an archive: by Collection, group and id, and
\* then by type; revocations last.  Postgres packs chunks first.
Group(kind) ==
  CASE kind = "chunk" -> IF backend = "postgres" THEN 0 ELSE 8
    [] kind = "space" -> 1
    [] kind = "description" -> 2
    [] kind = "meta" -> 3
    [] kind = "sidecar" -> 4
    [] kind = "policy" -> 5
    [] kind \in Types -> 6
    [] OTHER -> 7
TypeRank(kind) == CASE kind = "ld" -> 2 [] kind = "png" -> 3 [] OTHER -> 1
Lower(u, v) == \E i \in DOMAIN u : u[i] < v[i] /\ \A j \in 1 .. i - 1 : u[j] = v[j]
Place(p) ==
  <<IF p.kind = "revocation" THEN 1 ELSE 0, p.c, Group(p.kind), p.r, TypeRank(p.kind)>>
Before(p, q) == Lower(Place(p), Place(q))

\* The ids of a set of representations, in order: twice when it has two.
Ids(S) == LET ordered == Sorted(S, Before) IN [i \in DOMAIN ordered |-> ordered[i].r]
ItemsOf(t, c) == Ids({p \in DOMAIN t.files : p.kind \in Types /\ p.c = c})

\* The next page of a listing, or None when its Space or Collection is not there.
PageOf(t, r, cursor) ==
  CASE r.kind = "spaces" ->
         SpacesPage(Spaces \cup (IF Has(t, SpaceFile) THEN {Here} ELSE {}), Here.controller, cursor,
                    ResolvePageSize(r.limit))
    [] r.kind = "keys" -> KeyPage({p.r : p \in {q \in DOMAIN t.files : q.kind = "key"}}, cursor)
    [] r.kind = "collections" ->
         IF Has(t, SpaceFile)
         THEN SeekPage(Ascending(t.dirs \ {0}), cursor, ResolvePageSize(r.limit)) ELSE None
    [] r.kind = "items" ->
         IF Has(t, DescriptionFile(r.c))
         THEN SeekPage(ItemsOf(t, r.c), cursor, ResolvePageSize(r.limit)) ELSE None

\* The page is answered; the client asks for the next one, if there is one.
Deliver(s, page) ==
  LET got == view[s].got \o page.page
  IN  Step(s, IF page.more THEN "begin" ELSE "listed",
           [NoView EXCEPT !.got = got, !.cursor = IF page.more THEN page.page[Len(page.page)] ELSE None])

ListPage(s) ==
  /\ \E kind \in Listings \ {"query"} : Running(s, kind, "begin")
  /\ LET page == PageOf(tree, request[s], view[s].cursor)
     IN  IF page = None THEN Answer(s) ELSE Deliver(s, page)
  /\ UNCHANGED <<tree, rest>>
  /\ Witness(s, {})

Matches(query, content, custom) ==
  IF query.profile = "blinded" THEN MatchesBlinded(query, content)
  ELSE MatchesEquality(query, Indexes, content, custom)

\* What a query makes of a Collection's representations and of the files it read.
QueriedPage(r, reps, files, cursor) ==
  LET content(p) == IF p.kind \in JsonTypes /\ p \in DOMAIN files THEN files[p].body ELSE None
      custom(p) == IF Sidecar(p.c, p.r) \in DOMAIN files THEN files[Sidecar(p.c, p.r)].body ELSE None
  IN  SeekPage(Ids({p \in reps : Matches(r.query, content(p), custom(p))}), cursor,
               ResolvePageSize(r.limit))

Candidates(r) ==
  {p \in DOMAIN tree.files : /\ p.c = r.c
                             /\ p.kind \in Types
                             /\ r.query.profile = "blinded" => p.kind \in JsonTypes}

QueryRows(s) ==
  /\ InRows(s, "query", "begin")
  /\ IF Has(tree, DescriptionFile(request[s].c))
     THEN Deliver(s, QueriedPage(request[s], Candidates(request[s]), tree.files, view[s].cursor))
     ELSE Answer(s)
  /\ UNCHANGED <<tree, rest>>
  /\ Witness(s, {})

\* The directory is read, and then every file a candidate needs.
QueryList(s) ==
  LET r == request[s]
      reps == Candidates(r)
  IN  /\ OnFiles(s, "query", "begin")
      /\ IF Has(tree, DescriptionFile(r.c))
         THEN Step(s, "reading",
                   [view[s] EXCEPT
                      !.listed = reps,
                      !.left = {p \in reps : p.kind \in JsonTypes}
                                 \cup (IF r.query.profile = "blinded" THEN {}
                                      ELSE {Sidecar(p.c, p.r) : p \in reps})])
         ELSE Answer(s)
      /\ UNCHANGED <<tree, rest>>
      /\ Witness(s, {})

Packed(copy, p, v) == [copy EXCEPT !.files = Over([q \in {p} |-> v], @)]
Copied(copy, p) == Packed(copy, p, tree.files[p])

\* One read of the many under way; a candidate's sidecar is read after its content.  What
\* is gone is left out.
QueryRead(s) ==
  /\ OnFiles(s, "query", "reading")
  /\ \E p \in view[s].left :
       /\ p.kind = "sidecar" => view[s].left \cap Representations(p.c, p.r) = {}
       /\ Step(s, "reading",
               [view[s] EXCEPT !.left = @ \ {p},
                               !.copy = IF Has(tree, p) THEN Copied(@, p) ELSE @])
  /\ UNCHANGED <<tree, rest>>
  /\ Witness(s, {})

QueryPage(s) ==
  /\ OnFiles(s, "query", "reading")
  /\ view[s].left = {}
  /\ Deliver(s, QueriedPage(request[s], view[s].listed, view[s].copy.files, view[s].cursor))
  /\ UNCHANGED <<tree, rest>>
  /\ Witness(s, {})

----------------------------------------------------------------------------
(* Export.                                                                 *)

\* The Description is looked for before the Space's directory is read.
ExportLook(s) ==
  /\ OnFiles(s, "export", "begin")
  /\ IF Has(tree, SpaceFile) THEN Step(s, "described", view[s]) ELSE Answer(s)
  /\ UNCHANGED <<tree, rest>>
  /\ Witness(s, {})

ExportSpaceDir(s) ==
  /\ OnFiles(s, "export", "described")
  /\ IF 0 \in tree.dirs
     THEN Step(s, "walking",
               [view[s] EXCEPT
                  !.listed = {p \in InSpaceDir(tree) : p.c = 0}, !.dirs = tree.dirs \ {0},
                  !.copy = [dirs |-> tree.dirs \ {0}, files |-> <<>>]])
     ELSE Answer(s)
  /\ UNCHANGED <<tree, rest>>
  /\ Witness(s, {})

\* One Collection's directory after the other is read.
ExportDir(s) ==
  LET c == CHOOSE d \in view[s].dirs : \A e \in view[s].dirs : d <= e
  IN  /\ OnFiles(s, "export", "walking")
      /\ view[s].dirs # {}
      /\ IF c \in tree.dirs
         THEN Step(s, "walking", [view[s] EXCEPT !.dirs = @ \ {c},
                                                 !.listed = @ \cup InCollection(tree, c)])
         ELSE Answer(s)
      /\ UNCHANGED <<tree, rest>>
      /\ Witness(s, {})

ExportRevocations(s) ==
  /\ OnFiles(s, "export", "walking")
  /\ view[s].dirs = {}
  /\ Step(s, "packing",
          [view[s] EXCEPT !.listed = @ \cup {p \in DOMAIN tree.files : p.kind = "revocation"}])
  /\ UNCHANGED <<tree, rest>>
  /\ Witness(s, {})

\* Postgres: five queries at once, named by the kind of path each is for.
Tables == {At(kind, 0, 0) : kind \in {"policy", "description", "sidecar", "revocation", "chunk"}}

ExportRow(s) ==
  /\ InRows(s, "export", "begin")
  /\ IF Has(tree, SpaceFile)
     THEN Step(s, "querying", [view[s] EXCEPT !.left = Tables, !.copy = Copied(@, SpaceFile)])
     ELSE Answer(s)
  /\ UNCHANGED <<tree, rest>>
  /\ Witness(s, {})

\* Documents come with the query; of contents, only that they are there.
Inline(table) ==
  CASE table.kind = "description" -> {"description", "meta"}
    [] table.kind = "chunk" -> {}
    [] OTHER -> {table.kind}
Later(table) ==
  CASE table.kind = "sidecar" -> Types
    [] table.kind = "chunk" -> {"chunk"}
    [] OTHER -> {}

ExportQuery(s) ==
  /\ InRows(s, "export", "querying")
  /\ \E table \in view[s].left :
       LET now == {p \in DOMAIN tree.files : p.kind \in Inline(table)}
           later == {p \in DOMAIN tree.files : p.kind \in Later(table)}
           dirs == (IF table.kind = "description" THEN tree.dirs ELSE {p.c : p \in now \cup later})
                     \ {0}
       IN  Step(s, IF view[s].left = {table} THEN "packing" ELSE "querying",
                [view[s] EXCEPT
                   !.left = @ \ {table}, !.listed = @ \cup later,
                   !.copy = [dirs |-> @.dirs \cup dirs,
                             files |-> Over([p \in now |-> tree.files[p]], @.files)]])
  /\ UNCHANGED <<tree, rest>>
  /\ Witness(s, {})

\* Postgres reads a content by the Resource's id, whatever type it has by now; of a row that
\* went, or is a tombstone, it makes an empty body.
RowContent(t, p) ==
  LET live == Among(t, Representations(p.c, p.r))
  IN  IF Has(t, p) THEN t.files[p]
      ELSE IF p.kind \in Types /\ live # {} THEN t.files[CHOOSE q \in live : TRUE]
      ELSE Data(None)

\* The archive is packed in order, under the names listed.  A file that went fails the export.
ExportRead(s) ==
  /\ Running(s, "export", "packing")
  /\ view[s].listed # {}
  /\ LET p == CHOOSE q \in view[s].listed : \A o \in view[s].listed \ {q} : Before(q, o)
     IN  IF ~Has(tree, p) /\ backend = "filesystem" THEN Answer(s)
         ELSE Step(s, "packing",
                   [view[s] EXCEPT
                      !.listed = @ \ {p},
                      !.copy = Packed(@, p, RowContent(tree, p))])
  /\ UNCHANGED <<tree, rest>>
  /\ Witness(s, {})

ExportDone(s) ==
  /\ Running(s, "export", "packing")
  /\ view[s].listed = {}
  /\ Step(s, "exported", view[s])
  /\ UNCHANGED <<tree, rest>>
  /\ Witness(s, {})

\* The answer reaches the client, which keeps an archive.
Respond(s) ==
  /\ request[s] # None /\ pc[s] \in {"listed", "exported", "imported"}
  /\ archive' = IF pc[s] = "exported" THEN view[s].copy ELSE archive
  /\ Answer(s)
  /\ UNCHANGED <<backend, tree, expired, todo, remade, faults>>
  /\ Witness(s, {})

----------------------------------------------------------------------------
(* Import.  A plan is a sequence of the archive's paths: a Collection stands *)
(* as its Description, a tombstone as its sidecar; the Space's own path      *)
(* stands for the count of what is there already.                            *)

Tombstones(a) ==
  {p \in DOMAIN a.files : /\ p.kind = "sidecar" /\ a.files[p].deleted
                          /\ Representations(p.c, p.r) \cap DOMAIN a.files = {}}
Planned(a) ==
  {SpaceFile} \cup {DescriptionFile(c) : c \in a.dirs}
    \cup {p \in DOMAIN a.files :
            \/ p = PolicyFile(0, 0)
            \/ p.kind = "revocation"
            \/ p.c \in a.dirs /\ (p.kind \in Types \cup {"chunk"} \/ p \in Tombstones(a))}

\* The Space's policy, the count, Collection by Collection, the revocations.  The filesystem
\* restores a Collection's chunks with it, Postgres all chunks at the end.
Chapter(op) ==
  CASE op.kind = "policy" -> 0
    [] op.kind = "space" -> 1
    [] op.kind = "chunk" -> IF backend = "postgres" THEN 3 ELSE 2
    [] op.kind = "revocation" -> 4
    [] OTHER -> 2
\* Mutant of Part: a Resource's chunks come before it.
PartChunksFirst(op) ==
  CASE op.kind = "description" -> 0 [] op.kind = "chunk" -> 1 [] op.kind \in Types -> 2 [] OTHER -> 3

Part(op) ==
  CASE op.kind = "description" -> 0
    [] op.kind \in Types -> 1
    [] op.kind = "sidecar" -> 2
    [] OTHER -> 3
Turn(op) == <<Chapter(op), op.c, Part(op), op.r, TypeRank(op.kind)>>
Plan(a) == Sorted(Planned(a), LAMBDA p, q : Lower(Turn(p), Turn(q)))

\* A Collection without a Description in the archive gets one that says nothing.
Archived(a, p) ==
  IF p \in DOMAIN a.files THEN a.files[p] ELSE [version |-> 1, body |-> None, deleted |-> FALSE]

\* Mutant of ResourceExists: only a representation makes a Resource exist.
ResourceIsLive(t, c, r) == Live(t, c, r)

\* A tombstone blocks a resurrection.
ResourceExists(t, c, r) == Live(t, c, r) \/ Has(t, Sidecar(c, r))

\* What one entry of the plan looks at, and what it writes if nothing is there.
LooksAt(op) ==
  CASE op.kind \in Types \cup {"sidecar"} -> Representations(op.c, op.r) \cup {Sidecar(op.c, op.r)}
    [] op.kind = "space" -> {}
    [] OTHER -> {op}

Unless(there, paths) == IF there THEN <<>> ELSE paths
Given(a, p) == IF p \in DOMAIN a.files THEN <<p>> ELSE <<>>

\* What comes with a Collection, and with a Resource, comes only if that is new.
DescriptionWrites(t, a, op) ==
  Unless(Has(t, op), <<op>> \o Given(a, MetaFile(op.c)) \o Given(a, PolicyFile(op.c, 0)))
ResourceWrites(t, a, op) ==
  Unless(ResourceExists(t, op.c, op.r),
         <<op>> \o Given(a, Sidecar(op.c, op.r)) \o Given(a, PolicyFile(op.c, op.r)))
TombstoneWrites(t, op) == Unless(ResourceExists(t, op.c, op.r), <<op>>)
ChunkWrites(t, op) == Unless(Has(t, op) \/ ~Live(t, op.c, op.r), <<op>>)
RevocationWrites(op) == Unless(op.r \in expired, <<op>>)
PolicyWrites(t, op) == Unless(Has(t, op), <<op>>)

Writes(t, a, op) ==
  CASE op.kind = "space" -> <<>>
    [] op.kind = "policy" -> PolicyWrites(t, op)
    [] op.kind = "description" -> DescriptionWrites(t, a, op)
    [] op.kind \in Types -> ResourceWrites(t, a, op)
    [] op.kind = "sidecar" -> TombstoneWrites(t, op)
    [] op.kind = "chunk" -> ChunkWrites(t, op)
    [] OTHER -> RevocationWrites(op)

\* A representation is restored into a directory that must be there.
Restorable(t, p) ==
  IF p.kind \in Types /\ backend = "filesystem" THEN p.c \in t.dirs
  ELSE Lands(t, p) /\ (p.kind = "revocation" => SpaceIsThere(t))
Restored(t, a, p) ==
  IF p.kind = "revocation" THEN Revoked(t, p, Archived(a, p)) ELSE Put(t, p, Archived(a, p))

Goes(s, v) == Step(s, IF v.ops = <<>> /\ v.writes = <<>> THEN "imported"
                      ELSE IF v.writes = <<>> THEN "restoring" ELSE "writing", v)

ImportStart(s) ==
  /\ OnFiles(s, "import", "begin")
  /\ Step(s, "restoring", [view[s] EXCEPT !.ops = Plan(view[s].copy)])
  /\ UNCHANGED <<tree, rest>>
  /\ Witness(s, {})

ImportLook(s) ==
  /\ OnFiles(s, "import", "restoring")
  /\ LET op == Head(view[s].ops)
     IN  /\ IF op = SpaceFile /\ 0 \notin tree.dirs THEN Answer(s)
            ELSE Goes(s, [view[s] EXCEPT !.ops = Tail(@), !.writes = Writes(tree, view[s].copy, op),
                                         !.dirs = IF op = SpaceFile THEN tree.dirs ELSE @])
         /\ UNCHANGED <<tree, rest>>
         /\ Witness(s, LooksAt(op))

\* One file at a time, under no lock.
ImportWrite(s) ==
  /\ OnFiles(s, "import", "writing")
  /\ LET p == Head(view[s].writes)
     IN  IF Restorable(tree, p)
         THEN /\ tree' = Restored(tree, view[s].copy, p)
              /\ remade' = IF p.kind = "description" THEN remade \cup {p.c} ELSE remade
              /\ Goes(s, [view[s] EXCEPT !.writes = Tail(@)])
         ELSE Answer(s) /\ UNCHANGED <<tree, remade>>
  /\ UNCHANGED <<backend, expired, archive, todo, faults>>
  /\ Witness(s, {})

\* The rows one entry of the plan inserts.
Inserted(t, a, op) ==
  LET new == Range(Writes(t, a, op))
  IN  IF op.kind = "revocation" THEN IF new = {} THEN t ELSE Restored(t, a, op)
      ELSE [dirs |-> t.dirs \cup UNION {{0, p.c} : p \in new},
            files |-> Over([p \in new |-> Archived(a, p)], t.files)]

\* On Postgres the whole import is one transaction, and a Space that went gets a row.
Imported(t, a) ==
  LET plan == Plan(a)
      after[n \in 0 .. Len(plan)] ==
        IF n = 0 THEN [t EXCEPT !.dirs = @ \cup {0}] ELSE Inserted(after[n - 1], a, plan[n])
  IN  after[Len(plan)]

ImportRows(s) ==
  LET a == view[s].copy
  IN  /\ InRows(s, "import", "begin")
      /\ tree' = Imported(tree, a)
      /\ remade' = remade \cup {c \in a.dirs : ~Has(tree, DescriptionFile(c))}
      /\ Step(s, "imported", view[s])
      /\ UNCHANGED <<backend, expired, archive, todo, faults>>
      /\ Witness(s, DOMAIN tree.files)

----------------------------------------------------------------------------
Init ==
  /\ backend \in Backends
  /\ \E scenario \in Scenarios :
       /\ tree = scenario.tree
       /\ todo = scenario.todo
       /\ archive = scenario.archive
  /\ expired = {}
  /\ request = [s \in Slots |-> None]
  /\ pc = [s \in Slots |-> "idle"]
  /\ view = [s \in Slots |-> NoView]
  /\ since = [s \in Slots |-> {}]
  /\ seen = [s \in Slots |-> Unseen]
  /\ remade = {}
  /\ faults = 0

Next ==
  \/ Expire
  \/ Crash
  \/ \E s \in Slots :
       \/ Begin(s) \/ QuotaRefuses(s) \/ Respond(s)
       \/ PostCheck(s) \/ PutPrior(s) \/ PutPersist(s) \/ PutRow(s)
       \/ DropSome(s) \/ DropAll(s)
       \/ WriteCheck(s) \/ WriteContent(s) \/ WritePrune(s) \/ WriteSidecar(s) \/ WriteRow(s)
       \/ RemoveContent(s) \/ RemoveChunks(s) \/ RemoveSidecar(s) \/ RemoveRow(s)
       \/ WriteChunk(s) \/ SetPolicy(s)
       \/ CreateSpace(s) \/ RemoveRevocations(s) \/ RemoveSome(s) \/ RemoveAll(s) \/ DeleteRows(s)
       \/ Revoke(s) \/ Generate(s)
       \/ ListPage(s) \/ QueryRows(s) \/ QueryList(s) \/ QueryRead(s) \/ QueryPage(s)
       \/ ExportLook(s) \/ ExportSpaceDir(s) \/ ExportDir(s) \/ ExportRevocations(s)
       \/ ExportRow(s) \/ ExportQuery(s) \/ ExportRead(s) \/ ExportDone(s)
       \/ ImportStart(s) \/ ImportLook(s) \/ ImportWrite(s) \/ ImportRows(s)

Spec == Init /\ [][Next]_vars

----------------------------------------------------------------------------
(* What must hold.                                                         *)

IsTree(t) ==
  /\ t = [dirs |-> t.dirs, files |-> [p \in DOMAIN t.files |-> t.files[p]]]
  /\ t.dirs \subseteq 0 .. MaxId
  /\ DOMAIN t.files \subseteq Path
  /\ \A p \in DOMAIN t.files : t.files[p] \in Value

\* The Descriptions a Collection may have first: the one it starts with, or one that a
\* request creates.
FirstDescriptions(scenario, c) ==
  IF Has(scenario.tree, DescriptionFile(c)) THEN {scenario.tree.files[DescriptionFile(c)]}
  ELSE {Replacement(r, None) :
          r \in {q \in scenario.todo : q.kind \in {"put", "post"} /\ q.c = c /\ q.match = None}}

\* What is in a Collection is in its directory or, on Postgres, has its row.
Housed(t) == \A p \in DOMAIN t.files : p.c # 0 => p.c \in t.dirs

\* What a scenario may be: what is stored is in its place, an archive's Collections are not
\* the Space, a request for a Description names no Resource, and its If-Match no Description
\* later than the first, or other than it.
IsScenario(scenario) ==
  /\ IsTree(scenario.tree) /\ Housed(scenario.tree)
  /\ scenario.archive # None => IsTree(scenario.archive) /\ 0 \notin scenario.archive.dirs
  /\ scenario.todo \subseteq Request
  /\ \A r \in scenario.todo : r.kind \in {"put", "post"} => r.r = 0
  /\ \A r \in scenario.todo : r.kind = "put" /\ r.match # None =>
       \A v \in FirstDescriptions(scenario, r.c) : r.match = v \/ r.match.version < v.version

\* The Spaces of the server, of which this one is listed; the ids of keys have one place each
\* in the locale's order; no id or limit is absent.
ASSUME ListingAssumption ==
  /\ IsFiniteSet(Spaces)
  /\ Spaces \cup {Here} \subseteq [id : Nat, controller : STRING, auxiliary : BOOLEAN]
  /\ ~Here.auxiliary
  /\ Locale \in [0 .. MaxId -> Nat]
  /\ \A i, j \in 0 .. MaxId : Locale[i] = Locale[j] => i = j
  /\ DefaultPageSize \in Nat \ {0} /\ MaxPageSize \in Nat \ {0}
  /\ None \notin Nat

ASSUME ConstantsAssumption ==
  /\ MaxId \in Nat
  /\ MaxFaults \in Nat
  /\ Backends \subseteq {"filesystem", "postgres"}
  /\ None \notin Request \cup Value
  /\ \A scenario \in Scenarios : IsScenario(scenario)

\* Every variable keeps its type, a slot without a request is idle and keeps nothing of an
\* earlier one, and no two requests hold one lock (#collectionDescLockKey, #resourceLockKey).
TypeOK ==
  /\ backend \in Backends
  /\ IsTree(tree)
  /\ expired \subseteq 0 .. MaxId
  /\ archive # None => IsTree(archive)
  /\ remade \subseteq 0 .. MaxId
  /\ faults \in 0 .. MaxFaults
  /\ \A s \in Slots :
       /\ (request[s] = None) = (pc[s] = "idle")
       /\ request[s] = None => view[s] = NoView /\ since[s] = {} /\ seen[s] = Unseen
       /\ view[s].snap # None => view[s].snap \in Value
       /\ IsTree(view[s].copy)
       /\ UNION {view[s].left, view[s].listed, since[s], Range(view[s].ops), Range(view[s].writes)}
            \subseteq Path
  /\ \A s, t \in Slots :
       s # t /\ {request[s], request[t]} \cap {None} = {} =>
         ~ /\ request[s].c = request[t].c /\ request[s].r = request[t].r
           /\ {pc[s], pc[t]} \subseteq {"persist"} \/ {pc[s], pc[t]} \subseteq HoldingResource

\* What the files, the Collections and the keys of this server were, to a reader
\* with the history h.
Stayed(h, p) == {f[2] : f \in {g \in h.always : g[1] = p}}
Was(h, p) == {f[2] : f \in {g \in h.ever : g[1] = p}}
Throughout(h, kind) == {f[1] : f \in {g \in h.always : g[1].kind = kind}}
AtSomeTime(h, kind) == {f[1] : f \in {g \in h.ever : g[1].kind = kind}}

\* Whatever stayed as it was while the archive was made is in it, and nothing is in it that
\* never was - but on Postgres, for a row that went meanwhile, which leaves an empty body, and
\* for a Resource whose type changed: its new content is packed as one of the old type.
ExportIsExact(s) ==
  LET copy == view[s].copy
      h == seen[s]
      exported == {f \in h.always : f[1].kind \in Kinds \ {"key"}}
  IN  /\ \A f \in exported : f[1] \in DOMAIN copy.files /\ copy.files[f[1]] = f[2]
      /\ {d.c : d \in Throughout(h, "dir")} \subseteq copy.dirs
      /\ copy.dirs \subseteq {d.c : d \in AtSomeTime(h, "dir")}
      /\ \A p \in DOMAIN copy.files :
           \/ copy.files[p] \in Was(h, p)
           \/ /\ backend = "postgres" /\ Was(h, p) # {}
              /\ \/ copy.files[p] = Data(None)
                 \/ p.kind \in Types /\ \E t \in Types : copy.files[p] \in Was(h, At(t, p.c, p.r))

\* What a listing may hold, and what it must.
MayList(r, h) ==
  LET bodies(p) == {None} \cup {v.body : v \in Was(h, p)}
  IN  CASE r.kind = "keys" -> {p.r : p \in AtSomeTime(h, "key")}
        [] r.kind = "spaces" ->
             VisibleTo(Spaces, Here.controller)
               \cup (IF AtSomeTime(h, "space") = {} THEN {} ELSE {Here.id})
        [] r.kind = "collections" -> {d.c : d \in AtSomeTime(h, "dir")}
        [] r.kind = "items" -> {p.r : p \in {q \in AtSomeTime(h, "live") : q.c = r.c}}
        [] r.kind = "query" ->
             {p.r : p \in {q \in AtSomeTime(h, "live") :
                /\ q.c = r.c
                /\ \E content \in UNION {bodies(At(t, q.c, q.r)) : t \in JsonTypes} :
                   \E custom \in bodies(Sidecar(q.c, q.r)) : Matches(r.query, content, custom)}}
MustList(r, h) ==
  CASE r.kind = "keys" -> {p.r : p \in Throughout(h, "key")}
        [] r.kind = "spaces" ->
             VisibleTo(Spaces, Here.controller)
               \cup (IF Throughout(h, "space") = {} THEN {} ELSE {Here.id})
        [] r.kind = "collections" -> {d.c : d \in Throughout(h, "dir")}
        [] r.kind = "items" -> {p.r : p \in {q \in Throughout(h, "live") : q.c = r.c}}
        [] r.kind = "query" ->
             {i \in 1 .. MaxId :
                \E t \in Types :
                \E v \in Stayed(h, At(t, r.c, i)) : \E w \in Stayed(h, Sidecar(r.c, i)) :
                  /\ r.query.profile = "blinded" => t \in JsonTypes
                  /\ Matches(r.query, IF t \in JsonTypes THEN v.body ELSE None, w.body)}

\* The place of an id in the order of the listing, and how often it may be met: a Resource
\* whose type changed under the listing under each type that it had.
Rank(r, id) == IF r.kind = "keys" THEN Locale[id] ELSE id
Times(r, h, id) ==
  IF r.kind \in {"items", "query"} THEN Cardinality({t \in Types : Was(h, At(t, r.c, id)) # {}}) ELSE 1

ListingIsExact(s) ==
  LET got == view[s].got
      r == request[s]
      h == seen[s]
  IN  /\ MustList(r, h) \subseteq Range(got)
      /\ Range(got) \subseteq MayList(r, h)
      /\ \A i, j \in DOMAIN got : i < j =>
           \/ Rank(r, got[i]) < Rank(r, got[j])
           \/ got[i] = got[j] /\ j - i < Times(r, h, got[i])

\* A listing followed to its last page, a query, an export: whatever was there all along is
\* delivered, nothing is delivered that was not there at some time, and no page repeats what
\* an earlier one held - whatever is written, deleted or created between two pages or two
\* file reads (seekPage, listKeys, exportSpace, the query candidates).
ReadsAreExact ==
  \A s \in Slots : /\ pc[s] = "exported" => ExportIsExact(s)
                   /\ pc[s] = "listed" => ListingIsExact(s)

Acts(s) == <<request[s], pc[s], view[s]>> # <<request'[s], pc'[s], view'[s]>>
Replaced == {p \in Changed : Has(tree, p) /\ p \in DOMAIN tree'.files}

\* POST of a Collection and an import replace a file only if another request wrote it since
\* they looked whether it was there; the metadata and the policies that come with what an
\* import creates are the exception.  A conditional PUT replaces exactly the Description its
\* If-Match named, unless the Collection was deleted or restored meanwhile: its version
\* counter starts again, and an import takes no Description lock.
ReplacesOnlyWhatItSaw ==
  [][\A s \in Slots :
       request[s] # None /\ Acts(s) /\ (\A t \in Slots \ {s} : ~Acts(t)) =>
         /\ request[s].kind \in {"post", "import"} =>
              \A p \in Replaced :
                p \in since[s] \/ p.kind = "meta" \/ (p.kind = "policy" /\ p.c # 0)
         /\ request[s].kind = "put" /\ request[s].match # None =>
              \A p \in Replaced : tree.files[p] = request[s].match \/ p.c \in remade]_vars

\* What an import is to leave: nothing the Space had is lost; a Collection that had no
\* Description gets the archive's; an id that was neither live nor a tombstone gets the
\* archive's Resource or tombstone; chunks go to live Resources only; revocations stay
\* revoked.
Merged(t, a) ==
  LET files == {p \in DOMAIN a.files : p.kind # "space"}
      undescribed == {c \in a.dirs : ~Has(t, DescriptionFile(c))}
      unused == {p \in Path : p.kind = "sidecar" /\ p.c \in a.dirs
                                 /\ ~Live(t, p.c, p.r) /\ ~Has(t, p)}
      first(c, r) == CHOOSE p \in Representations(c, r) \cap files :
                       \A q \in Representations(c, r) \cap files : TypeRank(p.kind) <= TypeRank(q.kind)
      back == {u \in unused : Representations(u.c, u.r) \cap files # {}}
      fresh == {first(u.c, u.r) : u \in back}
      alongside == UNION {{u, PolicyFile(u.c, u.r)} : u \in back}
      tombs == {u \in unused \ back : u \in files /\ a.files[u].deleted}
      level == {DescriptionFile(c) : c \in undescribed}
                 \cup UNION {{MetaFile(c), PolicyFile(c, 0)} \cap files : c \in undescribed}
      chunks == {p \in files : /\ p.kind = "chunk" /\ p.c \in a.dirs /\ ~Has(t, p)
                               /\ (Live(t, p.c, p.r) \/ Sidecar(p.c, p.r) \in back)}
      revoked == {p \in files : p.kind = "revocation" /\ p.r \notin expired /\ ~Has(t, p)}
      policy == {p \in files : p = PolicyFile(0, 0) /\ ~Has(t, p)}
      taken == UNION {fresh, alongside \cap files, tombs, level, chunks, revoked, policy}
  IN  Over([p \in taken |-> Archived(a, p)], t.files)

\* An import that nothing disturbed leaves exactly the merge of the Space and the archive:
\* nothing is overwritten, no tombstone comes back to life, no revoked capability is valid
\* again, and no chunk is left without its Resource (importSpace of either backend).
RestoreIsFaithful ==
  \A s \in Slots :
    pc[s] = "imported" /\ seen[s].quiet =>
      /\ tree.files = Merged(seen[s].before, view[s].copy)
      /\ view[s].copy.dirs \subseteq tree.dirs

===============================================================================
