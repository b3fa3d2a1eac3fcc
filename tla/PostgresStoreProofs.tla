-------------------------- MODULE PostgresStoreProofs --------------------------
(* Theorems about PostgresStore, for every value of its constants: any     *)
(* number of concurrent transactions, any bodies, any workload.            *)
EXTENDS PostgresStore, TLAPS

----------------------------------------------------------------------------
(* The inductive invariant.                                                *)

Pending(p) == DOMAIN txn[p].pending
Holds(p, o) == p \in locks[o].exclusive
Shares(p, o) == p \in locks[o].shared \/ p \in locks[o].exclusive

\* Who holds a lock exclusively holds it alone.
Exclusion ==
  \A o \in Lockables : \A p, q \in Slots : Holds(p, o) /\ Shares(q, o) => p = q

\* What a transaction has written is behind its exclusive lock.
WriteLocked(p) ==
  /\ Pending(p) \subseteq Fields
  /\ "collection" \in Pending(p) => Holds(p, "collection")
  /\ "siblings" \in Pending(p) => "collection" \in Pending(p)
  /\ "row" \in Pending(p) => Holds(p, "row")
  /\ "chunk" \in Pending(p) => Holds(p, "chunk")
  /\ "usage" \in Pending(p) => Holds(p, "space")

\* The statements each operation consists of.
LabelsOf(op) ==
  CASE op = "put"              -> {"ensure", "claim", "lock", "create", "relock", "usage", "insert",
                                   "upsert", "fkCollection", "commit"}
    [] op = "putMeta"          -> {"claim", "lock", "commit"}
    [] op = "delete"           -> {"lock", "dropChunks", "usage", "tombstone", "commit"}
    [] op = "putChunk"         -> {"parent", "lock", "create", "relock", "usage", "insert", "upsert",
                                   "commit"}
    [] op = "deleteChunk"      -> {"lock", "usage", "commit"}
    [] op = "deleteCollection" -> {"sum", "dropCollection", "cascade", "dropChunks", "usage", "commit"}
    [] op = "import"           -> {"importLock", "ensure", "ids", "restore", "fkCollection", "probe",
                                   "restoreChunk", "fkRow", "usage", "commit"}

Shape(p) ==
  /\ pc[p] = "idle" <=> req[p] = None
  /\ req[p] # None => pc[p] \in LabelsOf(req[p].op)
  /\ req[p] = None => Pending(p) = {} /\ txn[p].delta = 0

\* After the usage counter: what is written there, if anything is to be counted.
Counted(p) ==
  \/ pc[p] \in {"insert", "upsert", "tombstone", "commit"}
  \/ pc[p] = "fkCollection" /\ req[p].op = "put"
Booked(p) ==
  /\ "usage" \in Pending(p) =>
       /\ Counted(p)
       /\ txn[p].pending["usage"] = AtLeastZero(db.usage + txn[p].delta)
       /\ Capacity # None /\ txn[p].delta > 0 => db.usage + txn[p].delta <= Capacity
  /\ Counted(p) /\ "usage" \notin Pending(p) => txn[p].delta = 0

\* A put of field f, whose creates exclude each other by `key`: once it has decided, it
\* has the row it read locked, or it has the key and there is still no row, unless an
\* import made one.
WriteOk(p, f, key) ==
  LET r == req[p]
      t == txn[p]
      decided == pc[p] \in {"usage", "insert", "upsert", "fkCollection", "commit"}
  IN  /\ Pending(p) \subseteq {"collection", f, "usage"}
      /\ f \in Pending(p) <=> pc[p] \in {"fkCollection", "commit"}
      /\ decided =>
           /\ t.delta = r.size - SizeOf(t.prior)
           /\ ~PreconditionFails(r.ifMatch, r.ifNoneMatch, Live(t.prior), VersionOf(t.prior))
           /\ t.prior # None => Holds(p, f) /\ db[f] = t.prior
      /\ pc[p] = "relock" \/ (decided /\ t.prior = None) => Holds(p, key)
      /\ pc[p] = "insert" => r.ifNoneMatch /\ t.prior = None
      /\ pc[p] = "upsert" => ~(r.ifNoneMatch /\ t.prior = None)
      /\ decided /\ pc[p] # "insert" /\ t.prior = None /\ ~stale => db[f] = None
      /\ f \in Pending(p) =>
           /\ t.pending[f] = IF db[f] = None THEN Fresh(p) ELSE Upserted(p, db[f])
           /\ t.prior = None /\ r.ifNoneMatch => db[f] = None

PutOk(p) ==
  /\ WriteOk(p, "row", "createRow")
  /\ pc[p] = "commit" /\ db.row = None => Shares(p, "collection")
  /\ pc[p] = "ensure" => Pending(p) = {}
  /\ "collection" \in Pending(p) => txn[p].pending["collection"] = TRUE

\* A chunk's parent stays, because its row is shared.
PutChunkOk(p) ==
  /\ WriteOk(p, "chunk", "createChunk")
  /\ "collection" \notin Pending(p)
  /\ pc[p] # "parent" => Shares(p, "row") /\ Live(db.row)

PutMetaOk(p) ==
  /\ txn[p].delta = 0
  /\ IF pc[p] = "commit"
       THEN /\ Pending(p) = {"row"} /\ Live(db.row)
            /\ txn[p].pending["row"] = MetadataRow(db.row, req[p])
            /\ ~MetaPreconditionFails(req[p], db.row.metaVersion)
       ELSE Pending(p) = {}

\* A delete holds the row; then it has the chunk, or there is none and none can come.
DeleteOk(p) ==
  /\ Pending(p) \subseteq {"row", "chunk", "usage"}
  /\ "row" \in Pending(p) <=> pc[p] = "commit"
  /\ "row" \in Pending(p) => txn[p].pending["row"] = TombstoneRow(db.row)
  /\ "chunk" \in Pending(p) => txn[p].pending["chunk"] = None
  /\ pc[p] = "lock" => Pending(p) = {}
  /\ pc[p] # "lock" =>
       /\ Holds(p, "row") /\ Live(db.row)
       /\ ~PreconditionFails(req[p].ifMatch, FALSE, TRUE, db.row.version)
  /\ pc[p] = "dropChunks" => Pending(p) = {} /\ txn[p].delta = -db.row.size
  /\ pc[p] \in {"usage", "tombstone", "commit"} =>
       /\ txn[p].delta = -db.row.size - SizeOf(db.chunk)
       /\ "chunk" \notin Pending(p) => db.chunk = None

DeleteChunkOk(p) ==
  /\ Pending(p) \subseteq {"chunk", "usage"}
  /\ pc[p] = "lock" => Pending(p) = {}
  /\ pc[p] # "lock" =>
       /\ "chunk" \in Pending(p) /\ txn[p].pending["chunk"] = None /\ db.chunk # None
       /\ txn[p].delta = -db.chunk.size
       /\ ~PreconditionFails(req[p].ifMatch, FALSE, TRUE, db.chunk.version)

\* A deletion of the Collection removes what is there, and nothing can be added.
DropOk(p) ==
  /\ pc[p] \in {"sum", "dropCollection"} => Pending(p) = {}
  /\ pc[p] \in {"cascade", "dropChunks"} => "collection" \in Pending(p)
  /\ "collection" \notin Pending(p) => Pending(p) \subseteq {"usage"}
  /\ "collection" \in Pending(p) =>
       /\ txn[p].pending["collection"] = FALSE
       /\ "siblings" \in Pending(p) /\ txn[p].pending["siblings"] = 0
       /\ pc[p] = "cascade" => Pending(p) \cap {"row", "chunk", "usage"} = {}
       /\ pc[p] = "dropChunks" => Pending(p) \cap {"chunk", "usage"} = {}
       /\ "row" \in Pending(p) => txn[p].pending["row"] = None
       /\ "chunk" \in Pending(p) => txn[p].pending["chunk"] = None
       /\ pc[p] # "cascade" => "row" \in Pending(p) \/ db.row = None
       /\ pc[p] \in {"usage", "commit"} => "chunk" \in Pending(p) \/ db.chunk = None

\* An import holds the Space.  What it restores was not there, is not there, and stands
\* under a Collection and a Resource that it holds.
ImportOk(p) ==
  /\ Pending(p) \subseteq {"collection", "row", "chunk", "usage"}
  /\ pc[p] # "importLock" => Holds(p, "space")
  /\ pc[p] \in {"importLock", "ensure"} => Pending(p) = {}
  /\ pc[p] \in {"ids", "restore"} => Pending(p) \subseteq {"collection"}
  /\ pc[p] = "fkCollection" => "row" \in Pending(p)
  /\ pc[p] \in {"fkCollection", "probe", "restoreChunk"} => Pending(p) \subseteq {"collection", "row"}
  /\ pc[p] = "fkRow" => "chunk" \in Pending(p)
  /\ "collection" \in Pending(p) => txn[p].pending["collection"] = TRUE
  /\ "row" \in Pending(p) =>
       /\ db.row = None /\ txn[p].pending["row"] = ArchivedRow(req[p], number[p])
       /\ pc[p] # "fkCollection" => Shares(p, "collection")
  /\ "chunk" \in Pending(p) =>
       /\ db.chunk = None
       /\ txn[p].pending["chunk"] = [FreshChunk(req[p]) EXCEPT !.version = req[p].version]
       /\ pc[p] # "fkRow" => Shares(p, "row") /\ ("row" \in Pending(p) \/ db.row # None)
  /\ pc[p] \in {"usage", "commit"} =>
       txn[p].delta = (IF "row" \in Pending(p) THEN txn[p].pending["row"].size ELSE 0)
                      + (IF "chunk" \in Pending(p) THEN txn[p].pending["chunk"].size ELSE 0)

OpOk(p) ==
  /\ req[p].op = "put" => PutOk(p)
  /\ req[p].op = "putChunk" => PutChunkOk(p)
  /\ req[p].op = "putMeta" => PutMetaOk(p)
  /\ req[p].op = "delete" => DeleteOk(p)
  /\ req[p].op = "deleteChunk" => DeleteChunkOk(p)
  /\ req[p].op = "deleteCollection" => DropOk(p)
  /\ req[p].op = "import" => ImportOk(p)

TxnOk(p) == WriteLocked(p) /\ Shape(p) /\ Booked(p) /\ (req[p] # None => OpOk(p))

\* What a step may assume of every transaction, and what it must leave true of it.
TxnInv == DOMAIN txn = Slots /\ Exclusion /\ \A p \in Slots : TxnOk(p)

IInv == TypeOK /\ TxnInv /\ UsageExactUnlessStale /\ NoOrphanChunk

----------------------------------------------------------------------------
(* Transactions: types, and what a step leaves of the others.              *)

Typed(t) ==
  /\ DOMAIN t = {"pending", "prior", "delta"}
  /\ "collection" \in DOMAIN t.pending => t.pending["collection"] \in BOOLEAN
  /\ "siblings" \in DOMAIN t.pending => t.pending["siblings"] \in Nat
  /\ "row" \in DOMAIN t.pending => t.pending["row"] \in Row \cup {None}
  /\ "chunk" \in DOMAIN t.pending => t.pending["chunk"] \in Chunk \cup {None}
  /\ "usage" \in DOMAIN t.pending => t.pending["usage"] \in Nat
  /\ t.prior \in Row \cup Chunk \cup {None}
  /\ t.delta \in Int

\* What a transaction sees, field by field.
LEMMA Seen ==
  ASSUME NEW p
  PROVE  /\ View(p).collection = IF "collection" \in Pending(p) THEN txn[p].pending["collection"] ELSE db.collection
         /\ View(p).siblings = IF "siblings" \in Pending(p) THEN txn[p].pending["siblings"] ELSE db.siblings
         /\ View(p).row = IF "row" \in Pending(p) THEN txn[p].pending["row"] ELSE db.row
         /\ View(p).chunk = IF "chunk" \in Pending(p) THEN txn[p].pending["chunk"] ELSE db.chunk
         /\ View(p).usage = IF "usage" \in Pending(p) THEN txn[p].pending["usage"] ELSE db.usage
BY DEF View, Pending, Fields

LEMMA InDatabase ==
  ASSUME NEW v, DOMAIN v = Fields, v = [f \in Fields |-> v[f]],
         v.collection \in BOOLEAN, v.siblings \in Nat, v.row \in Row \cup {None},
         v.chunk \in Chunk \cup {None}, v.usage \in Nat
  PROVE  v \in Database
<1>1. v = [collection |-> v.collection, siblings |-> v.siblings, row |-> v.row, chunk |-> v.chunk,
           usage |-> v.usage]
  BY DEF Fields
<1> QED BY <1>1 DEF Database

\* A transaction's view of a database: its own columns, the others committed.
LEMMA Replaced ==
  ASSUME NEW d \in Database, NEW t, Typed(t), NEW v,
         v = [field \in Fields |-> IF field \in DOMAIN t.pending THEN t.pending[field] ELSE d[field]]
  PROVE  v \in Database
<1>1. DOMAIN v = Fields /\ v = [f \in Fields |-> v[f]]
  OBVIOUS
<1>2. /\ v.collection \in BOOLEAN /\ v.siblings \in Nat /\ v.row \in Row \cup {None}
      /\ v.chunk \in Chunk \cup {None} /\ v.usage \in Nat
  BY DEF Typed, Database, Fields
<1> QED BY <1>1, <1>2, InDatabase

LEMMA TxnTyped ==
  ASSUME TypeOK, NEW p \in Slots
  PROVE  Typed(txn[p])
<1>1. View(p) \in Database
  BY DEF TypeOK
<1>2. /\ View(p).collection \in BOOLEAN /\ View(p).siblings \in Nat /\ View(p).row \in Row \cup {None}
      /\ View(p).chunk \in Chunk \cup {None} /\ View(p).usage \in Nat
  BY <1>1 DEF Database
<1> QED BY <1>2, Seen DEF TypeOK, Typed, Pending

Kept(q) ==
  /\ pc'[q] = pc[q] /\ req'[q] = req[q] /\ txn'[q] = txn[q] /\ number'[q] = number[q]
  /\ \A o \in Lockables : /\ q \in locks'[o].shared <=> q \in locks[o].shared
                          /\ q \in locks'[o].exclusive <=> q \in locks[o].exclusive

\* The step of one transaction to its next statement.
LEMMA ProceedOwn ==
  ASSUME TypeOK, DOMAIN txn = Slots, Exclusion, NEW p \in Slots, NEW label, NEW t,
         Blockers(p) = {}, Proceed(p, label, t)
  PROVE  /\ pc'[p] = label /\ txn'[p] = t /\ DOMAIN txn' = Slots
         /\ UNCHANGED <<db, req, number, answer, issued, stale>>
         /\ \A o \in Lockables : /\ Holds(p, o) \/ <<o, "exclusive">> \in Needs(p) => Holds(p, o)'
                                 /\ Shares(p, o) \/ <<o, "shared">> \in Needs(p) => Shares(p, o)'
         /\ \A q \in Slots \ {p} : Kept(q)
         /\ Exclusion'
<1>1. /\ pc'[p] = label /\ txn'[p] = t /\ DOMAIN txn' = Slots
      /\ UNCHANGED <<db, req, number, answer, issued, stale>>
  BY DEF Proceed, TypeOK
<1>2. \A o \in Lockables :
        /\ locks'[o].shared = locks[o].shared \cup (IF <<o, "shared">> \in Needs(p) THEN {p} ELSE {})
        /\ locks'[o].exclusive = locks[o].exclusive \cup (IF <<o, "exclusive">> \in Needs(p) THEN {p} ELSE {})
  BY DEF Proceed, Take
<1>3. \A q \in Slots \ {p} : Kept(q)
  BY <1>2 DEF Proceed, Kept, TypeOK
<1>4. \A o \in Lockables :
        /\ <<o, "shared">> \in Needs(p) => locks[o].exclusive \subseteq {p}
        /\ <<o, "exclusive">> \in Needs(p) => locks[o].exclusive \cup locks[o].shared \subseteq {p}
  BY DEF Blockers
<1>5. ASSUME NEW o \in Lockables, NEW a \in Slots, NEW b \in Slots, Holds(a, o)', Shares(b, o)'
      PROVE  a = b
  <2>1. Holds(a, o) \/ (a = p /\ <<o, "exclusive">> \in Needs(p))
    BY <1>2, <1>5 DEF Holds
  <2>2. Shares(b, o) \/ (b = p /\ (<<o, "shared">> \in Needs(p) \/ <<o, "exclusive">> \in Needs(p)))
    BY <1>2, <1>5 DEF Shares
  <2> QED BY <1>4, <2>1, <2>2 DEF Exclusion, Holds, Shares
<1> QED BY <1>1, <1>2, <1>3, <1>5 DEF Holds, Shares, Exclusion

LEMMA EndOwn ==
  ASSUME TypeOK, DOMAIN txn = Slots, Exclusion, NEW p \in Slots, NEW status, NEW version,
         End(p, status, version)
  PROVE  /\ pc'[p] = "idle" /\ req'[p] = None /\ txn'[p] = NoTxn /\ DOMAIN txn' = Slots
         /\ \A q \in Slots \ {p} : Kept(q)
         /\ Exclusion'
<1>1. /\ pc'[p] = "idle" /\ req'[p] = None /\ txn'[p] = NoTxn /\ DOMAIN txn' = Slots
  BY DEF End, TypeOK
<1>2. \A o \in Lockables : /\ locks'[o].shared = locks[o].shared \ {p}
                           /\ locks'[o].exclusive = locks[o].exclusive \ {p}
  BY DEF End, Released
<1>3. \A q \in Slots \ {p} : Kept(q)
  BY <1>2 DEF End, Kept, TypeOK
<1>4. Exclusion'
  BY <1>2 DEF Exclusion, Holds, Shares
<1> QED BY <1>1, <1>3, <1>4

\* What is known of a transaction depends on nothing but its own part and the database.
LEMMA KeptOk ==
  ASSUME NEW q \in Slots, Kept(q), db' = db, stale' = stale, TxnOk(q)
  PROVE  TxnOk(q)'
<1>1. Pending(q)' = Pending(q)
  BY DEF Kept, Pending
<1>2. \A o \in Lockables : (Holds(q, o)' <=> Holds(q, o)) /\ (Shares(q, o)' <=> Shares(q, o))
  BY DEF Kept, Holds, Shares
<1>3. WriteLocked(q)' /\ Shape(q)' /\ Booked(q)'
  BY <1>1, <1>2 DEF TxnOk, WriteLocked, Shape, Booked, Counted, Kept, Lockables
<1>4. ASSUME NEW f \in {"row", "chunk"}, NEW key \in Lockables, WriteOk(q, f, key)
      PROVE  WriteOk(q, f, key)'
  <2>1. Fresh(q)' = Fresh(q) /\ \A x : Upserted(q, x)' = Upserted(q, x)
    BY DEF Fresh, Upserted, Target, Kept
  <2> QED BY <1>1, <1>2, <1>4, <2>1 DEF WriteOk, Kept, Lockables
<1>5. req[q] # None => OpOk(q)'
  <2>1. req[q] # None /\ req[q].op = "put" => PutOk(q)'
    BY <1>1, <1>2, <1>4 DEF TxnOk, OpOk, PutOk, Kept, Lockables
  <2>2. req[q] # None /\ req[q].op = "putChunk" => PutChunkOk(q)'
    BY <1>1, <1>2, <1>4 DEF TxnOk, OpOk, PutChunkOk, Kept, Lockables
  <2>3. req[q] # None /\ req[q].op = "putMeta" => PutMetaOk(q)'
    BY <1>1, <1>2 DEF TxnOk, OpOk, PutMetaOk, Kept, Lockables
  <2>4. req[q] # None /\ req[q].op = "delete" => DeleteOk(q)'
    BY <1>1, <1>2 DEF TxnOk, OpOk, DeleteOk, Kept, Lockables
  <2>5. req[q] # None /\ req[q].op = "deleteChunk" => DeleteChunkOk(q)'
    BY <1>1, <1>2 DEF TxnOk, OpOk, DeleteChunkOk, Kept, Lockables
  <2>6. req[q] # None /\ req[q].op = "deleteCollection" => DropOk(q)'
    BY <1>1, <1>2 DEF TxnOk, OpOk, DropOk, Kept, Lockables
  <2>7. req[q] # None /\ req[q].op = "import" => ImportOk(q)'
    BY <1>1, <1>2 DEF TxnOk, OpOk, ImportOk, Kept, Lockables
  <2> QED BY <2>1, <2>2, <2>3, <2>4, <2>5, <2>6, <2>7 DEF OpOk, Kept
<1> QED BY <1>3, <1>5 DEF TxnOk, Kept

----------------------------------------------------------------------------
(* Each statement leaves what is known of its transaction true.            *)

LEMMA WroteIs ==
  ASSUME NEW t, DOMAIN t = {"pending", "prior", "delta"}, NEW field, NEW value
  PROVE  /\ DOMAIN Wrote(t, field, value) = {"pending", "prior", "delta"}
         /\ Wrote(t, field, value).prior = t.prior /\ Wrote(t, field, value).delta = t.delta
         /\ DOMAIN Wrote(t, field, value).pending = DOMAIN t.pending \cup {field}
         /\ Wrote(t, field, value).pending[field] = value
         /\ \A f \in DOMAIN t.pending \ {field} : Wrote(t, field, value).pending[f] = t.pending[f]
BY DEF Wrote

\* The state after a statement of p that goes on to `label` with t.
Next1(p, label, t) ==
  /\ pc'[p] = label /\ txn'[p] = t
  /\ UNCHANGED <<db, req, number, stale>>
  /\ \A o \in Lockables : /\ Holds(p, o) \/ <<o, "exclusive">> \in Needs(p) => Holds(p, o)'
                          /\ Shares(p, o) \/ <<o, "shared">> \in Needs(p) => Shares(p, o)'
Good(p) == Typed(txn[p])' /\ TxnOk(p)'

LEMMA ProceedNext ==
  ASSUME IInv, NEW p \in Slots, NEW label, NEW t, Blockers(p) = {}, Proceed(p, label, t)
  PROVE  Next1(p, label, t)
BY ProceedOwn DEF IInv, TxnInv, Next1

LEMMA QuitGood ==
  ASSUME IInv, NEW p \in Slots, NEW status, Quit(p, status)
  PROVE  Good(p)
<1>1. pc'[p] = "idle" /\ req'[p] = None /\ txn'[p] = NoTxn
  BY EndOwn DEF IInv, TxnInv, Quit
<1>2. Pending(p)' = {} /\ Typed(txn[p])'
  BY <1>1 DEF Pending, NoTxn, Typed
<1> QED BY <1>1, <1>2 DEF Good, TxnOk, WriteLocked, Shape, Booked, Counted, NoTxn

LEMMA Own ==
  ASSUME IInv, NEW p \in Slots, pc[p] # "idle"
  PROVE  /\ req[p] \in Request /\ req[p] # None /\ req[p].op \in Operations
         /\ pc[p] \in LabelsOf(req[p].op)
         /\ TxnOk(p) /\ OpOk(p) /\ Typed(txn[p]) /\ DOMAIN txn[p] = {"pending", "prior", "delta"}
BY TxnTyped DEF IInv, TxnInv, TxnOk, Shape, TypeOK, Request, Typed

\* What is left to show of a statement that does not write the counter.
LEMMA StepGood ==
  ASSUME IInv, NEW p \in Slots, req[p] # None, NEW label, NEW t, Next1(p, label, t),
         label \in LabelsOf(req[p].op), label # "idle", Typed(t), WriteLocked(p)',
         "usage" \notin DOMAIN t.pending, Counted(p)' => t.delta = 0, OpOk(p)'
  PROVE  Good(p)
<1>1. Shape(p)'
  BY DEF Next1, Shape
<1>2. Booked(p)' /\ Typed(txn[p])'
  BY DEF Next1, Booked, Pending, Typed
<1> QED BY <1>1, <1>2 DEF Good, TxnOk

LEMMA PassGood ==
  ASSUME IInv, NEW p \in Slots, pc[p] # "idle", NEW label, Next1(p, label, txn[p]),
         label \in LabelsOf(req[p].op), label # "idle", "usage" \notin Pending(p),
         Counted(p)' => txn[p].delta = 0, OpOk(p)'
  PROVE  Good(p)
<1>1. req[p] # None /\ Typed(txn[p]) /\ TxnOk(p)
  BY Own
<1>2. WriteLocked(p)'
  BY <1>1 DEF TxnOk, WriteLocked, Next1, Pending, Lockables
<1> QED BY <1>1, <1>2, StepGood DEF Pending

LEMMA EnsureGood ==
  ASSUME IInv, NEW p \in Slots, EnsureCollection(p)
  PROVE  Good(p)
<1> DEFINE label == IF req[p].op = "import" THEN "ids" ELSE IF req[p].claim THEN "claim" ELSE "lock"
           w == Wrote(txn[p], "collection", TRUE)
           t == IF Present(p, "collection") THEN txn[p] ELSE w
<1>1. pc[p] = "ensure" /\ req[p].op \in {"put", "import"}
  BY Own DEF EnsureCollection, At, LabelsOf, Operations, Bulk
<1>2. OpOk(p) /\ Typed(txn[p]) /\ req[p] # None /\ TxnOk(p)
  BY <1>1, Own
<1>3. Next1(p, label, t)
  BY ProceedNext DEF EnsureCollection, At
<1>4. DOMAIN txn[p] = {"pending", "prior", "delta"} /\ Pending(p) = {}
  BY <1>1, <1>2 DEF OpOk, PutOk, ImportOk, Typed
<1>5. /\ DOMAIN w = {"pending", "prior", "delta"}
      /\ w.prior = txn[p].prior /\ w.delta = txn[p].delta
      /\ DOMAIN w.pending = {"collection"} /\ w.pending["collection"] = TRUE
  BY <1>4 DEF Pending, Wrote
<1>6. ~Present(p, "collection") => <<"collection", "exclusive">> \in Needs(p)
  BY <1>1 DEF Needs, OnInsert
<1> HIDE DEF w
<1>7. /\ DOMAIN t.pending \subseteq {"collection"} /\ DOMAIN t = {"pending", "prior", "delta"}
      /\ t.prior = txn[p].prior /\ t.delta = txn[p].delta
      /\ "collection" \in DOMAIN t.pending => t.pending["collection"] = TRUE /\ Holds(p, "collection")'
  BY <1>3, <1>4, <1>5, <1>6 DEF Pending, Next1, Lockables
<1> HIDE DEF t
<1>8. Typed(t)
  BY <1>2, <1>7 DEF Typed
<1>9. WriteLocked(p)'
  BY <1>3, <1>7 DEF WriteLocked, Fields, Pending, Next1
<1>10. (label = "ids" /\ req[p].op = "import") \/ (label \in {"claim", "lock"} /\ req[p].op = "put")
  BY <1>1
<1>11. label \in LabelsOf(req[p].op) /\ label # "idle" /\ ~Counted(p)'
  BY <1>3, <1>10 DEF LabelsOf, Counted, Next1
<1>12. req[p].op = "put" => PutOk(p)'
  BY <1>3, <1>7, <1>10 DEF PutOk, WriteOk, Next1, Pending
<1>13. req[p].op = "import" => ImportOk(p)'
  BY <1>1, <1>2, <1>3, <1>7, <1>10 DEF ImportOk, Next1, OpOk, Pending, Lockables
<1>14. OpOk(p)'
  BY <1>1, <1>3, <1>12, <1>13 DEF OpOk, Next1
<1> QED BY <1>2, <1>3, <1>7, <1>8, <1>9, <1>11, <1>14, StepGood

LEMMA ClaimGood ==
  ASSUME IInv, NEW p \in Slots, LockUniqueness(p)
  PROVE  Good(p)
<1>1. pc[p] = "claim" /\ req[p].op \in {"put", "putMeta"}
  BY Own DEF LockUniqueness, At, LabelsOf, Operations, Bulk
<1>2. OpOk(p) /\ req[p] # None /\ TxnOk(p)
  BY <1>1, Own
<1>3. Next1(p, "lock", txn[p])
  BY ProceedNext DEF LockUniqueness, At
<1>4. "usage" \notin Pending(p) /\ ~Counted(p)' /\ "lock" \in LabelsOf(req[p].op)
  BY <1>1, <1>2, <1>3 DEF TxnOk, Booked, Counted, Next1, LabelsOf
<1>5. Pending(p)' = Pending(p)
  BY <1>3 DEF Pending, Next1
<1>6. req[p].op = "put" => PutOk(p)'
  BY <1>1, <1>2, <1>3, <1>5 DEF OpOk, PutOk, WriteOk, Next1
<1>7. req[p].op = "putMeta" => PutMetaOk(p)'
  BY <1>1, <1>2, <1>3, <1>5 DEF OpOk, PutMetaOk, Next1
<1>8. OpOk(p)'
  BY <1>1, <1>3, <1>6, <1>7 DEF OpOk, Next1
<1> QED BY <1>1, <1>3, <1>4, <1>8, PassGood

LEMMA UsageGood ==
  ASSUME IInv, NEW p \in Slots, ApplyUsageDelta(p)
  PROVE  Good(p)
<1> DEFINE label == WriteStatement(p, txn[p])
           total == AtLeastZero(db.usage + txn[p].delta)
           t == Wrote(txn[p], "usage", total)
<1>1. pc[p] = "usage" /\ req[p].op \in Operations \ {"putMeta"}
  BY Own DEF ApplyUsageDelta, At, LabelsOf, Operations, Bulk
<1>2. OpOk(p) /\ Typed(txn[p]) /\ req[p] # None /\ TxnOk(p) /\ DOMAIN txn[p] = {"pending", "prior", "delta"}
  BY <1>1, Own
<1>3. CASE \E status : Quit(p, status)
  BY <1>3, QuitGood
<1>4. CASE /\ Proceed(p, label, t) /\ Blockers(p) = {}
           /\ ~(txn[p].delta > 0 /\ Capacity # None /\ Exceeds(p))
  <2>1. Next1(p, label, t)
    BY <1>4, ProceedNext
  <2>2. /\ DOMAIN t = {"pending", "prior", "delta"}
        /\ t.prior = txn[p].prior /\ t.delta = txn[p].delta
        /\ DOMAIN t.pending = Pending(p) \cup {"usage"} /\ t.pending["usage"] = total
        /\ \A f \in Pending(p) : f # "usage" => t.pending[f] = txn[p].pending[f]
    BY <1>2, WroteIs DEF Pending
  <2>3. db.usage \in Nat /\ txn[p].delta \in Int /\ total \in Nat
    BY <1>2 DEF IInv, TypeOK, Database, Typed, AtLeastZero
  <2>4. txn[p].delta > 0 /\ Capacity # None => db.usage + txn[p].delta <= Capacity
    BY <1>4, <2>3, ConstantsAssumption DEF Exceeds
  <2>5. <<"space", "exclusive">> \in Needs(p)
    BY <1>1 DEF Needs
  <2> HIDE DEF t, total
  <2>6. Typed(t)
    BY <1>2, <2>2, <2>3 DEF Typed, Pending
  <2>7. WriteLocked(p)'
    BY <1>2, <2>1, <2>2, <2>5 DEF TxnOk, WriteLocked, Fields, Pending, Next1, Lockables
  <2>8. \/ label \in {"insert", "upsert"} /\ req[p].op \in Writes
        \/ label = "tombstone" /\ req[p].op = "delete"
        \/ label = "commit" /\ req[p].op \in {"deleteChunk"} \cup Bulk
    BY <1>1 DEF WriteStatement, Writes, Bulk, Operations
  <2>9. label \in LabelsOf(req[p].op) /\ label \in {"insert", "upsert", "tombstone", "commit"}
    BY <2>8 DEF LabelsOf, Writes, Bulk
  <2>10. Shape(p)' /\ Typed(txn[p])'
    BY <1>2, <2>1, <2>6, <2>9 DEF Shape, Next1
  <2>11. Booked(p)'
    BY <2>1, <2>2, <2>4, <2>9 DEF Booked, Counted, Next1, Pending, total
  <2>12. Pending(p)' = Pending(p) \cup {"usage"}
    BY <2>1, <2>2 DEF Next1, Pending
  <2>13. ASSUME NEW f \in {"row", "chunk"}, NEW key \in Lockables, WriteOk(p, f, key), req[p].op \in Writes
         PROVE  WriteOk(p, f, key)'
    <3>1. f \notin Pending(p)
      BY <1>1, <2>13 DEF WriteOk
    <3>2. /\ label = "insert" => req[p].ifNoneMatch /\ txn[p].prior = None
          /\ label = "upsert" => ~(req[p].ifNoneMatch /\ txn[p].prior = None)
          /\ label \in {"insert", "upsert"}
      BY <2>8, <2>13 DEF WriteStatement, Writes, Bulk
    <3> QED BY <1>1, <2>1, <2>2, <2>12, <2>13, <3>1, <3>2 DEF WriteOk, Next1, Lockables
  <2>14. req[p].op = "put" => PutOk(p)'
    BY <1>1, <1>2, <2>1, <2>2, <2>8, <2>12, <2>13 DEF OpOk, PutOk, Next1, Writes, Bulk, Lockables, Pending
  <2>15. req[p].op = "putChunk" => PutChunkOk(p)'
    BY <1>1, <1>2, <2>1, <2>2, <2>8, <2>12, <2>13 DEF OpOk, PutChunkOk, Next1, Writes, Bulk, Lockables
  <2>16. req[p].op = "delete" => DeleteOk(p)'
    BY <1>1, <1>2, <2>1, <2>2, <2>8, <2>12 DEF OpOk, DeleteOk, Next1, Writes, Bulk, Lockables, Pending
  <2>17. req[p].op = "deleteChunk" => DeleteChunkOk(p)'
    BY <1>1, <1>2, <2>1, <2>2, <2>8, <2>12 DEF OpOk, DeleteChunkOk, Next1, Writes, Bulk, Lockables, Pending
  <2>18. req[p].op = "deleteCollection" => DropOk(p)'
    BY <1>1, <1>2, <2>1, <2>2, <2>8, <2>12 DEF OpOk, DropOk, Next1, Writes, Bulk, Lockables, Pending
  <2>19. req[p].op = "import" => ImportOk(p)'
    BY <1>1, <1>2, <2>1, <2>2, <2>8, <2>12 DEF OpOk, ImportOk, Next1, Writes, Bulk, Lockables, Pending
  <2>20. OpOk(p)'
    BY <1>1, <2>1, <2>14, <2>15, <2>16, <2>17, <2>18, <2>19 DEF OpOk, Next1
  <2> QED BY <2>7, <2>10, <2>11, <2>20 DEF Good, TxnOk
<1> QED BY <1>3, <1>4 DEF ApplyUsageDelta, At

LEMMA CheckCollectionGood ==
  ASSUME IInv, NEW p \in Slots, CheckCollection(p)
  PROVE  Good(p)
<1> DEFINE label == IF req[p].op = "import" THEN "probe" ELSE "commit"
<1>1. pc[p] = "fkCollection" /\ req[p].op \in {"put", "import"}
  BY Own DEF CheckCollection, At, LabelsOf, Operations, Bulk
<1>2. OpOk(p) /\ Typed(txn[p]) /\ req[p] # None /\ TxnOk(p)
  BY <1>1, Own
<1>3. CASE Quit(p, "error")
  BY <1>3, QuitGood
<1>4. CASE Present(p, "collection") /\ Proceed(p, label, txn[p]) /\ Blockers(p) = {}
  <2>1. Next1(p, label, txn[p])
    BY <1>4, ProceedNext
  <2>2. <<"collection", "shared">> \in Needs(p)
    BY <1>1, <1>4 DEF Needs, OnExisting
  <2>3. Shares(p, "collection")'
    BY <2>1, <2>2 DEF Next1, Lockables
  <2>4. Pending(p)' = Pending(p)
    BY <2>1 DEF Pending, Next1
  <2>5. WriteLocked(p)' /\ Shape(p)' /\ Typed(txn[p])'
    BY <1>1, <1>2, <2>1, <2>4 DEF TxnOk, WriteLocked, Shape, LabelsOf, Next1, Lockables
  <2>6. CASE req[p].op = "put"
    <3>1. Booked(p)'
      BY <1>1, <1>2, <2>1, <2>4, <2>6 DEF TxnOk, Booked, Counted, Next1
    <3>2. PutOk(p)'
      <4>1. Fresh(p)' = Fresh(p) /\ \A x : Upserted(p, x)' = Upserted(p, x)
        BY <2>1 DEF Fresh, Upserted, Target, Next1
      <4>2. WriteOk(p, "row", "createRow")'
        BY <1>1, <1>2, <2>1, <2>4, <2>6, <4>1 DEF OpOk, PutOk, WriteOk, Next1, Lockables
      <4> QED BY <1>1, <1>2, <2>1, <2>3, <2>4, <2>6, <4>2 DEF OpOk, PutOk, Next1
    <3> QED BY <2>1, <2>5, <2>6, <3>1, <3>2, <1>2 DEF Good, TxnOk, OpOk, Next1
  <2>7. CASE req[p].op = "import"
    <3>1. Booked(p)'
      BY <1>1, <1>2, <2>1, <2>4, <2>7 DEF TxnOk, Booked, Counted, Next1
    <3>2. ImportOk(p)'
      BY <1>1, <1>2, <2>1, <2>3, <2>4, <2>7 DEF OpOk, ImportOk, Next1, Lockables
    <3> QED BY <2>1, <2>5, <2>7, <3>1, <3>2, <1>2 DEF Good, TxnOk, OpOk, Next1
  <2> QED BY <1>1, <2>6, <2>7
<1> QED BY <1>3, <1>4 DEF CheckCollection, At

LEMMA ParentGood ==
  ASSUME IInv, NEW p \in Slots, LockParent(p)
  PROVE  Good(p)
<1>1. pc[p] = "parent" /\ req[p].op = "putChunk"
  BY Own DEF LockParent, At, LabelsOf, Operations, Bulk
<1>2. OpOk(p) /\ TxnOk(p)
  BY <1>1, Own
<1>3. CASE Quit(p, "absent")
  BY <1>3, QuitGood
<1>4. CASE Live(db.row) /\ Proceed(p, "lock", txn[p]) /\ Blockers(p) = {}
  <2>1. Next1(p, "lock", txn[p])
    BY <1>4, ProceedNext
  <2>2. "row" \notin Pending(p) /\ "usage" \notin Pending(p)
    BY <1>1, <1>2 DEF OpOk, PutChunkOk, WriteOk, TxnOk, Booked, Counted
  <2>3. <<"row", "shared">> \in Needs(p)
    BY <1>1, <1>4, <2>2, Seen DEF Needs, ParentMode, OnExisting, Present, Live
  <2>4. Shares(p, "row")' /\ Pending(p)' = Pending(p)
    BY <2>1, <2>3 DEF Next1, Lockables, Pending
  <2>5. OpOk(p)'
    BY <1>1, <1>2, <1>4, <2>1, <2>4 DEF OpOk, PutChunkOk, WriteOk, Next1
  <2>6. "lock" \in LabelsOf(req[p].op) /\ ~Counted(p)'
    BY <1>1, <2>1 DEF LabelsOf, Counted, Next1
  <2> QED BY <1>1, <2>1, <2>2, <2>5, <2>6, PassGood
<1> QED BY <1>3, <1>4 DEF LockParent, At

\* A statement after which the usage counter is next, unless nothing is to be counted.
LEMMA AccountNext ==
  ASSUME IInv, NEW p \in Slots, NEW t, Account(p, t), Blockers(p) = {}
  PROVE  \/ Next1(p, "usage", t)
         \/ Next1(p, WriteStatement(p, t), t) /\ t.delta = 0
BY ProceedNext DEF Account

LEMMA CheckedGood ==
  ASSUME IInv, NEW p \in Slots, Blockers(p) = {}, pc[p] \in {"lock", "relock"}, req[p].op \in Writes,
         NEW f \in {"row", "chunk"}, f = Target(p), pc[p] = "lock" => db[f] # None,
         CheckedAgainst(p, db[f])
  PROVE  Good(p)
<1> DEFINE t == [txn[p] EXCEPT !.prior = db[f], !.delta = req[p].size - SizeOf(db[f])]
           key == IF f = "row" THEN "createRow" ELSE "createChunk"
<1>1. OpOk(p) /\ Typed(txn[p]) /\ req[p] # None /\ TxnOk(p) /\ DOMAIN txn[p] = {"pending", "prior", "delta"}
  BY Own
<1>2. \/ (req[p].op = "put" /\ f = "row" /\ PutOk(p))
      \/ (req[p].op = "putChunk" /\ f = "chunk" /\ PutChunkOk(p))
  BY <1>1 DEF Writes, Target, OpOk
<1>3. WriteOk(p, f, key) /\ f \notin Pending(p) /\ "usage" \notin Pending(p)
  BY <1>1, <1>2 DEF PutOk, PutChunkOk, WriteOk, TxnOk, Booked, Counted
<1>4. db[f] # None => <<f, "exclusive">> \in Needs(p)
  BY <1>2, <1>3, Seen DEF Needs, OnExisting, Present
<1>5. CASE \E status : Quit(p, status)
  BY <1>5, QuitGood
<1>6. CASE /\ ~PreconditionFails(req[p].ifMatch, req[p].ifNoneMatch, Live(db[f]), VersionOf(db[f]))
           /\ Account(p, t)
  <2>1. /\ DOMAIN t = {"pending", "prior", "delta"} /\ t.pending = txn[p].pending
        /\ t.prior = db[f] /\ t.delta = req[p].size - SizeOf(db[f])
    BY <1>1
  <2>2. Typed(t)
    <3>1. req[p].size \in Nat
      BY Own, ConstantsAssumption DEF Request
    <3>2. db[f] \in Row \cup Chunk \cup {None} /\ SizeOf(db[f]) \in Nat
      BY DEF IInv, TypeOK, Database, SizeOf, Row, Chunk
    <3> QED BY <1>1, <2>1, <3>1, <3>2 DEF Typed
  <2>3. PICK label : /\ Next1(p, label, t)
                     /\ label = "usage" \/ (label = WriteStatement(p, t) /\ t.delta = 0)
    BY <1>6, AccountNext
  <2> HIDE DEF t
  <2>4. /\ label \in {"usage", "insert", "upsert"}
        /\ label = "insert" => req[p].ifNoneMatch /\ t.prior = None
        /\ label = "upsert" => ~(req[p].ifNoneMatch /\ t.prior = None)
        /\ label # "usage" => t.delta = 0
    BY <2>3 DEF WriteStatement, Writes
  <2>5. Pending(p)' = Pending(p)
    BY <2>1, <2>3 DEF Pending, Next1
  <2>6. WriteLocked(p)'
    BY <1>1, <2>1, <2>3, <2>5 DEF TxnOk, WriteLocked, Next1, Lockables
  <2>7. WriteOk(p, f, key)'
    BY <1>3, <1>4, <1>6, <2>1, <2>3, <2>4, <2>5 DEF WriteOk, Next1, Lockables
  <2>8. OpOk(p)'
    BY <1>2, <2>1, <2>3, <2>4, <2>5, <2>7 DEF OpOk, PutOk, PutChunkOk, Next1, Pending, Lockables
  <2>9. label \in LabelsOf(req[p].op) /\ label # "idle"
    BY <1>2, <2>4 DEF LabelsOf
  <2>10. Counted(p)' => t.delta = 0
    BY <2>3, <2>4 DEF Counted, Next1
  <2> QED BY <1>1, <1>3, <2>1, <2>2, <2>3, <2>6, <2>8, <2>9, <2>10, StepGood DEF Pending
<1> QED BY <1>5, <1>6 DEF CheckedAgainst

LEMMA LockForWriteGood ==
  ASSUME IInv, NEW p \in Slots, LockForWrite(p) \/ LockSameKeyCreate(p) \/ RelockForWrite(p)
  PROVE  Good(p)
<1>1. pc[p] \in {"lock", "create", "relock"} /\ req[p].op \in Writes
  BY Own DEF LockForWrite, LockSameKeyCreate, RelockForWrite, At, LabelsOf, Operations, Bulk, Writes
<1>2. OpOk(p) /\ TxnOk(p) /\ Target(p) \in {"row", "chunk"}
  BY <1>1, Own DEF Target
<1>3. CASE \/ (LockForWrite(p) /\ db[Target(p)] # None)
           \/ RelockForWrite(p)
  BY <1>1, <1>2, <1>3, CheckedGood DEF LockForWrite, RelockForWrite, At
<1>4. CASE \/ (LockForWrite(p) /\ db[Target(p)] = None)
           \/ LockSameKeyCreate(p)
  <2>1. PICK label \in {"create", "relock"} :
          /\ Next1(p, label, txn[p])
          /\ label = "relock" => pc[p] = "create"
          /\ label = "create" => pc[p] = "lock"
    BY <1>4, ProceedNext DEF LockForWrite, LockSameKeyCreate, At
  <2>2. pc[p] = "create" => <<CreateKey(p), "exclusive">> \in Needs(p)
    BY DEF Needs
  <2>3. Pending(p)' = Pending(p) /\ "usage" \notin Pending(p)
    BY <1>1, <1>2, <2>1 DEF Pending, Next1, TxnOk, Booked, Counted
  <2>4. req[p].op = "put" => PutOk(p)'
    BY <1>2, <2>1, <2>2, <2>3 DEF OpOk, PutOk, WriteOk, Next1, CreateKey, Target, Lockables
  <2>5. req[p].op = "putChunk" => PutChunkOk(p)'
    BY <1>2, <2>1, <2>2, <2>3 DEF OpOk, PutChunkOk, WriteOk, Next1, CreateKey, Target, Lockables
  <2>6. OpOk(p)'
    BY <1>1, <2>1, <2>4, <2>5 DEF OpOk, Next1, Writes
  <2>7. label \in LabelsOf(req[p].op) /\ ~Counted(p)'
    BY <1>1, <2>1 DEF LabelsOf, Counted, Next1, Writes
  <2> QED BY <1>1, <2>1, <2>3, <2>6, <2>7, PassGood
<1> QED BY <1>3, <1>4

\* What the statements write has the type of its column, and is not NULL.
LEMMA FreshIs ==
  ASSUME IInv, NEW p \in Slots, req[p] # None
  PROVE  /\ req[p] \in Request /\ number[p] \in Nat /\ req[p].size \in Nat
         /\ FreshRow(req[p], number[p]) \in Row /\ FreshRow(req[p], number[p]) # None
         /\ FreshRow(req[p], number[p]).size = req[p].size
         /\ FreshChunk(req[p]) \in Chunk /\ FreshChunk(req[p]) # None
         /\ FreshChunk(req[p]).size = req[p].size
<1>1. req[p] \in Request /\ number[p] \in Nat
  BY DEF IInv, TypeOK
<1>2. req[p].size \in Nat /\ req[p].agent \in Agents \cup {None} /\ req[p].stamp \in BOOLEAN
  BY <1>1, ConstantsAssumption DEF Request
<1>3. FreshRow(req[p], number[p]) \in Row
  BY <1>1, <1>2 DEF FreshRow, Row
<1>4. FreshChunk(req[p]) \in Chunk
  BY <1>1, <1>2 DEF FreshChunk, Chunk
<1> QED BY <1>1, <1>2, <1>3, <1>4, ConstantsAssumption DEF FreshRow, FreshChunk

Columns == {"live", "version", "metaVersion", "custom", "createdBy", "stamp", "size", "write"}
LEMMA InRow ==
  ASSUME NEW x, DOMAIN x = Columns, x = [c \in Columns |-> x[c]],
         x.live \in BOOLEAN, x.version \in Nat, x.metaVersion \in Nat,
         x.custom \in Customs \cup {None}, x.createdBy \in Agents \cup {None},
         x.stamp \in BOOLEAN, x.size \in Nat, x.write \in Nat
  PROVE  x \in Row
<1>1. x = [live |-> x.live, version |-> x.version, metaVersion |-> x.metaVersion, custom |-> x.custom,
           createdBy |-> x.createdBy, stamp |-> x.stamp, size |-> x.size, write |-> x.write]
  BY DEF Columns
<1> QED BY <1>1 DEF Row

LEMMA UpsertedRowIs ==
  ASSUME NEW x \in Row, NEW r \in Request, NEW n \in Nat
  PROVE  UpsertedRow(x, r, n) \in Row /\ UpsertedRow(x, r, n).size = r.size
<1> DEFINE y == UpsertedRow(x, r, n)
<1>1. DOMAIN y = Columns
  BY DEF UpsertedRow, Row, Columns
<1>2. y = [c \in Columns |-> y[c]]
  BY DEF UpsertedRow, Row, Columns
<1>3. y.live = TRUE
  BY DEF UpsertedRow, Row
<1>4. y.stamp = r.stamp
  BY DEF UpsertedRow, Row
<1>5. /\ y.version = x.version + 1 /\ y.metaVersion = x.metaVersion /\ y.custom = x.custom
      /\ y.createdBy = x.createdBy /\ y.size = r.size /\ y.write = n
  BY DEF UpsertedRow, Row
<1> HIDE DEF y
<1>6. /\ x.version \in Nat /\ x.metaVersion \in Nat /\ x.custom \in Customs \cup {None}
      /\ x.createdBy \in Agents \cup {None} /\ x.size \in Nat /\ x.write \in Nat
  BY DEF Row
<1>7. r.custom \in Customs \cup {None} /\ r.size \in Nat
  BY ConstantsAssumption DEF Request
<1>8. x.live \in BOOLEAN /\ x.stamp \in BOOLEAN /\ r.stamp \in BOOLEAN
  BY DEF Row, Request
<1>9. y.live \in BOOLEAN
  BY <1>3, <1>8
<1>10. y.stamp \in BOOLEAN
  BY <1>4, <1>8
<1>11. /\ y.version \in Nat /\ y.metaVersion \in Nat /\ y.custom \in Customs \cup {None}
       /\ y.createdBy \in Agents \cup {None} /\ y.size \in Nat /\ y.write \in Nat
  BY <1>5, <1>6, <1>7
<1>12. y \in Row
  BY <1>1, <1>2, <1>9, <1>10, <1>11, InRow
<1> QED BY <1>5, <1>12 DEF y

LEMMA MetadataRowIs ==
  ASSUME NEW x \in Row, NEW r \in Request
  PROVE  MetadataRow(x, r) \in Row /\ MetadataRow(x, r).size = x.size
<1> DEFINE y == MetadataRow(x, r)
<1>1. DOMAIN y = Columns
  BY DEF MetadataRow, Row, Columns
<1>2. y = [c \in Columns |-> y[c]]
  BY DEF MetadataRow, Row, Columns
<1>3. y.live = x.live
  BY DEF MetadataRow, Row
<1>4. y.stamp = (x.stamp \/ r.stamp)
  BY DEF MetadataRow, Row
<1>5. /\ y.version = x.version /\ y.metaVersion = x.metaVersion + 1 /\ y.custom = r.custom
      /\ y.createdBy = x.createdBy /\ y.size = x.size /\ y.write = x.write
  BY DEF MetadataRow, Row
<1> HIDE DEF y
<1>6. /\ x.version \in Nat /\ x.metaVersion \in Nat /\ x.custom \in Customs \cup {None}
      /\ x.createdBy \in Agents \cup {None} /\ x.size \in Nat /\ x.write \in Nat
  BY DEF Row
<1>7. r.custom \in Customs \cup {None} /\ r.size \in Nat
  BY ConstantsAssumption DEF Request
<1>8. x.live \in BOOLEAN /\ x.stamp \in BOOLEAN /\ r.stamp \in BOOLEAN
  BY DEF Row, Request
<1>9. y.live \in BOOLEAN
  BY <1>3, <1>8
<1>10. y.stamp \in BOOLEAN
  BY <1>4, <1>8
<1>11. /\ y.version \in Nat /\ y.metaVersion \in Nat /\ y.custom \in Customs \cup {None}
       /\ y.createdBy \in Agents \cup {None} /\ y.size \in Nat /\ y.write \in Nat
  BY <1>5, <1>6, <1>7
<1>12. y \in Row
  BY <1>1, <1>2, <1>9, <1>10, <1>11, InRow
<1> QED BY <1>5, <1>12 DEF y

LEMMA TombstoneRowIs ==
  ASSUME NEW x \in Row
  PROVE  TombstoneRow(x) \in Row /\ TombstoneRow(x).size = 0
<1> DEFINE y == TombstoneRow(x)
<1>1. DOMAIN y = Columns
  BY DEF TombstoneRow, Row, Columns
<1>2. y = [c \in Columns |-> y[c]]
  BY DEF TombstoneRow, Row, Columns
<1>3. y.live = FALSE
  BY DEF TombstoneRow, Row
<1>4. y.stamp = FALSE
  BY DEF TombstoneRow, Row
<1>5. /\ y.version = x.version + 1 /\ y.metaVersion = 0 /\ y.custom = None
      /\ y.createdBy = x.createdBy /\ y.size = 0 /\ y.write = x.write
  BY DEF TombstoneRow, Row
<1> HIDE DEF y
<1>6. /\ x.version \in Nat /\ x.metaVersion \in Nat /\ x.custom \in Customs \cup {None}
      /\ x.createdBy \in Agents \cup {None} /\ x.size \in Nat /\ x.write \in Nat
  BY DEF Row
<1>8. x.live \in BOOLEAN /\ x.stamp \in BOOLEAN
  BY DEF Row
<1>9. y.live \in BOOLEAN
  BY <1>3, <1>8
<1>10. y.stamp \in BOOLEAN
  BY <1>4, <1>8
<1>11. /\ y.version \in Nat /\ y.metaVersion \in Nat /\ y.custom \in Customs \cup {None}
       /\ y.createdBy \in Agents \cup {None} /\ y.size \in Nat /\ y.write \in Nat
  BY <1>5, <1>6
<1>12. y \in Row
  BY <1>1, <1>2, <1>9, <1>10, <1>11, InRow
<1> QED BY <1>5, <1>12 DEF y

LEMMA UpsertedChunkIs ==
  ASSUME NEW x \in Chunk, NEW r \in Request
  PROVE  UpsertedChunk(x, r) \in Chunk /\ UpsertedChunk(x, r).size = r.size
<1> DEFINE y == UpsertedChunk(x, r)
           columns == {"live", "version", "size"}
<1>1. DOMAIN y = columns
  BY DEF UpsertedChunk, Chunk
<1>2. y = [c \in columns |-> y[c]]
  BY DEF UpsertedChunk, Chunk
<1>3. y.live = TRUE
  BY DEF UpsertedChunk, Chunk
<1>4. y.version = x.version + 1 /\ y.size = r.size
  BY DEF UpsertedChunk, Chunk
<1> HIDE DEF y
<1>5. x.version \in Nat /\ r.size \in Nat
  BY ConstantsAssumption DEF Chunk, Request
<1>6. y = [live |-> y.live, version |-> y.version, size |-> y.size]
  BY <1>1, <1>2
<1>7. y \in Chunk
  <2>1. y.live \in {TRUE}
    BY <1>3
  <2>2. y.version \in Nat /\ y.size \in Nat
    BY <1>4, <1>5
  <2> QED BY <1>6, <2>1, <2>2 DEF Chunk
<1> QED BY <1>4, <1>7 DEF y

\* A write of its row by a put: what it writes is `value`.
LEMMA WroteGood ==
  ASSUME IInv, NEW p \in Slots, pc[p] \in {"insert", "upsert"}, req[p].op \in Writes, Blockers(p) = {},
         NEW f \in {"row", "chunk"}, f = Target(p), pc[p] = "insert" => db[f] = None,
         NEW value, value = (IF db[f] = None THEN Fresh(p) ELSE Upserted(p, db[f])),
         NEW label, label = (IF db[f] = None THEN AfterInsert(p) ELSE "commit"),
         Proceed(p, label, Wrote(txn[p], f, value))
  PROVE  Good(p)
<1> DEFINE t == Wrote(txn[p], f, value)
<1>0. PICK key \in {"createRow", "createChunk"} : key = (IF f = "row" THEN "createRow" ELSE "createChunk")
  OBVIOUS
<1>1. /\ OpOk(p) /\ TxnOk(p) /\ DOMAIN txn[p] = {"pending", "prior", "delta"}
      /\ Typed(txn[p]) /\ req[p] \in Request /\ req[p] # None
  BY Own
<1>2. \/ (req[p].op = "put" /\ f = "row" /\ PutOk(p))
      \/ (req[p].op = "putChunk" /\ f = "chunk" /\ PutChunkOk(p))
  BY <1>1 DEF Writes, Target, OpOk
<1>3. WriteOk(p, f, key) /\ f \notin Pending(p)
  BY <1>0, <1>2 DEF PutOk, PutChunkOk, WriteOk
<1>4. <<f, "exclusive">> \in Needs(p)
  BY <1>2, <1>3, Seen DEF Needs, OnInsert, Present
<1>5. Next1(p, label, t)
  BY ProceedNext
<1>6. /\ DOMAIN t = {"pending", "prior", "delta"}
      /\ t.prior = txn[p].prior /\ t.delta = txn[p].delta
      /\ DOMAIN t.pending = Pending(p) \cup {f} /\ t.pending[f] = value
      /\ \A g \in Pending(p) : g # f => t.pending[g] = txn[p].pending[g]
  <2>1. DOMAIN txn[p] = {"pending", "prior", "delta"}
    BY <1>1
  <2> QED BY ONLY <2>1, WroteIs DEF Pending, t
<1>7. db.row \in Row \cup {None} /\ db.chunk \in Chunk \cup {None} /\ number[p] \in Nat
  <2>1. db \in Database /\ number \in [Slots -> Nat]
    BY DEF IInv, TypeOK
  <2> QED BY <2>1 DEF Database
<1>8. (f = "row" => value \in Row) /\ (f = "chunk" => value \in Chunk)
  BY <1>1, <1>2, <1>7, FreshIs, UpsertedRowIs, UpsertedChunkIs DEF Fresh, Upserted
<1>9. \/ label = "fkCollection" /\ req[p].op = "put" /\ db[f] = None
      \/ label = "commit" /\ (req[p].op = "putChunk" \/ db[f] # None)
  BY <1>2 DEF AfterInsert
<1> HIDE DEF t
<1>10. Typed(t)
  BY <1>1, <1>2, <1>6, <1>8 DEF Typed, Pending
<1>11. Pending(p)' = Pending(p) \cup {f} /\ txn'[p] = t
  BY <1>5, <1>6 DEF Next1, Pending
<1>12. Holds(p, f)'
  BY <1>4, <1>5 DEF Next1, Lockables
<1>13. WriteLocked(p)'
  BY <1>1, <1>5, <1>11, <1>12 DEF TxnOk, WriteLocked, Fields, Next1, Lockables
<1>14. Shape(p)'
  BY <1>1, <1>2, <1>5, <1>9 DEF Shape, Next1, LabelsOf
<1>15. Booked(p)'
  BY <1>1, <1>2, <1>5, <1>6, <1>9, <1>11 DEF TxnOk, Booked, Counted, Next1, Pending
<1>16. (IF db[f] = None THEN Fresh(p) ELSE Upserted(p, db[f]))' = value
  BY <1>5 DEF Next1, Fresh, Upserted, Target
<1>17. WriteOk(p, f, key)'
  BY <1>2, <1>3, <1>5, <1>6, <1>9, <1>11, <1>12, <1>16 DEF WriteOk, Next1, Pending, Lockables
<1>18. req[p].op = "put" => PutOk(p)'
  BY <1>0, <1>2, <1>5, <1>6, <1>9, <1>11, <1>17 DEF PutOk, Next1, Pending, Lockables
<1>19. req[p].op = "putChunk" => PutChunkOk(p)'
  BY <1>0, <1>2, <1>5, <1>6, <1>9, <1>11, <1>17 DEF PutChunkOk, Next1, Pending, Lockables
<1>20. OpOk(p)'
  BY <1>2, <1>5, <1>18, <1>19 DEF OpOk, Next1
<1> QED BY <1>10, <1>11, <1>13, <1>14, <1>15, <1>20 DEF Good, TxnOk

LEMMA InsertGood ==
  ASSUME IInv, NEW p \in Slots, Insert(p) \/ Upsert(p)
  PROVE  Good(p)
<1>1. pc[p] \in {"insert", "upsert"} /\ req[p].op \in Writes
  BY Own DEF Insert, Upsert, At, LabelsOf, Operations, Bulk, Writes
<1>2. Target(p) \in {"row", "chunk"}
  BY DEF Target
<1>3. CASE \E status : Quit(p, status)
  BY <1>3, QuitGood
<1>4. CASE ~ \E status : Quit(p, status)
  BY <1>1, <1>2, <1>4, WroteGood DEF Insert, Upsert, At
<1> QED BY <1>3, <1>4

LEMMA MetadataGood ==
  ASSUME IInv, NEW p \in Slots, WriteMetadata(p)
  PROVE  Good(p)
<1> DEFINE value == MetadataRow(db.row, req[p])
           t == Wrote(txn[p], "row", value)
<1>1. pc[p] = "lock" /\ req[p].op = "putMeta" /\ Blockers(p) = {}
  BY DEF WriteMetadata, At
<1>2. /\ OpOk(p) /\ TxnOk(p) /\ DOMAIN txn[p] = {"pending", "prior", "delta"}
      /\ Typed(txn[p]) /\ req[p] \in Request /\ req[p] # None
  BY <1>1, Own
<1>3. Pending(p) = {} /\ txn[p].delta = 0
  BY <1>1, <1>2 DEF OpOk, PutMetaOk
<1>4. CASE \E status : Quit(p, status)
  BY <1>4, QuitGood
<1>5. CASE /\ Live(db.row) /\ ~MetaPreconditionFails(req[p], db.row.metaVersion)
           /\ Proceed(p, "commit", t)
  <2>1. Next1(p, "commit", t)
    BY <1>1, <1>5, ProceedNext
  <2>2. /\ DOMAIN t = {"pending", "prior", "delta"}
        /\ t.prior = txn[p].prior /\ t.delta = txn[p].delta
        /\ DOMAIN t.pending = {"row"} /\ t.pending["row"] = value
    BY <1>2, <1>3, WroteIs DEF Pending
  <2>3. db.row \in Row /\ value \in Row
    BY <1>2, <1>5, MetadataRowIs DEF IInv, TypeOK, Database, Live
  <2>4. <<"row", "exclusive">> \in Needs(p)
    BY <1>1, <1>3, <1>5, Seen DEF Needs, OnExisting, Present, Target, Live
  <2> HIDE DEF t
  <2>5. Typed(t) /\ "usage" \notin DOMAIN t.pending /\ t.delta = 0
    BY <1>2, <1>3, <2>2, <2>3 DEF Typed
  <2>6. Pending(p)' = {"row"} /\ txn'[p].pending["row"] = value /\ txn'[p].delta = 0
    BY <1>3, <2>1, <2>2 DEF Next1, Pending
  <2>7. WriteLocked(p)'
    BY <2>1, <2>4, <2>6 DEF WriteLocked, Fields, Next1, Lockables
  <2>8. PutMetaOk(p)'
    BY <1>5, <2>1, <2>6 DEF PutMetaOk, Next1
  <2>9. OpOk(p)' /\ "commit" \in LabelsOf(req[p].op)
    BY <1>1, <2>1, <2>8 DEF OpOk, Next1, LabelsOf
  <2> QED BY <1>2, <2>1, <2>5, <2>7, <2>9, StepGood
<1> QED BY <1>4, <1>5 DEF WriteMetadata

LEMMA LockForDeleteGood ==
  ASSUME IInv, NEW p \in Slots, LockForDelete(p)
  PROVE  Good(p)
<1> DEFINE t == [txn[p] EXCEPT !.prior = db.row, !.delta = -db.row.size]
<1>1. pc[p] = "lock" /\ req[p].op = "delete" /\ Blockers(p) = {}
  BY DEF LockForDelete, At
<1>2. /\ OpOk(p) /\ TxnOk(p) /\ DOMAIN txn[p] = {"pending", "prior", "delta"}
      /\ Typed(txn[p]) /\ req[p] \in Request /\ req[p] # None
  BY <1>1, Own
<1>3. Pending(p) = {}
  BY <1>1, <1>2 DEF OpOk, DeleteOk
<1>4. CASE \E status : Quit(p, status)
  BY <1>4, QuitGood
<1>5. CASE /\ Live(db.row) /\ Proceed(p, "dropChunks", t)
           /\ ~PreconditionFails(req[p].ifMatch, FALSE, Live(db.row), VersionOf(db.row))
  <2>1. Next1(p, "dropChunks", t)
    BY <1>1, <1>5, ProceedNext
  <2>2. /\ DOMAIN t = {"pending", "prior", "delta"}
        /\ t.prior = db.row /\ t.delta = -db.row.size /\ t.pending = txn[p].pending
    BY <1>2
  <2>3. db.row \in Row /\ db.row # None /\ db.row.size \in Nat
    BY <1>5 DEF IInv, TypeOK, Database, Live, Row
  <2>4. <<"row", "exclusive">> \in Needs(p)
    BY <1>1, <1>3, <2>3, Seen DEF Needs, OnExisting, Present, Target
  <2> HIDE DEF t
  <2>5. Typed(t) /\ "usage" \notin DOMAIN t.pending
    BY <1>2, <1>3, <2>2, <2>3 DEF Typed, Pending
  <2>6. Pending(p)' = {} /\ txn'[p].delta = -db.row.size /\ Holds(p, "row")'
    BY <1>3, <2>1, <2>2, <2>4 DEF Next1, Pending, Lockables
  <2>7. ~PreconditionFails(req[p].ifMatch, FALSE, TRUE, db.row.version)
    BY <1>5, <2>3 DEF PreconditionFails, VersionOf
  <2>8. WriteLocked(p)' /\ DeleteOk(p)'
    BY <1>5, <2>1, <2>6, <2>7 DEF WriteLocked, DeleteOk, Next1
  <2>9. OpOk(p)' /\ "dropChunks" \in LabelsOf(req[p].op) /\ ~Counted(p)'
    BY <1>1, <2>1, <2>8 DEF OpOk, Next1, LabelsOf, Counted
  <2> QED BY <1>2, <2>1, <2>5, <2>8, <2>9, StepGood
<1> QED BY <1>4, <1>5 DEF LockForDelete

LEMMA TombstoneGood ==
  ASSUME IInv, NEW p \in Slots, WriteTombstone(p)
  PROVE  Good(p)
<1> DEFINE value == TombstoneRow(db.row)
           t == Wrote(txn[p], "row", value)
<1>1. pc[p] = "tombstone" /\ req[p].op = "delete" /\ Blockers(p) = {}
  BY Own DEF WriteTombstone, At, LabelsOf, Operations, Bulk
<1>2. /\ OpOk(p) /\ TxnOk(p) /\ DOMAIN txn[p] = {"pending", "prior", "delta"}
      /\ Typed(txn[p]) /\ req[p] \in Request /\ req[p] # None
  BY <1>1, Own
<1>3. "row" \notin Pending(p) /\ Holds(p, "row") /\ Live(db.row)
  BY <1>1, <1>2 DEF OpOk, DeleteOk
<1>4. Next1(p, "commit", t)
  BY <1>1, ProceedNext DEF WriteTombstone
<1>5. /\ DOMAIN t = {"pending", "prior", "delta"}
      /\ t.prior = txn[p].prior /\ t.delta = txn[p].delta
      /\ DOMAIN t.pending = Pending(p) \cup {"row"} /\ t.pending["row"] = value
      /\ \A g \in Pending(p) : g # "row" => t.pending[g] = txn[p].pending[g]
  BY <1>2, WroteIs DEF Pending
<1>6. db.row \in Row /\ value \in Row
  BY <1>3, TombstoneRowIs DEF IInv, TypeOK, Database, Live
<1> HIDE DEF t
<1>7. Typed(txn[p])'
  BY <1>2, <1>4, <1>5, <1>6 DEF Typed, Next1, Pending
<1>8. Pending(p)' = Pending(p) \cup {"row"} /\ txn'[p] = t
  BY <1>4, <1>5 DEF Next1, Pending
<1>9. WriteLocked(p)' /\ Shape(p)'
  BY <1>1, <1>2, <1>3, <1>4, <1>8 DEF TxnOk, WriteLocked, Shape, LabelsOf, Fields, Next1, Lockables
<1>10. Booked(p)'
  BY <1>1, <1>2, <1>4, <1>5, <1>8 DEF TxnOk, Booked, Counted, Next1, Pending
<1>11. DeleteOk(p)'
  BY <1>1, <1>2, <1>4, <1>5, <1>8 DEF OpOk, DeleteOk, Next1, Pending, Lockables
<1>12. OpOk(p)'
  BY <1>1, <1>4, <1>11 DEF OpOk, Next1
<1> QED BY <1>7, <1>9, <1>10, <1>12 DEF Good, TxnOk

LEMMA DeleteChunkGood ==
  ASSUME IInv, NEW p \in Slots, DeleteChunk(p)
  PROVE  Good(p)
<1> DEFINE u == [txn[p] EXCEPT !.delta = -db.chunk.size]
           t == Wrote(u, "chunk", None)
<1>1. pc[p] = "lock" /\ req[p].op = "deleteChunk" /\ Blockers(p) = {}
  BY DEF DeleteChunk, At
<1>2. /\ OpOk(p) /\ TxnOk(p) /\ DOMAIN txn[p] = {"pending", "prior", "delta"}
      /\ Typed(txn[p]) /\ req[p] \in Request /\ req[p] # None
  BY <1>1, Own
<1>3. Pending(p) = {}
  BY <1>1, <1>2 DEF OpOk, DeleteChunkOk
<1>4. CASE \E status : Quit(p, status)
  BY <1>4, QuitGood
<1>5. CASE /\ db.chunk # None /\ Account(p, t)
           /\ ~PreconditionFails(req[p].ifMatch, FALSE, TRUE, db.chunk.version)
  <2>1. PICK label : Next1(p, label, t) /\ (label = "usage" \/ (label = WriteStatement(p, t) /\ t.delta = 0))
    BY <1>1, <1>5, AccountNext
  <2>2. DOMAIN u = {"pending", "prior", "delta"} /\ u.prior = txn[p].prior
        /\ u.delta = -db.chunk.size /\ u.pending = txn[p].pending
    BY <1>2
  <2> HIDE DEF u
  <2>3. /\ DOMAIN t = {"pending", "prior", "delta"}
        /\ t.prior = txn[p].prior /\ t.delta = -db.chunk.size
        /\ DOMAIN t.pending = {"chunk"} /\ t.pending["chunk"] = None
    BY <1>3, <2>2, WroteIs DEF Pending
  <2>4. db.chunk.size \in Nat
    BY <1>5 DEF IInv, TypeOK, Database, Chunk
  <2>5. <<"chunk", "exclusive">> \in Needs(p)
    BY <1>1, <1>3, <1>5, Seen DEF Needs, OnExisting, Present, Target
  <2> HIDE DEF t
  <2>6. label \in {"usage", "commit"} /\ (label = "commit" => t.delta = 0)
    BY <1>1, <2>1 DEF WriteStatement, Writes
  <2>7. Typed(t)
    BY <1>2, <2>3, <2>4 DEF Typed
  <2>8. Pending(p)' = {"chunk"} /\ txn'[p] = t
    BY <2>1, <2>3 DEF Next1, Pending
  <2>9. WriteLocked(p)'
    BY <2>1, <2>5, <2>8 DEF WriteLocked, Fields, Next1, Lockables
  <2>10. DeleteChunkOk(p)'
    BY <1>5, <2>1, <2>3, <2>6, <2>8 DEF DeleteChunkOk, Next1
  <2>11. OpOk(p)' /\ label \in LabelsOf(req[p].op)
    BY <1>1, <2>1, <2>6, <2>10 DEF OpOk, Next1, LabelsOf
  <2>12. Counted(p)' => t.delta = 0
    BY <2>1, <2>6 DEF Counted, Next1
  <2> QED BY <1>2, <2>1, <2>3, <2>6, <2>7, <2>9, <2>11, <2>12, StepGood
<1> QED BY <1>4, <1>5 DEF DeleteChunk

LEMMA SizesAreNat ==
  ASSUME IInv
  PROVE  /\ SizeOf(db.row) \in Nat /\ SizeOf(db.chunk) \in Nat /\ db.siblings \in Nat /\ db.usage \in Nat
         /\ Bytes(db) \in Nat
<1>1. db.row \in Row \cup {None} /\ db.chunk \in Chunk \cup {None} /\ db.siblings \in Nat /\ db.usage \in Nat
  BY DEF IInv, TypeOK, Database
<1>2. SizeOf(db.row) \in Nat /\ SizeOf(db.chunk) \in Nat
  BY <1>1 DEF SizeOf, Row, Chunk
<1> QED BY <1>1, <1>2 DEF Bytes

LEMMA DropChunksGood ==
  ASSUME IInv, NEW p \in Slots, DropChunks(p)
  PROVE  Good(p)
<1> DEFINE u == [txn[p] EXCEPT !.delta = @ - (IF req[p].op = "delete" THEN SizeOf(db.chunk) ELSE 0)]
           t == IF db.chunk = None THEN u ELSE Wrote(u, "chunk", None)
<1>1. /\ pc[p] = "dropChunks" /\ req[p].op \in {"delete", "deleteCollection"} /\ Blockers(p) = {}
      /\ Account(p, t)
  BY Own DEF DropChunks, At, LabelsOf, Operations, Bulk
<1>2. /\ OpOk(p) /\ TxnOk(p) /\ DOMAIN txn[p] = {"pending", "prior", "delta"}
      /\ Typed(txn[p]) /\ req[p] \in Request /\ req[p] # None
  BY <1>1, Own
<1>3. Pending(p) \cap {"chunk", "usage"} = {}
  BY <1>1, <1>2 DEF OpOk, DeleteOk, DropOk
<1>4. PICK label : Next1(p, label, t) /\ (label = "usage" \/ (label = WriteStatement(p, t) /\ t.delta = 0))
  <2> HIDE DEF t
  <2>1. \/ Next1(p, "usage", t)
        \/ Next1(p, WriteStatement(p, t), t) /\ t.delta = 0
    BY <1>1, AccountNext
  <2> QED BY <2>1
<1>5. /\ DOMAIN u = {"pending", "prior", "delta"} /\ u.prior = txn[p].prior /\ u.pending = txn[p].pending
      /\ u.delta = txn[p].delta - (IF req[p].op = "delete" THEN SizeOf(db.chunk) ELSE 0)
  BY <1>2
<1> HIDE DEF u
<1>6. /\ DOMAIN t = {"pending", "prior", "delta"} /\ t.prior = txn[p].prior /\ t.delta = u.delta
      /\ DOMAIN t.pending = Pending(p) \cup (IF db.chunk = None THEN {} ELSE {"chunk"})
      /\ "chunk" \in DOMAIN t.pending => t.pending["chunk"] = None
      /\ \A g \in Pending(p) : g # "chunk" => t.pending[g] = txn[p].pending[g]
  BY <1>3, <1>5, WroteIs DEF Pending
<1>7. db.chunk # None => <<"chunk", "exclusive">> \in Needs(p)
  BY <1>1, <1>3, Seen DEF Needs, OnExisting, Present
<1> HIDE DEF t
<1>8. /\ label = "usage" \/ (label = "tombstone" /\ req[p].op = "delete")
                         \/ (label = "commit" /\ req[p].op = "deleteCollection")
      /\ label # "usage" => t.delta = 0
  BY <1>1, <1>4 DEF WriteStatement, Writes
<1>9. Typed(t)
  BY <1>2, <1>3, <1>5, <1>6, SizesAreNat DEF Typed, Pending
<1>10. /\ Pending(p)' = Pending(p) \cup (IF db.chunk = None THEN {} ELSE {"chunk"}) /\ txn'[p] = t
       /\ db.chunk # None => Holds(p, "chunk")'
  BY <1>4, <1>6, <1>7 DEF Next1, Pending, Lockables
<1>11. WriteLocked(p)'
  BY <1>2, <1>4, <1>10 DEF TxnOk, WriteLocked, Fields, Next1, Lockables
<1>12. req[p].op = "delete" => DeleteOk(p)'
  <2>1. req[p].op = "delete" => t.delta = -db.row.size - SizeOf(db.chunk)
    <3>1. req[p].op = "delete" => txn[p].delta = -db.row.size
      BY <1>1, <1>2 DEF OpOk, DeleteOk
    <3> QED BY <1>5, <1>6, <3>1
  <2> QED BY <1>1, <1>2, <1>4, <1>6, <1>8, <1>10, <2>1 DEF OpOk, DeleteOk, Next1, Pending, Lockables
<1>13. req[p].op = "deleteCollection" => DropOk(p)'
  BY <1>1, <1>2, <1>4, <1>6, <1>8, <1>10 DEF OpOk, DropOk, Next1, Pending, Lockables
<1>14. OpOk(p)' /\ label \in LabelsOf(req[p].op) /\ label # "idle"
  BY <1>1, <1>4, <1>8, <1>12, <1>13 DEF OpOk, Next1, LabelsOf
<1>15. (Counted(p)' => t.delta = 0) /\ "usage" \notin DOMAIN t.pending
  BY <1>3, <1>4, <1>6, <1>8 DEF Counted, Next1
<1> QED BY <1>2, <1>4, <1>9, <1>11, <1>14, <1>15, StepGood

LEMMA DropCollectionGood ==
  ASSUME IInv, NEW p \in Slots, SumCollection(p) \/ DropCollection(p)
  PROVE  Good(p)
<1>1. pc[p] \in {"sum", "dropCollection"} /\ req[p].op = "deleteCollection" /\ Blockers(p) = {}
  BY Own DEF SumCollection, DropCollection, At, LabelsOf, Operations, Bulk
<1>2. /\ OpOk(p) /\ TxnOk(p) /\ DOMAIN txn[p] = {"pending", "prior", "delta"}
      /\ Typed(txn[p]) /\ req[p] \in Request /\ req[p] # None
  BY <1>1, Own
<1>3. Pending(p) = {}
  BY <1>1, <1>2 DEF OpOk, DropOk
<1>4. CASE SumCollection(p)
  <2> DEFINE t == [txn[p] EXCEPT !.delta = -Bytes(db)]
  <2>1. Next1(p, "dropCollection", t)
    BY <1>1, <1>4, ProceedNext DEF SumCollection
  <2>2. /\ DOMAIN t = {"pending", "prior", "delta"} /\ t.pending = txn[p].pending
        /\ t.prior = txn[p].prior /\ t.delta = -Bytes(db)
    BY <1>2
  <2> HIDE DEF t
  <2>3. Typed(t)
    BY <1>2, <2>2, SizesAreNat DEF Typed
  <2>4. Pending(p)' = {}
    BY <1>3, <2>1, <2>2 DEF Next1, Pending
  <2>5. WriteLocked(p)' /\ DropOk(p)'
    BY <2>1, <2>4 DEF WriteLocked, DropOk, Next1
  <2>6. OpOk(p)' /\ "dropCollection" \in LabelsOf(req[p].op) /\ ~Counted(p)'
    BY <1>1, <2>1, <2>5 DEF OpOk, Next1, LabelsOf, Counted
  <2> QED BY <1>2, <1>3, <2>1, <2>2, <2>3, <2>5, <2>6, StepGood DEF Pending
<1>5. CASE DropCollection(p) /\ Present(p, "collection")
  <2> DEFINE u == Wrote(txn[p], "collection", FALSE)
             t == Wrote(u, "siblings", 0)
  <2>1. Next1(p, "cascade", t)
    BY <1>1, <1>5, ProceedNext DEF DropCollection
  <2>2. /\ DOMAIN u = {"pending", "prior", "delta"}
        /\ u.prior = txn[p].prior /\ u.delta = txn[p].delta
        /\ DOMAIN u.pending = {"collection"} /\ u.pending["collection"] = FALSE
    BY <1>2, <1>3 DEF Pending, Wrote
  <2> HIDE DEF u
  <2>3. /\ DOMAIN t = {"pending", "prior", "delta"}
        /\ t.prior = txn[p].prior /\ t.delta = txn[p].delta
        /\ DOMAIN t.pending = {"collection", "siblings"}
        /\ t.pending["siblings"] = 0 /\ t.pending["collection"] = u.pending["collection"]
    BY <2>2, WroteIs
  <2>4. t.pending["collection"] = FALSE
    BY <2>2, <2>3
  <2> HIDE DEF t
  <2>5. Typed(t)
    <3>1. t.pending["collection"] \in BOOLEAN
      BY <2>4
    <3>2. t.pending["siblings"] \in Nat
      BY <2>3
    <3>3. /\ DOMAIN t = {"pending", "prior", "delta"}
          /\ DOMAIN t.pending = {"collection", "siblings"}
          /\ t.prior \in Row \cup Chunk \cup {None} /\ t.delta \in Int
      BY <1>2, <2>3 DEF Typed
    <3> QED BY <3>1, <3>2, <3>3 DEF Typed
  <2>6. <<"collection", "exclusive">> \in Needs(p)
    BY <1>1, <1>5 DEF Needs, OnExisting, DropCollection, At
  <2>7. Pending(p)' = {"collection", "siblings"} /\ txn'[p] = t /\ Holds(p, "collection")'
    BY <2>1, <2>3, <2>6 DEF Next1, Pending, Lockables
  <2>8. WriteLocked(p)' /\ DropOk(p)'
    BY <2>1, <2>3, <2>4, <2>7 DEF WriteLocked, DropOk, Next1, Fields
  <2>9. OpOk(p)' /\ "cascade" \in LabelsOf(req[p].op) /\ ~Counted(p)'
    BY <1>1, <2>1, <2>8 DEF OpOk, Next1, LabelsOf, Counted
  <2> QED BY <1>2, <2>1, <2>3, <2>5, <2>8, <2>9, StepGood
<1>6. CASE DropCollection(p) /\ ~Present(p, "collection")
  <2>1. PICK label : /\ Next1(p, label, txn[p])
                     /\ label = "usage" \/ (label = WriteStatement(p, txn[p]) /\ txn[p].delta = 0)
    BY <1>1, <1>6, AccountNext DEF DropCollection
  <2>2. label \in {"usage", "commit"} /\ (label # "usage" => txn[p].delta = 0)
    BY <1>1, <2>1 DEF WriteStatement, Writes
  <2>3. Pending(p)' = {}
    BY <1>3, <2>1 DEF Next1, Pending
  <2>4. DropOk(p)'
    BY <2>1, <2>2, <2>3 DEF DropOk, Next1
  <2>5. OpOk(p)' /\ label \in LabelsOf(req[p].op) /\ label # "idle"
    BY <1>1, <2>1, <2>2, <2>4 DEF OpOk, Next1, LabelsOf
  <2>6. Counted(p)' => txn[p].delta = 0
    BY <2>1, <2>2 DEF Counted, Next1
  <2> QED BY <1>1, <1>3, <2>1, <2>5, <2>6, PassGood
<1> QED BY <1>4, <1>5, <1>6

LEMMA CascadeGood ==
  ASSUME IInv, NEW p \in Slots, Cascade(p)
  PROVE  Good(p)
<1> DEFINE w == Wrote(txn[p], "row", None)
           t == IF db.row = None THEN txn[p] ELSE w
<1>1. /\ pc[p] = "cascade" /\ req[p].op = "deleteCollection" /\ Blockers(p) = {}
      /\ Proceed(p, "dropChunks", t)
  BY Own DEF Cascade, At, LabelsOf, Operations, Bulk
<1>2. /\ OpOk(p) /\ TxnOk(p) /\ DOMAIN txn[p] = {"pending", "prior", "delta"}
      /\ Typed(txn[p]) /\ req[p] \in Request /\ req[p] # None
  BY <1>1, Own
<1>3. Pending(p) \cap {"row", "chunk", "usage"} = {} /\ "collection" \in Pending(p)
  BY <1>1, <1>2 DEF OpOk, DropOk
<1>4. Next1(p, "dropChunks", t)
  BY <1>1, ProceedNext
<1>5. /\ DOMAIN t = {"pending", "prior", "delta"} /\ t.prior = txn[p].prior /\ t.delta = txn[p].delta
      /\ DOMAIN t.pending = Pending(p) \cup (IF db.row = None THEN {} ELSE {"row"})
      /\ "row" \in DOMAIN t.pending => t.pending["row"] = None
      /\ \A g \in Pending(p) : g # "row" => t.pending[g] = txn[p].pending[g]
  BY <1>2, <1>3, WroteIs DEF Pending
<1>6. db.row # None => <<"row", "exclusive">> \in Needs(p)
  BY <1>1, <1>3, Seen DEF Needs, OnExisting, Present
<1> HIDE DEF t
<1>7. Typed(t)
  BY <1>2, <1>3, <1>5 DEF Typed, Pending
<1>8. /\ Pending(p)' = Pending(p) \cup (IF db.row = None THEN {} ELSE {"row"}) /\ txn'[p] = t
      /\ db.row # None => Holds(p, "row")'
  BY <1>4, <1>5, <1>6 DEF Next1, Pending, Lockables
<1>9. WriteLocked(p)'
  BY <1>2, <1>4, <1>8 DEF TxnOk, WriteLocked, Fields, Next1, Lockables
<1>10. DropOk(p)'
  BY <1>1, <1>2, <1>3, <1>4, <1>5, <1>8 DEF OpOk, DropOk, Next1, Pending, Lockables
<1>11. OpOk(p)' /\ "dropChunks" \in LabelsOf(req[p].op) /\ ~Counted(p)' /\ "usage" \notin DOMAIN t.pending
  BY <1>1, <1>3, <1>4, <1>5, <1>10 DEF OpOk, Next1, LabelsOf, Counted
<1> QED BY <1>2, <1>4, <1>7, <1>9, <1>11, StepGood

LEMMA LockSpaceGood ==
  ASSUME IInv, NEW p \in Slots, LockSpace(p) \/ ReadIds(p)
  PROVE  Good(p)
<1>1. pc[p] \in {"importLock", "ids"} /\ req[p].op = "import" /\ Blockers(p) = {}
  BY Own DEF LockSpace, ReadIds, At, LabelsOf, Operations, Bulk
<1>2. OpOk(p) /\ TxnOk(p) /\ req[p] # None
  BY <1>1, Own
<1>3. CASE \E status : Quit(p, status)
  BY <1>3, QuitGood
<1>4. CASE ~ \E status : Quit(p, status)
  <2>1. PICK label \in {"ensure", "ids", "restore", "probe"} :
          /\ Proceed(p, label, txn[p])
          /\ pc[p] = "importLock" => label \in {"ensure", "ids"}
          /\ pc[p] = "ids" => label \in {"restore", "probe"}
    BY <1>4 DEF LockSpace, ReadIds, At
  <2>2. Next1(p, label, txn[p])
    BY <1>1, <2>1, ProceedNext
  <2>3. pc[p] = "importLock" => <<"space", "exclusive">> \in Needs(p)
    BY DEF Needs
  <2>4. Pending(p)' = Pending(p) /\ Pending(p) \subseteq {"collection"}
    BY <1>1, <1>2, <2>2 DEF OpOk, ImportOk, Next1, Pending
  <2>5. Holds(p, "space")'
    BY <1>1, <1>2, <2>2, <2>3 DEF OpOk, ImportOk, Next1, Lockables
  <2>6. ImportOk(p)'
    BY <1>1, <1>2, <2>1, <2>2, <2>4, <2>5 DEF OpOk, ImportOk, Next1
  <2>7. OpOk(p)' /\ label \in LabelsOf(req[p].op) /\ ~Counted(p)'
    BY <1>1, <2>1, <2>2, <2>6 DEF OpOk, Next1, LabelsOf, Counted
  <2> QED BY <1>1, <2>1, <2>2, <2>4, <2>7, PassGood
<1> QED BY <1>3, <1>4

LEMMA ArchivedRowIs ==
  ASSUME NEW r \in Request, NEW n \in Nat
  PROVE  ArchivedRow(r, n) \in Row /\ ArchivedRow(r, n) # None
<1> DEFINE y == ArchivedRow(r, n)
<1>1. /\ DOMAIN y = Columns /\ y = [c \in Columns |-> y[c]]
      /\ y.version = r.version /\ y.metaVersion = (IF r.custom = None THEN 0 ELSE 1)
      /\ y.custom = r.custom /\ y.createdBy = r.agent
      /\ y.size = (IF r.live THEN r.size ELSE 0) /\ y.write = n
  BY DEF ArchivedRow, Columns
<1>2. y.live = r.live
  BY DEF ArchivedRow
<1>3. y.stamp = (r.live /\ r.stamp)
  BY DEF ArchivedRow
<1> HIDE DEF y
<1>4. /\ r.version \in Nat /\ r.size \in Nat /\ r.custom \in Customs \cup {None}
      /\ r.agent \in Agents \cup {None}
  BY ConstantsAssumption DEF Request
<1>5. r.live \in BOOLEAN /\ r.stamp \in BOOLEAN
  BY DEF Request
<1>6. y.live \in BOOLEAN
  BY <1>2, <1>5
<1>7. y.stamp \in BOOLEAN
  BY <1>3, <1>5
<1>8. /\ y.version \in Nat /\ y.metaVersion \in Nat /\ y.custom \in Customs \cup {None}
      /\ y.createdBy \in Agents \cup {None} /\ y.size \in Nat /\ y.write \in Nat
  BY <1>1, <1>4
<1>9. y \in Row
  BY <1>1, <1>6, <1>7, <1>8, InRow
<1> QED BY <1>9, ConstantsAssumption DEF y

LEMMA ArchivedChunkIs ==
  ASSUME NEW r \in Request
  PROVE  LET value == [FreshChunk(r) EXCEPT !.version = r.version]
         IN  value \in Chunk /\ value # None /\ value.size = r.size
<1> DEFINE value == [FreshChunk(r) EXCEPT !.version = r.version]
<1>1. r.version \in Nat /\ r.size \in Nat
  BY ConstantsAssumption DEF Request
<1>2. /\ DOMAIN value = {"live", "version", "size"}
      /\ value = [c \in {"live", "version", "size"} |-> value[c]]
  BY DEF FreshChunk
<1>3. value.live = TRUE
  BY DEF FreshChunk
<1>4. value.version = r.version /\ value.size = r.size
  BY DEF FreshChunk
<1> HIDE DEF value
<1>5. value = [live |-> value.live, version |-> value.version, size |-> value.size]
  BY <1>2
<1>6. value.live \in {TRUE}
  BY <1>3
<1>7. value.version \in Nat /\ value.size \in Nat
  BY <1>1, <1>4
<1>8. value \in Chunk
  BY <1>5, <1>6, <1>7 DEF Chunk
<1> QED BY <1>4, <1>8, ConstantsAssumption DEF value

LEMMA RestoreResourceGood ==
  ASSUME IInv, NEW p \in Slots, RestoreResource(p)
  PROVE  Good(p)
<1> DEFINE value == ArchivedRow(req[p], number[p])
           t == Wrote(txn[p], "row", value)
<1>1. pc[p] = "restore" /\ req[p].op = "import" /\ Blockers(p) = {}
  BY Own DEF RestoreResource, At, LabelsOf, Operations, Bulk
<1>2. /\ OpOk(p) /\ TxnOk(p) /\ DOMAIN txn[p] = {"pending", "prior", "delta"}
      /\ Typed(txn[p]) /\ req[p] \in Request /\ req[p] # None
  BY <1>1, Own
<1>3. Pending(p) \subseteq {"collection"}
  BY <1>1, <1>2 DEF OpOk, ImportOk
<1>4. CASE \E status : Quit(p, status)
  BY <1>4, QuitGood
<1>5. CASE db.row = None /\ Proceed(p, "fkCollection", t)
  <2>1. Next1(p, "fkCollection", t)
    BY <1>1, <1>5, ProceedNext
  <2>2. value \in Row
    BY <1>2, ArchivedRowIs DEF IInv, TypeOK
  <2> HIDE DEF value
  <2>3. /\ DOMAIN t = {"pending", "prior", "delta"}
        /\ t.prior = txn[p].prior /\ t.delta = txn[p].delta
        /\ DOMAIN t.pending = Pending(p) \cup {"row"} /\ t.pending["row"] = value
        /\ \A g \in Pending(p) : g # "row" => t.pending[g] = txn[p].pending[g]
    BY <1>2, WroteIs DEF Pending
  <2>4. <<"row", "exclusive">> \in Needs(p)
    BY <1>1, <1>3, <1>5, Seen DEF Needs, OnInsert, Present
  <2> HIDE DEF t
  <2>5. Typed(t) /\ "usage" \notin DOMAIN t.pending
    BY <1>2, <1>3, <2>2, <2>3 DEF Typed, Pending
  <2>6. Pending(p)' = Pending(p) \cup {"row"} /\ txn'[p] = t /\ Holds(p, "row")'
    BY <2>1, <2>3, <2>4 DEF Next1, Pending, Lockables
  <2>7. WriteLocked(p)'
    BY <1>2, <2>1, <2>6 DEF TxnOk, WriteLocked, Fields, Next1, Lockables
  <2>8. ImportOk(p)'
    BY <1>1, <1>2, <1>3, <1>5, <2>1, <2>3, <2>6 DEF OpOk, ImportOk, Next1, Pending, Lockables, value
  <2>9. OpOk(p)' /\ "fkCollection" \in LabelsOf(req[p].op) /\ ~Counted(p)'
    BY <1>1, <2>1, <2>8 DEF OpOk, Next1, LabelsOf, Counted
  <2> QED BY <1>2, <2>1, <2>5, <2>7, <2>9, StepGood
<1> QED BY <1>4, <1>5 DEF RestoreResource

\* What an import has created is counted at its end.
LEMMA CreatedGood ==
  ASSUME IInv, NEW p \in Slots, pc[p] \in {"probe", "restoreChunk", "fkRow"}, req[p].op = "import",
         Blockers(p) = {}, Account(p, Created(txn[p])), pc[p] = "fkRow" => Present(p, "row")
  PROVE  Good(p)
<1> DEFINE t == Created(txn[p])
<1>1. /\ OpOk(p) /\ TxnOk(p) /\ DOMAIN txn[p] = {"pending", "prior", "delta"}
      /\ Typed(txn[p]) /\ req[p] \in Request /\ req[p] # None /\ ImportOk(p)
  BY Own DEF OpOk
<1>2. /\ DOMAIN t = {"pending", "prior", "delta"} /\ t.pending = txn[p].pending /\ t.prior = txn[p].prior
      /\ t.delta = (IF "row" \in Pending(p) THEN txn[p].pending["row"].size ELSE 0)
                   + (IF "chunk" \in Pending(p) THEN txn[p].pending["chunk"].size ELSE 0)
  BY <1>1 DEF Created, Pending
<1>3. "row" \in Pending(p) => txn[p].pending["row"].size \in Nat
  <2>1. "row" \in Pending(p) => txn[p].pending["row"] \in Row
    BY <1>1, ArchivedRowIs DEF ImportOk, IInv, TypeOK
  <2> QED BY <2>1 DEF Row
<1>4. "chunk" \in Pending(p) => txn[p].pending["chunk"].size \in Nat
  <2>1. "chunk" \in Pending(p) => txn[p].pending["chunk"].size = req[p].size
    BY <1>1 DEF ImportOk, FreshChunk
  <2> QED BY <1>1, <2>1, FreshIs
<1>5. Typed(t)
  BY <1>1, <1>2, <1>3, <1>4 DEF Typed
<1>6. PICK label : Next1(p, label, t) /\ (label = "usage" \/ (label = WriteStatement(p, t) /\ t.delta = 0))
  <2> HIDE DEF t
  <2>1. \/ Next1(p, "usage", t)
        \/ Next1(p, WriteStatement(p, t), t) /\ t.delta = 0
    BY AccountNext DEF t
  <2> QED BY <2>1
<1> HIDE DEF t
<1>7. label \in {"usage", "commit"} /\ (label # "usage" => t.delta = 0)
  BY <1>6 DEF WriteStatement, Writes
<1>8. Pending(p)' = Pending(p) /\ txn'[p] = t
  BY <1>2, <1>6 DEF Pending, Next1
<1>9. WriteLocked(p)'
  BY <1>1, <1>6, <1>8 DEF TxnOk, WriteLocked, Next1, Lockables
<1>10. "usage" \notin Pending(p)
  BY <1>1 DEF TxnOk, Booked, Counted
<1>11. "chunk" \in Pending(p) => /\ pc[p] = "fkRow" /\ <<"row", "shared">> \in Needs(p)
                                 /\ "row" \in Pending(p) \/ db.row # None
  <2>1. "chunk" \in Pending(p) => pc[p] = "fkRow"
    BY <1>1 DEF ImportOk
  <2> QED BY <2>1, Seen DEF Needs, OnExisting, Present
<1>12. "chunk" \in Pending(p) => Shares(p, "row")'
  BY <1>6, <1>11 DEF Next1, Lockables
<1>13. ImportOk(p)'
  BY <1>1, <1>2, <1>6, <1>7, <1>8, <1>11, <1>12 DEF ImportOk, Next1, Pending, Lockables
<1>14. OpOk(p)' /\ label \in LabelsOf(req[p].op) /\ label # "idle"
  BY <1>6, <1>7, <1>13 DEF OpOk, Next1, LabelsOf
<1>15. Counted(p)' => t.delta = 0
  BY <1>6, <1>7 DEF Counted, Next1
<1> QED BY <1>1, <1>2, <1>5, <1>6, <1>9, <1>10, <1>14, <1>15, StepGood DEF Pending

LEMMA RestoreChunkGood ==
  ASSUME IInv, NEW p \in Slots, ProbeParent(p) \/ RestoreChunk(p) \/ CheckParent(p)
  PROVE  Good(p)
<1> DEFINE value == [FreshChunk(req[p]) EXCEPT !.version = req[p].version]
           t == Wrote(txn[p], "chunk", value)
<1>1. pc[p] \in {"probe", "restoreChunk", "fkRow"} /\ req[p].op = "import" /\ Blockers(p) = {}
  BY Own DEF ProbeParent, RestoreChunk, CheckParent, At, LabelsOf, Operations, Bulk
<1>2. /\ OpOk(p) /\ TxnOk(p) /\ DOMAIN txn[p] = {"pending", "prior", "delta"}
      /\ Typed(txn[p]) /\ req[p] \in Request /\ req[p] # None /\ ImportOk(p)
  BY <1>1, Own DEF OpOk
<1>3. CASE \E status : Quit(p, status)
  BY <1>3, QuitGood
<1>4. CASE Account(p, Created(txn[p])) /\ (pc[p] = "fkRow" => Present(p, "row"))
  BY <1>1, <1>4, CreatedGood
<1>5. CASE pc[p] = "probe" /\ Proceed(p, "restoreChunk", txn[p])
  <2>1. Next1(p, "restoreChunk", txn[p])
    BY <1>1, <1>5, ProceedNext
  <2>2. Pending(p)' = Pending(p) /\ "usage" \notin Pending(p)
    BY <1>2, <1>5, <2>1 DEF Next1, Pending, TxnOk, Booked, Counted
  <2>3. ImportOk(p)'
    BY <1>2, <1>5, <2>1, <2>2 DEF ImportOk, Next1, Lockables
  <2>4. OpOk(p)' /\ "restoreChunk" \in LabelsOf(req[p].op) /\ ~Counted(p)'
    BY <1>1, <2>1, <2>3 DEF OpOk, Next1, LabelsOf, Counted
  <2> QED BY <1>5, <2>1, <2>2, <2>4, PassGood
<1>6. CASE pc[p] = "restoreChunk" /\ db.chunk = None /\ Proceed(p, "fkRow", t)
  <2>1. Next1(p, "fkRow", t)
    BY <1>1, <1>6, ProceedNext
  <2>2. value \in Chunk
    BY <1>2, ArchivedChunkIs
  <2>3. Pending(p) \subseteq {"collection", "row"}
    BY <1>2, <1>6 DEF ImportOk
  <2> HIDE DEF value
  <2>4. /\ DOMAIN t = {"pending", "prior", "delta"}
        /\ t.prior = txn[p].prior /\ t.delta = txn[p].delta
        /\ DOMAIN t.pending = Pending(p) \cup {"chunk"} /\ t.pending["chunk"] = value
        /\ \A g \in Pending(p) : g # "chunk" => t.pending[g] = txn[p].pending[g]
    BY <1>2, WroteIs DEF Pending
  <2>5. <<"chunk", "exclusive">> \in Needs(p)
    BY <1>6, <2>3, Seen DEF Needs, OnInsert, Present
  <2> HIDE DEF t
  <2>6. Typed(t) /\ "usage" \notin DOMAIN t.pending
    BY <1>2, <2>2, <2>3, <2>4 DEF Typed, Pending
  <2>7. Pending(p)' = Pending(p) \cup {"chunk"} /\ txn'[p] = t /\ Holds(p, "chunk")'
    BY <2>1, <2>4, <2>5 DEF Next1, Pending, Lockables
  <2>8. WriteLocked(p)'
    BY <1>2, <2>1, <2>7 DEF TxnOk, WriteLocked, Fields, Next1, Lockables
  <2>9. ImportOk(p)'
    BY <1>2, <1>6, <2>1, <2>3, <2>4, <2>7 DEF ImportOk, Next1, Pending, Lockables, value
  <2>10. OpOk(p)' /\ "fkRow" \in LabelsOf(req[p].op) /\ ~Counted(p)'
    BY <1>1, <2>1, <2>9 DEF OpOk, Next1, LabelsOf, Counted
  <2> QED BY <1>2, <2>1, <2>6, <2>8, <2>10, StepGood
<1> QED BY <1>3, <1>4, <1>5, <1>6 DEF ProbeParent, RestoreChunk, CheckParent, At

LEMMA ArriveGood ==
  ASSUME IInv, NEW p \in Slots, Arrive(p)
  PROVE  Good(p)
<1>1. pc[p] = "idle" /\ TxnOk(p) /\ Typed(txn[p])
  BY TxnTyped DEF Arrive, IInv, TxnInv
<1>2. PICK r \in Workload : pc'[p] = First(r) /\ req'[p] = r
  BY DEF Arrive, IInv, TypeOK
<1>3. r \in Request /\ r # None
  BY ConstantsAssumption
<1>4. UNCHANGED <<db, txn, stale>> /\ Pending(p) = {} /\ txn[p].delta = 0
  BY <1>1 DEF Arrive, TxnOk, Shape
<1>5. Pending(p)' = {} /\ txn'[p].delta = 0 /\ Typed(txn'[p])
  BY <1>1, <1>4 DEF Pending
<1>6. First(r) \in {"ensure", "claim", "lock", "parent", "sum", "importLock"} /\ First(r) \in LabelsOf(r.op)
  BY <1>3 DEF First, LabelsOf, Request, Operations, Bulk
<1>7. WriteLocked(p)' /\ Shape(p)' /\ Booked(p)'
  BY <1>2, <1>3, <1>5, <1>6 DEF WriteLocked, Shape, Booked, Counted
<1>8. OpOk(p)'
  <2>1. r.op = "put" => PutOk(p)'
    BY <1>2, <1>5 DEF First, PutOk, WriteOk
  <2>2. r.op = "putChunk" => PutChunkOk(p)'
    BY <1>2, <1>5 DEF First, PutChunkOk, WriteOk
  <2>3. r.op = "putMeta" => PutMetaOk(p)'
    BY <1>2, <1>5, <1>6 DEF PutMetaOk
  <2>4. r.op = "delete" => DeleteOk(p)'
    BY <1>2, <1>5 DEF First, DeleteOk
  <2>5. r.op = "deleteChunk" => DeleteChunkOk(p)'
    BY <1>2, <1>5 DEF First, DeleteChunkOk
  <2>6. r.op = "deleteCollection" => DropOk(p)'
    BY <1>2, <1>5 DEF First, DropOk
  <2>7. r.op = "import" => ImportOk(p)'
    BY <1>2, <1>5 DEF First, ImportOk
  <2> QED BY <1>2, <2>1, <2>2, <2>3, <2>4, <2>5, <2>6, <2>7 DEF OpOk
<1> QED BY <1>5, <1>7, <1>8 DEF Good, TxnOk

LEMMA StatementGood ==
  ASSUME IInv, NEW p \in Slots, Statement(p)
  PROVE  Good(p)
BY EnsureGood, ClaimGood, UsageGood, CheckCollectionGood, ParentGood, LockForWriteGood, InsertGood,
   MetadataGood, LockForDeleteGood, DropChunksGood, TombstoneGood, DeleteChunkGood, DropCollectionGood,
   CascadeGood, LockSpaceGood, RestoreResourceGood, RestoreChunkGood DEF Statement

----------------------------------------------------------------------------
(* Steps that commit nothing.                                              *)

Goes(p) == Blockers(p) = {} /\ \E label, t : Proceed(p, label, t)
Ends(p) == \E status : Quit(p, status)

LEMMA StatementIs ==
  ASSUME IInv, NEW p \in Slots, Statement(p)
  PROVE  Goes(p) \/ Ends(p)
<1>1. CASE EnsureCollection(p) \/ LockUniqueness(p) \/ ApplyUsageDelta(p) \/ CheckCollection(p) \/ LockParent(p)
  BY <1>1 DEF EnsureCollection, LockUniqueness, ApplyUsageDelta, CheckCollection, LockParent, At, Goes, Ends
<1>2. CASE LockForWrite(p) \/ LockSameKeyCreate(p) \/ RelockForWrite(p) \/ Insert(p) \/ Upsert(p)
  BY <1>2 DEF LockForWrite, LockSameKeyCreate, RelockForWrite, CheckedAgainst, Account, Insert, Upsert, At, Goes, Ends
<1>3. CASE WriteMetadata(p) \/ LockForDelete(p) \/ DropChunks(p) \/ WriteTombstone(p) \/ DeleteChunk(p)
  BY <1>3 DEF WriteMetadata, LockForDelete, DropChunks, WriteTombstone, DeleteChunk, Account, At, Goes, Ends
<1>4. CASE SumCollection(p) \/ DropCollection(p) \/ Cascade(p)
  BY <1>4 DEF SumCollection, DropCollection, Cascade, Account, At, Goes, Ends
<1>5. CASE \/ LockSpace(p) \/ ReadIds(p) \/ RestoreResource(p)
           \/ ProbeParent(p) \/ RestoreChunk(p) \/ CheckParent(p)
  BY <1>5 DEF LockSpace, ReadIds, RestoreResource, ProbeParent, RestoreChunk, CheckParent, Account, At, Goes, Ends
<1> QED BY <1>1, <1>2, <1>3, <1>4, <1>5 DEF Statement

\* Types of the variables that are not transactions.
Frame ==
  /\ db \in Database
  /\ locks \in [Lockables -> [{"shared", "exclusive"} -> SUBSET Slots]]
  /\ req \in [Slots -> Request \cup {None}]
  /\ number \in [Slots -> Nat]
  /\ answer = None \/ answer.version \in Nat
  /\ issued \in 0..MaxRequests
  /\ stale \in BOOLEAN
  /\ DOMAIN pc = Slots

LockTypes == locks \in [Lockables -> [{"shared", "exclusive"} -> SUBSET Slots]]
LEMMA TakeTypes ==
  ASSUME LockTypes, NEW p \in Slots, Take(p)
  PROVE  LockTypes'
<1>1. PICK needs : locks' = [o \in Lockables |-> [m \in {"shared", "exclusive"} |->
                               locks[o][m] \cup (IF <<o, m>> \in needs THEN {p} ELSE {})]]
  BY DEF Take
<1>2. \A o \in Lockables, m \in {"shared", "exclusive"} :
        locks[o][m] \cup (IF <<o, m>> \in needs THEN {p} ELSE {}) \in SUBSET Slots
  BY DEF LockTypes
<1> QED BY <1>1, <1>2 DEF LockTypes

EndTypes ==
  /\ LockTypes
  /\ req \in [Slots -> Request \cup {None}]
  /\ number \in [Slots -> Nat]
  /\ answer.version \in Nat
  /\ issued \in 0..MaxRequests
  /\ pc = [q \in Slots |-> pc[q]] /\ DOMAIN pc = Slots
LEMMA EndFrame ==
  ASSUME IInv, NEW p \in Slots, NEW status, NEW version \in Nat, End(p, status, version)
  PROVE  EndTypes'
<1>1. locks' = [o \in Lockables |-> [m \in {"shared", "exclusive"} |-> locks[o][m] \ {p}]]
  BY DEF End, Released
<1>2. \A o \in Lockables, m \in {"shared", "exclusive"} : locks[o][m] \ {p} \in SUBSET Slots
  BY DEF IInv, TypeOK
<1>3. LockTypes'
  BY <1>1, <1>2 DEF LockTypes
<1>4. req' \in [Slots -> Request \cup {None}]
  BY DEF End, IInv, TypeOK
<1>5. number' \in [Slots -> Nat] /\ issued' \in 0..MaxRequests
  BY DEF End, IInv, TypeOK
<1>6. pc' = [q \in Slots |-> pc'[q]] /\ DOMAIN pc' = Slots
  BY DEF End, IInv, TypeOK
<1>7. answer'.version = version
  BY DEF End
<1> QED BY <1>3, <1>4, <1>5, <1>6, <1>7 DEF EndTypes

LEMMA InvFrom ==
  ASSUME Frame', DOMAIN txn' = Slots, Exclusion', \A q \in Slots : Good(q),
         UsageExactUnlessStale', NoOrphanChunk', pc' = [q \in Slots |-> pc'[q]]
  PROVE  IInv'
<1>1. \A q \in Slots : Typed(txn'[q]) /\ TxnOk(q)'
  BY DEF Good
<1>2. \A q \in Slots : View(q)' \in Database
  <2> SUFFICES ASSUME NEW q \in Slots PROVE View(q)' \in Database
    OBVIOUS
  <2>1. PICK t : t = txn'[q]
    OBVIOUS
  <2>2. PICK d : d = db'
    OBVIOUS
  <2>3. PICK v : v = View(q)'
    OBVIOUS
  <2>4. v = [field \in Fields |-> IF field \in DOMAIN t.pending THEN t.pending[field] ELSE d[field]]
    BY <2>1, <2>2, <2>3 DEF View
  <2>5. Typed(t) /\ d \in Database
    BY <1>1, <2>1, <2>2 DEF Frame
  <2> QED BY <2>3, <2>4, <2>5, Replaced
<1>3. \A q \in Slots : pc'[q] \in Labels
  <2> SUFFICES ASSUME NEW q \in Slots PROVE pc'[q] \in Labels
    OBVIOUS
  <2>1. Shape(q)' /\ (req'[q] # None => req'[q] \in Request)
    BY <1>1 DEF TxnOk, Frame
  <2> QED BY <2>1 DEF Shape, LabelsOf, Labels, Request, Operations, Bulk
<1>4. \A q \in Slots : /\ DOMAIN txn'[q] = {"pending", "prior", "delta"}
                       /\ txn'[q].prior \in Row \cup Chunk \cup {None} /\ txn'[q].delta \in Int
  BY <1>1 DEF Typed
<1>5. TypeOK'
  BY <1>2, <1>3, <1>4 DEF TypeOK, Frame
<1> QED BY <1>1, <1>5 DEF IInv, TxnInv

LEMMA NoCommitKeeps ==
  ASSUME IInv, NEW p \in Slots, Statement(p) \/ Ends(p) \/ Arrive(p)
  PROVE  /\ \A q \in Slots \ {p} : Kept(q)
         /\ Exclusion' /\ DOMAIN txn' = Slots /\ UNCHANGED <<db, stale>>
<1>1. CASE Goes(p)
  BY <1>1, ProceedOwn DEF Goes, IInv, TxnInv
<1>2. CASE Ends(p)
  BY <1>2, EndOwn DEF Ends, Quit, IInv, TxnInv
<1>3. CASE Arrive(p)
  BY <1>3 DEF Arrive, Kept, IInv, TxnInv, TypeOK, Exclusion, Holds, Shares
<1> QED BY <1>1, <1>2, <1>3, StatementIs

LEMMA NoCommit ==
  ASSUME IInv, NEW p \in Slots, Statement(p) \/ Ends(p) \/ Arrive(p)
  PROVE  IInv'
<1>1. Good(p)
  BY StatementGood, QuitGood, ArriveGood DEF Ends
<1>2. /\ \A q \in Slots \ {p} : Kept(q)
      /\ Exclusion' /\ DOMAIN txn' = Slots /\ UNCHANGED <<db, stale>>
  BY NoCommitKeeps
<1>3. \A q \in Slots : Good(q)
  <2> SUFFICES ASSUME NEW q \in Slots, q # p PROVE Good(q)
    BY <1>1
  <2>1. Kept(q) /\ TxnOk(q) /\ Typed(txn[q])
    BY <1>2, TxnTyped DEF IInv, TxnInv
  <2> QED BY <1>2, <2>1, KeptOk DEF Good, Kept
<1>4. Frame' /\ pc' = [q \in Slots |-> pc'[q]]
  <2>1. CASE Goes(p)
    <3>1. PICK label, t : Proceed(p, label, t)
      BY <2>1 DEF Goes
    <3>2. LockTypes'
      BY <3>1, TakeTypes DEF Proceed, IInv, TypeOK, LockTypes
    <3> QED BY <3>1, <3>2 DEF Proceed, Frame, IInv, TypeOK, LockTypes
  <2>2. CASE Ends(p)
    <3>1. PICK status : Quit(p, status)
      BY <2>2 DEF Ends
    <3>2. EndTypes'
      BY <3>1, EndFrame DEF Quit
    <3>3. db' \in Database /\ stale' \in BOOLEAN
      BY <3>1 DEF Quit, IInv, TypeOK
    <3> QED BY <3>2, <3>3 DEF Frame, EndTypes, LockTypes
  <2>3. CASE Arrive(p)
    <3>1. PICK r \in Workload : req' = [req EXCEPT ![p] = r] /\ pc' = [pc EXCEPT ![p] = First(r)]
      BY <2>3 DEF Arrive
    <3>2. req' \in [Slots -> Request \cup {None}] /\ pc' = [q \in Slots |-> pc'[q]]
      BY <3>1, ConstantsAssumption DEF IInv, TypeOK
    <3>3. issued' \in 0..MaxRequests /\ number' \in [Slots -> Nat]
      BY <2>3, ConstantsAssumption DEF Arrive, IInv, TypeOK
    <3> QED BY <2>3, <3>2, <3>3 DEF Arrive, Frame, IInv, TypeOK
  <2> QED BY <2>1, <2>2, <2>3, StatementIs
<1>5. UsageExactUnlessStale' /\ NoOrphanChunk'
  BY <1>2 DEF IInv, UsageExactUnlessStale, NoOrphanChunk, ChunkHasParent, UsageIsExact, Stored
<1> QED BY <1>2, <1>3, <1>4, <1>5, InvFrom

----------------------------------------------------------------------------
(* COMMIT: what it publishes.                                              *)

\* What was counted is what lands, unless a bulk operation was outdated.
LEMMA PutLands ==
  ASSUME IInv, NEW p \in Slots, pc[p] = "commit", req[p].op = "put"
  PROVE  /\ View(p).row = IF db.row = None THEN FreshRow(req[p], number[p])
                                           ELSE UpsertedRow(db.row, req[p], number[p])
         /\ View(p).row \in Row /\ View(p).row # None /\ View(p).row.size = req[p].size /\ Live(View(p).row)
         /\ View(p).row.write = number[p]
         /\ View(p).chunk = db.chunk /\ View(p).siblings = db.siblings
         /\ ~stale => txn[p].delta = req[p].size - SizeOf(db.row)
<1>1. PutOk(p) /\ WriteOk(p, "row", "createRow") /\ req[p] # None
  BY Own DEF OpOk, PutOk
<1>2. Pending(p) \subseteq {"collection", "row", "usage"} /\ "row" \in Pending(p)
  BY <1>1 DEF WriteOk
<1>3. View(p).row = IF db.row = None THEN FreshRow(req[p], number[p])
                                     ELSE UpsertedRow(db.row, req[p], number[p])
  BY <1>1, <1>2, Seen DEF WriteOk, Fresh, Upserted, Target
<1>4. View(p).chunk = db.chunk /\ View(p).siblings = db.siblings
  BY <1>2, Seen
<1>5. db.row \in Row \cup {None} /\ req[p] \in Request /\ number[p] \in Nat
  BY <1>1 DEF IInv, TypeOK, Database
<1>6. View(p).row \in Row /\ View(p).row.size = req[p].size
  BY <1>1, <1>3, <1>5, FreshIs, UpsertedRowIs
<1>7. View(p).row.live = TRUE /\ View(p).row.write = number[p]
  BY <1>3, <1>5 DEF FreshRow, UpsertedRow, Row
<1>8. ~stale => txn[p].delta = req[p].size - SizeOf(db.row)
  BY <1>1 DEF WriteOk
<1>9. View(p).row # None
  BY <1>6, ConstantsAssumption
<1>10. Live(View(p).row)
  BY <1>7, <1>9 DEF Live
<1> QED BY <1>3, <1>4, <1>6, <1>7, <1>8, <1>9, <1>10

LEMMA PutChunkLands ==
  ASSUME IInv, NEW p \in Slots, pc[p] = "commit", req[p].op = "putChunk"
  PROVE  /\ View(p).chunk \in Chunk /\ View(p).chunk # None /\ View(p).chunk.size = req[p].size
         /\ View(p).row = db.row /\ Live(db.row) /\ View(p).siblings = db.siblings
         /\ ~stale => txn[p].delta = req[p].size - SizeOf(db.chunk)
<1>1. PutChunkOk(p) /\ WriteOk(p, "chunk", "createChunk") /\ req[p] # None
  BY Own DEF OpOk, PutChunkOk
<1>2. Pending(p) \subseteq {"collection", "chunk", "usage"} /\ "chunk" \in Pending(p)
  BY <1>1 DEF WriteOk
<1>3. View(p).chunk = IF db.chunk = None THEN FreshChunk(req[p]) ELSE UpsertedChunk(db.chunk, req[p])
  BY <1>1, <1>2, Seen DEF WriteOk, Fresh, Upserted, Target
<1>4. View(p).row = db.row /\ View(p).siblings = db.siblings
  BY <1>2, Seen
<1>5. db.chunk \in Chunk \cup {None} /\ req[p] \in Request
  BY <1>1 DEF IInv, TypeOK, Database
<1>6. View(p).chunk \in Chunk /\ View(p).chunk.size = req[p].size
  BY <1>1, <1>3, <1>5, FreshIs, UpsertedChunkIs
<1>7. ~stale => txn[p].delta = req[p].size - SizeOf(db.chunk)
  BY <1>1 DEF WriteOk
<1>8. View(p).chunk # None
  BY <1>6, ConstantsAssumption
<1>9. Live(db.row)
  BY <1>1 DEF PutChunkOk
<1> QED BY <1>4, <1>6, <1>7, <1>8, <1>9

LEMMA PutMetaLands ==
  ASSUME IInv, NEW p \in Slots, pc[p] = "commit", req[p].op = "putMeta"
  PROVE  /\ Live(db.row) /\ db.row \in Row /\ View(p).row = MetadataRow(db.row, req[p])
         /\ View(p).row \in Row /\ View(p).row.size = db.row.size /\ Live(View(p).row)
         /\ View(p).chunk = db.chunk /\ View(p).siblings = db.siblings
         /\ txn[p].delta = 0
<1>1. PutMetaOk(p) /\ req[p] \in Request
  BY Own DEF OpOk
<1>2. /\ Pending(p) = {"row"} /\ Live(db.row) /\ txn[p].delta = 0
      /\ txn[p].pending["row"] = MetadataRow(db.row, req[p])
  BY <1>1 DEF PutMetaOk
<1>3. /\ View(p).row = MetadataRow(db.row, req[p])
      /\ View(p).chunk = db.chunk /\ View(p).siblings = db.siblings
  BY <1>2, Seen
<1>4. db.row \in Row
  BY <1>2 DEF IInv, TypeOK, Database, Live
<1>5. View(p).row \in Row /\ View(p).row.size = db.row.size
  BY <1>1, <1>3, <1>4, MetadataRowIs
<1>6. View(p).row.live = db.row.live
  BY <1>3, <1>4 DEF MetadataRow, Row
<1>7. View(p).row # None
  BY <1>5, ConstantsAssumption
<1>8. Live(View(p).row)
  BY <1>2, <1>6, <1>7 DEF Live
<1> QED BY <1>2, <1>3, <1>4, <1>5, <1>8

LEMMA DeleteLands ==
  ASSUME IInv, NEW p \in Slots, pc[p] = "commit", req[p].op = "delete"
  PROVE  /\ Live(db.row) /\ db.row \in Row /\ View(p).row = TombstoneRow(db.row)
         /\ View(p).row \in Row /\ View(p).row.size = 0
         /\ View(p).chunk = None /\ View(p).siblings = db.siblings
         /\ txn[p].delta = -db.row.size - SizeOf(db.chunk)
<1>1. DeleteOk(p)
  BY Own DEF OpOk
<1>2. /\ "row" \in Pending(p) /\ Live(db.row) /\ txn[p].delta = -db.row.size - SizeOf(db.chunk)
      /\ txn[p].pending["row"] = TombstoneRow(db.row) /\ "siblings" \notin Pending(p)
      /\ "chunk" \in Pending(p) => txn[p].pending["chunk"] = None
      /\ "chunk" \notin Pending(p) => db.chunk = None
  BY <1>1 DEF DeleteOk
<1>3. View(p).row = TombstoneRow(db.row) /\ View(p).chunk = None /\ View(p).siblings = db.siblings
  BY <1>2, Seen
<1>4. db.row \in Row
  BY <1>2 DEF IInv, TypeOK, Database, Live
<1> QED BY <1>2, <1>3, <1>4, TombstoneRowIs

LEMMA DeleteChunkLands ==
  ASSUME IInv, NEW p \in Slots, pc[p] = "commit", req[p].op = "deleteChunk"
  PROVE  /\ View(p).row = db.row /\ View(p).siblings = db.siblings
         /\ View(p).chunk = None /\ db.chunk # None /\ txn[p].delta = -db.chunk.size
<1>1. DeleteChunkOk(p)
  BY Own DEF OpOk
<1> QED BY <1>1, Seen DEF DeleteChunkOk

LEMMA DropLands ==
  ASSUME IInv, NEW p \in Slots, pc[p] = "commit", req[p].op = "deleteCollection"
  PROVE  \/ /\ "collection" \in Pending(p)
            /\ View(p).row = None /\ View(p).chunk = None /\ View(p).siblings = 0
         \/ /\ "collection" \notin Pending(p) /\ View(p).row = db.row /\ View(p).chunk = db.chunk
            /\ View(p).siblings = db.siblings
<1>1. DropOk(p)
  BY Own DEF OpOk
<1> QED BY <1>1, Seen DEF DropOk

LEMMA ImportLands ==
  ASSUME IInv, NEW p \in Slots, pc[p] = "commit", req[p].op = "import"
  PROVE  /\ IF "row" \in Pending(p)
              THEN db.row = None /\ View(p).row \in Row /\ View(p).row # None /\ Shares(p, "collection")
              ELSE View(p).row = db.row
         /\ IF "chunk" \in Pending(p)
              THEN /\ db.chunk = None /\ View(p).chunk \in Chunk /\ View(p).chunk # None
                   /\ Shares(p, "row") /\ ("row" \in Pending(p) \/ db.row # None)
              ELSE View(p).chunk = db.chunk
         /\ View(p).siblings = db.siblings
         /\ txn[p].delta = (IF "row" \in Pending(p) THEN View(p).row.size ELSE 0)
                           + (IF "chunk" \in Pending(p) THEN View(p).chunk.size ELSE 0)
<1>1. ImportOk(p) /\ Typed(txn[p]) /\ req[p] \in Request /\ req[p] # None
  BY Own DEF OpOk
<1>2. number[p] \in Nat
  BY DEF IInv, TypeOK
<1>3. "row" \in Pending(p) => /\ db.row = None /\ txn[p].pending["row"] \in Row
                              /\ txn[p].pending["row"] # None /\ Shares(p, "collection")
  BY <1>1, <1>2, ArchivedRowIs DEF ImportOk
<1>4. "chunk" \in Pending(p) => /\ db.chunk = None /\ txn[p].pending["chunk"] # None
                                /\ Shares(p, "row") /\ ("row" \in Pending(p) \/ db.row # None)
  <2>1. "chunk" \in Pending(p) => txn[p].pending["chunk"] # None
    BY <1>1, ArchivedChunkIs DEF ImportOk
  <2> QED BY <1>1, <2>1 DEF ImportOk
<1>5. "chunk" \in Pending(p) => txn[p].pending["chunk"] \in Chunk
  BY <1>1, <1>4 DEF Typed, Pending
<1>6. "siblings" \notin Pending(p)
  BY <1>1 DEF ImportOk
<1> QED BY <1>1, <1>3, <1>4, <1>5, <1>6, Seen DEF ImportOk

----------------------------------------------------------------------------
(* COMMIT: what it leaves of the other transactions.                       *)

Publishes(p) ==
  /\ pc[p] = "commit" /\ db' = View(p)
  /\ ~stale' => ~stale /\ ~Outdated(p)
  /\ \A q \in Slots \ {p} : Kept(q)

\* A lock keeps what it is about.
LEMMA Behind ==
  ASSUME IInv, NEW p \in Slots, NEW q \in Slots \ {p}, Publishes(p)
  PROVE  /\ Shares(q, "row") => "row" \notin Pending(p) /\ db'.row = db.row
         /\ Shares(q, "chunk") => "chunk" \notin Pending(p) /\ db'.chunk = db.chunk
         /\ Shares(q, "collection") => "collection" \notin Pending(p)
         /\ Shares(q, "space") => db'.usage = db.usage
<1>1. WriteLocked(p) /\ \A o \in Lockables : ~(Holds(p, o) /\ Shares(q, o))
  BY DEF IInv, TxnInv, TxnOk, Exclusion
<1>2. /\ "row" \in Pending(p) => ~Shares(q, "row")
      /\ "chunk" \in Pending(p) => ~Shares(q, "chunk")
      /\ "collection" \in Pending(p) => ~Shares(q, "collection")
      /\ "usage" \in Pending(p) => ~Shares(q, "space")
  BY <1>1 DEF WriteLocked, Lockables
<1> QED BY <1>2, Seen DEF Publishes

LEMMA HoldShares == \A p, o : Holds(p, o) => Shares(p, o)
BY DEF Holds, Shares

\* No Resource can appear in a Collection that is being deleted,
LEMMA RowStays ==
  ASSUME IInv, NEW p \in Slots, NEW q \in Slots \ {p}, Publishes(p),
         Holds(q, "collection"), db.row = None
  PROVE  db'.row = None
<1>1. req[p].op \in Operations /\ pc[p] = "commit" /\ db' = View(p)
  BY Own DEF Publishes
<1>2. ~Shares(p, "collection")
  BY DEF IInv, TxnInv, Exclusion, Lockables
<1>3. ~Live(db.row)
  BY DEF Live
<1>4. CASE req[p].op = "put"
  <2>1. PutOk(p)
    BY <1>1, <1>4, Own DEF OpOk
  <2> QED BY <1>1, <1>2, <2>1 DEF PutOk
<1>5. CASE req[p].op \in {"putMeta", "delete", "putChunk"}
  BY <1>1, <1>3, <1>5, PutMetaLands, DeleteLands, PutChunkLands
<1>6. CASE req[p].op \in {"deleteChunk", "deleteCollection"}
  BY <1>1, <1>6, DeleteChunkLands, DropLands
<1>7. CASE req[p].op = "import"
  BY <1>1, <1>2, <1>7, ImportLands
<1> QED BY <1>1, <1>4, <1>5, <1>6, <1>7 DEF Operations, Bulk

\* and no chunk under a Resource that is, or that is gone with its Collection.
LEMMA ChunkStays ==
  ASSUME IInv, NEW p \in Slots, NEW q \in Slots \ {p}, Publishes(p), db.chunk = None,
         Holds(q, "row") \/ (Holds(q, "collection") /\ db.row = None)
  PROVE  db'.chunk = None
<1>1. req[p].op \in Operations /\ pc[p] = "commit" /\ db' = View(p)
  BY Own DEF Publishes
<1>2. /\ Holds(q, "row") => ~Shares(p, "row")
      /\ Holds(q, "collection") => ~Shares(p, "collection")
  BY DEF IInv, TxnInv, Exclusion, Lockables
<1>3. CASE req[p].op = "putChunk"
  <2>1. PutChunkOk(p)
    BY <1>1, <1>3, Own DEF OpOk
  <2> QED BY <1>1, <1>2, <2>1 DEF PutChunkOk, Live
<1>4. CASE req[p].op \in {"put", "putMeta", "delete"}
  BY <1>1, <1>4, PutLands, PutMetaLands, DeleteLands
<1>5. CASE req[p].op \in {"deleteChunk", "deleteCollection"}
  BY <1>1, <1>5, DeleteChunkLands, DropLands
<1>6. CASE req[p].op = "import"
  BY <1>1, <1>2, <1>6, ImportLands
<1> QED BY <1>1, <1>3, <1>4, <1>5, <1>6 DEF Operations, Bulk

\* A write that found no row, and holds the create lock, still has none: another put
\* would hold the lock, and an import that makes one is outdated.
LEMMA NoneStays ==
  ASSUME IInv, NEW p \in Slots, NEW q \in Slots \ {p}, Publishes(p), ~stale',
         NEW f \in {"row", "chunk"}, NEW key, key = (IF f = "row" THEN "createRow" ELSE "createChunk"),
         req[q] # None, req[q].op \in Writes, Target(q) = f, WriteOk(q, f, key),
         pc[q] \in {"usage", "upsert", "fkCollection", "commit"}, txn[q].prior = None
  PROVE  db'[f] = None
<1>1. req[p].op \in Operations /\ pc[p] = "commit" /\ db' = View(p) /\ ~stale /\ ~Outdated(p)
  BY Own DEF Publishes
<1>2. db[f] = None /\ Holds(q, key) /\ ~Live(db[f])
  BY <1>1 DEF WriteOk, Live
<1>3. \A o \in Lockables : ~(Holds(p, o) /\ Shares(q, o)) /\ ~(Holds(q, o) /\ Shares(p, o))
  BY DEF IInv, TxnInv, Exclusion
<1>4. ~Holds(p, key)
  BY <1>2, <1>3, HoldShares DEF Lockables
<1>5. CASE req[p].op = "put"
  <2>1. PutOk(p)
    BY <1>1, <1>5, Own DEF OpOk
  <2>2. f = "chunk"
    BY <1>1, <1>2, <1>4, <2>1 DEF PutOk, WriteOk
  <2> QED BY <1>1, <1>2, <1>5, <2>2, PutLands
<1>6. CASE req[p].op = "putChunk"
  <2>1. PutChunkOk(p)
    BY <1>1, <1>6, Own DEF OpOk
  <2>2. f = "row"
    BY <1>1, <1>2, <1>4, <2>1 DEF PutChunkOk, WriteOk
  <2> QED BY <1>1, <1>2, <1>6, <2>2, PutChunkLands
<1>7. CASE req[p].op \in {"putMeta", "delete"}
  BY <1>1, <1>2, <1>7, PutMetaLands, DeleteLands
<1>8. CASE req[p].op \in {"deleteChunk", "deleteCollection"}
  BY <1>1, <1>2, <1>8, DeleteChunkLands, DropLands
<1>9. CASE req[p].op = "import"
  <2>1. f \in Pending(p) => Holds(p, f)
    BY DEF IInv, TxnInv, TxnOk, WriteLocked
  <2>2. pc[q] \in {"fkCollection", "commit"} => Holds(q, f)
    <3>1. pc[q] \in {"fkCollection", "commit"} => f \in Pending(q)
      BY DEF WriteOk
    <3> QED BY <3>1 DEF IInv, TxnInv, TxnOk, WriteLocked
  <2>3. pc[q] \in {"usage", "upsert"} => Unaware(q, f)
    BY DEF Unaware
  <2>4. f \in Pending(p) => ~Unaware(q, f)
    BY <1>1, <1>9 DEF Outdated, Pending
  <2>5. f \notin Pending(p)
    BY <1>3, <2>1, <2>2, <2>3, <2>4, HoldShares DEF Lockables
  <2> QED BY <1>1, <1>2, <1>9, <2>5, ImportLands
<1> QED BY <1>1, <1>5, <1>6, <1>7, <1>8, <1>9 DEF Operations, Bulk

LEMMA OthersOk ==
  ASSUME IInv, NEW p \in Slots, NEW q \in Slots \ {p}, Publishes(p)
  PROVE  TxnOk(q)'
<1>1. Kept(q) /\ TxnOk(q) /\ WriteLocked(q) /\ Shape(q)
  BY DEF Publishes, IInv, TxnInv, TxnOk
<1>2. Pending(q)' = Pending(q)
  BY <1>1 DEF Kept, Pending
<1>3. \A o \in Lockables : (Holds(q, o)' <=> Holds(q, o)) /\ (Shares(q, o)' <=> Shares(q, o))
  BY <1>1 DEF Kept, Holds, Shares
<1>4. WriteLocked(q)' /\ Shape(q)'
  BY <1>1, <1>2, <1>3 DEF WriteLocked, Shape, Kept, Lockables
<1>5. /\ Holds(q, "row") \/ Shares(q, "row") \/ "row" \in Pending(q) => db'.row = db.row
      /\ Holds(q, "chunk") \/ "chunk" \in Pending(q) => db'.chunk = db.chunk
      /\ "usage" \in Pending(q) => db'.usage = db.usage
  BY <1>1, Behind, HoldShares DEF WriteLocked
<1>6. Booked(q)'
  BY <1>1, <1>2, <1>5 DEF TxnOk, Booked, Counted, Kept
<1>7. ASSUME NEW f \in {"row", "chunk"}, NEW key, key = (IF f = "row" THEN "createRow" ELSE "createChunk"),
             req[q] # None, req[q].op \in Writes, Target(q) = f, WriteOk(q, f, key)
      PROVE  WriteOk(q, f, key)'
  <2>1. Fresh(q)' = Fresh(q) /\ \A x : Upserted(q, x)' = Upserted(q, x)
    BY <1>1 DEF Fresh, Upserted, Target, Kept
  <2>2. Holds(q, f) \/ f \in Pending(q) => db'[f] = db[f]
    BY <1>5, <1>7
  <2>3. /\ ~stale' /\ pc[q] \in {"usage", "upsert", "fkCollection", "commit"} /\ txn[q].prior = None
             => db'[f] = None
        /\ ~stale' => ~stale
    BY <1>7, NoneStays DEF Publishes
  <2>4. (Holds(q, f)' <=> Holds(q, f)) /\ (Holds(q, key)' <=> Holds(q, key))
    BY <1>3, <1>7 DEF Lockables
  <2>5. pc'[q] = pc[q] /\ req'[q] = req[q] /\ txn'[q] = txn[q]
    BY <1>1 DEF Kept
  <2> QED BY <1>2, <1>7, <2>1, <2>2, <2>3, <2>4, <2>5 DEF WriteOk
<1>8. CASE req[q] = None
  BY <1>1, <1>4, <1>6, <1>8 DEF TxnOk, Kept
<1>9. CASE req[q] # None
  <2>1. OpOk(q) /\ req'[q] = req[q]
    BY <1>1, <1>9 DEF TxnOk, Kept
  <2>2. req[q].op = "put" => PutOk(q)'
    BY <1>1, <1>2, <1>3, <1>5, <1>7, <1>9, <2>1 DEF OpOk, PutOk, Kept, Lockables, Target, Writes, WriteOk
  <2>3. req[q].op = "putChunk" => PutChunkOk(q)'
    BY <1>1, <1>2, <1>3, <1>5, <1>7, <1>9, <2>1 DEF OpOk, PutChunkOk, Kept, Lockables, Target, Writes
  <2>4. req[q].op = "putMeta" => PutMetaOk(q)'
    BY <1>1, <1>2, <1>5, <2>1 DEF OpOk, PutMetaOk, Kept
  <2>5. req[q].op = "delete" => DeleteOk(q)'
    BY <1>1, <1>2, <1>3, <1>5, <2>1, ChunkStays DEF OpOk, DeleteOk, Kept, Lockables
  <2>6. req[q].op = "deleteChunk" => DeleteChunkOk(q)'
    BY <1>1, <1>2, <1>5, <2>1 DEF OpOk, DeleteChunkOk, Kept
  <2>7. req[q].op = "deleteCollection" => DropOk(q)'
    BY <1>1, <1>2, <2>1, RowStays, ChunkStays DEF OpOk, DropOk, Kept, WriteLocked
  <2>8. req[q].op = "import" => ImportOk(q)'
    BY <1>1, <1>2, <1>3, <1>5, <2>1 DEF OpOk, ImportOk, Kept, Lockables
  <2>9. OpOk(q)'
    BY <2>1, <2>2, <2>3, <2>4, <2>5, <2>6, <2>7, <2>8 DEF OpOk
  <2> QED BY <1>4, <1>6, <2>9 DEF TxnOk
<1> QED BY <1>8, <1>9

----------------------------------------------------------------------------
(* COMMIT: the counter, the chunk and its parent.                          *)

LEMMA ViewSizes ==
  ASSUME IInv, NEW p \in Slots
  PROVE  /\ View(p) \in Database
         /\ SizeOf(View(p).row) \in Nat /\ SizeOf(View(p).chunk) \in Nat /\ View(p).siblings \in Nat
         /\ Bytes(View(p)) \in Nat
<1>1. View(p) \in Database
  BY DEF IInv, TypeOK
<1> HIDE DEF View
<1>2. /\ View(p).row \in Row \cup {None} /\ View(p).chunk \in Chunk \cup {None}
      /\ View(p).siblings \in Nat
  BY <1>1 DEF Database
<1>3. SizeOf(View(p).row) \in Nat /\ SizeOf(View(p).chunk) \in Nat
  BY <1>2 DEF SizeOf, Row, Chunk
<1> QED BY <1>1, <1>2, <1>3 DEF Bytes

LEMMA DeltaIsChange ==
  ASSUME IInv, NEW p \in Slots, pc[p] = "commit", ~stale, ~Outdated(p)
  PROVE  Bytes(View(p)) = Bytes(db) + txn[p].delta
<1>1. req[p].op \in Operations
  BY Own
<1>2. /\ SizeOf(db.row) \in Nat /\ SizeOf(db.chunk) \in Nat /\ db.siblings \in Nat
      /\ SizeOf(View(p).row) \in Nat /\ SizeOf(View(p).chunk) \in Nat /\ View(p).siblings \in Nat
  BY SizesAreNat, ViewSizes
<1>3. CASE req[p].op = "put"
  <2>1. SizeOf(View(p).row) = req[p].size /\ req[p].size \in Nat
    BY <1>2, <1>3, PutLands DEF SizeOf
  <2> QED BY <1>2, <1>3, <2>1, PutLands DEF Bytes
<1>4. CASE req[p].op = "putChunk"
  <2>1. SizeOf(View(p).chunk) = req[p].size /\ req[p].size \in Nat
    BY <1>2, <1>4, PutChunkLands DEF SizeOf
  <2> QED BY <1>2, <1>4, <2>1, PutChunkLands DEF Bytes
<1>5. CASE req[p].op = "putMeta"
  <2>1. SizeOf(View(p).row) = SizeOf(db.row)
    BY <1>5, PutMetaLands DEF SizeOf, Live
  <2> QED BY <1>2, <1>5, <2>1, PutMetaLands DEF Bytes
<1>6. CASE req[p].op = "delete"
  <2>1. SizeOf(View(p).row) = 0 /\ SizeOf(View(p).chunk) = 0 /\ SizeOf(db.row) = db.row.size
    BY <1>6, DeleteLands DEF SizeOf, Live
  <2> QED BY <1>2, <1>6, <2>1, DeleteLands DEF Bytes
<1>7. CASE req[p].op = "deleteChunk"
  <2>1. SizeOf(View(p).chunk) = 0 /\ SizeOf(db.chunk) = db.chunk.size
    BY <1>7, DeleteChunkLands DEF SizeOf
  <2> QED BY <1>2, <1>7, <2>1, DeleteChunkLands DEF Bytes
<1>8. CASE req[p].op = "deleteCollection"
  <2>1. txn[p].delta = Bytes(View(p)) - Bytes(db)
    BY <1>8 DEF Outdated
  <2> QED BY <2>1, SizesAreNat, ViewSizes
<1>9. CASE req[p].op = "import"
  <2>1. /\ SizeOf(View(p).row) = SizeOf(db.row) + (IF "row" \in Pending(p) THEN View(p).row.size ELSE 0)
        /\ SizeOf(View(p).chunk) = SizeOf(db.chunk) + (IF "chunk" \in Pending(p) THEN View(p).chunk.size ELSE 0)
        /\ "row" \in Pending(p) => View(p).row.size \in Nat
        /\ "chunk" \in Pending(p) => View(p).chunk.size \in Nat
    BY <1>2, <1>9, ImportLands DEF SizeOf
  <2> QED BY <1>2, <1>9, <2>1, ImportLands DEF Bytes
<1> QED BY <1>1, <1>3, <1>4, <1>5, <1>6, <1>7, <1>8, <1>9 DEF Operations, Bulk

LEMMA CommitExact ==
  ASSUME IInv, NEW p \in Slots, Publishes(p), ~stale'
  PROVE  /\ db'.usage = OtherBytes + Bytes(db') /\ Bytes(db') = Bytes(db) + txn[p].delta
         /\ txn[p].delta > 0 /\ Capacity # None => OtherBytes + Bytes(db') <= Capacity
<1>1. /\ ~stale /\ ~Outdated(p) /\ pc[p] = "commit" /\ db' = View(p)
      /\ TxnOk(p) /\ Typed(txn[p])
  BY Own DEF Publishes
<1>2. db.usage = OtherBytes + Bytes(db)
  BY <1>1 DEF IInv, UsageExactUnlessStale, UsageIsExact, Stored
<1>3. Bytes(View(p)) = Bytes(db) + txn[p].delta
  BY <1>1, DeltaIsChange
<1>4. Bytes(db) \in Nat /\ Bytes(View(p)) \in Nat /\ OtherBytes \in Nat /\ txn[p].delta \in Int
  BY <1>1, SizesAreNat, ViewSizes, ConstantsAssumption DEF Typed
<1>5. CASE "usage" \in Pending(p)
  <2>1. View(p).usage = AtLeastZero(db.usage + txn[p].delta)
    BY <1>1, <1>5, Seen DEF TxnOk, Booked
  <2>2. Capacity # None /\ txn[p].delta > 0 => db.usage + txn[p].delta <= Capacity
    BY <1>1, <1>5 DEF TxnOk, Booked
  <2> QED BY <1>1, <1>2, <1>3, <1>4, <2>1, <2>2 DEF AtLeastZero
<1>6. CASE "usage" \notin Pending(p)
  <2>1. View(p).usage = db.usage /\ txn[p].delta = 0
    BY <1>1, <1>6, Seen DEF TxnOk, Booked, Counted
  <2> QED BY <1>1, <1>2, <1>3, <1>4, <2>1
<1> QED BY <1>5, <1>6

LEMMA CommitNoOrphan ==
  ASSUME IInv, NEW p \in Slots, Publishes(p)
  PROVE  NoOrphanChunk'
<1> SUFFICES ASSUME ~stale', db'.chunk # None PROVE Live(db'.row)
  BY DEF NoOrphanChunk, ChunkHasParent, Live
<1>1. ~stale /\ ~Outdated(p) /\ pc[p] = "commit" /\ db' = View(p) /\ req[p].op \in Operations
  BY Own DEF Publishes
<1>2. db.chunk # None => Live(db.row)
  BY <1>1 DEF IInv, NoOrphanChunk, ChunkHasParent
<1>3. CASE req[p].op \in {"put", "putMeta"}
  BY <1>1, <1>3, PutLands, PutMetaLands
<1>4. CASE req[p].op = "putChunk"
  BY <1>1, <1>4, PutChunkLands
<1>5. CASE req[p].op \in {"delete", "deleteChunk"}
  BY <1>1, <1>5, DeleteLands, DeleteChunkLands
<1>6. CASE req[p].op = "deleteCollection"
  BY <1>1, <1>2, <1>6, DropLands
<1>7. CASE req[p].op = "import"
  <2>1. "chunk" \in Pending(p) => Live(View(p).row)
    BY <1>1, <1>7 DEF Outdated, Pending
  <2> QED BY <1>1, <1>2, <1>7, <2>1, ImportLands DEF Live
<1> QED BY <1>1, <1>3, <1>4, <1>5, <1>6, <1>7 DEF Operations, Bulk

LEMMA ReportedIs ==
  ASSUME IInv, NEW p \in Slots, pc[p] = "commit"
  PROVE  /\ Reported(p) \in Nat
         /\ req[p].op = "put" => Reported(p) = View(p).row.version
<1>1. req[p].op = "put" => Reported(p) = View(p).row.version /\ View(p).row \in Row
  BY PutLands DEF Reported, Writes, Target
<1>2. req[p].op = "putChunk" => Reported(p) = View(p).chunk.version /\ View(p).chunk \in Chunk
  BY PutChunkLands DEF Reported, Writes, Target
<1>3. req[p].op = "putMeta" => Reported(p) = View(p).row.metaVersion /\ View(p).row \in Row
  BY PutMetaLands DEF Reported, Writes
<1>4. req[p].op \notin {"put", "putChunk", "putMeta"} => Reported(p) = 0
  BY DEF Reported, Writes
<1>5. /\ View(p).row \in Row => View(p).row.version \in Nat /\ View(p).row.metaVersion \in Nat
      /\ View(p).chunk \in Chunk => View(p).chunk.version \in Nat
  BY DEF Row, Chunk
<1>6. Reported(p) \in Nat
  <2>1. CASE req[p].op = "put"
    BY <1>1, <1>5, <2>1
  <2>2. CASE req[p].op = "putChunk"
    BY <1>2, <1>5, <2>2
  <2>3. CASE req[p].op = "putMeta"
    BY <1>3, <1>5, <2>3
  <2>4. CASE req[p].op \notin {"put", "putChunk", "putMeta"}
    BY <1>4, <2>4
  <2> QED BY <2>1, <2>2, <2>3, <2>4
<1> QED BY <1>1, <1>6

Commits(p) == CommitAnswered(p) \/ CommitLost(p)

LEMMA CommitIs ==
  ASSUME IInv, NEW p \in Slots, Commits(p)
  PROVE  /\ Publishes(p)
         /\ pc'[p] = "idle" /\ req'[p] = None /\ txn'[p] = NoTxn /\ DOMAIN txn' = Slots
         /\ Exclusion' /\ stale' \in BOOLEAN
         /\ \E status : \E version \in Nat : End(p, status, version)
         /\ answer' = [status |-> "ok", version |-> Reported(p)] \/ answer'.status = "error"
<1>1. PICK status \in {"ok", "error"} : Commit(p, status)
  BY DEF Commits, CommitAnswered, CommitLost
<1>2. PICK version \in Nat : End(p, status, version) /\ version = (IF status = "ok" THEN Reported(p) ELSE 0)
  BY <1>1, ReportedIs DEF Commit, At
<1>3. /\ pc'[p] = "idle" /\ req'[p] = None /\ txn'[p] = NoTxn /\ DOMAIN txn' = Slots
      /\ \A q \in Slots \ {p} : Kept(q)
      /\ Exclusion'
  BY <1>2, EndOwn DEF IInv, TxnInv
<1>4. stale' = (stale \/ Outdated(p)) /\ db' = View(p) /\ pc[p] = "commit"
  BY <1>1 DEF Commit, At
<1>5. answer' = [status |-> status, version |-> version]
  BY <1>2 DEF End
<1>6. stale' \in BOOLEAN
  BY <1>4 DEF IInv, TypeOK
<1>7. ~stale' => ~stale /\ ~Outdated(p)
  BY <1>4
<1>8. answer' = [status |-> "ok", version |-> Reported(p)] \/ answer'.status = "error"
  BY <1>2, <1>5
<1> HIDE DEF Outdated, View
<1> QED BY <1>2, <1>3, <1>4, <1>6, <1>7, <1>8 DEF Publishes

LEMMA CommitInv ==
  ASSUME IInv, NEW p \in Slots, Commits(p)
  PROVE  IInv'
<1>1. /\ Publishes(p)
      /\ pc'[p] = "idle" /\ req'[p] = None /\ txn'[p] = NoTxn /\ DOMAIN txn' = Slots
      /\ Exclusion' /\ stale' \in BOOLEAN
  BY CommitIs
<1>2. Good(p)
  <2>1. Pending(p)' = {} /\ Typed(txn[p])'
    BY <1>1 DEF Pending, NoTxn, Typed
  <2> QED BY <1>1, <2>1 DEF Good, TxnOk, WriteLocked, Shape, Booked, Counted, NoTxn
<1>3. \A q \in Slots : Good(q)
  <2> SUFFICES ASSUME NEW q \in Slots, q # p PROVE Good(q)
    BY <1>2
  <2>1. Kept(q) /\ Typed(txn[q])
    BY <1>1, TxnTyped DEF IInv, Publishes
  <2> QED BY <1>1, <2>1, OthersOk DEF Good, Kept
<1>4. EndTypes'
  BY CommitIs, EndFrame
<1>5. db' \in Database
  BY <1>1, ViewSizes DEF Publishes
<1>6. Frame' /\ pc' = [q \in Slots |-> pc'[q]]
  BY <1>1, <1>4, <1>5 DEF Frame, EndTypes, LockTypes
<1>7. UsageExactUnlessStale'
  BY <1>1, CommitExact DEF UsageExactUnlessStale, UsageIsExact, Stored
<1>8. NoOrphanChunk'
  BY <1>1, CommitNoOrphan
<1> QED BY <1>1, <1>3, <1>6, <1>7, <1>8, InvFrom

----------------------------------------------------------------------------
(* The theorems.                                                           *)

LEMMA InitInv == Init => IInv
<1> SUFFICES ASSUME Init PROVE IInv
  OBVIOUS
<1>1. db \in Database
  BY ConstantsAssumption DEF Init, Database
<1>2. \A p \in Slots : /\ txn[p] = NoTxn /\ pc[p] = "idle" /\ req[p] = None /\ Pending(p) = {}
                       /\ Typed(txn[p])
  <2>1. \A p \in Slots : txn[p] = NoTxn /\ pc[p] = "idle" /\ req[p] = None
    BY DEF Init
  <2>2. DOMAIN NoTxn = {"pending", "prior", "delta"} /\ DOMAIN NoTxn.pending = {}
    BY DEF NoTxn
  <2>3. NoTxn.prior = None /\ NoTxn.delta = 0
    BY DEF NoTxn
  <2>4. Typed(NoTxn)
    BY <2>2, <2>3 DEF Typed
  <2> QED BY <2>1, <2>2, <2>4 DEF Pending
<1>3. \A p \in Slots : View(p) \in Database
  BY <1>1, <1>2, Replaced DEF View
<1>4. TypeOK
  <2>1. locks \in [Lockables -> [{"shared", "exclusive"} -> SUBSET Slots]]
    BY DEF Init
  <2>2. pc \in [Slots -> Labels] /\ req \in [Slots -> Request \cup {None}] /\ number \in [Slots -> Nat]
    BY DEF Init, Labels
  <2>3. \A p \in Slots : /\ DOMAIN txn[p] = {"pending", "prior", "delta"}
                         /\ txn[p].prior \in Row \cup Chunk \cup {None} /\ txn[p].delta \in Int
    BY <1>2 DEF Typed
  <2>4. answer = None /\ issued \in 0..MaxRequests
    BY ConstantsAssumption DEF Init
  <2>5. stale \in BOOLEAN
    BY DEF Init
  <2> QED BY <1>1, <1>3, <2>1, <2>2, <2>3, <2>4, <2>5 DEF TypeOK
<1>5. TxnInv
  <2>1. DOMAIN txn = Slots /\ Exclusion
    BY DEF Init, Exclusion, Holds, Shares
  <2> QED BY <1>2, <2>1 DEF TxnInv, TxnOk, WriteLocked, Shape, Booked, Counted, NoTxn
<1>6. UsageExactUnlessStale /\ NoOrphanChunk
  BY ConstantsAssumption DEF Init, UsageExactUnlessStale, UsageIsExact, Stored, Bytes, SizeOf, NoOrphanChunk, ChunkHasParent
<1> QED BY <1>4, <1>5, <1>6 DEF IInv

\* The steps of a behaviour, by what they do to the database.
LEMMA Steps ==
  ASSUME [Next]_vars
  PROVE  \/ UNCHANGED vars
         \/ \E p \in Slots : Statement(p) \/ Ends(p) \/ Arrive(p)
         \/ \E p \in Slots : Commits(p)
BY DEF Next, Finished, Step, DeadlockVictim, Rollback, Ends, Commits

LEMMA StepInv == IInv /\ [Next]_vars => IInv'
<1> SUFFICES ASSUME IInv, [Next]_vars PROVE IInv'
  OBVIOUS
<1>1. CASE UNCHANGED vars
  <2>1. UNCHANGED <<db, locks, pc, req, number, txn, answer, issued, stale>>
    BY <1>1 DEF vars
  <2>2. \A q \in Slots : Kept(q)
    BY <2>1 DEF Kept
  <2>3. \A q \in Slots : TxnOk(q)'
    BY <2>1, <2>2, KeptOk DEF IInv, TxnInv
  <2>4. Exclusion' /\ DOMAIN txn' = Slots
    BY <2>1 DEF IInv, TxnInv, Exclusion, Holds, Shares
  <2>5. TypeOK'
    BY <2>1 DEF IInv, TypeOK, View
  <2>6. UsageExactUnlessStale' /\ NoOrphanChunk'
    BY <2>1 DEF IInv, UsageExactUnlessStale, UsageIsExact, Stored, NoOrphanChunk, ChunkHasParent
  <2> QED BY <2>3, <2>4, <2>5, <2>6 DEF IInv, TxnInv
<1>2. CASE \E p \in Slots : Statement(p) \/ Ends(p) \/ Arrive(p)
  BY <1>2, NoCommit
<1>3. CASE \E p \in Slots : Commits(p)
  BY <1>3, CommitInv
<1> QED BY <1>1, <1>2, <1>3, Steps

\* The invariant that the theorems rest on holds of every behaviour, with faults at any
\* step and any number of transactions.
THEOREM InvariantHolds == Spec => []IInv
BY InitInv, StepInv, PTL DEF Spec

\* The committed state and what every transaction is about to commit have the shapes of
\* their tables.
THEOREM TypeCorrect == Spec => []TypeOK
BY InvariantHolds, PTL DEF IInv

\* usage_bytes is what the Space's rows hold, under any interleaving of any number of
\* transactions, rollbacks and lost connections, unless a bulk operation outran its reading.
THEOREM UsageStaysExact == Spec => []UsageExactUnlessStale
BY InvariantHolds, PTL DEF IInv

\* No delete leaves a chunk without its Resource, and no chunk is written under a deleted one.
THEOREM ChunksHaveParents == Spec => []NoOrphanChunk
BY InvariantHolds, PTL DEF IInv

\* A Space that starts within its capacity stays within it: no two writers use the same room.
THEOREM CapacityHolds ==
  ASSUME Capacity # None => OtherBytes + SiblingBytes <= Capacity
  PROVE  Spec => []CapacityIsHard
<1>1. Init => CapacityIsHard
  BY ConstantsAssumption DEF Init, CapacityIsHard, CapacityNeverExceeded, Stored, Bytes, SizeOf
<1>2. IInv /\ CapacityIsHard /\ [Next]_vars => CapacityIsHard'
  <2> SUFFICES ASSUME IInv, CapacityIsHard, [Next]_vars, ~stale', Capacity # None
               PROVE  OtherBytes + Bytes(db') <= Capacity
    BY DEF CapacityIsHard, CapacityNeverExceeded, Stored, Bytes, SizeOf
  <2>1. CASE db' = db /\ stale' = stale
    BY <2>1 DEF CapacityIsHard, CapacityNeverExceeded, Stored
  <2>2. ASSUME NEW p \in Slots, Commits(p)
        PROVE  OtherBytes + Bytes(db') <= Capacity
    <3>1. Publishes(p) /\ ~stale
      BY <2>2, CommitIs DEF Publishes
    <3>2. /\ Bytes(db') = Bytes(db) + txn[p].delta
          /\ txn[p].delta > 0 => OtherBytes + Bytes(db') <= Capacity
      BY <3>1, CommitExact
    <3>3. OtherBytes + Bytes(db) <= Capacity
      BY <3>1 DEF CapacityIsHard, CapacityNeverExceeded, Stored
    <3>4. Bytes(db) \in Nat /\ OtherBytes \in Nat /\ Capacity \in Nat /\ txn[p].delta \in Int
      BY <3>1, SizesAreNat, ConstantsAssumption, Own DEF Publishes, Typed
    <3> QED BY <3>2, <3>3, <3>4
  <2> QED BY <2>1, <2>2, Steps, NoCommitKeeps DEF vars
<1> QED BY <1>1, <1>2, InvariantHolds, PTL DEF Spec

\* What a transaction about to commit has checked is true of the row it will replace.
Decided(p) ==
  \/ req[p].op \in Bulk
  \/ req[p].op = "putMeta" /\ ~MetaPreconditionFails(req[p], db.row.metaVersion)
  \/ /\ req[p].op # "putMeta"
     /\ ~PreconditionFails(req[p].ifMatch, req[p].op \in Writes /\ req[p].ifNoneMatch,
                           Live(db[Target(p)]), VersionOf(db[Target(p)]))

LEMMA WriteDecided ==
  ASSUME IInv, NEW p \in Slots, pc[p] = "commit", NEW f \in {"row", "chunk"}, NEW key, WriteOk(p, f, key)
  PROVE  ~PreconditionFails(req[p].ifMatch, req[p].ifNoneMatch, Live(db[f]), VersionOf(db[f]))
<1>1. /\ ~PreconditionFails(req[p].ifMatch, req[p].ifNoneMatch, Live(txn[p].prior), VersionOf(txn[p].prior))
      /\ txn[p].prior # None => db[f] = txn[p].prior
      /\ txn[p].prior = None /\ req[p].ifNoneMatch => db[f] = None
  BY DEF WriteOk
<1>2. CASE txn[p].prior # None
  BY <1>1, <1>2
<1>3. CASE txn[p].prior = None /\ req[p].ifNoneMatch
  BY <1>1, <1>3
<1>4. CASE txn[p].prior = None /\ ~req[p].ifNoneMatch
  BY <1>1, <1>4 DEF PreconditionFails, Live
<1> QED BY <1>2, <1>3, <1>4

LEMMA CommitDecided ==
  ASSUME IInv, NEW p \in Slots, pc[p] = "commit"
  PROVE  Decided(p)
<1>1. OpOk(p) /\ req[p].op \in Operations
  BY Own
<1>2. CASE req[p].op = "put"
  <2>1. Target(p) = "row" /\ WriteOk(p, "row", "createRow")
    BY <1>1, <1>2 DEF OpOk, PutOk, Target
  <2> QED BY <1>2, <2>1, WriteDecided DEF Decided, Writes, PreconditionFails
<1>3. CASE req[p].op = "putChunk"
  <2>1. Target(p) = "chunk" /\ WriteOk(p, "chunk", "createChunk")
    BY <1>1, <1>3 DEF OpOk, PutChunkOk, Target
  <2> QED BY <1>3, <2>1, WriteDecided DEF Decided, Writes, PreconditionFails
<1>4. CASE req[p].op = "putMeta"
  BY <1>1, <1>4 DEF OpOk, PutMetaOk, Decided
<1>5. CASE req[p].op = "delete"
  BY <1>1, <1>5 DEF OpOk, DeleteOk, Decided, Target, Writes, PreconditionFails, Live, VersionOf
<1>6. CASE req[p].op = "deleteChunk"
  <2>1. db.chunk # None /\ db.chunk \in Chunk \cup {None} /\ Target(p) = "chunk"
        /\ ~PreconditionFails(req[p].ifMatch, FALSE, TRUE, db.chunk.version)
    BY <1>1, <1>6 DEF OpOk, DeleteChunkOk, IInv, TypeOK, Database, Target
  <2>2. Live(db.chunk)
    BY <2>1 DEF Live, Chunk
  <2> QED BY <1>6, <2>1, <2>2 DEF Decided, Writes, PreconditionFails, VersionOf
<1> QED BY <1>1, <1>2, <1>3, <1>4, <1>5, <1>6 DEF Operations, Decided

\* If-Match and If-None-Match are true of the row that the COMMIT replaces.
THEOREM PreconditionsHold == Spec => PreconditionHoldsAtCommit
<1>1. IInv /\ [Next]_vars =>
        [\A p \in Slots : pc[p] = "commit" /\ db' # db =>
           \/ pc'[p] = "commit" \/ req[p].op \in Bulk
           \/ req[p].op = "putMeta" /\ ~MetaPreconditionFails(req[p], db.row.metaVersion)
           \/ /\ req[p].op # "putMeta"
              /\ ~PreconditionFails(req[p].ifMatch, req[p].op \in Writes /\ req[p].ifNoneMatch,
                                    Live(db[Target(p)]), VersionOf(db[Target(p)]))]_vars
  BY CommitDecided DEF Decided
<1> QED BY <1>1, InvariantHolds, PTL DEF Spec, PreconditionHoldsAtCommit

LEMMA NoStatementAtCommit ==
  ASSUME NEW p \in Slots, Statement(p)
  PROVE  pc[p] # "commit"
<1>1. CASE EnsureCollection(p) \/ LockUniqueness(p) \/ ApplyUsageDelta(p) \/ CheckCollection(p) \/ LockParent(p)
  BY <1>1 DEF EnsureCollection, LockUniqueness, ApplyUsageDelta, CheckCollection, LockParent, At
<1>2. CASE LockForWrite(p) \/ LockSameKeyCreate(p) \/ RelockForWrite(p) \/ Insert(p) \/ Upsert(p)
  BY <1>2 DEF LockForWrite, LockSameKeyCreate, RelockForWrite, Insert, Upsert, At
<1>3. CASE WriteMetadata(p) \/ LockForDelete(p) \/ DropChunks(p) \/ WriteTombstone(p) \/ DeleteChunk(p)
  BY <1>3 DEF WriteMetadata, LockForDelete, DropChunks, WriteTombstone, DeleteChunk, At
<1>4. CASE SumCollection(p) \/ DropCollection(p) \/ Cascade(p)
  BY <1>4 DEF SumCollection, DropCollection, Cascade, At
<1>5. CASE \/ LockSpace(p) \/ ReadIds(p) \/ RestoreResource(p)
           \/ ProbeParent(p) \/ RestoreChunk(p) \/ CheckParent(p)
  BY <1>5 DEF LockSpace, ReadIds, RestoreResource, ProbeParent, RestoreChunk, CheckParent, At
<1> QED BY <1>1, <1>2, <1>3, <1>4, <1>5 DEF Statement

\* The version a PUT is answered with is that of its own content, as committed.
THEOREM AnswersAreTrue == Spec => AnsweredVersionLanded
<1>1. ASSUME IInv, [Next]_vars, NEW p \in Slots,
             pc[p] = "commit", pc'[p] = "idle", answer'.status = "ok", req[p].op = "put"
      PROVE  db'.row.write = number[p] /\ db'.row.version = answer'.version
  <2>1. CASE UNCHANGED vars
    BY <1>1, <2>1 DEF vars
  <2>2. ASSUME NEW q \in Slots, Statement(q) \/ Arrive(q)
        PROVE  FALSE
    <3>1. q = p
      BY <1>1, <2>2, NoCommitKeeps DEF Kept
    <3> QED BY <1>1, <2>2, <3>1, NoStatementAtCommit DEF Arrive
  <2>3. ASSUME NEW q \in Slots, Quit(q, "error")
        PROVE  FALSE
    BY <1>1, <2>3 DEF Quit, End
  <2>4. ASSUME NEW q \in Slots, Commits(q)
        PROVE  db'.row.write = number[p] /\ db'.row.version = answer'.version
    <3>1. q = p
      BY <1>1, <2>4, CommitIs DEF Publishes, Kept
    <3>2. db' = View(p) /\ answer'.version = Reported(p)
      BY <1>1, <2>4, <3>1, CommitIs DEF Publishes
    <3> QED BY <1>1, <3>2, PutLands, ReportedIs
  <2> QED BY <1>1, <2>1, <2>2, <2>3, <2>4 DEF Next, Finished, Step, DeadlockVictim, Rollback, Commits
<1>2. IInv /\ [Next]_vars =>
        [\A p \in Slots :
           pc[p] = "commit" /\ pc'[p] = "idle" /\ answer'.status = "ok" /\ req[p].op = "put"
             => db'.row.write = number[p] /\ db'.row.version = answer'.version]_vars
  BY <1>1
<1> QED BY <1>2, InvariantHolds, PTL DEF Spec, AnsweredVersionLanded

----------------------------------------------------------------------------
(* The refinement of ResourceContract.                                     *)

LEMMA SameFields ==
  ASSUME NEW a \in RowContract!Resource, NEW b \in RowContract!Resource,
         a.live = b.live, a.version = b.version, a.metaVersion = b.metaVersion,
         a.custom = b.custom, a.createdBy = b.createdBy, a.stamped = b.stamped
  PROVE  a = b
BY DEF RowContract!Resource

LEMMA ResourceTyped ==
  ASSUME NEW s \in Row \cup {None}
  PROVE  ResourceOf(s) \in RowContract!Resource
<1>1. /\ VersionOf(s) \in Nat /\ (s # None => s.metaVersion \in Nat)
      /\ s # None => s.custom \in Customs \cup {None} /\ s.createdBy \in Agents \cup {None}
  BY DEF VersionOf, Row
<1>2. \A a, b \in BOOLEAN, c, d \in Nat, e \in Customs \cup {None}, f \in Agents \cup {None} :
        [live |-> a, version |-> c, metaVersion |-> d, custom |-> e, createdBy |-> f, stamped |-> b]
          \in RowContract!Resource
  BY DEF RowContract!Resource
<1>3. Live(s) \in BOOLEAN /\ (s # None /\ s.stamp) \in BOOLEAN
  BY DEF Live, Row
<1>4. /\ (IF s = None THEN 0 ELSE s.metaVersion) \in Nat
      /\ (IF s = None THEN None ELSE s.custom) \in Customs \cup {None}
      /\ (IF s = None THEN None ELSE s.createdBy) \in Agents \cup {None}
  BY <1>1
<1> QED BY <1>1, <1>2, <1>3, <1>4 DEF ResourceOf

\* What the three kinds of COMMIT do to the abstract Resource.
PutOn(resource, agent, stamp) ==
  [resource EXCEPT !.live = TRUE, !.version = @ + 1,
                   !.createdBy = IF resource.version = 0 THEN agent ELSE @, !.stamped = stamp]

MetaOn(resource, custom, stamp) ==
  [resource EXCEPT !.metaVersion = @ + 1, !.custom = custom, !.stamped = @ \/ stamp]

PutFields(new, old, agent, stamp) ==
  /\ new \in RowContract!Resource /\ new.live
  /\ new.version = old.version + 1 /\ new.metaVersion = old.metaVersion /\ new.custom = old.custom
  /\ new.createdBy = IF old.version = 0 THEN agent ELSE old.createdBy
  /\ new.stamped <=> stamp

LEMMA PutOnIs ==
  ASSUME NEW old \in RowContract!Resource, NEW agent \in Agents \cup {None}, NEW stamp \in BOOLEAN
  PROVE  PutFields(PutOn(old, agent, stamp), old, agent, stamp)
<1>1. PICK creator \in Agents \cup {None} : creator = IF old.version = 0 THEN agent ELSE old.createdBy
  BY DEF RowContract!Resource
<1> DEFINE put == [old EXCEPT !.live = TRUE, !.version = @ + 1, !.createdBy = creator, !.stamped = stamp]
<1>2. PutOn(old, agent, stamp) = put
  BY <1>1 DEF PutOn
<1>3. /\ put.live = TRUE /\ put.version = old.version + 1 /\ put.metaVersion = old.metaVersion
      /\ put.custom = old.custom /\ put.createdBy = creator /\ put.stamped = stamp
  BY DEF RowContract!Resource
<1>4. put \in RowContract!Resource
  <2>1. old.version + 1 \in Nat
    BY DEF RowContract!Resource
  <2>2. [old EXCEPT !.live = TRUE] \in RowContract!Resource
    BY DEF RowContract!Resource
  <2>3. [[old EXCEPT !.live = TRUE] EXCEPT !.version = old.version + 1] \in RowContract!Resource
    BY <2>1, <2>2 DEF RowContract!Resource
  <2> QED BY <2>1, <2>3 DEF RowContract!Resource
<1> HIDE DEF put
<1>5. PutFields(put, old, agent, stamp)
  BY <1>1, <1>3, <1>4 DEF PutFields
<1> QED BY <1>2, <1>5

LEMMA FreshAbstracts ==
  ASSUME NEW r \in Request, NEW n \in Nat, NEW stamp \in BOOLEAN, stamp = r.stamp,
         FreshRow(r, n) \in Row
  PROVE  ResourceOf(FreshRow(r, n)) = PutOn(ResourceOf(None), r.agent, stamp)
<1> DEFINE new == FreshRow(r, n)
           old == ResourceOf(None)
           put == PutOn(old, r.agent, stamp)
<1>1. /\ new # None /\ stamp \in BOOLEAN /\ r.agent \in Agents \cup {None}
      /\ old \in RowContract!Resource /\ ResourceOf(new) \in RowContract!Resource
  BY ConstantsAssumption, ResourceTyped DEF Request
<1>2. /\ new.version = 1 /\ new.metaVersion = 0 /\ new.custom = None /\ new.createdBy = r.agent
      /\ new.live = TRUE
  BY DEF FreshRow
<1>3. new.stamp = stamp
  BY DEF FreshRow
<1>4. old.version = 0 /\ old.metaVersion = 0 /\ old.custom = None /\ old.createdBy = None
  BY DEF ResourceOf, VersionOf
<1>5. /\ ResourceOf(new).live /\ ResourceOf(new).version = 1
      /\ ResourceOf(new).metaVersion = 0 /\ ResourceOf(new).custom = None
      /\ ResourceOf(new).createdBy = r.agent
      /\ ResourceOf(new).stamped <=> stamp
  <2> HIDE DEF new
  <2> QED BY <1>1, <1>2, <1>3 DEF ResourceOf, VersionOf, Live
<1> HIDE DEF old
<1>6. PutFields(put, old, r.agent, stamp)
  BY <1>1, PutOnIs
<1>7. ResourceOf(new) = put
  <2> HIDE DEF put, new
  <2> QED BY <1>1, <1>4, <1>5, <1>6, SameFields DEF PutFields, RowContract!Resource
<1> QED BY <1>7 DEF old

LEMMA UpsertAbstracts ==
  ASSUME NEW s \in Row, NEW r \in Request, NEW n \in Nat, NEW stamp \in BOOLEAN, stamp = r.stamp,
         UpsertedRow(s, r, n) \in Row
  PROVE  ResourceOf(UpsertedRow(s, r, n)) = PutOn(ResourceOf(s), s.createdBy, stamp)
<1> DEFINE new == UpsertedRow(s, r, n)
           old == ResourceOf(s)
           put == PutOn(old, s.createdBy, stamp)
<1>1. /\ new # None /\ s # None /\ stamp \in BOOLEAN /\ s.createdBy \in Agents \cup {None}
      /\ old \in RowContract!Resource /\ ResourceOf(new) \in RowContract!Resource
  BY ConstantsAssumption, ResourceTyped DEF Request, Row
<1>2. /\ new.version = s.version + 1 /\ new.metaVersion = s.metaVersion /\ new.custom = s.custom
      /\ new.createdBy = s.createdBy /\ new.live = TRUE
  BY DEF UpsertedRow, Row
<1>3. new.stamp = stamp
  BY DEF UpsertedRow, Row
<1>4. /\ old.version = s.version /\ old.metaVersion = s.metaVersion /\ old.custom = s.custom
      /\ old.createdBy = s.createdBy
  BY <1>1 DEF ResourceOf, VersionOf
<1>5. /\ ResourceOf(new).live /\ ResourceOf(new).version = old.version + 1
      /\ ResourceOf(new).metaVersion = old.metaVersion /\ ResourceOf(new).custom = old.custom
      /\ ResourceOf(new).createdBy = s.createdBy
      /\ ResourceOf(new).stamped <=> stamp
  <2> HIDE DEF new, old
  <2> QED BY <1>1, <1>2, <1>3, <1>4 DEF ResourceOf, VersionOf, Live
<1> HIDE DEF old
<1>6. PutFields(put, old, s.createdBy, stamp)
  BY <1>1, PutOnIs
<1>7. ResourceOf(new) = put
  <2> HIDE DEF put, new
  <2> QED BY <1>1, <1>4, <1>5, <1>6, SameFields DEF PutFields, RowContract!Resource
<1> QED BY <1>7 DEF old

LEMMA MetaAbstracts ==
  ASSUME NEW s \in Row, NEW r \in Request, Live(s), MetadataRow(s, r) \in Row
  PROVE  /\ ResourceOf(s).live
         /\ ResourceOf(MetadataRow(s, r)) = MetaOn(ResourceOf(s), r.custom, r.stamp)
<1> DEFINE new == MetadataRow(s, r)
           old == ResourceOf(s)
           meta == [old EXCEPT !.metaVersion = @ + 1, !.custom = r.custom, !.stamped = @ \/ r.stamp]
<1>1. /\ new # None /\ s # None /\ r.stamp \in BOOLEAN /\ r.custom \in Customs \cup {None}
      /\ old \in RowContract!Resource /\ ResourceOf(new) \in RowContract!Resource
  BY ConstantsAssumption, ResourceTyped DEF Request
<1>2. /\ new.version = s.version /\ new.metaVersion = s.metaVersion + 1
      /\ new.custom = r.custom /\ new.createdBy = s.createdBy
  BY DEF MetadataRow, Row
<1>3. new.live <=> s.live
  BY DEF MetadataRow, Row
<1>4. new.stamp <=> s.stamp \/ r.stamp
  BY DEF MetadataRow, Row
<1>5. /\ old.live /\ (old.stamped <=> s.stamp)
      /\ ResourceOf(new).live /\ ResourceOf(new).version = old.version
      /\ ResourceOf(new).metaVersion = old.metaVersion + 1 /\ ResourceOf(new).custom = r.custom
      /\ ResourceOf(new).createdBy = old.createdBy
      /\ ResourceOf(new).stamped <=> (s.stamp \/ r.stamp)
  <2> HIDE DEF new
  <2> QED BY <1>1, <1>2, <1>3, <1>4 DEF ResourceOf, VersionOf, Live
<1> HIDE DEF old
<1>6. /\ meta.live = old.live /\ meta.version = old.version /\ meta.metaVersion = old.metaVersion + 1
      /\ meta.custom = r.custom /\ meta.createdBy = old.createdBy /\ (meta.stamped <=> (old.stamped \/ r.stamp))
  BY <1>1 DEF RowContract!Resource
<1>7. meta \in RowContract!Resource
  <2>1. old.metaVersion + 1 \in Nat /\ (old.stamped \/ r.stamp) \in BOOLEAN
    BY <1>1 DEF RowContract!Resource
  <2> QED BY <1>1, <2>1 DEF RowContract!Resource
<1>8. ResourceOf(new) = meta
  <2> HIDE DEF meta, new
  <2>1. ResourceOf(new).live = meta.live /\ ResourceOf(new).stamped = meta.stamped
    BY <1>1, <1>5, <1>6, <1>7 DEF RowContract!Resource
  <2>2. /\ ResourceOf(new).version = meta.version /\ ResourceOf(new).metaVersion = meta.metaVersion
        /\ ResourceOf(new).custom = meta.custom /\ ResourceOf(new).createdBy = meta.createdBy
    BY <1>5, <1>6
  <2> QED BY <1>1, <1>7, <2>1, <2>2, SameFields
<1> QED BY <1>5, <1>8 DEF old, MetaOn

LEMMA DeleteAbstracts ==
  ASSUME NEW s \in Row, Live(s), TombstoneRow(s) \in Row
  PROVE  /\ ResourceOf(s).live
         /\ ResourceOf(TombstoneRow(s)) =
              [ResourceOf(s) EXCEPT !.live = FALSE, !.version = @ + 1, !.metaVersion = 0,
                                    !.custom = None, !.stamped = FALSE]
<1> DEFINE new == TombstoneRow(s)
           old == ResourceOf(s)
           gone == [old EXCEPT !.live = FALSE, !.version = @ + 1, !.metaVersion = 0, !.custom = None,
                               !.stamped = FALSE]
<1>1. /\ new # None /\ s # None
      /\ old \in RowContract!Resource /\ ResourceOf(new) \in RowContract!Resource
  BY ConstantsAssumption, ResourceTyped
<1>2. /\ new.version = s.version + 1 /\ new.metaVersion = 0 /\ new.custom = None
      /\ new.createdBy = s.createdBy
  BY DEF TombstoneRow, Row
<1>3. ~new.live /\ ~new.stamp
  BY DEF TombstoneRow, Row
<1>4. /\ old.live /\ ~ResourceOf(new).live /\ ResourceOf(new).version = old.version + 1
      /\ ResourceOf(new).metaVersion = 0 /\ ResourceOf(new).custom = None
      /\ ResourceOf(new).createdBy = old.createdBy /\ ~ResourceOf(new).stamped
  <2> HIDE DEF new
  <2> QED BY <1>1, <1>2, <1>3 DEF ResourceOf, VersionOf, Live
<1> HIDE DEF old
<1>5. /\ ~gone.live /\ gone.version = old.version + 1 /\ gone.metaVersion = 0 /\ gone.custom = None
      /\ gone.createdBy = old.createdBy /\ ~gone.stamped
  BY <1>1 DEF RowContract!Resource
<1>6. gone \in RowContract!Resource
  <2>1. old.version + 1 \in Nat
    BY <1>1 DEF RowContract!Resource
  <2> QED BY <1>1, <2>1 DEF RowContract!Resource
<1>7. ResourceOf(new) = gone
  <2> HIDE DEF gone, new
  <2> QED BY <1>1, <1>4, <1>5, <1>6, SameFields DEF RowContract!Resource
<1> QED BY <1>4, <1>7 DEF old

LEMMA ContractStep ==
  ASSUME IInv, NEW p \in Slots, Commits(p), db'.row # db.row
  PROVE  RowContract!Next \/ BulkCommit(p)
<1>1. /\ Publishes(p) /\ pc[p] = "commit" /\ pc'[p] = "idle" /\ db' = View(p)
      /\ req[p] \in Request /\ req[p] # None /\ req[p].op \in Operations /\ number[p] \in Nat
  BY CommitIs, Own DEF Publishes, IInv, TypeOK
<1>2. /\ req[p].agent \in Agents \cup {None} /\ req[p].stamp \in BOOLEAN
      /\ req[p].custom \in Customs \cup {None}
  BY <1>1 DEF Request
<1>3. CASE req[p].op = "put"
  <2>0. PICK stamp \in BOOLEAN : stamp = req[p].stamp
    BY <1>2
  <2>1. PICK agent \in Agents \cup {None} : ResourceOf(db'.row) = PutOn(ResourceOf(db.row), agent, stamp)
    <3>1. CASE db.row = None
      <4>1. db'.row = FreshRow(req[p], number[p]) /\ db'.row \in Row
        BY <1>1, <1>3, <3>1, PutLands
      <4> QED BY <1>1, <1>2, <2>0, <3>1, <4>1, FreshAbstracts
    <3>2. CASE db.row # None
      <4>1. /\ db'.row = UpsertedRow(db.row, req[p], number[p]) /\ db'.row \in Row
            /\ db.row \in Row
        BY <1>1, <1>3, <3>2, PutLands DEF IInv, TypeOK, Database
      <4>2. db.row.createdBy \in Agents \cup {None}
        BY <4>1 DEF Row
      <4> QED BY <1>1, <2>0, <4>1, <4>2, UpsertAbstracts
    <3> QED BY <3>1, <3>2
  <2>2. ResourceOf(db.row)' = PutOn(ResourceOf(db.row), agent, stamp)
    BY <2>1
  <2>3. RowContract!Write
    BY <1>2, <2>2 DEF RowContract!Write, PutOn
  <2> QED BY <2>3 DEF RowContract!Next
<1>5. CASE req[p].op = "putMeta"
  <2>1. /\ db'.row = MetadataRow(db.row, req[p]) /\ db'.row \in Row
        /\ db.row \in Row /\ Live(db.row)
    BY <1>1, <1>5, PutMetaLands
  <2>2. /\ ResourceOf(db.row).live
        /\ ResourceOf(db'.row) = MetaOn(ResourceOf(db.row), req[p].custom, req[p].stamp)
    BY <1>1, <2>1, MetaAbstracts
  <2>3. ResourceOf(db.row)' = MetaOn(ResourceOf(db.row), req[p].custom, req[p].stamp)
    BY <2>2
  <2>4. RowContract!WriteMetadata
    BY <1>2, <2>2, <2>3 DEF RowContract!WriteMetadata, MetaOn
  <2> QED BY <2>4 DEF RowContract!Next
<1>6. CASE req[p].op = "delete"
  <2>1. /\ db'.row = TombstoneRow(db.row) /\ db'.row \in Row
        /\ db.row \in Row /\ Live(db.row)
    BY <1>1, <1>6, DeleteLands
  <2>2. /\ ResourceOf(db.row).live
        /\ ResourceOf(db'.row) =
             [ResourceOf(db.row) EXCEPT !.live = FALSE, !.version = @ + 1, !.metaVersion = 0,
                                        !.custom = None, !.stamped = FALSE]
    BY <2>1, DeleteAbstracts
  <2>3. ResourceOf(db.row)' =
          [ResourceOf(db.row) EXCEPT !.live = FALSE, !.version = @ + 1, !.metaVersion = 0,
                                     !.custom = None, !.stamped = FALSE]
    BY <2>2
  <2>4. RowContract!Delete
    BY <2>2, <2>3 DEF RowContract!Delete
  <2> QED BY <2>4 DEF RowContract!Next
<1>7. CASE req[p].op \in {"putChunk", "deleteChunk"}
  BY <1>1, <1>7, PutChunkLands, DeleteChunkLands
<1>8. CASE req[p].op \in Bulk
  BY <1>1, <1>8 DEF BulkCommit
<1> QED BY <1>1, <1>3, <1>5, <1>6, <1>7, <1>8 DEF Operations

\* Every COMMIT of a put, a metadata write or a delete is one atomic operation of the
\* contract on what the previous one left, whatever ran beside it and whatever failed.
THEOREM RowsImplementContract == Spec => ImplementsContract
<1>1. Init => RowContract!Init
  <2>1. Live(None) = FALSE /\ (None # None /\ None.stamp) = FALSE /\ VersionOf(None) = 0
    BY DEF Live, VersionOf
  <2>2. ResourceOf(None) = [live |-> FALSE, version |-> 0, metaVersion |-> 0, custom |-> None,
                            createdBy |-> None, stamped |-> FALSE]
    BY <2>1 DEF ResourceOf
  <2> QED BY <2>2 DEF Init, RowContract!Init
<1>2. IInv /\ [Next]_vars => [RowContract!Next \/ \E p \in Slots : BulkCommit(p)]_<<db.row>>
  <2> SUFFICES ASSUME IInv, [Next]_vars, db'.row # db.row
               PROVE  RowContract!Next \/ \E p \in Slots : BulkCommit(p)
    OBVIOUS
  <2>1. PICK p \in Slots : Commits(p)
    BY Steps, NoCommitKeeps DEF vars
  <2> QED BY <2>1, ContractStep
<1> QED BY <1>1, <1>2, InvariantHolds, PTL DEF Spec, ImplementsContract
================================================================================
