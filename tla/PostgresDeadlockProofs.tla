------------------------ MODULE PostgresDeadlockProofs ------------------------
(* The order in which the transactions of PostgresStore take their locks:  *)
(* OnlyBulkDeadlocks, for every value of the constants.                    *)
EXTENDS PostgresStoreProofs

----------------------------------------------------------------------------
(* Where a transaction is, by the locks it holds.                          *)

HasShared(p, o) == p \in locks[o].shared
HoldsNothing(p) == \A o \in Lockables : ~Holds(p, o) /\ ~HasShared(p, o)

DecidedLabels == {"usage", "insert", "upsert", "fkCollection", "commit"}

\* It has replaced, or is about to replace, a row that it found.
Replaces(p) == pc[p] \in DecidedLabels /\ txn[p].prior # None

\* A write, metadata write, delete or chunk request keeps no lock but for a reason.
Where(p) ==
  /\ Holds(p, "collection") => "collection" \in Pending(p)
  /\ Holds(p, "uniqueness") => pc[p] \notin {"ensure", "claim"}
  /\ Holds(p, "row") => \/ "row" \in Pending(p)
                        \/ req[p].op = "delete" /\ pc[p] # "lock"
                        \/ req[p].op = "put" /\ Replaces(p)
  /\ Holds(p, "createRow") => req[p].op = "put" /\ pc[p] \in DecidedLabels \cup {"relock"}
  /\ Holds(p, "createChunk") => req[p].op = "putChunk" /\ pc[p] \in DecidedLabels \cup {"relock"}
  /\ Holds(p, "chunk") => \/ "chunk" \in Pending(p)
                          \/ req[p].op = "putChunk" /\ Replaces(p)
  /\ Holds(p, "space") => "usage" \in Pending(p)
  /\ HasShared(p, "collection") => req[p].op = "put" /\ pc[p] = "commit"
  /\ HasShared(p, "row") => req[p].op = "putChunk" /\ pc[p] # "parent"
  /\ \A o \in Lockables \ {"collection", "row"} : ~HasShared(p, o)

\* Two things the lock of another keeps true: a Collection row that is being inserted is
\* still absent, and a plain INSERT that is in the way of others finds no row.
Awaited(p) ==
  /\ "collection" \in Pending(p) /\ req[p].op = "put" => db.collection = FALSE
  /\ pc[p] = "insert" /\ "usage" \in Pending(p) /\ ~stale => db[Target(p)] = None

Single(p) == req[p] # None /\ req[p].op \notin Bulk

LockInv ==
  \A p \in Slots : /\ pc[p] = "idle" => HoldsNothing(p)
                   /\ Single(p) => Where(p) /\ Awaited(p)

----------------------------------------------------------------------------
(* The order of waiting.                                                   *)

\* How far a transaction has come in the order of locks; from 11 on it waits for none of
\* its kind.  A Resource comes before its chunk, a lock before the right to create.
Rank(p) ==
  LET chunk == Target(p) = "chunk"
  IN  CASE pc[p] = "ensure"     -> 0
        [] pc[p] = "claim"      -> 1
        [] pc[p] = "parent"     -> 2
        [] pc[p] = "lock"       -> IF chunk THEN 6 ELSE 3
        [] pc[p] = "create"     -> IF chunk THEN 7 ELSE 4
        [] pc[p] = "relock"     -> IF chunk THEN 8 ELSE 5
        [] pc[p] = "dropChunks" -> 9
        [] pc[p] = "insert"     -> IF "usage" \in Pending(p) THEN 11 ELSE 9
        [] pc[p] = "usage"      -> 10
        [] OTHER                -> 11

\* Two transactions, neither of them bulk, with nothing outdated.
Pair(p, q) == IInv /\ LockInv /\ ~stale /\ p # q /\ Single(p) /\ Single(q)

LEMMA SingleIs ==
  ASSUME IInv, LockInv, NEW p \in Slots, Single(p)
  PROVE  /\ req[p].op \in {"put", "putMeta", "delete", "putChunk", "deleteChunk"}
         /\ pc[p] # "idle" /\ pc[p] \in LabelsOf(req[p].op)
         /\ OpOk(p) /\ Where(p) /\ Awaited(p) /\ WriteLocked(p) /\ Booked(p)
<1>1. pc[p] # "idle"
  BY DEF IInv, TxnInv, TxnOk, Shape, Single
<1> QED BY <1>1, Own DEF LockInv, Single, TxnOk, Operations

LEMMA Apart ==
  ASSUME IInv, NEW p \in Slots, NEW q \in Slots, p # q
  PROVE  \A o \in Lockables : ~(Holds(p, o) /\ Shares(q, o)) /\ ~(Holds(q, o) /\ Shares(p, o))
BY DEF IInv, TxnInv, Exclusion

LEMMA RankIs ==
  ASSUME NEW p
  PROVE  Rank(p) \in 0..11
BY DEF Rank

\* Who holds a Resource's row has decided about it, or deletes it; a row being created is
\* the only one that can be held while there is none.
LEMMA RowHolder ==
  ASSUME IInv, LockInv, NEW q \in Slots, Single(q), Holds(q, "row")
  PROVE  /\ Rank(q) >= 9
         /\ "row" \in Pending(q) => Rank(q) = 11
         /\ db.row = None => req[q].op = "put" /\ Holds(q, "createRow")
<1>1. /\ req[q].op \in {"put", "putMeta", "delete", "putChunk", "deleteChunk"}
      /\ pc[q] \in LabelsOf(req[q].op) /\ OpOk(q) /\ Where(q)
  BY SingleIs
<1>2. CASE req[q].op = "put"
  <2>1. WriteOk(q, "row", "createRow") /\ pc[q] \in DecidedLabels
    BY <1>1, <1>2 DEF OpOk, PutOk, Where, WriteOk, Replaces, DecidedLabels
  <2>2. "row" \in Pending(q) => pc[q] \in {"fkCollection", "commit"}
    BY <2>1 DEF WriteOk
  <2>3. db.row = None => Holds(q, "createRow")
    BY <2>1 DEF WriteOk, DecidedLabels
  <2> QED BY <1>2, <2>1, <2>2, <2>3 DEF Rank, DecidedLabels
<1>3. CASE req[q].op = "putMeta"
  BY <1>1, <1>3 DEF OpOk, PutMetaOk, Where, Rank, Live
<1>4. CASE req[q].op = "delete"
  <2>1. pc[q] \in {"lock", "dropChunks", "usage", "tombstone", "commit"}
    BY <1>1, <1>4 DEF LabelsOf
  <2>2. DeleteOk(q) /\ pc[q] # "lock"
    BY <1>1, <1>4 DEF OpOk, DeleteOk, Where
  <2>3. db.row # None /\ ("row" \in Pending(q) => pc[q] = "commit")
    BY <2>2 DEF DeleteOk, Live
  <2>4. Rank(q) >= 9 /\ (pc[q] = "commit" => Rank(q) = 11)
    BY <2>1, <2>2 DEF Rank
  <2> QED BY <2>3, <2>4
<1>5. CASE req[q].op \in {"putChunk", "deleteChunk"}
  BY <1>1, <1>5 DEF OpOk, PutChunkOk, DeleteChunkOk, Where, WriteOk
<1> QED BY <1>1, <1>2, <1>3, <1>4, <1>5

LEMMA RowSharer ==
  ASSUME IInv, LockInv, NEW q \in Slots, Single(q), HasShared(q, "row")
  PROVE  req[q].op = "putChunk" /\ Rank(q) >= 6 /\ Live(db.row)
<1>1. pc[q] \in LabelsOf(req[q].op) /\ OpOk(q) /\ Where(q)
  BY SingleIs
<1>2. req[q].op = "putChunk" /\ pc[q] # "parent" /\ PutChunkOk(q)
  BY <1>1 DEF Where, OpOk
<1> QED BY <1>1, <1>2 DEF PutChunkOk, LabelsOf, Rank, Target

\* Who holds a chunk's row has decided about it, and has its Resource unless the chunk is
\* there; while it is not, a write holds the right to create it.
LEMMA ChunkHolder ==
  ASSUME IInv, LockInv, NEW q \in Slots, Single(q), Holds(q, "chunk")
  PROVE  /\ Rank(q) >= 10
         /\ \/ Shares(q, "row") /\ (db.chunk = None => Holds(q, "createChunk"))
            \/ Holds(q, "row")
            \/ db.chunk # None
<1>1. /\ req[q].op \in {"put", "putMeta", "delete", "putChunk", "deleteChunk"}
      /\ pc[q] \in LabelsOf(req[q].op) /\ OpOk(q) /\ Where(q)
  BY SingleIs
<1>2. CASE req[q].op = "putChunk"
  <2>1. PutChunkOk(q) /\ WriteOk(q, "chunk", "createChunk")
    BY <1>1, <1>2 DEF OpOk, PutChunkOk
  <2>2. pc[q] \in DecidedLabels \ {"insert"}
    BY <1>2, <1>1, <2>1 DEF Where, WriteOk, Replaces, DecidedLabels
  <2>3. Shares(q, "row")
    BY <2>1, <2>2 DEF PutChunkOk, DecidedLabels
  <2>4. db.chunk = None => Holds(q, "createChunk")
    BY <2>1, <2>2 DEF WriteOk, DecidedLabels
  <2> QED BY <1>2, <2>2, <2>3, <2>4 DEF Rank, DecidedLabels
<1>3. CASE req[q].op = "delete"
  <2>1. pc[q] \in {"lock", "dropChunks", "usage", "tombstone", "commit"}
    BY <1>1, <1>3 DEF LabelsOf
  <2>2. DeleteOk(q) /\ "chunk" \in Pending(q)
    BY <1>1, <1>3 DEF OpOk, Where
  <2>3. pc[q] \notin {"lock", "dropChunks"} /\ Holds(q, "row")
    BY <2>2 DEF DeleteOk
  <2> QED BY <1>3, <2>1, <2>3 DEF Rank
<1>4. CASE req[q].op = "deleteChunk"
  <2>1. pc[q] \in {"lock", "usage", "commit"}
    BY <1>1, <1>4 DEF LabelsOf
  <2>2. DeleteChunkOk(q) /\ "chunk" \in Pending(q)
    BY <1>1, <1>4 DEF OpOk, Where
  <2>3. pc[q] # "lock" /\ db.chunk # None
    BY <2>2 DEF DeleteChunkOk
  <2> QED BY <1>4, <2>1, <2>3 DEF Rank
<1>5. CASE req[q].op \in {"put", "putMeta"}
  BY <1>1, <1>5 DEF OpOk, PutOk, WriteOk, PutMetaOk, Where
<1> QED BY <1>1, <1>2, <1>3, <1>4, <1>5

\* What p waits for, at each of its statements.
Waits(p, q) ==
  \/ pc[p] = "ensure" /\ Shares(q, "collection")
  \/ pc[p] = "claim" /\ Shares(q, "uniqueness")
  \/ pc[p] = "parent" /\ Holds(q, "row")
  \/ pc[p] \in {"lock", "relock"} /\ Shares(q, Target(p))
  \/ pc[p] = "create" /\ Shares(q, CreateKey(p))
  \/ pc[p] = "dropChunks" /\ Shares(q, "chunk")
  \/ pc[p] = "usage" /\ Shares(q, "space")
  \/ /\ pc[p] = "insert" /\ Shares(q, Target(p))
     /\ ~Present(p, Target(p)) \/ WrittenByOther(p, Target(p))
  \/ pc[p] = "upsert" /\ Shares(q, Target(p))
  \/ pc[p] = "fkCollection" /\ Present(p, "collection") /\ Holds(q, "collection")

LEMMA BlockersWait ==
  ASSUME IInv, LockInv, NEW p \in Slots, Single(p), NEW q \in Blockers(p)
  PROVE  q \in Slots /\ q # p /\ Waits(p, q)
<1>1. /\ req[p].op \in {"put", "putMeta", "delete", "putChunk", "deleteChunk"}
      /\ pc[p] \in LabelsOf(req[p].op)
  BY SingleIs
<1>2. pc[p] \in {"ensure", "claim", "lock", "create", "relock", "usage", "insert", "upsert", "parent",
                 "fkCollection", "tombstone", "dropChunks", "commit"}
  BY <1>1 DEF LabelsOf
<1>3. PICK need \in Needs(p) :
        q \in locks[need[1]].exclusive \/ (need[2] = "exclusive" /\ q \in locks[need[1]].shared)
  BY DEF Blockers
<1>4. q # p
  BY DEF Blockers
<1>5. Waits(p, q)
  BY <1>2, <1>3 DEF Needs, OnInsert, OnExisting, ParentMode, Waits, Holds, Shares
<1>6. need[1] \in Lockables
  BY <1>2, <1>3 DEF Needs, OnInsert, OnExisting, ParentMode, Lockables, Target, CreateKey
<1>7. q \in Slots
  BY <1>3, <1>6 DEF IInv, TypeOK
<1> QED BY <1>4, <1>5, <1>7

\* While there is no row, whoever is to create it waits for none.
LEMMA NoneInTheWay ==
  ASSUME NEW p \in Slots, NEW q \in Slots, Pair(p, q), pc[p] \in {"insert", "upsert"},
         req[p].op \in Writes, txn[p].prior = None, db[Target(p)] = None
  PROVE  ~Shares(q, Target(p))
<1>1. OpOk(p) /\ Where(q)
  BY SingleIs DEF Pair
<1>2. /\ req[p].op = "put" => Target(p) = "row" /\ Holds(p, "createRow")
      /\ req[p].op = "putChunk" => Target(p) = "chunk" /\ Holds(p, "createChunk") /\ Shares(p, "row")
  BY <1>1 DEF OpOk, PutOk, PutChunkOk, WriteOk, Target
<1>3. \A o \in Lockables : ~(Holds(p, o) /\ Shares(q, o)) /\ ~(Holds(q, o) /\ Shares(p, o))
  BY Apart DEF Pair
<1>4. CASE req[p].op = "put"
  BY <1>2, <1>3, <1>4, RowHolder, RowSharer DEF Pair, Live, Shares, Holds, HasShared, Lockables
<1>5. CASE req[p].op = "putChunk"
  <2>1. ~HasShared(q, "chunk")
    BY <1>1 DEF Where, Lockables
  <2> QED BY <1>2, <1>3, <1>5, <2>1, ChunkHolder DEF Pair, Shares, Holds, HasShared, Lockables
<1> QED BY <1>4, <1>5 DEF Writes

\* One lemma per lock: who is waited for has come further.
LEMMA WaitForInsert ==
  ASSUME NEW p \in Slots, NEW q \in Slots, Pair(p, q), pc[p] = "insert", Waits(p, q)
  PROVE  Rank(q) > Rank(p)
<1>1. /\ OpOk(p) /\ Awaited(p) /\ Where(q) /\ req[p].op \in Writes
      /\ Shares(q, Target(p)) /\ (Present(p, Target(p)) => WrittenByOther(p, Target(p)))
  <2>1. OpOk(p) /\ Awaited(p) /\ Where(q) /\ pc[p] \in LabelsOf(req[p].op)
        /\ req[p].op \in {"put", "putMeta", "delete", "putChunk", "deleteChunk"}
    BY SingleIs DEF Pair
  <2> QED BY <2>1 DEF LabelsOf, Writes, Waits
<1>2. PICK f \in {"row", "chunk"} : f = Target(p)
  BY DEF Target
<1>3. PICK key : WriteOk(p, f, key)
  BY <1>1, <1>2 DEF OpOk, PutOk, PutChunkOk, Target, Writes
<1>4. txn[p].prior = None /\ f \notin Pending(p)
  BY <1>3 DEF WriteOk
<1>5. db[f] # None
  BY <1>1, <1>2, <1>4, NoneInTheWay
<1>6. Present(p, f)
  BY <1>4, <1>5, Seen DEF Present
<1>7. Rank(p) = 9
  BY <1>1, <1>2, <1>5 DEF Awaited, Rank, Pair
<1>8. PICK r \in Slots : r # p /\ f \in Pending(r)
  BY <1>1, <1>2, <1>6 DEF WrittenByOther, Pending
<1>9. Holds(r, f)
  BY <1>8 DEF IInv, TxnInv, TxnOk, WriteLocked, Pair
<1>10. r = q
  BY <1>1, <1>2, <1>9 DEF Pair, IInv, TxnInv, Exclusion, Lockables
<1>11. Rank(q) >= 10
  <2>1. f = "row" => Rank(q) = 11
    BY <1>8, <1>9, <1>10, RowHolder DEF Pair
  <2>2. f = "chunk" => Rank(q) >= 10
    BY <1>9, <1>10, ChunkHolder DEF Pair
  <2> QED BY <2>1, <2>2
<1> QED BY <1>7, <1>11, RankIs

LEMMA WaitForUpsert ==
  ASSUME NEW p \in Slots, NEW q \in Slots, Pair(p, q), pc[p] = "upsert"
  PROVE  ~Waits(p, q)
<1>1. OpOk(p) /\ req[p].op \in Writes
  <2>1. OpOk(p) /\ pc[p] \in LabelsOf(req[p].op)
        /\ req[p].op \in {"put", "putMeta", "delete", "putChunk", "deleteChunk"}
    BY SingleIs DEF Pair
  <2> QED BY <2>1 DEF LabelsOf, Writes
<1>2. PICK f \in {"row", "chunk"} : f = Target(p)
  BY DEF Target
<1>3. PICK key : WriteOk(p, f, key)
  BY <1>1, <1>2 DEF OpOk, PutOk, PutChunkOk, Target, Writes
<1>4. CASE txn[p].prior = None
  BY <1>1, <1>2, <1>3, <1>4, NoneInTheWay DEF WriteOk, Pair, Waits
<1>5. CASE txn[p].prior # None
  <2>1. Holds(p, f)
    BY <1>3, <1>5 DEF WriteOk
  <2> QED BY <1>2, <2>1, Apart DEF Pair, Waits, Lockables
<1> QED BY <1>4, <1>5

LEMMA WaitForCollection ==
  ASSUME NEW p \in Slots, NEW q \in Slots, Pair(p, q), pc[p] \in {"ensure", "fkCollection"}, Waits(p, q)
  PROVE  Rank(q) > Rank(p)
<1>1. /\ OpOk(q) /\ Where(q) /\ Awaited(q) /\ pc[q] \in LabelsOf(req[q].op)
      /\ req[q].op \in {"put", "putMeta", "delete", "putChunk", "deleteChunk"}
  BY SingleIs DEF Pair
<1>2. "collection" \in Pending(q) => req[q].op = "put"
  <2>1. req[q].op = "putMeta" => Pending(q) \subseteq {"row"}
    BY <1>1 DEF OpOk, PutMetaOk
  <2>2. req[q].op \in {"delete", "deleteChunk"} => Pending(q) \subseteq {"row", "chunk", "usage"}
    BY <1>1 DEF OpOk, DeleteOk, DeleteChunkOk
  <2>3. req[q].op = "putChunk" => "collection" \notin Pending(q)
    BY <1>1 DEF OpOk, PutChunkOk
  <2> QED BY <1>1, <2>1, <2>2, <2>3
<1>3. CASE pc[p] = "ensure"
  <2>1. "collection" \in Pending(q) \/ HasShared(q, "collection")
    BY <1>1, <1>3 DEF Waits, Shares, HasShared, Holds, Where
  <2>2. req[q].op = "put" /\ pc[q] # "ensure"
    BY <1>1, <1>2, <2>1 DEF OpOk, PutOk, Where
  <2>3. pc[q] \in {"claim", "lock", "create", "relock", "usage", "insert", "upsert", "fkCollection", "commit"}
    BY <1>1, <2>2 DEF LabelsOf
  <2>4. Rank(q) >= 1
    BY <2>3 DEF Rank
  <2> QED BY <1>3, <2>4 DEF Rank
<1>4. CASE pc[p] = "fkCollection"
  <2>1. Present(p, "collection") /\ Holds(q, "collection") /\ db.collection = FALSE
    BY <1>1, <1>2, <1>4 DEF Waits, Where, Awaited
  <2>2. "collection" \in Pending(p)
    BY <2>1, Seen DEF Present
  <2>3. Holds(p, "collection")
    BY <2>2 DEF IInv, TxnInv, TxnOk, WriteLocked, Pair
  <2> QED BY <2>1, <2>3, HoldShares, Apart DEF Pair, Lockables
<1> QED BY <1>3, <1>4

LEMMA WaitForClaim ==
  ASSUME NEW p \in Slots, NEW q \in Slots, Pair(p, q), pc[p] = "claim", Waits(p, q)
  PROVE  Rank(q) > Rank(p)
<1>1. Where(q) /\ pc[q] \in LabelsOf(req[q].op) /\ req[q].op \in {"put", "putMeta", "delete", "putChunk", "deleteChunk"}
  BY SingleIs DEF Pair
<1>2. pc[q] \in {"lock", "create", "relock", "usage", "insert", "upsert", "parent", "fkCollection",
                 "tombstone", "dropChunks", "commit"}
  BY <1>1 DEF Waits, Shares, Holds, HasShared, Where, Lockables, LabelsOf
<1> QED BY <1>2 DEF Rank

LEMMA WaitForRow ==
  ASSUME NEW p \in Slots, NEW q \in Slots, Pair(p, q),
         pc[p] \in {"parent", "lock", "relock"}, pc[p] # "parent" => Target(p) = "row",
         Waits(p, q)
  PROVE  Rank(q) > Rank(p)
<1>1. Holds(q, "row") \/ HasShared(q, "row")
  BY DEF Waits, Shares, Holds, HasShared
<1>2. Rank(q) >= 6
  BY <1>1, RowHolder, RowSharer, RankIs DEF Pair
<1>3. Rank(p) <= 5
  BY DEF Rank
<1> QED BY <1>2, <1>3, RankIs

LEMMA WaitForChunk ==
  ASSUME NEW p \in Slots, NEW q \in Slots, Pair(p, q),
         pc[p] \in {"dropChunks", "lock", "relock"}, pc[p] # "dropChunks" => Target(p) = "chunk",
         Waits(p, q)
  PROVE  Rank(q) > Rank(p)
<1>1. Where(q) /\ Shares(q, "chunk")
  BY SingleIs DEF Pair, Waits
<1>2. Rank(q) >= 10
  BY <1>1, ChunkHolder DEF Pair, Where, Shares, Holds, HasShared, Lockables
<1>3. Rank(p) <= 9
  BY DEF Rank
<1> QED BY <1>2, <1>3, RankIs

LEMMA WaitForCreate ==
  ASSUME NEW p \in Slots, NEW q \in Slots, Pair(p, q), pc[p] = "create", Waits(p, q)
  PROVE  Rank(q) > Rank(p)
<1>1. Where(q)
  BY SingleIs DEF Pair
<1>2. PICK key \in {"createRow", "createChunk"} :
        key = CreateKey(p) /\ Holds(q, key) /\ (key = "createChunk" <=> Target(p) = "chunk")
  BY <1>1 DEF Waits, Shares, Holds, HasShared, Where, Lockables, CreateKey
<1>3. /\ pc[q] \in DecidedLabels \cup {"relock"}
      /\ key = "createChunk" => Target(q) = "chunk"
  BY <1>1, <1>2 DEF Where, Target
<1>4. Rank(q) >= IF key = "createChunk" THEN 8 ELSE 5
  BY <1>2, <1>3 DEF Rank, DecidedLabels
<1> QED BY <1>2, <1>4 DEF Rank

LEMMA WaitForSpace ==
  ASSUME NEW p \in Slots, NEW q \in Slots, Pair(p, q), pc[p] = "usage", Waits(p, q)
  PROVE  Rank(q) > Rank(p)
<1>1. Where(q) /\ Booked(q)
  BY SingleIs DEF Pair
<1>2. "usage" \in Pending(q) /\ Counted(q)
  BY <1>1 DEF Waits, Shares, Holds, HasShared, Where, Lockables, Booked
<1>3. Rank(q) = 11
  BY <1>2 DEF Counted, Rank
<1> QED BY <1>3 DEF Rank

\* Whoever waits, waits for one that has come further in the order of locks.
LEMMA WaitsForLater ==
  ASSUME IInv, LockInv, ~stale, NEW p \in Slots, Single(p), NEW q \in Blockers(p), Single(q)
  PROVE  Rank(q) > Rank(p)
<1>1. q \in Slots /\ Pair(p, q) /\ Waits(p, q)
  BY BlockersWait DEF Pair
<1>2. Target(p) \in {"row", "chunk"}
  BY DEF Target
<1>3. pc[p] \in {"ensure", "claim", "parent", "lock", "relock", "create", "dropChunks", "usage", "insert",
                 "upsert", "fkCollection"}
  BY <1>1 DEF Waits
<1>4. CASE pc[p] \in {"lock", "relock"}
  BY <1>1, <1>2, <1>4, WaitForRow, WaitForChunk
<1>5. CASE pc[p] \in {"parent", "dropChunks"}
  <2>1. pc[p] = "parent" => Rank(q) > Rank(p)
    BY <1>1, WaitForRow
  <2>2. pc[p] = "dropChunks" => Rank(q) > Rank(p)
    BY <1>1, WaitForChunk
  <2> QED BY <1>5, <2>1, <2>2
<1>6. CASE pc[p] \in {"ensure", "fkCollection"}
  BY <1>1, <1>6, WaitForCollection
<1>7. CASE pc[p] \in {"claim", "create", "usage"}
  BY <1>1, <1>7, WaitForClaim, WaitForCreate, WaitForSpace
<1>8. CASE pc[p] \in {"insert", "upsert"}
  BY <1>1, <1>8, WaitForInsert, WaitForUpsert
<1> QED BY <1>3, <1>4, <1>5, <1>6, <1>7, <1>8

\* So those that wait for one another include a bulk operation.
LEMMA NoneWaitForEver ==
  ASSUME IInv, LockInv, ~stale, NEW D \in SUBSET Slots, Deadlock(D)
  PROVE  \E q \in D : req[q].op \in Bulk
<1> SUFFICES ASSUME \A q \in D : req[q].op \notin Bulk PROVE FALSE
  OBVIOUS
<1>1. \A p \in D : \E q \in D : q \in Blockers(p)
  BY DEF Deadlock
<1>2. \A p \in D : Single(p)
  <2>1. \A p \in Slots : req[p] = None => Blockers(p) = {}
    BY DEF IInv, TxnInv, TxnOk, Shape, Blockers, Needs
  <2> QED BY <1>1, <2>1 DEF Single
<1>3. \A p \in D : Rank(p) \in 0..11 /\ \E q \in D : Rank(q) > Rank(p)
  BY <1>1, <1>2, WaitsForLater, RankIs
<1>4. \A p \in D : Rank(p) < 6
  <2>1. \A p \in D : Rank(p) < 11
    BY <1>3
  <2>2. \A p \in D : Rank(p) < 10
    BY <1>3, <2>1
  <2>3. \A p \in D : Rank(p) < 9
    BY <1>3, <2>2
  <2>4. \A p \in D : Rank(p) < 8
    BY <1>3, <2>3
  <2>5. \A p \in D : Rank(p) < 7
    BY <1>3, <2>4
  <2> QED BY <1>3, <2>5
<1>5. \A p \in D : Rank(p) < 0
  <2>1. \A p \in D : Rank(p) < 5
    BY <1>3, <1>4
  <2>2. \A p \in D : Rank(p) < 4
    BY <1>3, <2>1
  <2>3. \A p \in D : Rank(p) < 3
    BY <1>3, <2>2
  <2>4. \A p \in D : Rank(p) < 2
    BY <1>3, <2>3
  <2>5. \A p \in D : Rank(p) < 1
    BY <1>3, <2>4
  <2> QED BY <1>3, <2>5
<1>6. D # {}
  BY DEF Deadlock
<1>7. \A p \in D : ~(Rank(p) < 0)
  BY <1>3
<1> QED BY <1>5, <1>6, <1>7

----------------------------------------------------------------------------
(* A statement leaves its transaction where its locks say.                 *)

\* The state after a statement of p that goes on to `label` with t, and its locks.
Next2(p, label, t) ==
  /\ pc'[p] = label /\ txn'[p] = t
  /\ UNCHANGED <<db, req, stale>>
  /\ \A o \in Lockables : /\ Holds(p, o)' <=> Holds(p, o) \/ <<o, "exclusive">> \in Needs(p)
                          /\ HasShared(p, o)' <=> HasShared(p, o) \/ <<o, "shared">> \in Needs(p)

LEMMA ProceedExact ==
  ASSUME IInv, NEW p \in Slots, NEW label, NEW t, Proceed(p, label, t)
  PROVE  Next2(p, label, t)
<1>1. /\ pc'[p] = label /\ txn'[p] = t
      /\ UNCHANGED <<db, req, stale>>
  BY DEF Proceed, IInv, TypeOK, TxnInv
<1>2. \A o \in Lockables :
        /\ locks'[o].shared = locks[o].shared \cup (IF <<o, "shared">> \in Needs(p) THEN {p} ELSE {})
        /\ locks'[o].exclusive = locks[o].exclusive \cup (IF <<o, "exclusive">> \in Needs(p) THEN {p} ELSE {})
  BY DEF Proceed, Take
<1> QED BY <1>1, <1>2 DEF Next2, Holds, HasShared

\* What p is left with, if it goes on.
Placed(p) == Where(p)' /\ Awaited(p)'

\* p is not bulk, and the locks of its next statement are free.
Before(p) ==
  /\ IInv /\ IInv' /\ LockInv /\ Single(p) /\ p \in Slots /\ Blockers(p) = {}

LEMMA AnyBefore ==
  ASSUME NEW p, Before(p)
  PROVE  /\ Where(p) /\ Awaited(p) /\ OpOk(p) /\ WriteLocked(p) /\ Typed(txn[p])
         /\ DOMAIN txn[p] = {"pending", "prior", "delta"}
         /\ req[p] # None /\ req[p].op \in {"put", "putMeta", "delete", "putChunk", "deleteChunk"}
         /\ pc[p] \in LabelsOf(req[p].op)
BY SingleIs, Own DEF Before

LEMMA EnsurePlaced ==
  ASSUME NEW p, Before(p), EnsureCollection(p)
  PROVE  Placed(p)
<1> DEFINE label == IF req[p].claim THEN "claim" ELSE "lock"
           w == Wrote(txn[p], "collection", TRUE)
           t == IF Present(p, "collection") THEN txn[p] ELSE w
<1>1. pc[p] = "ensure" /\ req[p].op = "put" /\ OpOk(p) /\ Where(p) /\ PutOk(p)
  <2>1. pc[p] = "ensure"
    BY DEF EnsureCollection, At
  <2> QED BY <2>1, AnyBefore DEF LabelsOf, OpOk
<1>2. Pending(p) = {}
  BY <1>1 DEF PutOk
<1>3. Next2(p, label, t)
  BY <1>1, ProceedExact DEF EnsureCollection, Before
<1>4. ~WrittenByOther(p, "collection") \/ ~(<<"collection", "exclusive">> \in Needs(p))
  <2> SUFFICES ASSUME NEW r \in Slots \ {p}, "collection" \in Pending(r), <<"collection", "exclusive">> \in Needs(p)
               PROVE  FALSE
    BY DEF WrittenByOther, Pending
  <2>1. Holds(r, "collection")
    BY DEF Before, IInv, TxnInv, TxnOk, WriteLocked
  <2> QED BY <2>1 DEF Before, Blockers, Holds
<1>5. /\ Needs(p) \subseteq {<<"collection", "exclusive">>}
      /\ <<"collection", "exclusive">> \in Needs(p) => ~Present(p, "collection")
  BY <1>1, <1>4 DEF Needs, OnInsert
<1>6. ~Present(p, "collection") => db.collection = FALSE
  BY <1>2, Seen DEF Present, Before, IInv, TypeOK, Database
<1>7. DOMAIN w.pending = {"collection"}
  BY <1>2, AnyBefore DEF Wrote, Pending
<1> HIDE DEF w
<1>8. DOMAIN t.pending = IF Present(p, "collection") THEN {} ELSE {"collection"}
  BY <1>2, <1>7 DEF Pending
<1> HIDE DEF t, label
<1>9. pc'[p] \in {"claim", "lock"} /\ Pending(p)' = DOMAIN t.pending
  BY <1>3 DEF Next2, label, Pending
<1>10. Where(p)'
  <2>1. /\ \A o \in Lockables \ {"collection"} : Holds(p, o)' <=> Holds(p, o)
        /\ Holds(p, "collection")' => Holds(p, "collection") \/ ~Present(p, "collection")
        /\ \A o \in Lockables : HasShared(p, o)' <=> HasShared(p, o)
        /\ req'[p] = req[p] /\ txn'[p] = t
    BY <1>3, <1>5 DEF Next2, Lockables
  <2> QED BY <1>1, <1>2, <1>8, <1>9, <2>1 DEF Where, Lockables, Replaces, DecidedLabels
<1>11. Awaited(p)'
  BY <1>3, <1>6, <1>8, <1>9 DEF Awaited, Next2
<1> QED BY <1>10, <1>11 DEF Placed

\* At most one lock has been taken, on o.
Takes(p, o) ==
  /\ \A x \in Lockables \ {o} : Holds(p, x)' <=> Holds(p, x)
  /\ Holds(p, o)' => Holds(p, o) \/ Needs(p) # {}
  /\ \A x \in Lockables : HasShared(p, x)' <=> HasShared(p, x)

LEMMA TakesOne ==
  ASSUME NEW p, NEW label, NEW t, Next2(p, label, t), NEW o \in Lockables, Needs(p) \subseteq {<<o, "exclusive">>}
  PROVE  /\ Takes(p, o)
         /\ pc'[p] = label /\ txn'[p] = t /\ req'[p] = req[p] /\ db' = db /\ stale' = stale
         /\ Pending(p)' = DOMAIN t.pending
BY DEF Next2, Takes, Pending

\* The counter is written last, so that nothing is locked or read with it but what a
\* write needs.
LEMMA UsageLast ==
  ASSUME NEW p, Before(p), pc[p] \notin {"insert", "upsert", "fkCollection", "tombstone", "commit"}
  PROVE  "usage" \notin Pending(p)
BY SingleIs DEF Before, Booked, Counted

LEMMA ClaimPlaced ==
  ASSUME NEW p, Before(p), LockUniqueness(p)
  PROVE  Placed(p)
<1>1. pc[p] = "claim" /\ Where(p) /\ Awaited(p) /\ req[p].op \in {"put", "putMeta"}
  <2>1. pc[p] = "claim"
    BY DEF LockUniqueness, At
  <2> QED BY <2>1, AnyBefore DEF LabelsOf
<1>2. Next2(p, "lock", txn[p])
  BY ProceedExact DEF LockUniqueness, Before
<1>3. Needs(p) \subseteq {<<"uniqueness", "exclusive">>}
  BY <1>1 DEF Needs
<1>4. /\ Takes(p, "uniqueness") /\ Pending(p)' = Pending(p)
      /\ pc'[p] = "lock" /\ txn'[p] = txn[p] /\ req'[p] = req[p] /\ db' = db
  BY <1>2, <1>3, TakesOne DEF Lockables, Pending
<1>5. Where(p)'
  BY <1>1, <1>4 DEF Where, Takes, Lockables, Replaces, DecidedLabels
<1>6. Awaited(p)'
  BY <1>1, <1>4 DEF Awaited
<1> QED BY <1>5, <1>6 DEF Placed

LEMMA UsagePlaced ==
  ASSUME NEW p, Before(p), ApplyUsageDelta(p), pc'[p] # "idle"
  PROVE  Placed(p)
<1>1. /\ pc[p] = "usage" /\ Where(p) /\ Awaited(p) /\ OpOk(p)
      /\ req[p].op \in {"put", "putMeta", "delete", "putChunk", "deleteChunk"}
      /\ DOMAIN txn[p] = {"pending", "prior", "delta"}
  BY AnyBefore DEF ApplyUsageDelta, At
<1> DEFINE t == Wrote(txn[p], "usage", AtLeastZero(db.usage + txn[p].delta))
<1>2. ~(\E status : Quit(p, status))
  BY EndOwn DEF Before, IInv, TxnInv, Quit
<1>3. Proceed(p, WriteStatement(p, txn[p]), t)
  BY <1>2 DEF ApplyUsageDelta
<1>4. DOMAIN t.pending = Pending(p) \cup {"usage"} /\ t.prior = txn[p].prior
  BY <1>1, WroteIs DEF Pending
<1> HIDE DEF t
<1>5. Needs(p) \subseteq {<<"space", "exclusive">>}
  BY <1>1 DEF Needs
<1>6. /\ Takes(p, "space") /\ Pending(p)' = Pending(p) \cup {"usage"}
      /\ pc'[p] = WriteStatement(p, txn[p]) /\ txn'[p] = t /\ req'[p] = req[p] /\ db' = db /\ stale' = stale
  BY <1>3, <1>4, <1>5, ProceedExact, TakesOne DEF Lockables, Before
<1>7. /\ pc'[p] \in {"insert", "upsert", "tombstone", "commit"}
      /\ req[p].op \in Writes => pc'[p] \in {"insert", "upsert"}
      /\ pc'[p] = "insert" => req[p].op \in Writes /\ txn[p].prior = None
  BY <1>1, <1>6 DEF WriteStatement, Writes
<1>8. Where(p)'
  BY <1>1, <1>4, <1>6, <1>7 DEF Where, Takes, Lockables, Replaces, DecidedLabels, Writes
<1>9. req[p].op \in Writes /\ txn[p].prior = None /\ ~stale => db[Target(p)] = None
  BY <1>1 DEF OpOk, PutOk, PutChunkOk, WriteOk, Writes, Target
<1>10. Awaited(p)'
  BY <1>1, <1>6, <1>7, <1>9 DEF Awaited, Target
<1> QED BY <1>8, <1>10 DEF Placed

LEMMA CheckPlaced ==
  ASSUME NEW p, Before(p), CheckCollection(p), pc'[p] # "idle"
  PROVE  Placed(p)
<1>1. pc[p] = "fkCollection" /\ Where(p) /\ Awaited(p) /\ OpOk(p) /\ req[p].op = "put"
  <2>1. pc[p] = "fkCollection"
    BY DEF CheckCollection, At
  <2> QED BY <2>1, AnyBefore DEF LabelsOf
<1>2. ~(\E status : Quit(p, status))
  BY EndOwn DEF Before, IInv, TxnInv, Quit
<1>3. Next2(p, "commit", txn[p])
  BY <1>1, <1>2, ProceedExact DEF CheckCollection, Before
<1>4. Needs(p) \subseteq {<<"collection", "shared">>}
  BY <1>1 DEF Needs, OnExisting
<1>5. /\ pc'[p] = "commit" /\ txn'[p] = txn[p] /\ req'[p] = req[p] /\ db' = db /\ Pending(p)' = Pending(p)
      /\ \A o \in Lockables : Holds(p, o)' <=> Holds(p, o)
      /\ \A o \in Lockables \ {"collection"} : HasShared(p, o)' <=> HasShared(p, o)
  BY <1>3, <1>4 DEF Next2, Pending
<1>6. Where(p)'
  BY <1>1, <1>5 DEF Where, Lockables, Replaces, DecidedLabels
<1>7. Awaited(p)'
  BY <1>1, <1>5 DEF Awaited
<1> QED BY <1>6, <1>7 DEF Placed

LEMMA ParentPlaced ==
  ASSUME NEW p, Before(p), LockParent(p), pc'[p] # "idle"
  PROVE  Placed(p)
<1>1. pc[p] = "parent" /\ Where(p) /\ Awaited(p) /\ req[p].op = "putChunk"
  <2>1. pc[p] = "parent"
    BY DEF LockParent, At
  <2> QED BY <2>1, AnyBefore DEF LabelsOf
<1>2. ~(\E status : Quit(p, status))
  BY EndOwn DEF Before, IInv, TxnInv, Quit
<1>3. Next2(p, "lock", txn[p])
  BY <1>1, <1>2, ProceedExact DEF LockParent, Before
<1>4. Needs(p) \subseteq {<<"row", "shared">>}
  BY <1>1 DEF Needs, ParentMode, OnExisting
<1>5. /\ pc'[p] = "lock" /\ txn'[p] = txn[p] /\ req'[p] = req[p] /\ db' = db /\ Pending(p)' = Pending(p)
      /\ \A o \in Lockables : Holds(p, o)' <=> Holds(p, o)
      /\ \A o \in Lockables \ {"row"} : HasShared(p, o)' <=> HasShared(p, o)
  BY <1>3, <1>4 DEF Next2, Pending
<1>6. Where(p)'
  BY <1>1, <1>5 DEF Where, Lockables, Replaces, DecidedLabels
<1>7. Awaited(p)'
  BY <1>1, <1>5 DEF Awaited
<1> QED BY <1>6, <1>7 DEF Placed

\* A write decides on the row it has found, and locked, or on none.
LEMMA CheckedPlaced ==
  ASSUME NEW p, Before(p), pc[p] \in {"lock", "relock"}, req[p].op \in Writes,
         CheckedAgainst(p, db[Target(p)]), pc'[p] # "idle"
  PROVE  Placed(p)
<1>1. Where(p) /\ Awaited(p) /\ OpOk(p) /\ DOMAIN txn[p] = {"pending", "prior", "delta"}
  BY AnyBefore
<1>2. PICK f \in {"row", "chunk"} : f = Target(p) /\ (f = "chunk" <=> req[p].op = "putChunk")
  BY DEF Target, Writes
<1>3. PICK key : WriteOk(p, f, key)
  BY <1>1, <1>2 DEF OpOk, PutOk, PutChunkOk, Writes
<1>4. f \notin Pending(p) /\ "usage" \notin Pending(p)
  BY <1>3, UsageLast DEF WriteOk
<1> DEFINE t == [txn[p] EXCEPT !.prior = db[f], !.delta = req[p].size - SizeOf(db[f])]
<1>5. ~(\E status : Quit(p, status))
  BY EndOwn DEF Before, IInv, TxnInv, Quit
<1>6. PICK label \in {"usage", "insert", "upsert"} : Proceed(p, label, t)
  <2>1. Account(p, t)
    BY <1>2, <1>5 DEF CheckedAgainst
  <2>2. WriteStatement(p, t) \in {"insert", "upsert"}
    BY DEF WriteStatement, Writes
  <2> HIDE DEF t
  <2> QED BY <2>1, <2>2 DEF Account
<1>7. DOMAIN t.pending = Pending(p) /\ t.prior = db[f]
  BY <1>1 DEF Pending
<1> HIDE DEF t
<1>8. /\ Needs(p) \subseteq {<<f, "exclusive">>}
      /\ Needs(p) # {} => db[f] # None
  BY <1>2, <1>4, Seen DEF Needs, OnExisting, Present
<1>9. /\ Takes(p, f) /\ Pending(p)' = Pending(p)
      /\ pc'[p] = label /\ txn'[p] = t /\ req'[p] = req[p]
  BY <1>6, <1>7, <1>8, ProceedExact, TakesOne DEF Lockables, Before
<1>10. Holds(p, f) => Needs(p) # {} \/ f \in Pending(p)
  BY <1>1, <1>2 DEF Where, Replaces, DecidedLabels, Writes
<1>11. Holds(p, f)' => t.prior # None
  BY <1>4, <1>7, <1>8, <1>9, <1>10 DEF Takes
<1>12. Where(p)'
  <2>1. /\ \A x \in Lockables \ {f} : Holds(p, x)' <=> Holds(p, x)
        /\ \A x \in Lockables : HasShared(p, x)' <=> HasShared(p, x)
    BY <1>9 DEF Takes
  <2>2. Holds(p, "row")' => \/ "row" \in Pending(p)'
                            \/ req'[p].op = "put" /\ Replaces(p)'
    BY <1>1, <1>2, <1>6, <1>9, <1>11, <2>1 DEF Where, Replaces, DecidedLabels, Writes, Lockables
  <2>3. Holds(p, "chunk")' => \/ "chunk" \in Pending(p)'
                              \/ req'[p].op = "putChunk" /\ Replaces(p)'
    BY <1>1, <1>2, <1>6, <1>9, <1>11, <2>1 DEF Where, Replaces, DecidedLabels, Writes, Lockables
  <2> QED BY <1>1, <1>2, <1>6, <1>9, <2>1, <2>2, <2>3 DEF Where, DecidedLabels, Lockables
<1>13. Awaited(p)'
  BY <1>1, <1>4, <1>6, <1>9, ProceedExact DEF Awaited, Next2, Before
<1> QED BY <1>12, <1>13 DEF Placed

LEMMA WritePlaced ==
  ASSUME NEW p, Before(p), LockForWrite(p) \/ LockSameKeyCreate(p) \/ RelockForWrite(p), pc'[p] # "idle"
  PROVE  Placed(p)
<1>1. /\ pc[p] \in {"lock", "create", "relock"} /\ Where(p) /\ Awaited(p) /\ OpOk(p)
      /\ req[p].op \in Writes
  <2>1. pc[p] \in {"lock", "create", "relock"} /\ (pc[p] = "lock" => req[p].op \in Writes)
    BY DEF LockForWrite, LockSameKeyCreate, RelockForWrite, At
  <2> QED BY <2>1, AnyBefore DEF LabelsOf, Writes
<1>2. PICK f \in {"row", "chunk"} : f = Target(p)
  BY DEF Target
<1>3. CASE LockForWrite(p) /\ db[f] = None
  <2>1. f \notin Pending(p)
    BY <1>1, <1>2, <1>3 DEF OpOk, PutOk, PutChunkOk, WriteOk, Writes, Target, LockForWrite, At
  <2>2. pc[p] = "lock" /\ Needs(p) \subseteq {<<f, "exclusive">>} /\ Needs(p) = {}
    BY <1>2, <1>3, <2>1, Seen DEF LockForWrite, At, Needs, OnExisting, Present
  <2>3. Proceed(p, "create", txn[p])
    BY <1>2, <1>3 DEF LockForWrite
  <2>4. /\ Takes(p, f) /\ Pending(p)' = Pending(p) /\ Needs(p) = {}
        /\ pc'[p] = "create" /\ txn'[p] = txn[p] /\ req'[p] = req[p] /\ db' = db
    BY <2>2, <2>3, ProceedExact, TakesOne DEF Lockables, Pending, Before
  <2>5. \A x \in Lockables : (Holds(p, x)' => Holds(p, x)) /\ (HasShared(p, x)' => HasShared(p, x))
    BY <2>4 DEF Takes
  <2>6. Where(p)'
    BY <1>1, <2>2, <2>4, <2>5 DEF Where, Lockables, Replaces, DecidedLabels, Writes
  <2> QED BY <1>1, <2>4, <2>6 DEF Awaited, Placed
<1>4. CASE LockForWrite(p) /\ db[f] # None
  BY <1>1, <1>2, <1>4, CheckedPlaced DEF LockForWrite, At
<1>5. CASE RelockForWrite(p)
  BY <1>1, <1>5, CheckedPlaced DEF RelockForWrite, At
<1>6. CASE LockSameKeyCreate(p)
  <2>1. PICK key \in {"createRow", "createChunk"} :
          key = CreateKey(p) /\ (key = "createChunk" <=> req[p].op = "putChunk")
    BY <1>1 DEF CreateKey, Target, Writes
  <2>2. pc[p] = "create" /\ Needs(p) \subseteq {<<key, "exclusive">>}
    BY <1>6, <2>1 DEF LockSameKeyCreate, At, Needs
  <2>3. Proceed(p, "relock", txn[p])
    BY <1>6 DEF LockSameKeyCreate
  <2>4. /\ Takes(p, key) /\ Pending(p)' = Pending(p)
        /\ pc'[p] = "relock" /\ txn'[p] = txn[p] /\ req'[p] = req[p] /\ db' = db
    BY <2>2, <2>3, ProceedExact, TakesOne DEF Lockables, Pending, Before
  <2>5. Where(p)'
    BY <1>1, <2>1, <2>2, <2>4 DEF Where, Takes, Lockables, Replaces, DecidedLabels, Writes
  <2> QED BY <1>1, <2>4, <2>5 DEF Awaited, Placed
<1> QED BY <1>2, <1>3, <1>4, <1>5, <1>6

\* What is written is locked, and pending from then on.
LEMMA InsertPlaced ==
  ASSUME NEW p, Before(p), Insert(p) \/ Upsert(p), pc'[p] # "idle"
  PROVE  Placed(p)
<1>1. /\ pc[p] \in {"insert", "upsert"} /\ Where(p) /\ Awaited(p) /\ req[p].op \in Writes
      /\ DOMAIN txn[p] = {"pending", "prior", "delta"}
  <2>1. pc[p] \in {"insert", "upsert"}
    BY DEF Insert, Upsert, At
  <2> QED BY <2>1, AnyBefore DEF LabelsOf, Writes
<1>2. PICK f \in {"row", "chunk"} : f = Target(p) /\ (f = "chunk" <=> req[p].op = "putChunk")
  BY <1>1 DEF Target, Writes
<1>3. ~(\E status : Quit(p, status))
  BY EndOwn DEF Before, IInv, TxnInv, Quit
<1>4. PICK label, value : /\ Proceed(p, label, Wrote(txn[p], f, value))
                          /\ label = "commit" \/ label = AfterInsert(p)
  BY <1>2, <1>3 DEF Insert, Upsert
<1>5. PICK t : t = Wrote(txn[p], f, value)
  OBVIOUS
<1>6. DOMAIN t.pending = Pending(p) \cup {f} /\ t.prior = txn[p].prior
  BY <1>1, <1>5, WroteIs DEF Pending
<1>7. Needs(p) \subseteq {<<f, "exclusive">>}
  BY <1>1, <1>2 DEF Needs, OnInsert
<1>8. /\ Takes(p, f) /\ Pending(p)' = Pending(p) \cup {f}
      /\ pc'[p] = label /\ txn'[p] = t /\ req'[p] = req[p] /\ db' = db
  BY <1>4, <1>5, <1>6, <1>7, ProceedExact, TakesOne DEF Lockables, Before
<1>9. label = "commit" \/ (label = "fkCollection" /\ f = "row")
  BY <1>2, <1>4 DEF AfterInsert
<1>10. Where(p)'
  <2>1. /\ \A x \in Lockables \ {f} : Holds(p, x)' => Holds(p, x)
        /\ \A x \in Lockables : HasShared(p, x)' => HasShared(p, x)
    BY <1>8 DEF Takes
  <2> QED BY <1>1, <1>2, <1>6, <1>8, <1>9, <2>1 DEF Where, Lockables, Replaces, DecidedLabels
<1>11. Awaited(p)'
  BY <1>1, <1>2, <1>8, <1>9 DEF Awaited
<1> QED BY <1>10, <1>11 DEF Placed

LEMMA MetadataPlaced ==
  ASSUME NEW p, Before(p), WriteMetadata(p) \/ WriteTombstone(p), pc'[p] # "idle"
  PROVE  Placed(p)
<1>1. /\ pc[p] \in {"lock", "tombstone"} /\ Where(p) /\ Awaited(p) /\ OpOk(p)
      /\ pc[p] = "lock" => req[p].op = "putMeta"
      /\ pc[p] = "tombstone" => req[p].op = "delete"
      /\ DOMAIN txn[p] = {"pending", "prior", "delta"}
  <2>1. pc[p] \in {"lock", "tombstone"} /\ (pc[p] = "lock" => req[p].op = "putMeta")
    BY DEF WriteMetadata, WriteTombstone, At
  <2> QED BY <2>1, AnyBefore DEF LabelsOf
<1>2. ~(\E status : Quit(p, status))
  BY EndOwn DEF Before, IInv, TxnInv, Quit
<1>3. PICK value : Proceed(p, "commit", Wrote(txn[p], "row", value))
  BY <1>2 DEF WriteMetadata, WriteTombstone
<1>4. PICK t : t = Wrote(txn[p], "row", value)
  OBVIOUS
<1>5. DOMAIN t.pending = Pending(p) \cup {"row"} /\ t.prior = txn[p].prior
  BY <1>1, <1>4, WroteIs DEF Pending
<1>6. Needs(p) \subseteq {<<"row", "exclusive">>}
  BY <1>1 DEF Needs, OnExisting, Target
<1>7. /\ Takes(p, "row") /\ Pending(p)' = Pending(p) \cup {"row"}
      /\ pc'[p] = "commit" /\ txn'[p] = t /\ req'[p] = req[p] /\ db' = db
  BY <1>3, <1>4, <1>5, <1>6, ProceedExact, TakesOne DEF Lockables, Before
<1>8. Where(p)'
  BY <1>1, <1>5, <1>7 DEF Where, Takes, Lockables, Replaces, DecidedLabels
<1>9. Awaited(p)'
  BY <1>1, <1>7 DEF Awaited
<1> QED BY <1>8, <1>9 DEF Placed

LEMMA DeletePlaced ==
  ASSUME NEW p, Before(p), LockForDelete(p), pc'[p] # "idle"
  PROVE  Placed(p)
<1>1. /\ pc[p] = "lock" /\ Where(p) /\ Awaited(p) /\ req[p].op = "delete"
      /\ DOMAIN txn[p] = {"pending", "prior", "delta"}
  BY AnyBefore DEF LockForDelete, At
<1>2. ~(\E status : Quit(p, status))
  BY EndOwn DEF Before, IInv, TxnInv, Quit
<1>3. PICK t : /\ Proceed(p, "dropChunks", t)
               /\ t = [txn[p] EXCEPT !.prior = db.row, !.delta = -db.row.size]
  BY <1>2 DEF LockForDelete
<1>4. DOMAIN t.pending = Pending(p)
  BY <1>1, <1>3 DEF Pending
<1>5. Needs(p) \subseteq {<<"row", "exclusive">>}
  BY <1>1 DEF Needs, OnExisting, Target
<1>6. /\ Takes(p, "row") /\ Pending(p)' = Pending(p)
      /\ pc'[p] = "dropChunks" /\ req'[p] = req[p] /\ db' = db
  <2>1. Next2(p, "dropChunks", t)
    BY <1>3, ProceedExact DEF Before
  <2> QED BY <1>4, <1>5, <2>1, TakesOne DEF Lockables
<1>7. Where(p)'
  BY <1>1, <1>6 DEF Where, Takes, Lockables
<1>8. Awaited(p)'
  BY <1>1, <1>6 DEF Awaited
<1> QED BY <1>7, <1>8 DEF Placed

LEMMA ChunkPlaced ==
  ASSUME NEW p, Before(p), DropChunks(p) \/ DeleteChunk(p), pc'[p] # "idle"
  PROVE  Placed(p)
<1>1. /\ pc[p] \in {"dropChunks", "lock"} /\ Where(p) /\ Awaited(p) /\ OpOk(p)
      /\ pc[p] = "dropChunks" => req[p].op = "delete"
      /\ pc[p] = "lock" => req[p].op = "deleteChunk"
      /\ DOMAIN txn[p] = {"pending", "prior", "delta"}
  <2>1. pc[p] \in {"dropChunks", "lock"} /\ (pc[p] = "lock" => req[p].op = "deleteChunk")
    BY DEF DropChunks, DeleteChunk, At
  <2> QED BY <2>1, AnyBefore DEF LabelsOf
<1>2. Pending(p) = {}
  BY <1>1 DEF OpOk, DeleteOk, DeleteChunkOk
<1>3. ~(\E status : Quit(p, status))
  BY EndOwn DEF Before, IInv, TxnInv, Quit
<1>4. PICK t : /\ Account(p, t)
               /\ DOMAIN t.pending = IF db.chunk = None THEN {} ELSE {"chunk"}
  <2>1. CASE DropChunks(p)
    <3>1. PICK c : /\ c = [txn[p] EXCEPT !.delta = @ - (IF req[p].op = "delete" THEN SizeOf(db.chunk) ELSE 0)]
                   /\ Account(p, IF db.chunk = None THEN c ELSE Wrote(c, "chunk", None))
      BY <2>1 DEF DropChunks
    <3>2. DOMAIN c = {"pending", "prior", "delta"} /\ DOMAIN c.pending = {}
      BY <1>1, <1>2, <3>1 DEF Pending
    <3>3. DOMAIN Wrote(c, "chunk", None).pending = {"chunk"}
      BY <3>2, WroteIs
    <3> QED BY <3>1, <3>2, <3>3
  <2>2. CASE DeleteChunk(p)
    <3>1. PICK c : /\ c = [txn[p] EXCEPT !.delta = -db.chunk.size]
                   /\ Account(p, Wrote(c, "chunk", None)) /\ db.chunk # None
      BY <1>3, <2>2 DEF DeleteChunk
    <3>2. DOMAIN c = {"pending", "prior", "delta"} /\ DOMAIN c.pending = {}
      BY <1>1, <1>2, <3>1 DEF Pending
    <3>3. DOMAIN Wrote(c, "chunk", None).pending = {"chunk"}
      BY <3>2, WroteIs
    <3> QED BY <3>1, <3>3
  <2> QED BY <2>1, <2>2
<1>5. PICK label \in {"usage", "tombstone", "commit"} : Proceed(p, label, t)
  <2>1. WriteStatement(p, t) \in {"tombstone", "commit"}
    BY <1>1 DEF WriteStatement, Writes
  <2> QED BY <1>4, <2>1 DEF Account
<1>6. Needs(p) \subseteq {<<"chunk", "exclusive">>} /\ (Needs(p) # {} => db.chunk # None)
  BY <1>1, <1>2, Seen DEF Needs, OnExisting, Target, Present
<1>7. /\ Takes(p, "chunk") /\ Pending(p)' = DOMAIN t.pending
      /\ pc'[p] = label /\ req'[p] = req[p] /\ db' = db
  <2>1. Next2(p, label, t)
    BY <1>5, ProceedExact DEF Before
  <2> QED BY <1>6, <2>1, TakesOne DEF Lockables
<1>8. Where(p)'
  <2>1. ~Holds(p, "chunk") /\ (Holds(p, "chunk")' => "chunk" \in Pending(p)')
    BY <1>1, <1>2, <1>4, <1>6, <1>7 DEF Where, Takes
  <2> QED BY <1>1, <1>2, <1>5, <1>7, <2>1 DEF Where, Takes, Lockables, Replaces, DecidedLabels
<1>9. Awaited(p)'
  BY <1>1, <1>4, <1>5, <1>7 DEF Awaited
<1> QED BY <1>8, <1>9 DEF Placed

LEMMA StatementPlaced ==
  ASSUME IInv, IInv', LockInv, NEW p \in Slots, Single(p), Statement(p), pc'[p] # "idle"
  PROVE  Placed(p)
<1>1. req[p].op \notin Bulk /\ pc[p] \in LabelsOf(req[p].op)
      /\ req[p].op \in {"put", "putMeta", "delete", "putChunk", "deleteChunk"}
  BY SingleIs DEF Single
<1>2. pc[p] \in {"ensure", "claim", "lock", "create", "relock", "usage", "insert", "upsert", "parent",
                 "fkCollection", "tombstone", "dropChunks", "commit"}
  BY <1>1 DEF LabelsOf
<1>3. /\ ~(SumCollection(p) \/ DropCollection(p) \/ Cascade(p))
      /\ ~(LockSpace(p) \/ ReadIds(p) \/ RestoreResource(p))
      /\ ~(ProbeParent(p) \/ RestoreChunk(p) \/ CheckParent(p))
  BY <1>2 DEF SumCollection, DropCollection, Cascade, LockSpace, ReadIds, RestoreResource, ProbeParent,
     RestoreChunk, CheckParent, At
<1>4. Blockers(p) = {}
  BY <1>3 DEF Statement, EnsureCollection, LockUniqueness, ApplyUsageDelta, CheckCollection, LockParent,
     LockForWrite, LockSameKeyCreate, RelockForWrite, Insert, Upsert, WriteMetadata, LockForDelete,
     DropChunks, WriteTombstone, DeleteChunk, At
<1>5. Before(p)
  BY <1>4 DEF Before
<1> QED BY <1>3, <1>5, EnsurePlaced, ClaimPlaced, UsagePlaced, CheckPlaced, ParentPlaced, WritePlaced,
           InsertPlaced, MetadataPlaced, DeletePlaced, ChunkPlaced DEF Statement

----------------------------------------------------------------------------
(* Every step keeps LockInv.                                               *)

PlaceOk(p) ==
  /\ pc[p] = "idle" => HoldsNothing(p)
  /\ Single(p) => Where(p) /\ Awaited(p)

LEMMA KeptPlace ==
  ASSUME NEW q, Kept(q)
  PROVE  /\ Where(q) => Where(q)'
         /\ HoldsNothing(q) => HoldsNothing(q)'
         /\ Pending(q)' = Pending(q) /\ Target(q)' = Target(q)
         /\ pc'[q] = pc[q] /\ req'[q] = req[q] /\ (Single(q)' <=> Single(q))
<1>1. /\ pc'[q] = pc[q] /\ req'[q] = req[q] /\ txn'[q] = txn[q]
      /\ \A o \in Lockables : (Holds(q, o)' <=> Holds(q, o)) /\ (HasShared(q, o)' <=> HasShared(q, o))
  BY DEF Kept, Holds, HasShared
<1>2. Pending(q)' = Pending(q) /\ Target(q)' = Target(q) /\ (Single(q)' <=> Single(q))
  BY <1>1 DEF Pending, Target, Single
<1>3. Where(q) => Where(q)'
  BY <1>1, <1>2 DEF Where, Replaces, Lockables
<1>4. HoldsNothing(q) => HoldsNothing(q)'
  BY <1>1 DEF HoldsNothing
<1> QED BY <1>1, <1>2, <1>3, <1>4

LEMMA OthersPlace ==
  ASSUME NEW q, Kept(q), PlaceOk(q), UNCHANGED <<db, stale>>
  PROVE  PlaceOk(q)'
BY KeptPlace DEF PlaceOk, Awaited

\* A plain INSERT that has booked its bytes still finds no row: another write would hold
\* the right to create it, and an import the Space.
LEMMA InsertStays ==
  ASSUME IInv, LockInv, NEW p \in Slots, NEW q \in Slots \ {p}, Publishes(p), Single(q),
         pc[q] = "insert", "usage" \in Pending(q), db[Target(q)] = None
  PROVE  db'[Target(q)] = None
<1>1. req[p].op \in Operations /\ pc[p] = "commit" /\ db' = View(p) /\ OpOk(p)
  BY Own DEF Publishes
<1>2. \A o \in Lockables : ~(Holds(p, o) /\ Shares(q, o)) /\ ~(Holds(q, o) /\ Shares(p, o))
  BY Apart
<1>3. OpOk(q) /\ WriteLocked(q) /\ req[q].op \in Writes
  <2>1. OpOk(q) /\ WriteLocked(q) /\ pc[q] \in LabelsOf(req[q].op)
        /\ req[q].op \in {"put", "putMeta", "delete", "putChunk", "deleteChunk"}
    BY SingleIs
  <2> QED BY <2>1 DEF LabelsOf, Writes
<1>4. PICK f \in {"row", "chunk"} : f = Target(q) /\ (f = "chunk" <=> req[q].op = "putChunk")
  BY <1>3 DEF Target, Writes
<1>5. /\ f = "row" => ~Holds(p, "createRow")
      /\ f = "chunk" => ~Holds(p, "createChunk")
      /\ ~Holds(p, "space") /\ db[f] = None /\ ~Live(db[f])
  <2>1. /\ f = "row" => Holds(q, "createRow")
        /\ f = "chunk" => Holds(q, "createChunk")
    BY <1>3, <1>4 DEF OpOk, PutOk, PutChunkOk, WriteOk, Writes
  <2>2. Holds(q, "space")
    BY <1>3 DEF WriteLocked
  <2> QED BY <1>2, <1>4, <2>1, <2>2, HoldShares DEF Lockables, Live
<1>6. CASE req[p].op = "put"
  <2>1. f = "chunk"
    BY <1>1, <1>5, <1>6 DEF OpOk, PutOk, WriteOk
  <2> QED BY <1>1, <1>4, <1>5, <1>6, <2>1, PutLands
<1>7. CASE req[p].op = "putChunk"
  <2>1. f = "row"
    BY <1>1, <1>5, <1>7 DEF OpOk, PutChunkOk, WriteOk
  <2> QED BY <1>1, <1>4, <1>5, <1>7, <2>1, PutChunkLands
<1>8. CASE req[p].op \in {"putMeta", "delete"}
  BY <1>1, <1>4, <1>5, <1>8, PutMetaLands, DeleteLands
<1>9. CASE req[p].op \in {"deleteChunk", "deleteCollection"}
  BY <1>1, <1>4, <1>5, <1>9, DeleteChunkLands, DropLands
<1>10. CASE req[p].op = "import"
  BY <1>1, <1>5, <1>10 DEF OpOk, ImportOk
<1> QED BY <1>1, <1>6, <1>7, <1>8, <1>9, <1>10 DEF Operations, Bulk

LEMMA CommitPlaces ==
  ASSUME IInv, LockInv, NEW p \in Slots, Publishes(p), NEW q \in Slots \ {p}
  PROVE  PlaceOk(q)'
<1>1. Kept(q) /\ PlaceOk(q) /\ db' = View(p) /\ (~stale' => ~stale)
  BY DEF Publishes, LockInv, PlaceOk
<1>2. Single(q) /\ "collection" \in Pending(q) => db'.collection = db.collection
  <2>1. "collection" \in Pending(q) => Holds(q, "collection")
    BY DEF IInv, TxnInv, TxnOk, WriteLocked
  <2> QED BY <1>1, <2>1, Behind, HoldShares, Seen
<1>3. Single(q) => Awaited(q)'
  <2> SUFFICES ASSUME Single(q) PROVE Awaited(q)'
    OBVIOUS
  <2>1. Awaited(q)
    BY <1>1 DEF PlaceOk
  <2>2. pc[q] = "insert" /\ "usage" \in Pending(q) /\ ~stale' => db'[Target(q)] = None
    BY <1>1, <2>1, InsertStays DEF Awaited
  <2> QED BY <1>1, <1>2, <2>1, <2>2, KeptPlace DEF Awaited
<1> QED BY <1>1, <1>3, KeptPlace DEF PlaceOk

LEMMA EndPlace ==
  ASSUME IInv, NEW p \in Slots, NEW status, NEW version, End(p, status, version)
  PROVE  PlaceOk(p)'
<1>1. req'[p] = None
  BY DEF End, IInv, TypeOK
<1>2. HoldsNothing(p)'
  BY DEF End, Released, HoldsNothing, Holds, HasShared
<1> QED BY <1>1, <1>2 DEF PlaceOk, Single

LEMMA ArrivePlace ==
  ASSUME IInv, LockInv, NEW p \in Slots, Arrive(p)
  PROVE  PlaceOk(p)'
<1>1. /\ HoldsNothing(p) /\ Pending(p) = {}
      /\ UNCHANGED <<db, locks, txn, stale>>
  BY DEF Arrive, LockInv, IInv, TxnInv, TxnOk, Shape
<1>2. PICK r \in Workload : pc'[p] = First(r)
  BY DEF Arrive, IInv, TypeOK
<1>3. pc'[p] \notin {"idle", "insert"}
  BY <1>2 DEF First
<1>4. HoldsNothing(p)' /\ Pending(p)' = {}
  BY <1>1 DEF HoldsNothing, Holds, HasShared, Pending
<1>5. Where(p)' /\ Awaited(p)'
  BY <1>3, <1>4 DEF Where, Awaited, HoldsNothing, Lockables
<1> QED BY <1>3, <1>5 DEF PlaceOk

LEMMA LockInvStep == IInv /\ LockInv /\ [Next]_vars => LockInv'
<1> SUFFICES ASSUME IInv, LockInv, [Next]_vars PROVE \A q \in Slots : PlaceOk(q)'
  BY DEF LockInv, PlaceOk
<1>1. IInv'
  BY StepInv
<1>2. CASE UNCHANGED vars
  <2>1. UNCHANGED <<db, stale>> /\ \A q \in Slots : Kept(q)
    BY <1>2 DEF vars, Kept
  <2> QED BY <2>1, OthersPlace DEF LockInv, PlaceOk
<1>3. ASSUME NEW p \in Slots, Statement(p) \/ Ends(p) \/ Arrive(p)
      PROVE  \A q \in Slots : PlaceOk(q)'
  <2>1. \A q \in Slots \ {p} : PlaceOk(q)'
    BY <1>3, NoCommitKeeps, OthersPlace DEF LockInv, PlaceOk
  <2>2. CASE Ends(p)
    BY <2>1, <2>2, EndPlace DEF Ends, Quit
  <2>3. CASE Arrive(p)
    BY <2>1, <2>3, ArrivePlace
  <2>4. CASE Statement(p) /\ Goes(p)
    <3>1. req'[p] = req[p] /\ req[p] # None
      <4>1. pc[p] # "idle"
        BY <2>4 DEF Statement, EnsureCollection, LockUniqueness, ApplyUsageDelta, CheckCollection, LockParent,
           LockForWrite, LockSameKeyCreate, RelockForWrite, Insert, Upsert, WriteMetadata, LockForDelete,
           DropChunks, WriteTombstone, DeleteChunk, SumCollection, DropCollection, Cascade, LockSpace, ReadIds,
           RestoreResource, ProbeParent, RestoreChunk, CheckParent, At
      <4> QED BY <2>4, <4>1 DEF Goes, Proceed, IInv, TxnInv, TxnOk, Shape
    <3>2. pc'[p] # "idle"
      BY <1>1, <3>1 DEF IInv, TxnInv, TxnOk, Shape
    <3>3. Single(p)' => Single(p)
      BY <3>1 DEF Single
    <3>4. PlaceOk(p)'
      BY <1>1, <2>4, <3>2, <3>3, StatementPlaced DEF PlaceOk, Placed
    <3> QED BY <2>1, <3>4
  <2> QED BY <1>3, <2>1, <2>2, <2>3, <2>4, StatementIs
<1>4. ASSUME NEW p \in Slots, Commits(p)
      PROVE  \A q \in Slots : PlaceOk(q)'
  <2>1. Publishes(p) /\ \E status : \E version \in Nat : End(p, status, version)
    BY <1>4, CommitIs
  <2> QED BY <2>1, CommitPlaces, EndPlace
<1> QED BY <1>2, <1>3, <1>4, Steps

\* Where each transaction's locks place it holds of every behaviour.
THEOREM LocksInOrder == Spec => [](IInv /\ LockInv)
<1>1. Init => LockInv
  BY DEF Init, LockInv, HoldsNothing, Holds, HasShared, Single
<1> QED BY <1>1, InitInv, StepInv, LockInvStep, PTL DEF Spec

\* Resource writes, metadata writes, deletes and chunk requests never block each other
\* for good, however many there are: a deadlock has a bulk operation in it.
THEOREM OnlyBulk == Spec => []OnlyBulkDeadlocks
<1>1. IInv /\ LockInv => OnlyBulkDeadlocks
  <2> SUFFICES ASSUME IInv, LockInv, ~stale, NEW p \in Slots, InCycle(p)
               PROVE  \E q \in Slots : InCycle(q) /\ req[q].op \in Bulk
    BY DEF OnlyBulkDeadlocks
  <2>1. PICK D \in SUBSET Slots : Deadlock(D) /\ \A E \in SUBSET D : Deadlock(E) => E = D
    BY DEF InCycle
  <2>2. PICK q \in D : req[q].op \in Bulk
    BY <2>1, NoneWaitForEver
  <2>3. InCycle(q)
    BY <2>1 DEF InCycle, Deadlock
  <2> QED BY <2>2, <2>3
<1> QED BY <1>1, LocksInOrder, PTL
=============================================================================
