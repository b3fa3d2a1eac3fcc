--------------------------- MODULE ChangeFeedProofs ---------------------------
(* Theorems about ChangeFeed, for every value of its constants.            *)
EXTENDS ChangeFeed, FiniteSetTheorems, TLAPS

----------------------------------------------------------------------------
(* The inductive invariant.                                                *)

Deletes == {"deleteJson", "deleteBinary"}

\* What a listing holds, and what the pull holds at each of its phases.
PullInv ==
  /\ DOMAIN listed \subseteq Docs
  /\ \A d \in DOMAIN listed : listed[d] \in {"live", "dead"} /\ (listed[d] = "dead" => side[d] # None)
  /\ phase # "bodies" => DOMAIN body = {}
  /\ phase = "idle" => DOMAIN listed = {} /\ DOMAIN found = {}

\* What a write has done to the content of its Resource before it publishes the
\* sidecar.
WriterOK(d) ==
  /\ writer[d].pc = "prune" =>
       /\ writer[d].op \in Formats /\ files[d][writer[d].op] # None
       /\ files[d][writer[d].op].number = VersionOf(d) + 1
  /\ writer[d].pc \in {"stamp", "sidecar"} => writer[d].op \in Formats \cup {"meta"} \cup Deletes
  /\ writer[d].pc \in {"stamp", "sidecar"} /\ writer[d].op \in Formats =>
       Live(d) = {writer[d].op} /\ files[d][writer[d].op].number = VersionOf(d) + 1
  /\ writer[d].pc \in {"stamp", "sidecar"} /\ writer[d].op \in Deletes => Live(d) = {}
  /\ writer[d].pc # "idle" /\ writer[d].op = "meta" => Live(d) # {}

\* No content on disk is older than the sidecar.
ContentOK(d) == \A f \in Formats : files[d][f] # None => files[d][f].number >= VersionOf(d)

\* Nothing has touched the content since the last write or delete that completed:
\* then the sidecar describes the content.
Intact(d) == d \notin torn /\ (writer[d].pc = "idle" \/ writer[d].op = "meta")
IntactOK(d) ==
  Intact(d) =>
    IF side[d] = None THEN Live(d) = {}
    ELSE /\ side[d].deleted <=> Live(d) = {}
         /\ \A f \in Live(d) : files[d][f].number = side[d].version

StoreInv == \A d \in Docs : WriterOK(d) /\ ContentOK(d) /\ IntactOK(d)

\* Versions only grow on the way from the sidecar through the pull to the replica,
\* and bodies are read after descriptors.
FlowInv ==
  /\ \A d \in DOMAIN found : found[d].version <= VersionOf(d)
  /\ \A d \in DOMAIN body : body[d] # None => body[d] >= found[d].version
  /\ \A d \in Docs : replica[d] # None => replica[d].version <= VersionOf(d)
  /\ \A d \in DOMAIN found : replica[d] # None => replica[d].version <= found[d].version

\* A Resource of the feed whose sidecar stands still, and what it is in the feed.
Steady(d) == Intact(d) /\ side[d] # None /\ InFeed(d)
DescriptorOf(d) ==
  [version |-> side[d].version, metaVersion |-> side[d].metaVersion,
   updatedAt |-> side[d].updatedAt, deleted |-> side[d].deleted]
Passed(d) == ~After(side[d].updatedAt, d, checkpoint)

\* A pull does not miss a Resource that stands still since the pull began or
\* took it in: it is to be read, or read, or behind the checkpoint, or past the
\* end of the page.  Only a tombstone can be read as something else, a live
\* document.
SeenOK(d) ==
  d \notin landed /\ Steady(d) =>
    /\ phase = "sidecars" => d \in DOMAIN listed \cup DOMAIN found
    /\ d \in DOMAIN listed => listed[d] = IF side[d].deleted THEN "dead" ELSE "live"
    /\ d \in DOMAIN found => found[d] \in {DescriptorOf(d), LiveDescriptor(d)}
    /\ d \in DOMAIN body /\ found[d] = DescriptorOf(d) => body[d] = IF side[d].deleted THEN None ELSE side[d].version
    /\ phase = "bodies" =>
         \/ d \in DOMAIN found
         \/ Passed(d)
         \/ \A e \in DOMAIN found : Precedes(found[e].updatedAt, e, side[d].updatedAt, d)
SeenInv == \A d \in Docs : SeenOK(d)

\* What stands still behind the checkpoint is at the replica.
SyncOK(d) == d \notin late \cup revived /\ Steady(d) /\ Passed(d) => InSync(d)
SyncInv == \A d \in Docs : SyncOK(d)

IInv == TypeOK /\ PullInv /\ StoreInv /\ FlowInv /\ DeliveredContentIsCurrent /\ SeenInv /\ SyncInv

----------------------------------------------------------------------------
(* The writers.                                                            *)

LEMMA VersionsTyped ==
  ASSUME TypeOK, NEW d \in Docs
  PROVE  VersionOf(d) \in Nat /\ MetaVersionOf(d) \in Nat
BY DEF TypeOK, VersionOf, MetaVersionOf, Sidecar

LEMMA SidecarTyped ==
  ASSUME TypeOK, NEW d \in Docs, writer[d].op \in Formats \cup {"meta"} \cup Deletes
  PROVE  /\ SidecarOf(d) \in Sidecar
         /\ SidecarOf(d).deleted <=> SidecarOf(d).contentType # None
         /\ SidecarOf(d) # None
<1>1. VersionOf(d) \in Nat /\ MetaVersionOf(d) \in Nat /\ writer[d].stamp \in Nat
  BY VersionsTyped DEF TypeOK
<1>2. /\ SidecarOf(d).version \in {VersionOf(d), VersionOf(d) + 1}
      /\ SidecarOf(d).metaVersion \in {0, MetaVersionOf(d), MetaVersionOf(d) + 1}
      /\ SidecarOf(d).deleted = (writer[d].op \in Deletes)
      /\ SidecarOf(d).contentType \in Formats \cup {None}
      /\ SidecarOf(d).contentType # None <=> writer[d].op \in Deletes
  BY <1>1, ConstantsAssumption DEF SidecarOf, Formats, Deletes
<1>3. SidecarOf(d) = [version |-> SidecarOf(d).version, metaVersion |-> SidecarOf(d).metaVersion,
                      updatedAt |-> writer[d].stamp, deleted |-> SidecarOf(d).deleted,
                      contentType |-> SidecarOf(d).contentType]
  BY DEF SidecarOf
<1>4. SidecarOf(d) \in Sidecar
  <2>1. \A v \in Nat, m \in Nat, at \in Nat, dead \in BOOLEAN, ct \in Formats \cup {None} :
          [version |-> v, metaVersion |-> m, updatedAt |-> at, deleted |-> dead, contentType |-> ct] \in Sidecar
    BY DEF Sidecar
  <2>2. SidecarOf(d).version \in Nat /\ SidecarOf(d).metaVersion \in Nat
    BY <1>1, <1>2
  <2>3. SidecarOf(d).deleted \in BOOLEAN
    BY <1>2
  <2>4. SidecarOf(d).contentType \in Formats \cup {None}
    BY <1>2
  <2>5. [version |-> SidecarOf(d).version, metaVersion |-> SidecarOf(d).metaVersion,
         updatedAt |-> writer[d].stamp, deleted |-> SidecarOf(d).deleted,
         contentType |-> SidecarOf(d).contentType] \in Sidecar
    BY <1>1, <2>1, <2>2, <2>3, <2>4
  <2> QED BY <1>3, <2>5
<1> QED BY <1>2, <1>4, ConstantsAssumption

\* A step of one writer leaves the other Resources and the pull alone.
OthersKept(d) ==
  /\ \A e \in Docs \ {d} :
       /\ files'[e] = files[e] /\ side'[e] = side[e] /\ writer'[e] = writer[e]
       /\ (e \in torn' <=> e \in torn) /\ (e \in late' <=> e \in late)
       /\ (e \in landed' <=> e \in landed) /\ (e \in revived' <=> e \in revived)
  /\ UNCHANGED <<clock, pullVars, replicaVars, faults>>

LEMMA WriterKeepsOthers ==
  ASSUME TypeOK, NEW d \in Docs, Request(d) \/ Write(d)
  PROVE  OthersKept(d)
<1>1. CASE Request(d)
  BY <1>1 DEF Request, Publish, Edit, Remove, Begin, WriterGoto, OthersKept, TypeOK, pullVars, replicaVars
<1>2. CASE Prune(d) \/ Stamp(d)
  BY <1>2 DEF Prune, Stamp, WriterGoto, OthersKept, TypeOK, pullVars, replicaVars
<1>3. CASE WriteSidecar(d)
  BY <1>3 DEF WriteSidecar, WriterGoto, OthersKept, TypeOK, pullVars, replicaVars
<1> QED BY <1>1, <1>2, <1>3 DEF Write

LEMMA WriterTyped ==
  ASSUME TypeOK, StoreInv, NEW d \in Docs, Request(d) \/ Write(d)
  PROVE  TypeOK'
<1>1. VersionOf(d) \in Nat /\ clock \in Nat
  BY VersionsTyped DEF TypeOK
<1> DEFINE Typed ==
      /\ files \in [Docs -> [Formats -> File \cup {None}]]
      /\ writer \in [Docs -> [pc : {"idle", "prune", "stamp", "sidecar"},
                              op : Formats \cup {"meta", "deleteJson", "deleteBinary", None}, stamp : Nat]]
      /\ issued \in Nat
<1>2. Typed'
  <2>1. ASSUME NEW format \in Formats, Publish(d, format)
        PROVE  Typed'
    <3>1. [number |-> VersionOf(d) + 1, mtime |-> clock] \in File
      BY <1>1 DEF File
    <3>2. files' \in [Docs -> [Formats -> File \cup {None}]]
      BY <2>1, <3>1 DEF Publish, TypeOK
    <3> QED BY <2>1, <3>2 DEF Publish, Begin, WriterGoto, TypeOK
  <2>2. CASE Edit(d)
    BY <2>2 DEF Edit, Begin, WriterGoto, TypeOK
  <2>3. CASE Remove(d)
    BY <2>3 DEF Remove, Begin, WriterGoto, TypeOK
  <2>4. CASE Prune(d)
    <3>1. files' \in [Docs -> [Formats -> File \cup {None}]]
      <4>1. files' = [files EXCEPT ![d] = [f \in Formats |-> IF f = writer[d].op THEN files[d][f] ELSE None]]
        BY <2>4 DEF Prune
      <4>2. [f \in Formats |-> IF f = writer[d].op THEN files[d][f] ELSE None]
              \in [Formats -> File \cup {None}]
        BY DEF TypeOK
      <4> QED BY <4>1, <4>2 DEF TypeOK
    <3>2. writer' \in [Docs -> [pc : {"idle", "prune", "stamp", "sidecar"},
                                op : Formats \cup {"meta", "deleteJson", "deleteBinary", None}, stamp : Nat]]
      <4>1. writer' = [writer EXCEPT ![d] = [writer[d] EXCEPT !.pc = "stamp"]]
        BY <2>4 DEF Prune, WriterGoto
      <4>2. writer[d] \in [pc : {"idle", "prune", "stamp", "sidecar"},
                           op : Formats \cup {"meta", "deleteJson", "deleteBinary", None}, stamp : Nat]
        BY DEF TypeOK
      <4> QED BY <4>1, <4>2 DEF TypeOK
    <3>3. issued' \in Nat
      BY <2>4 DEF Prune, TypeOK
    <3> QED BY <3>1, <3>2, <3>3
  <2>5. CASE Stamp(d)
    BY <2>5 DEF Stamp, WriterGoto, TypeOK
  <2>6. CASE WriteSidecar(d)
    BY <2>6 DEF WriteSidecar, WriterGoto, Idle, TypeOK
  <2> QED BY <2>1, <2>2, <2>3, <2>4, <2>5, <2>6 DEF Request, Write
<1>3. /\ side' \in [Docs -> Sidecar \cup {None}]
      /\ \A e \in Docs : side'[e] # None => (side'[e].deleted <=> side'[e].contentType # None)
  <2>1. CASE WriteSidecar(d)
    <3>1. writer[d].op \in Formats \cup {"meta"} \cup Deletes
      BY <2>1 DEF StoreInv, WriterOK, WriteSidecar
    <3>2. side' = [side EXCEPT ![d] = SidecarOf(d)]
      BY <2>1 DEF WriteSidecar
    <3> QED BY <3>1, <3>2, SidecarTyped DEF TypeOK
  <2>2. CASE ~WriteSidecar(d)
    BY <2>2 DEF Request, Write, Publish, Edit, Remove, Begin, Prune, Stamp, TypeOK
  <2> QED BY <2>1, <2>2
<1>4. late' \subseteq Docs /\ landed' \subseteq Docs /\ revived' \subseteq Docs /\ torn' \subseteq Docs
  BY DEF Request, Write, Publish, Edit, Remove, Begin, Prune, Stamp, WriteSidecar, TypeOK
<1>5. UNCHANGED <<clock, pullVars, replicaVars, faults>>
  BY WriterKeepsOthers DEF OthersKept
<1> QED BY <1>2, <1>3, <1>4, <1>5 DEF TypeOK, pullVars, replicaVars

\* What a step of the writer of d leaves of the files, the sidecar and itself.
LEMMA OwnStoreStep ==
  ASSUME TypeOK, StoreInv, NEW d \in Docs, Request(d) \/ Write(d)
  PROVE  (WriterOK(d) /\ ContentOK(d) /\ IntactOK(d))'
<1>1. /\ WriterOK(d) /\ ContentOK(d) /\ IntactOK(d)
      /\ VersionOf(d) \in Nat /\ clock \in Nat
      /\ files \in [Docs -> [Formats -> File \cup {None}]] /\ files[d] \in [Formats -> File \cup {None}]
      /\ side \in [Docs -> Sidecar \cup {None}]
  BY VersionsTyped DEF StoreInv, TypeOK
<1>2. ASSUME NEW format \in Formats, Publish(d, format)
      PROVE  (WriterOK(d) /\ ContentOK(d) /\ IntactOK(d))'
  <2> DEFINE new == [number |-> VersionOf(d) + 1, mtime |-> clock]
  <2>1. new \in File /\ new # None /\ new.number = VersionOf(d) + 1
    BY <1>1, ConstantsAssumption DEF File
  <2> HIDE DEF new
  <2>2. /\ side' = side /\ writer'[d].pc = "prune" /\ writer'[d].op = format
        /\ files'[d][format] = new /\ \A f \in Formats \ {format} : files'[d][f] = files[d][f]
    BY <1>1, <1>2 DEF Publish, Begin, WriterGoto, TypeOK, new
  <2>3. VersionOf(d)' = VersionOf(d)
    BY <2>2 DEF VersionOf
  <2>4. WriterOK(d)'
    BY <2>1, <2>2, <2>3 DEF WriterOK, Formats
  <2>5. ContentOK(d)'
    BY <1>1, <2>1, <2>2, <2>3 DEF ContentOK
  <2>6. IntactOK(d)'
    BY <2>2 DEF IntactOK, Intact, Formats
  <2> QED BY <2>4, <2>5, <2>6
<1>3. CASE Edit(d)
  <2>1. /\ side' = side /\ files' = files /\ torn' = torn /\ writer[d].pc = "idle"
        /\ writer'[d].pc = "stamp" /\ writer'[d].op = "meta" /\ Live(d) # {}
    BY <1>3 DEF Edit, Begin, WriterGoto, Idle, TypeOK
  <2>2. Live(d)' = Live(d) /\ VersionOf(d)' = VersionOf(d)
    BY <2>1 DEF Live, VersionOf
  <2> QED BY <1>1, <2>1, <2>2 DEF WriterOK, ContentOK, IntactOK, Intact, Formats, Deletes
<1>4. CASE Remove(d)
  <2>1. /\ side' = side /\ writer'[d].pc = "stamp" /\ writer'[d].op \in Deletes
        /\ files'[d] = [f \in Formats |-> None]
    BY <1>4 DEF Remove, Begin, WriterGoto, TypeOK, Deletes
  <2>2. Live(d)' = {} /\ VersionOf(d)' = VersionOf(d)
    BY <2>1 DEF Live, VersionOf
  <2> QED BY <1>1, <2>1, <2>2 DEF WriterOK, ContentOK, IntactOK, Intact, Formats, Deletes
<1>5. CASE Prune(d)
  <2> DEFINE op == writer[d].op
  <2>1. op \in Formats /\ files[d][op] # None /\ files[d][op].number = VersionOf(d) + 1
    BY <1>1, <1>5 DEF WriterOK, Prune
  <2>2. /\ side' = side /\ writer'[d].pc = "stamp" /\ writer'[d].op = op
        /\ \A f \in Formats : files'[d][f] = IF f = op THEN files[d][f] ELSE None
    BY <1>5 DEF Prune, WriterGoto, TypeOK
  <2>3. Live(d)' = {op} /\ VersionOf(d)' = VersionOf(d)
    BY <2>1, <2>2 DEF Live, VersionOf
  <2> HIDE DEF op
  <2>4. WriterOK(d)'
    BY <2>1, <2>2, <2>3 DEF WriterOK, Formats, Deletes
  <2>5. ContentOK(d)'
    BY <1>1, <2>1, <2>2, <2>3 DEF ContentOK
  <2>6. IntactOK(d)'
    BY <2>1, <2>2 DEF IntactOK, Intact, Formats
  <2> QED BY <2>4, <2>5, <2>6
<1>6. CASE Stamp(d)
  <2>1. /\ side' = side /\ files' = files /\ torn' = torn /\ writer[d].pc = "stamp"
        /\ writer'[d].pc = "sidecar" /\ writer'[d].op = writer[d].op
    BY <1>6 DEF Stamp, WriterGoto, TypeOK
  <2>2. Live(d)' = Live(d) /\ VersionOf(d)' = VersionOf(d)
    BY <2>1 DEF Live, VersionOf
  <2> QED BY <1>1, <2>1, <2>2 DEF WriterOK, ContentOK, IntactOK, Intact
<1>7. CASE WriteSidecar(d)
  <2> DEFINE op == writer[d].op
             new == SidecarOf(d)
  <2>1. op \in Formats \cup {"meta"} \cup Deletes /\ writer[d].pc = "sidecar"
    BY <1>1, <1>7 DEF WriterOK, WriteSidecar
  <2>2. /\ side'[d] = new /\ files' = files /\ writer'[d].pc = "idle"
        /\ d \in torn' <=> d \in torn /\ op = "meta"
    BY <1>7 DEF WriteSidecar, WriterGoto, Idle, TypeOK
  <2>3. new # None /\ new \in Sidecar
    BY <2>1, SidecarTyped
  <2>4. /\ new.version = VersionOf(d) + (IF op = "meta" THEN 0 ELSE 1)
        /\ new.deleted <=> op \in Deletes
    BY DEF SidecarOf, Deletes
  <2> HIDE DEF op, new
  <2>5. VersionOf(d)' = new.version /\ Live(d)' = Live(d)
    BY <2>2, <2>3 DEF VersionOf, Live
  <2>6. WriterOK(d)'
    BY <2>2 DEF WriterOK
  <2>7. CASE op = "meta"
    <3>1. Live(d) # {} /\ new.version = VersionOf(d) /\ ~new.deleted
      BY <1>1, <2>1, <2>4, <2>7 DEF WriterOK, op, Deletes
    <3>2. ContentOK(d)'
      BY <1>1, <2>2, <2>5, <3>1 DEF ContentOK
    <3>3. ASSUME d \notin torn
          PROVE  side[d] # None /\ \A f \in Live(d) : files[d][f].number = VersionOf(d)
      BY <1>1, <2>7, <3>1, <3>3 DEF IntactOK, Intact, VersionOf, op
    <3>4. IntactOK(d)'
      BY <2>2, <2>3, <2>5, <2>7, <3>1, <3>3 DEF IntactOK, Intact
    <3> QED BY <2>6, <3>2, <3>4
  <2>8. CASE op \in Formats
    <3>1. Live(d) = {op} /\ files[d][op].number = VersionOf(d) + 1
      BY <1>1, <2>1, <2>8 DEF WriterOK, op
    <3>2. new.version = VersionOf(d) + 1 /\ ~new.deleted
      BY <1>1, <2>4, <2>8 DEF Formats, Deletes
    <3>3. ContentOK(d)'
      BY <1>1, <2>2, <2>5, <3>1, <3>2 DEF ContentOK, Live
    <3>4. IntactOK(d)'
      BY <2>2, <2>3, <2>5, <3>1, <3>2 DEF IntactOK, Intact
    <3> QED BY <2>6, <3>3, <3>4
  <2>9. CASE op \in Deletes
    <3>1. Live(d) = {} /\ new.deleted
      BY <1>1, <2>1, <2>4, <2>9 DEF WriterOK, op
    <3>2. ContentOK(d)'
      BY <2>2, <3>1 DEF ContentOK, Live
    <3>3. IntactOK(d)'
      BY <2>2, <2>3, <2>5, <3>1 DEF IntactOK, Intact
    <3> QED BY <2>6, <3>2, <3>3
  <2> QED BY <2>1, <2>7, <2>8, <2>9
<1> QED BY <1>2, <1>3, <1>4, <1>5, <1>6, <1>7 DEF Request, Write

----------------------------------------------------------------------------
(* The page.                                                               *)

\* The page is the part of the descriptors past the checkpoint that precedes
\* every other one past it.
LEMMA PageIsPrefix ==
  ASSUME NEW all, DOMAIN all \subseteq Docs, \A d \in DOMAIN all : all[d].updatedAt \in Nat
  PROVE  /\ DOMAIN Page(all) \subseteq Past(all)
         /\ \A d \in DOMAIN Page(all) : Page(all)[d] = all[d]
         /\ \A d \in Past(all) \ DOMAIN Page(all), e \in DOMAIN Page(all) :
              Precedes(all[e].updatedAt, e, all[d].updatedAt, d)
<1> DEFINE first(d) == {e \in Past(all) : Precedes(all[e].updatedAt, e, all[d].updatedAt, d)}
<1>1. /\ DOMAIN Page(all) = {e \in Past(all) : Cardinality(first(e)) < PageSize}
      /\ \A d \in DOMAIN Page(all) : Page(all)[d] = all[d]
  BY DEF Page
<1>2. Past(all) \subseteq Docs /\ Past(all) \subseteq DOMAIN all /\ Docs \subseteq Nat /\ IsFiniteSet(Docs)
  BY ConstantsAssumption DEF Past
<1>3. ASSUME NEW d \in Past(all) \ DOMAIN Page(all), NEW e \in DOMAIN Page(all),
             ~Precedes(all[e].updatedAt, e, all[d].updatedAt, d)
      PROVE  FALSE
  <2>1. d \in Nat /\ e \in Nat /\ d # e /\ all[d].updatedAt \in Nat /\ all[e].updatedAt \in Nat
    BY <1>1, <1>2, <1>3
  <2>2. Precedes(all[d].updatedAt, d, all[e].updatedAt, e)
    BY <1>3, <2>1 DEF Precedes
  <2>3. first(d) \subseteq first(e)
    <3>1. ASSUME NEW c \in first(d)
          PROVE  c \in first(e)
      <4>1. c \in Nat /\ all[c].updatedAt \in Nat /\ c \in Past(all)
        BY <1>2
      <4>2. Precedes(all[c].updatedAt, c, all[d].updatedAt, d)
        OBVIOUS
      <4>3. Precedes(all[c].updatedAt, c, all[e].updatedAt, e)
        BY <2>1, <2>2, <4>1, <4>2 DEF Precedes
      <4> QED BY <4>1, <4>3
    <3> QED BY <3>1
  <2>4. first(e) \subseteq Docs
    BY <1>2
  <2> HIDE DEF first
  <2>5. IsFiniteSet(first(e)) /\ IsFiniteSet(first(d))
    BY <1>2, <2>3, <2>4, FS_Subset
  <2>6. Cardinality(first(d)) <= Cardinality(first(e))
    BY <2>3, <2>5, FS_Subset
  <2>7. Cardinality(first(e)) \in Nat /\ Cardinality(first(d)) \in Nat
    BY <2>5, FS_CardinalityType
  <2>8. Cardinality(first(e)) < PageSize /\ ~(Cardinality(first(d)) < PageSize)
    BY <1>1, <1>3
  <2> QED BY <2>6, <2>7, <2>8, ConstantsAssumption
<1> QED BY <1>1, <1>3

----------------------------------------------------------------------------
(* The pull.                                                               *)

\* The descriptors after the sidecar of d is read, before the page is cut.
Gathered(d) ==
  IF ~Included(d) THEN found
  ELSE With(found, d, IF listed[d] = "live" THEN LiveDescriptor(d) ELSE Tombstone(d))

LEMMA PullSidecarStep ==
  ASSUME TypeOK, PullInv, FlowInv, NEW d \in Docs, PullSidecar(d)
  PROVE  /\ phase = "sidecars" /\ phase' \in {"sidecars", "bodies"}
         /\ d \in DOMAIN listed /\ DOMAIN listed' = DOMAIN listed \ {d}
         /\ \A e \in DOMAIN listed' : listed'[e] = listed[e]
         /\ DOMAIN body = {} /\ body' = body
         /\ DOMAIN Gathered(d) \subseteq DOMAIN found \cup {d}
         /\ \A e \in DOMAIN Gathered(d) :
              /\ Gathered(d)[e] \in Descriptor /\ Gathered(d)[e].version <= VersionOf(e)
              /\ (replica[e] # None => replica[e].version <= Gathered(d)[e].version)
         /\ \A e \in DOMAIN found \ {d} : e \in DOMAIN Gathered(d) /\ Gathered(d)[e] = found[e]
         /\ IF phase' = "bodies" THEN found' = Page(Gathered(d)) /\ DOMAIN listed = {d}
            ELSE found' = Gathered(d)
<1>1. /\ phase = "sidecars" /\ phase' \in {"sidecars", "bodies"} /\ d \in DOMAIN listed /\ body' = body
      /\ DOMAIN listed' = DOMAIN listed \ {d} /\ \A e \in DOMAIN listed' : listed'[e] = listed[e]
  BY DEF PullSidecar, Without
<1>2. IF phase' = "bodies" THEN found' = Page(Gathered(d)) /\ DOMAIN listed = {d}
      ELSE found' = Gathered(d)
  BY DEF PullSidecar, Gathered
<1>3. DOMAIN body = {}
  BY <1>1 DEF PullInv
<1> DEFINE entry == IF listed[d] = "live" THEN LiveDescriptor(d) ELSE Tombstone(d)
<1>4. ASSUME Included(d)
      PROVE  /\ entry \in Descriptor /\ entry.version = VersionOf(d)
             /\ (side[d] # None => entry.updatedAt = side[d].updatedAt)
  <2>1. CASE side[d] # None
    <3>1. side[d] \in Sidecar
      BY <2>1 DEF TypeOK
    <3> QED BY <2>1, <3>1 DEF LiveDescriptor, Tombstone, Descriptor, Sidecar, VersionOf
  <2>2. CASE side[d] = None
    <3>1. listed[d] = "live" /\ files[d].json # None
      BY <1>1, <1>4, <2>2 DEF PullInv, Included
    <3>2. files[d].json \in File
      BY <3>1 DEF TypeOK, Formats
    <3> QED BY <2>2, <3>1, <3>2 DEF LiveDescriptor, Descriptor, VersionOf, File
  <2> QED BY <2>1, <2>2
<1>5. ASSUME NEW e \in DOMAIN found
      PROVE  /\ found[e] \in Descriptor /\ found[e].version <= VersionOf(e)
             /\ replica[e] # None => replica[e].version <= found[e].version
  BY DEF TypeOK, FlowInv
<1>6. Included(d) /\ replica[d] # None => replica[d].version <= entry.version
  BY <1>4 DEF FlowInv
<1>7. VersionOf(d) \in Nat
  BY VersionsTyped
<1> HIDE DEF entry
<1>8. CASE Included(d)
  <2>1. Gathered(d) = With(found, d, entry)
    BY <1>8 DEF Gathered, entry
  <2>2. /\ DOMAIN Gathered(d) = DOMAIN found \cup {d} /\ Gathered(d)[d] = entry
        /\ \A e \in DOMAIN found \ {d} : Gathered(d)[e] = found[e]
    BY <2>1 DEF With
  <2>3. ASSUME NEW e \in DOMAIN Gathered(d)
        PROVE  /\ Gathered(d)[e] \in Descriptor /\ Gathered(d)[e].version <= VersionOf(e)
               /\ replica[e] # None => replica[e].version <= Gathered(d)[e].version
    <3>1. CASE e = d
      BY <1>4, <1>6, <1>7, <1>8, <2>2, <3>1
    <3>2. CASE e # d
      BY <1>5, <2>2, <3>2
    <3> QED BY <3>1, <3>2
  <2> QED BY <1>1, <1>2, <1>3, <2>2, <2>3
<1>9. CASE ~Included(d)
  <2>1. Gathered(d) = found
    BY <1>9 DEF Gathered
  <2> QED BY <1>1, <1>2, <1>3, <1>5, <2>1
<1> QED BY <1>8, <1>9

\* What a pull step, the clock or a crash leaves alone.
LEMMA StoreUntouched ==
  ASSUME Tick \/ Pull \/ UNCHANGED vars
  PROVE  UNCHANGED <<files, side, writer, issued, torn, faults>>
BY DEF Tick, Pull, PullList, PullSidecar, PullBody, PullReply, storeVars, vars

LEMMA PullTyped ==
  ASSUME TypeOK, PullInv, FlowInv, Pull
  PROVE  TypeOK' /\ PullInv'
<1> DEFINE PullPart ==
      /\ phase \in {"idle", "sidecars", "bodies"}
      /\ \A d \in DOMAIN found : d \in Docs /\ found[d] \in Descriptor
      /\ \A d \in DOMAIN body : d \in DOMAIN found /\ body[d] \in Nat \cup {None}
      /\ replica \in [Docs -> Document \cup {None}]
      /\ checkpoint \in Checkpoint
      /\ caughtUp \in BOOLEAN
      /\ late \subseteq Docs /\ landed \subseteq Docs /\ revived \subseteq Docs
<1>1. UNCHANGED <<files, side, writer, clock, issued, torn, faults>>
  BY DEF Pull, PullList, PullSidecar, PullBody, PullReply, storeVars
<1>2. CASE PullList
  <2>1. PICK winner \in [Docs -> Formats \cup {None}] :
          listed' = [d \in {e \in Docs : winner[e] = "json" \/ (winner[e] = None /\ side[e] # None)} |->
                       IF winner[d] = "json" THEN "live" ELSE "dead"]
    BY <1>2 DEF PullList
  <2>2. /\ phase' \in {"sidecars", "bodies"} /\ found' = Nothing /\ body' = Nothing /\ landed' = {}
        /\ UNCHANGED <<replica, checkpoint, caughtUp, late, revived>>
    BY <1>2 DEF PullList, replicaVars
  <2>3. PullPart'
    BY <2>2 DEF TypeOK, Nothing
  <2>4. PullInv'
    BY <1>1, <2>1, <2>2 DEF PullInv, Nothing
  <2> QED BY <1>1, <2>3, <2>4 DEF TypeOK
<1>3. ASSUME NEW d \in Docs, PullSidecar(d)
      PROVE  TypeOK' /\ PullInv'
  <2>1. UNCHANGED <<replica, checkpoint, caughtUp, late, revived>> /\ landed' \subseteq landed
    BY <1>3 DEF PullSidecar, replicaVars
  <2>2. ASSUME NEW e \in DOMAIN found'
        PROVE  e \in Docs /\ found'[e] \in Descriptor
    <3>1. /\ DOMAIN Gathered(d) \subseteq Docs
          /\ \A c \in DOMAIN Gathered(d) : Gathered(d)[c] \in Descriptor
      BY <1>3, PullSidecarStep DEF TypeOK
    <3>2. CASE phase' = "bodies"
      <4>1. found' = Page(Gathered(d))
        BY <1>3, <3>2, PullSidecarStep
      <4>2. /\ DOMAIN Page(Gathered(d)) \subseteq DOMAIN Gathered(d)
            /\ \A c \in DOMAIN Page(Gathered(d)) : Page(Gathered(d))[c] = Gathered(d)[c]
        BY DEF Page, Past
      <4> QED BY <2>2, <3>1, <4>1, <4>2
    <3>3. CASE phase' # "bodies"
      BY <1>3, <2>2, <3>1, <3>3, PullSidecarStep
    <3> QED BY <3>2, <3>3
  <2>3. DOMAIN body' = {} /\ phase' \in {"sidecars", "bodies"}
    BY <1>3, PullSidecarStep
  <2>4. PullPart'
    BY <2>1, <2>2, <2>3 DEF TypeOK
  <2>5. PullInv'
    <3>1. DOMAIN listed' \subseteq DOMAIN listed /\ \A e \in DOMAIN listed' : listed'[e] = listed[e]
      BY <1>3, PullSidecarStep
    <3> QED BY <1>1, <2>3, <3>1 DEF PullInv
  <2> QED BY <1>1, <2>4, <2>5 DEF TypeOK
<1>4. ASSUME NEW d \in Docs, PullBody(d)
      PROVE  TypeOK' /\ PullInv'
  <2>1. /\ d \in DOMAIN found /\ phase = "bodies"
        /\ UNCHANGED <<replica, checkpoint, caughtUp, late, landed, revived, phase, listed, found>>
    BY <1>4 DEF PullBody, replicaVars
  <2> DEFINE value == IF found[d].deleted \/ files[d].json = None THEN None ELSE files[d].json.number
  <2>2. value \in Nat \cup {None}
    BY DEF TypeOK, Formats, File
  <2>3. body' = With(body, d, value)
    BY <1>4 DEF PullBody
  <2> HIDE DEF value
  <2>4. \A e \in DOMAIN body' : e \in DOMAIN found /\ body'[e] \in Nat \cup {None}
    BY <2>1, <2>2, <2>3 DEF With, TypeOK
  <2>5. PullPart'
    BY <2>1, <2>4 DEF TypeOK
  <2>6. PullInv'
    BY <1>1, <2>1 DEF PullInv
  <2> QED BY <1>1, <2>5, <2>6 DEF TypeOK
<1>5. CASE PullReply
  <2>1. /\ phase' = "idle" /\ listed' = Nothing /\ found' = Nothing /\ body' = Nothing /\ landed' = {}
        /\ DOMAIN body = DOMAIN found /\ caughtUp' \in BOOLEAN
    BY <1>5 DEF PullReply
  <2>2. replica' \in [Docs -> Document \cup {None}]
    <3>1. ASSUME NEW d \in DOMAIN found
          PROVE  Delivered(d) \in Document
      <4>1. found[d] \in Descriptor /\ body[d] \in Nat \cup {None}
        BY <2>1 DEF TypeOK
      <4> QED BY <4>1 DEF Delivered, Document, Descriptor
    <3> QED BY <1>5, <3>1 DEF PullReply, TypeOK
  <2>3. checkpoint' \in Checkpoint
    <3>1. ASSUME NEW last \in DOMAIN found
          PROVE  [at |-> found[last].updatedAt, id |-> last] \in Checkpoint
      BY ConstantsAssumption DEF TypeOK, Descriptor, Checkpoint
    <3> QED BY <1>5, <3>1 DEF PullReply, TypeOK
  <2>4. late' \subseteq Docs /\ revived' \subseteq Docs
    BY <1>5 DEF PullReply, Behind, Risen, TypeOK
  <2>5. PullPart'
    BY <2>1, <2>2, <2>3, <2>4 DEF Nothing
  <2>6. PullInv'
    BY <2>1 DEF PullInv, Nothing
  <2> QED BY <1>1, <2>5, <2>6 DEF TypeOK
<1> QED BY <1>2, <1>3, <1>4, <1>5 DEF Pull

LEMMA CrashTyped ==
  ASSUME TypeOK, Crash
  PROVE  TypeOK' /\ PullInv'
BY DEF TypeOK, PullInv, Crash, Nothing, Idle, replicaVars

LEMMA TypeStep ==
  ASSUME TypeOK, PullInv, StoreInv, FlowInv, [Next]_vars
  PROVE  TypeOK' /\ PullInv'
<1>1. ASSUME NEW d \in Docs, Request(d) \/ Write(d)
      PROVE  TypeOK' /\ PullInv'
  <2>1. TypeOK'
    BY <1>1, WriterTyped
  <2>2. PullInv'
    <3>1. UNCHANGED <<phase, listed, found, body>>
      BY <1>1, WriterKeepsOthers DEF OthersKept, pullVars
    <3>2. ASSUME NEW e \in Docs, side[e] # None PROVE side'[e] # None
      <4>1. CASE e # d
        BY <1>1, <3>2, <4>1, WriterKeepsOthers DEF OthersKept
      <4>2. CASE e = d /\ WriteSidecar(d)
        <5>1. writer[d].op \in Formats \cup {"meta"} \cup Deletes
          BY <4>2 DEF StoreInv, WriterOK, WriteSidecar
        <5> QED BY <4>2, <5>1, SidecarTyped DEF WriteSidecar, TypeOK
      <4>3. CASE e = d /\ ~WriteSidecar(d)
        BY <1>1, <3>2, <4>3 DEF Request, Write, Publish, Edit, Remove, Begin, Prune, Stamp
      <4> QED BY <4>1, <4>2, <4>3
    <3> QED BY <3>1, <3>2 DEF PullInv
  <2> QED BY <2>1, <2>2
<1>2. CASE Tick \/ UNCHANGED vars
  <2>1. UNCHANGED <<files, side, writer, issued, torn, faults, pullVars, replicaVars, landed, late, revived>>
        /\ clock' \in Nat
    BY <1>2 DEF Tick, vars, storeVars, TypeOK
  <2> QED BY <2>1 DEF TypeOK, PullInv, pullVars, replicaVars
<1> QED BY <1>1, <1>2, PullTyped, CrashTyped DEF Next

LEMMA StoreStep ==
  ASSUME TypeOK, StoreInv, [Next]_vars
  PROVE  StoreInv'
<1>1. ASSUME NEW d \in Docs, NEW e \in Docs, Request(d) \/ Write(d)
      PROVE  (WriterOK(e) /\ ContentOK(e) /\ IntactOK(e))'
  <2>1. CASE e = d
    BY <1>1, <2>1, OwnStoreStep
  <2>2. CASE e # d
    <3>1. files'[e] = files[e] /\ side'[e] = side[e] /\ writer'[e] = writer[e] /\ (e \in torn' <=> e \in torn)
      BY <1>1, <2>2, WriterKeepsOthers DEF OthersKept
    <3>2. Live(e)' = Live(e) /\ VersionOf(e)' = VersionOf(e)
      BY <3>1 DEF Live, VersionOf
    <3> QED BY <3>1, <3>2 DEF StoreInv, WriterOK, ContentOK, IntactOK, Intact
  <2> QED BY <2>1, <2>2
<1>2. CASE Tick \/ Pull \/ UNCHANGED vars
  <2>1. UNCHANGED <<files, side, writer, torn>>
    BY <1>2, StoreUntouched
  <2> QED BY <2>1 DEF StoreInv, WriterOK, ContentOK, IntactOK, Intact, Live, VersionOf
<1>3. CASE Crash
  <2>1. /\ files' = files /\ side' = side /\ \A d \in Docs : writer'[d].pc = "idle"
        /\ \A d \in Docs : d \notin torn' => d \notin torn /\ (writer[d].pc = "idle" \/ writer[d].op = "meta")
    BY <1>3 DEF Crash, Idle
  <2>2. ASSUME NEW d \in Docs
        PROVE  (WriterOK(d) /\ ContentOK(d) /\ IntactOK(d))'
    <3>1. Live(d)' = Live(d) /\ VersionOf(d)' = VersionOf(d)
      BY <2>1 DEF Live, VersionOf
    <3> QED BY <2>1, <3>1 DEF StoreInv, WriterOK, ContentOK, IntactOK, Intact
  <2> QED BY <2>2 DEF StoreInv
<1> QED BY <1>1, <1>2, <1>3 DEF Next, StoreInv

----------------------------------------------------------------------------
(* Versions on their way to the replica.                                   *)

LEMMA VersionGrows ==
  ASSUME TypeOK, StoreInv, [Next]_vars, NEW e \in Docs
  PROVE  VersionOf(e) \in Nat /\ VersionOf(e)' \in Nat /\ VersionOf(e) <= VersionOf(e)'
<1>1. VersionOf(e) \in Nat
  BY VersionsTyped
<1>2. CASE WriteSidecar(e)
  <2>1. writer[e].op \in Formats \cup {"meta"} \cup Deletes
    BY <1>2 DEF StoreInv, WriterOK, WriteSidecar
  <2>2. side'[e] = SidecarOf(e) /\ SidecarOf(e) # None
    BY <1>2, <2>1, SidecarTyped DEF WriteSidecar, TypeOK
  <2>3. SidecarOf(e).version \in {VersionOf(e), VersionOf(e) + 1}
    BY <1>1 DEF SidecarOf
  <2>4. VersionOf(e)' = SidecarOf(e).version
    BY <2>2 DEF VersionOf
  <2> QED BY <1>1, <2>3, <2>4
<1>3. CASE ~WriteSidecar(e)
  <2>1. side'[e] = side[e]
    <3>1. ASSUME NEW d \in Docs, d # e, Request(d) \/ Write(d) PROVE side'[e] = side[e]
      BY <3>1, WriterKeepsOthers DEF OthersKept
    <3>2. ASSUME Request(e) \/ Prune(e) \/ Stamp(e) PROVE side'[e] = side[e]
      BY <3>2 DEF Request, Publish, Edit, Remove, Begin, Prune, Stamp
    <3>3. Crash => side' = side
      BY DEF Crash
    <3> QED BY <1>3, <3>1, <3>2, <3>3, StoreUntouched DEF Next, Write
  <2> QED BY <1>1, <2>1 DEF VersionOf
<1> QED BY <1>2, <1>3

LEMMA FlowStep ==
  ASSUME TypeOK, PullInv, StoreInv, FlowInv, DeliveredContentIsCurrent, [Next]_vars
  PROVE  FlowInv' /\ DeliveredContentIsCurrent'
<1>1. /\ \A e \in Docs : VersionOf(e) \in Nat /\ VersionOf(e)' \in Nat /\ VersionOf(e) <= VersionOf(e)'
      /\ DOMAIN found \subseteq Docs /\ \A e \in DOMAIN found : found[e].version \in Nat
      /\ \A e \in Docs : replica[e] # None => replica[e].version \in Nat
  BY VersionGrows DEF TypeOK, Descriptor, Document
<1>2. CASE UNCHANGED <<found, body, replica>>
  <2>1. ASSUME NEW d \in DOMAIN found PROVE found[d].version <= VersionOf(d)'
    <3>1. d \in Docs /\ found[d].version <= VersionOf(d)
      BY <1>1 DEF FlowInv
    <3> QED BY <1>1, <3>1
  <2>2. ASSUME NEW d \in Docs, replica[d] # None PROVE replica[d].version <= VersionOf(d)'
    <3>1. replica[d].version <= VersionOf(d)
      BY <2>2 DEF FlowInv
    <3> QED BY <1>1, <2>2, <3>1
  <2> QED BY <1>2, <2>1, <2>2 DEF FlowInv, DeliveredContentIsCurrent
<1>3. ASSUME DOMAIN found' = {}, DOMAIN body' = {}, replica' = replica
      PROVE  FlowInv' /\ DeliveredContentIsCurrent'
  <2>1. ASSUME NEW d \in Docs, replica[d] # None PROVE replica[d].version <= VersionOf(d)'
    <3>1. replica[d].version <= VersionOf(d)
      BY <2>1 DEF FlowInv
    <3> QED BY <1>1, <2>1, <3>1
  <2> QED BY <1>3, <2>1 DEF FlowInv, DeliveredContentIsCurrent
<1>4. ASSUME NEW d \in Docs, PullSidecar(d)
      PROVE  FlowInv' /\ DeliveredContentIsCurrent'
  <2>1. replica' = replica /\ side' = side /\ DOMAIN body' = {}
    BY <1>4, PullSidecarStep DEF PullSidecar, replicaVars, storeVars
  <2>2. \A e : VersionOf(e)' = VersionOf(e)
    BY <2>1 DEF VersionOf
  <2>3. \A e \in DOMAIN found' : e \in DOMAIN Gathered(d) /\ found'[e] = Gathered(d)[e]
    <3>1. /\ DOMAIN Page(Gathered(d)) \subseteq DOMAIN Gathered(d)
          /\ \A c \in DOMAIN Page(Gathered(d)) : Page(Gathered(d))[c] = Gathered(d)[c]
      BY DEF Page, Past
    <3> QED BY <1>4, <3>1, PullSidecarStep
  <2>4. \A e \in DOMAIN found' : found'[e].version <= VersionOf(e)
                             /\ (replica[e] # None => replica[e].version <= found'[e].version)
    BY <1>4, <2>3, PullSidecarStep
  <2> QED BY <2>1, <2>2, <2>4 DEF FlowInv, DeliveredContentIsCurrent
<1>5. ASSUME NEW d \in Docs, PullBody(d)
      PROVE  FlowInv' /\ DeliveredContentIsCurrent'
  <2>1. d \in DOMAIN found /\ UNCHANGED <<found, replica, side, files>>
    BY <1>5 DEF PullBody, replicaVars, storeVars
  <2> DEFINE value == IF found[d].deleted \/ files[d].json = None THEN None ELSE files[d].json.number
  <2>2. value # None => value >= found[d].version
    <3>1. CASE files[d].json # None
      <4>1. files[d].json.number >= VersionOf(d) /\ files[d].json.number \in Nat
        BY <3>1 DEF StoreInv, ContentOK, Formats, TypeOK, File
      <4>2. found[d].version <= VersionOf(d)
        BY <2>1 DEF FlowInv
      <4> QED BY <1>1, <2>1, <4>1, <4>2
    <3>2. CASE files[d].json = None
      BY <3>2
    <3> QED BY <3>1, <3>2
  <2>3. body' = With(body, d, value)
    BY <1>5 DEF PullBody
  <2> HIDE DEF value
  <2>4. \A e \in DOMAIN body' : body'[e] # None => body'[e] >= found[e].version
    BY <2>2, <2>3 DEF With, FlowInv
  <2>5. \A e : VersionOf(e)' = VersionOf(e)
    BY <2>1 DEF VersionOf
  <2> QED BY <2>1, <2>4, <2>5 DEF FlowInv, DeliveredContentIsCurrent
<1>6. CASE PullReply
  <2>1. /\ DOMAIN found' = {} /\ DOMAIN body' = {} /\ side' = side /\ DOMAIN body = DOMAIN found
        /\ \A e \in Docs : replica'[e] = IF e \in DOMAIN found THEN Delivered(e) ELSE replica[e]
    BY <1>6 DEF PullReply, Nothing, storeVars
  <2>2. \A e : VersionOf(e)' = VersionOf(e)
    BY <2>1 DEF VersionOf
  <2>3. ASSUME NEW e \in Docs, replica'[e] # None
        PROVE  /\ replica'[e].version <= VersionOf(e)
               /\ replica'[e].data # None => replica'[e].data >= replica'[e].version
    <3>1. CASE e \in DOMAIN found
      <4>0. replica'[e] = Delivered(e)
        BY <2>1, <3>1
      <4>1. replica'[e].version = found[e].version /\ replica'[e].data = body[e]
        BY <4>0 DEF Delivered
      <4>2. body[e] # None => body[e] >= found[e].version
        BY <2>1, <3>1 DEF FlowInv
      <4>3. found[e].version <= VersionOf(e)
        BY <3>1 DEF FlowInv
      <4> QED BY <4>1, <4>2, <4>3
    <3>2. CASE e \notin DOMAIN found
      <4>1. replica'[e] = replica[e]
        BY <2>1, <3>2
      <4> QED BY <2>3, <4>1 DEF FlowInv, DeliveredContentIsCurrent
    <3> QED BY <3>1, <3>2
  <2> QED BY <2>1, <2>2, <2>3 DEF FlowInv, DeliveredContentIsCurrent
<1>7. CASE PullList \/ Crash
  BY <1>3, <1>7 DEF PullList, Crash, Nothing, replicaVars
<1>8. CASE Tick \/ UNCHANGED vars
  BY <1>2, <1>8 DEF Tick, vars, pullVars, replicaVars
<1>9. ASSUME NEW d \in Docs, Request(d) \/ Write(d)
      PROVE  UNCHANGED <<found, body, replica>>
  BY <1>9, WriterKeepsOthers DEF OthersKept, pullVars, replicaVars
<1> QED BY <1>2, <1>4, <1>5, <1>6, <1>7, <1>8, <1>9 DEF Next, Pull
----------------------------------------------------------------------------
(* What stands still.                                                      *)

\* Whether d stands still and what it is in the feed depends on the files, the
\* sidecar, the writer and torn alone.
LEMMA SteadyFrame ==
  ASSUME NEW d \in Docs, files'[d] = files[d], side'[d] = side[d], writer'[d] = writer[d],
         d \in torn' <=> d \in torn
  PROVE  /\ Intact(d)' <=> Intact(d)
         /\ Steady(d)' <=> Steady(d)
         /\ Live(d)' = Live(d) /\ DescriptorOf(d)' = DescriptorOf(d)
BY DEF Intact, Steady, InFeed, Live, DescriptorOf

\* Only the publication of a sidecar, which is a landing, makes a Resource stand
\* still, or changes what stands still.
LEMMA SteadyBefore ==
  ASSUME TypeOK, StoreInv, [Next]_vars, NEW e \in Docs, Steady(e)', ~WriteSidecar(e)
  PROVE  Steady(e) /\ files'[e] = files[e] /\ side'[e] = side[e]
<1>1. CASE Request(e) \/ Write(e)
  <2>1. CASE \E format \in Formats : Publish(e, format)
    <3>1. writer'[e].pc = "prune" /\ writer'[e].op \in Formats
      BY <2>1 DEF Publish, Begin, WriterGoto, TypeOK
    <3> QED BY <3>1 DEF Steady, Intact, Formats
  <2>2. CASE Remove(e)
    <3>1. writer'[e].pc = "stamp" /\ writer'[e].op \in Deletes
      BY <2>2 DEF Remove, Begin, WriterGoto, TypeOK, Deletes
    <3> QED BY <3>1 DEF Steady, Intact, Deletes
  <2>3. CASE Prune(e)
    <3>1. writer'[e].pc = "stamp" /\ writer'[e].op = writer[e].op /\ writer[e].op \in Formats
      BY <2>3 DEF Prune, WriterGoto, TypeOK, StoreInv, WriterOK
    <3> QED BY <3>1 DEF Steady, Intact, Formats
  <2>4. CASE Edit(e)
    <3>1. files' = files /\ side' = side /\ torn' = torn /\ writer[e].pc = "idle"
      BY <2>4 DEF Edit, Begin, Idle
    <3> QED BY <3>1 DEF Steady, Intact, InFeed, Live
  <2>5. CASE Stamp(e)
    <3>1. /\ files' = files /\ side' = side /\ torn' = torn
          /\ writer'[e].pc = "sidecar" /\ writer'[e].op = writer[e].op
      BY <2>5 DEF Stamp, WriterGoto, TypeOK
    <3> QED BY <3>1 DEF Steady, Intact, InFeed, Live
  <2> QED BY <1>1, <2>1, <2>2, <2>3, <2>4, <2>5 DEF Request, Write
<1>2. ASSUME NEW d \in Docs, d # e, Request(d) \/ Write(d)
      PROVE  Steady(e) /\ files'[e] = files[e] /\ side'[e] = side[e]
  <2>1. files'[e] = files[e] /\ side'[e] = side[e] /\ writer'[e] = writer[e] /\ (e \in torn' <=> e \in torn)
    BY <1>2, WriterKeepsOthers DEF OthersKept
  <2> QED BY <2>1, SteadyFrame
<1>3. CASE Tick \/ Pull \/ UNCHANGED vars
  <2>1. UNCHANGED <<files, side, writer, torn>>
    BY <1>3, StoreUntouched
  <2> QED BY <2>1, SteadyFrame
<1>4. CASE Crash
  <2>1. /\ files' = files /\ side' = side
        /\ e \notin torn' => e \notin torn /\ (writer[e].pc = "idle" \/ writer[e].op = "meta")
    BY <1>4 DEF Crash
  <2> QED BY <2>1 DEF Steady, Intact, InFeed, Live
<1> QED BY <1>1, <1>2, <1>3, <1>4 DEF Next

\* What a listing, a sidecar read and a body read find of a Resource that stands
\* still.
LEMMA SteadyContent ==
  ASSUME TypeOK, StoreInv, NEW d \in Docs, Steady(d)
  PROVE  /\ side[d] \in Sidecar
         /\ ~side[d].deleted => Live(d) = {"json"} /\ files[d].json # None
                                 /\ files[d].json.number = side[d].version
         /\ side[d].deleted => Live(d) = {} /\ side[d].contentType = "json"
<1>1. side[d] \in Sidecar /\ IntactOK(d) /\ (side[d].deleted <=> side[d].contentType # None)
  BY DEF TypeOK, StoreInv, Steady
<1>2. /\ side[d].deleted <=> Live(d) = {}
      /\ \A f \in Live(d) : files[d][f].number = side[d].version
  BY <1>1 DEF IntactOK, Steady
<1>3. ~side[d].deleted => Live(d) = {"json"}
  BY <1>2 DEF Steady, InFeed
<1>4. side[d].deleted => Live(d) = {} /\ side[d].contentType = "json"
  BY <1>2 DEF Steady, InFeed
<1>5. Live(d) = {"json"} => files[d].json # None /\ files[d].json.number = side[d].version
  <2>1. ASSUME Live(d) = {"json"}
        PROVE  "json" \in Live(d)
    BY <2>1
  <2> QED BY <1>2, <2>1 DEF Live
<1> QED BY <1>1, <1>3, <1>4, <1>5
----------------------------------------------------------------------------
(* A pull sees what stands still.                                          *)

LEMMA IdleSeen ==
  ASSUME PullInv', phase' = "idle", NEW e \in Docs
  PROVE  SeenOK(e)'
BY DEF PullInv, SeenOK

\* The pull and what stands still are as they were.
LEMMA SeenFrame ==
  ASSUME NEW e \in Docs, SeenOK(e), Steady(e), e \notin landed, side'[e] = side[e],
         UNCHANGED <<phase, listed, found, body, checkpoint>>
  PROVE  SeenOK(e)'
<1>1. /\ DescriptorOf(e)' = DescriptorOf(e) /\ LiveDescriptor(e)' = LiveDescriptor(e)
      /\ Passed(e)' <=> Passed(e)
  BY DEF DescriptorOf, LiveDescriptor, Steady, Passed, After, Precedes
<1> QED BY <1>1 DEF SeenOK

LEMMA SeenOfList ==
  ASSUME TypeOK, StoreInv, PullList, NEW e \in Docs, Steady(e)
  PROVE  SeenOK(e)'
<1>1. PICK winner \in [Docs -> Formats \cup {None}] :
        /\ \A d \in Docs : IF Live(d) = {} THEN winner[d] = None ELSE winner[d] \in Live(d)
        /\ listed' = [d \in {c \in Docs : winner[c] = "json" \/ (winner[c] = None /\ side[c] # None)} |->
                       IF winner[d] = "json" THEN "live" ELSE "dead"]
  BY DEF PullList
<1>2. /\ phase' = IF listed' = Nothing THEN "bodies" ELSE "sidecars"
      /\ DOMAIN found' = {} /\ DOMAIN body' = {} /\ side' = side
  BY DEF PullList, Nothing, storeVars
<1>3. side[e] # None
  BY DEF Steady
<1>4. e \in DOMAIN listed' /\ listed'[e] = IF side[e].deleted THEN "dead" ELSE "live"
  <2>1. CASE side[e].deleted
    <3>1. winner[e] = None
      BY <1>1, <2>1, SteadyContent
    <3> QED BY <1>1, <1>3, <2>1, <3>1, ConstantsAssumption DEF Formats
  <2>2. CASE ~side[e].deleted
    <3>1. winner[e] = "json"
      BY <1>1, <2>2, SteadyContent
    <3> QED BY <1>1, <2>2, <3>1
  <2> QED BY <2>1, <2>2
<1>5. phase' = "sidecars"
  BY <1>2, <1>4 DEF Nothing
<1> QED BY <1>2, <1>4, <1>5 DEF SeenOK

\* What a sidecar read adds of a Resource that stands still is what it is, or
\* its tombstone as a live document's sidecar.
LEMMA GatheredSteady ==
  ASSUME TypeOK, PullInv, StoreInv, FlowInv, NEW d \in Docs, PullSidecar(d),
         NEW e \in Docs, SeenOK(e), Steady(e), e \notin landed \/ (e = d /\ Included(d))
  PROVE  /\ e \in DOMAIN listed' \/ e \in DOMAIN Gathered(d)
         /\ e \in DOMAIN Gathered(d) => Gathered(d)[e] \in {DescriptorOf(e), LiveDescriptor(e)}
<1>1. /\ phase = "sidecars" /\ d \in DOMAIN listed /\ DOMAIN listed' = DOMAIN listed \ {d}
      /\ DOMAIN Gathered(d) \subseteq DOMAIN found \cup {d}
      /\ \A c \in DOMAIN found \ {d} : c \in DOMAIN Gathered(d) /\ Gathered(d)[c] = found[c]
  BY PullSidecarStep
<1>2. CASE e # d
  <2>1. /\ e \in DOMAIN listed \cup DOMAIN found
        /\ e \in DOMAIN found => found[e] \in {DescriptorOf(e), LiveDescriptor(e)}
    BY <1>1, <1>2 DEF SeenOK
  <2> QED BY <1>1, <1>2, <2>1
<1>3. CASE e = d
  <2>1. side[d] # None /\ listed[d] \in {"live", "dead"}
    BY <1>1, <1>3 DEF Steady, PullInv
  <2>2. Included(d)
    <3>1. CASE d \notin landed
      <4>1. listed[d] = IF side[d].deleted THEN "dead" ELSE "live"
        BY <1>1, <1>3, <3>1 DEF SeenOK
      <4>2. side[d].deleted => side[d].contentType = "json"
        BY <1>3, SteadyContent
      <4> QED BY <2>1, <4>1, <4>2 DEF Included
    <3> QED BY <1>3, <3>1
  <2>3. CASE listed[d] = "live"
    <3>1. Gathered(d) = With(found, d, LiveDescriptor(d))
      BY <2>2, <2>3 DEF Gathered
    <3> QED BY <1>3, <3>1 DEF With
  <2>4. CASE listed[d] = "dead"
    <3>1. side[d].deleted = TRUE
      BY <1>3, <2>2, <2>4, SteadyContent DEF Included, Sidecar
    <3>2. Gathered(d) = With(found, d, Tombstone(d)) /\ Tombstone(d) = DescriptorOf(d)
      BY <2>2, <2>4, <3>1 DEF Gathered, Tombstone, DescriptorOf
    <3> QED BY <1>3, <3>2 DEF With
  <2> QED BY <2>1, <2>3, <2>4
<1> QED BY <1>2, <1>3

LEMMA SeenOfSidecar ==
  ASSUME TypeOK, PullInv, StoreInv, FlowInv, NEW d \in Docs, PullSidecar(d),
         NEW e \in Docs, SeenOK(e), Steady(e), e \notin landed \/ (e = d /\ Included(d))
  PROVE  SeenOK(e)'
<1>1. /\ UNCHANGED <<side, checkpoint>> /\ DOMAIN body' = {} /\ phase = "sidecars"
      /\ phase' \in {"sidecars", "bodies"} /\ d \notin DOMAIN listed'
      /\ \A c \in DOMAIN listed' : c \in DOMAIN listed /\ listed'[c] = listed[c]
      /\ DOMAIN Gathered(d) \subseteq Docs
      /\ \A c \in DOMAIN Gathered(d) : Gathered(d)[c] \in Descriptor
  BY PullSidecarStep DEF PullSidecar, storeVars, replicaVars, TypeOK
<1>2. /\ DescriptorOf(e)' = DescriptorOf(e) /\ LiveDescriptor(e)' = LiveDescriptor(e)
      /\ Passed(e)' <=> Passed(e)
  BY <1>1 DEF DescriptorOf, LiveDescriptor, Steady, Passed, After, Precedes
<1>3. /\ e \in DOMAIN listed' \/ e \in DOMAIN Gathered(d)
      /\ e \in DOMAIN Gathered(d) => Gathered(d)[e] \in {DescriptorOf(e), LiveDescriptor(e)}
  BY GatheredSteady
<1>4. e \in DOMAIN listed' => listed'[e] = IF side[e].deleted THEN "dead" ELSE "live"
  BY <1>1 DEF SeenOK
<1>5. CASE phase' = "sidecars"
  <2>1. found' = Gathered(d)
    BY <1>5, PullSidecarStep
  <2> QED BY <1>1, <1>2, <1>3, <1>4, <1>5, <2>1 DEF SeenOK
<1>6. CASE phase' = "bodies"
  <2>1. found' = Page(Gathered(d)) /\ DOMAIN listed' = {}
    BY <1>6, PullSidecarStep
  <2>2. \A c \in DOMAIN Gathered(d) : Gathered(d)[c].updatedAt \in Nat
    BY <1>1 DEF Descriptor
  <2>3. /\ DOMAIN found' \subseteq Past(Gathered(d))
        /\ \A c \in DOMAIN found' : found'[c] = Gathered(d)[c]
        /\ \A b \in Past(Gathered(d)) \ DOMAIN found', c \in DOMAIN found' :
             Precedes(Gathered(d)[c].updatedAt, c, Gathered(d)[b].updatedAt, b)
    BY <1>1, <2>1, <2>2, PageIsPrefix
  <2>4. e \in DOMAIN Gathered(d) /\ Gathered(d)[e] \in {DescriptorOf(e), LiveDescriptor(e)}
    BY <1>3, <2>1
  <2>5. Gathered(d)[e].updatedAt = side[e].updatedAt
    BY <2>4 DEF DescriptorOf, LiveDescriptor, Steady
  <2>6. ~Passed(e) => e \in Past(Gathered(d))
    BY <2>4, <2>5 DEF Passed, Past
  <2>7. \/ e \in DOMAIN found'
        \/ Passed(e)
        \/ \A c \in DOMAIN found' : Precedes(found'[c].updatedAt, c, side[e].updatedAt, e)
    BY <2>3, <2>5, <2>6
  <2>8. e \in DOMAIN found' => found'[e] \in {DescriptorOf(e), LiveDescriptor(e)}
    BY <2>3, <2>4
  <2> QED BY <1>1, <1>2, <1>6, <2>1, <2>7, <2>8 DEF SeenOK
<1> QED BY <1>1, <1>5, <1>6

LEMMA SeenOfBody ==
  ASSUME TypeOK, PullInv, StoreInv, NEW d \in Docs, PullBody(d),
         NEW e \in Docs, SeenOK(e), Steady(e), e \notin landed
  PROVE  SeenOK(e)'
<1>1. UNCHANGED <<side, checkpoint, phase, listed, found>> /\ d \in DOMAIN found /\ phase = "bodies"
  BY DEF PullBody, storeVars, replicaVars
<1>2. /\ DescriptorOf(e)' = DescriptorOf(e) /\ LiveDescriptor(e)' = LiveDescriptor(e)
      /\ Passed(e)' <=> Passed(e)
  BY <1>1 DEF DescriptorOf, LiveDescriptor, Steady, Passed, After, Precedes
<1> DEFINE value == IF found[d].deleted \/ files[d].json = None THEN None ELSE files[d].json.number
<1>3. body' = With(body, d, value)
  BY DEF PullBody
<1>4. e = d /\ found[e] = DescriptorOf(e) => value = IF side[e].deleted THEN None ELSE side[e].version
  <2>1. ASSUME e = d, found[e] = DescriptorOf(e)
        PROVE  found[d].deleted = side[d].deleted
    BY <2>1 DEF DescriptorOf
  <2> QED BY <2>1, SteadyContent
<1> HIDE DEF value
<1>5. e \in DOMAIN body' /\ found[e] = DescriptorOf(e) => body'[e] = IF side[e].deleted THEN None ELSE side[e].version
  BY <1>3, <1>4 DEF With, SeenOK
<1> QED BY <1>1, <1>2, <1>5 DEF SeenOK

LEMMA SeenStep ==
  ASSUME TypeOK, PullInv, PullInv', StoreInv, FlowInv, SeenInv, [Next]_vars
  PROVE  SeenInv'
<1> SUFFICES ASSUME NEW e \in Docs, e \notin landed', Steady(e)', phase' # "idle"
             PROVE  SeenOK(e)'
  BY IdleSeen DEF SeenInv, SeenOK
<1>1. CASE WriteSidecar(e)
  <2>1. e \in landed' \/ phase' = "idle"
    BY <1>1 DEF WriteSidecar, pullVars
  <2> QED BY <2>1
<1>2. CASE ~WriteSidecar(e)
  <2>1. Steady(e) /\ side'[e] = side[e]
    BY <1>2, SteadyBefore
  <2>2. SeenOK(e)
    BY DEF SeenInv
  <2>3. ASSUME NEW d \in Docs, Request(d) \/ Write(d)
        PROVE  SeenOK(e)'
    <3>1. UNCHANGED <<phase, listed, found, body, checkpoint>>
      BY <2>3, WriterKeepsOthers DEF OthersKept, pullVars, replicaVars
    <3>2. e \notin landed
      BY <2>3 DEF Request, Write, Publish, Edit, Remove, Begin, Prune, Stamp, WriteSidecar
    <3> QED BY <2>1, <2>2, <3>1, <3>2, SeenFrame
  <2>4. CASE Tick \/ UNCHANGED vars
    <3>1. UNCHANGED <<phase, listed, found, body, checkpoint, landed>>
      BY <2>4 DEF Tick, vars, pullVars, replicaVars
    <3> QED BY <2>1, <2>2, <3>1, SeenFrame
  <2>5. CASE PullList
    BY <2>1, <2>5, SeenOfList
  <2>6. ASSUME NEW d \in Docs, PullSidecar(d)
        PROVE  SeenOK(e)'
    <3>1. e \notin landed \/ (e = d /\ Included(d))
      BY <2>6 DEF PullSidecar
    <3> QED BY <2>1, <2>2, <2>6, <3>1, SeenOfSidecar
  <2>7. ASSUME NEW d \in Docs, PullBody(d)
        PROVE  SeenOK(e)'
    <3>1. e \notin landed
      BY <2>7 DEF PullBody
    <3> QED BY <2>1, <2>2, <2>7, <3>1, SeenOfBody
  <2>8. CASE PullReply \/ Crash
    BY <2>8 DEF PullReply, Crash
  <2> QED BY <2>3, <2>4, <2>5, <2>6, <2>7, <2>8 DEF Next, Pull
<1> QED BY <1>1, <1>2
----------------------------------------------------------------------------
(* What stands still behind the checkpoint is at the replica.              *)

LEMMA SyncFrame ==
  ASSUME NEW e \in Docs, SyncOK(e), Steady(e), e \notin late \cup revived, side'[e] = side[e],
         UNCHANGED <<replica, checkpoint>>
  PROVE  SyncOK(e)'
BY DEF SyncOK, Passed, After, Precedes, InSync

\* The answered page moves the checkpoint past nothing that it did not deliver.
LEMMA SyncOfReply ==
  ASSUME TypeOK, PullInv, StoreInv, PullReply,
         NEW e \in Docs, SeenOK(e), SyncOK(e), Steady(e), e \notin late', e \notin revived', Passed(e)'
  PROVE  InSync(e)'
<1>1. /\ side' = side /\ phase = "bodies" /\ DOMAIN body = DOMAIN found
      /\ late' = late \cup Behind(landed, checkpoint')
      /\ revived' = (revived \ DOMAIN found) \cup Risen
      /\ \A d \in Docs : replica'[d] = IF d \in DOMAIN found THEN Delivered(d) ELSE replica[d]
  BY DEF PullReply, storeVars
<1>2. side[e] # None /\ ~After(side[e].updatedAt, e, checkpoint')
  BY <1>1 DEF Steady, Passed, After
<1>3. e \notin late /\ e \notin landed
  BY <1>1, <1>2 DEF Behind
<1>4. CASE e \in DOMAIN found
  <2>1. found[e] = DescriptorOf(e) /\ body[e] = IF side[e].deleted THEN None ELSE side[e].version
    <3>1. found[e] \in {DescriptorOf(e), LiveDescriptor(e)}
      BY <1>3, <1>4 DEF SeenOK
    <3>2. CASE side[e].deleted
      <4>1. e \notin Risen
        BY <1>1
      <4>2. LiveDescriptor(e).version = side[e].version /\ ~LiveDescriptor(e).deleted
        BY <1>2 DEF LiveDescriptor
      <4>3. found[e] # LiveDescriptor(e)
        BY <1>2, <1>4, <3>2, <4>1, <4>2 DEF Risen
      <4> QED BY <1>1, <1>3, <1>4, <3>1, <4>3 DEF SeenOK
    <3>3. CASE ~side[e].deleted
      <4>1. LiveDescriptor(e) = DescriptorOf(e)
        <5>1. side[e].deleted = FALSE
          BY <3>3, SteadyContent DEF Sidecar
        <5> QED BY <1>2, <5>1 DEF LiveDescriptor, DescriptorOf
      <4> QED BY <1>1, <1>3, <1>4, <3>1, <4>1 DEF SeenOK
    <3> QED BY <3>2, <3>3
  <2>2. replica'[e] = Delivered(e)
    BY <1>1, <1>4
  <2>3. /\ Delivered(e).version = side[e].version /\ Delivered(e).metaVersion = side[e].metaVersion
        /\ Delivered(e).deleted = side[e].deleted
        /\ Delivered(e).data = IF side[e].deleted THEN None ELSE side[e].version
    BY <2>1 DEF Delivered, DescriptorOf
  <2>4. Delivered(e) # None
    <3>1. found[e] \in Descriptor /\ body[e] \in Nat \cup {None}
      BY <1>1, <1>4 DEF TypeOK
    <3>2. Delivered(e) \in Document
      BY <3>1 DEF Delivered, Document, Descriptor
    <3> QED BY <3>2, ConstantsAssumption
  <2> QED BY <1>1, <2>2, <2>3, <2>4 DEF InSync
<1>5. CASE e \notin DOMAIN found
  <2>1. replica'[e] = replica[e]
    BY <1>1, <1>5
  <2>2. Passed(e)
    <3>1. SUFFICES ASSUME ~Passed(e)
                   PROVE  FALSE
      OBVIOUS
    <3>2. \A d \in DOMAIN found : Precedes(found[d].updatedAt, d, side[e].updatedAt, e)
      BY <1>1, <1>3, <1>5, <3>1 DEF SeenOK
    <3>3. CASE checkpoint' = checkpoint
      BY <1>2, <3>1, <3>3 DEF Passed
    <3>4. ASSUME NEW last \in DOMAIN found, checkpoint' = [at |-> found[last].updatedAt, id |-> last]
          PROVE  FALSE
      BY <1>2, <3>2, <3>4 DEF After
    <3> QED BY <3>3, <3>4 DEF PullReply
  <2>3. InSync(e)
    <3>1. e \notin revived
      BY <1>1, <1>5
    <3> QED BY <1>3, <2>2, <3>1 DEF SyncOK
  <2> QED BY <1>1, <2>1, <2>3 DEF InSync
<1> QED BY <1>4, <1>5

LEMMA SyncStep ==
  ASSUME TypeOK, PullInv, StoreInv, SeenInv, SyncInv, [Next]_vars
  PROVE  SyncInv'
<1> SUFFICES ASSUME NEW e \in Docs, e \notin late', e \notin revived', Steady(e)', Passed(e)'
             PROVE  InSync(e)'
  BY DEF SyncInv, SyncOK
<1>1. CASE WriteSidecar(e)
  <2>1. /\ side'[e].updatedAt = writer[e].stamp /\ checkpoint' = checkpoint
        /\ late' = IF After(writer[e].stamp, e, checkpoint) THEN late \ {e} ELSE late \cup {e}
    BY <1>1 DEF WriteSidecar, SidecarOf, TypeOK, replicaVars
  <2> QED BY <2>1 DEF Passed
<1>2. CASE ~WriteSidecar(e)
  <2>1. Steady(e) /\ side'[e] = side[e]
    BY <1>2, SteadyBefore
  <2>2. SyncOK(e) /\ SeenOK(e)
    BY DEF SyncInv, SeenInv
  <2>3. ASSUME NEW d \in Docs, Request(d) \/ Write(d)
        PROVE  SyncOK(e)'
    <3>1. UNCHANGED <<replica, checkpoint>>
      BY <2>3, WriterKeepsOthers DEF OthersKept, replicaVars
    <3>2. e \notin late \cup revived
      <4>1. CASE d = e
        BY <1>2, <2>3, <4>1 DEF Request, Write, Publish, Edit, Remove, Begin, Prune, Stamp
      <4>2. CASE d # e
        BY <2>3, <4>2, WriterKeepsOthers DEF OthersKept
      <4> QED BY <4>1, <4>2
    <3> QED BY <2>1, <2>2, <3>1, <3>2, SyncFrame
  <2>4. ASSUME Tick \/ PullList \/ Crash \/ UNCHANGED vars \/ \E d \in Docs : PullSidecar(d) \/ PullBody(d)
        PROVE  SyncOK(e)'
    <3>1. UNCHANGED <<replica, checkpoint, late, revived>>
      BY <2>4 DEF Tick, PullList, PullSidecar, PullBody, Crash, vars, replicaVars
    <3> QED BY <2>1, <2>2, <3>1, SyncFrame
  <2>5. CASE PullReply
    BY <2>1, <2>2, <2>5, SyncOfReply
  <2> QED BY <2>3, <2>4, <2>5 DEF Next, Pull, SyncOK
<1> QED BY <1>1, <1>2

----------------------------------------------------------------------------
(* The theorems.                                                           *)

LEMMA InitInv == Init => IInv
<1> SUFFICES ASSUME Init
             PROVE  IInv
  OBVIOUS
<1>1. TypeOK
  BY DEF Init, TypeOK, Idle, Nothing, Checkpoint, Formats
<1>2. PullInv
  BY DEF Init, PullInv, Nothing
<1>3. StoreInv
  BY DEF Init, StoreInv, WriterOK, ContentOK, IntactOK, Live, Idle
<1>4. FlowInv /\ DeliveredContentIsCurrent
  BY DEF Init, FlowInv, DeliveredContentIsCurrent, Nothing
<1>5. SeenInv /\ SyncInv
  BY DEF Init, SeenInv, SeenOK, SyncInv, SyncOK, Steady
<1> QED BY <1>1, <1>2, <1>3, <1>4, <1>5 DEF IInv

LEMMA StepInv == IInv /\ [Next]_vars => IInv'
<1> SUFFICES ASSUME IInv, [Next]_vars
             PROVE  IInv'
  OBVIOUS
<1>1. TypeOK' /\ PullInv'
  BY TypeStep DEF IInv
<1>2. StoreInv'
  BY StoreStep DEF IInv
<1>3. FlowInv' /\ DeliveredContentIsCurrent'
  BY FlowStep DEF IInv
<1>4. SeenInv'
  BY <1>1, SeenStep DEF IInv
<1>5. SyncInv'
  BY SyncStep DEF IInv
<1> QED BY <1>1, <1>2, <1>3, <1>4, <1>5 DEF IInv

\* The inductive invariant holds of every behaviour of the writers and the pull.
THEOREM FeedInvariant == Spec => []IInv
BY InitInv, StepInv, PTL DEF Spec

\* The files, the sidecars, the pull's progress, the replica and the checkpoint keep
\* their types, and a sidecar records a content type exactly when it is a tombstone.
THEOREM FeedTypeCorrect == Spec => []TypeOK
<1>1. IInv => TypeOK
  BY DEF IInv
<1> QED BY <1>1, FeedInvariant, PTL

\* For any number of Resources, page size, writes, clock and crashes: a JSON
\* Resource behind the checkpoint is in sync at the replica, unless its sidecar was
\* published behind the checkpoint or too late for the pull that moved the
\* checkpoint past it, its tombstone was delivered as a live document, or a write
\* of it died after it changed the content.
THEOREM NothingElseLost == Spec => []LostOnlyToLateLanding
<1>1. ASSUME IInv
      PROVE  LostOnlyToLateLanding
  <2>1. ASSUME NEW d \in Docs \ (late \cup revived \cup torn), Settled(d), InFeed(d), Passed(d)
        PROVE  InSync(d)
    <3>1. Steady(d)
      BY <2>1 DEF Steady, Intact, Settled, Idle
    <3> QED BY <1>1, <2>1, <3>1 DEF IInv, SyncInv, SyncOK
  <2> QED BY <2>1 DEF LostOnlyToLateLanding, Passed
<1> QED BY <1>1, FeedInvariant, PTL

\* A document is never delivered with content older than the version it is
\* labelled with.
THEOREM DeliveredCurrent == Spec => []DeliveredContentIsCurrent
<1>1. IInv => DeliveredContentIsCurrent
  BY DEF IInv
<1> QED BY <1>1, FeedInvariant, PTL

\* What the replica holds of a Resource never goes back to an older version.
THEOREM ReplicaMovesForward == Spec => ReplicaVersionsIncrease
<1> DEFINE Forward == \A d \in Docs : replica[d] # None => replica'[d].version >= replica[d].version
<1>1. ASSUME IInv, [Next]_vars
      PROVE  [Forward]_replica
  <2>1. \A d \in Docs : replica[d] # None => replica[d].version \in Nat
    BY <1>1 DEF IInv, TypeOK, Document
  <2>2. CASE PullReply
    <3>1. ASSUME NEW d \in Docs, replica[d] # None
          PROVE  replica'[d].version >= replica[d].version
      <4>1. CASE d \in DOMAIN found
        <5>1. replica'[d] = Delivered(d)
          BY <2>2, <4>1 DEF PullReply
        <5>2. replica'[d].version = found[d].version
          BY <5>1 DEF Delivered
        <5>3. replica[d].version <= found[d].version /\ found[d].version \in Nat
          BY <1>1, <3>1, <4>1 DEF IInv, FlowInv, TypeOK, Descriptor
        <5> QED BY <2>1, <3>1, <5>2, <5>3
      <4>2. CASE d \notin DOMAIN found
        <5>1. replica'[d] = replica[d]
          BY <2>2, <4>2 DEF PullReply
        <5> QED BY <2>1, <3>1, <5>1
      <4> QED BY <4>1, <4>2
    <3> QED BY <3>1
  <2>3. CASE ~PullReply
    <3>1. ASSUME NEW d \in Docs, Request(d) \/ Write(d)
          PROVE  replica' = replica
      BY <1>1, <3>1, WriterKeepsOthers DEF IInv, OthersKept, replicaVars
    <3>2. Tick \/ PullList \/ Crash \/ UNCHANGED vars \/ (\E d \in Docs : PullSidecar(d) \/ PullBody(d))
          => replica' = replica
      BY DEF Tick, PullList, PullSidecar, PullBody, Crash, vars, replicaVars
    <3> QED BY <1>1, <2>3, <3>1, <3>2 DEF Next, Pull
  <2> QED BY <2>2, <2>3
<1> QED BY <1>1, FeedInvariant, PTL DEF Spec, ReplicaVersionsIncrease
===============================================================================
