--------------------------- MODULE MCPostgresStore ---------------------------
(* Instances of PostgresStore for TLC.                                     *)
EXTENDS PostgresStore, TLC

CONSTANTS alice, bob, red

Plain(op) ==
  [op |-> op, size |-> 1, ifMatch |-> None, ifNoneMatch |-> FALSE, agent |-> alice,
   stamp |-> FALSE, custom |-> None, claim |-> FALSE, live |-> TRUE, version |-> 1]

\* Bodies of no, one and two bytes, so that an overwrite can grow, shrink or
\* leave the counter alone.
MixedWorkload ==
  {Plain("put"), [Plain("put") EXCEPT !.size = 0],
   [Plain("put") EXCEPT !.size = 2, !.agent = bob, !.claim = TRUE],
   [Plain("put") EXCEPT !.ifNoneMatch = TRUE, !.agent = bob, !.stamp = TRUE],
   [Plain("put") EXCEPT !.ifMatch = 1],
   [Plain("putMeta") EXCEPT !.custom = red, !.claim = TRUE],
   [Plain("putMeta") EXCEPT !.ifMatch = 1, !.stamp = TRUE],
   Plain("delete"), [Plain("delete") EXCEPT !.ifMatch = 1],
   Plain("putChunk"), [Plain("putChunk") EXCEPT !.ifNoneMatch = TRUE],
   Plain("deleteChunk"), Plain("deleteCollection"),
   [Plain("import") EXCEPT !.version = 2, !.custom = red],
   [Plain("import") EXCEPT !.live = FALSE]}

\* A creator of the Resource, and an import of it.
ImportWorkload == {Plain("put"), Plain("import")}

SlotSymmetry == Permutations(Slots)
==============================================================================
