--------------------------- MODULE MCResourceStore ---------------------------
(* Instances of ResourceStore for TLC: workloads, one per question.        *)
EXTENDS ResourceStore, TLC

CONSTANTS json, text, alice, bob, red, blue, chunk0

\* One request of each operation; the workloads vary the fields that matter.
Plain(op) ==
  [op |-> op, type |-> json, ifMatch |-> None, ifNoneMatch |-> FALSE, agent |-> alice,
   stamp |-> FALSE, custom |-> None, chunk |-> chunk0]

MixedWorkload ==
  {Plain("put"), Plain("delete"),
   [Plain("put") EXCEPT !.type = text, !.agent = bob, !.stamp = TRUE],
   [Plain("put") EXCEPT !.ifMatch = 1, !.stamp = TRUE],
   [Plain("put") EXCEPT !.ifNoneMatch = TRUE, !.type = text, !.agent = None],
   [Plain("delete") EXCEPT !.ifMatch = 1],
   [Plain("putMeta") EXCEPT !.custom = red],
   [Plain("putMeta") EXCEPT !.custom = blue, !.ifMatch = 1, !.stamp = TRUE],
   [Plain("putMeta") EXCEPT !.ifNoneMatch = TRUE],
   Plain("get"), Plain("head"), Plain("putChunk"), Plain("deleteChunk")}

\* The slots are interchangeable; no property of these runs names one.
SlotSymmetry == Permutations(Slots)
==============================================================================
