----------------------------- MODULE MCCollection -----------------------------
(* Instances of Collection for TLC: workloads, one per question.           *)
EXTENDS Collection

CONSTANTS alice, bob, red, blue, e1, e2, e3, r1, r2, v1, v2

\* One request of each operation; the workloads vary the fields that matter.
Plain(op) ==
  [op |-> op, name |-> None, encryption |-> None, indexes |-> None, conditional |-> FALSE,
   agent |-> alice, item |-> r1, value |-> v1]

Keys(epochs, current) == [epochs |-> epochs, current |-> current]

\* Descriptions race with each other and with claimed and unclaimed writes.
MixedWorkload ==
  {[Plain("putCollection") EXCEPT !.name = red],
   [Plain("putCollection") EXCEPT !.name = blue, !.conditional = TRUE, !.agent = bob],
   [Plain("putCollection") EXCEPT !.encryption = Keys({e1}, e1), !.agent = bob],
   [Plain("putCollection") EXCEPT !.encryption = Keys({e1, e2}, e2)],
   [Plain("putCollection") EXCEPT !.encryption = Keys({e1, e3}, e3), !.conditional = TRUE],
   [Plain("putCollection") EXCEPT !.indexes = "content"],
   [Plain("putCollection") EXCEPT !.indexes = "cleared"],
   Plain("putItem"), [Plain("putItem") EXCEPT !.item = r2],
   [Plain("putMeta") EXCEPT !.item = r2], Plain("deleteItem")}

\* Claims on both halves of a Resource, sent one at a time.
ClaimWorkload ==
  {[Plain("putCollection") EXCEPT !.indexes = "content"],
   [Plain("putCollection") EXCEPT !.indexes = "custom"],
   Plain("putItem"), [Plain("putItem") EXCEPT !.item = r2, !.value = v2],
   Plain("putMeta"), [Plain("putMeta") EXCEPT !.item = r2]}
==============================================================================
