---------------------------- MODULE ResourceContract ----------------------------
(***************************************************************************)
(* What the StorageBackend interface (src/src/types.ts) promises about one *)
(* Resource: every mutation is one atomic step on what the previous one    *)
(* left; the content counter and the metadata counter move independently,  *)
(* each by one per mutation; a delete goes on counting and keeps the       *)
(* creator; a content write re-declares the key-epoch stamp and keeps the  *)
(* metadata; a metadata write changes neither content nor its counter.     *)
(***************************************************************************)
EXTENDS Naturals

CONSTANTS Agents, Customs, None

VARIABLE resource

\* `stamped`: the epoch stamp, if any, describes the current content.
Resource ==
  [live : BOOLEAN, version : Nat, metaVersion : Nat, custom : Customs \cup {None},
   createdBy : Agents \cup {None}, stamped : BOOLEAN]

Init ==
  resource = [live |-> FALSE, version |-> 0, metaVersion |-> 0, custom |-> None,
              createdBy |-> None, stamped |-> FALSE]

\* writeResource: the creator is set by the first write ever, a tombstone
\* included in "ever".
Write ==
  \E agent \in Agents \cup {None}, stamp \in BOOLEAN :
    resource' = [resource EXCEPT
      !.live = TRUE,
      !.version = @ + 1,
      !.createdBy = IF resource.version = 0 THEN agent ELSE @,
      !.stamped = stamp]

\* deleteResource of a live Resource; of an absent one it is a stutter.
Delete ==
  /\ resource.live
  /\ resource' = [resource EXCEPT !.live = FALSE, !.version = @ + 1, !.metaVersion = 0,
                                  !.custom = None, !.stamped = FALSE]

\* writeResourceMetadata creates no Resource.
WriteMetadata ==
  /\ resource.live
  /\ \E custom \in Customs \cup {None}, stamp \in BOOLEAN :
       resource' = [resource EXCEPT !.metaVersion = @ + 1, !.custom = custom,
                                    !.stamped = @ \/ stamp]

Next == Write \/ Delete \/ WriteMetadata

Spec == Init /\ [][Next]_resource
=============================================================================
