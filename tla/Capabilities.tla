----------------------------- MODULE Capabilities -----------------------------
(***************************************************************************)
(* How a request is authorised (src/zcap.ts, lib/revocations.ts,           *)
(* lib/clientAnnexClause.ts, policy.ts): operators without state, used by  *)
(* Authority.                                                              *)
(*                                                                         *)
(* A request is signed with a key and names a chain of delegated           *)
(* capabilities, the root left out: the empty chain is a root invocation.  *)
(* The root capability is synthesised, with the scope's stored controller. *)
(* A DID is a `did:key`, its own and only key, or the self-hosted          *)
(* `did:webvh`, whose keys are those of the document its history log holds *)
(* now.  Signatures themselves belong to the capability library.           *)
(***************************************************************************)
EXTENDS Naturals, Sequences

CONSTANTS
  Capability,  \* the delegated capabilities, by name; see CapabilityType
  Document,    \* what the history log resolves to after its n-th entry, n >= 1
  OwnerOf,     \* per key: the DID it belongs to
  Webvh,       \* the self-hosted did:webvh
  MaxChain,    \* KMS_MAX_CHAIN_LENGTH, root included
  None         \* an absent value

Scopes == {"space", "keystore"}
Levels == {"space", "collection", "resource"}
Verbs == {"GET", "PUT", "POST", "DELETE", "read", "write", "generateKey", "sign"}

\* controller: whom it is delegated to; proof: the key that signed it; root: the
\* target of the chain's root capability; target: "all" of the root, what lies "below"
\* it (the trailing-slash form "tree"), or only the history "log".
CapabilityType == [id : STRING, controller : STRING, proof : STRING,
                   root : Scopes \cup {"spaces"}, target : {"all", "tree", "log"},
                   actions : SUBSET Verbs, expires : Nat]

\* invocation / delegation: the keys of the two relationships; annex: the DID the
\* delegated-clients service entry points at.
DocumentType == [invocation : SUBSET STRING, delegation : SUBSET STRING, annex : STRING]

\* A document that could not be resolved (no log published) is 0.
NoDocument == 0

KeysOf(did, relationship, doc) ==
  IF did = Webvh
  THEN IF doc = NoDocument THEN {} ELSE Document[doc][relationship]
  ELSE {did}

----------------------------------------------------------------------------
(* Verification of an invocation.                                          *)

\* Who delegated the i-th capability of a chain rooted in `controller`.
Delegator(chain, controller, i) ==
  IF i = 1 THEN controller ELSE Capability[chain[i - 1]].controller

\* Who may invoke the chain's last capability.
Holder(chain, controller) == Delegator(chain, controller, Len(chain) + 1)

\* One link: signed by its delegator, and not widening what it came from.
LinkHolds(chain, controller, doc, i) ==
  LET cap == Capability[chain[i]]
  IN  /\ cap.proof \in KeysOf(Delegator(chain, controller, i), "delegation", doc)
      /\ i > 1 => /\ cap.root = Capability[chain[i - 1]].root
                  /\ cap.actions \subseteq Capability[chain[i - 1]].actions
                  /\ cap.expires <= Capability[chain[i - 1]].expires

\* The delegation chain alone, as a revocation submits it.
ChainHolds(chain, controller, root, doc, now) ==
  /\ chain # <<>>
  /\ \A i \in DOMAIN chain : /\ LinkHolds(chain, controller, doc, i)
                             /\ Capability[chain[i]].root = root
                             /\ now < Capability[chain[i]].expires

\* The chain covers the request: action, and target for a log-only capability.
Covers(chain, root, target, verb) ==
  \A i \in DOMAIN chain : LET cap == Capability[chain[i]]
                          IN  /\ verb \in cap.actions
                              /\ cap.target = "log" => target = "log"
                              /\ cap.target = "tree" => target \in {"below", "log"}

\* The invocation verifies: everything handleZcapVerify asks before its inspectors.
Verifies(signer, chain, controller, root, target, verb, doc, now) ==
  /\ signer \in KeysOf(Holder(chain, controller), "invocation", doc)
  /\ chain # <<>> => /\ ChainHolds(chain, controller, root, doc, now)
                     /\ Covers(chain, root, target, verb)
  /\ root = "keystore" => Len(chain) < MaxChain

\* A create is verified against the controller its own body names, with no resolver
\* for did:webvh keys and no revocation scope.
Consents(signer, chain, controller, root, verb, now) ==
  /\ chain = <<>> => OwnerOf[signer] = controller
  /\ Verifies(signer, chain, controller, root, "all", verb, NoDocument, now)

\* Every controller of a chain, the root's included: who may submit its revocation.
ChainControllers(chain, controller) ==
  {controller} \cup {Capability[chain[i]].controller : i \in DOMAIN chain}

\* A revocation roots in the scope, or in the revocation URL itself, whose root
\* capability belongs to every controller of the chain to be revoked.
RevocationVerifies(signer, chain, revoked, controller, root, verb, doc, now) ==
  \/ Verifies(signer, chain, controller, root, "all", verb, doc, now)
  \/ /\ chain = <<>>
     /\ \E did \in ChainControllers(revoked, controller) :
          signer \in KeysOf(did, "invocation", doc)

\* The DIDs whose keys a verification needs: only the did:webvh is looked up.
NeedsDocument(chain, controller) ==
  \/ controller = Webvh
  \/ \E i \in DOMAIN chain : Capability[chain[i]].controller = Webvh

----------------------------------------------------------------------------
(* Inspectors of a verified chain.                                         *)

\* The names a chain's revocation records have: the root has none.
Summaries(chain, controller) ==
  {[id |-> Capability[chain[i]].id, delegator |-> Delegator(chain, controller, i)] :
     i \in DOMAIN chain}

\* A key that may delegate and not invoke.
IsLadderKey(key, doc) ==
  /\ doc # NoDocument
  /\ key \in Document[doc].delegation \ Document[doc].invocation

\* The account document points at the delegation's only controller, or the delegation
\* writes the account's own log, or it is a read and write grant on a whole Space that
\* declares itself delegated-clients bookkeeping.
LadderAdmits(cap, doc, spaceType) ==
  \/ cap.controller = Document[doc].annex
  \/ cap.target = "log" /\ cap.actions = {"PUT"}
  \/ /\ cap.target = "tree"
     /\ cap.actions # {} /\ cap.actions \subseteq {"GET", "PUT"}
     /\ spaceType = "clients"

WebvhProofs(chain) ==
  {i \in DOMAIN chain : OwnerOf[Capability[chain[i]].proof] = Webvh}

AnnexClauseAdmits(chain, doc, spaceType) ==
  /\ doc # NoDocument
  /\ \A i \in WebvhProofs(chain) :
       IsLadderKey(Capability[chain[i]].proof, doc)
         => LadderAdmits(Capability[chain[i]], doc, spaceType)

----------------------------------------------------------------------------
(* Access-control policies.                                                *)

\* The levels a read of `level` consults.
Consulted(level) ==
  CASE level = "space" -> {"space"}
    [] level = "collection" -> {"space", "collection"}
    [] level = "resource" -> Levels

\* Mutant of Effective: the broadest level wins.
BroadestWins(policies) ==
  IF policies["space"] # None THEN policies["space"]
  ELSE IF policies["collection"] # None THEN policies["collection"]
       ELSE policies["resource"]

\* The most specific policy present wins; an unconsulted level is None.
Effective(policies) ==
  IF policies["resource"] # None THEN policies["resource"]
  ELSE IF policies["collection"] # None THEN policies["collection"]
       ELSE policies["space"]

\* Only a policy of a known type grants anything, and only reads.
Grants(policy, access) == policy = "PublicCanRead" /\ access = "read"

===============================================================================
