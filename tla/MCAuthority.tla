----------------------------- MODULE MCAuthority -----------------------------
(* Small instances of Authority.                                            *)
EXTENDS Authority, TLC

MCOwnerOf == "alice" :> "alice" @@ "bob" :> "bob" @@ "carol" :> "carol"
               @@ "key1" :> "webvh" @@ "key2" :> "webvh" @@ "ladder" :> "webvh"
               @@ "annex" :> "annex"

\* The second entry rotates the account's key and swaps the annex pointer.
MCDocument == <<[invocation |-> {"key1"}, delegation |-> {"key1", "ladder"}, annex |-> "annex"],
                [invocation |-> {"key2"}, delegation |-> {"key2", "ladder"}, annex |-> "bob"]>>

Everything == {"GET", "PUT", "POST", "DELETE"}
Cap(id, controller, proof, actions, expires) ==
  [id |-> id, controller |-> controller, proof |-> proof, root |-> "space",
   target |-> "all", actions |-> actions, expires |-> expires]

\* `again` is delegated under the id of `grant`, to last longer.
MCCapability ==
     "grant" :> Cap("c1", "bob", "alice", Everything, 1)
  @@ "again" :> Cap("c1", "bob", "alice", Everything, 2)
  @@ "sub" :> Cap("c2", "carol", "bob", {"GET", "POST"}, 1)
  @@ "annexed" :> Cap("c3", "annex", "ladder", {"GET", "PUT"}, 2)
  @@ "tree" :> [Cap("c4", "carol", "ladder", {"GET", "PUT"}, 2) EXCEPT !.target = "tree"]
  @@ "bridge" :> [Cap("c5", "carol", "ladder", {"PUT"}, 2) EXCEPT !.target = "log"]
  @@ "kms" :> [Cap("c6", "bob", "alice", {"read", "sign", "generateKey"}, 2)
                 EXCEPT !.root = "keystore"]

Req(kind, signer) ==
  [kind |-> kind, scope |-> "space", signer |-> signer, chain |-> <<>>, controller |-> None,
   type |-> None, level |-> "space", policy |-> None, version |-> NoDocument,
   target |-> <<>>, sequence |-> 0, bound |-> 0]
Put(signer, controller) == [Req("put", signer) EXCEPT !.controller = controller]
Post(signer, controller) == [Req("post", signer) EXCEPT !.controller = controller]
Under(r, chain) == [r EXCEPT !.chain = chain]
Revoke(signer, target) == [Req("revoke", signer) EXCEPT !.target = target]
Publish(signer, n) == [Req("publish", signer) EXCEPT !.version = n]
Policy(signer, level, policy) == [Req("policy", signer) EXCEPT !.level = level, !.policy = policy]
ReadOf(signer, level) == [Req("get", signer) EXCEPT !.level = level]
Keystore(r) == [r EXCEPT !.scope = "keystore"]
Update(signer, controller, sequence) ==
  Keystore([Req("update", signer) EXCEPT !.controller = controller, !.sequence = sequence])

Owned(did) == [controller |-> did, creator |-> did, type |-> "plain"]
Start(requests) ==
  [space |-> Owned("alice"), keystore |-> [controller |-> "alice", sequence |-> 0],
   keys |-> <<1, 2>>, log |-> NoDocument, revs |-> [c \in Scopes |-> <<>>],
   policies |-> [l \in Levels |-> None], requests |-> requests]
NoSpace(requests) == [Start(requests) EXCEPT !.space = None]
Promoted(requests) == [Start(requests) EXCEPT !.space = Owned("webvh"), !.log = 1]

MCScenarios == {
  \* a handover against the old controller's update, a cached reader and a deletion
  Start({Put("alice", "carol"), Put("alice", "alice"), Under(ReadOf("bob", "space"), <<"grant">>)}),
  Start({Put("alice", "carol"), Req("delete", "alice"), Policy("alice", "space", "other")}),
  \* deletion and another owner
  Start({Req("delete", "alice"), Post("carol", "carol"), ReadOf("alice", "space")}),
  \* creates at the same time, one of them vouched for, one by delegation
  NoSpace({Post("alice", "alice"), Put("carol", "carol"), Post(None, "bob")}),
  NoSpace({Post("alice", "alice"), Post("carol", "carol"), Put("carol", "carol")}),
  NoSpace({Under(Put("bob", "alice"), <<"grant">>), Post("carol", "alice"),
           [Put("alice", "alice") EXCEPT !.type = "clients"]}),
  \* promotion to the did:webvh, key rotation, delegations by the ladder key
  [Start({Put("alice", "webvh"), Put("key1", "carol"), Req("delete", "alice")}) EXCEPT !.log = 1],
  Promoted({Publish("key1", 2), Put("key1", "webvh"), Put("key2", "alice")}),
  Promoted({Publish("key1", 2), ReadOf("key1", "space"), Under(ReadOf("annex", "resource"), <<"annexed">>)}),
  Promoted({Under(Publish("carol", 2), <<"bridge">>), Put("alice", "webvh"),
            Under(ReadOf("carol", "collection"), <<"tree">>)}),
  [Promoted({Under(Policy("carol", "space", "PublicCanRead"), <<"tree">>), Req("delete", "key1"),
             Put("key1", "webvh")})
     EXCEPT !.space.type = "clients"],
  \* revocation by the delegator and by the holder, of a capability and of its chain
  Start({Revoke("alice", <<"grant">>), Under(Req("delete", "bob"), <<"grant">>),
         Under(ReadOf("carol", "space"), <<"grant", "sub">>)}),
  Start({Revoke("carol", <<"grant", "sub">>), Under(Revoke("carol", <<"grant">>), <<"grant", "sub">>),
         Under(ReadOf("carol", "space"), <<"grant", "sub">>)}),
  Start({Revoke("alice", <<"grant">>), Req("delete", "alice"), Put("alice", "alice")}),
  \* a record that has expired, under a name delegated again
  [Start({Revoke("alice", <<"again">>), Under(ReadOf("bob", "space"), <<"again">>),
          Under(Put("bob", "bob"), <<"again">>)})
     EXCEPT !.revs["space"] = [id |-> "c1", delegator |-> "alice"] :> 0],
  \* policies of three levels
  [Start({ReadOf(None, "resource"), Policy("alice", "resource", "other"),
          Policy("alice", "collection", None)})
     EXCEPT !.policies = [l \in Levels |-> IF l = "space" THEN "PublicCanRead"
                                           ELSE IF l = "collection" THEN "other" ELSE None]],
  \* the keystore
  Start({Update("alice", "carol", 1), Update("alice", "alice", 2), Keystore(Req("read", "carol"))}),
  [Start({Keystore(Revoke("alice", <<"kms">>)), Under(Keystore(Req("operate", "bob")), <<"kms">>),
         Under(Keystore([Req("generate", "bob") EXCEPT !.bound = 2]), <<"kms">>)})
     EXCEPT !.keys = <<1>>]
}

CONSTANTS s1, s2
Symmetric == Permutations({s1, s2})
===============================================================================
