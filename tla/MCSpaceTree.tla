----------------------------- MODULE MCSpaceTree -----------------------------
(* Small instances of SpaceTree.                                            *)
EXTENDS SpaceTree, TLC

MCContents ==
     "a" :> [plain |-> "color" :> {"red"}, indexed |-> {[hmac |-> "k", terms |-> {<<"n", "v">>}]}]
  @@ "b" :> [plain |-> "color" :> {"blue"},
             indexed |-> {[hmac |-> "k", terms |-> {<<"m", "v">>}],
                          [hmac |-> "l", terms |-> {<<"n", "v">>}]}]
  @@ "tag" :> [plain |-> "owner" :> {"ann"}, indexed |-> {}]
MCIndexes == "color" :> "content" @@ "owner" :> "custom"
MCLocale == 0 :> 0 @@ 1 :> 2 @@ 2 :> 1 @@ 3 :> 3

Other(id, controller, auxiliary) == [id |-> id, controller |-> controller, auxiliary |-> auxiliary]
MCSpaces == {Other(1, "alice", FALSE), Other(2, "bob", FALSE), Other(4, "alice", TRUE),
             Other(5, "alice", FALSE)}
MCHere == Other(3, "alice", FALSE)

Req(kind, c, r) ==
  [kind |-> kind, c |-> c, r |-> r, type |-> "json", body |-> "b", match |-> None,
   limit |-> None, query |-> None]
Typed(q, type) == [q EXCEPT !.type = type]
Body(q, body) == [q EXCEPT !.body = body]
If(q, match) == [q EXCEPT !.match = match]
Limit(q, limit) == [q EXCEPT !.limit = limit]
Query(profile, equals, has) ==
  [Req("query", 1, 0) EXCEPT !.query = [profile |-> profile, hmac |-> "k", equals |-> equals, has |-> has]]

V(version, body) == [version |-> version, body |-> body, deleted |-> FALSE]
Gone(version) == [version |-> version, body |-> None, deleted |-> TRUE]
Tree(dirs, files) == [dirs |-> dirs, files |-> files]

Bare == SpaceFile :> Data("space")
Described == DescriptionFile(1) :> V(1, "a") @@ Bare
ResourceAt(r, type, body) == At(type, 1, r) :> Data(body) @@ Sidecar(1, r) :> V(1, "tag")
Small == ResourceAt(1, "json", "a") @@ Described
Full == ResourceAt(2, "png", "a") @@ ChunkFile(1, 2) :> Data("a") @@ MetaFile(1) :> V(1, "a")
          @@ PolicyFile(1, 1) :> Data("a") @@ PolicyFile(0, 0) :> Data("a")
          @@ At("revocation", 0, 1) :> Data("a") @@ Small
Keys == At("key", 0, 1) :> Data("a") @@ At("key", 0, 3) :> Data("a")

\* An archive with everything in it: a chunked Resource, a tombstone, policies, a Collection
\* that has no Description, and a revocation.
Backup ==
  Tree({1, 2}, Sidecar(1, 3) :> Gone(3) @@ PolicyFile(1, 0) :> Data("b")
                 @@ PolicyFile(2, 2) :> Data("b") @@ Full)
SmallBackup ==
  Tree({1}, At("revocation", 0, 2) :> Data("a") @@ ResourceAt(1, "png", "a") @@ Described)

Start(dirs, files, kept, requests) ==
  [tree |-> Tree(dirs, files), archive |-> kept, todo |-> requests]

MCScenarios == {
  \* creates and conditional replacements of one Description
  Start({0}, Bare, None, {Req("post", 1, 0), Body(Req("post", 1, 0), "a"), Req("put", 1, 0)}),
  Start({0, 1}, Small, None,
        {If(Req("put", 1, 0), V(1, "a")), Body(If(Req("put", 1, 0), V(1, "a")), "tag"),
         Req("drop", 1, 0), Body(Req("post", 1, 0), "tag")}),
  \* a restore against what it restores into
  Start({0}, Bare, SmallBackup, {Req("import", 0, 0), Req("put", 1, 0), If(Req("put", 1, 0), V(1, "b")),
         Req("write", 1, 1)}),
  Start({0}, Bare, SmallBackup, {Req("import", 0, 0), Req("post", 1, 0), Req("chunk", 1, 1),
         Req("policy", 1, 1)}),
  Start({0, 1}, Described, SmallBackup, {Req("import", 0, 0), Req("write", 1, 1), Req("remove", 1, 1), Req("drop", 1, 0)}),
  Start({0, 1}, Sidecar(1, 1) :> Gone(2) @@ Described, SmallBackup,
        {Req("import", 0, 0), Typed(Req("write", 1, 1), "ld"), Req("drop", 1, 0), Req("put", 1, 0)}),
  Start({0, 1}, PolicyFile(1, 0) :> Data("a") @@ Bare, Backup, {Req("import", 0, 0)}),
  Start({0, 1}, Small, Backup, {Req("import", 0, 0), Body(Req("policy", 0, 0), None), Req("remove", 1, 1)}),
  Start({0}, Bare, SmallBackup, {Req("import", 0, 0), Req("delete", 0, 0), Req("create", 0, 0)}),
  \* backup and restore
  Start({0, 1}, Small, None, {Req("export", 0, 0), Req("drop", 1, 0), Req("import", 0, 0), Req("write", 1, 2)}),
  Start({0, 1}, ResourceAt(2, "ld", "b") @@ Small, None,
        {Req("export", 0, 0), Req("remove", 1, 1), Req("delete", 0, 0), Req("create", 0, 0),
         Req("import", 0, 0)}),
  \* a backup against what it copies
  Start({0, 1}, Full, None, {Req("export", 0, 0), Typed(Req("write", 1, 1), "png"), Body(Req("policy", 1, 1), None)}),
  Start({0, 1}, Full, None, {Req("export", 0, 0), Req("remove", 1, 2), Req("chunk", 1, 2)}),
  Start({0, 1}, Full, None, {Req("export", 0, 0), Req("revoke", 0, 2), Req("delete", 0, 0)}),
  \* listings
  Start({0, 1}, ResourceAt(3, "json", "b") @@ Small, None,
        {Req("items", 1, 0), Typed(Req("write", 1, 1), "png"), Req("remove", 1, 3),
         Req("write", 1, 2)}),
  Start({0, 1}, ResourceAt(2, "png", "b") @@ Small, None,
        {Limit(Req("items", 1, 0), 2), Typed(Req("write", 1, 1), "png"), Req("remove", 1, 1),
         Req("drop", 1, 0)}),
  Start({0, 1}, Small, None,
        {Limit(Req("items", 1, 0), 4), Typed(Req("write", 1, 1), "ld"), Typed(Req("write", 1, 1), "png")}),
  Start({0, 1}, Small, None,
        {Limit(Req("collections", 0, 0), 0), Req("policy", 2, 0), Req("drop", 1, 0),
         Req("put", 3, 0)}),
  Start({0}, Keys @@ Bare, None, {Req("keys", 0, 0), Req("generate", 0, 2), Req("collections", 0, 0)}),
  Start({0}, Bare, None, {Limit(Req("spaces", 0, 0), 1), Req("delete", 0, 0), Req("create", 0, 0)}),
  \* queries
  Start({0, 1}, ResourceAt(2, "ld", "a") @@ Small, None,
        {Query("equality", {{<<"color", "red">>, <<"owner", "ann">>}}, {}), Req("write", 1, 1),
         Typed(Body(Req("write", 1, 2), "a"), "json")}),
  Start({0, 1}, ResourceAt(2, "png", "a") @@ Small, None,
        {Query("equality", None, {"owner"}), Typed(Req("write", 1, 1), "png"), Req("remove", 1, 2)}),
  Start({0, 1}, ResourceAt(2, "ld", "b") @@ Small, None,
        {Query("blinded", {{}, {<<"n", "v">>}}, {}), Query("blinded", None, {"n"}), Req("remove", 1, 1)})
}

CONSTANTS s1, s2, s3
Symmetric == Permutations({s1, s2, s3})
===============================================================================
