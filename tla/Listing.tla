-------------------------------- MODULE Listing --------------------------------
(***************************************************************************)
(* Pages, cursors and queries (src/lib/pagination.ts, cursor.ts,           *)
(* equalityIndex.ts, blindedIndex.ts, the List Keys and List Spaces        *)
(* handlers): operators without state, used by SpaceTree.                  *)
(*                                                                         *)
(* Ids are numbers, whose order is the code units' order.  A cursor is the *)
(* id its page ended with: encoding it and decoding it is the identity on  *)
(* cursors this server issued.                                             *)
(***************************************************************************)
EXTENDS Naturals, Sequences, FiniteSets

CONSTANTS
  DefaultPageSize,  \* the page size of a request that asks for none
  MaxPageSize,      \* the largest page
  Locale,           \* per key id: its place in the locale's order, which is not `<`
  Contents,         \* per body: what a query finds in it, see ContentType
  None              \* an absent value

\* plain: the indexable values of each member; indexed: the blinded entries.
ContentType == [plain : [STRING -> SUBSET STRING],
                indexed : SUBSET [hmac : STRING, terms : SUBSET (STRING \X STRING)]]

----------------------------------------------------------------------------
(* Pages.                                                                  *)

\* The elements of S in the strict order Before.
Sorted(S, Before(_, _)) ==
  [i \in 1 .. Cardinality(S) |->
     CHOOSE x \in S : Cardinality({y \in S : Before(y, x)}) = i - 1]

Ascending(S) == Sorted(S, <)

ClampPageSize(limit) ==
  IF limit < 1 THEN 1 ELSE IF limit > MaxPageSize THEN MaxPageSize ELSE limit

\* No limit, and one that is not a positive number, is None.
ResolvePageSize(limit) ==
  IF limit = None THEN DefaultPageSize ELSE ClampPageSize(limit)

\* A page of the items from position `start`, and whether one more would follow.
Window(items, start, size) ==
  LET end == start + size - 1
  IN  [page |-> SubSeq(items, start, IF end > Len(items) THEN Len(items) ELSE end),
       more |-> end < Len(items)]

\* The first position that satisfies P, or one past the last.
FirstPosition(items, P(_)) ==
  IF \E i \in DOMAIN items : P(items[i])
  THEN CHOOSE i \in DOMAIN items :
         P(items[i]) /\ \A j \in 1 .. i - 1 : ~P(items[j])
  ELSE Len(items) + 1

\* Mutant of SeekPage: the item the last page ended with opens the next one.
SeekAtOrAfter(items, cursor, size) ==
  Window(items,
         IF cursor = None THEN 1 ELSE FirstPosition(items, LAMBDA id : id >= cursor), size)

\* Items in code-unit order, from the first one past the cursor.
SeekPage(items, cursor, size) ==
  Window(items,
         IF cursor = None THEN 1 ELSE FirstPosition(items, LAMBDA id : id > cursor), size)

\* Keys come in the locale's order: a page resumes behind the key the cursor names, and
\* only when that key is gone behind the ids below it in code units.
KeyPage(keys, cursor) ==
  LET ordered == Sorted(keys, LAMBDA k, l : Locale[k] < Locale[l])
  IN  IF cursor = None THEN Window(ordered, 1, DefaultPageSize)
      ELSE IF cursor \in keys
           THEN Window(ordered, FirstPosition(ordered, LAMBDA k : k = cursor) + 1, DefaultPageSize)
           ELSE Window(SelectSeq(ordered, LAMBDA k : k > cursor), 1, DefaultPageSize)

\* The Spaces of one controller, bookkeeping Spaces left out.  Entries are
\* [id, controller, auxiliary].
VisibleTo(spaces, did) == {s.id : s \in {x \in spaces : ~x.auxiliary /\ x.controller = did}}

\* The scan starts past the cursor in the order of all Spaces, fills the page with those
\* the invocation verifies for, and goes on until it meets one more.
SpacesPage(spaces, did, cursor, size) ==
  LET seen == IF cursor = None THEN spaces ELSE {s \in spaces : s.id > cursor}
  IN  Window(Ascending(VisibleTo(seen, did)), 1, size)

----------------------------------------------------------------------------
(* Queries.  `query.equals` is a set of elements, each a set of pairs        *)
(* <<name, value>>, or None; `query.has` a set of names.                     *)

\* What a declared index finds in a candidate; `content` and `custom` are bodies or None.
\* `indexes` gives the source of each declared name.
Extracted(indexes, content, custom, name) ==
  LET source == IF indexes[name] = "custom" THEN custom ELSE content
  IN  IF source = None THEN {}
      ELSE IF name \in DOMAIN Contents[source].plain THEN Contents[source].plain[name] ELSE {}

\* An element with no pairs matches nothing.
SomeElement(equals, Held(_)) == \E e \in equals : e # {} /\ \A pair \in e : Held(pair)

MatchesEquality(query, indexes, content, custom) ==
  LET values(name) == Extracted(indexes, content, custom, name)
  IN  IF query.equals # None
      THEN SomeElement(query.equals, LAMBDA pair : pair[2] \in values(pair[1]))
      ELSE \A name \in query.has : values(name) # {}

\* A document is searched by the terms of its entries under the queried key; for `has`
\* every entry counts, once there is one under that key.
MatchesBlinded(query, content) ==
  LET entries == IF content = None THEN {} ELSE Contents[content].indexed
      terms == UNION {e.terms : e \in {x \in entries : x.hmac = query.hmac}}
  IN  /\ terms # {}
      /\ IF query.equals # None
         THEN SomeElement(query.equals, LAMBDA pair : pair \in terms)
         ELSE \A name \in query.has : \E e \in entries : \E t \in e.terms : t[1] = name

===============================================================================
