---------------------------- MODULE SpaceTreeProofs ----------------------------
(* Theorems about SpaceTree, for every value of its constants: any number  *)
(* of requests at a time, any starting contents and archive, either        *)
(* backend.  First what sorting, the tree's operators and the import of    *)
(* Postgres do, then the invariant of types and locks, then that of what   *)
(* each handler's writes may replace, then what a reader's history records *)
(* and what an export, and a listing page by page, makes of it, and last   *)
(* what an import that nothing disturbed leaves.                           *)
EXTENDS SpaceTree, FiniteSetTheorems, FunctionTheorems, SequenceTheorems,
        WellFoundedInduction, TLAPS

----------------------------------------------------------------------------
(* Numbers, order and sorting.                                              *)

\* A set of numbers has a least one.
LEMMA LeastNumber ==
  ASSUME NEW S, S \subseteq Nat, S # {}
  PROVE  \E n \in S : \A m \in S : n <= m
<1>1. PICK n \in S : \A m \in S : ~ (<<m, n>> \in OpToRel(<, Nat))
  BY NatLessThanWellFounded, WFMin
<1>2. \A m \in S : ~ (m < n)
  BY <1>1 DEF OpToRel
<1> QED BY <1>2

\* What holds at 0 and is kept by one more holds up to N.
LEMMA UpTo ==
  ASSUME NEW N \in Nat, NEW S, 0 \in S, \A n \in 1 .. N : n - 1 \in S => n \in S
  PROVE  0 .. N \subseteq S
<1>1. SUFFICES ASSUME (0 .. N) \ S # {} PROVE FALSE
  OBVIOUS
<1>2. PICK n \in (0 .. N) \ S : \A m \in (0 .. N) \ S : n <= m
  <2>1. (0 .. N) \ S \subseteq Nat
    OBVIOUS
  <2> QED BY <1>1, <2>1, LeastNumber
<1>3. n \in 1 .. N
  BY <1>2
<1>4. n - 1 \in 0 .. N /\ ~ (n <= n - 1)
  BY <1>3
<1>5. n - 1 \in S
  BY <1>2, <1>4
<1> QED BY <1>2, <1>3, <1>5

\* below[x] is the set of the elements of S before x, in a strict total order.
IsOrder(S, below) ==
  /\ below \in [S -> SUBSET S]
  /\ \A x \in S : x \notin below[x]
  /\ \A x, y \in S : x \in below[y] => below[x] \subseteq below[y]
  /\ \A x, y \in S : x # y => x \in below[y] \/ y \in below[x]

\* In a strict total order of a finite set the elements have the ranks from 0 up, one each.
LEMMA Ranks ==
  ASSUME NEW S, IsFiniteSet(S), NEW below, IsOrder(S, below)
  PROVE  /\ \A x \in S : Cardinality(below[x]) \in 0 .. Cardinality(S) - 1
         /\ \A x, y \in S : x \in below[y] => Cardinality(below[x]) < Cardinality(below[y])
         /\ \A i \in 0 .. Cardinality(S) - 1 : \E x \in S : Cardinality(below[x]) = i
<1> DEFINE n == Cardinality(S)
           rank == [x \in S |-> Cardinality(below[x])]
<1>1. n \in Nat
  BY FS_CardinalityType
<1>2. ASSUME NEW x \in S
      PROVE  IsFiniteSet(below[x]) /\ Cardinality(below[x]) \in 0 .. n - 1
  <2>1. below[x] \in SUBSET (S \ {x})
    BY <1>2 DEF IsOrder
  <2>2. IsFiniteSet(S \ {x}) /\ Cardinality(S \ {x}) = n - 1
    BY FS_RemoveElement
  <2>3. IsFiniteSet(below[x]) /\ Cardinality(below[x]) <= n - 1
    BY <2>1, <2>2, FS_Subset
  <2> QED BY <2>3, <1>1, FS_CardinalityType
<1>3. ASSUME NEW x \in S, NEW y \in S, x \in below[y]
      PROVE  Cardinality(below[x]) < Cardinality(below[y])
  <2>1. below[x] \in SUBSET below[y] /\ below[x] # below[y]
    BY <1>3 DEF IsOrder
  <2>2. Cardinality(below[x]) <= Cardinality(below[y]) /\ Cardinality(below[x]) # Cardinality(below[y])
    BY <2>1, <1>2, FS_Subset
  <2> QED BY <2>2, <1>2, <1>1
<1>4. rank \in [S -> 0 .. n - 1]
  BY <1>2
<1>5. ASSUME NEW x \in S, NEW y \in S, x # y PROVE rank[x] # rank[y]
  <2>1. x \in below[y] \/ y \in below[x]
    BY <1>5 DEF IsOrder
  <2> QED BY <2>1, <1>2, <1>3, <1>1
<1>6. rank \in Injection(S, 0 .. n - 1)
  BY <1>4, <1>5 DEF Injection, IsInjective
<1>7. IsFiniteSet(0 .. n - 1) /\ Cardinality(0 .. n - 1) = n
  <2> HIDE DEF n
  <2>1. 0 \in Int /\ n - 1 \in Int
    BY <1>1
  <2>2. /\ IsFiniteSet(0 .. n - 1)
        /\ Cardinality(0 .. n - 1) = IF 0 > n - 1 THEN 0 ELSE (n - 1) - 0 + 1
    BY <2>1, FS_Interval
  <2> QED BY <1>1, <2>2
<1>8. rank \in Surjection(S, 0 .. n - 1)
  BY <1>6, <1>7, FS_Injection
<1>9. \A i \in 0 .. n - 1 : \E x \in S : rank[x] = i
  BY <1>8 DEF Surjection
<1> QED BY <1>2, <1>3, <1>9

Lists(q, S) == \A x \in S : \E i \in 1 .. Len(q) : q[i] = x

\* A sequence that puts every element at the place of its rank is the sorted one.
LEMMA SortedByRank ==
  ASSUME NEW S, IsFiniteSet(S), NEW below, IsOrder(S, below),
         NEW q, q = [i \in 1 .. Cardinality(S) |-> q[i]],
         \A i \in 1 .. Cardinality(S) :
           (\E x \in S : Cardinality(below[x]) = i - 1)
             => q[i] \in S /\ Cardinality(below[q[i]]) = i - 1
  PROVE  /\ q \in Seq(S)
         /\ Len(q) = Cardinality(S)
         /\ Lists(q, S)
         /\ \A i, j \in 1 .. Len(q) : i < j => q[i] \in below[q[j]]
<1> DEFINE n == Cardinality(S)
<1>1. n \in Nat
  BY FS_CardinalityType
<1>2. \A i \in 1 .. n : q[i] \in S /\ Cardinality(below[q[i]]) = i - 1
  <2> SUFFICES ASSUME NEW i \in 1 .. n PROVE q[i] \in S /\ Cardinality(below[q[i]]) = i - 1
    OBVIOUS
  <2>1. i - 1 \in 0 .. n - 1
    BY <1>1
  <2> QED BY <2>1, Ranks
<1>3. q \in [1 .. n -> S]
  BY <1>2
<1>4. q \in Seq(S) /\ Len(q) = n
  BY <1>1, <1>3
<1>5. ASSUME NEW x \in S PROVE \E i \in 1 .. n : q[i] = x
  <2>1. Cardinality(below[x]) + 1 \in 1 .. n
    BY <1>1, Ranks
  <2> DEFINE y == q[Cardinality(below[x]) + 1]
  <2>2. y \in S /\ Cardinality(below[y]) = Cardinality(below[x])
    BY <2>1, <1>2, Ranks
  <2>3. y = x
    <3>1. CASE y \in below[x]
      BY <3>1, <2>2, Ranks
    <3>2. CASE x \in below[y]
      BY <3>2, <2>2, Ranks
    <3> QED BY <3>1, <3>2, <2>2 DEF IsOrder
  <2> QED BY <2>1, <2>3
<1>6. ASSUME NEW i \in 1 .. n, NEW j \in 1 .. n, i < j PROVE q[i] \in below[q[j]]
  <2>1. q[i] \in S /\ q[j] \in S /\ Cardinality(below[q[i]]) < Cardinality(below[q[j]])
    BY <1>2, <1>6, <1>1
  <2>2. q[i] # q[j]
    BY <2>1, Ranks, <1>1
  <2>3. ~ (q[j] \in below[q[i]])
    BY <2>1, Ranks, <1>1
  <2> QED BY <2>1, <2>2, <2>3 DEF IsOrder
<1> QED BY <1>4, <1>5, <1>6 DEF Lists

----------------------------------------------------------------------------
(* Places, turns and the order they give.                                   *)

LEMMA PathsFinite == IsFiniteSet(Path)
<1> DEFINE D == 0 .. MaxId
           All == [kind : Kinds, c : D, r : D]
           f == [x \in (Kinds \X D) \X D |-> At(x[1][1], x[1][2], x[2])]
<1>1. IsFiniteSet(D)
  BY ConstantsAssumption, FS_Interval
<1>2. IsFiniteSet(Kinds)
  <2>1. IsFiniteSet({"json"} \cup {"ld"} \cup {"png"} \cup {"space"} \cup {"description"}
                      \cup {"meta"} \cup {"policy"} \cup {"sidecar"} \cup {"chunk"}
                      \cup {"revocation"} \cup {"key"})
    BY FS_Singleton, FS_Union
  <2>2. Kinds = {"json"} \cup {"ld"} \cup {"png"} \cup {"space"} \cup {"description"}
                  \cup {"meta"} \cup {"policy"} \cup {"sidecar"} \cup {"chunk"}
                  \cup {"revocation"} \cup {"key"}
    BY DEF Kinds, Types
  <2> QED BY <2>1, <2>2
<1>3. IsFiniteSet((Kinds \X D) \X D)
  BY <1>1, <1>2, FS_Product
<1>4. f \in [(Kinds \X D) \X D -> All]
  BY DEF At
<1>5. ASSUME NEW p \in All PROVE \E x \in (Kinds \X D) \X D : f[x] = p
  <2>1. <<<<p.kind, p.c>>, p.r>> \in (Kinds \X D) \X D
    OBVIOUS
  <2>2. f[<<<<p.kind, p.c>>, p.r>>] = p
    BY <2>1 DEF At
  <2> QED BY <2>1, <2>2
<1>6. f \in Surjection((Kinds \X D) \X D, All)
  BY <1>4, <1>5 DEF Surjection
<1>7. IsFiniteSet(All)
  BY <1>3, <1>6, FS_Surjection
<1>8. Path \in SUBSET All
  BY DEF Path
<1> QED BY <1>7, <1>8, FS_Subset

Fives == Nat \X Nat \X Nat \X Nat \X Nat

\* The lexicographic order of tuples of five numbers is a strict total order.
LEMMA LowerOfFives ==
  ASSUME NEW u \in Fives, NEW v \in Fives
  PROVE  Lower(u, v) <=> \/ u[1] < v[1]
                         \/ u[1] = v[1] /\ u[2] < v[2]
                         \/ u[1] = v[1] /\ u[2] = v[2] /\ u[3] < v[3]
                         \/ u[1] = v[1] /\ u[2] = v[2] /\ u[3] = v[3] /\ u[4] < v[4]
                         \/ u[1] = v[1] /\ u[2] = v[2] /\ u[3] = v[3] /\ u[4] = v[4] /\ u[5] < v[5]
<1> DEFINE L(i) == u[i] < v[i] /\ \A j \in 1 .. i - 1 : u[j] = v[j]
<1>1. DOMAIN u = 1 .. 5
  BY DEF Fives
<1>2. Lower(u, v) <=> L(1) \/ L(2) \/ L(3) \/ L(4) \/ L(5)
  <2>1. Lower(u, v) <=> \E i \in 1 .. 5 : L(i)
    BY <1>1 DEF Lower
  <2>2. 1 .. 5 = {1, 2, 3, 4, 5}
    OBVIOUS
  <2> HIDE DEF L
  <2> QED BY <2>1, <2>2
<1>3. L(1) <=> u[1] < v[1]
  OBVIOUS
<1>4. L(2) <=> u[1] = v[1] /\ u[2] < v[2]
  OBVIOUS
<1>5. L(3) <=> u[1] = v[1] /\ u[2] = v[2] /\ u[3] < v[3]
  OBVIOUS
<1>6. L(4) <=> u[1] = v[1] /\ u[2] = v[2] /\ u[3] = v[3] /\ u[4] < v[4]
  OBVIOUS
<1>7. L(5) <=> u[1] = v[1] /\ u[2] = v[2] /\ u[3] = v[3] /\ u[4] = v[4] /\ u[5] < v[5]
  OBVIOUS
<1> QED BY <1>2, <1>3, <1>4, <1>5, <1>6, <1>7

LEMMA LowerIsAnOrder ==
  ASSUME NEW u \in Fives, NEW v \in Fives, NEW w \in Fives
  PROVE  /\ ~ Lower(u, u)
         /\ Lower(u, v) /\ Lower(v, w) => Lower(u, w)
         /\ u # v => Lower(u, v) \/ Lower(v, u)
<1>1. /\ u[1] \in Nat /\ u[2] \in Nat /\ u[3] \in Nat /\ u[4] \in Nat /\ u[5] \in Nat
      /\ v[1] \in Nat /\ v[2] \in Nat /\ v[3] \in Nat /\ v[4] \in Nat /\ v[5] \in Nat
      /\ w[1] \in Nat /\ w[2] \in Nat /\ w[3] \in Nat /\ w[4] \in Nat /\ w[5] \in Nat
  BY DEF Fives
<1>2. ~ Lower(u, u)
  BY <1>1, LowerOfFives
<1>3. u # v => u[1] # v[1] \/ u[2] # v[2] \/ u[3] # v[3] \/ u[4] # v[4] \/ u[5] # v[5]
  BY DEF Fives
<1>4. u # v => Lower(u, v) \/ Lower(v, u)
  BY <1>1, <1>3, LowerOfFives
<1>5. ASSUME Lower(u, v), Lower(v, w) PROVE Lower(u, w)
  <2>1. CASE u[1] < v[1] \/ v[1] < w[1]
    BY <2>1, <1>1, <1>5, LowerOfFives
  <2>2. CASE u[1] = v[1] /\ v[1] = w[1]
    <3>1. CASE u[2] < v[2] \/ v[2] < w[2]
      BY <3>1, <2>2, <1>1, <1>5, LowerOfFives
    <3>2. CASE u[2] = v[2] /\ v[2] = w[2]
      BY <3>2, <2>2, <1>1, <1>5, LowerOfFives
    <3> QED BY <3>1, <3>2, <2>2, <1>1, <1>5, LowerOfFives
  <2> QED BY <2>1, <2>2, <1>1, <1>5, LowerOfFives
<1> QED BY <1>2, <1>4, <1>5

LEMMA PlacesDiffer ==
  ASSUME NEW p \in Path, NEW q \in Path
  PROVE  Place(p) \in Fives /\ (p # q => Place(p) # Place(q))
<1>1. p.kind \in Kinds /\ p.c \in Nat /\ p.r \in Nat /\ q.kind \in Kinds /\ q.c \in Nat /\ q.r \in Nat
  BY ConstantsAssumption DEF Path
<1>2. Group(p.kind) \in Nat /\ TypeRank(p.kind) \in Nat
  BY <1>1 DEF Group, TypeRank
<1>3. Place(p) \in Fives
  BY <1>1, <1>2 DEF Place, Fives
<1>4. p # q => p.kind # q.kind \/ p.c # q.c \/ p.r # q.r
  BY DEF Path
<1>5. ASSUME Place(p) = Place(q) PROVE p.kind = q.kind /\ p.c = q.c /\ p.r = q.r
  <2>1. /\ (p.kind = "revocation") = (q.kind = "revocation")
        /\ p.c = q.c /\ p.r = q.r
        /\ Group(p.kind) = Group(q.kind)
        /\ TypeRank(p.kind) = TypeRank(q.kind)
    BY <1>5 DEF Place
  <2>2. p.kind = q.kind
    BY <1>1, <2>1 DEF Group, TypeRank, Kinds, Types
  <2> QED BY <2>1, <2>2
<1> QED BY <1>3, <1>4, <1>5

LEMMA BeforeIsAnOrder ==
  ASSUME NEW S, S \subseteq Path
  PROVE  IsOrder(S, [x \in S |-> {y \in S : Before(y, x)}])
<1> DEFINE below == [x \in S |-> {y \in S : Before(y, x)}]
<1>1. \A x \in S : x \notin below[x]
  BY PlacesDiffer, LowerIsAnOrder DEF Before
<1>2. ASSUME NEW x \in S, NEW y \in S, x \in below[y], NEW z \in below[x] PROVE z \in below[y]
  BY <1>2, PlacesDiffer, LowerIsAnOrder DEF Before
<1>3. \A x, y \in S : x # y => x \in below[y] \/ y \in below[x]
  BY PlacesDiffer, LowerIsAnOrder DEF Before
<1> QED BY <1>1, <1>2, <1>3 DEF IsOrder

LEMMA TurnsDiffer ==
  ASSUME NEW a, IsTree(a), NEW p \in Planned(a), NEW q \in Planned(a)
  PROVE  p \in Path /\ Turn(p) \in Fives /\ (p # q => Turn(p) # Turn(q))
<1>1. ASSUME NEW x \in Planned(a)
      PROVE  /\ x \in Path
             /\ x.kind \in Types \cup {"space", "policy", "description", "sidecar", "chunk", "revocation"}
             /\ x.kind = "policy" => x = PolicyFile(0, 0)
             /\ x.kind = "space" => x = SpaceFile
  <2>1. 0 \in 0 .. MaxId
    BY ConstantsAssumption
  <2>2. CASE x = SpaceFile
    BY <2>1, <2>2 DEF SpaceFile, At, Path, Kinds
  <2>3. CASE \E c \in a.dirs : x = DescriptionFile(c)
    BY <2>1, <2>3 DEF DescriptionFile, At, Path, Kinds, IsTree
  <2>4. CASE /\ x \in DOMAIN a.files
             /\ \/ x = PolicyFile(0, 0)
                \/ x.kind = "revocation"
                \/ x.kind \in Types \cup {"chunk"} \/ x.kind = "sidecar"
    BY <2>1, <2>4 DEF PolicyFile, At, Path, Kinds, IsTree, Types
  <2> QED BY <1>1, <2>2, <2>3, <2>4 DEF Planned, Tombstones
<1>2. p.kind \in Kinds /\ p.c \in Nat /\ p.r \in Nat /\ q.kind \in Kinds /\ q.c \in Nat /\ q.r \in Nat
  BY <1>1, ConstantsAssumption DEF Path
<1>3. Chapter(p) \in Nat /\ Part(p) \in Nat /\ TypeRank(p.kind) \in Nat
  BY <1>1 DEF Chapter, Part, TypeRank
<1>4. Turn(p) \in Fives
  BY <1>2, <1>3 DEF Turn, Fives
<1>5. p # q => p.kind # q.kind \/ p.c # q.c \/ p.r # q.r
  BY <1>1 DEF Path
<1>6. ASSUME Turn(p) = Turn(q) PROVE p.kind = q.kind /\ p.c = q.c /\ p.r = q.r
  <2>1. /\ Chapter(p) = Chapter(q) /\ Part(p) = Part(q)
        /\ p.c = q.c /\ p.r = q.r
        /\ TypeRank(p.kind) = TypeRank(q.kind)
    BY <1>6 DEF Turn
  <2>2. p.kind = q.kind
    BY <1>1, <2>1 DEF Chapter, Part, TypeRank, Types
  <2> QED BY <2>1, <2>2
<1> QED BY <1>1, <1>4, <1>5, <1>6

\* The plan holds every planned entry, once, in the order of their turns.
LEMMA PlanIsSorted ==
  ASSUME NEW a, IsTree(a)
  PROVE  /\ Plan(a) \in Seq(Planned(a))
         /\ Planned(a) \subseteq Path
         /\ Lists(Plan(a), Planned(a))
         /\ \A i, j \in 1 .. Len(Plan(a)) : i < j => Lower(Turn(Plan(a)[i]), Turn(Plan(a)[j]))
<1> DEFINE S == Planned(a)
           below == [x \in S |-> {y \in S : Lower(Turn(y), Turn(x))}]
<1>1. S \subseteq Path
  BY TurnsDiffer
<1>2. IsFiniteSet(S)
  BY <1>1, PathsFinite, FS_Subset
<1>3. IsOrder(S, below)
  <2> HIDE DEF S
  <2>0. \A x, y \in S : Turn(x) \in Fives /\ (x # y => Turn(x) # Turn(y))
    BY TurnsDiffer DEF S
  <2>1. \A x \in S : x \notin below[x]
    BY <2>0, LowerIsAnOrder
  <2>2. ASSUME NEW x \in S, NEW y \in S, x \in below[y], NEW z \in below[x] PROVE z \in below[y]
    BY <2>0, <2>2, LowerIsAnOrder
  <2>3. \A x, y \in S : x # y => x \in below[y] \/ y \in below[x]
    BY <2>0, LowerIsAnOrder
  <2> QED BY <2>1, <2>2, <2>3 DEF IsOrder
<1> HIDE DEF S
<1>4. Plan(a) = [i \in 1 .. Cardinality(S) |->
                   CHOOSE x \in S : Cardinality({y \in S : Lower(Turn(y), Turn(x))}) = i - 1]
  BY DEF Plan, Sorted, S
<1>5. \A x \in S : below[x] = {y \in S : Lower(Turn(y), Turn(x))}
  OBVIOUS
<1> DEFINE q == Plan(a)
<1> HIDE DEF q
<1>6. ASSUME NEW i \in 1 .. Cardinality(S), \E x \in S : Cardinality(below[x]) = i - 1
      PROVE  q[i] \in S /\ Cardinality(below[q[i]]) = i - 1
  <2>1. \E x \in S : Cardinality({y \in S : Lower(Turn(y), Turn(x))}) = i - 1
    BY <1>5, <1>6
  <2>2. q[i] = CHOOSE x \in S : Cardinality({y \in S : Lower(Turn(y), Turn(x))}) = i - 1
    BY <1>4 DEF q
  <2>3. q[i] \in S /\ Cardinality({y \in S : Lower(Turn(y), Turn(q[i]))}) = i - 1
    BY <2>1, <2>2
  <2> QED BY <2>3, <1>5
<1>7. q = [i \in 1 .. Cardinality(S) |-> q[i]]
  BY <1>4 DEF q
<1> HIDE DEF below
<1>8. \A i \in 1 .. Cardinality(S) :
        (\E x \in S : Cardinality(below[x]) = i - 1) => q[i] \in S /\ Cardinality(below[q[i]]) = i - 1
  BY <1>6
<1>9. q \in Seq(S)
  BY <1>2, <1>3, <1>7, <1>8, SortedByRank
<1>10. Lists(q, S)
  BY <1>2, <1>3, <1>7, <1>8, SortedByRank
<1>12. \A i, j \in 1 .. Len(q) : i < j => q[i] \in below[q[j]]
  BY <1>2, <1>3, <1>7, <1>8, SortedByRank
<1>11. ASSUME NEW i \in 1 .. Len(q), NEW j \in 1 .. Len(q), i < j
       PROVE  Lower(Turn(q[i]), Turn(q[j]))
  <2>1. q[j] \in S /\ q[i] \in below[q[j]]
    BY <1>9, <1>11, <1>12
  <2> QED BY <2>1 DEF below
<1> QED BY <1>1, <1>9, <1>10, <1>11, <1>12 DEF q, S

----------------------------------------------------------------------------
(* The tree keeps its shape.                                                *)

IsFiles(f) ==
  /\ f = [p \in DOMAIN f |-> f[p]]
  /\ DOMAIN f \subseteq Path
  /\ \A p \in DOMAIN f : f[p] \in Value

LEMMA TreeParts ==
  ASSUME NEW D, NEW f, D \subseteq 0 .. MaxId, IsFiles(f)
  PROVE  IsTree([dirs |-> D, files |-> f])
<1> DEFINE t == [dirs |-> D, files |-> f]
<1>1. t.dirs = D /\ t.files = f
  OBVIOUS
<1> HIDE DEF t
<1>2. t = [dirs |-> t.dirs, files |-> t.files]
  BY <1>1 DEF t
<1>3. t = [dirs |-> t.dirs, files |-> [p \in DOMAIN t.files |-> t.files[p]]]
  BY <1>1, <1>2 DEF IsFiles
<1>4. IsTree(t)
  BY <1>1, <1>3 DEF IsTree, IsFiles
<1> QED BY <1>4 DEF t

LEMMA PartsOfTree ==
  ASSUME NEW t, IsTree(t)
  PROVE  /\ t = [dirs |-> t.dirs, files |-> t.files]
         /\ t.dirs \subseteq 0 .. MaxId
         /\ IsFiles(t.files)
<1>1. t.files = [p \in DOMAIN t.files |-> t.files[p]]
  BY DEF IsTree
<1> QED BY <1>1 DEF IsTree, IsFiles

LEMMA OverFiles ==
  ASSUME NEW f, NEW g, IsFiles(f), IsFiles(g)
  PROVE  /\ IsFiles(Over(f, g))
         /\ DOMAIN Over(f, g) = DOMAIN f \cup DOMAIN g
         /\ \A p \in DOMAIN f : Over(f, g)[p] = f[p]
         /\ \A p \in DOMAIN g \ DOMAIN f : Over(f, g)[p] = g[p]
BY DEF IsFiles, Over

LEMMA OneFile ==
  ASSUME NEW p \in Path, NEW v \in Value
  PROVE  IsFiles([q \in {p} |-> v])
BY DEF IsFiles

LEMMA OneOver ==
  ASSUME NEW f, IsFiles(f), NEW p \in Path, NEW v \in Value
  PROVE  /\ IsFiles(Over([q \in {p} |-> v], f))
         /\ DOMAIN Over([q \in {p} |-> v], f) = DOMAIN f \cup {p}
         /\ Over([q \in {p} |-> v], f)[p] = v
         /\ \A q \in DOMAIN f \ {p} : Over([x \in {p} |-> v], f)[q] = f[q]
<1> DEFINE g == [q \in {p} |-> v]
<1>1. IsFiles(g) /\ DOMAIN g = {p} /\ g[p] = v
  BY OneFile
<1> HIDE DEF g
<1>2. /\ IsFiles(Over(g, f))
      /\ DOMAIN Over(g, f) = DOMAIN f \cup {p}
      /\ Over(g, f)[p] = v
      /\ \A q \in DOMAIN f \ {p} : Over(g, f)[q] = f[q]
  <2>1. /\ IsFiles(Over(g, f))
        /\ DOMAIN Over(g, f) = DOMAIN g \cup DOMAIN f
        /\ \A q \in DOMAIN g : Over(g, f)[q] = g[q]
        /\ \A q \in DOMAIN f \ DOMAIN g : Over(g, f)[q] = f[q]
    BY <1>1, OverFiles
  <2> QED BY <1>1, <2>1
<1> QED BY <1>2 DEF g

LEMMA PutFacts ==
  ASSUME NEW t, IsTree(t), NEW p \in Path, NEW v \in Value
  PROVE  /\ IsTree(Put(t, p, v))
         /\ DOMAIN Put(t, p, v).files = DOMAIN t.files \cup {p}
         /\ Put(t, p, v).files[p] = v
         /\ \A q \in DOMAIN t.files \ {p} : Put(t, p, v).files[q] = t.files[q]
         /\ t.dirs \subseteq Put(t, p, v).dirs
         /\ Put(t, p, v).dirs \subseteq t.dirs \cup {0, p.c}
<1> DEFINE dirs == IF p.kind = "key" THEN {} ELSE IF backend = "postgres" THEN {0, p.c} ELSE Makes(p)
           f == Over([q \in {p} |-> v], t.files)
<1>1. dirs \subseteq {0, p.c} /\ {0, p.c} \subseteq 0 .. MaxId
  BY ConstantsAssumption DEF Makes, Path
<1>2. Put(t, p, v) = [dirs |-> t.dirs \cup dirs, files |-> f]
  BY DEF Put, With
<1>3. IsFiles(t.files) /\ t.dirs \subseteq 0 .. MaxId
  BY PartsOfTree
<1>4. /\ IsFiles(f)
      /\ DOMAIN f = DOMAIN t.files \cup {p}
      /\ f[p] = v
      /\ \A q \in DOMAIN t.files \ {p} : f[q] = t.files[q]
  BY <1>3, OneOver
<1> HIDE DEF f, dirs
<1>5. t.dirs \cup dirs \subseteq 0 .. MaxId
  BY <1>1, <1>3
<1>6. IsTree([dirs |-> t.dirs \cup dirs, files |-> f])
  BY <1>4, <1>5, TreeParts
<1>7. Put(t, p, v).dirs = t.dirs \cup dirs /\ Put(t, p, v).files = f
  BY <1>2
<1> QED BY <1>1, <1>2, <1>4, <1>6, <1>7

LEMMA WithoutFacts ==
  ASSUME NEW t, IsTree(t), NEW S
  PROVE  /\ IsTree(Without(t, S))
         /\ Without(t, S).dirs = t.dirs
         /\ DOMAIN Without(t, S).files = DOMAIN t.files \ S
         /\ \A p \in DOMAIN t.files \ S : Without(t, S).files[p] = t.files[p]
<1> DEFINE f == [p \in DOMAIN t.files \ S |-> t.files[p]]
<1>1. Without(t, S) = [dirs |-> t.dirs, files |-> f]
  <2>1. t = [dirs |-> t.dirs, files |-> t.files]
    BY PartsOfTree
  <2> QED BY <2>1 DEF Without
<1>2. IsFiles(f) /\ DOMAIN f = DOMAIN t.files \ S /\ \A p \in DOMAIN f : f[p] = t.files[p]
  BY PartsOfTree DEF IsFiles
<1> HIDE DEF f
<1>3. IsTree([dirs |-> t.dirs, files |-> f])
  BY <1>2, PartsOfTree, TreeParts
<1> QED BY <1>1, <1>2, <1>3

LEMMA DirsExcept ==
  ASSUME NEW t, IsTree(t), NEW D, D \subseteq 0 .. MaxId
  PROVE  /\ IsTree([t EXCEPT !.dirs = D])
         /\ [t EXCEPT !.dirs = D].dirs = D
         /\ [t EXCEPT !.dirs = D].files = t.files
<1>1. t = [dirs |-> t.dirs, files |-> t.files]
  BY PartsOfTree
<1>2. [t EXCEPT !.dirs = D] = [dirs |-> D, files |-> t.files]
  BY <1>1
<1>3. IsTree([dirs |-> D, files |-> t.files])
  BY PartsOfTree, TreeParts
<1> QED BY <1>2, <1>3

----------------------------------------------------------------------------
(* The import of Postgres, one entry after the other.                       *)

\* The import goes from tree to tree.
LEMMA ImportRuns ==
  ASSUME NEW t, NEW a, NEW T, Plan(a) \in Seq(Path),
         [t EXCEPT !.dirs = @ \cup {0}] \in T,
         \A u \in T : \A i \in 1 .. Len(Plan(a)) : Inserted(u, a, Plan(a)[i]) \in T
  PROVE  \E g : /\ g[0] = [t EXCEPT !.dirs = @ \cup {0}]
                /\ \A n \in 1 .. Len(Plan(a)) : g[n] = Inserted(g[n - 1], a, Plan(a)[n])
                /\ \A n \in 0 .. Len(Plan(a)) : g[n] \in T
                /\ Imported(t, a) = g[Len(Plan(a))]
<1> DEFINE plan == Plan(a)
           N == Len(plan)
           start == [t EXCEPT !.dirs = @ \cup {0}]
           Next1(u, i) == Inserted(u, a, plan[i])
<1>1. N \in Nat
  OBVIOUS
<1>2. Imported(t, a) =
        LET after[n \in 0 .. N] == IF n = 0 THEN start ELSE Next1(after[n - 1], n) IN after[N]
  BY DEF Imported
<1>3. start \in T /\ \A u \in T : \A i \in 1 .. N : Next1(u, i) \in T
  OBVIOUS
<1> HIDE DEF N, start, Next1
<1>4. \E g : g = [n \in 0 .. N |-> IF n = 0 THEN start ELSE Next1(g[n - 1], n)]
  <2> DEFINE Runs(n) == {h \in [0 .. n -> T] : h[0] = start /\ \A i \in 1 .. n : h[i] = Next1(h[i - 1], i)}
             S == {n \in 0 .. N : Runs(n) # {}}
  <2>1. 0 \in S
    <3>1. [i \in 0 .. 0 |-> start] \in Runs(0)
      BY <1>3
    <3> QED BY <3>1, <1>1
  <2>2. ASSUME NEW n \in 1 .. N, n - 1 \in S PROVE n \in S
    <3>1. PICK h \in Runs(n - 1) : TRUE
      BY <2>2
    <3>2. h \in [0 .. n - 1 -> T] /\ h[0] = start /\ \A i \in 1 .. n - 1 : h[i] = Next1(h[i - 1], i)
      OBVIOUS
    <3> DEFINE k == [i \in 0 .. n |-> IF i = n THEN Next1(h[n - 1], n) ELSE h[i]]
    <3>3. n \in Nat /\ n >= 1 /\ n - 1 \in 0 .. n - 1 /\ n - 1 \in 0 .. N
      BY <1>1
    <3>4. Next1(h[n - 1], n) \in T
      BY <3>2, <3>3, <1>3
    <3>5. k \in [0 .. n -> T]
      BY <3>2, <3>3, <3>4
    <3>6. k[0] = start
      BY <3>2, <3>3
    <3>7. ASSUME NEW i \in 1 .. n PROVE k[i] = Next1(k[i - 1], i)
      <4>1. i - 1 \in 0 .. n - 1 /\ i - 1 # n /\ k[i - 1] = h[i - 1]
        BY <3>3
      <4>2. CASE i = n
        BY <4>1, <4>2
      <4>3. CASE i # n
        <5>1. i \in 1 .. n - 1 /\ k[i] = h[i]
          BY <4>3, <3>3
        <5> QED BY <5>1, <4>1, <3>2
      <4> QED BY <4>2, <4>3
    <3> HIDE DEF k
    <3>8. k \in Runs(n)
      BY <3>5, <3>6, <3>7
    <3>9. n \in 0 .. N
      BY <1>1
    <3> HIDE DEF Runs
    <3>10. Runs(n) # {}
      BY <3>8
    <3> QED BY <3>9, <3>10
  <2>3. N \in S
    <3>1. 0 .. N \subseteq S
      <4> HIDE DEF S
      <4> QED BY <1>1, <2>1, <2>2, UpTo
    <3> QED BY <3>1, <1>1
  <2>4. PICK h \in Runs(N) : TRUE
    BY <2>3
  <2>5. h \in [0 .. N -> T] /\ h[0] = start /\ \A i \in 1 .. N : h[i] = Next1(h[i - 1], i)
    OBVIOUS
  <2>6. \A n \in 0 .. N : h[n] = IF n = 0 THEN start ELSE Next1(h[n - 1], n)
    BY <2>5, <1>1
  <2>7. h = [n \in 0 .. N |-> IF n = 0 THEN start ELSE Next1(h[n - 1], n)]
    BY <2>5, <2>6
  <2> QED BY <2>7
<1>5. PICK g : /\ g = [n \in 0 .. N |-> IF n = 0 THEN start ELSE Next1(g[n - 1], n)]
               /\ Imported(t, a) = g[N]
  BY <1>2, <1>4
<1>6. g[0] = start /\ \A n \in 1 .. N : g[n] = Next1(g[n - 1], n)
  <2>1. \A n \in 0 .. N : g[n] = IF n = 0 THEN start ELSE Next1(g[n - 1], n)
    BY <1>5
  <2> QED BY <2>1, <1>1
<1> DEFINE S == {n \in 0 .. N : g[n] \in T}
<1>7. 0 \in S
  BY <1>1, <1>3, <1>6
<1>8. ASSUME NEW n \in 1 .. N, n - 1 \in S PROVE n \in S
  BY <1>1, <1>3, <1>6, <1>8
<1>9. \A n \in 1 .. N : n - 1 \in S => n \in S
  BY <1>8
<1> HIDE DEF S
<1>10. 0 .. N \subseteq S
  BY <1>1, <1>7, <1>9, UpTo
<1>11. \A n \in 0 .. N : g[n] \in T
  BY <1>10 DEF S
<1>12. /\ g[0] = start
       /\ \A n \in 1 .. N : g[n] = Next1(g[n - 1], n)
       /\ \A n \in 0 .. N : g[n] \in T
       /\ Imported(t, a) = g[N]
  BY <1>5, <1>6, <1>11
<1> QED BY <1>12 DEF N, start, Next1

\* What the start has and every entry keeps, the whole import has.
LEMMA ImportKeeps ==
  ASSUME NEW t, NEW a, NEW T, Plan(a) \in Seq(Path),
         [t EXCEPT !.dirs = @ \cup {0}] \in T,
         \A u \in T : \A i \in 1 .. Len(Plan(a)) : Inserted(u, a, Plan(a)[i]) \in T
  PROVE  Imported(t, a) \in T
<1>1. Len(Plan(a)) \in Nat
  OBVIOUS
<1>2. PICK g : /\ \A n \in 0 .. Len(Plan(a)) : g[n] \in T
               /\ Imported(t, a) = g[Len(Plan(a))]
  BY ImportRuns
<1> QED BY <1>1, <1>2

----------------------------------------------------------------------------
(* Types.                                                                   *)

IsView(v) ==
  /\ v = [snap |-> v.snap, ops |-> v.ops, writes |-> v.writes, left |-> v.left, dirs |-> v.dirs,
          listed |-> v.listed, copy |-> v.copy, cursor |-> v.cursor, got |-> v.got]
  /\ v.snap # None => v.snap \in Value
  /\ v.ops \in Seq(Path) /\ v.writes \in Seq(Path)
  /\ v.left \subseteq Path /\ v.listed \subseteq Path
  /\ v.dirs \subseteq 0 .. MaxId
  /\ IsTree(v.copy)

IsRequest(r) == r \in Request /\ (r.kind \in {"put", "post"} => r.r = 0)

GlobalOk ==
  /\ backend \in Backends
  /\ IsTree(tree)
  /\ expired \subseteq 0 .. MaxId
  /\ archive # None => IsTree(archive)
  /\ \A r \in todo : IsRequest(r)
  /\ remade \subseteq 0 .. MaxId
  /\ faults \in 0 .. MaxFaults

Shapes ==
  /\ request = [s \in Slots |-> request[s]]
  /\ pc = [s \in Slots |-> pc[s]]
  /\ view = [s \in Slots |-> view[s]]

SlotOk(s) ==
  /\ request[s] = None => pc[s] = "idle" /\ view[s] = NoView /\ since[s] = {} /\ seen[s] = Unseen
  /\ request[s] # None => IsRequest(request[s]) /\ pc[s] # "idle"
  /\ IsView(view[s])
  /\ since[s] \subseteq Path
  /\ pc[s] = "restoring" => view[s].ops # <<>>
  /\ pc[s] = "writing" => view[s].writes # <<>>

LockOk(s, t) ==
  request[s] # None /\ request[t] # None
    /\ request[s].c = request[t].c /\ request[s].r = request[t].r
    => /\ ~ (pc[s] = "persist" /\ pc[t] = "persist")
       /\ ~ (pc[s] \in HoldingResource /\ pc[t] \in HoldingResource)

TypeInv ==
  /\ GlobalOk
  /\ Shapes
  /\ \A s \in Slots : SlotOk(s)
  /\ \A s, t \in Slots : s # t => LockOk(s, t)

LEMMA NoViewIsView == IsView(NoView)
<1>1. NoView.copy = [dirs |-> {}, files |-> <<>>]
  BY DEF NoView
<1>2. IsFiles(<<>>)
  BY DEF IsFiles
<1>3. IsTree(NoView.copy)
  BY <1>1, <1>2, TreeParts
<1>4. <<>> \in Seq(Path)
  OBVIOUS
<1> QED BY <1>3, <1>4 DEF IsView, NoView

\* What an action replaces in what its handler keeps.
LEMMA ViewSnap ==
  ASSUME NEW v, IsView(v), NEW x, x # None => x \in Value
  PROVE  IsView([v EXCEPT !.snap = x])
BY DEF IsView

LEMMA ViewOps ==
  ASSUME NEW v, IsView(v), NEW ops, ops \in Seq(Path)
  PROVE  IsView([v EXCEPT !.ops = ops])
BY DEF IsView

LEMMA ViewWrites ==
  ASSUME NEW v, IsView(v), NEW writes, writes \in Seq(Path)
  PROVE  IsView([v EXCEPT !.writes = writes])
BY DEF IsView

LEMMA ViewLeft ==
  ASSUME NEW v, IsView(v), NEW left, left \subseteq Path
  PROVE  IsView([v EXCEPT !.left = left])
BY DEF IsView

LEMMA ViewDirs ==
  ASSUME NEW v, IsView(v), NEW dirs, dirs \subseteq 0 .. MaxId
  PROVE  IsView([v EXCEPT !.dirs = dirs])
BY DEF IsView

LEMMA ViewListed ==
  ASSUME NEW v, IsView(v), NEW listed, listed \subseteq Path
  PROVE  IsView([v EXCEPT !.listed = listed])
BY DEF IsView

LEMMA ViewCopy ==
  ASSUME NEW v, IsView(v), NEW copy, IsTree(copy)
  PROVE  IsView([v EXCEPT !.copy = copy])
BY DEF IsView

LEMMA ViewSnapLeft ==
  ASSUME NEW v, IsView(v), NEW x, NEW left, x # None => x \in Value, left \subseteq Path
  PROVE  IsView([v EXCEPT !.snap = x, !.left = left])
<1>1. IsView([v EXCEPT !.snap = x])
  BY ViewSnap
<1>2. IsView([[v EXCEPT !.snap = x] EXCEPT !.left = left])
  BY <1>1, ViewLeft
<1> QED BY <1>2

LEMMA ViewOpsWrites ==
  ASSUME NEW v, IsView(v), NEW ops, NEW writes, ops \in Seq(Path), writes \in Seq(Path)
  PROVE  IsView([v EXCEPT !.ops = ops, !.writes = writes])
<1>1. IsView([v EXCEPT !.ops = ops])
  BY ViewOps
<1>2. IsView([[v EXCEPT !.ops = ops] EXCEPT !.writes = writes])
  BY <1>1, ViewWrites
<1> QED BY <1>2

LEMMA ViewLeftCopy ==
  ASSUME NEW v, IsView(v), NEW left, NEW copy, left \subseteq Path, IsTree(copy)
  PROVE  IsView([v EXCEPT !.left = left, !.copy = copy])
<1>1. IsView([v EXCEPT !.left = left])
  BY ViewLeft
<1>2. IsView([[v EXCEPT !.left = left] EXCEPT !.copy = copy])
  BY <1>1, ViewCopy
<1> QED BY <1>2

LEMMA ViewListedLeft ==
  ASSUME NEW v, IsView(v), NEW listed, NEW left, listed \subseteq Path, left \subseteq Path
  PROVE  IsView([v EXCEPT !.listed = listed, !.left = left])
<1>1. IsView([v EXCEPT !.listed = listed])
  BY ViewListed
<1>2. IsView([[v EXCEPT !.listed = listed] EXCEPT !.left = left])
  BY <1>1, ViewLeft
<1> QED BY <1>2

LEMMA ViewListedDirs ==
  ASSUME NEW v, IsView(v), NEW listed, NEW dirs, listed \subseteq Path, dirs \subseteq 0 .. MaxId
  PROVE  IsView([v EXCEPT !.listed = listed, !.dirs = dirs])
<1>1. IsView([v EXCEPT !.listed = listed])
  BY ViewListed
<1>2. IsView([[v EXCEPT !.listed = listed] EXCEPT !.dirs = dirs])
  BY <1>1, ViewDirs
<1> QED BY <1>2

LEMMA ViewDirsListed ==
  ASSUME NEW v, IsView(v), NEW dirs, NEW listed, dirs \subseteq 0 .. MaxId, listed \subseteq Path
  PROVE  IsView([v EXCEPT !.dirs = dirs, !.listed = listed])
<1>1. IsView([v EXCEPT !.dirs = dirs])
  BY ViewDirs
<1>2. IsView([[v EXCEPT !.dirs = dirs] EXCEPT !.listed = listed])
  BY <1>1, ViewListed
<1> QED BY <1>2

LEMMA ViewLeftListed ==
  ASSUME NEW v, IsView(v), NEW left, NEW listed, left \subseteq Path, listed \subseteq Path
  PROVE  IsView([v EXCEPT !.left = left, !.listed = listed])
<1>1. IsView([v EXCEPT !.left = left])
  BY ViewLeft
<1>2. IsView([[v EXCEPT !.left = left] EXCEPT !.listed = listed])
  BY <1>1, ViewListed
<1> QED BY <1>2

LEMMA ViewListedCopy ==
  ASSUME NEW v, IsView(v), NEW listed, NEW copy, listed \subseteq Path, IsTree(copy)
  PROVE  IsView([v EXCEPT !.listed = listed, !.copy = copy])
<1>1. IsView([v EXCEPT !.listed = listed])
  BY ViewListed
<1>2. IsView([[v EXCEPT !.listed = listed] EXCEPT !.copy = copy])
  BY <1>1, ViewCopy
<1> QED BY <1>2

LEMMA ViewOpsWritesDirs ==
  ASSUME NEW v, IsView(v), NEW ops, NEW writes, NEW dirs, ops \in Seq(Path), writes \in Seq(Path), dirs \subseteq 0 .. MaxId
  PROVE  IsView([v EXCEPT !.ops = ops, !.writes = writes, !.dirs = dirs])
<1>1. IsView([v EXCEPT !.ops = ops, !.writes = writes])
  BY ViewOpsWrites
<1>2. IsView([[v EXCEPT !.ops = ops, !.writes = writes] EXCEPT !.dirs = dirs])
  BY <1>1, ViewDirs
<1> QED BY <1>2

LEMMA ViewListedDirsCopy ==
  ASSUME NEW v, IsView(v), NEW listed, NEW dirs, NEW copy, listed \subseteq Path, dirs \subseteq 0 .. MaxId, IsTree(copy)
  PROVE  IsView([v EXCEPT !.listed = listed, !.dirs = dirs, !.copy = copy])
<1>1. IsView([v EXCEPT !.listed = listed, !.dirs = dirs])
  BY ViewListedDirs
<1>2. IsView([[v EXCEPT !.listed = listed, !.dirs = dirs] EXCEPT !.copy = copy])
  BY <1>1, ViewCopy
<1> QED BY <1>2

LEMMA ViewLeftListedCopy ==
  ASSUME NEW v, IsView(v), NEW left, NEW listed, NEW copy, left \subseteq Path, listed \subseteq Path, IsTree(copy)
  PROVE  IsView([v EXCEPT !.left = left, !.listed = listed, !.copy = copy])
<1>1. IsView([v EXCEPT !.left = left, !.listed = listed])
  BY ViewLeftListed
<1>2. IsView([[v EXCEPT !.left = left, !.listed = listed] EXCEPT !.copy = copy])
  BY <1>1, ViewCopy
<1> QED BY <1>2

LEMMA ViewGot ==
  ASSUME NEW v, IsView(v), NEW got
  PROVE  IsView([v EXCEPT !.got = got])
BY DEF IsView

LEMMA ViewCursor ==
  ASSUME NEW v, IsView(v), NEW cursor
  PROVE  IsView([v EXCEPT !.cursor = cursor])
BY DEF IsView

LEMMA ViewGotCursor ==
  ASSUME NEW v, IsView(v), NEW got, NEW cursor
  PROVE  IsView([v EXCEPT !.got = got, !.cursor = cursor])
<1>1. IsView([v EXCEPT !.got = got])
  BY ViewGot
<1>2. IsView([[v EXCEPT !.got = got] EXCEPT !.cursor = cursor])
  BY <1>1, ViewCursor
<1> QED BY <1>2

LEMMA WitnessKeeps ==
  ASSUME TypeInv, NEW s \in Slots, NEW looked, Witness(s, looked), IsTree(tree'),
         NEW t \in Slots
  PROVE  /\ since'[t] \subseteq Path
         /\ request'[t] = None => since'[t] = {} /\ seen'[t] = Unseen
<1>1. Changed \subseteq Path
  BY DEF Changed, TypeInv, GlobalOk, IsTree
<1>2. since[t] \subseteq Path
  BY DEF TypeInv, SlotOk
<1>3. since'[t] = IF request'[t] = None THEN {}
                  ELSE IF t = s THEN since[t] \ looked ELSE since[t] \cup Changed
  BY DEF Witness
<1>4. request'[t] = None => seen'[t] = Unseen
  BY DEF Witness
<1> QED BY <1>1, <1>2, <1>3, <1>4

LEMMA StepMoves ==
  ASSUME TypeInv, NEW s \in Slots, NEW p, NEW v, Step(s, p, v)
  PROVE  /\ request' = request
         /\ pc'[s] = p /\ view'[s] = v
         /\ \A t \in Slots \ {s} : pc'[t] = pc[t] /\ view'[t] = view[t]
         /\ Shapes'
<1>1. pc = [x \in Slots |-> pc[x]] /\ view = [x \in Slots |-> view[x]] /\ request = [x \in Slots |-> request[x]]
  BY DEF TypeInv, Shapes
<1>2. pc' = [pc EXCEPT ![s] = p] /\ view' = [view EXCEPT ![s] = v] /\ request' = request
  BY DEF Step
<1> QED BY <1>1, <1>2 DEF Shapes

LEMMA AnswerMoves ==
  ASSUME TypeInv, NEW s \in Slots, Answer(s)
  PROVE  /\ request'[s] = None /\ pc'[s] = "idle" /\ view'[s] = NoView
         /\ \A t \in Slots \ {s} :
              request'[t] = request[t] /\ pc'[t] = pc[t] /\ view'[t] = view[t]
         /\ Shapes'
<1>1. pc = [x \in Slots |-> pc[x]] /\ view = [x \in Slots |-> view[x]] /\ request = [x \in Slots |-> request[x]]
  BY DEF TypeInv, Shapes
<1>2. /\ pc' = [pc EXCEPT ![s] = "idle"] /\ view' = [view EXCEPT ![s] = NoView]
      /\ request' = [request EXCEPT ![s] = None]
  BY DEF Answer
<1> QED BY <1>1, <1>2 DEF Shapes

LEMMA StepKeepsType ==
  ASSUME TypeInv, NEW s \in Slots, NEW p, NEW v, NEW looked,
         request[s] # None, Step(s, p, v), Witness(s, looked), GlobalOk',
         IsView(v), p # "idle",
         p = "restoring" => v.ops # <<>>,
         p = "writing" => v.writes # <<>>,
         p = "persist" => Holders({"persist"}, request[s].c, request[s].r) \subseteq {s},
         p \in HoldingResource =>
           Holders(HoldingResource, request[s].c, request[s].r) \subseteq {s}
  PROVE  TypeInv'
<1>1. /\ request' = request
      /\ pc'[s] = p /\ view'[s] = v
      /\ \A t \in Slots \ {s} : pc'[t] = pc[t] /\ view'[t] = view[t]
      /\ Shapes'
  BY StepMoves
<1>2. ASSUME NEW t \in Slots PROVE SlotOk(t)'
  <2>1. SlotOk(t) /\ SlotOk(s)
    BY DEF TypeInv
  <2>2. IsTree(tree')
    BY DEF GlobalOk
  <2>3. /\ since'[t] \subseteq Path
        /\ request'[t] = None => since'[t] = {} /\ seen'[t] = Unseen
    BY <2>2, WitnessKeeps
  <2>4. CASE t = s
    BY <1>1, <2>1, <2>3, <2>4 DEF SlotOk
  <2>5. CASE t # s
    BY <1>1, <2>1, <2>3, <2>5 DEF SlotOk
  <2> QED BY <2>4, <2>5
<1>3. ASSUME NEW t \in Slots, t # s, request[t] # None,
             request[s].c = request[t].c, request[s].r = request[t].r
      PROVE  /\ ~ (p = "persist" /\ pc[t] = "persist")
             /\ ~ (p \in HoldingResource /\ pc[t] \in HoldingResource)
  BY <1>3 DEF Holders
<1>4. ASSUME NEW t \in Slots, NEW u \in Slots, t # u PROVE LockOk(t, u)'
  <2>1. LockOk(t, u)
    BY <1>4 DEF TypeInv
  <2>2. CASE t = s
    BY <1>1, <1>3, <2>1, <2>2, <1>4 DEF LockOk
  <2>3. CASE u = s
    BY <1>1, <1>3, <2>1, <2>3, <1>4 DEF LockOk
  <2>4. CASE t # s /\ u # s
    BY <1>1, <2>1, <2>4 DEF LockOk
  <2> QED BY <2>2, <2>3, <2>4
<1> QED BY <1>1, <1>2, <1>4 DEF TypeInv

LEMMA AnswerKeepsType ==
  ASSUME TypeInv, NEW s \in Slots, NEW looked, Answer(s), Witness(s, looked), GlobalOk'
  PROVE  TypeInv'
<1>1. /\ request'[s] = None /\ pc'[s] = "idle" /\ view'[s] = NoView
      /\ \A t \in Slots \ {s} :
           request'[t] = request[t] /\ pc'[t] = pc[t] /\ view'[t] = view[t]
      /\ Shapes'
  BY AnswerMoves
<1>2. ASSUME NEW t \in Slots PROVE SlotOk(t)'
  <2>1. SlotOk(t)
    BY DEF TypeInv
  <2>2. IsTree(tree')
    BY DEF GlobalOk
  <2>3. /\ since'[t] \subseteq Path
        /\ request'[t] = None => since'[t] = {} /\ seen'[t] = Unseen
    BY <2>2, WitnessKeeps
  <2>4. CASE t = s
    BY <1>1, <2>3, <2>4, NoViewIsView DEF SlotOk
  <2>5. CASE t # s
    BY <1>1, <2>1, <2>3, <2>5 DEF SlotOk
  <2> QED BY <2>4, <2>5
<1>4. ASSUME NEW t \in Slots, NEW u \in Slots, t # u PROVE LockOk(t, u)'
  <2>1. LockOk(t, u)
    BY <1>4 DEF TypeInv
  <2>2. CASE t = s \/ u = s
    BY <1>1, <2>2 DEF LockOk
  <2>4. CASE t # s /\ u # s
    BY <1>1, <2>1, <2>4 DEF LockOk
  <2> QED BY <2>2, <2>4
<1> QED BY <1>1, <1>2, <1>4 DEF TypeInv

LEMMA GlobalKept ==
  ASSUME TypeInv, IsTree(tree'), backend' = backend, todo' \subseteq todo,
         expired' \subseteq 0 .. MaxId, archive' = archive \/ IsTree(archive'),
         remade' \subseteq 0 .. MaxId, faults' \in 0 .. MaxFaults
  PROVE  GlobalOk'
BY DEF TypeInv, GlobalOk

LEMMA RestKept ==
  ASSUME TypeInv, IsTree(tree'), UNCHANGED rest
  PROVE  GlobalOk'
BY DEF TypeInv, GlobalOk, rest

LEMMA AnswerType ==
  ASSUME TypeInv, NEW s \in Slots, NEW looked, Answer(s), Witness(s, looked),
         UNCHANGED rest, IsTree(tree')
  PROVE  TypeInv'
BY RestKept, AnswerKeepsType

LEMMA LookType ==
  ASSUME TypeInv, NEW s \in Slots, NEW p, NEW v, NEW looked,
         request[s] # None, Step(s, p, v), Witness(s, looked), UNCHANGED rest, IsTree(tree'),
         IsView(v), p \notin {"idle", "restoring", "writing", "persist"} \cup HoldingResource
  PROVE  TypeInv'
<1>1. GlobalOk'
  BY RestKept
<1> QED BY <1>1, StepKeepsType

\* What a request and what is stored give.
LEMMA RequestParts ==
  ASSUME TypeInv, NEW s \in Slots, request[s] # None
  PROVE  /\ request[s] \in Request
         /\ request[s].kind \in {"put", "post"} => request[s].r = 0
         /\ request[s].c \in 0 .. MaxId /\ request[s].r \in 0 .. MaxId
         /\ request[s].type \in Types /\ request[s].body \in {None} \cup STRING
         /\ Data(request[s].body) \in Value
<1>1. IsRequest(request[s])
  BY DEF TypeInv, SlotOk
<1>2. /\ request[s].c \in 0 .. MaxId /\ request[s].r \in 0 .. MaxId
      /\ request[s].type \in Types /\ request[s].body \in {None} \cup STRING
  BY <1>1 DEF IsRequest, Request
<1>3. Data(request[s].body) \in Value
  BY <1>2 DEF Data, Value
<1> QED BY <1>1, <1>2, <1>3 DEF IsRequest

LEMMA TreeOk ==
  ASSUME TypeInv
  PROVE  /\ IsTree(tree)
         /\ \A p \in DOMAIN tree.files : p \in Path /\ tree.files[p] \in Value
         /\ tree.dirs \subseteq 0 .. MaxId
BY DEF TypeInv, GlobalOk, IsTree

LEMMA ViewOk ==
  ASSUME TypeInv, NEW s \in Slots
  PROVE  IsView(view[s]) /\ IsTree(view[s].copy)
BY DEF TypeInv, SlotOk, IsView

LEMMA ZeroId == 0 \in 0 .. MaxId
BY ConstantsAssumption

LEMMA FilesArePaths ==
  ASSUME NEW c \in 0 .. MaxId, NEW r \in 0 .. MaxId
  PROVE  /\ SpaceFile \in Path /\ DescriptionFile(c) \in Path /\ MetaFile(c) \in Path
         /\ PolicyFile(c, r) \in Path /\ Sidecar(c, r) \in Path /\ ChunkFile(c, r) \in Path
         /\ At("revocation", 0, r) \in Path /\ At("key", 0, r) \in Path
         /\ Representations(c, r) \subseteq Path
         /\ \A t \in Types : At(t, c, r) \in Path
         /\ SpaceFile.kind = "space" /\ SpaceFile.c = 0
         /\ DescriptionFile(c).kind = "description" /\ DescriptionFile(c).c = c
         /\ DescriptionFile(c).r = 0
         /\ MetaFile(c).kind = "meta" /\ MetaFile(c).c = c
         /\ PolicyFile(c, r).kind = "policy" /\ PolicyFile(c, r).c = c /\ PolicyFile(c, r).r = r
         /\ Sidecar(c, r).kind = "sidecar" /\ Sidecar(c, r).c = c /\ Sidecar(c, r).r = r
         /\ ChunkFile(c, r).kind = "chunk" /\ ChunkFile(c, r).c = c /\ ChunkFile(c, r).r = r
         /\ At("revocation", 0, r).kind = "revocation"
         /\ At("key", 0, r).kind = "key"
         /\ \A p \in Representations(c, r) : p.kind \in Types /\ p.c = c /\ p.r = r
BY ZeroId DEF SpaceFile, DescriptionFile, MetaFile, PolicyFile, Sidecar, ChunkFile,
              Representations, At, Path, Kinds, Types

LEMMA BumpedOk ==
  ASSUME NEW prior, prior # None => prior \in Value
  PROVE  Bumped(prior) \in Value
BY DEF Bumped, Value

LEMMA PriorSidecarOk ==
  ASSUME TypeInv, NEW r
  PROVE  PriorSidecar(r) # None => PriorSidecar(r) \in Value
BY TreeOk DEF PriorSidecar, Has

LEMMA TombstoneOk ==
  ASSUME TypeInv, NEW r
  PROVE  Tombstone(r) \in Value
<1> DEFINE b == Bumped(PriorSidecar(r))
<1>1. b \in Value
  BY PriorSidecarOk, BumpedOk
<1> HIDE DEF b
<1>2. [b EXCEPT !.body = None, !.deleted = TRUE] \in Value
  BY <1>1 DEF Value
<1> QED BY <1>2 DEF Tombstone, b

LEMMA PriorDescriptionOk ==
  ASSUME TypeInv, NEW r
  PROVE  PriorDescription(r) # None => PriorDescription(r) \in Value
BY TreeOk DEF PriorDescription, Has

LEMMA ReplacementOk ==
  ASSUME NEW r, r.body \in {None} \cup STRING, NEW prior, prior # None => prior \in Value
  PROVE  Replacement(r, prior) \in Value
BY DEF Replacement, Value

LEMMA DataOk ==
  ASSUME NEW b \in {None} \cup STRING
  PROVE  Data(b) \in Value
BY DEF Data, Value

\* What a row's content is: what stands there, what stands there under another type, or
\* nothing.
LEMMA RowContentIs ==
  ASSUME NEW t, NEW p
  PROVE  \/ Has(t, p) /\ RowContent(t, p) = t.files[p]
         \/ ~Has(t, p) /\ RowContent(t, p) = Data(None)
         \/ ~Has(t, p) /\ p.kind \in Types
              /\ \E k \in Types : /\ At(k, p.c, p.r) \in DOMAIN t.files
                                   /\ RowContent(t, p) = t.files[At(k, p.c, p.r)]
<1> DEFINE live == Among(t, Representations(p.c, p.r))
           q == CHOOSE x \in live : TRUE
<1>1. CASE ~Has(t, p) /\ p.kind \in Types /\ live # {}
  <2>1. q \in live
    BY <1>1
  <2>2. q \in DOMAIN t.files /\ \E k \in Types : q = At(k, p.c, p.r)
    BY <2>1 DEF Among, Representations
  <2>3. RowContent(t, p) = t.files[q]
    BY <1>1 DEF RowContent
  <2> HIDE DEF q
  <2> QED BY <1>1, <2>2, <2>3
<1>2. CASE Has(t, p) \/ ~ (p.kind \in Types /\ live # {})
  BY <1>2 DEF RowContent
<1> QED BY <1>1, <1>2

LEMMA RowContentOk ==
  ASSUME NEW t, IsTree(t), NEW p
  PROVE  RowContent(t, p) \in Value
<1>1. \A x \in DOMAIN t.files : t.files[x] \in Value
  BY DEF IsTree
<1>2. Data(None) \in Value
  BY DataOk
<1> QED BY <1>1, <1>2, RowContentIs DEF Has

LEMMA RevokedFacts ==
  ASSUME NEW t, IsTree(t), NEW p \in Path, NEW v \in Value
  PROVE  /\ IsTree(Revoked(t, p, v))
         /\ DOMAIN t.files \subseteq DOMAIN Revoked(t, p, v).files
         /\ \A q \in DOMAIN t.files : Revoked(t, p, v).files[q] = t.files[q]
         /\ t.dirs \subseteq Revoked(t, p, v).dirs
BY PutFacts DEF Revoked, Has

LEMMA PrunedOk ==
  ASSUME NEW t, IsTree(t)
  PROVE  IsTree(Pruned(t))
BY WithoutFacts DEF Pruned

----------------------------------------------------------------------------
(* Every action keeps the types and the locks.                              *)

LEMMA TypeBegin ==
  ASSUME TypeInv, NEW s \in Slots, Begin(s)
  PROVE  TypeInv'
<1>1. PICK r \in todo : /\ request' = [request EXCEPT ![s] = r]
                        /\ todo' = todo \ {r}
                        /\ view' = [view EXCEPT ![s].copy = IF r.kind = "import" THEN archive ELSE @]
                        /\ Admitted(r)
  BY DEF Begin
<1>2. /\ request[s] = None /\ pc' = [pc EXCEPT ![s] = "begin"]
      /\ UNCHANGED <<backend, tree, expired, archive, remade, faults>>
      /\ Witness(s, {})
  BY DEF Begin
<1>3. GlobalOk /\ SlotOk(s)
  BY DEF TypeInv
<1>4. GlobalOk'
  BY <1>1, <1>2, <1>3 DEF GlobalOk
<1>5. IsRequest(r) /\ r # None
  BY <1>1, <1>3, ConstantsAssumption DEF GlobalOk, IsRequest
<1>6. pc = [x \in Slots |-> pc[x]] /\ view = [x \in Slots |-> view[x]] /\ request = [x \in Slots |-> request[x]]
  BY DEF TypeInv, Shapes
<1>7. /\ request'[s] = r /\ pc'[s] = "begin"
      /\ view'[s] = [view[s] EXCEPT !.copy = IF r.kind = "import" THEN archive ELSE @]
      /\ \A t \in Slots \ {s} :
           request'[t] = request[t] /\ pc'[t] = pc[t] /\ view'[t] = view[t]
      /\ Shapes'
  BY <1>1, <1>2, <1>6 DEF Shapes
<1>8. r.kind = "import" => IsTree(archive)
  BY <1>1, <1>3 DEF Admitted, GlobalOk
<1>9. IsView(view'[s])
  BY <1>3, <1>7, <1>8 DEF SlotOk, IsView
<1>10. ASSUME NEW t \in Slots PROVE SlotOk(t)'
  <2>1. SlotOk(t)
    BY DEF TypeInv
  <2>2. IsTree(tree')
    BY <1>4 DEF GlobalOk
  <2>3. /\ since'[t] \subseteq Path
        /\ request'[t] = None => since'[t] = {} /\ seen'[t] = Unseen
    BY <1>2, <2>2, WitnessKeeps
  <2>4. CASE t = s
    BY <1>5, <1>7, <1>9, <2>3, <2>4 DEF SlotOk
  <2>5. CASE t # s
    BY <1>7, <2>1, <2>3, <2>5 DEF SlotOk
  <2> QED BY <2>4, <2>5
<1>11. ASSUME NEW t \in Slots, NEW u \in Slots, t # u PROVE LockOk(t, u)'
  <2>1. LockOk(t, u)
    BY <1>11 DEF TypeInv
  <2>2. CASE t = s \/ u = s
    BY <1>7, <2>2 DEF LockOk, HoldingResource
  <2>4. CASE t # s /\ u # s
    BY <1>7, <2>1, <2>4 DEF LockOk
  <2> QED BY <2>2, <2>4
<1> QED BY <1>4, <1>7, <1>10, <1>11 DEF TypeInv

LEMMA TypeQuotaRefuses ==
  ASSUME TypeInv, NEW s \in Slots, QuotaRefuses(s)
  PROVE  TypeInv'
<1>1. Answer(s) /\ UNCHANGED <<tree, rest>> /\ Witness(s, {})
  BY DEF QuotaRefuses
<1> QED BY <1>1, AnswerType, TreeOk

LEMMA TypePostCheck ==
  ASSUME TypeInv, NEW s \in Slots, PostCheck(s)
  PROVE  TypeInv'
<1>1. /\ request[s] # None /\ UNCHANGED <<tree, rest>>
      /\ Witness(s, {DescriptionFile(request[s].c)})
      /\ Answer(s) \/ Step(s, "upsert", view[s])
  BY DEF PostCheck, Running
<1>2. CASE Answer(s)
  BY <1>1, <1>2, AnswerType, TreeOk
<1>3. CASE Step(s, "upsert", view[s])
  BY <1>1, <1>3, LookType, TreeOk, ViewOk DEF HoldingResource
<1> QED BY <1>1, <1>2, <1>3

LEMMA TypePutPrior ==
  ASSUME TypeInv, NEW s \in Slots, PutPrior(s)
  PROVE  TypeInv'
<1> DEFINE r == request[s]
           v == [view[s] EXCEPT !.snap = PriorDescription(r)]
<1>1. /\ r # None /\ r.kind \in {"put", "post"} /\ UNCHANGED <<tree, rest>> /\ Witness(s, {})
      /\ Holders({"persist"}, r.c, 0) = {}
      /\ Answer(s) \/ Step(s, "persist", v)
  BY DEF PutPrior, OnFiles, Running
<1>2. CASE Answer(s)
  BY <1>1, <1>2, AnswerType, TreeOk
<1>3. CASE Step(s, "persist", v)
  <2>1. IsView(v)
    BY ViewOk, PriorDescriptionOk, ViewSnap
  <2>2. Holders({"persist"}, r.c, r.r) \subseteq {s}
    BY <1>1, RequestParts
  <2>3. GlobalOk'
    BY <1>1, RestKept, TreeOk
  <2> HIDE DEF v
  <2> QED BY <1>1, <1>3, <2>1, <2>2, <2>3, StepKeepsType DEF HoldingResource
<1> QED BY <1>1, <1>2, <1>3

LEMMA TypePutPersist ==
  ASSUME TypeInv, NEW s \in Slots, PutPersist(s)
  PROVE  TypeInv'
<1> DEFINE r == request[s]
           d == Replacement(r, view[s].snap)
<1>1. /\ r # None /\ Answer(s) /\ UNCHANGED rest /\ Witness(s, {})
      /\ tree' = IF Lands(tree, DescriptionFile(r.c)) THEN Put(tree, DescriptionFile(r.c), d) ELSE tree
  BY DEF PutPersist
<1>2. d \in Value
  BY <1>1, RequestParts, ViewOk, ReplacementOk DEF IsView
<1>3. DescriptionFile(r.c) \in Path
  BY <1>1, RequestParts, FilesArePaths
<1> HIDE DEF d
<1>4. IsTree(tree')
  BY <1>1, <1>2, <1>3, TreeOk, PutFacts
<1> QED BY <1>1, <1>4, AnswerType

LEMMA TypePutRow ==
  ASSUME TypeInv, NEW s \in Slots, PutRow(s)
  PROVE  TypeInv'
<1> DEFINE r == request[s]
           d == Replacement(r, PriorDescription(r))
<1>1. /\ r # None /\ Answer(s) /\ UNCHANGED rest /\ Witness(s, {})
      /\ tree' = IF PreconditionFails(r, PriorDescription(r)) THEN tree
                 ELSE Put(tree, DescriptionFile(r.c), d)
  BY DEF PutRow, InRows, Running
<1>2. d \in Value
  BY <1>1, RequestParts, PriorDescriptionOk, ReplacementOk
<1>3. DescriptionFile(r.c) \in Path
  BY <1>1, RequestParts, FilesArePaths
<1> HIDE DEF d
<1>4. IsTree(tree')
  BY <1>1, <1>2, <1>3, TreeOk, PutFacts
<1> QED BY <1>1, <1>4, AnswerType

LEMMA TypeDropSome ==
  ASSUME TypeInv, NEW s \in Slots, DropSome(s)
  PROVE  TypeInv'
<1>1. /\ request[s] # None /\ Step(s, "dropped", view[s]) /\ Witness(s, {})
      /\ remade' = remade \cup {request[s].c}
      /\ UNCHANGED <<backend, expired, archive, todo, faults>>
      /\ \E S : tree' = Without(tree, S)
  BY DEF DropSome, OnFiles, Running
<1>2. IsTree(tree')
  BY <1>1, TreeOk, WithoutFacts
<1>3. GlobalOk'
  BY <1>1, <1>2, RequestParts DEF TypeInv, GlobalOk
<1> QED BY <1>1, <1>3, ViewOk, StepKeepsType DEF HoldingResource

LEMMA TypeDropAll ==
  ASSUME TypeInv, NEW s \in Slots, DropAll(s)
  PROVE  TypeInv'
<1> DEFINE c == request[s].c
           u == Without(tree, InCollection(tree, c))
<1>1. /\ request[s] # None /\ Answer(s) /\ Witness(s, {})
      /\ remade' = remade \cup {c}
      /\ UNCHANGED <<backend, expired, archive, todo, faults>>
      /\ tree' = [u EXCEPT !.dirs = u.dirs \ {c}]
  BY DEF DropAll, Running
<1>2. IsTree(u) /\ u.dirs \ {c} \subseteq 0 .. MaxId
  BY TreeOk, WithoutFacts
<1> HIDE DEF u
<1>3. IsTree(tree')
  BY <1>1, <1>2, DirsExcept
<1>4. GlobalOk'
  BY <1>1, <1>3, RequestParts DEF TypeInv, GlobalOk
<1> QED BY <1>1, <1>4, AnswerKeepsType

LEMMA TypeWriteCheck ==
  ASSUME TypeInv, NEW s \in Slots, WriteCheck(s)
  PROVE  TypeInv'
<1>1. /\ request[s] # None /\ UNCHANGED <<tree, rest>> /\ Witness(s, {})
      /\ Answer(s) \/ Step(s, "checked", view[s])
  BY DEF WriteCheck, Running
<1>2. CASE Answer(s)
  BY <1>1, <1>2, AnswerType, TreeOk
<1>3. CASE Step(s, "checked", view[s])
  BY <1>1, <1>3, LookType, TreeOk, ViewOk DEF HoldingResource
<1> QED BY <1>1, <1>2, <1>3

LEMMA TypeWriteContent ==
  ASSUME TypeInv, NEW s \in Slots, WriteContent(s)
  PROVE  TypeInv'
<1> DEFINE r == request[s]
           p == At(r.type, r.c, r.r)
           v == [view[s] EXCEPT !.snap = PriorSidecar(r),
                                !.left = Among(tree, Representations(r.c, r.r)) \ {p}]
<1>1. /\ r # None /\ UNCHANGED rest /\ Witness(s, {}) /\ Unlocked(r)
      /\ \/ tree' = Put(tree, p, Data(r.body)) /\ Step(s, "prune", v)
         \/ Answer(s) /\ UNCHANGED tree
  BY DEF WriteContent, OnFiles, Running
<1>2. p \in Path /\ Data(r.body) \in Value
  BY <1>1, RequestParts, FilesArePaths
<1>3. IsView(v)
  <2>1. Among(tree, Representations(r.c, r.r)) \subseteq Path
    BY TreeOk DEF Among
  <2>2. Among(tree, Representations(r.c, r.r)) \ {p} \subseteq Path
    BY <2>1
  <2> QED BY <2>2, ViewOk, PriorSidecarOk, ViewSnapLeft
<1> HIDE DEF v, p
<1>4. CASE Answer(s) /\ UNCHANGED tree
  BY <1>1, <1>4, AnswerType, TreeOk
<1>5. CASE tree' = Put(tree, p, Data(r.body)) /\ Step(s, "prune", v)
  <2>1. IsTree(tree')
    BY <1>2, <1>5, TreeOk, PutFacts
  <2>2. GlobalOk'
    BY <1>1, <2>1, RestKept
  <2>3. Holders(HoldingResource, r.c, r.r) \subseteq {s}
    BY <1>1 DEF Unlocked
  <2> QED BY <1>1, <1>3, <1>5, <2>2, <2>3, StepKeepsType
<1> QED BY <1>1, <1>4, <1>5

LEMMA AlreadyHolding ==
  ASSUME TypeInv, NEW s \in Slots, request[s] # None, pc[s] \in HoldingResource
  PROVE  Holders(HoldingResource, request[s].c, request[s].r) \subseteq {s}
BY DEF TypeInv, LockOk, Holders

LEMMA TypeWritePrune ==
  ASSUME TypeInv, NEW s \in Slots, WritePrune(s)
  PROVE  TypeInv'
<1>1. /\ request[s] # None /\ UNCHANGED rest /\ Witness(s, {}) /\ pc[s] = "prune"
      /\ tree' = Without(tree, view[s].left)
      /\ Step(s, "sidecar", view[s]) \/ Answer(s)
  BY DEF WritePrune, OnFiles, Running
<1>2. IsTree(tree')
  BY <1>1, TreeOk, WithoutFacts
<1>3. GlobalOk'
  BY <1>1, <1>2, RestKept
<1>4. CASE Answer(s)
  BY <1>1, <1>3, <1>4, AnswerKeepsType
<1>5. CASE Step(s, "sidecar", view[s])
  BY <1>1, <1>3, <1>5, AlreadyHolding, ViewOk, StepKeepsType DEF HoldingResource
<1> QED BY <1>1, <1>4, <1>5

LEMMA TypeWriteSidecar ==
  ASSUME TypeInv, NEW s \in Slots, WriteSidecar(s)
  PROVE  TypeInv'
<1> DEFINE p == Sidecar(request[s].c, request[s].r)
           d == Bumped(view[s].snap)
<1>1. /\ request[s] # None /\ UNCHANGED rest /\ Witness(s, {}) /\ Answer(s)
      /\ tree' = IF Lands(tree, p) THEN Put(tree, p, d) ELSE tree
  BY DEF WriteSidecar, OnFiles, Running
<1>2. p \in Path /\ d \in Value
  BY <1>1, RequestParts, FilesArePaths, ViewOk, BumpedOk DEF IsView
<1> HIDE DEF p, d
<1>3. IsTree(tree')
  BY <1>1, <1>2, TreeOk, PutFacts
<1> QED BY <1>1, <1>3, AnswerType

LEMMA TypeWriteRow ==
  ASSUME TypeInv, NEW s \in Slots, WriteRow(s)
  PROVE  TypeInv'
<1> DEFINE r == request[s]
           u == Without(tree, Representations(r.c, r.r) \ {At(r.type, r.c, r.r)})
           w == Put(u, At(r.type, r.c, r.r), Data(r.body))
<1>1. /\ r # None /\ UNCHANGED rest /\ Witness(s, {}) /\ Answer(s)
      /\ tree' = Put(w, Sidecar(r.c, r.r), Bumped(PriorSidecar(r)))
  BY DEF WriteRow, InRows, Running
<1>2. /\ At(r.type, r.c, r.r) \in Path /\ Sidecar(r.c, r.r) \in Path
      /\ Data(r.body) \in Value /\ Bumped(PriorSidecar(r)) \in Value
  BY <1>1, RequestParts, FilesArePaths, PriorSidecarOk, BumpedOk
<1>3. IsTree(u)
  BY TreeOk, WithoutFacts
<1> HIDE DEF u
<1>4. IsTree(w)
  BY <1>2, <1>3, PutFacts
<1> HIDE DEF w
<1>5. IsTree(tree')
  BY <1>1, <1>2, <1>4, PutFacts
<1> QED BY <1>1, <1>5, AnswerType

LEMMA TypeRemoveContent ==
  ASSUME TypeInv, NEW s \in Slots, RemoveContent(s)
  PROVE  TypeInv'
<1> DEFINE r == request[s]
<1>1. /\ r # None /\ UNCHANGED rest /\ Witness(s, {}) /\ Unlocked(r)
      /\ tree' = Without(tree, Representations(r.c, r.r))
      /\ Step(s, "chunks", view[s]) \/ Answer(s)
  BY DEF RemoveContent, OnFiles, Running
<1>2. GlobalOk'
  BY <1>1, TreeOk, WithoutFacts, RestKept
<1>3. CASE Answer(s)
  BY <1>1, <1>2, <1>3, AnswerKeepsType
<1>4. CASE Step(s, "chunks", view[s])
  <2>1. Holders(HoldingResource, r.c, r.r) \subseteq {s}
    BY <1>1 DEF Unlocked
  <2> QED BY <1>1, <1>2, <1>4, <2>1, ViewOk, StepKeepsType
<1> QED BY <1>1, <1>3, <1>4

LEMMA TypeRemoveChunks ==
  ASSUME TypeInv, NEW s \in Slots, RemoveChunks(s)
  PROVE  TypeInv'
<1>1. /\ request[s] # None /\ UNCHANGED rest /\ Witness(s, {}) /\ pc[s] = "chunks"
      /\ tree' = Without(tree, {ChunkFile(request[s].c, request[s].r)})
      /\ Step(s, "tombstone", view[s])
  BY DEF RemoveChunks, OnFiles, Running
<1>2. GlobalOk'
  BY <1>1, TreeOk, WithoutFacts, RestKept
<1> QED BY <1>1, <1>2, AlreadyHolding, ViewOk, StepKeepsType DEF HoldingResource

LEMMA TypeRemoveSidecar ==
  ASSUME TypeInv, NEW s \in Slots, RemoveSidecar(s)
  PROVE  TypeInv'
<1> DEFINE p == Sidecar(request[s].c, request[s].r)
           d == Tombstone(request[s])
<1>1. /\ request[s] # None /\ UNCHANGED rest /\ Witness(s, {}) /\ Answer(s)
      /\ tree' = IF Lands(tree, p) THEN Put(tree, p, d) ELSE tree
  BY DEF RemoveSidecar, OnFiles, Running
<1>2. p \in Path /\ d \in Value
  BY <1>1, RequestParts, FilesArePaths, TombstoneOk
<1> HIDE DEF p, d
<1>3. IsTree(tree')
  BY <1>1, <1>2, TreeOk, PutFacts
<1> QED BY <1>1, <1>3, AnswerType

LEMMA TypeRemoveRow ==
  ASSUME TypeInv, NEW s \in Slots, RemoveRow(s)
  PROVE  TypeInv'
<1> DEFINE r == request[s]
           p == Sidecar(r.c, r.r)
           d == Tombstone(r)
           u == Without(tree, Representations(r.c, r.r) \cup {ChunkFile(r.c, r.r)})
<1>1. /\ r # None /\ UNCHANGED rest /\ Witness(s, {}) /\ Answer(s)
      /\ tree' = IF Live(tree, r.c, r.r) THEN Put(u, p, d) ELSE tree
  BY DEF RemoveRow, InRows, Running
<1>2. p \in Path /\ d \in Value
  BY <1>1, RequestParts, FilesArePaths, TombstoneOk
<1>3. IsTree(u)
  BY TreeOk, WithoutFacts
<1> HIDE DEF p, d, u
<1>4. IsTree(tree')
  BY <1>1, <1>2, <1>3, TreeOk, PutFacts
<1> QED BY <1>1, <1>4, AnswerType

LEMMA TypeWriteChunk ==
  ASSUME TypeInv, NEW s \in Slots, WriteChunk(s)
  PROVE  TypeInv'
<1> DEFINE r == request[s]
           p == ChunkFile(r.c, r.r)
           d == Data(r.body)
<1>1. /\ r # None /\ UNCHANGED rest /\ Witness(s, {}) /\ Answer(s)
      /\ tree' = IF Live(tree, r.c, r.r) THEN Put(tree, p, d) ELSE tree
  BY DEF WriteChunk, Running
<1>2. p \in Path
  BY <1>1, RequestParts, FilesArePaths
<1>3. r.body \in {None} \cup STRING
  BY <1>1, RequestParts
<1>4. d \in Value
  BY <1>3, DataOk
<1> HIDE DEF p, d
<1>5. IsTree(tree')
  BY <1>1, <1>2, <1>4, TreeOk, PutFacts
<1> QED BY <1>1, <1>5, AnswerType

LEMMA TypeSetPolicy ==
  ASSUME TypeInv, NEW s \in Slots, SetPolicy(s)
  PROVE  TypeInv'
<1> DEFINE r == request[s]
           p == PolicyFile(r.c, r.r)
           d == Data(r.body)
<1>1. /\ r # None /\ UNCHANGED rest /\ Witness(s, {}) /\ Answer(s)
      /\ \/ tree' = Without(tree, {p})
         \/ tree' = Put(tree, p, d)
         \/ tree' = tree
  BY DEF SetPolicy, Running
<1>2. p \in Path /\ d \in Value
  BY <1>1, RequestParts, FilesArePaths
<1> HIDE DEF p, d
<1>3. IsTree(tree')
  BY <1>1, <1>2, TreeOk, PutFacts, WithoutFacts
<1> QED BY <1>1, <1>3, AnswerType

LEMMA TypeCreateSpace ==
  ASSUME TypeInv, NEW s \in Slots, CreateSpace(s)
  PROVE  TypeInv'
<1>1. /\ request[s] # None /\ UNCHANGED rest /\ Witness(s, {}) /\ Answer(s)
      /\ tree' = Put(tree, SpaceFile, Data(request[s].body))
  BY DEF CreateSpace, Running
<1>2. IsTree(tree')
  BY <1>1, RequestParts, FilesArePaths, TreeOk, PutFacts
<1> QED BY <1>1, <1>2, AnswerType

LEMMA TypeRemoveRevocations ==
  ASSUME TypeInv, NEW s \in Slots, RemoveRevocations(s)
  PROVE  TypeInv'
<1>1. /\ request[s] # None /\ UNCHANGED rest /\ Witness(s, {})
      /\ \E S : tree' = Without(tree, S)
      /\ Step(s, "removing", view[s])
  BY DEF RemoveRevocations, OnFiles, Running
<1>2. IsTree(tree')
  BY <1>1, TreeOk, WithoutFacts
<1> QED BY <1>1, <1>2, ViewOk, LookType DEF HoldingResource

LEMMA TypeRemoveSome ==
  ASSUME TypeInv, NEW s \in Slots, RemoveSome(s)
  PROVE  TypeInv'
<1>1. /\ request[s] # None /\ Step(s, "half", view[s]) /\ Witness(s, {})
      /\ remade' = 0 .. MaxId
      /\ UNCHANGED <<backend, expired, archive, todo, faults>>
      /\ \E S : tree' = Without(tree, S)
  BY DEF RemoveSome, OnFiles, Running
<1>2. IsTree(tree')
  BY <1>1, TreeOk, WithoutFacts
<1>3. GlobalOk'
  BY <1>1, <1>2 DEF TypeInv, GlobalOk
<1> QED BY <1>1, <1>3, ViewOk, StepKeepsType DEF HoldingResource

LEMMA TypeRemoveAll ==
  ASSUME TypeInv, NEW s \in Slots, RemoveAll(s) \/ DeleteRows(s)
  PROVE  TypeInv'
<1>1. /\ request[s] # None /\ Answer(s) /\ Witness(s, {})
      /\ remade' = 0 .. MaxId
      /\ UNCHANGED <<backend, expired, archive, todo, faults>>
      /\ \E S : tree' = [Without(tree, S) EXCEPT !.dirs = {}]
  BY DEF RemoveAll, DeleteRows, OnFiles, InRows, Running
<1>2. PICK S : tree' = [Without(tree, S) EXCEPT !.dirs = {}]
  BY <1>1
<1>3. IsTree(Without(tree, S))
  BY TreeOk, WithoutFacts
<1>4. IsTree(tree')
  BY <1>2, <1>3, DirsExcept
<1>5. GlobalOk'
  BY <1>1, <1>4 DEF TypeInv, GlobalOk
<1> QED BY <1>1, <1>5, AnswerKeepsType

LEMMA TypeRevoke ==
  ASSUME TypeInv, NEW s \in Slots, Revoke(s)
  PROVE  TypeInv'
<1> DEFINE p == At("revocation", 0, request[s].r)
           d == Data(request[s].body)
<1>1. /\ request[s] # None /\ UNCHANGED rest /\ Witness(s, {}) /\ Answer(s)
      /\ tree' = Revoked(Pruned(tree), p, d)
  BY DEF Revoke, Running
<1>2. p \in Path /\ d \in Value
  BY <1>1, RequestParts, FilesArePaths
<1> HIDE DEF p, d
<1>3. IsTree(tree')
  BY <1>1, <1>2, TreeOk, PrunedOk, RevokedFacts
<1> QED BY <1>1, <1>3, AnswerType

LEMMA TypeGenerate ==
  ASSUME TypeInv, NEW s \in Slots, Generate(s)
  PROVE  TypeInv'
<1>1. /\ request[s] # None /\ UNCHANGED rest /\ Witness(s, {}) /\ Answer(s)
      /\ tree' = Put(tree, At("key", 0, request[s].r), Data(request[s].body))
  BY DEF Generate, Running
<1>2. IsTree(tree')
  BY <1>1, RequestParts, FilesArePaths, TreeOk, PutFacts
<1> QED BY <1>1, <1>2, AnswerType

LEMMA DeliverType ==
  ASSUME TypeInv, NEW s \in Slots, NEW page, request[s] # None, Deliver(s, page),
         UNCHANGED <<tree, rest>>, Witness(s, {})
  PROVE  TypeInv'
<1> DEFINE v == [NoView EXCEPT !.got = view[s].got \o page.page,
                              !.cursor = IF page.more THEN page.page[Len(page.page)] ELSE None]
           p == IF page.more THEN "begin" ELSE "listed"
<1>1. Step(s, p, v)
  BY DEF Deliver
<1>2. p \in {"begin", "listed"}
  OBVIOUS
<1>3. IsView(v)
  BY NoViewIsView, ViewGotCursor
<1> HIDE DEF v, p
<1> QED BY <1>1, <1>2, <1>3, LookType, TreeOk DEF HoldingResource

LEMMA TypeListPage ==
  ASSUME TypeInv, NEW s \in Slots, ListPage(s)
  PROVE  TypeInv'
<1>1. /\ request[s] # None /\ UNCHANGED <<tree, rest>> /\ Witness(s, {})
      /\ Answer(s) \/ \E page : Deliver(s, page)
  BY DEF ListPage, Running
<1> QED BY <1>1, DeliverType, AnswerType, TreeOk

LEMMA TypeQueryRows ==
  ASSUME TypeInv, NEW s \in Slots, QueryRows(s) \/ QueryPage(s)
  PROVE  TypeInv'
<1>1. /\ request[s] # None /\ UNCHANGED <<tree, rest>> /\ Witness(s, {})
      /\ Answer(s) \/ \E page : Deliver(s, page)
  BY DEF QueryRows, QueryPage, InRows, OnFiles, Running
<1> QED BY <1>1, DeliverType, AnswerType, TreeOk

LEMMA TypeQueryList ==
  ASSUME TypeInv, NEW s \in Slots, QueryList(s)
  PROVE  TypeInv'
<1> DEFINE r == request[s]
           reps == Candidates(r)
           left == {p \in reps : p.kind \in JsonTypes}
                     \cup (IF r.query.profile = "blinded" THEN {}
                           ELSE {Sidecar(p.c, p.r) : p \in reps})
           v == [view[s] EXCEPT !.listed = reps, !.left = left]
<1>1. /\ r # None /\ UNCHANGED <<tree, rest>> /\ Witness(s, {})
      /\ Answer(s) \/ Step(s, "reading", v)
  BY DEF QueryList, OnFiles, Running
<1>2. reps \subseteq Path
  BY TreeOk DEF Candidates
<1>3. \A p \in reps : Sidecar(p.c, p.r) \in Path
  <2>1. \A p \in reps : p.c \in 0 .. MaxId /\ p.r \in 0 .. MaxId
    BY <1>2 DEF Path
  <2> QED BY <2>1, FilesArePaths
<1> HIDE DEF reps
<1>4. left \subseteq Path
  BY <1>2, <1>3
<1> HIDE DEF left
<1>5. IsView(v)
  BY <1>2, <1>4, ViewOk, ViewListedLeft
<1> HIDE DEF v
<1>6. CASE Answer(s)
  BY <1>1, <1>6, AnswerType, TreeOk
<1>7. CASE Step(s, "reading", v)
  BY <1>1, <1>5, <1>7, LookType, TreeOk DEF HoldingResource
<1> QED BY <1>1, <1>6, <1>7

LEMMA PackedFacts ==
  ASSUME NEW copy, IsTree(copy), NEW p \in Path, NEW w \in Value
  PROVE  /\ IsTree(Packed(copy, p, w))
         /\ Packed(copy, p, w).dirs = copy.dirs
         /\ DOMAIN Packed(copy, p, w).files = DOMAIN copy.files \cup {p}
         /\ Packed(copy, p, w).files[p] = w
         /\ \A q \in DOMAIN copy.files \ {p} : Packed(copy, p, w).files[q] = copy.files[q]
<1> DEFINE f == Over([q \in {p} |-> w], copy.files)
<1>1. IsFiles(copy.files) /\ copy = [dirs |-> copy.dirs, files |-> copy.files] /\ copy.dirs \subseteq 0 .. MaxId
  BY PartsOfTree
<1>2. /\ IsFiles(f)
      /\ DOMAIN f = DOMAIN copy.files \cup {p}
      /\ f[p] = w
      /\ \A q \in DOMAIN copy.files \ {p} : f[q] = copy.files[q]
  <2> DEFINE g == copy.files
  <2>1. IsFiles(g)
    BY <1>1
  <2> HIDE DEF g
  <2>2. /\ IsFiles(Over([q \in {p} |-> w], g))
        /\ DOMAIN Over([q \in {p} |-> w], g) = DOMAIN g \cup {p}
        /\ Over([q \in {p} |-> w], g)[p] = w
        /\ \A q \in DOMAIN g \ {p} : Over([x \in {p} |-> w], g)[q] = g[q]
    BY <2>1, OneOver
  <2> QED BY <2>2 DEF g
<1>3. Packed(copy, p, w) = [copy EXCEPT !.files = f]
  BY DEF Packed
<1> HIDE DEF f
<1>4. [copy EXCEPT !.files = f] = [dirs |-> copy.dirs, files |-> f]
  BY <1>1
<1>5. IsTree([dirs |-> copy.dirs, files |-> f])
  BY <1>1, <1>2, TreeParts
<1> QED BY <1>2, <1>3, <1>4, <1>5

LEMMA CopiedOk ==
  ASSUME TypeInv, NEW copy, IsTree(copy), NEW p, Has(tree, p)
  PROVE  IsTree(Copied(copy, p))
BY TreeOk, PackedFacts DEF Copied, Has

LEMMA TypeQueryRead ==
  ASSUME TypeInv, NEW s \in Slots, QueryRead(s)
  PROVE  TypeInv'
<1>1. /\ request[s] # None /\ UNCHANGED <<tree, rest>> /\ Witness(s, {})
  BY DEF QueryRead, OnFiles, Running
<1>2. PICK p \in view[s].left :
        Step(s, "reading",
             [view[s] EXCEPT !.left = view[s].left \ {p},
                             !.copy = IF Has(tree, p) THEN Copied(view[s].copy, p) ELSE view[s].copy])
  BY DEF QueryRead
<1> DEFINE copy == IF Has(tree, p) THEN Copied(view[s].copy, p) ELSE view[s].copy
           left == view[s].left \ {p}
           v == [view[s] EXCEPT !.left = left, !.copy = copy]
<1>3. IsTree(copy)
  BY ViewOk, CopiedOk
<1>4. left \subseteq Path
  BY ViewOk DEF IsView
<1>5. Step(s, "reading", v)
  BY <1>2
<1> HIDE DEF copy, left
<1>6. IsView(v)
  BY <1>3, <1>4, ViewOk, ViewLeftCopy
<1> HIDE DEF v
<1> QED BY <1>1, <1>5, <1>6, LookType, TreeOk DEF HoldingResource

LEMMA TypeExportLook ==
  ASSUME TypeInv, NEW s \in Slots, ExportLook(s)
  PROVE  TypeInv'
<1>1. /\ request[s] # None /\ UNCHANGED <<tree, rest>> /\ Witness(s, {})
      /\ Answer(s) \/ Step(s, "described", view[s])
  BY DEF ExportLook, OnFiles, Running
<1>2. CASE Answer(s)
  BY <1>1, <1>2, AnswerType, TreeOk
<1>3. CASE Step(s, "described", view[s])
  BY <1>1, <1>3, LookType, TreeOk, ViewOk DEF HoldingResource
<1> QED BY <1>1, <1>2, <1>3

LEMMA TypeExportSpaceDir ==
  ASSUME TypeInv, NEW s \in Slots, ExportSpaceDir(s)
  PROVE  TypeInv'
<1> DEFINE listed == {p \in InSpaceDir(tree) : p.c = 0}
           dirs == tree.dirs \ {0}
           copy == [dirs |-> dirs, files |-> <<>>]
           v == [view[s] EXCEPT !.listed = listed, !.dirs = dirs, !.copy = copy]
<1>1. /\ request[s] # None /\ UNCHANGED <<tree, rest>> /\ Witness(s, {})
      /\ Answer(s) \/ Step(s, "walking", v)
  BY DEF ExportSpaceDir, OnFiles, Running
<1>2. listed \subseteq Path /\ dirs \subseteq 0 .. MaxId
  BY TreeOk DEF InSpaceDir
<1>3. IsTree(copy)
  <2>1. IsFiles(<<>>)
    BY DEF IsFiles
  <2> QED BY <1>2, <2>1, TreeParts
<1> HIDE DEF listed, dirs, copy
<1>4. IsView(v)
  BY <1>2, <1>3, ViewOk, ViewListedDirsCopy
<1> HIDE DEF v
<1>5. CASE Answer(s)
  BY <1>1, <1>5, AnswerType, TreeOk
<1>6. CASE Step(s, "walking", v)
  BY <1>1, <1>4, <1>6, LookType, TreeOk DEF HoldingResource
<1> QED BY <1>1, <1>5, <1>6

LEMMA TypeExportDir ==
  ASSUME TypeInv, NEW s \in Slots, ExportDir(s)
  PROVE  TypeInv'
<1> DEFINE c == CHOOSE d \in view[s].dirs : \A e \in view[s].dirs : d <= e
           dirs == view[s].dirs \ {c}
           listed == view[s].listed \cup InCollection(tree, c)
           v == [view[s] EXCEPT !.dirs = dirs, !.listed = listed]
<1>1. /\ request[s] # None /\ UNCHANGED <<tree, rest>> /\ Witness(s, {})
      /\ Answer(s) \/ Step(s, "walking", v)
  BY DEF ExportDir, OnFiles, Running
<1>2. listed \subseteq Path /\ dirs \subseteq 0 .. MaxId
  BY TreeOk, ViewOk DEF InCollection, OfSpace, IsView
<1> HIDE DEF listed, dirs
<1>4. IsView(v)
  BY <1>2, ViewOk, ViewDirsListed
<1> HIDE DEF v
<1>5. CASE Answer(s)
  BY <1>1, <1>5, AnswerType, TreeOk
<1>6. CASE Step(s, "walking", v)
  BY <1>1, <1>4, <1>6, LookType, TreeOk DEF HoldingResource
<1> QED BY <1>1, <1>5, <1>6

LEMMA TypeExportRevocations ==
  ASSUME TypeInv, NEW s \in Slots, ExportRevocations(s)
  PROVE  TypeInv'
<1> DEFINE listed == view[s].listed \cup {p \in DOMAIN tree.files : p.kind = "revocation"}
           v == [view[s] EXCEPT !.listed = listed]
<1>1. /\ request[s] # None /\ UNCHANGED <<tree, rest>> /\ Witness(s, {})
      /\ Step(s, "packing", v)
  BY DEF ExportRevocations, OnFiles, Running
<1>2. listed \subseteq Path
  BY TreeOk, ViewOk DEF IsView
<1> HIDE DEF listed
<1>4. IsView(v)
  BY <1>2, ViewOk, ViewListed
<1> HIDE DEF v
<1> QED BY <1>1, <1>4, LookType, TreeOk DEF HoldingResource

LEMMA TypeExportRow ==
  ASSUME TypeInv, NEW s \in Slots, ExportRow(s)
  PROVE  TypeInv'
<1> DEFINE v == [view[s] EXCEPT !.left = Tables, !.copy = Copied(view[s].copy, SpaceFile)]
<1>1. /\ request[s] # None /\ UNCHANGED <<tree, rest>> /\ Witness(s, {})
  BY DEF ExportRow, InRows, Running
<1>5. Answer(s) \/ (Has(tree, SpaceFile) /\ Step(s, "querying", v))
  BY DEF ExportRow
<1>2. Tables \subseteq Path
  BY ZeroId DEF Tables, At, Path, Kinds
<1>3. CASE Answer(s)
  BY <1>1, <1>3, AnswerType, TreeOk
<1>4. CASE Has(tree, SpaceFile) /\ Step(s, "querying", v)
  <2>1. IsTree(Copied(view[s].copy, SpaceFile))
    BY <1>4, ViewOk, CopiedOk
  <2>2. IsView(v)
    BY <1>2, <2>1, ViewOk, ViewLeftCopy
  <2> HIDE DEF v
  <2> QED BY <1>1, <1>4, <2>2, LookType, TreeOk DEF HoldingResource
<1> QED BY <1>3, <1>4, <1>5

LEMMA TypeExportQuery ==
  ASSUME TypeInv, NEW s \in Slots, ExportQuery(s)
  PROVE  TypeInv'
<1>1. request[s] # None /\ UNCHANGED <<tree, rest>> /\ Witness(s, {})
  BY DEF ExportQuery, InRows, Running
<1>2. PICK table \in view[s].left, now \in SUBSET DOMAIN tree.files,
           later \in SUBSET DOMAIN tree.files, dirs \in SUBSET (0 .. MaxId) :
        Step(s, IF view[s].left = {table} THEN "packing" ELSE "querying",
             [view[s] EXCEPT !.left = view[s].left \ {table}, !.listed = view[s].listed \cup later,
                             !.copy = [dirs |-> view[s].copy.dirs \cup dirs,
                                       files |-> Over([p \in now |-> tree.files[p]], view[s].copy.files)]])
  <2>1. PICK table \in view[s].left :
          LET now == {p \in DOMAIN tree.files : p.kind \in Inline(table)}
              later == {p \in DOMAIN tree.files : p.kind \in Later(table)}
              dirs == (IF table.kind = "description" THEN tree.dirs ELSE {p.c : p \in now \cup later})
                        \ {0}
          IN  Step(s, IF view[s].left = {table} THEN "packing" ELSE "querying",
                [view[s] EXCEPT
                   !.left = view[s].left \ {table}, !.listed = view[s].listed \cup later,
                   !.copy = [dirs |-> view[s].copy.dirs \cup dirs,
                             files |-> Over([p \in now |-> tree.files[p]], view[s].copy.files)]])
    BY DEF ExportQuery
  <2> DEFINE now == {p \in DOMAIN tree.files : p.kind \in Inline(table)}
             later == {p \in DOMAIN tree.files : p.kind \in Later(table)}
             dirs == (IF table.kind = "description" THEN tree.dirs ELSE {p.c : p \in now \cup later}) \ {0}
  <2>2. now \in SUBSET DOMAIN tree.files /\ later \in SUBSET DOMAIN tree.files
    OBVIOUS
  <2>3. \A p \in now \cup later : p.c \in 0 .. MaxId
    BY TreeOk DEF Path
  <2>4. dirs \in SUBSET (0 .. MaxId)
    <3> HIDE DEF now, later
    <3> QED BY <2>3, TreeOk
  <2>5. Step(s, IF view[s].left = {table} THEN "packing" ELSE "querying",
             [view[s] EXCEPT !.left = view[s].left \ {table}, !.listed = view[s].listed \cup later,
                             !.copy = [dirs |-> view[s].copy.dirs \cup dirs,
                                       files |-> Over([p \in now |-> tree.files[p]], view[s].copy.files)]])
    BY <2>1
  <2> HIDE DEF now, later, dirs
  <2> QED BY <2>2, <2>4, <2>5
<1> DEFINE f == Over([p \in now |-> tree.files[p]], view[s].copy.files)
           copy == [dirs |-> view[s].copy.dirs \cup dirs, files |-> f]
           left == view[s].left \ {table}
           listed == view[s].listed \cup later
           v == [view[s] EXCEPT !.left = left, !.listed = listed, !.copy = copy]
           p1 == IF view[s].left = {table} THEN "packing" ELSE "querying"
<1>3. IsFiles([p \in now |-> tree.files[p]])
  BY TreeOk DEF IsFiles
<1>4. IsFiles(view[s].copy.files) /\ view[s].copy.dirs \subseteq 0 .. MaxId
  BY ViewOk, PartsOfTree
<1>5. IsFiles(f)
  BY <1>3, <1>4, OverFiles
<1>6. Step(s, p1, v)
  BY <1>2
<1>7. p1 \in {"packing", "querying"}
  OBVIOUS
<1> HIDE DEF f, p1
<1>8. view[s].copy.dirs \cup dirs \subseteq 0 .. MaxId
  BY <1>4
<1>9. IsTree(copy)
  BY <1>5, <1>8, TreeParts
<1>10. left \subseteq Path /\ listed \subseteq Path
  BY ViewOk, TreeOk DEF IsView
<1> HIDE DEF left, listed, copy
<1>11. IsView(v)
  BY <1>9, <1>10, ViewOk, ViewLeftListedCopy
<1> HIDE DEF v
<1> QED BY <1>1, <1>6, <1>7, <1>11, LookType, TreeOk DEF HoldingResource

\* A set of paths has a first one in the order of the archive.
LEMMA FirstPath ==
  ASSUME NEW S, S \subseteq Path, S # {}
  PROVE  \E p \in S : \A o \in S \ {p} : Before(p, o)
<1> DEFINE below == [x \in S |-> {y \in S : Before(y, x)}]
<1>1. IsFiniteSet(S)
  BY PathsFinite, FS_Subset
<1>2. IsOrder(S, below)
  BY BeforeIsAnOrder
<1>3. Cardinality(S) \in Nat /\ Cardinality(S) # 0
  BY <1>1, FS_CardinalityType, FS_EmptySet
<1>4. PICK p \in S : Cardinality(below[p]) = 0
  <2>1. 0 \in 0 .. Cardinality(S) - 1
    BY <1>3
  <2> HIDE DEF below
  <2>2. \A i \in 0 .. Cardinality(S) - 1 : \E x \in S : Cardinality(below[x]) = i
    BY <1>1, <1>2, Ranks
  <2> QED BY <2>1, <2>2
<1>5. below[p] = {}
  <2>1. below[p] \in SUBSET S
    OBVIOUS
  <2>2. IsFiniteSet(below[p])
    BY <1>1, <2>1, FS_Subset
  <2> QED BY <2>2, <1>4, FS_EmptySet
<1>6. ASSUME NEW o \in S, o # p PROVE p \in below[o]
  BY <1>2, <1>5, <1>6 DEF IsOrder
<1> QED BY <1>6

LEMMA TypeExportRead ==
  ASSUME TypeInv, NEW s \in Slots, ExportRead(s)
  PROVE  TypeInv'
<1> DEFINE p == CHOOSE q \in view[s].listed : \A o \in view[s].listed \ {q} : Before(q, o)
           d == RowContent(tree, p)
           copy == Packed(view[s].copy, p, d)
           listed == view[s].listed \ {p}
           v == [view[s] EXCEPT !.listed = listed, !.copy = copy]
<1>1. /\ request[s] # None /\ UNCHANGED <<tree, rest>> /\ Witness(s, {})
      /\ view[s].listed # {}
      /\ Answer(s) \/ Step(s, "packing", v)
  BY DEF ExportRead, Running
<1>2. view[s].listed \subseteq Path
  BY ViewOk DEF IsView
<1>3. p \in Path
  BY <1>1, <1>2, FirstPath
<1> HIDE DEF p
<1>4. IsTree(copy)
  <2>1. d \in Value
    BY TreeOk, RowContentOk
  <2> HIDE DEF d
  <2> QED BY <1>3, <2>1, ViewOk, PackedFacts
<1>5. listed \subseteq Path
  BY <1>2
<1> HIDE DEF copy, listed
<1>6. IsView(v)
  BY <1>4, <1>5, ViewOk, ViewListedCopy
<1> HIDE DEF v
<1>7. CASE Answer(s)
  BY <1>1, <1>7, AnswerType, TreeOk
<1>8. CASE Step(s, "packing", v)
  BY <1>1, <1>6, <1>8, LookType, TreeOk DEF HoldingResource
<1> QED BY <1>1, <1>7, <1>8

LEMMA TypeExportDone ==
  ASSUME TypeInv, NEW s \in Slots, ExportDone(s)
  PROVE  TypeInv'
<1>1. /\ request[s] # None /\ UNCHANGED <<tree, rest>> /\ Witness(s, {})
      /\ Step(s, "exported", view[s])
  BY DEF ExportDone, Running
<1> QED BY <1>1, LookType, TreeOk, ViewOk DEF HoldingResource

\* What an import plans and writes are paths of values.
LEMMA PlanOk ==
  ASSUME NEW a, IsTree(a)
  PROVE  Plan(a) \in Seq(Path) /\ Plan(a) # <<>>
<1>1. Plan(a) \in Seq(Planned(a)) /\ Planned(a) \subseteq Path /\ Lists(Plan(a), Planned(a))
  BY PlanIsSorted
<1>2. SpaceFile \in Planned(a)
  BY DEF Planned
<1>3. PICK i \in 1 .. Len(Plan(a)) : Plan(a)[i] = SpaceFile
  BY <1>1, <1>2 DEF Lists
<1> DEFINE q == Plan(a)
<1> HIDE DEF q
<1>4. q \in Seq(Planned(a)) /\ i \in 1 .. Len(q)
  BY <1>1, <1>3 DEF q
<1>5. q \in Seq(Path) /\ q # <<>>
  BY <1>1, <1>4
<1> QED BY <1>5 DEF q

LEMMA ArchivedOk ==
  ASSUME NEW a, IsTree(a), NEW p
  PROVE  Archived(a, p) \in Value
BY DEF Archived, IsTree, Value

LEMMA GivenOk ==
  ASSUME NEW a, IsTree(a), NEW p
  PROVE  Given(a, p) \in Seq(Path)
<1>1. p \in DOMAIN a.files => p \in Path
  BY DEF IsTree
<1> QED BY <1>1 DEF Given

LEMMA WritesOk ==
  ASSUME NEW t, NEW a, IsTree(a), NEW op \in Path
  PROVE  Writes(t, a, op) \in Seq(Path)
<1>1. <<op>> \in Seq(Path) /\ <<>> \in Seq(Path)
  OBVIOUS
<1>2. ASSUME NEW p, NEW q PROVE <<op>> \o Given(a, p) \o Given(a, q) \in Seq(Path)
  <2>1. Given(a, p) \in Seq(Path) /\ Given(a, q) \in Seq(Path)
    BY GivenOk
  <2> QED BY <1>1, <2>1
<1>3. ASSUME NEW there, NEW paths \in Seq(Path) PROVE Unless(there, paths) \in Seq(Path)
  BY <1>1 DEF Unless
<1>4. /\ PolicyWrites(t, op) \in Seq(Path) /\ TombstoneWrites(t, op) \in Seq(Path)
      /\ ChunkWrites(t, op) \in Seq(Path) /\ RevocationWrites(op) \in Seq(Path)
  BY <1>1, <1>3 DEF PolicyWrites, TombstoneWrites, ChunkWrites, RevocationWrites
<1>5. DescriptionWrites(t, a, op) \in Seq(Path) /\ ResourceWrites(t, a, op) \in Seq(Path)
  BY <1>2, <1>3 DEF DescriptionWrites, ResourceWrites
<1> QED BY <1>1, <1>4, <1>5 DEF Writes

LEMMA GoesType ==
  ASSUME TypeInv, NEW s \in Slots, NEW v, NEW looked, request[s] # None, Goes(s, v),
         Witness(s, looked), GlobalOk', IsView(v)
  PROVE  TypeInv'
<1> DEFINE p == IF v.ops = <<>> /\ v.writes = <<>> THEN "imported"
                ELSE IF v.writes = <<>> THEN "restoring" ELSE "writing"
<1>1. Step(s, p, v)
  BY DEF Goes
<1>2. /\ p \in {"imported", "restoring", "writing"}
      /\ p = "restoring" => v.ops # <<>>
      /\ p = "writing" => v.writes # <<>>
  OBVIOUS
<1> HIDE DEF p
<1> QED BY <1>1, <1>2, StepKeepsType DEF HoldingResource

LEMMA TypeImportStart ==
  ASSUME TypeInv, NEW s \in Slots, ImportStart(s)
  PROVE  TypeInv'
<1> DEFINE ops == Plan(view[s].copy)
           v == [view[s] EXCEPT !.ops = ops]
<1>1. /\ request[s] # None /\ UNCHANGED <<tree, rest>> /\ Witness(s, {})
      /\ Step(s, "restoring", v)
  BY DEF ImportStart, OnFiles, Running
<1>2. ops \in Seq(Path) /\ ops # <<>>
  BY ViewOk, PlanOk
<1>3. GlobalOk'
  BY <1>1, RestKept, TreeOk
<1> HIDE DEF ops
<1>4. IsView(v)
  BY <1>2, ViewOk, ViewOps
<1>5. v.ops = ops
  BY ViewOk DEF IsView
<1> HIDE DEF v
<1> QED BY <1>1, <1>2, <1>3, <1>4, <1>5, StepKeepsType DEF HoldingResource

LEMMA TypeImportLook ==
  ASSUME TypeInv, NEW s \in Slots, ImportLook(s)
  PROVE  TypeInv'
<1> DEFINE op == Head(view[s].ops)
           ops == Tail(view[s].ops)
           writes == Writes(tree, view[s].copy, op)
           dirs == IF op = SpaceFile THEN tree.dirs ELSE view[s].dirs
           v == [view[s] EXCEPT !.ops = ops, !.writes = writes, !.dirs = dirs]
<1>1. /\ request[s] # None /\ UNCHANGED <<tree, rest>> /\ Witness(s, LooksAt(op))
      /\ pc[s] = "restoring"
  BY DEF ImportLook, OnFiles, Running
<1>2. Answer(s) \/ Goes(s, v)
  BY DEF ImportLook
<1>3. view[s].ops \in Seq(Path) /\ view[s].ops # <<>>
  BY <1>1, ViewOk DEF TypeInv, SlotOk, IsView
<1>4. op \in Path /\ ops \in Seq(Path)
  BY <1>3
<1> HIDE DEF op, ops
<1>5. writes \in Seq(Path)
  BY <1>4, ViewOk, WritesOk
<1>6. dirs \subseteq 0 .. MaxId
  BY TreeOk, ViewOk DEF IsView
<1> HIDE DEF writes, dirs
<1>7. IsView(v)
  BY <1>4, <1>5, <1>6, ViewOk, ViewOpsWritesDirs
<1> HIDE DEF v
<1>8. GlobalOk'
  BY <1>1, RestKept, TreeOk
<1>9. CASE Answer(s)
  BY <1>1, <1>8, <1>9, AnswerKeepsType
<1>10. CASE Goes(s, v)
  BY <1>1, <1>7, <1>8, <1>10, GoesType
<1> QED BY <1>2, <1>9, <1>10

\* Tree u has the files of t, and p if it was new or replaced.
AddsOne(t, u, p) ==
  /\ DOMAIN t.files \subseteq DOMAIN u.files
  /\ DOMAIN u.files \subseteq DOMAIN t.files \cup {p}
  /\ \A q \in DOMAIN t.files : q # p \/ p.kind = "revocation" => u.files[q] = t.files[q]

LEMMA RestoredFacts ==
  ASSUME NEW t, IsTree(t), NEW a, IsTree(a), NEW p \in Path
  PROVE  IsTree(Restored(t, a, p)) /\ AddsOne(t, Restored(t, a, p), p)
<1> DEFINE d == Archived(a, p)
<1>1. d \in Value
  BY ArchivedOk
<1>2. Restored(t, a, p) = IF p.kind = "revocation" THEN Revoked(t, p, d) ELSE Put(t, p, d)
  BY DEF Restored
<1> HIDE DEF d
<1>3. CASE p.kind = "revocation"
  BY <1>1, <1>2, <1>3, PutFacts, RevokedFacts DEF Revoked, AddsOne
<1>4. CASE p.kind # "revocation"
  BY <1>1, <1>2, <1>4, PutFacts DEF AddsOne
<1> QED BY <1>3, <1>4

LEMMA TypeImportWrite ==
  ASSUME TypeInv, NEW s \in Slots, ImportWrite(s)
  PROVE  TypeInv'
<1> DEFINE p == Head(view[s].writes)
           writes == Tail(view[s].writes)
           v == [view[s] EXCEPT !.writes = writes]
<1>1. /\ request[s] # None /\ Witness(s, {}) /\ pc[s] = "writing"
      /\ UNCHANGED <<backend, expired, archive, todo, faults>>
  BY DEF ImportWrite, OnFiles, Running
<1>2. \/ /\ tree' = Restored(tree, view[s].copy, p)
         /\ remade' = IF p.kind = "description" THEN remade \cup {p.c} ELSE remade
         /\ Goes(s, v)
      \/ Answer(s) /\ UNCHANGED <<tree, remade>>
  BY DEF ImportWrite
<1>3. view[s].writes \in Seq(Path) /\ view[s].writes # <<>>
  BY <1>1, ViewOk DEF TypeInv, SlotOk, IsView
<1>4. p \in Path /\ writes \in Seq(Path)
  BY <1>3
<1> HIDE DEF p, writes
<1>5. IsView(v)
  BY <1>4, ViewOk, ViewWrites
<1> HIDE DEF v
<1>6. IsTree(tree') /\ remade' \subseteq 0 .. MaxId
  <2>1. p.c \in 0 .. MaxId
    BY <1>4 DEF Path
  <2>2. remade \subseteq 0 .. MaxId
    BY DEF TypeInv, GlobalOk
  <2>3. IsTree(Restored(tree, view[s].copy, p))
    BY <1>4, TreeOk, ViewOk, RestoredFacts
  <2> QED BY <1>2, <2>1, <2>2, <2>3, TreeOk
<1>7. GlobalOk'
  BY <1>1, <1>6 DEF TypeInv, GlobalOk
<1>8. CASE Goes(s, v)
  BY <1>1, <1>5, <1>7, <1>8, GoesType
<1>9. CASE Answer(s)
  BY <1>1, <1>7, <1>9, AnswerKeepsType
<1> QED BY <1>2, <1>8, <1>9

\* The trees, as a set.
TreeSet == {t \in [dirs : SUBSET (0 .. MaxId), files : UNION {[D -> Value] : D \in SUBSET Path}] : IsTree(t)}

LEMMA TreesAreOfTreeSet ==
  ASSUME NEW t
  PROVE  t \in TreeSet <=> IsTree(t)
<1>1. ASSUME IsTree(t) PROVE t \in TreeSet
  <2>1. t = [dirs |-> t.dirs, files |-> t.files] /\ t.dirs \subseteq 0 .. MaxId /\ IsFiles(t.files)
    BY <1>1, PartsOfTree
  <2>2. t.files \in [DOMAIN t.files -> Value] /\ DOMAIN t.files \in SUBSET Path
    BY <2>1 DEF IsFiles
  <2>3. t.files \in UNION {[D -> Value] : D \in SUBSET Path}
    BY <2>2
  <2> QED BY <1>1, <2>1, <2>3 DEF TreeSet
<1> QED BY <1>1 DEF TreeSet

\* Tree u has the files of t and those of new, some of which may have been replaced; op
\* may be a revocation, which replaces none.
AddsSome(t, u, new, op) ==
  /\ DOMAIN t.files \subseteq DOMAIN u.files
  /\ DOMAIN u.files \subseteq DOMAIN t.files \cup new \cup {op}
  /\ \A q \in DOMAIN t.files : q \notin new \/ op.kind = "revocation" => u.files[q] = t.files[q]

LEMMA InsertedFacts ==
  ASSUME NEW t, IsTree(t), NEW a, IsTree(a), NEW op \in Path
  PROVE  /\ IsTree(Inserted(t, a, op))
         /\ AddsSome(t, Inserted(t, a, op), Range(Writes(t, a, op)), op)
<1> DEFINE new == Range(Writes(t, a, op))
           f == [p \in new |-> Archived(a, p)]
           D == t.dirs \cup UNION {{0, p.c} : p \in new}
           u == Inserted(t, a, op)
<1>1. new \subseteq Path
  BY WritesOk DEF Range
<1>2. CASE op.kind = "revocation"
  <2>1. u \in {t, Restored(t, a, op)}
    BY <1>2 DEF Inserted
  <2> HIDE DEF u, new
  <2>2. IsTree(Restored(t, a, op)) /\ AddsOne(t, Restored(t, a, op), op)
    BY RestoredFacts
  <2>3. /\ IsTree(u)
        /\ DOMAIN t.files \subseteq DOMAIN u.files
        /\ DOMAIN u.files \subseteq DOMAIN t.files \cup {op}
        /\ \A q \in DOMAIN t.files : u.files[q] = t.files[q]
    BY <1>2, <2>1, <2>2 DEF AddsOne
  <2> QED BY <2>3 DEF u, new, AddsSome
<1>3. CASE op.kind # "revocation"
  <2>1. u = [dirs |-> D, files |-> Over(f, t.files)]
    BY <1>3 DEF Inserted
  <2> HIDE DEF new, u
  <2>2. IsFiles(f) /\ DOMAIN f = new
    BY <1>1, ArchivedOk DEF IsFiles
  <2>3. IsFiles(t.files) /\ t.dirs \subseteq 0 .. MaxId
    BY PartsOfTree
  <2>4. D \subseteq 0 .. MaxId
    BY <1>1, <2>3, ZeroId DEF Path
  <2> HIDE DEF f, D
  <2>5. /\ IsFiles(Over(f, t.files))
        /\ DOMAIN Over(f, t.files) = new \cup DOMAIN t.files
        /\ \A p \in DOMAIN t.files \ new : Over(f, t.files)[p] = t.files[p]
    <3> DEFINE g == t.files
    <3>1. IsFiles(g)
      BY <2>3
    <3> HIDE DEF g
    <3>2. /\ IsFiles(Over(f, g)) /\ DOMAIN Over(f, g) = new \cup DOMAIN g
          /\ \A p \in DOMAIN g \ new : Over(f, g)[p] = g[p]
      BY <2>2, <3>1, OverFiles
    <3> QED BY <3>2 DEF g
  <2>6. IsTree(u)
    BY <2>1, <2>4, <2>5, TreeParts
  <2>7. u.files = Over(f, t.files)
    BY <2>1
  <2>8. /\ IsTree(u)
        /\ DOMAIN u.files = DOMAIN t.files \cup new
        /\ \A q \in DOMAIN t.files \ new : u.files[q] = t.files[q]
    BY <2>5, <2>6, <2>7
  <2> QED BY <1>3, <2>8 DEF new, u, AddsSome
<1> QED BY <1>2, <1>3

LEMMA ImportedIsTree ==
  ASSUME NEW t, IsTree(t), NEW a, IsTree(a)
  PROVE  IsTree(Imported(t, a))
<1>1. Plan(a) \in Seq(Path)
  BY PlanOk
<1>2. [t EXCEPT !.dirs = t.dirs \cup {0}] \in TreeSet
  <2>1. t.dirs \cup {0} \subseteq 0 .. MaxId
    BY PartsOfTree, ZeroId
  <2>2. IsTree([t EXCEPT !.dirs = t.dirs \cup {0}])
    BY <2>1, DirsExcept
  <2> QED BY <2>2, TreesAreOfTreeSet
<1>3. ASSUME NEW u \in TreeSet, NEW i \in 1 .. Len(Plan(a))
      PROVE  Inserted(u, a, Plan(a)[i]) \in TreeSet
  <2>1. Plan(a)[i] \in Path
    BY <1>1
  <2>2. IsTree(u)
    BY TreesAreOfTreeSet
  <2>3. IsTree(Inserted(u, a, Plan(a)[i]))
    BY <2>1, <2>2, InsertedFacts
  <2> QED BY <2>3, TreesAreOfTreeSet
<1>4. Imported(t, a) \in TreeSet
  BY <1>1, <1>2, <1>3, ImportKeeps
<1> QED BY <1>4, TreesAreOfTreeSet

LEMMA TypeImportRows ==
  ASSUME TypeInv, NEW s \in Slots, ImportRows(s)
  PROVE  TypeInv'
<1> DEFINE a == view[s].copy
<1>1. /\ request[s] # None /\ \E looked : Witness(s, looked)
      /\ tree' = Imported(tree, a)
      /\ remade' = remade \cup {c \in a.dirs : ~Has(tree, DescriptionFile(c))}
      /\ Step(s, "imported", view[s])
      /\ UNCHANGED <<backend, expired, archive, todo, faults>>
  BY DEF ImportRows, InRows, Running
<1>2. IsTree(tree')
  BY <1>1, TreeOk, ViewOk, ImportedIsTree
<1>3. a.dirs \subseteq 0 .. MaxId
  BY ViewOk, PartsOfTree
<1>4. GlobalOk'
  BY <1>1, <1>2, <1>3 DEF TypeInv, GlobalOk
<1> QED BY <1>1, <1>4, ViewOk, StepKeepsType DEF HoldingResource

LEMMA TypeRespond ==
  ASSUME TypeInv, NEW s \in Slots, Respond(s)
  PROVE  TypeInv'
<1>1. /\ Answer(s) /\ Witness(s, {})
      /\ archive' = archive \/ archive' = view[s].copy
      /\ UNCHANGED <<backend, tree, expired, todo, remade, faults>>
  BY DEF Respond
<1>2. GlobalOk'
  BY <1>1, ViewOk DEF TypeInv, GlobalOk
<1> QED BY <1>1, <1>2, AnswerKeepsType

LEMMA TypeExpire ==
  ASSUME TypeInv, Expire
  PROVE  TypeInv'
<1>1. /\ faults < MaxFaults /\ faults' = faults + 1
      /\ UNCHANGED <<backend, tree, archive, todo, request, pc, view, remade, since>>
      /\ seen' = [t \in Slots |-> [seen[t] EXCEPT !.quiet = @ /\ request[t] = None]]
  BY DEF Expire, flight
<1>2. PICK k \in {p.r : p \in {q \in DOMAIN tree.files : q.kind = "revocation"}} \ expired :
        expired' = expired \cup {k}
  BY DEF Expire
<1>3. k \in 0 .. MaxId
  BY <1>2, TreeOk DEF Path
<1>4. faults + 1 \in 0 .. MaxFaults
  BY <1>1, ConstantsAssumption DEF TypeInv, GlobalOk
<1>5. GlobalOk'
  BY <1>1, <1>2, <1>3, <1>4 DEF TypeInv, GlobalOk
<1>6. ASSUME NEW t \in Slots PROVE SlotOk(t)'
  <2>1. SlotOk(t)
    BY DEF TypeInv
  <2>2. ASSUME request[t] = None PROVE seen'[t] = Unseen
    <3>1. seen[t] = Unseen
      BY <2>1, <2>2 DEF SlotOk
    <3>2. seen'[t] = [Unseen EXCEPT !.quiet = @ /\ request[t] = None]
      BY <1>1, <3>1
    <3> QED BY <2>2, <3>2 DEF Unseen
  <2> QED BY <1>1, <2>1, <2>2 DEF SlotOk
<1>7. Shapes' /\ \A t, u \in Slots : t # u => LockOk(t, u)'
  BY <1>1 DEF TypeInv, Shapes, LockOk
<1> QED BY <1>5, <1>6, <1>7 DEF TypeInv

LEMMA TypeCrash ==
  ASSUME TypeInv, Crash
  PROVE  TypeInv'
<1>1. /\ faults < MaxFaults /\ faults' = faults + 1
      /\ UNCHANGED <<backend, tree, expired, archive, todo, remade>>
      /\ request' = [s \in Slots |-> None]
      /\ pc' = [s \in Slots |-> "idle"]
      /\ view' = [s \in Slots |-> NoView]
      /\ since' = [s \in Slots |-> {}]
      /\ seen' = [s \in Slots |-> Unseen]
  BY DEF Crash
<1>2. faults + 1 \in 0 .. MaxFaults
  BY <1>1, ConstantsAssumption DEF TypeInv, GlobalOk
<1>3. GlobalOk'
  BY <1>1, <1>2 DEF TypeInv, GlobalOk
<1>4. ASSUME NEW t \in Slots PROVE SlotOk(t)'
  BY <1>1, NoViewIsView DEF SlotOk
<1>5. Shapes' /\ \A t, u \in Slots : t # u => LockOk(t, u)'
  BY <1>1 DEF Shapes, LockOk
<1> QED BY <1>3, <1>4, <1>5 DEF TypeInv

LEMMA TypeInit ==
  ASSUME Init
  PROVE  TypeInv
<1>1. PICK scenario \in Scenarios :
        tree = scenario.tree /\ todo = scenario.todo /\ archive = scenario.archive
  BY DEF Init
<1>2. IsScenario(scenario)
  BY ConstantsAssumption
<1>3. \A r \in todo : IsRequest(r)
  BY <1>1, <1>2 DEF IsScenario, IsRequest
<1>4. GlobalOk
  BY <1>1, <1>2, <1>3, ConstantsAssumption DEF Init, IsScenario, GlobalOk
<1>5. Shapes /\ \A s \in Slots : SlotOk(s)
  BY NoViewIsView DEF Init, Shapes, SlotOk
<1>6. \A s, t \in Slots : LockOk(s, t)
  BY DEF Init, LockOk
<1> QED BY <1>4, <1>5, <1>6 DEF TypeInv

LEMMA TypeNext ==
  ASSUME TypeInv, [Next]_vars
  PROVE  TypeInv'
<1>1. CASE UNCHANGED vars
  BY <1>1 DEF vars, flight, TypeInv, GlobalOk, Shapes, SlotOk, LockOk
<1>2. CASE Expire
  BY <1>2, TypeExpire
<1>3. CASE Crash
  BY <1>3, TypeCrash
<1>4. ASSUME NEW s \in Slots, Begin(s) \/ QuotaRefuses(s) \/ Respond(s)
      PROVE  TypeInv'
  BY <1>4, TypeBegin, TypeQuotaRefuses, TypeRespond
<1>5. ASSUME NEW s \in Slots, PostCheck(s) \/ PutPrior(s) \/ PutPersist(s) \/ PutRow(s)
                                \/ DropSome(s) \/ DropAll(s)
      PROVE  TypeInv'
  BY <1>5, TypePostCheck, TypePutPrior, TypePutPersist, TypePutRow, TypeDropSome, TypeDropAll
<1>6. ASSUME NEW s \in Slots, WriteCheck(s) \/ WriteContent(s) \/ WritePrune(s) \/ WriteSidecar(s)
                                \/ WriteRow(s)
      PROVE  TypeInv'
  BY <1>6, TypeWriteCheck, TypeWriteContent, TypeWritePrune, TypeWriteSidecar, TypeWriteRow
<1>7. ASSUME NEW s \in Slots, RemoveContent(s) \/ RemoveChunks(s) \/ RemoveSidecar(s)
                                \/ RemoveRow(s) \/ WriteChunk(s) \/ SetPolicy(s)
      PROVE  TypeInv'
  BY <1>7, TypeRemoveContent, TypeRemoveChunks, TypeRemoveSidecar, TypeRemoveRow, TypeWriteChunk,
     TypeSetPolicy
<1>8. ASSUME NEW s \in Slots, CreateSpace(s) \/ RemoveRevocations(s) \/ RemoveSome(s)
                                \/ RemoveAll(s) \/ DeleteRows(s) \/ Revoke(s) \/ Generate(s)
      PROVE  TypeInv'
  BY <1>8, TypeCreateSpace, TypeRemoveRevocations, TypeRemoveSome, TypeRemoveAll, TypeRevoke,
     TypeGenerate
<1>9. ASSUME NEW s \in Slots, ListPage(s) \/ QueryRows(s) \/ QueryList(s) \/ QueryRead(s)
                                \/ QueryPage(s)
      PROVE  TypeInv'
  BY <1>9, TypeListPage, TypeQueryRows, TypeQueryList, TypeQueryRead
<1>10. ASSUME NEW s \in Slots, ExportLook(s) \/ ExportSpaceDir(s) \/ ExportDir(s)
                                 \/ ExportRevocations(s) \/ ExportRow(s) \/ ExportQuery(s)
                                 \/ ExportRead(s) \/ ExportDone(s)
       PROVE  TypeInv'
  BY <1>10, TypeExportLook, TypeExportSpaceDir, TypeExportDir, TypeExportRevocations,
     TypeExportRow, TypeExportQuery, TypeExportRead, TypeExportDone
<1>11. ASSUME NEW s \in Slots, ImportStart(s) \/ ImportLook(s) \/ ImportWrite(s) \/ ImportRows(s)
       PROVE  TypeInv'
  BY <1>11, TypeImportStart, TypeImportLook, TypeImportWrite, TypeImportRows
<1> QED BY <1>1, <1>2, <1>3, <1>4, <1>5, <1>6, <1>7, <1>8, <1>9, <1>10, <1>11 DEF Next

LEMMA TypeInvGivesTypeOK ==
  ASSUME TypeInv
  PROVE  TypeOK
<1>1. ASSUME NEW s \in Slots
      PROVE  /\ (request[s] = None) = (pc[s] = "idle")
             /\ request[s] = None => view[s] = NoView /\ since[s] = {} /\ seen[s] = Unseen
             /\ view[s].snap # None => view[s].snap \in Value
             /\ IsTree(view[s].copy)
             /\ UNION {view[s].left, view[s].listed, since[s], Range(view[s].ops), Range(view[s].writes)}
                  \subseteq Path
  <2>1. SlotOk(s) /\ IsView(view[s])
    BY DEF TypeInv, SlotOk
  <2>2. \A q \in Seq(Path) : Range(q) \subseteq Path
    BY DEF Range
  <2>3. Range(view[s].ops) \subseteq Path /\ Range(view[s].writes) \subseteq Path
    BY <2>1, <2>2 DEF IsView
  <2>4. view[s].left \subseteq Path /\ view[s].listed \subseteq Path /\ since[s] \subseteq Path
    BY <2>1 DEF IsView, SlotOk
  <2>5. (request[s] = None) = (pc[s] = "idle")
    BY <2>1 DEF SlotOk
  <2> QED BY <2>1, <2>3, <2>4, <2>5 DEF IsView, SlotOk
<1>2. ASSUME NEW s \in Slots, NEW t \in Slots, s # t, {request[s], request[t]} \cap {None} = {}
      PROVE  ~ /\ request[s].c = request[t].c /\ request[s].r = request[t].r
               /\ {pc[s], pc[t]} \subseteq {"persist"} \/ {pc[s], pc[t]} \subseteq HoldingResource
  <2>1. LockOk(s, t) /\ request[s] # None /\ request[t] # None
    BY <1>2 DEF TypeInv
  <2> QED BY <2>1 DEF LockOk
<1> QED BY <1>1, <1>2 DEF TypeInv, GlobalOk, TypeOK

\* Every variable keeps its type; no two requests hold a Description's lock, or a Resource's,
\* at a time (#withCollectionDescLock, #withResourceLock); a handler's plan is never empty
\* when it takes the next entry.
THEOREM TypesAreKept == Spec => []TypeOK
<1>1. Init => TypeInv
  BY TypeInit
<1>2. TypeInv /\ [Next]_vars => TypeInv'
  BY TypeNext
<1>3. TypeInv => TypeOK
  BY TypeInvGivesTypeOK
<1> QED BY <1>1, <1>2, <1>3, PTL DEF Spec

----------------------------------------------------------------------------
(* What is replaced.                                                        *)

\* What an import writes without looking: what comes with a Collection or a Resource that
\* is new.
Alongside(p) == p.kind = "meta" \/ (p.kind = "policy" /\ p.c # 0)

\* Entries of a plan: nothing of the Space comes with a Collection or a Resource.
OpOk(op) ==
  /\ op.kind \in Types \cup {"space", "policy", "description", "sidecar", "chunk", "revocation"}
  /\ op.kind \in Types \cup {"description"} => op.c # 0
OpsOk(ops) == \A i \in 1 .. Len(ops) : OpOk(ops[i])

\* What is left to write was not there when the handler looked, but for a revocation, which
\* is not written over another.
Fresh(t, changed, writes) ==
  /\ \A i \in 1 .. Len(writes) :
       Has(t, writes[i]) =>
         writes[i] \in changed \/ writes[i].kind = "revocation" \/ Alongside(writes[i])
  /\ \A i, j \in 1 .. Len(writes) : i # j => writes[i].kind # writes[j].kind

\* A Collection that was never removed or restored has a first Description or a later one,
\* and has it ever since.
DescribedSince(scenario, c) ==
  IF Has(tree, DescriptionFile(c))
  THEN \E v \in FirstDescriptions(scenario, c) :
         tree.files[DescriptionFile(c)] = v \/ v.version < tree.files[DescriptionFile(c)].version
  ELSE ~Has(scenario.tree, DescriptionFile(c))

\* A Description that POST did not find came after it looked.
Upserting(s) ==
  request[s].kind = "post" /\ pc[s] \in {"upsert", "persist"}
    => (Has(tree, DescriptionFile(request[s].c)) => DescriptionFile(request[s].c) \in since[s])

\* Under a Description's lock the prior one stays, but for a removal or an import.
Replacing(s) ==
  LET r == request[s]
      prior == view[s].snap
  IN  /\ r.kind \in {"put", "post"}
      /\ backend = "filesystem"
      /\ r.match # None => prior # None /\ prior.version = r.match.version
      /\ r.c \notin remade => prior = PriorDescription(r)

HandlerOk(scenario, s) ==
  /\ 0 \notin view[s].copy.dirs
  /\ OpsOk(view[s].ops)
  /\ request[s] # None =>
       /\ request[s] \in scenario.todo
       /\ Upserting(s)
       /\ pc[s] = "persist" => Replacing(s)
       /\ pc[s] = "prune" => \A p \in view[s].left : p.kind \in Types
       /\ pc[s] = "writing" => Fresh(tree, since[s], view[s].writes)

ReplaceInv(scenario) ==
  /\ todo \subseteq scenario.todo
  /\ archive # None => 0 \notin archive.dirs
  /\ \A c \in (0 .. MaxId) \ remade : DescribedSince(scenario, c)
  /\ \A s \in Slots : HandlerOk(scenario, s)

\* A step leaves a Collection's Description alone, or has removed or restored it.
SameDescription(t, u, c) ==
  /\ Has(u, DescriptionFile(c)) <=> Has(t, DescriptionFile(c))
  /\ Has(t, DescriptionFile(c)) => u.files[DescriptionFile(c)] = t.files[DescriptionFile(c)]
DescriptionKept(c) == c \in remade' \/ SameDescription(tree, tree', c)
DescriptionsKept == \A c \in 0 .. MaxId : DescriptionKept(c)
SameDescriptions(t, u) == \A c \in 0 .. MaxId : SameDescription(t, u, c)

LEMMA OthersSee ==
  ASSUME NEW s \in Slots, NEW looked, Witness(s, looked), NEW t \in Slots, request'[t] # None
  PROVE  /\ t # s => since'[t] = since[t] \cup Changed
         /\ t = s => since'[t] = since[t] \ looked
         /\ \A p : Has(tree', p) /\ ~Has(tree, p) => p \in Changed
<1>1. since'[t] = IF t = s THEN since[t] \ looked ELSE since[t] \cup Changed
  BY DEF Witness
<1> QED BY <1>1 DEF Changed, Has

LEMMA OtherHandlerOk ==
  ASSUME TypeInv, NEW scenario, NEW s \in Slots, NEW looked, Witness(s, looked),
         NEW t \in Slots, t # s, HandlerOk(scenario, t),
         request'[t] = request[t], pc'[t] = pc[t], view'[t] = view[t], backend' = backend,
         remade \subseteq remade',
         request[t] # None /\ pc[t] = "persist" => DescriptionKept(request[t].c)
  PROVE  HandlerOk(scenario, t)'
<1>1. CASE request[t] = None
  BY <1>1 DEF HandlerOk
<1>2. CASE request[t] # None
  <2>1. /\ since'[t] = since[t] \cup Changed
        /\ \A p : Has(tree', p) /\ ~Has(tree, p) => p \in Changed
    BY <1>2, OthersSee
  <2>2. /\ 0 \notin view[t].copy.dirs
        /\ OpsOk(view[t].ops)
        /\ request[t] \in scenario.todo
        /\ Upserting(t)
        /\ pc[t] = "persist" => Replacing(t)
        /\ pc[t] = "prune" => \A p \in view[t].left : p.kind \in Types
        /\ pc[t] = "writing" => Fresh(tree, since[t], view[t].writes)
    BY <1>2 DEF HandlerOk
  <2>3. Upserting(t)'
    BY <2>1, <2>2 DEF Upserting
  <2>4. ASSUME pc[t] = "persist" PROVE Replacing(t)'
    <3>1. Replacing(t) /\ DescriptionKept(request[t].c)
      BY <1>2, <2>2, <2>4
    <3>2. request[t].c \notin remade' => PriorDescription(request[t])' = PriorDescription(request[t])
      BY <3>1 DEF DescriptionKept, SameDescription, PriorDescription, Has
    <3> QED BY <3>1, <3>2 DEF Replacing
  <2>5. ASSUME pc[t] = "writing" PROVE Fresh(tree', since'[t], view[t].writes)
    BY <2>1, <2>2, <2>5 DEF Fresh
  <2>6. OpsOk(view'[t].ops)
    BY <2>2
  <2> QED BY <2>2, <2>3, <2>4, <2>5, <2>6 DEF HandlerOk
<1> QED BY <1>1, <1>2

\* What a handler's own step owes the invariant.
LEMMA StepReplaces ==
  ASSUME TypeInv, NEW scenario, ReplaceInv(scenario), NEW s \in Slots, NEW p, NEW v, NEW looked,
         request[s] # None, Step(s, p, v), Witness(s, looked),
         UNCHANGED <<backend, todo, archive>>, remade \subseteq remade',
         \A t \in Slots \ {s} :
           request[t] # None /\ pc[t] = "persist" => DescriptionKept(request[t].c),
         \A c \in (0 .. MaxId) \ remade' : DescribedSince(scenario, c)',
         HandlerOk(scenario, s)'
  PROVE  ReplaceInv(scenario)'
<1>1. /\ request' = request
      /\ \A t \in Slots \ {s} : pc'[t] = pc[t] /\ view'[t] = view[t]
  BY StepMoves
<1>2. ASSUME NEW t \in Slots PROVE HandlerOk(scenario, t)'
  <2>1. CASE t # s
    <3>1. HandlerOk(scenario, t) /\ backend' = backend
      BY DEF ReplaceInv
    <3> QED BY <1>1, <2>1, <3>1, OtherHandlerOk
  <2> QED BY <2>1
<1> QED BY <1>2 DEF ReplaceInv

LEMMA AnswerReplaces ==
  ASSUME TypeInv, NEW scenario, ReplaceInv(scenario), NEW s \in Slots, NEW looked,
         Answer(s), Witness(s, looked),
         UNCHANGED <<backend, todo>>, archive' = archive \/ 0 \notin archive'.dirs,
         remade \subseteq remade',
         \A t \in Slots \ {s} :
           request[t] # None /\ pc[t] = "persist" => DescriptionKept(request[t].c),
         \A c \in (0 .. MaxId) \ remade' : DescribedSince(scenario, c)'
  PROVE  ReplaceInv(scenario)'
<1>1. /\ request'[s] = None /\ view'[s] = NoView
      /\ \A t \in Slots \ {s} :
           request'[t] = request[t] /\ pc'[t] = pc[t] /\ view'[t] = view[t]
  BY AnswerMoves
<1>2. ASSUME NEW t \in Slots PROVE HandlerOk(scenario, t)'
  <2>1. CASE t # s
    <3>1. HandlerOk(scenario, t) /\ backend' = backend
      BY DEF ReplaceInv
    <3> QED BY <1>1, <2>1, <3>1, OtherHandlerOk
  <2>2. CASE t = s
    <3>1. OpsOk(NoView.ops) /\ 0 \notin NoView.copy.dirs
      BY DEF OpsOk, NoView
    <3> QED BY <1>1, <2>2, <3>1 DEF HandlerOk
  <2> QED BY <2>1, <2>2
<1> QED BY <1>2 DEF ReplaceInv

LEMMA KeptDescriptions ==
  ASSUME TypeInv, NEW scenario, ReplaceInv(scenario), DescriptionsKept, remade \subseteq remade'
  PROVE  /\ \A t \in Slots : request[t] # None => DescriptionKept(request[t].c)
         /\ \A c \in (0 .. MaxId) \ remade' : DescribedSince(scenario, c)'
<1>1. \A t \in Slots : request[t] # None => DescriptionKept(request[t].c)
  BY RequestParts DEF DescriptionsKept
<1>2. ASSUME NEW c \in (0 .. MaxId) \ remade' PROVE DescribedSince(scenario, c)'
  <2>1. DescribedSince(scenario, c) /\ SameDescription(tree, tree', c)
    BY DEF DescriptionsKept, DescriptionKept, ReplaceInv
  <2> QED BY <2>1 DEF DescribedSince, SameDescription
<1> QED BY <1>1, <1>2

\* Steps that leave the Descriptions alone, and to places the invariant says nothing of.
LEMMA QuietAnswer ==
  ASSUME TypeInv, NEW scenario, ReplaceInv(scenario), NEW s \in Slots, NEW looked,
         Answer(s), Witness(s, looked), UNCHANGED <<backend, todo, archive>>,
         remade \subseteq remade', DescriptionsKept
  PROVE  ReplaceInv(scenario)'
BY KeptDescriptions, AnswerReplaces

LEMMA QuietStep ==
  ASSUME TypeInv, NEW scenario, ReplaceInv(scenario), NEW s \in Slots, NEW p, NEW v, NEW looked,
         request[s] # None, Step(s, p, v), Witness(s, looked),
         UNCHANGED <<backend, todo, archive>>, remade \subseteq remade', DescriptionsKept,
         0 \notin v.copy.dirs, OpsOk(v.ops),
         p \notin {"upsert", "persist", "prune", "writing"}
  PROVE  ReplaceInv(scenario)'
<1>1. request' = request /\ pc'[s] = p /\ view'[s] = v
  BY StepMoves
<1>2. request[s] \in scenario.todo
  BY DEF ReplaceInv, HandlerOk
<1>3. Upserting(s)'
  BY <1>1 DEF Upserting
<1>4. HandlerOk(scenario, s)'
  BY <1>1, <1>2, <1>3 DEF HandlerOk
<1> QED BY <1>4, KeptDescriptions, StepReplaces

LEMMA RestQuiet ==
  ASSUME UNCHANGED rest
  PROVE  UNCHANGED <<backend, todo, archive>> /\ remade \subseteq remade'
BY DEF rest

LEMMA StillQuiet ==
  ASSUME UNCHANGED <<tree, rest>>
  PROVE  UNCHANGED <<backend, todo, archive>> /\ remade \subseteq remade' /\ DescriptionsKept
BY DEF rest, DescriptionsKept, DescriptionKept, SameDescription

\* Writes of other files leave the Descriptions alone.
LEMMA PutSame ==
  ASSUME NEW t, IsTree(t), NEW p \in Path, p.kind # "description", NEW v \in Value
  PROVE  SameDescriptions(t, Put(t, p, v)) /\ IsTree(Put(t, p, v))
<1>1. \A c \in 0 .. MaxId : DescriptionFile(c) # p
  BY FilesArePaths, ZeroId
<1> DEFINE u == Put(t, p, v)
<1>2. /\ IsTree(u)
      /\ DOMAIN u.files = DOMAIN t.files \cup {p}
      /\ \A q \in DOMAIN t.files \ {p} : u.files[q] = t.files[q]
  BY PutFacts
<1> HIDE DEF u
<1>3. SameDescriptions(t, u)
  BY <1>1, <1>2 DEF SameDescriptions, SameDescription, Has
<1> QED BY <1>2, <1>3 DEF u

LEMMA WithoutSame ==
  ASSUME NEW t, IsTree(t), NEW S, \A p \in S : p.kind # "description"
  PROVE  SameDescriptions(t, Without(t, S)) /\ IsTree(Without(t, S))
<1>1. \A c \in 0 .. MaxId : DescriptionFile(c) \notin S
  BY FilesArePaths, ZeroId
<1> DEFINE u == Without(t, S)
<1>2. /\ IsTree(u)
      /\ DOMAIN u.files = DOMAIN t.files \ S
      /\ \A q \in DOMAIN t.files \ S : u.files[q] = t.files[q]
  BY WithoutFacts
<1> HIDE DEF u
<1>3. SameDescriptions(t, u)
  BY <1>1, <1>2 DEF SameDescriptions, SameDescription, Has
<1> QED BY <1>2, <1>3 DEF u

LEMMA SameTwice ==
  ASSUME NEW t, NEW u, NEW w, SameDescriptions(t, u), SameDescriptions(u, w)
  PROVE  SameDescriptions(t, w)
BY DEF SameDescriptions, SameDescription

LEMMA SameIsSame ==
  ASSUME NEW t
  PROVE  SameDescriptions(t, t)
BY DEF SameDescriptions, SameDescription

LEMMA SameKept ==
  ASSUME SameDescriptions(tree, tree')
  PROVE  DescriptionsKept
BY DEF SameDescriptions, DescriptionsKept, DescriptionKept

LEMMA RevokedSame ==
  ASSUME NEW t, IsTree(t), NEW p \in Path, p.kind = "revocation", NEW v \in Value
  PROVE  SameDescriptions(t, Revoked(t, p, v))
BY PutSame, SameIsSame DEF Revoked

\* What a handler keeps of its plan and its copy.
LEMMA HandlerKeeps ==
  ASSUME NEW scenario, ReplaceInv(scenario), NEW s \in Slots
  PROVE  /\ 0 \notin view[s].copy.dirs
         /\ OpsOk(view[s].ops)
         /\ request[s] # None => request[s] \in scenario.todo
BY DEF ReplaceInv, HandlerOk

LEMMA NoViewKeeps == 0 \notin NoView.copy.dirs /\ OpsOk(NoView.ops)
BY DEF NoView, OpsOk

LEMMA ReplaceBegin ==
  ASSUME TypeInv, NEW scenario, ReplaceInv(scenario), NEW s \in Slots, Begin(s)
  PROVE  ReplaceInv(scenario)'
<1>1. PICK r \in todo : /\ request' = [request EXCEPT ![s] = r]
                        /\ todo' = todo \ {r}
                        /\ view' = [view EXCEPT ![s].copy = IF r.kind = "import" THEN archive ELSE @]
                        /\ Admitted(r)
  BY DEF Begin
<1>2. /\ request[s] = None /\ pc' = [pc EXCEPT ![s] = "begin"]
      /\ UNCHANGED <<backend, tree, archive, remade>>
      /\ Witness(s, {})
  BY DEF Begin
<1>3. pc = [x \in Slots |-> pc[x]] /\ view = [x \in Slots |-> view[x]] /\ request = [x \in Slots |-> request[x]]
  BY DEF TypeInv, Shapes
<1>4. /\ request'[s] = r /\ pc'[s] = "begin"
      /\ view'[s] = [view[s] EXCEPT !.copy = IF r.kind = "import" THEN archive ELSE @]
      /\ \A t \in Slots \ {s} :
           request'[t] = request[t] /\ pc'[t] = pc[t] /\ view'[t] = view[t]
  BY <1>1, <1>2, <1>3
<1>5. r.kind = "import" => 0 \notin archive.dirs
  BY <1>1 DEF Admitted, ReplaceInv
<1>6. r \in scenario.todo
  BY <1>1 DEF ReplaceInv
<1>7. view'[s].ops = view[s].ops /\ 0 \notin view'[s].copy.dirs
  <2>1. IsView(view[s]) /\ 0 \notin view[s].copy.dirs
    BY ViewOk, HandlerKeeps
  <2>2. view'[s].copy = IF r.kind = "import" THEN archive ELSE view[s].copy
    BY <1>4, <2>1 DEF IsView
  <2> QED BY <1>4, <1>5, <2>1, <2>2 DEF IsView
<1>8. ASSUME NEW t \in Slots PROVE HandlerOk(scenario, t)'
  <2>1. CASE t = s
    <3>1. Upserting(t)'
      BY <1>4, <2>1 DEF Upserting
    <3> QED BY <1>4, <1>6, <1>7, <2>1, <3>1, HandlerKeeps DEF HandlerOk
  <2>2. CASE t # s
    <3>1. HandlerOk(scenario, t) /\ DescriptionKept(request[t].c)
      BY <1>2 DEF ReplaceInv, DescriptionKept, SameDescription
    <3> QED BY <1>2, <1>4, <2>2, <3>1, OtherHandlerOk
  <2> QED BY <2>1, <2>2
<1>9. \A c \in (0 .. MaxId) \ remade' : DescribedSince(scenario, c)'
  BY <1>2 DEF ReplaceInv, DescribedSince
<1> QED BY <1>1, <1>2, <1>8, <1>9 DEF ReplaceInv

LEMMA ReplaceRespond ==
  ASSUME TypeInv, NEW scenario, ReplaceInv(scenario), NEW s \in Slots,
         QuotaRefuses(s) \/ Respond(s)
  PROVE  ReplaceInv(scenario)'
<1>1. /\ Answer(s) /\ Witness(s, {})
      /\ archive' = archive \/ archive' = view[s].copy
      /\ UNCHANGED <<backend, tree, todo, remade>>
  BY DEF Respond, QuotaRefuses, rest
<1>2. DescriptionsKept
  BY <1>1 DEF DescriptionsKept, DescriptionKept, SameDescription
<1> QED BY <1>1, <1>2, HandlerKeeps, KeptDescriptions, AnswerReplaces

LEMMA ReplacePostCheck ==
  ASSUME TypeInv, NEW scenario, ReplaceInv(scenario), NEW s \in Slots, PostCheck(s)
  PROVE  ReplaceInv(scenario)'
<1>1. /\ request[s] # None /\ UNCHANGED <<tree, rest>>
      /\ Witness(s, {DescriptionFile(request[s].c)})
      /\ Answer(s) \/ (~Has(tree, DescriptionFile(request[s].c)) /\ Step(s, "upsert", view[s]))
  BY DEF PostCheck, Running
<1>2. CASE Answer(s)
  BY <1>1, <1>2, StillQuiet, QuietAnswer
<1>3. CASE ~Has(tree, DescriptionFile(request[s].c)) /\ Step(s, "upsert", view[s])
  <2>1. request' = request /\ pc'[s] = "upsert" /\ view'[s] = view[s] /\ tree' = tree
    BY <1>1, <1>3, StepMoves
  <2>2. Upserting(s)'
    BY <1>3, <2>1 DEF Upserting
  <2>3. HandlerOk(scenario, s)'
    BY <2>1, <2>2, HandlerKeeps DEF HandlerOk
  <2> QED BY <1>1, <1>3, <2>3, StillQuiet, KeptDescriptions, StepReplaces
<1> QED BY <1>1, <1>2, <1>3

LEMMA ReplacePutPrior ==
  ASSUME TypeInv, NEW scenario, ReplaceInv(scenario), NEW s \in Slots, PutPrior(s)
  PROVE  ReplaceInv(scenario)'
<1> DEFINE r == request[s]
           v == [view[s] EXCEPT !.snap = PriorDescription(r)]
<1>1. /\ r # None /\ r.kind \in {"put", "post"} /\ UNCHANGED <<tree, rest>> /\ Witness(s, {})
      /\ backend = "filesystem"
      /\ r.kind = "post" => pc[s] = "upsert"
      /\ Answer(s) \/ (~PreconditionFails(r, PriorDescription(r)) /\ Step(s, "persist", v))
  BY DEF PutPrior, OnFiles, Running
<1>2. CASE Answer(s)
  BY <1>1, <1>2, StillQuiet, QuietAnswer
<1>3. CASE ~PreconditionFails(r, PriorDescription(r)) /\ Step(s, "persist", v)
  <2>1. /\ v.snap = PriorDescription(r) /\ v.copy = view[s].copy /\ v.ops = view[s].ops
    BY ViewOk DEF IsView
  <2> HIDE DEF v
  <2>2. /\ request' = request /\ pc'[s] = "persist" /\ view'[s] = v /\ tree' = tree
        /\ backend' = backend /\ remade' = remade
    BY <1>1, <1>3, StepMoves DEF rest
  <2>3. Upserting(s)'
    <3>1. Upserting(s)
      BY <1>1 DEF ReplaceInv, HandlerOk
    <3>2. since'[s] = since[s] \ {}
      BY <1>1, <2>2, OthersSee
    <3> QED BY <1>1, <2>2, <3>1, <3>2 DEF Upserting
  <2>4. Replacing(s)'
    <3>1. PriorDescription(r)' = PriorDescription(r)
      BY <2>2 DEF PriorDescription
    <3> QED BY <1>1, <1>3, <2>1, <2>2, <3>1 DEF Replacing, PreconditionFails
  <2>5. HandlerOk(scenario, s)'
    BY <2>1, <2>2, <2>3, <2>4, HandlerKeeps DEF HandlerOk
  <2> QED BY <1>1, <1>3, <2>5, StillQuiet, KeptDescriptions, StepReplaces
<1> QED BY <1>1, <1>2, <1>3

LEMMA FirstVersion ==
  ASSUME NEW scenario, IsScenario(scenario), NEW c, NEW v \in FirstDescriptions(scenario, c)
  PROVE  v.version \in Nat
<1>1. CASE Has(scenario.tree, DescriptionFile(c))
  BY <1>1 DEF FirstDescriptions, IsScenario, IsTree, Has, Value
<1>2. CASE ~Has(scenario.tree, DescriptionFile(c))
  BY <1>2 DEF FirstDescriptions, Replacement
<1> QED BY <1>1, <1>2

\* A replacement of a Description by a request that read the one that is there.
LEMMA ReplacedDescription ==
  ASSUME TypeInv, NEW scenario, IsScenario(scenario), ReplaceInv(scenario), NEW s \in Slots,
         request[s] # None, request[s].kind \in {"put", "post"},
         NEW prior, request[s].match # None => prior # None,
         prior # None => prior \in Value,
         request[s].c \notin remade => prior = PriorDescription(request[s]),
         tree' = Put(tree, DescriptionFile(request[s].c), Replacement(request[s], prior)),
         remade' = remade
  PROVE  /\ \A c \in (0 .. MaxId) \ remade' : DescribedSince(scenario, c)'
         /\ \A c \in 0 .. MaxId : c # request[s].c => DescriptionKept(c)
<1> DEFINE r == request[s]
           d == Replacement(r, prior)
           p == DescriptionFile(r.c)
<1>1. r \in Request /\ r.c \in 0 .. MaxId /\ d \in Value /\ p \in Path
  BY RequestParts, ReplacementOk, FilesArePaths
<1>2. /\ DOMAIN tree'.files = DOMAIN tree.files \cup {p}
      /\ tree'.files[p] = d
      /\ \A q \in DOMAIN tree.files \ {p} : tree'.files[q] = tree.files[q]
  BY <1>1, TreeOk, PutFacts
<1>3. \A c \in 0 .. MaxId : c # r.c => DescriptionFile(c) # p
  BY <1>1 DEF DescriptionFile, At
<1>4. ASSUME NEW c \in 0 .. MaxId, c # r.c PROVE SameDescription(tree, tree', c)
  BY <1>2, <1>3, <1>4 DEF SameDescription, Has
<1>5. ASSUME NEW c \in (0 .. MaxId) \ remade' PROVE DescribedSince(scenario, c)'
  <2>0. DescribedSince(scenario, c)
    BY DEF ReplaceInv
  <2>1. CASE c # r.c
    BY <2>0, <2>1, <1>4 DEF DescribedSince, SameDescription
  <2>2. CASE c = r.c /\ Has(tree, p)
    <3>1. prior = tree.files[p] /\ prior \in Value /\ prior # None
      BY <2>2, TreeOk, ConstantsAssumption DEF PriorDescription, Has
    <3>2. d.version = prior.version + 1 /\ prior.version \in Nat
      BY <3>1 DEF Replacement, Value
    <3>3. PICK v \in FirstDescriptions(scenario, c) : prior = v \/ v.version < prior.version
      BY <2>0, <2>2, <3>1 DEF DescribedSince
    <3>4. v.version \in Nat
      BY <3>3, FirstVersion
    <3>5. v.version < d.version
      BY <3>2, <3>3, <3>4
    <3> QED BY <1>2, <2>2, <3>5 DEF DescribedSince, Has
  <2>3. CASE c = r.c /\ ~Has(tree, p)
    <3>1. prior = None /\ ~Has(scenario.tree, p)
      BY <2>0, <2>3 DEF PriorDescription, DescribedSince
    <3>2. r.match = None /\ r \in scenario.todo
      BY <3>1, HandlerKeeps
    <3>3. d = Replacement(r, None)
      BY <3>1
    <3>4. d \in FirstDescriptions(scenario, c)
      BY <2>3, <3>1, <3>2, <3>3 DEF FirstDescriptions
    <3> QED BY <1>2, <2>3, <3>4 DEF DescribedSince, Has
  <2> QED BY <2>1, <2>2, <2>3
<1> QED BY <1>4, <1>5 DEF DescriptionKept

LEMMA ReplacePutPersist ==
  ASSUME TypeInv, NEW scenario, IsScenario(scenario), ReplaceInv(scenario), NEW s \in Slots,
         PutPersist(s)
  PROVE  ReplaceInv(scenario)'
<1> DEFINE r == request[s]
<1>1. /\ r # None /\ pc[s] = "persist" /\ Answer(s) /\ UNCHANGED rest /\ Witness(s, {})
      /\ \/ tree' = Put(tree, DescriptionFile(r.c), Replacement(r, view[s].snap))
         \/ tree' = tree
  BY DEF PutPersist
<1>2. CASE tree' = tree
  BY <1>1, <1>2, StillQuiet, QuietAnswer
<1>3. CASE tree' = Put(tree, DescriptionFile(r.c), Replacement(r, view[s].snap))
  <2>1. Replacing(s)
    BY <1>1 DEF ReplaceInv, HandlerOk
  <2>2. /\ \A c \in (0 .. MaxId) \ remade' : DescribedSince(scenario, c)'
        /\ \A c \in 0 .. MaxId : c # r.c => DescriptionKept(c)
    <3> DEFINE prior == view[s].snap
    <3>1. prior # None => prior \in Value
      BY ViewOk DEF IsView
    <3>2. /\ r.kind \in {"put", "post"}
          /\ r.match # None => prior # None
          /\ r.c \notin remade => prior = PriorDescription(r)
      BY <2>1 DEF Replacing
    <3> HIDE DEF prior
    <3>3. tree' = Put(tree, DescriptionFile(r.c), Replacement(r, prior))
      BY <1>3 DEF prior
    <3>4. remade' = remade
      BY <1>1 DEF rest
    <3> QED BY <1>1, <3>1, <3>2, <3>3, <3>4, ReplacedDescription
  <2>3. ASSUME NEW t \in Slots \ {s}, request[t] # None, pc[t] = "persist"
        PROVE  DescriptionKept(request[t].c)
    <3>1. Replacing(t) /\ LockOk(s, t)
      BY <2>3 DEF ReplaceInv, HandlerOk, TypeInv
    <3>2. r.kind \in {"put", "post"} /\ request[t].kind \in {"put", "post"}
      BY <2>1, <3>1 DEF Replacing
    <3>3. r.r = 0 /\ request[t].r = 0 /\ request[t].c \in 0 .. MaxId
      BY <1>1, <2>3, <3>2, RequestParts
    <3>4. request[t].c # r.c
      BY <1>1, <2>3, <3>1, <3>3 DEF LockOk
    <3> QED BY <2>2, <3>3, <3>4
  <2> QED BY <1>1, <2>2, <2>3, RestQuiet, AnswerReplaces
<1> QED BY <1>1, <1>2, <1>3

LEMMA ReplacePutRow ==
  ASSUME TypeInv, NEW scenario, IsScenario(scenario), ReplaceInv(scenario), NEW s \in Slots,
         PutRow(s)
  PROVE  ReplaceInv(scenario)'
<1> DEFINE r == request[s]
           prior == PriorDescription(r)
<1>1. /\ r # None /\ r.kind \in {"put", "post"} /\ backend = "postgres"
      /\ Answer(s) /\ UNCHANGED rest /\ Witness(s, {})
      /\ \/ tree' = Put(tree, DescriptionFile(r.c), Replacement(r, prior)) /\ ~PreconditionFails(r, prior)
         \/ tree' = tree
  BY DEF PutRow, InRows, Running
<1>2. CASE tree' = tree
  BY <1>1, <1>2, StillQuiet, QuietAnswer
<1>3. CASE tree' = Put(tree, DescriptionFile(r.c), Replacement(r, prior)) /\ ~PreconditionFails(r, prior)
  <2>1. /\ \A c \in (0 .. MaxId) \ remade' : DescribedSince(scenario, c)'
        /\ \A c \in 0 .. MaxId : c # r.c => DescriptionKept(c)
    <3>1. prior # None => prior \in Value
      BY PriorDescriptionOk
    <3>2. r.match # None => prior # None
      BY <1>3 DEF PreconditionFails
    <3>3. remade' = remade
      BY <1>1 DEF rest
    <3>4. prior = PriorDescription(r)
      OBVIOUS
    <3> HIDE DEF prior
    <3> QED BY <1>1, <1>3, <3>1, <3>2, <3>3, <3>4, ReplacedDescription
  <2>2. ASSUME NEW t \in Slots \ {s}, request[t] # None, pc[t] = "persist"
        PROVE  FALSE
    BY <1>1, <2>2 DEF ReplaceInv, HandlerOk, Replacing
  <2> QED BY <1>1, <2>1, <2>2, RestQuiet, AnswerReplaces
<1> QED BY <1>1, <1>2, <1>3

LEMMA ReplaceRemovals ==
  ASSUME TypeInv, NEW scenario, ReplaceInv(scenario), NEW s \in Slots,
         DropSome(s) \/ DropAll(s) \/ RemoveSome(s) \/ RemoveAll(s) \/ DeleteRows(s)
  PROVE  ReplaceInv(scenario)'
<1>0. request[s] # None
  BY DEF DropSome, DropAll, RemoveSome, RemoveAll, DeleteRows, OnFiles, InRows, Running
<1>1. /\ Witness(s, {}) /\ UNCHANGED <<backend, todo, archive>>
      /\ Answer(s) \/ Step(s, "dropped", view[s]) \/ Step(s, "half", view[s])
  BY DEF DropSome, DropAll, RemoveSome, RemoveAll, DeleteRows
<1>2. remade \subseteq remade'
  BY DEF DropSome, DropAll, RemoveSome, RemoveAll, DeleteRows, TypeInv, GlobalOk
<1>3. DescriptionsKept
  <2>1. CASE RemoveSome(s) \/ RemoveAll(s) \/ DeleteRows(s)
    BY <2>1 DEF RemoveSome, RemoveAll, DeleteRows, DescriptionsKept, DescriptionKept
  <2>2. CASE DropSome(s) \/ DropAll(s)
    <3> DEFINE c == request[s].c
    <3>1. remade' = remade \cup {c} /\ \E S \in SUBSET InCollection(tree, c) :
            tree' = Without(tree, S) \/ tree' = [Without(tree, S) EXCEPT !.dirs = @ \ {c}]
      BY <2>2 DEF DropSome, DropAll
    <3>2. PICK S \in SUBSET InCollection(tree, c) :
            tree' = Without(tree, S) \/ tree' = [Without(tree, S) EXCEPT !.dirs = @ \ {c}]
      BY <3>1
    <3> DEFINE u == Without(tree, S)
    <3>3. /\ IsTree(u)
          /\ DOMAIN u.files = DOMAIN tree.files \ S
          /\ \A q \in DOMAIN tree.files \ S : u.files[q] = tree.files[q]
      BY TreeOk, WithoutFacts
    <3>4. tree' = u \/ tree' = [u EXCEPT !.dirs = u.dirs \ {c}]
      BY <3>2
    <3> HIDE DEF u
    <3>5. tree'.files = u.files
      <4>1. u.dirs \ {c} \subseteq 0 .. MaxId
        BY <3>3, PartsOfTree
      <4>2. [u EXCEPT !.dirs = u.dirs \ {c}].files = u.files
        BY <3>3, <4>1, DirsExcept
      <4> QED BY <3>4, <4>2
    <3>6. ASSUME NEW d \in 0 .. MaxId, d # c PROVE SameDescription(tree, tree', d)
      <4>1. DescriptionFile(d) \notin S
        BY <3>6 DEF InCollection, OfSpace, DescriptionFile, At
      <4> QED BY <3>3, <3>5, <4>1 DEF SameDescription, Has
    <3> QED BY <3>1, <3>6 DEF DescriptionsKept, DescriptionKept
  <2> QED BY <2>1, <2>2
<1>4. CASE Answer(s)
  BY <1>1, <1>2, <1>3, <1>4, QuietAnswer
<1>5. CASE Step(s, "dropped", view[s])
  BY <1>0, <1>1, <1>2, <1>3, <1>5, HandlerKeeps, QuietStep
<1>6. CASE Step(s, "half", view[s])
  BY <1>0, <1>1, <1>2, <1>3, <1>6, HandlerKeeps, QuietStep
<1> QED BY <1>1, <1>4, <1>5, <1>6

LEMMA ReplaceWriteContent ==
  ASSUME TypeInv, NEW scenario, ReplaceInv(scenario), NEW s \in Slots, WriteContent(s)
  PROVE  ReplaceInv(scenario)'
<1> DEFINE r == request[s]
           p == At(r.type, r.c, r.r)
           left == Among(tree, Representations(r.c, r.r)) \ {p}
           v == [view[s] EXCEPT !.snap = PriorSidecar(r), !.left = left]
<1>1. /\ r # None /\ UNCHANGED rest /\ Witness(s, {})
      /\ \/ tree' = Put(tree, p, Data(r.body)) /\ Step(s, "prune", v)
         \/ Answer(s) /\ UNCHANGED tree
  BY DEF WriteContent, OnFiles, Running
<1>2. p \in Path /\ Data(r.body) \in Value /\ p.kind # "description"
  <2>1. /\ r.c \in 0 .. MaxId /\ r.r \in 0 .. MaxId /\ r.type \in Types
        /\ Data(r.body) \in Value
    BY <1>1, RequestParts
  <2>2. p \in Path
    BY <2>1, FilesArePaths
  <2> QED BY <2>1, <2>2 DEF At, Types
<1>3. \A q \in left : q.kind \in Types
  BY <1>1, RequestParts, FilesArePaths DEF Among
<1>4. v.left = left /\ v.copy = view[s].copy /\ v.ops = view[s].ops
  BY ViewOk DEF IsView
<1> HIDE DEF v, p, left
<1>5. CASE Answer(s) /\ UNCHANGED tree
  BY <1>1, <1>5, StillQuiet, QuietAnswer
<1>6. CASE tree' = Put(tree, p, Data(r.body)) /\ Step(s, "prune", v)
  <2>1. DescriptionsKept
    BY <1>2, <1>6, TreeOk, PutSame, SameKept
  <2>2. request' = request /\ pc'[s] = "prune" /\ view'[s] = v
    BY <1>6, StepMoves
  <2>3. Upserting(s)'
    BY <2>2 DEF Upserting
  <2>4. HandlerOk(scenario, s)'
    BY <1>3, <1>4, <2>2, <2>3, HandlerKeeps DEF HandlerOk
  <2> QED BY <1>1, <1>6, <2>1, <2>4, RestQuiet, KeptDescriptions, StepReplaces
<1> QED BY <1>1, <1>5, <1>6

\* The other writes of a Resource, and of a policy: other files, one after the other.
LEMMA ReplaceResourceSteps ==
  ASSUME TypeInv, NEW scenario, ReplaceInv(scenario), NEW s \in Slots,
         \/ WriteCheck(s) \/ WritePrune(s) \/ RemoveContent(s) \/ RemoveChunks(s)
         \/ RemoveRevocations(s)
  PROVE  ReplaceInv(scenario)'
<1>1. /\ request[s] # None /\ Witness(s, {}) /\ UNCHANGED rest
      /\ Answer(s) \/ \E p \in {"checked", "sidecar", "chunks", "tombstone", "removing"} :
                        Step(s, p, view[s])
  BY DEF WriteCheck, WritePrune, RemoveContent, RemoveChunks, RemoveRevocations, OnFiles, Running
<1>2. DescriptionsKept
  <2>1. CASE WriteCheck(s)
    BY <2>1, StillQuiet DEF WriteCheck
  <2>2. CASE WritePrune(s)
    <3>1. request[s] # None /\ pc[s] = "prune" /\ tree' = Without(tree, view[s].left)
      BY <2>2 DEF WritePrune, OnFiles, Running
    <3>2. \A p \in view[s].left : p.kind # "description"
      BY <3>1 DEF ReplaceInv, HandlerOk, Types
    <3> QED BY <3>1, <3>2, TreeOk, WithoutSame, SameKept
  <2>3. CASE RemoveContent(s)
    <3>1. tree' = Without(tree, Representations(request[s].c, request[s].r))
      BY <2>3 DEF RemoveContent
    <3>2. \A p \in Representations(request[s].c, request[s].r) : p.kind # "description"
      BY DEF Representations, At, Types
    <3> QED BY <3>1, <3>2, TreeOk, WithoutSame, SameKept
  <2>4. CASE RemoveChunks(s)
    <3>1. tree' = Without(tree, {ChunkFile(request[s].c, request[s].r)})
      BY <2>4 DEF RemoveChunks
    <3>2. \A p \in {ChunkFile(request[s].c, request[s].r)} : p.kind # "description"
      BY DEF ChunkFile, At
    <3> QED BY <3>1, <3>2, TreeOk, WithoutSame, SameKept
  <2>5. CASE RemoveRevocations(s)
    <3> DEFINE S == {p \in DOMAIN tree.files : p.kind = "revocation"}
    <3>1. tree' = Without(tree, S)
      BY <2>5 DEF RemoveRevocations
    <3>2. \A p \in S : p.kind # "description"
      OBVIOUS
    <3> HIDE DEF S
    <3> QED BY <3>1, <3>2, TreeOk, WithoutSame, SameKept
  <2> QED BY <2>1, <2>2, <2>3, <2>4, <2>5
<1>3. CASE Answer(s)
  BY <1>1, <1>2, <1>3, RestQuiet, QuietAnswer
<1>4. ASSUME NEW p \in {"checked", "sidecar", "chunks", "tombstone", "removing"},
             Step(s, p, view[s])
      PROVE  ReplaceInv(scenario)'
  BY <1>1, <1>2, <1>4, RestQuiet, HandlerKeeps, QuietStep
<1> QED BY <1>1, <1>3, <1>4

LEMMA ReplaceResourceEnds ==
  ASSUME TypeInv, NEW scenario, ReplaceInv(scenario), NEW s \in Slots,
         \/ WriteSidecar(s) \/ WriteRow(s) \/ RemoveSidecar(s) \/ RemoveRow(s)
         \/ WriteChunk(s) \/ SetPolicy(s) \/ CreateSpace(s) \/ Revoke(s) \/ Generate(s)
  PROVE  ReplaceInv(scenario)'
<1> DEFINE r == request[s]
<1>1. /\ r # None /\ Witness(s, {}) /\ UNCHANGED rest /\ Answer(s)
  BY DEF WriteSidecar, WriteRow, RemoveSidecar, RemoveRow, WriteChunk, SetPolicy, CreateSpace,
         Revoke, Generate, OnFiles, InRows, Running
<1>2. /\ r.c \in 0 .. MaxId /\ r.r \in 0 .. MaxId /\ r.type \in Types /\ r.body \in {None} \cup STRING
      /\ Data(r.body) \in Value
  BY <1>1, RequestParts
<1>3. /\ Sidecar(r.c, r.r) \in Path /\ Sidecar(r.c, r.r).kind = "sidecar"
      /\ ChunkFile(r.c, r.r) \in Path /\ ChunkFile(r.c, r.r).kind = "chunk"
      /\ PolicyFile(r.c, r.r) \in Path /\ PolicyFile(r.c, r.r).kind = "policy"
      /\ At("revocation", 0, r.r) \in Path /\ At("revocation", 0, r.r).kind = "revocation"
      /\ At("key", 0, r.r) \in Path /\ At("key", 0, r.r).kind = "key"
      /\ SpaceFile \in Path /\ SpaceFile.kind = "space"
      /\ At(r.type, r.c, r.r) \in Path /\ At(r.type, r.c, r.r).kind \in Types
  BY <1>2, FilesArePaths DEF At
<1>4. SameDescriptions(tree, tree')
  <2>1. CASE WriteSidecar(s)
    <3>1. tree' = tree \/ tree' = Put(tree, Sidecar(r.c, r.r), Bumped(view[s].snap))
      BY <2>1 DEF WriteSidecar
    <3>2. Bumped(view[s].snap) \in Value
      BY ViewOk, BumpedOk DEF IsView
    <3> QED BY <1>3, <3>1, <3>2, TreeOk, PutSame, SameIsSame
  <2>2. CASE WriteRow(s)
    <3> DEFINE u == Without(tree, Representations(r.c, r.r) \ {At(r.type, r.c, r.r)})
               w == Put(u, At(r.type, r.c, r.r), Data(r.body))
    <3>1. tree' = Put(w, Sidecar(r.c, r.r), Bumped(PriorSidecar(r)))
      BY <2>2 DEF WriteRow
    <3>2. Bumped(PriorSidecar(r)) \in Value
      BY PriorSidecarOk, BumpedOk
    <3>3. SameDescriptions(tree, u) /\ IsTree(u)
      <4>1. \A p \in Representations(r.c, r.r) \ {At(r.type, r.c, r.r)} : p.kind # "description"
        BY DEF Representations, At, Types
      <4> QED BY <4>1, TreeOk, WithoutSame
    <3> HIDE DEF u
    <3>4. SameDescriptions(u, w) /\ IsTree(w)
      BY <1>2, <1>3, <3>3, PutSame DEF Types
    <3> HIDE DEF w
    <3>5. SameDescriptions(w, tree')
      BY <1>3, <3>1, <3>2, <3>4, PutSame
    <3> QED BY <3>3, <3>4, <3>5, SameTwice
  <2>3. CASE RemoveSidecar(s)
    <3>1. tree' = tree \/ tree' = Put(tree, Sidecar(r.c, r.r), Tombstone(r))
      BY <2>3 DEF RemoveSidecar
    <3> QED BY <1>3, <3>1, TombstoneOk, TreeOk, PutSame, SameIsSame
  <2>4. CASE RemoveRow(s)
    <3> DEFINE u == Without(tree, Representations(r.c, r.r) \cup {ChunkFile(r.c, r.r)})
    <3>1. tree' = tree \/ tree' = Put(u, Sidecar(r.c, r.r), Tombstone(r))
      BY <2>4 DEF RemoveRow
    <3>2. SameDescriptions(tree, u) /\ IsTree(u)
      <4>1. \A p \in Representations(r.c, r.r) \cup {ChunkFile(r.c, r.r)} : p.kind # "description"
        BY DEF Representations, ChunkFile, At, Types
      <4> QED BY <4>1, TreeOk, WithoutSame
    <3> HIDE DEF u
    <3>3. SameDescriptions(u, Put(u, Sidecar(r.c, r.r), Tombstone(r)))
      BY <1>3, <3>2, TombstoneOk, PutSame
    <3> QED BY <3>1, <3>2, <3>3, SameTwice, SameIsSame
  <2>5. CASE WriteChunk(s)
    <3> DEFINE d == Data(r.body)
    <3>1. tree' = tree \/ tree' = Put(tree, ChunkFile(r.c, r.r), d)
      BY <2>5 DEF WriteChunk
    <3>2. d \in Value
      BY <1>2, DataOk
    <3> HIDE DEF d
    <3> QED BY <1>3, <3>1, <3>2, TreeOk, PutSame, SameIsSame
  <2>6. CASE SetPolicy(s)
    <3>1. \/ tree' = tree \/ tree' = Without(tree, {PolicyFile(r.c, r.r)})
          \/ tree' = Put(tree, PolicyFile(r.c, r.r), Data(r.body))
      BY <2>6 DEF SetPolicy
    <3>2. \A p \in {PolicyFile(r.c, r.r)} : p.kind # "description"
      BY <1>3
    <3> QED BY <1>2, <1>3, <3>1, <3>2, TreeOk, PutSame, WithoutSame, SameIsSame
  <2>7. CASE CreateSpace(s)
    <3>1. tree' = Put(tree, SpaceFile, Data(r.body))
      BY <2>7 DEF CreateSpace
    <3> QED BY <1>2, <1>3, <3>1, TreeOk, PutSame
  <2>8. CASE Revoke(s)
    <3>1. tree' = Revoked(Pruned(tree), At("revocation", 0, r.r), Data(r.body))
      BY <2>8 DEF Revoke
    <3>2. SameDescriptions(tree, Pruned(tree)) /\ IsTree(Pruned(tree))
      <4> DEFINE S == {p \in DOMAIN tree.files : p.kind = "revocation" /\ p.r \in expired}
      <4>1. \A p \in S : p.kind # "description"
        OBVIOUS
      <4>2. Pruned(tree) = tree \/ Pruned(tree) = Without(tree, S)
        BY DEF Pruned
      <4> HIDE DEF S
      <4> QED BY <4>1, <4>2, TreeOk, WithoutSame, SameIsSame
    <3>3. SameDescriptions(Pruned(tree), tree')
      BY <1>2, <1>3, <3>1, <3>2, RevokedSame
    <3> QED BY <3>2, <3>3, SameTwice
  <2>9. CASE Generate(s)
    <3>1. tree' = Put(tree, At("key", 0, r.r), Data(r.body))
      BY <2>9 DEF Generate
    <3> QED BY <1>2, <1>3, <3>1, TreeOk, PutSame
  <2> QED BY <2>1, <2>2, <2>3, <2>4, <2>5, <2>6, <2>7, <2>8, <2>9
<1> QED BY <1>1, <1>4, SameKept, RestQuiet, QuietAnswer

LEMMA ReplaceReads ==
  ASSUME TypeInv, NEW scenario, ReplaceInv(scenario), NEW s \in Slots,
         \/ ListPage(s) \/ QueryRows(s) \/ QueryPage(s) \/ QueryList(s) \/ QueryRead(s)
         \/ ExportLook(s) \/ ExportDone(s)
  PROVE  ReplaceInv(scenario)'
<1>1. request[s] # None /\ UNCHANGED <<tree, rest>> /\ Witness(s, {})
  BY DEF ListPage, QueryRows, QueryPage, QueryList, QueryRead, ExportLook, ExportDone, OnFiles,
         InRows, Running
<1>2. /\ UNCHANGED <<backend, todo, archive>> /\ remade \subseteq remade' /\ DescriptionsKept
  BY <1>1, StillQuiet
<1>3. ASSUME Answer(s) PROVE ReplaceInv(scenario)'
  BY <1>1, <1>2, <1>3, QuietAnswer
<1>4. ASSUME NEW page, Deliver(s, page) PROVE ReplaceInv(scenario)'
  <2> DEFINE p == IF page.more THEN "begin" ELSE "listed"
             v == [NoView EXCEPT !.got = view[s].got \o page.page,
                                 !.cursor = IF page.more THEN page.page[Len(page.page)] ELSE None]
  <2>1. Step(s, p, v)
    BY <1>4 DEF Deliver
  <2>2. v.copy = NoView.copy /\ v.ops = NoView.ops
    BY DEF NoView
  <2>3. p \in {"begin", "listed"}
    OBVIOUS
  <2> HIDE DEF p, v
  <2> QED BY <1>1, <1>2, <2>1, <2>2, <2>3, NoViewKeeps, QuietStep
<1>5. CASE ListPage(s) \/ QueryRows(s) \/ QueryPage(s)
  <2>1. Answer(s) \/ \E page : Deliver(s, page)
    BY <1>5 DEF ListPage, QueryRows, QueryPage
  <2> QED BY <1>3, <1>4, <2>1
<1>6. CASE QueryList(s)
  <2>1. PICK listed, left :
          Answer(s) \/ Step(s, "reading", [view[s] EXCEPT !.listed = listed, !.left = left])
    BY <1>6 DEF QueryList
  <2> DEFINE v == [view[s] EXCEPT !.listed = listed, !.left = left]
  <2>2. v.copy = view[s].copy /\ v.ops = view[s].ops
    BY ViewOk DEF IsView
  <2>3. Answer(s) \/ Step(s, "reading", v)
    BY <2>1
  <2> HIDE DEF v
  <2> QED BY <1>1, <1>2, <1>3, <2>2, <2>3, HandlerKeeps, QuietStep
<1>7. CASE QueryRead(s)
  <2>1. PICK p \in view[s].left :
          Step(s, "reading",
               [view[s] EXCEPT !.left = view[s].left \ {p},
                               !.copy = IF Has(tree, p) THEN Copied(view[s].copy, p) ELSE view[s].copy])
    BY <1>7 DEF QueryRead
  <2> DEFINE copy == IF Has(tree, p) THEN Copied(view[s].copy, p) ELSE view[s].copy
             left == view[s].left \ {p}
             v == [view[s] EXCEPT !.left = left, !.copy = copy]
  <2>2. copy.dirs = view[s].copy.dirs
    BY ViewOk, TreeOk, PackedFacts DEF Copied, Has
  <2>3. Step(s, "reading", v)
    BY <2>1
  <2> HIDE DEF copy, left
  <2>4. v.copy = copy /\ v.ops = view[s].ops
    BY ViewOk DEF IsView
  <2> HIDE DEF v
  <2> QED BY <1>1, <1>2, <2>2, <2>3, <2>4, HandlerKeeps, QuietStep
<1>8. CASE ExportLook(s) \/ ExportDone(s)
  <2>1. Answer(s) \/ Step(s, "described", view[s]) \/ Step(s, "exported", view[s])
    BY <1>8 DEF ExportLook, ExportDone
  <2> QED BY <1>1, <1>2, <1>3, <2>1, HandlerKeeps, QuietStep
<1> QED BY <1>5, <1>6, <1>7, <1>8

LEMMA ReplaceExport ==
  ASSUME TypeInv, NEW scenario, ReplaceInv(scenario), NEW s \in Slots,
         \/ ExportSpaceDir(s) \/ ExportDir(s) \/ ExportRevocations(s) \/ ExportRow(s)
         \/ ExportQuery(s) \/ ExportRead(s)
  PROVE  ReplaceInv(scenario)'
<1>1. request[s] # None /\ UNCHANGED <<tree, rest>> /\ Witness(s, {})
  BY DEF ExportSpaceDir, ExportDir, ExportRevocations, ExportRow, ExportQuery, ExportRead, OnFiles,
         InRows, Running
<1>2. /\ UNCHANGED <<backend, todo, archive>> /\ remade \subseteq remade' /\ DescriptionsKept
  BY <1>1, StillQuiet
<1>3. ASSUME Answer(s) PROVE ReplaceInv(scenario)'
  BY <1>1, <1>2, <1>3, QuietAnswer
<1>4. ASSUME NEW p \in {"walking", "packing", "querying"}, NEW v, Step(s, p, v),
             0 \notin v.copy.dirs, v.ops = view[s].ops
      PROVE  ReplaceInv(scenario)'
  BY <1>1, <1>2, <1>4, HandlerKeeps, QuietStep
<1>5. IsView(view[s]) /\ IsTree(view[s].copy) /\ 0 \notin view[s].copy.dirs
  BY ViewOk, HandlerKeeps
<1>6. CASE ExportSpaceDir(s)
  <2> DEFINE dirs == tree.dirs \ {0}
             listed == {p \in InSpaceDir(tree) : p.c = 0}
             v == [view[s] EXCEPT !.listed = listed, !.dirs = dirs,
                                  !.copy = [dirs |-> dirs, files |-> <<>>]]
  <2>1. Answer(s) \/ Step(s, "walking", v)
    BY <1>6 DEF ExportSpaceDir
  <2> HIDE DEF listed
  <2>2. v.copy.dirs = dirs /\ v.ops = view[s].ops
    BY <1>5 DEF IsView
  <2> HIDE DEF v
  <2> QED BY <1>3, <1>4, <2>1, <2>2
<1>7. CASE ExportDir(s)
  <2>1. PICK dirs, listed :
          Answer(s) \/ Step(s, "walking", [view[s] EXCEPT !.dirs = dirs, !.listed = listed])
    BY <1>7 DEF ExportDir
  <2> DEFINE v == [view[s] EXCEPT !.dirs = dirs, !.listed = listed]
  <2>2. v.copy = view[s].copy /\ v.ops = view[s].ops
    BY <1>5 DEF IsView
  <2>3. Answer(s) \/ Step(s, "walking", v)
    BY <2>1
  <2> HIDE DEF v
  <2> QED BY <1>3, <1>4, <1>5, <2>2, <2>3
<1>8. CASE ExportRevocations(s)
  <2>1. PICK listed : Step(s, "packing", [view[s] EXCEPT !.listed = listed])
    BY <1>8 DEF ExportRevocations
  <2> DEFINE v == [view[s] EXCEPT !.listed = listed]
  <2>2. v.copy = view[s].copy /\ v.ops = view[s].ops
    BY <1>5 DEF IsView
  <2>3. Step(s, "packing", v)
    BY <2>1
  <2> HIDE DEF v
  <2> QED BY <1>4, <1>5, <2>2, <2>3
<1>9. CASE ExportRow(s)
  <2> DEFINE v == [view[s] EXCEPT !.left = Tables, !.copy = Copied(view[s].copy, SpaceFile)]
  <2>1. Answer(s) \/ (Has(tree, SpaceFile) /\ Step(s, "querying", v))
    BY <1>9 DEF ExportRow
  <2>2. Has(tree, SpaceFile) => Copied(view[s].copy, SpaceFile).dirs = view[s].copy.dirs
    BY <1>5, TreeOk, PackedFacts DEF Copied, Has
  <2>3. v.copy = Copied(view[s].copy, SpaceFile) /\ v.ops = view[s].ops
    BY <1>5 DEF IsView
  <2> HIDE DEF v
  <2> QED BY <1>3, <1>4, <1>5, <2>1, <2>2, <2>3
<1>10. CASE ExportQuery(s)
  <2>1. PICK p, left, listed, dirs, files :
          /\ p \in {"packing", "querying"} /\ 0 \notin dirs
          /\ Step(s, p, [view[s] EXCEPT !.left = left, !.listed = listed,
                           !.copy = [dirs |-> view[s].copy.dirs \cup dirs, files |-> files]])
    BY <1>10 DEF ExportQuery
  <2> DEFINE copy == [dirs |-> view[s].copy.dirs \cup dirs, files |-> files]
             v == [view[s] EXCEPT !.left = left, !.listed = listed, !.copy = copy]
  <2>2. Step(s, p, v)
    BY <2>1
  <2>3. 0 \notin copy.dirs
    BY <1>5, <2>1
  <2> HIDE DEF copy
  <2>4. v.copy = copy /\ v.ops = view[s].ops
    BY <1>5 DEF IsView
  <2> HIDE DEF v
  <2> QED BY <1>4, <2>1, <2>2, <2>3, <2>4
<1>11. CASE ExportRead(s)
  <2> DEFINE p == CHOOSE q \in view[s].listed : \A o \in view[s].listed \ {q} : Before(q, o)
             d == RowContent(tree, p)
             copy == Packed(view[s].copy, p, d)
             listed == view[s].listed \ {p}
             v == [view[s] EXCEPT !.listed = listed, !.copy = copy]
  <2>1. Answer(s) \/ Step(s, "packing", v)
    BY <1>11 DEF ExportRead
  <2> HIDE DEF p, d
  <2>2. copy.dirs = view[s].copy.dirs
    <3>1. view[s].copy = [dirs |-> view[s].copy.dirs, files |-> view[s].copy.files]
      BY <1>5, PartsOfTree
    <3> QED BY <3>1 DEF Packed
  <2> HIDE DEF copy, listed
  <2>3. v.copy = copy /\ v.ops = view[s].ops
    BY <1>5 DEF IsView
  <2> HIDE DEF v
  <2> QED BY <1>3, <1>4, <1>5, <2>1, <2>2, <2>3
<1> QED BY <1>6, <1>7, <1>8, <1>9, <1>10, <1>11

\* The parts of a sequence of two or of three, joined.
LEMMA TwoJoined ==
  ASSUME NEW x, NEW y
  PROVE  <<x>> \o <<y>> = <<x, y>>
<1> DEFINE S == {x, y}
           p == <<x>>
           q == <<y>>
           w == <<x, y>>
           j == p \o q
<1>1. /\ p \in Seq(S) /\ q \in Seq(S) /\ w \in Seq(S) /\ Len(p) = 1 /\ Len(q) = 1 /\ Len(w) = 2
      /\ p[1] = x /\ q[1] = y /\ w[1] = x /\ w[2] = y
  OBVIOUS
<1> HIDE DEF p, q, w, S
<1>2. /\ j \in Seq(S)
      /\ Len(j) = Len(p) + Len(q)
      /\ \A i \in 1 .. Len(p) + Len(q) : j[i] = IF i <= Len(p) THEN p[i] ELSE q[i - Len(p)]
  BY <1>1, ConcatProperties
<1> HIDE DEF j
<1>3. Len(j) = 2 /\ j[1] = x /\ j[2] = y
  BY <1>1, <1>2
<1>4. \A i \in 1 .. Len(j) : j[i] = w[i]
  <2>1. 1 .. Len(j) = {1, 2}
    BY <1>3
  <2> QED BY <2>1, <1>1, <1>3
<1>5. j = w
  BY <1>1, <1>2, <1>3, <1>4, SeqEqual
<1> QED BY <1>5 DEF j, p, q, w

LEMMA ThreeJoined ==
  ASSUME NEW x, NEW y, NEW z
  PROVE  <<x, y>> \o <<z>> = <<x, y, z>>
<1> DEFINE S == {x, y, z}
           p == <<x, y>>
           q == <<z>>
           w == <<x, y, z>>
           j == p \o q
<1>1. /\ p \in Seq(S) /\ q \in Seq(S) /\ w \in Seq(S) /\ Len(p) = 2 /\ Len(q) = 1 /\ Len(w) = 3
      /\ p[1] = x /\ p[2] = y /\ q[1] = z /\ w[1] = x /\ w[2] = y /\ w[3] = z
  OBVIOUS
<1> HIDE DEF p, q, w, S
<1>2. /\ j \in Seq(S)
      /\ Len(j) = Len(p) + Len(q)
      /\ \A i \in 1 .. Len(p) + Len(q) : j[i] = IF i <= Len(p) THEN p[i] ELSE q[i - Len(p)]
  BY <1>1, ConcatProperties
<1> HIDE DEF j
<1>3. Len(j) = 3 /\ j[1] = x /\ j[2] = y /\ j[3] = z
  BY <1>1, <1>2
<1>4. \A i \in 1 .. Len(j) : j[i] = w[i]
  <2>1. 1 .. Len(j) = {1, 2, 3}
    BY <1>3
  <2> QED BY <2>1, <1>1, <1>3
<1>5. j = w
  BY <1>1, <1>2, <1>3, <1>4, SeqEqual
<1> QED BY <1>5 DEF j, p, q, w
\* What an entry of the plan writes: itself, and what comes with it.
LEMMA WritesFresh ==
  ASSUME NEW t, NEW a, NEW op \in Path, OpOk(op), NEW changed
  PROVE  /\ Fresh(t, changed, Writes(t, a, op))
         /\ \A i \in 1 .. Len(Writes(t, a, op)) :
              \/ Writes(t, a, op)[i] = op
              \/ Writes(t, a, op)[i].kind \in {"meta", "policy", "sidecar"}
<1> DEFINE Ok(x) == ~Has(t, x) \/ x.kind = "revocation" \/ Alongside(x)
           Goal(q) == /\ Fresh(t, changed, q)
                      /\ \A i \in 1 .. Len(q) : q[i] = op \/ q[i].kind \in {"meta", "policy", "sidecar"}
<1>1. Goal(<<>>)
  BY DEF Fresh
<1>2. ASSUME Ok(op) PROVE Goal(<<op>>)
  BY <1>2 DEF Fresh
<1>3. ASSUME NEW g, NEW h, Ok(op), Ok(g), Ok(h),
             g.kind \in {"meta", "sidecar"}, h.kind = "policy",
             op.kind \in Types \cup {"description"}
      PROVE  Goal(<<op>> \o Given(a, g) \o Given(a, h))
  <2>1. op.kind # g.kind /\ op.kind # h.kind /\ g.kind # h.kind
    BY <1>3 DEF Types
  <2> DEFINE q == <<op>> \o Given(a, g) \o Given(a, h)
  <2>2. q = <<op>> \/ q = <<op, g>> \/ q = <<op, h>> \/ q = <<op, g, h>>
    <3> DEFINE G == Given(a, g)
               H == Given(a, h)
    <3>1. (G = <<>> \/ G = <<g>>) /\ (H = <<>> \/ H = <<h>>)
      BY DEF Given
    <3> HIDE DEF G, H
    <3>2. q = <<op>> \o G \o H
      BY DEF G, H
    <3> HIDE DEF q
    <3>3. /\ <<op>> \o <<>> \o <<>> = <<op>>
          /\ <<op>> \o <<g>> \o <<>> = <<op, g>>
          /\ <<op>> \o <<>> \o <<h>> = <<op, h>>
          /\ <<op>> \o <<g>> \o <<h>> = <<op, g, h>>
      <4>1. <<op>> \o <<>> = <<op>> /\ <<op, g>> \o <<>> = <<op, g>>
        OBVIOUS
      <4>2. <<op>> \o <<g>> = <<op, g>> /\ <<op>> \o <<h>> = <<op, h>>
        BY TwoJoined
      <4>3. <<op, g>> \o <<h>> = <<op, g, h>>
        BY ThreeJoined
      <4> QED BY <4>1, <4>2, <4>3
    <3> QED BY <3>1, <3>2, <3>3
  <2>3. Goal(<<op>>)
    BY <1>2, <1>3
  <2>4. Goal(<<op, g>>)
    BY <1>3, <2>1 DEF Fresh
  <2>5. Goal(<<op, h>>)
    BY <1>3, <2>1 DEF Fresh
  <2>6. Goal(<<op, g, h>>)
    <3> DEFINE w == <<op, g, h>>
    <3>1. Len(w) = 3 /\ w[1] = op /\ w[2] = g /\ w[3] = h
      OBVIOUS
    <3> HIDE DEF w
    <3>2. 1 .. Len(w) = {1, 2, 3}
      BY <3>1
    <3>3. Goal(w)
      BY <1>3, <2>1, <3>1, <3>2 DEF Fresh
    <3> QED BY <3>3 DEF w
  <2> HIDE DEF q, Goal
  <2>7. Goal(q)
    BY <2>2, <2>3, <2>4, <2>5, <2>6
  <2> QED BY <2>7 DEF q
<1>4. op.c \in Nat /\ op = At(op.kind, op.c, op.r)
  BY ConstantsAssumption DEF Path, At
<1> HIDE DEF Goal
<1>5. Goal(PolicyWrites(t, op))
  BY <1>1, <1>2 DEF PolicyWrites, Unless
<1>6. CASE op.kind = "description"
  <2>1. ~Has(t, op) => Goal(<<op>> \o Given(a, MetaFile(op.c)) \o Given(a, PolicyFile(op.c, 0)))
    <3>1. op.c # 0
      BY <1>6 DEF OpOk
    <3>2. Ok(MetaFile(op.c)) /\ MetaFile(op.c).kind = "meta"
      BY DEF MetaFile, At, Alongside
    <3>3. Ok(PolicyFile(op.c, 0)) /\ PolicyFile(op.c, 0).kind = "policy"
      BY <3>1 DEF PolicyFile, At, Alongside
    <3> QED BY <1>3, <1>6, <3>2, <3>3
  <2>2. Goal(DescriptionWrites(t, a, op))
    BY <1>1, <2>1 DEF DescriptionWrites, Unless
  <2> QED BY <1>6, <2>2 DEF Writes, Types, Goal
<1>7. CASE op.kind \in Types
  <2>1. ~ResourceExists(t, op.c, op.r) =>
          Goal(<<op>> \o Given(a, Sidecar(op.c, op.r)) \o Given(a, PolicyFile(op.c, op.r)))
    <3> SUFFICES ASSUME ~ResourceExists(t, op.c, op.r)
                 PROVE  Goal(<<op>> \o Given(a, Sidecar(op.c, op.r)) \o Given(a, PolicyFile(op.c, op.r)))
      OBVIOUS
    <3>1. op.c # 0
      BY <1>7 DEF OpOk
    <3>2. Ok(Sidecar(op.c, op.r)) /\ Sidecar(op.c, op.r).kind = "sidecar"
      BY DEF Sidecar, At, ResourceExists
    <3>3. Ok(PolicyFile(op.c, op.r)) /\ PolicyFile(op.c, op.r).kind = "policy"
      BY <3>1 DEF PolicyFile, At, Alongside
    <3>4. Ok(op)
      <4>1. op \in Representations(op.c, op.r)
        BY <1>4, <1>7 DEF Representations
      <4> QED BY <4>1 DEF ResourceExists, Live, Among, Has
    <3> HIDE DEF Ok
    <3> QED BY <1>3, <1>7, <3>2, <3>3, <3>4
  <2>2. Goal(ResourceWrites(t, a, op))
    BY <1>1, <2>1 DEF ResourceWrites, Unless
  <2> QED BY <1>7, <2>2 DEF Writes, Types, Goal
<1>8. CASE op.kind = "sidecar"
  <2>1. ~ResourceExists(t, op.c, op.r) => Ok(op)
    BY <1>4, <1>8 DEF ResourceExists, Sidecar
  <2>2. Goal(TombstoneWrites(t, op))
    BY <1>1, <1>2, <2>1 DEF TombstoneWrites, Unless
  <2> QED BY <1>8, <2>2 DEF Writes, Types, Goal
<1>9. CASE op.kind = "chunk"
  <2>1. Goal(ChunkWrites(t, op))
    BY <1>1, <1>2 DEF ChunkWrites, Unless
  <2> QED BY <1>9, <2>1 DEF Writes, Types, Goal
<1>10. CASE op.kind = "revocation"
  <2>1. Goal(RevocationWrites(op))
    BY <1>1, <1>2, <1>10 DEF RevocationWrites, Unless
  <2> QED BY <1>10, <2>1 DEF Writes, Types, Goal
<1>11. CASE op.kind = "space" \/ op.kind = "policy"
  BY <1>1, <1>5, <1>11 DEF Writes, Types, Goal
<1> QED BY <1>6, <1>7, <1>8, <1>9, <1>10, <1>11 DEF OpOk

LEMMA PlannedOk ==
  ASSUME NEW a, IsTree(a), 0 \notin a.dirs, NEW op \in Planned(a)
  PROVE  /\ OpOk(op) /\ op \in Path
         /\ op.kind = "description" => op.c \in a.dirs /\ op = DescriptionFile(op.c)
<1>1. op \in Path
  BY TurnsDiffer
<1>2. CASE op = SpaceFile
  BY <1>1, <1>2 DEF SpaceFile, At, OpOk, Types
<1>3. CASE \E c \in a.dirs : op = DescriptionFile(c)
  BY <1>1, <1>3 DEF DescriptionFile, At, OpOk, Types
<1>4. CASE op = PolicyFile(0, 0) \/ op.kind = "revocation"
  BY <1>1, <1>4 DEF PolicyFile, At, OpOk, Types
<1>5. CASE op.c \in a.dirs /\ op.kind \in Types \cup {"chunk", "sidecar"}
  BY <1>1, <1>5 DEF OpOk, Types
<1> QED BY <1>1, <1>2, <1>3, <1>4, <1>5 DEF Planned, Tombstones

LEMMA PlanOpsOk ==
  ASSUME NEW a, IsTree(a), 0 \notin a.dirs
  PROVE  OpsOk(Plan(a)) /\ \A i \in 1 .. Len(Plan(a)) : Plan(a)[i] \in Planned(a)
<1> DEFINE q == Plan(a)
<1>1. q \in Seq(Planned(a))
  BY PlanIsSorted
<1> HIDE DEF q
<1>2. \A i \in 1 .. Len(q) : q[i] \in Planned(a)
  BY <1>1
<1>3. OpsOk(q)
  BY <1>2, PlannedOk DEF OpsOk
<1> QED BY <1>2, <1>3 DEF q

LEMMA GoesReplaces ==
  ASSUME TypeInv, NEW scenario, ReplaceInv(scenario), NEW s \in Slots, NEW v, NEW looked,
         request[s] # None, Goes(s, v), Witness(s, looked),
         UNCHANGED <<backend, todo, archive>>, remade \subseteq remade', DescriptionsKept,
         0 \notin v.copy.dirs, OpsOk(v.ops),
         Fresh(tree', since[s] \ looked, v.writes)
  PROVE  ReplaceInv(scenario)'
<1> DEFINE p == IF v.ops = <<>> /\ v.writes = <<>> THEN "imported"
                ELSE IF v.writes = <<>> THEN "restoring" ELSE "writing"
<1>1. Step(s, p, v)
  BY DEF Goes
<1>2. p \in {"imported", "restoring", "writing"}
  OBVIOUS
<1> HIDE DEF p
<1>3. request' = request /\ pc'[s] = p /\ view'[s] = v
  BY <1>1, StepMoves
<1>4. since'[s] = since[s] \ looked
  BY <1>3, OthersSee
<1>5. Upserting(s)'
  BY <1>2, <1>3 DEF Upserting
<1>6. HandlerOk(scenario, s)'
  BY <1>2, <1>3, <1>4, <1>5, HandlerKeeps DEF HandlerOk
<1> QED BY <1>1, <1>6, KeptDescriptions, StepReplaces

LEMMA ReplaceImportStart ==
  ASSUME TypeInv, NEW scenario, ReplaceInv(scenario), NEW s \in Slots, ImportStart(s)
  PROVE  ReplaceInv(scenario)'
<1> DEFINE ops == Plan(view[s].copy)
           v == [view[s] EXCEPT !.ops = ops]
<1>1. /\ request[s] # None /\ UNCHANGED <<tree, rest>> /\ Witness(s, {})
      /\ Step(s, "restoring", v)
  BY DEF ImportStart, OnFiles, Running
<1>2. OpsOk(ops)
  BY ViewOk, HandlerKeeps, PlanOpsOk
<1> HIDE DEF ops
<1>3. v.copy = view[s].copy /\ v.ops = ops
  BY ViewOk DEF IsView
<1> HIDE DEF v
<1> QED BY <1>1, <1>2, <1>3, StillQuiet, HandlerKeeps, QuietStep

LEMMA ReplaceImportLook ==
  ASSUME TypeInv, NEW scenario, ReplaceInv(scenario), NEW s \in Slots, ImportLook(s)
  PROVE  ReplaceInv(scenario)'
<1> DEFINE op == Head(view[s].ops)
           ops == Tail(view[s].ops)
           writes == Writes(tree, view[s].copy, op)
           dirs == IF op = SpaceFile THEN tree.dirs ELSE view[s].dirs
           v == [view[s] EXCEPT !.ops = ops, !.writes = writes, !.dirs = dirs]
<1>1. /\ request[s] # None /\ UNCHANGED <<tree, rest>> /\ Witness(s, LooksAt(op))
      /\ pc[s] = "restoring"
  BY DEF ImportLook, OnFiles, Running
<1>2. Answer(s) \/ Goes(s, v)
  BY DEF ImportLook
<1>3. view[s].ops \in Seq(Path) /\ view[s].ops # <<>> /\ OpsOk(view[s].ops)
  BY <1>1, ViewOk, HandlerKeeps DEF TypeInv, SlotOk, IsView
<1>4. op \in Path /\ OpOk(op)
  BY <1>3 DEF OpsOk
<1>5. OpsOk(ops)
  BY <1>3 DEF OpsOk
<1> HIDE DEF op, ops
<1>6. Fresh(tree, since[s] \ LooksAt(op), writes)
  BY <1>4, WritesFresh
<1> HIDE DEF writes, dirs
<1>7. v.ops = ops /\ v.writes = writes /\ v.copy = view[s].copy
  BY ViewOk DEF IsView
<1> HIDE DEF v
<1>8. CASE Answer(s)
  BY <1>1, <1>8, StillQuiet, QuietAnswer
<1>9. CASE Goes(s, v)
  BY <1>1, <1>5, <1>6, <1>7, <1>9, StillQuiet, HandlerKeeps, GoesReplaces
<1> QED BY <1>2, <1>8, <1>9

LEMMA ReplaceImportWrite ==
  ASSUME TypeInv, NEW scenario, ReplaceInv(scenario), NEW s \in Slots, ImportWrite(s)
  PROVE  ReplaceInv(scenario)'
<1> DEFINE p == Head(view[s].writes)
           writes == Tail(view[s].writes)
           v == [view[s] EXCEPT !.writes = writes]
           u == Restored(tree, view[s].copy, p)
<1>1. /\ request[s] # None /\ Witness(s, {}) /\ pc[s] = "writing"
      /\ UNCHANGED <<backend, expired, archive, todo, faults>>
  BY DEF ImportWrite, OnFiles, Running
<1>2. \/ /\ tree' = u
         /\ remade' = IF p.kind = "description" THEN remade \cup {p.c} ELSE remade
         /\ Goes(s, v)
      \/ Answer(s) /\ UNCHANGED <<tree, remade>>
  BY DEF ImportWrite
<1>3. /\ view[s].writes \in Seq(Path) /\ view[s].writes # <<>>
      /\ Fresh(tree, since[s], view[s].writes)
  BY <1>1, ViewOk DEF TypeInv, SlotOk, IsView, ReplaceInv, HandlerOk
<1>4. p \in Path
  BY <1>3
<1>5. /\ DOMAIN u.files \subseteq DOMAIN tree.files \cup {p}
      /\ DOMAIN tree.files \subseteq DOMAIN u.files
      /\ \A q \in DOMAIN tree.files : q # p \/ p.kind = "revocation" => u.files[q] = tree.files[q]
  <2>1. AddsOne(tree, u, p)
    BY <1>4, TreeOk, ViewOk, RestoredFacts
  <2> HIDE DEF p, u
  <2> QED BY <2>1 DEF AddsOne
<1> HIDE DEF u
<1>6. Fresh(u, since[s] \ {}, writes)
  <2> DEFINE q == view[s].writes
  <2>1. q \in Seq(Path) /\ q # <<>> /\ Fresh(tree, since[s], q)
    BY <1>3
  <2>2. p = q[1] /\ Len(writes) = Len(q) - 1 /\ Len(q) \in Nat /\ \A i \in 1 .. Len(writes) : writes[i] = q[i + 1]
    BY <2>1
  <2> HIDE DEF q, p, writes
  <2>3. ASSUME NEW i \in 1 .. Len(writes)
        PROVE  i + 1 \in 1 .. Len(q) /\ writes[i] = q[i + 1] /\ writes[i].kind # p.kind
    <3>1. i + 1 \in 1 .. Len(q) /\ 1 \in 1 .. Len(q) /\ i + 1 # 1
      BY <2>2, <2>3
    <3> QED BY <2>1, <2>2, <3>1 DEF Fresh
  <2>4. ASSUME NEW i \in 1 .. Len(writes), Has(u, writes[i])
        PROVE  writes[i] \in since[s] \ {} \/ writes[i].kind = "revocation" \/ Alongside(writes[i])
    <3>1. Has(tree, writes[i])
      BY <1>5, <2>3, <2>4 DEF Has
    <3> QED BY <2>1, <2>3, <3>1 DEF Fresh
  <2>5. ASSUME NEW i \in 1 .. Len(writes), NEW j \in 1 .. Len(writes), i # j
        PROVE  writes[i].kind # writes[j].kind
    <3>1. i + 1 # j + 1
      BY <2>5, <2>2
    <3> QED BY <2>1, <2>3, <3>1 DEF Fresh
  <2> QED BY <2>4, <2>5 DEF Fresh
<1> HIDE DEF p, writes
<1>7. v.writes = writes /\ v.ops = view[s].ops /\ v.copy = view[s].copy
  BY ViewOk DEF IsView
<1> HIDE DEF v
<1>8. CASE Answer(s) /\ UNCHANGED <<tree, remade>>
  <2>1. DescriptionsKept
    BY <1>8 DEF DescriptionsKept, DescriptionKept, SameDescription
  <2> QED BY <1>1, <1>8, <2>1, QuietAnswer
<1>9. CASE /\ tree' = u
           /\ remade' = IF p.kind = "description" THEN remade \cup {p.c} ELSE remade
           /\ Goes(s, v)
  <2>1. ASSUME NEW c \in 0 .. MaxId PROVE DescriptionKept(c)
    <3>1. CASE DescriptionFile(c) = p
      BY <1>9, <3>1 DEF DescriptionKept, DescriptionFile, At
    <3>2. CASE DescriptionFile(c) # p
      <4>1. Has(u, DescriptionFile(c)) <=> Has(tree, DescriptionFile(c))
        BY <1>5, <3>2 DEF Has
      <4>2. Has(tree, DescriptionFile(c)) => u.files[DescriptionFile(c)] = tree.files[DescriptionFile(c)]
        BY <1>5, <3>2 DEF Has
      <4> QED BY <1>9, <4>1, <4>2 DEF DescriptionKept, SameDescription
    <3> QED BY <3>1, <3>2
  <2>2. DescriptionsKept
    BY <2>1 DEF DescriptionsKept
  <2> QED BY <1>1, <1>6, <1>7, <1>9, <2>2, HandlerKeeps, GoesReplaces
<1> QED BY <1>2, <1>8, <1>9

\* Tree u has what tree t had, but for what comes with a Collection or a Resource, and no
\* Description that t or the archive's Collections do not account for.
Spares(t, a, u) ==
  /\ \A q \in DOMAIN t.files : q \in DOMAIN u.files /\ (u.files[q] = t.files[q] \/ Alongside(q))
  /\ \A c \in 0 .. MaxId :
       Has(u, DescriptionFile(c)) => Has(t, DescriptionFile(c)) \/ c \in a.dirs

\* One entry of the plan, and with it the whole import, spares what is there.
LEMMA EntrySpares ==
  ASSUME NEW t, NEW a, IsTree(a), 0 \notin a.dirs, NEW u, IsTree(u), Spares(t, a, u),
         NEW op \in Planned(a)
  PROVE  Spares(t, a, Inserted(u, a, op))
<1> DEFINE w == Inserted(u, a, op)
           writes == Writes(u, a, op)
           new == Range(writes)
<1>1. /\ OpOk(op) /\ op \in Path
      /\ op.kind = "description" => op.c \in a.dirs /\ op = DescriptionFile(op.c)
  BY PlannedOk
<1>2. AddsSome(u, w, new, op)
  BY <1>1, InsertedFacts
<1>3. /\ Fresh(u, {}, writes)
      /\ \A i \in 1 .. Len(writes) : writes[i] = op \/ writes[i].kind \in {"meta", "policy", "sidecar"}
      /\ writes \in Seq(Path)
  BY <1>1, WritesFresh, WritesOk
<1>4. ASSUME NEW q \in new
      PROVE  /\ q = op \/ q.kind \in {"meta", "policy", "sidecar"}
             /\ Has(u, q) => q.kind = "revocation" \/ Alongside(q)
  <2>1. writes \in Seq(Path) /\ Fresh(u, {}, writes)
        /\ \A i \in 1 .. Len(writes) : writes[i] = op \/ writes[i].kind \in {"meta", "policy", "sidecar"}
    BY <1>3
  <2> HIDE DEF writes
  <2>2. PICK i \in 1 .. Len(writes) : writes[i] = q
    BY <2>1 DEF Range
  <2> QED BY <2>1, <2>2 DEF Fresh
<1> HIDE DEF w, new
<1>5. ASSUME NEW q \in DOMAIN t.files
      PROVE  q \in DOMAIN w.files /\ (w.files[q] = t.files[q] \/ Alongside(q))
  <2>1. q \in DOMAIN u.files /\ (u.files[q] = t.files[q] \/ Alongside(q))
    BY DEF Spares
  <2>2. CASE q \notin new \/ op.kind = "revocation"
    BY <1>2, <2>1, <2>2 DEF AddsSome
  <2>3. CASE q \in new /\ op.kind # "revocation"
    BY <1>2, <1>4, <2>1, <2>3 DEF Has, AddsSome
  <2> QED BY <2>2, <2>3
<1>6. ASSUME NEW c \in 0 .. MaxId, Has(w, DescriptionFile(c))
      PROVE  Has(t, DescriptionFile(c)) \/ c \in a.dirs
  <2>1. CASE Has(u, DescriptionFile(c))
    BY <2>1 DEF Spares
  <2>2. CASE ~Has(u, DescriptionFile(c))
    <3>1. DescriptionFile(c).kind = "description" /\ DescriptionFile(c).c = c
      BY DEF DescriptionFile, At
    <3>2. DescriptionFile(c) = op
      BY <1>2, <1>4, <1>6, <2>2, <3>1 DEF Has, AddsSome
    <3> QED BY <1>1, <3>1, <3>2
  <2> QED BY <2>1, <2>2
<1>7. Spares(t, a, w)
  BY <1>5, <1>6 DEF Spares
<1> QED BY <1>7 DEF w

LEMMA ImportSpares ==
  ASSUME NEW t, IsTree(t), NEW a, IsTree(a), 0 \notin a.dirs
  PROVE  Spares(t, a, Imported(t, a))
<1> DEFINE T == {u \in TreeSet : Spares(t, a, u)}
<1>1. /\ Plan(a) \in Seq(Path)
      /\ \A i \in 1 .. Len(Plan(a)) : Plan(a)[i] \in Planned(a)
  BY PlanOk, PlanOpsOk
<1>2. [t EXCEPT !.dirs = t.dirs \cup {0}] \in T
  <2> DEFINE u == [t EXCEPT !.dirs = t.dirs \cup {0}]
  <2>1. t.dirs \cup {0} \subseteq 0 .. MaxId
    BY PartsOfTree, ZeroId
  <2>2. IsTree(u) /\ u.files = t.files
    BY <2>1, DirsExcept
  <2> HIDE DEF u
  <2>3. u \in TreeSet /\ Spares(t, a, u)
    BY <2>2, TreesAreOfTreeSet DEF Spares, Has
  <2>4. u \in T
    BY <2>3
  <2> QED BY <2>4 DEF u
<1>3. ASSUME NEW u \in T, NEW i \in 1 .. Len(Plan(a))
      PROVE  Inserted(u, a, Plan(a)[i]) \in T
  <2>1. Plan(a)[i] \in Planned(a) /\ Plan(a)[i] \in Path
    BY <1>1
  <2>2. IsTree(u) /\ Spares(t, a, u)
    BY TreesAreOfTreeSet
  <2>3. IsTree(Inserted(u, a, Plan(a)[i]))
    BY <2>1, <2>2, InsertedFacts
  <2>4. Spares(t, a, Inserted(u, a, Plan(a)[i]))
    BY <2>1, <2>2, EntrySpares
  <2> QED BY <2>3, <2>4, TreesAreOfTreeSet
<1> HIDE DEF T
<1>4. Imported(t, a) \in T
  BY <1>1, <1>2, <1>3, ImportKeeps
<1> QED BY <1>4 DEF T

LEMMA ReplaceImportRows ==
  ASSUME TypeInv, NEW scenario, ReplaceInv(scenario), NEW s \in Slots, ImportRows(s)
  PROVE  ReplaceInv(scenario)'
<1> DEFINE a == view[s].copy
<1>1. /\ request[s] # None /\ \E looked : Witness(s, looked)
      /\ tree' = Imported(tree, a)
      /\ remade' = remade \cup {c \in a.dirs : ~Has(tree, DescriptionFile(c))}
      /\ Step(s, "imported", view[s])
      /\ UNCHANGED <<backend, expired, archive, todo, faults>>
  BY DEF ImportRows, InRows, Running
<1>2. Spares(tree, a, tree')
  BY <1>1, TreeOk, ViewOk, HandlerKeeps, ImportSpares
<1>3. ASSUME NEW c \in 0 .. MaxId PROVE DescriptionKept(c)
  <2>1. /\ Has(tree, DescriptionFile(c)) =>
             Has(tree', DescriptionFile(c))
               /\ tree'.files[DescriptionFile(c)] = tree.files[DescriptionFile(c)]
        /\ Has(tree', DescriptionFile(c)) => Has(tree, DescriptionFile(c)) \/ c \in a.dirs
    BY <1>2 DEF Spares, Has, Alongside, DescriptionFile, At
  <2> QED BY <1>1, <2>1 DEF DescriptionKept, SameDescription
<1>4. DescriptionsKept
  BY <1>3 DEF DescriptionsKept
<1> QED BY <1>1, <1>4, HandlerKeeps, QuietStep

LEMMA ReplaceFaults ==
  ASSUME TypeInv, NEW scenario, ReplaceInv(scenario), Expire \/ Crash
  PROVE  ReplaceInv(scenario)'
<1>1. UNCHANGED <<backend, tree, archive, todo, remade>>
  BY DEF Expire, Crash
<1>2. ASSUME NEW t \in Slots PROVE HandlerOk(scenario, t)'
  <2>1. HandlerOk(scenario, t)
    BY DEF ReplaceInv
  <2>2. CASE Expire
    <3>1. UNCHANGED <<backend, tree, request, pc, view, since, remade>>
      BY <2>2 DEF Expire, flight
    <3> QED BY <2>1, <3>1 DEF HandlerOk, Upserting, Replacing, PriorDescription
  <2>3. CASE Crash
    <3>1. request'[t] = None /\ view'[t] = NoView
      BY <2>3 DEF Crash
    <3> QED BY <3>1, NoViewKeeps DEF HandlerOk
  <2> QED BY <2>2, <2>3
<1> QED BY <1>1, <1>2 DEF ReplaceInv, DescribedSince

LEMMA ReplaceInit ==
  ASSUME Init
  PROVE  \E scenario \in Scenarios : ReplaceInv(scenario)
<1>1. PICK scenario \in Scenarios :
        tree = scenario.tree /\ todo = scenario.todo /\ archive = scenario.archive
  BY DEF Init
<1>2. archive # None => 0 \notin archive.dirs
  BY <1>1, ConstantsAssumption DEF IsScenario
<1>3. \A c \in 0 .. MaxId : DescribedSince(scenario, c)
  BY <1>1 DEF DescribedSince, FirstDescriptions
<1>4. \A s \in Slots : HandlerOk(scenario, s)
  BY NoViewKeeps DEF Init, HandlerOk
<1>5. ReplaceInv(scenario)
  BY <1>1, <1>2, <1>3, <1>4 DEF ReplaceInv
<1> QED BY <1>5

LEMMA ReplaceNext ==
  ASSUME TypeInv, NEW scenario \in Scenarios, ReplaceInv(scenario), [Next]_vars
  PROVE  ReplaceInv(scenario)'
<1>0. IsScenario(scenario)
  BY ConstantsAssumption
<1>1. CASE UNCHANGED vars
  BY <1>1 DEF vars, flight, ReplaceInv, DescribedSince, HandlerOk, Upserting, Replacing,
              PriorDescription
<1>2. CASE Expire \/ Crash
  BY <1>2, ReplaceFaults
<1>3. ASSUME NEW s \in Slots, Begin(s) \/ QuotaRefuses(s) \/ Respond(s)
      PROVE  ReplaceInv(scenario)'
  BY <1>3, ReplaceBegin, ReplaceRespond
<1>4. ASSUME NEW s \in Slots, PostCheck(s) \/ PutPrior(s) \/ PutPersist(s) \/ PutRow(s)
      PROVE  ReplaceInv(scenario)'
  BY <1>0, <1>4, ReplacePostCheck, ReplacePutPrior, ReplacePutPersist, ReplacePutRow
<1>5. ASSUME NEW s \in Slots, DropSome(s) \/ DropAll(s) \/ RemoveSome(s) \/ RemoveAll(s)
                                \/ DeleteRows(s)
      PROVE  ReplaceInv(scenario)'
  BY <1>5, ReplaceRemovals
<1>6. ASSUME NEW s \in Slots, WriteContent(s) \/ WriteCheck(s) \/ WritePrune(s) \/ RemoveContent(s)
                                \/ RemoveChunks(s) \/ RemoveRevocations(s)
      PROVE  ReplaceInv(scenario)'
  BY <1>6, ReplaceWriteContent, ReplaceResourceSteps
<1>7. ASSUME NEW s \in Slots, WriteSidecar(s) \/ WriteRow(s) \/ RemoveSidecar(s) \/ RemoveRow(s)
                                \/ WriteChunk(s) \/ SetPolicy(s) \/ CreateSpace(s) \/ Revoke(s)
                                \/ Generate(s)
      PROVE  ReplaceInv(scenario)'
  BY <1>7, ReplaceResourceEnds
<1>8. ASSUME NEW s \in Slots, ListPage(s) \/ QueryRows(s) \/ QueryPage(s) \/ QueryList(s)
                                \/ QueryRead(s) \/ ExportLook(s) \/ ExportDone(s)
      PROVE  ReplaceInv(scenario)'
  BY <1>8, ReplaceReads
<1>9. ASSUME NEW s \in Slots, ExportSpaceDir(s) \/ ExportDir(s) \/ ExportRevocations(s)
                                \/ ExportRow(s) \/ ExportQuery(s) \/ ExportRead(s)
      PROVE  ReplaceInv(scenario)'
  BY <1>9, ReplaceExport
<1>10. ASSUME NEW s \in Slots, ImportStart(s) \/ ImportLook(s) \/ ImportWrite(s) \/ ImportRows(s)
       PROVE  ReplaceInv(scenario)'
  BY <1>10, ReplaceImportStart, ReplaceImportLook, ReplaceImportWrite, ReplaceImportRows
<1> QED BY <1>1, <1>2, <1>3, <1>4, <1>5, <1>6, <1>7, <1>8, <1>9, <1>10 DEF Next

\* What a step of slot s may replace, by its request.
Spared(s) ==
  /\ request[s].kind \in {"post", "import"} =>
       \A p \in Replaced : p \in since[s] \/ p.kind = "meta" \/ (p.kind = "policy" /\ p.c # 0)
  /\ request[s].kind = "put" /\ request[s].match # None =>
       \A p \in Replaced : tree.files[p] = request[s].match \/ p.c \in remade

LEMMA NothingReplaced ==
  ASSUME tree' = tree
  PROVE  \A s \in Slots : Spared(s)
<1>1. Replaced = {}
  BY DEF Replaced, Changed
<1> QED BY <1>1 DEF Spared

\* A step of one slot is no step of another.
LEMMA OneActs ==
  ASSUME TypeInv, NEW s \in Slots, Answer(s) \/ \E p, v : Step(s, p, v)
  PROVE  \A t \in Slots \ {s} : ~Acts(t)
<1>1. CASE Answer(s)
  BY <1>1, AnswerMoves DEF Acts
<1>2. CASE \E p, v : Step(s, p, v)
  <2>1. PICK p, v : Step(s, p, v)
    BY <1>2
  <2>2. request' = request /\ \A t \in Slots \ {s} : pc'[t] = pc[t] /\ view'[t] = view[t]
    BY <2>1, StepMoves
  <2> QED BY <2>2 DEF Acts
<1> QED BY <1>1, <1>2

\* A Description at the version a conditional PUT names is the one it names.
LEMMA MatchedIsNamed ==
  ASSUME TypeInv, NEW scenario, IsScenario(scenario), ReplaceInv(scenario), NEW s \in Slots,
         request[s] # None, request[s].kind = "put", request[s].match # None,
         request[s].c \notin remade, Has(tree, DescriptionFile(request[s].c)),
         tree.files[DescriptionFile(request[s].c)].version = request[s].match.version
  PROVE  tree.files[DescriptionFile(request[s].c)] = request[s].match
<1> DEFINE r == request[s]
           m == r.match
           prior == tree.files[DescriptionFile(r.c)]
           First == FirstDescriptions(scenario, r.c)
<1>1. r.c \in 0 .. MaxId /\ r \in scenario.todo
  BY RequestParts, HandlerKeeps
<1>2. \A v \in First : m = v \/ m.version < v.version
  BY <1>1 DEF IsScenario
<1>3. PICK v \in First : prior = v \/ v.version < prior.version
  BY <1>1 DEF ReplaceInv, DescribedSince
<1>4. v.version \in Nat
  BY <1>3, FirstVersion
<1>5. prior.version \in Nat /\ prior.version = m.version
  BY TreeOk DEF Has, Value
<1> HIDE DEF m, prior
<1>6. m = v \/ m.version < v.version
  BY <1>2
<1>7. prior = v => prior = m
  BY <1>4, <1>5, <1>6
<1>8. ~(v.version < prior.version)
  BY <1>4, <1>5, <1>6
<1>9. prior = m
  BY <1>3, <1>7, <1>8
<1> QED BY <1>9 DEF prior, m

\* What a write of a Description replaces.
LEMMA PutReplaces ==
  ASSUME TypeInv, NEW s \in Slots, request[s] # None, NEW d \in Value,
         tree' = Put(tree, DescriptionFile(request[s].c), d)
  PROVE  \A p \in Replaced :
           p = DescriptionFile(request[s].c) /\ p.c = request[s].c /\ Has(tree, p)
<1> DEFINE p == DescriptionFile(request[s].c)
<1>1. p \in Path /\ p.c = request[s].c
  BY RequestParts, FilesArePaths, ZeroId
<1> HIDE DEF p
<1>2. /\ DOMAIN tree'.files = DOMAIN tree.files \cup {p}
      /\ \A q \in DOMAIN tree.files \ {p} : tree'.files[q] = tree.files[q]
  BY <1>1, TreeOk, PutFacts DEF p
<1>3. \A q \in Replaced : q = p /\ Has(tree, p)
  BY <1>2 DEF Replaced, Changed, Has
<1> QED BY <1>1, <1>3 DEF p

LEMMA SparedByPutPersist ==
  ASSUME TypeInv, NEW scenario, IsScenario(scenario), ReplaceInv(scenario), NEW s \in Slots,
         PutPersist(s)
  PROVE  Spared(s)
<1> DEFINE r == request[s]
           D == DescriptionFile(r.c)
<1>1. /\ r # None /\ pc[s] = "persist"
      /\ \/ tree' = Put(tree, D, Replacement(r, view[s].snap))
         \/ tree' = tree
  BY DEF PutPersist
<1>2. Upserting(s) /\ Replacing(s)
  BY <1>1 DEF ReplaceInv, HandlerOk
<1>3. CASE tree' = Put(tree, D, Replacement(r, view[s].snap))
  <2> DEFINE d == Replacement(r, view[s].snap)
  <2>1. view[s].snap # None => view[s].snap \in Value
    BY ViewOk DEF IsView
  <2>2. d \in Value
    BY <1>1, <2>1, RequestParts, ReplacementOk
  <2> HIDE DEF d
  <2>3. \A p \in Replaced : p = D /\ p.c = r.c /\ Has(tree, p)
    BY <1>1, <1>3, <2>2, PutReplaces DEF d
  <2>4. ASSUME r.kind = "post", NEW p \in Replaced PROVE p \in since[s]
    BY <1>1, <1>2, <2>3, <2>4 DEF Upserting
  <2>5. ASSUME r.kind = "put", r.match # None, NEW p \in Replaced, p.c \notin remade
        PROVE  tree.files[p] = r.match
    <3>1. p = D /\ r.c \notin remade /\ Has(tree, D)
      BY <2>3, <2>5
    <3>2. tree.files[D].version = r.match.version
      BY <1>2, <2>5, <3>1 DEF Replacing, PriorDescription
    <3> QED BY <1>1, <2>5, <3>1, <3>2, MatchedIsNamed
  <2>6. r.kind # "import"
    BY <1>2 DEF Replacing
  <2> QED BY <2>4, <2>5, <2>6 DEF Spared
<1> QED BY <1>1, <1>3, NothingReplaced

LEMMA SparedByPutRow ==
  ASSUME TypeInv, NEW scenario, IsScenario(scenario), ReplaceInv(scenario), NEW s \in Slots,
         PutRow(s)
  PROVE  Spared(s)
<1> DEFINE r == request[s]
           D == DescriptionFile(r.c)
           prior == PriorDescription(r)
<1>1. /\ r # None /\ r.kind \in {"put", "post"} /\ (r.kind = "post" => pc[s] = "upsert")
      /\ \/ tree' = Put(tree, D, Replacement(r, prior)) /\ ~PreconditionFails(r, prior)
         \/ tree' = tree
  BY DEF PutRow, InRows, Running
<1>2. Upserting(s)
  BY <1>1 DEF ReplaceInv, HandlerOk
<1>3. CASE tree' = Put(tree, D, Replacement(r, prior)) /\ ~PreconditionFails(r, prior)
  <2> DEFINE d == Replacement(r, prior)
  <2>1. d \in Value
    BY <1>1, RequestParts, PriorDescriptionOk, ReplacementOk
  <2> HIDE DEF d
  <2>2. \A p \in Replaced : p = D /\ p.c = r.c /\ Has(tree, p)
    BY <1>1, <1>3, <2>1, PutReplaces DEF d
  <2>3. ASSUME r.kind = "post", NEW p \in Replaced PROVE p \in since[s]
    BY <1>1, <1>2, <2>2, <2>3 DEF Upserting
  <2>4. ASSUME r.kind = "put", r.match # None, NEW p \in Replaced, p.c \notin remade
        PROVE  tree.files[p] = r.match
    <3>1. p = D /\ r.c \notin remade /\ Has(tree, D)
      BY <2>2, <2>4
    <3>2. tree.files[D].version = r.match.version
      BY <1>3, <2>4, <3>1 DEF PreconditionFails, PriorDescription
    <3> QED BY <1>1, <2>4, <3>1, <3>2, MatchedIsNamed
  <2> QED BY <1>1, <2>3, <2>4 DEF Spared
<1> QED BY <1>1, <1>3, NothingReplaced

LEMMA SparedByImportWrite ==
  ASSUME TypeInv, NEW scenario, ReplaceInv(scenario), NEW s \in Slots, ImportWrite(s)
  PROVE  Spared(s)
<1> DEFINE p == Head(view[s].writes)
           u == Restored(tree, view[s].copy, p)
<1>1. /\ request[s] # None /\ request[s].kind = "import" /\ pc[s] = "writing"
      /\ tree' = u \/ tree' = tree
  BY DEF ImportWrite, OnFiles, Running
<1>2. /\ view[s].writes \in Seq(Path) /\ view[s].writes # <<>>
      /\ Fresh(tree, since[s], view[s].writes)
  BY <1>1, ViewOk DEF TypeInv, SlotOk, IsView, ReplaceInv, HandlerOk
<1>3. p \in Path /\ (Has(tree, p) => p \in since[s] \/ p.kind = "revocation" \/ Alongside(p))
  <2> DEFINE q == view[s].writes
  <2>1. q \in Seq(Path) /\ q # <<>> /\ Fresh(tree, since[s], q)
    BY <1>2
  <2> HIDE DEF q
  <2>2. 1 \in 1 .. Len(q) /\ Head(q) = q[1] /\ q[1] \in Path
    BY <2>1
  <2>3. Has(tree, q[1]) => q[1] \in since[s] \/ q[1].kind = "revocation" \/ Alongside(q[1])
    BY <2>1, <2>2 DEF Fresh
  <2> QED BY <2>2, <2>3 DEF q
<1>4. CASE tree' = u
  <2>1. AddsOne(tree, u, p)
    BY <1>3, TreeOk, ViewOk, RestoredFacts
  <2> HIDE DEF p, u
  <2>2. ASSUME NEW q \in Replaced PROVE q = p /\ p.kind # "revocation" /\ Has(tree, p)
    BY <1>4, <2>1 DEF AddsOne, Replaced, Changed, Has
  <2> QED BY <1>1, <1>3, <2>2 DEF Spared, Alongside
<1> QED BY <1>1, <1>4, NothingReplaced

LEMMA SparedByImportRows ==
  ASSUME TypeInv, NEW scenario, ReplaceInv(scenario), NEW s \in Slots, ImportRows(s)
  PROVE  Spared(s)
<1> DEFINE a == view[s].copy
<1>1. request[s].kind = "import" /\ tree' = Imported(tree, a)
  BY DEF ImportRows, InRows, Running
<1>2. Spares(tree, a, tree')
  BY <1>1, TreeOk, ViewOk, HandlerKeeps, ImportSpares
<1>3. \A p \in Replaced : Alongside(p)
  BY <1>2 DEF Spares, Replaced, Changed, Has
<1> QED BY <1>1, <1>3 DEF Spared, Alongside

\* Requests of other kinds.
LEMMA SparedByOthers ==
  ASSUME NEW s \in Slots, request[s].kind \notin {"put", "post", "import"}
  PROVE  Spared(s)
BY DEF Spared

\* Every step is one of a slot that spares what it must, or stores nothing.
LEMMA NextSpares ==
  ASSUME TypeInv, NEW scenario \in Scenarios, ReplaceInv(scenario), [Next]_vars
  PROVE  \/ tree' = tree
         \/ \E s \in Slots : Spared(s) /\ (Answer(s) \/ \E p, v : Step(s, p, v))
<1>0. IsScenario(scenario)
  BY ConstantsAssumption
<1> DEFINE Goal == \/ tree' = tree
                   \/ \E s \in Slots : Spared(s) /\ (Answer(s) \/ \E p, v : Step(s, p, v))
<1>1. CASE UNCHANGED vars \/ Expire \/ Crash
  BY <1>1 DEF vars, Expire, Crash
<1>2. ASSUME NEW s \in Slots,
             \/ Begin(s) \/ QuotaRefuses(s) \/ Respond(s) \/ PostCheck(s) \/ PutPrior(s)
             \/ WriteCheck(s) \/ ImportStart(s) \/ ImportLook(s)
      PROVE  tree' = tree
  BY <1>2 DEF Begin, QuotaRefuses, Respond, PostCheck, PutPrior, WriteCheck, ImportStart, ImportLook
<1>3. ASSUME NEW s \in Slots, PutPersist(s) \/ PutRow(s)
      PROVE  Goal
  <2>1. Spared(s) /\ Answer(s)
    BY <1>0, <1>3, SparedByPutPersist, SparedByPutRow DEF PutPersist, PutRow
  <2> QED BY <2>1
<1>4. ASSUME NEW s \in Slots, ImportRows(s)
      PROVE  Goal
  <2>1. Spared(s) /\ Step(s, "imported", view[s])
    BY <1>4, SparedByImportRows DEF ImportRows
  <2> QED BY <2>1
<1>5. ASSUME NEW s \in Slots, ImportWrite(s)
      PROVE  Goal
  <2>1. Spared(s) /\ (Answer(s) \/ \E p, v : Step(s, p, v))
    <3>1. Answer(s) \/ \E v : Goes(s, v)
      BY <1>5 DEF ImportWrite
    <3>2. Answer(s) \/ \E p, v : Step(s, p, v)
      BY <3>1 DEF Goes
    <3> QED BY <1>5, <3>2, SparedByImportWrite
  <2> QED BY <2>1
<1>6. ASSUME NEW s \in Slots,
             \/ DropSome(s) \/ DropAll(s) \/ WriteContent(s) \/ WritePrune(s) \/ WriteSidecar(s)
             \/ WriteRow(s) \/ RemoveContent(s) \/ RemoveChunks(s) \/ RemoveSidecar(s)
             \/ RemoveRow(s) \/ WriteChunk(s) \/ SetPolicy(s)
      PROVE  Goal
  <2>1. request[s].kind \in {"drop", "write", "remove", "chunk", "policy"}
    BY <1>6 DEF DropSome, DropAll, WriteContent, WritePrune, WriteSidecar, WriteRow, RemoveContent,
                RemoveChunks, RemoveSidecar, RemoveRow, WriteChunk, SetPolicy, OnFiles, InRows, Running
  <2>2. Answer(s) \/ \E p, v : Step(s, p, v)
    BY <1>6 DEF DropSome, DropAll, WriteContent, WritePrune, WriteSidecar, WriteRow, RemoveContent,
                RemoveChunks, RemoveSidecar, RemoveRow, WriteChunk, SetPolicy
  <2> QED BY <2>1, <2>2, SparedByOthers
<1>7. ASSUME NEW s \in Slots,
             \/ CreateSpace(s) \/ RemoveRevocations(s) \/ RemoveSome(s) \/ RemoveAll(s)
             \/ DeleteRows(s) \/ Revoke(s) \/ Generate(s)
      PROVE  Goal
  <2>1. request[s].kind \in {"create", "delete", "revoke", "generate"}
    BY <1>7 DEF CreateSpace, RemoveRevocations, RemoveSome, RemoveAll, DeleteRows, Revoke, Generate,
                OnFiles, InRows, Running
  <2>2. Answer(s) \/ \E p, v : Step(s, p, v)
    BY <1>7 DEF CreateSpace, RemoveRevocations, RemoveSome, RemoveAll, DeleteRows, Revoke, Generate
  <2> QED BY <2>1, <2>2, SparedByOthers
<1>8. ASSUME NEW s \in Slots,
             \/ ListPage(s) \/ QueryRows(s) \/ QueryList(s) \/ QueryRead(s) \/ QueryPage(s)
             \/ ExportLook(s) \/ ExportSpaceDir(s) \/ ExportDir(s) \/ ExportRevocations(s)
             \/ ExportRow(s) \/ ExportQuery(s) \/ ExportRead(s) \/ ExportDone(s)
      PROVE  tree' = tree
  BY <1>8 DEF ListPage, QueryRows, QueryList, QueryRead, QueryPage, ExportLook, ExportSpaceDir,
              ExportDir, ExportRevocations, ExportRow, ExportQuery, ExportRead, ExportDone
<1> QED BY <1>1, <1>2, <1>3, <1>4, <1>5, <1>6, <1>7, <1>8 DEF Next

\* POST of a Collection and an import replace a file only if another request wrote it since
\* they looked whether it was there - what comes with what an import creates excepted; a
\* conditional PUT replaces exactly the Description its If-Match named, unless the Collection
\* was deleted or restored meanwhile (createCollection, writeCollection, importSpace): under
\* any number of requests, on either backend.
THEOREM ReplacesOnlyWhatWasSeen == Spec => ReplacesOnlyWhatItSaw
<1> DEFINE Inv == TypeInv /\ \E scenario \in Scenarios : ReplaceInv(scenario)
<1>1. Init => Inv
  BY TypeInit, ReplaceInit
<1>2. Inv /\ [Next]_vars => Inv'
  <2> SUFFICES ASSUME TypeInv, NEW scenario \in Scenarios, ReplaceInv(scenario), [Next]_vars
               PROVE  Inv'
    OBVIOUS
  <2> QED BY TypeNext, ReplaceNext
<1>3. Inv /\ [Next]_vars =>
        [\A s \in Slots :
           request[s] # None /\ Acts(s) /\ (\A t \in Slots \ {s} : ~Acts(t)) =>
             /\ request[s].kind \in {"post", "import"} =>
                  \A p \in Replaced :
                    p \in since[s] \/ p.kind = "meta" \/ (p.kind = "policy" /\ p.c # 0)
             /\ request[s].kind = "put" /\ request[s].match # None =>
                  \A p \in Replaced : tree.files[p] = request[s].match \/ p.c \in remade]_vars
  <2> SUFFICES ASSUME TypeInv, NEW scenario \in Scenarios, ReplaceInv(scenario), [Next]_vars,
                      NEW s \in Slots, Acts(s)
               PROVE  Spared(s)
    BY DEF Spared
  <2>1. CASE tree' = tree
    BY <2>1, NothingReplaced
  <2>2. CASE \E t \in Slots : Spared(t) /\ (Answer(t) \/ \E p, v : Step(t, p, v))
    <3>1. PICK t \in Slots : Spared(t) /\ (Answer(t) \/ \E p, v : Step(t, p, v))
      BY <2>2
    <3>2. s = t
      BY <3>1, OneActs
    <3> QED BY <3>1, <3>2
  <2> QED BY <2>1, <2>2, NextSpares
<1> QED BY <1>1, <1>2, <1>3, PTL DEF Spec, ReplacesOnlyWhatItSaw


----------------------------------------------------------------------------
(* What is stored in a Collection is in its directory.                      *)

LEMMA PutHoused ==
  ASSUME NEW t, Housed(t), NEW p, p.kind = "key" => p.c = 0, NEW v
  PROVE  Housed(Put(t, p, v))
<1> DEFINE dirs == IF p.kind = "key" THEN {} ELSE IF backend = "postgres" THEN {0, p.c} ELSE Makes(p)
           u == Put(t, p, v)
<1>1. p.c # 0 => p.c \in dirs
  BY DEF Makes
<1> HIDE DEF dirs
<1>2. u.dirs = t.dirs \cup dirs /\ DOMAIN u.files = DOMAIN t.files \cup {p}
  BY DEF Put, With, Over, dirs
<1> HIDE DEF u
<1>3. Housed(u)
  BY <1>1, <1>2 DEF Housed
<1> QED BY <1>3 DEF u

LEMMA WithoutHoused ==
  ASSUME NEW t, IsTree(t), Housed(t), NEW S
  PROVE  Housed(Without(t, S))
BY WithoutFacts DEF Housed

\* A directory goes with all that is in it.
LEMMA DirsHoused ==
  ASSUME NEW t, IsTree(t), Housed(t), NEW S, NEW D, D \subseteq 0 .. MaxId,
         \A p \in DOMAIN t.files \ S : p.c = 0 \/ p.c \in D
  PROVE  Housed([Without(t, S) EXCEPT !.dirs = D])
<1> DEFINE u == Without(t, S)
<1>1. IsTree(u) /\ DOMAIN u.files = DOMAIN t.files \ S
  BY WithoutFacts
<1> HIDE DEF u
<1> DEFINE w == [u EXCEPT !.dirs = D]
<1>2. w.dirs = D /\ w.files = u.files
  BY <1>1, DirsExcept
<1> HIDE DEF w
<1>3. Housed(w)
  BY <1>1, <1>2 DEF Housed
<1> QED BY <1>3 DEF u, w

LEMMA RevokedHoused ==
  ASSUME NEW t, Housed(t), NEW p, p.kind = "revocation", NEW v
  PROVE  Housed(Revoked(t, p, v))
BY PutHoused DEF Revoked

LEMMA RestoredHoused ==
  ASSUME NEW t, Housed(t), NEW a, NEW p \in Path
  PROVE  Housed(Restored(t, a, p))
<1>1. p.kind = "key" => p.c = 0
  BY DEF Path
<1> QED BY <1>1, PutHoused, RevokedHoused DEF Restored

LEMMA InsertedHoused ==
  ASSUME NEW t, Housed(t), NEW a, NEW op \in Path
  PROVE  Housed(Inserted(t, a, op))
<1> DEFINE new == Range(Writes(t, a, op))
           u == Inserted(t, a, op)
<1>1. CASE op.kind = "revocation"
  BY <1>1, RestoredHoused DEF Inserted
<1>2. CASE op.kind # "revocation"
  <2>1. /\ u.dirs = t.dirs \cup UNION {{0, p.c} : p \in new}
        /\ DOMAIN u.files = new \cup DOMAIN t.files
    BY <1>2 DEF Inserted, Over
  <2> HIDE DEF u, new
  <2>2. \A p \in new : p.c \in UNION {{0, q.c} : q \in new}
    OBVIOUS
  <2>3. Housed(u)
    BY <2>1, <2>2 DEF Housed
  <2> QED BY <2>3 DEF u
<1> QED BY <1>1, <1>2

LEMMA ImportedHoused ==
  ASSUME NEW t, IsTree(t), Housed(t), NEW a, IsTree(a)
  PROVE  Housed(Imported(t, a))
<1> DEFINE T == {u \in TreeSet : Housed(u)}
<1>1. Plan(a) \in Seq(Path)
  BY PlanOk
<1>2. [t EXCEPT !.dirs = t.dirs \cup {0}] \in T
  <2> DEFINE D == t.dirs \cup {0}
             u == [t EXCEPT !.dirs = D]
  <2>1. D \subseteq 0 .. MaxId
    BY PartsOfTree, ZeroId
  <2>2. t.dirs \subseteq D
    OBVIOUS
  <2> HIDE DEF D
  <2>3. IsTree(u) /\ u.dirs = D /\ u.files = t.files
    BY <2>1, DirsExcept
  <2> HIDE DEF u
  <2>4. u \in TreeSet /\ Housed(u)
    BY <2>2, <2>3, TreesAreOfTreeSet DEF Housed
  <2> QED BY <2>4 DEF u, D
<1>3. ASSUME NEW u \in T, NEW i \in 1 .. Len(Plan(a))
      PROVE  Inserted(u, a, Plan(a)[i]) \in T
  <2>1. Plan(a)[i] \in Path
    BY <1>1
  <2>2. IsTree(u) /\ Housed(u)
    BY TreesAreOfTreeSet
  <2>3. IsTree(Inserted(u, a, Plan(a)[i])) /\ Housed(Inserted(u, a, Plan(a)[i]))
    BY <2>1, <2>2, InsertedFacts, InsertedHoused
  <2> QED BY <2>3, TreesAreOfTreeSet
<1> HIDE DEF T
<1>4. Imported(t, a) \in T
  BY <1>1, <1>2, <1>3, ImportKeeps
<1> QED BY <1>4 DEF T

LEMMA HousedByWrites ==
  ASSUME TypeInv, Housed(tree), NEW s \in Slots,
         \/ PutPersist(s) \/ PutRow(s) \/ WriteContent(s) \/ WriteSidecar(s) \/ WriteRow(s)
         \/ RemoveSidecar(s) \/ RemoveRow(s) \/ WriteChunk(s) \/ SetPolicy(s) \/ CreateSpace(s)
         \/ Revoke(s) \/ Generate(s)
  PROVE  Housed(tree')
<1>1. ASSUME NEW p, NEW v, p.kind = "key" => p.c = 0, tree' \in {Put(tree, p, v), tree}
      PROVE  Housed(tree')
  BY <1>1, PutHoused
<1>2. ASSUME NEW S, NEW p, NEW v, NEW q, NEW w, p.kind # "key", q.kind # "key",
             tree' \in {Without(tree, S), tree, Put(Without(tree, S), p, v),
                        Put(Put(Without(tree, S), p, v), q, w)}
      PROVE  Housed(tree')
  <2>1. Housed(Without(tree, S))
    BY TreeOk, WithoutHoused
  <2>2. Housed(Put(Without(tree, S), p, v))
    BY <2>1, <1>2, PutHoused
  <2>3. Housed(Put(Put(Without(tree, S), p, v), q, w))
    BY <2>2, <1>2, PutHoused
  <2> QED BY <1>2, <2>1, <2>2, <2>3
<1>3. CASE PutPersist(s) \/ PutRow(s)
  <2>1. DescriptionFile(request[s].c).kind # "key"
    BY DEF DescriptionFile, At
  <2>2. \E v : tree' \in {Put(tree, DescriptionFile(request[s].c), v), tree}
    BY <1>3 DEF PutPersist, PutRow
  <2> QED BY <1>1, <2>1, <2>2
<1>4. CASE WriteContent(s)
  <2>1. At(request[s].type, request[s].c, request[s].r).kind # "key"
    <3>1. request[s].type \in Types
      BY <1>4, RequestParts DEF WriteContent, OnFiles, Running
    <3> QED BY <3>1 DEF At, Types
  <2>2. tree' \in {Put(tree, At(request[s].type, request[s].c, request[s].r), Data(request[s].body)), tree}
    BY <1>4 DEF WriteContent
  <2> QED BY <1>1, <2>1, <2>2
<1>5. CASE WriteSidecar(s) \/ RemoveSidecar(s)
  <2>1. Sidecar(request[s].c, request[s].r).kind # "key"
    BY DEF Sidecar, At
  <2>2. \E v : tree' \in {Put(tree, Sidecar(request[s].c, request[s].r), v), tree}
    BY <1>5 DEF WriteSidecar, RemoveSidecar
  <2> QED BY <1>1, <2>1, <2>2
<1>6. CASE WriteRow(s)
  <2>1. /\ At(request[s].type, request[s].c, request[s].r).kind # "key"
        /\ Sidecar(request[s].c, request[s].r).kind # "key"
    <3>1. request[s].type \in Types
      BY <1>6, RequestParts DEF WriteRow, InRows, Running
    <3> QED BY <3>1 DEF Sidecar, At, Types
  <2>2. \E S, w : tree' = Put(Put(Without(tree, S), At(request[s].type, request[s].c, request[s].r),
                                   Data(request[s].body)),
                              Sidecar(request[s].c, request[s].r), w)
    BY <1>6 DEF WriteRow
  <2> QED BY <1>2, <2>1, <2>2
<1>7. CASE RemoveRow(s)
  <2>1. Sidecar(request[s].c, request[s].r).kind # "key"
    BY DEF Sidecar, At
  <2>2. \E S, v : tree' \in {Put(Without(tree, S), Sidecar(request[s].c, request[s].r), v), tree}
    BY <1>7 DEF RemoveRow
  <2> QED BY <1>2, <2>1, <2>2
<1>8. CASE WriteChunk(s)
  <2>1. ChunkFile(request[s].c, request[s].r).kind # "key"
    BY DEF ChunkFile, At
  <2>2. \E v : tree' \in {Put(tree, ChunkFile(request[s].c, request[s].r), v), tree}
    BY <1>8 DEF WriteChunk
  <2> QED BY <1>1, <2>1, <2>2
<1>9. CASE SetPolicy(s)
  <2> DEFINE p == PolicyFile(request[s].c, request[s].r)
  <2>1. p.kind # "key"
    BY DEF PolicyFile, At
  <2>2. tree' \in {Without(tree, {p}), Put(tree, p, Data(request[s].body)), tree}
    BY <1>9 DEF SetPolicy
  <2> HIDE DEF p
  <2>3. Housed(Without(tree, {p}))
    BY TreeOk, WithoutHoused
  <2> QED BY <1>1, <2>1, <2>2, <2>3
<1>10. CASE CreateSpace(s)
  <2>1. SpaceFile.kind # "key"
    BY DEF SpaceFile, At
  <2> QED BY <1>1, <1>10, <2>1 DEF CreateSpace
<1>11. CASE Revoke(s)
  <2>1. Housed(Pruned(tree))
    BY TreeOk, WithoutHoused DEF Pruned
  <2>2. At("revocation", 0, request[s].r).kind = "revocation"
    BY DEF At
  <2> QED BY <1>11, <2>1, <2>2, RevokedHoused DEF Revoke
<1>12. CASE Generate(s)
  <2>1. At("key", 0, request[s].r).c = 0
    BY DEF At
  <2> QED BY <1>1, <1>12, <2>1 DEF Generate
<1> QED BY <1>3, <1>4, <1>5, <1>6, <1>7, <1>8, <1>9, <1>10, <1>11, <1>12

LEMMA HousedByRemovals ==
  ASSUME TypeInv, Housed(tree), NEW s \in Slots,
         \/ DropSome(s) \/ DropAll(s) \/ WritePrune(s) \/ RemoveContent(s) \/ RemoveChunks(s)
         \/ RemoveRevocations(s) \/ RemoveSome(s) \/ RemoveAll(s) \/ DeleteRows(s)
  PROVE  Housed(tree')
<1>1. CASE \/ DropSome(s) \/ WritePrune(s) \/ RemoveContent(s) \/ RemoveChunks(s)
           \/ RemoveRevocations(s) \/ RemoveSome(s)
  <2>1. \E S : tree' = Without(tree, S)
    BY <1>1 DEF DropSome, WritePrune, RemoveContent, RemoveChunks, RemoveRevocations, RemoveSome
  <2> QED BY <2>1, TreeOk, WithoutHoused
<1>2. CASE DropAll(s)
  <2> DEFINE c == request[s].c
             u == Without(tree, InCollection(tree, c))
             D == tree.dirs \ {c}
  <2>1. tree' = [u EXCEPT !.dirs = u.dirs \ {c}] /\ u.dirs = tree.dirs
    BY <1>2, TreeOk, WithoutFacts DEF DropAll
  <2>2. \A p \in DOMAIN tree.files \ InCollection(tree, c) : p.c = 0 \/ p.c \in D
    BY TreeOk DEF InCollection, OfSpace, Housed, Path
  <2>3. D \subseteq 0 .. MaxId
    BY TreeOk
  <2> HIDE DEF D, c
  <2>4. Housed([u EXCEPT !.dirs = D])
    BY <2>2, <2>3, TreeOk, DirsHoused
  <2> QED BY <2>1, <2>4 DEF D
<1>3. CASE RemoveAll(s) \/ DeleteRows(s)
  <2>1. PICK S \in {InSpaceDir(tree), OfSpace(tree)} : tree' = [Without(tree, S) EXCEPT !.dirs = {}]
    BY <1>3 DEF RemoveAll, DeleteRows
  <2>2. \A p \in DOMAIN tree.files \ S : p.c = 0
    BY TreeOk DEF InSpaceDir, OfSpace, Path
  <2> QED BY <2>1, <2>2, TreeOk, DirsHoused
<1> QED BY <1>1, <1>2, <1>3

LEMMA HousedNext ==
  ASSUME TypeInv, Housed(tree), [Next]_vars
  PROVE  Housed(tree')
<1>1. CASE UNCHANGED vars \/ Expire \/ Crash
  BY <1>1 DEF vars, Expire, Crash
<1>2. ASSUME NEW s \in Slots,
             \/ Begin(s) \/ QuotaRefuses(s) \/ Respond(s) \/ PostCheck(s) \/ PutPrior(s)
             \/ WriteCheck(s) \/ ImportStart(s) \/ ImportLook(s)
             \/ ListPage(s) \/ QueryRows(s) \/ QueryList(s) \/ QueryRead(s) \/ QueryPage(s)
             \/ ExportLook(s) \/ ExportSpaceDir(s) \/ ExportDir(s) \/ ExportRevocations(s)
             \/ ExportRow(s) \/ ExportQuery(s) \/ ExportRead(s) \/ ExportDone(s)
      PROVE  Housed(tree')
  <2>1. tree' = tree
    BY <1>2 DEF Begin, QuotaRefuses, Respond, PostCheck, PutPrior, WriteCheck, ImportStart, ImportLook,
                ListPage, QueryRows, QueryList, QueryRead, QueryPage, ExportLook, ExportSpaceDir,
                ExportDir, ExportRevocations, ExportRow, ExportQuery, ExportRead, ExportDone
  <2> QED BY <2>1
<1>3. ASSUME NEW s \in Slots,
             \/ PutPersist(s) \/ PutRow(s) \/ WriteContent(s) \/ WriteSidecar(s) \/ WriteRow(s)
             \/ RemoveSidecar(s) \/ RemoveRow(s) \/ WriteChunk(s) \/ SetPolicy(s) \/ CreateSpace(s)
             \/ Revoke(s) \/ Generate(s)
      PROVE  Housed(tree')
  BY <1>3, HousedByWrites
<1>4. ASSUME NEW s \in Slots,
             \/ DropSome(s) \/ DropAll(s) \/ WritePrune(s) \/ RemoveContent(s) \/ RemoveChunks(s)
             \/ RemoveRevocations(s) \/ RemoveSome(s) \/ RemoveAll(s) \/ DeleteRows(s)
      PROVE  Housed(tree')
  BY <1>4, HousedByRemovals
<1>5. ASSUME NEW s \in Slots, ImportWrite(s)
      PROVE  Housed(tree')
  <2>1. view[s].writes \in Seq(Path) /\ view[s].writes # <<>>
    BY <1>5, ViewOk DEF ImportWrite, OnFiles, Running, TypeInv, SlotOk, IsView
  <2>2. Head(view[s].writes) \in Path
    BY <2>1
  <2>3. tree' \in {Restored(tree, view[s].copy, Head(view[s].writes)), tree}
    BY <1>5 DEF ImportWrite
  <2> QED BY <2>2, <2>3, RestoredHoused
<1>6. ASSUME NEW s \in Slots, ImportRows(s)
      PROVE  Housed(tree')
  BY <1>6, TreeOk, ViewOk, ImportedHoused DEF ImportRows
<1> QED BY <1>1, <1>2, <1>3, <1>4, <1>5, <1>6 DEF Next

----------------------------------------------------------------------------
(* What a reader's history says of what is stored.                          *)

IsHistory(h) == h = [always |-> h.always, ever |-> h.ever, before |-> h.before, quiet |-> h.quiet]

\* What was always there is there, and what is there was there at some time.
Saw(h, t) == h.always \subseteq Facts(t) /\ Facts(t) \subseteq h.ever
HistoryOk(s) ==
  IsHistory(seen[s]) /\ (request[s] # None /\ Reads(request[s]) => Saw(seen[s], tree))

\* The history h goes on as g.
GoesOn(h, g) == g.always \subseteq h.always /\ h.ever \subseteq g.ever

LEMMA HistoryByWitness ==
  ASSUME \A t \in Slots : HistoryOk(t), NEW s \in Slots, NEW looked, Witness(s, looked),
         NEW t \in Slots, request[t] # None => request'[t] \in {None, request[t]}
  PROVE  /\ HistoryOk(t)'
         /\ request[t] # None /\ request'[t] # None => GoesOn(seen[t], seen'[t])
<1>1. CASE request'[t] = None
  <2>1. seen'[t] = Unseen
    BY <1>1 DEF Witness
  <2> QED BY <1>1, <2>1 DEF HistoryOk, IsHistory, Unseen
<1>2. CASE request'[t] # None
  <2> DEFINE old == IF request[t] # None THEN seen[t]
                    ELSE [Unseen EXCEPT !.always = IF Reads(request'[t]) THEN Facts(tree) ELSE {},
                            !.before = IF request'[t].kind = "import" THEN tree ELSE None]
             facts == IF Reads(request'[t]) THEN Facts(tree') ELSE {}
             quiet == old.quiet /\ (t = s \/ (tree' = tree /\ expired' = expired))
  <2>1. seen'[t] = [old EXCEPT !.always = old.always \cap facts, !.ever = old.ever \cup facts,
                               !.quiet = quiet]
    BY <1>2 DEF Witness
  <2>2. IsHistory(old)
    BY DEF HistoryOk, IsHistory, Unseen
  <2>3. request[t] # None => old = seen[t]
    OBVIOUS
  <2> HIDE DEF old, quiet
  <2>4. IsHistory(seen'[t]) /\ seen'[t].always = old.always \cap facts /\ seen'[t].ever = old.ever \cup facts
    BY <2>1, <2>2 DEF IsHistory
  <2>5. Reads(request'[t]) => facts = Facts(tree')
    OBVIOUS
  <2> HIDE DEF facts
  <2>6. Reads(request'[t]) => Saw(seen'[t], tree')
    BY <2>4, <2>5 DEF Saw
  <2>7. Reads(request[t])' = Reads(request'[t])
    BY DEF Reads
  <2> QED BY <2>3, <2>4, <2>6, <2>7 DEF HistoryOk, GoesOn
<1> QED BY <1>1, <1>2

\* A step of a slot, or the beginning of its request, moves no other request.
LEMMA RequestsStay ==
  ASSUME TypeInv, NEW s \in Slots, NEW t \in Slots,
         Answer(s) \/ Begin(s) \/ \E p, v : Step(s, p, v)
  PROVE  request[t] # None => request'[t] \in {None, request[t]}
<1>1. CASE Answer(s)
  BY <1>1, AnswerMoves
<1>2. CASE Begin(s)
  <2>1. request[s] = None /\ \E r : request' = [request EXCEPT ![s] = r]
    BY <1>2 DEF Begin
  <2>2. request = [x \in Slots |-> request[x]]
    BY DEF TypeInv, Shapes
  <2> QED BY <2>1, <2>2
<1>3. CASE \E p, v : Step(s, p, v)
  BY <1>3 DEF Step
<1> QED BY <1>1, <1>2, <1>3

ExportStep(s) ==
  \/ ExportLook(s) \/ ExportSpaceDir(s) \/ ExportDir(s) \/ ExportRevocations(s)
  \/ ExportRow(s) \/ ExportQuery(s) \/ ExportRead(s) \/ ExportDone(s)

ListStep(s) == ListPage(s) \/ QueryRows(s) \/ QueryList(s) \/ QueryRead(s) \/ QueryPage(s)

\* A step of another request than a reader's, not to a place where those end; only an
\* import goes where one ends.
Elsewhere(s) ==
  /\ request[s] # None /\ ~Reads(request[s])
  /\ \E p, v : /\ p \notin {"exported", "listed"}
               /\ p = "imported" => request[s].kind = "import"
               /\ Step(s, p, v)

Moves(s) ==
  /\ \E looked : Witness(s, looked)
  /\ Answer(s) \/ Begin(s) \/ Elsewhere(s) \/ ExportStep(s) \/ ListStep(s)

LEMMA ReaderSteps ==
  ASSUME NEW s \in Slots
  PROVE  /\ ExportStep(s) =>
              /\ request[s] # None /\ request[s].kind = "export" /\ UNCHANGED <<tree, rest>>
              /\ Answer(s) \/ \E p, v : p \notin {"listed", "imported"} /\ Step(s, p, v)
         /\ ListStep(s) =>
              /\ request[s] # None /\ request[s].kind \in Listings /\ UNCHANGED <<tree, rest>>
              /\ Answer(s) \/ \E p, v : p \notin {"exported", "imported"} /\ Step(s, p, v)
<1>1. ASSUME ExportStep(s)
      PROVE  /\ request[s] # None /\ request[s].kind = "export" /\ UNCHANGED <<tree, rest>>
             /\ Answer(s) \/ \E p, v : p \notin {"listed", "imported"} /\ Step(s, p, v)
  <2>1. request[s] # None /\ request[s].kind = "export" /\ UNCHANGED <<tree, rest>>
    <3>1. CASE ExportLook(s) \/ ExportSpaceDir(s) \/ ExportDir(s)
      BY <3>1 DEF ExportLook, ExportSpaceDir, ExportDir, OnFiles, Running
    <3>2. CASE ExportRevocations(s) \/ ExportRow(s)
      BY <3>2 DEF ExportRevocations, ExportRow, OnFiles, InRows, Running
    <3>3. CASE ExportQuery(s) \/ ExportRead(s) \/ ExportDone(s)
      BY <3>3 DEF ExportQuery, ExportRead, ExportDone, InRows, Running
    <3> QED BY <1>1, <3>1, <3>2, <3>3 DEF ExportStep
  <2>2. CASE ExportQuery(s)
    <3>1. PICK table, v : Step(s, IF view[s].left = {table} THEN "packing" ELSE "querying", v)
      BY <2>2 DEF ExportQuery
    <3> DEFINE p == IF view[s].left = {table} THEN "packing" ELSE "querying"
    <3>2. p \notin {"listed", "imported"} /\ Step(s, p, v)
      BY <3>1
    <3> QED BY <2>1, <3>2
  <2>3. CASE ~ExportQuery(s)
    BY <1>1, <2>1, <2>3 DEF ExportStep, ExportLook, ExportSpaceDir, ExportDir, ExportRevocations,
                ExportRow, ExportRead, ExportDone
  <2> QED BY <2>2, <2>3
<1>2. ASSUME ListStep(s)
      PROVE  /\ request[s] # None /\ request[s].kind \in Listings /\ UNCHANGED <<tree, rest>>
             /\ Answer(s) \/ \E p, v : p \notin {"exported", "imported"} /\ Step(s, p, v)
  <2>1. request[s] # None /\ request[s].kind \in Listings /\ UNCHANGED <<tree, rest>>
    <3>1. CASE ListPage(s) \/ QueryRows(s)
      BY <3>1 DEF ListPage, QueryRows, InRows, Running, Listings
    <3>2. CASE QueryList(s)
      BY <3>2 DEF QueryList, OnFiles, Running, Listings
    <3>3. CASE QueryRead(s) \/ QueryPage(s)
      BY <3>3 DEF QueryRead, QueryPage, OnFiles, Running, Listings
    <3> QED BY <1>2, <3>1, <3>2, <3>3 DEF ListStep
  <2>2. \/ Answer(s)
        \/ \E v : Step(s, "reading", v)
        \/ \E page : Deliver(s, page)
    <3>1. CASE ListPage(s) \/ QueryRows(s)
      BY <3>1 DEF ListPage, QueryRows
    <3>2. CASE QueryList(s)
      BY <3>2 DEF QueryList
    <3>3. CASE QueryRead(s) \/ QueryPage(s)
      BY <3>3 DEF QueryRead, QueryPage
    <3> QED BY <1>2, <3>1, <3>2, <3>3 DEF ListStep
  <2>3. ASSUME NEW page, Deliver(s, page) PROVE \E p, v : p \notin {"exported", "imported"} /\ Step(s, p, v)
    <3> DEFINE p == IF page.more THEN "begin" ELSE "listed"
               w == [NoView EXCEPT !.got = view[s].got \o page.page,
                                   !.cursor = IF page.more THEN page.page[Len(page.page)] ELSE None]
    <3>1. Step(s, p, w) /\ p \notin {"exported", "imported"}
      BY <2>3 DEF Deliver
    <3> HIDE DEF p, w
    <3> QED BY <3>1
  <2> QED BY <2>1, <2>2, <2>3
<1> QED BY <1>1, <1>2

LEMMA GoesElsewhere ==
  ASSUME NEW s \in Slots, request[s] # None, request[s].kind = "import", \E v : Goes(s, v)
  PROVE  Elsewhere(s)
<1>1. PICK v : Goes(s, v)
  OBVIOUS
<1> DEFINE p == IF v.ops = <<>> /\ v.writes = <<>> THEN "imported"
                ELSE IF v.writes = <<>> THEN "restoring" ELSE "writing"
<1>2. Step(s, p, v) /\ p \notin {"exported", "listed"}
  BY <1>1 DEF Goes
<1>3. ~Reads(request[s])
  BY DEF Reads, Listings
<1> HIDE DEF p
<1> QED BY <1>2, <1>3 DEF Elsewhere

\* A step of one request.
Handles(s) ==
  \/ Begin(s) \/ QuotaRefuses(s) \/ Respond(s)
  \/ PostCheck(s) \/ PutPrior(s) \/ PutPersist(s) \/ PutRow(s) \/ DropSome(s) \/ DropAll(s)
  \/ WriteCheck(s) \/ WriteContent(s) \/ WritePrune(s) \/ WriteSidecar(s) \/ WriteRow(s)
  \/ RemoveContent(s) \/ RemoveChunks(s) \/ RemoveSidecar(s) \/ RemoveRow(s)
  \/ WriteChunk(s) \/ SetPolicy(s)
  \/ CreateSpace(s) \/ RemoveRevocations(s) \/ RemoveSome(s) \/ RemoveAll(s) \/ DeleteRows(s)
  \/ Revoke(s) \/ Generate(s)
  \/ ListStep(s) \/ ExportStep(s)
  \/ ImportStart(s) \/ ImportLook(s) \/ ImportWrite(s) \/ ImportRows(s)

LEMMA NextHandles ==
  ASSUME [Next]_vars
  PROVE  UNCHANGED vars \/ Expire \/ Crash \/ \E s \in Slots : Handles(s)
BY DEF Next, Handles, ExportStep, ListStep

LEMMA HandlesMoves ==
  ASSUME NEW s \in Slots, Handles(s)
  PROVE  Moves(s)
<1>1. ASSUME Begin(s) \/ QuotaRefuses(s) \/ Respond(s)
      PROVE  Moves(s)
  BY <1>1 DEF Begin, QuotaRefuses, Respond, Moves
<1>2. ASSUME PostCheck(s) \/ PutPrior(s) \/ PutPersist(s) \/ PutRow(s) \/ DropSome(s) \/ DropAll(s)
      PROVE  Moves(s)
  <2>1. \E looked : Witness(s, looked)
    BY <1>2 DEF PostCheck, PutPrior, PutPersist, PutRow, DropSome, DropAll
  <2>2. Answer(s) \/ Elsewhere(s)
    BY <1>2 DEF PostCheck, PutPrior, PutPersist, PutRow, DropSome, DropAll, OnFiles, InRows, Running,
                Elsewhere, Reads, Listings
  <2> QED BY <2>1, <2>2 DEF Moves
<1>3. ASSUME WriteCheck(s) \/ WriteContent(s) \/ WritePrune(s) \/ WriteSidecar(s) \/ WriteRow(s)
      PROVE  Moves(s)
  <2>1. \E looked : Witness(s, looked)
    BY <1>3 DEF WriteCheck, WriteContent, WritePrune, WriteSidecar, WriteRow
  <2>2. Answer(s) \/ Elsewhere(s)
    BY <1>3 DEF WriteCheck, WriteContent, WritePrune, WriteSidecar, WriteRow, OnFiles, InRows, Running,
                Elsewhere, Reads, Listings
  <2> QED BY <2>1, <2>2 DEF Moves
<1>4. ASSUME \/ RemoveContent(s) \/ RemoveChunks(s) \/ RemoveSidecar(s) \/ RemoveRow(s)
             \/ WriteChunk(s) \/ SetPolicy(s)
      PROVE  Moves(s)
  <2>1. \E looked : Witness(s, looked)
    BY <1>4 DEF RemoveContent, RemoveChunks, RemoveSidecar, RemoveRow, WriteChunk, SetPolicy
  <2>2. Answer(s) \/ Elsewhere(s)
    BY <1>4 DEF RemoveContent, RemoveChunks, RemoveSidecar, RemoveRow, WriteChunk, SetPolicy, OnFiles,
                InRows, Running, Elsewhere, Reads, Listings
  <2> QED BY <2>1, <2>2 DEF Moves
<1>5. ASSUME \/ CreateSpace(s) \/ RemoveRevocations(s) \/ RemoveSome(s) \/ RemoveAll(s)
             \/ DeleteRows(s) \/ Revoke(s) \/ Generate(s)
      PROVE  Moves(s)
  <2>1. \E looked : Witness(s, looked)
    BY <1>5 DEF CreateSpace, RemoveRevocations, RemoveSome, RemoveAll, DeleteRows, Revoke, Generate
  <2>2. Answer(s) \/ Elsewhere(s)
    BY <1>5 DEF CreateSpace, RemoveRevocations, RemoveSome, RemoveAll, DeleteRows, Revoke, Generate,
                OnFiles, InRows, Running, Elsewhere, Reads, Listings
  <2> QED BY <2>1, <2>2 DEF Moves
<1>6. ASSUME ListStep(s)
      PROVE  Moves(s)
  <2>1. \E looked : Witness(s, looked)
    <3>1. CASE ListPage(s) \/ QueryRows(s)
      BY <3>1 DEF ListPage, QueryRows
    <3>2. CASE QueryList(s) \/ QueryRead(s) \/ QueryPage(s)
      BY <3>2 DEF QueryList, QueryRead, QueryPage
    <3> QED BY <1>6, <3>1, <3>2 DEF ListStep
  <2> QED BY <1>6, <2>1 DEF Moves
<1>7. ASSUME ExportStep(s)
      PROVE  Moves(s)
  <2>1. \E looked : Witness(s, looked)
    <3>1. CASE ExportLook(s) \/ ExportSpaceDir(s) \/ ExportDir(s) \/ ExportRevocations(s)
      BY <3>1 DEF ExportLook, ExportSpaceDir, ExportDir, ExportRevocations
    <3>2. CASE ExportRow(s) \/ ExportQuery(s) \/ ExportRead(s) \/ ExportDone(s)
      BY <3>2 DEF ExportRow, ExportQuery, ExportRead, ExportDone
    <3> QED BY <1>7, <3>1, <3>2 DEF ExportStep
  <2> QED BY <1>7, <2>1 DEF Moves
<1>8. ASSUME ImportStart(s) \/ ImportRows(s)
      PROVE  Moves(s)
  <2>1. \E looked : Witness(s, looked)
    BY <1>8 DEF ImportStart, ImportRows
  <2>2. Elsewhere(s)
    BY <1>8 DEF ImportStart, ImportRows, OnFiles, InRows, Running, Elsewhere, Reads, Listings
  <2> QED BY <2>1, <2>2 DEF Moves
<1>9. ASSUME ImportLook(s) \/ ImportWrite(s)
      PROVE  Moves(s)
  <2>1. \E looked : Witness(s, looked)
    BY <1>9 DEF ImportLook, ImportWrite
  <2>2. request[s] # None /\ request[s].kind = "import"
    BY <1>9 DEF ImportLook, ImportWrite, OnFiles, Running
  <2>3. Answer(s) \/ \E v : Goes(s, v)
    BY <1>9 DEF ImportLook, ImportWrite
  <2> QED BY <2>1, <2>2, <2>3, GoesElsewhere DEF Moves
<1> QED BY <1>1, <1>2, <1>3, <1>4, <1>5, <1>6, <1>7, <1>8, <1>9 DEF Handles

LEMMA NextMoves ==
  ASSUME [Next]_vars
  PROVE  UNCHANGED vars \/ Expire \/ Crash \/ \E s \in Slots : Moves(s)
BY NextHandles, HandlesMoves

LEMMA HistoryNext ==
  ASSUME TypeInv, \A t \in Slots : HistoryOk(t), [Next]_vars, NEW t \in Slots
  PROVE  /\ HistoryOk(t)'
         /\ request[t] # None /\ request'[t] # None => GoesOn(seen[t], seen'[t])
<1>1. CASE UNCHANGED vars
  BY <1>1 DEF vars, flight, HistoryOk, IsHistory, Saw, Facts, Reads, GoesOn
<1>2. CASE Expire
  <2>1. /\ UNCHANGED <<tree, request>>
        /\ seen'[t] = [seen[t] EXCEPT !.quiet = seen[t].quiet /\ request[t] = None]
    BY <1>2 DEF Expire, flight
  <2>2. seen'[t].always = seen[t].always /\ seen'[t].ever = seen[t].ever /\ IsHistory(seen'[t])
    BY <2>1 DEF HistoryOk, IsHistory
  <2>3. IsHistory(seen[t])'
    BY <2>2 DEF IsHistory
  <2> QED BY <2>1, <2>2, <2>3 DEF HistoryOk, Saw, Facts, Reads, GoesOn
<1>3. CASE Crash
  BY <1>3 DEF Crash, HistoryOk, IsHistory, Unseen
<1>4. ASSUME NEW s \in Slots, Moves(s)
      PROVE  /\ HistoryOk(t)'
             /\ request[t] # None /\ request'[t] # None => GoesOn(seen[t], seen'[t])
  <2>1. PICK looked : Witness(s, looked)
    BY <1>4 DEF Moves
  <2>2. Answer(s) \/ Begin(s) \/ \E p, v : Step(s, p, v)
    BY <1>4, ReaderSteps DEF Moves, Elsewhere
  <2>3. request[t] # None => request'[t] \in {None, request[t]}
    BY <2>2, RequestsStay
  <2> QED BY <2>1, <2>3, HistoryByWitness
<1> QED BY <1>1, <1>2, <1>3, <1>4, NextMoves

----------------------------------------------------------------------------
(* What an export holds.                                                    *)

\* The handler at step p, with view v, has still to list x or to read it.
Pending(p, v, x) ==
  \/ x \in v.listed
  \/ p = "walking" /\ (x.c \in v.dirs \/ x.kind = "revocation")
  \/ p = "querying" /\ \E table \in v.left : x.kind \in Inline(table) \cup Later(table)

Holds(copy, f) == f[1] \in DOMAIN copy.files /\ copy.files[f[1]] = f[2]

WasThere(h, x) == \E f \in h.ever : f[1] = x
\* The body d may stand in the archive for x: it was there or, on Postgres, x was and went,
\* and left nothing or a Resource of another type.
MayStand(h, x, d) ==
  \/ \E f \in h.ever : f[1] = x /\ f[2] = d
  \/ backend = "postgres" /\ WasThere(h, x) /\ d = Data(None)
  \/ /\ backend = "postgres" /\ WasThere(h, x) /\ x.kind \in Types
     /\ \E f \in h.ever : f[2] = d /\ \E k \in Types : f[1] = At(k, x.c, x.r)

Descriptions == At("description", 0, 0)

\* Everything that stayed as it was is packed or pending, and nothing is packed or listed
\* that never was.
Exporting(p, v, h) ==
  /\ \A f \in h.always : f[1].kind \in Kinds \ {"key"} => Pending(p, v, f[1]) \/ Holds(v.copy, f)
  /\ p = "querying" => v.left \subseteq Tables
  /\ \/ p = "querying" /\ Descriptions \in v.left
     \/ \A f \in h.always : f[1].kind = "dir" => f[1].c \in v.copy.dirs
  /\ \A c \in v.copy.dirs : \E f \in h.ever : f[1].kind = "dir" /\ f[1].c = c
  /\ \A x \in DOMAIN v.copy.files : MayStand(h, x, v.copy.files[x])
  /\ \A x \in v.listed : WasThere(h, x)
  /\ p = "exported" => v.listed = {}

ExportOk(s) ==
  /\ pc[s] = "exported" => request[s] # None /\ request[s].kind = "export"
  /\ request[s] # None /\ request[s].kind = "export" =>
       /\ pc[s] \in {"begin", "described"} => view[s] = NoView
       /\ pc[s] \in {"walking", "querying", "packing", "exported"} =>
            Exporting(pc[s], view[s], seen[s])

LEMMA FactsOf ==
  ASSUME NEW t, IsTree(t)
  PROVE  /\ \A f \in Facts(t) : f[1].kind \in Kinds =>
              f[1] \in DOMAIN t.files /\ f[1] \in Path /\ f[2] = t.files[f[1]]
         /\ \A f \in Facts(t) : f[1].kind = "dir" => f[1].c \in t.dirs \ {0}
         /\ \A p \in DOMAIN t.files : \E f \in Facts(t) : f[1] = p /\ f[2] = t.files[p]
         /\ \A c \in t.dirs \ {0} : \E f \in Facts(t) : f[1].kind = "dir" /\ f[1].c = c
<1>1. "dir" \notin Kinds /\ "live" \notin Kinds
  BY DEF Kinds, Types
<1>2. DOMAIN t.files \subseteq Path
  BY DEF IsTree
<1>3. \A p \in Path : p.kind \in Kinds
  BY DEF Path
<1>4. ASSUME NEW f \in Facts(t)
      PROVE  \/ f[1] \in DOMAIN t.files /\ f[2] = t.files[f[1]]
             \/ f[1].kind = "dir" /\ f[1].c \in t.dirs \ {0}
             \/ f[1].kind = "live"
  BY <1>4 DEF Facts, At
<1>5. \A p \in DOMAIN t.files : <<p, t.files[p]>> \in Facts(t)
  BY DEF Facts
<1>6. ASSUME NEW c \in t.dirs \ {0}
      PROVE  \E f \in Facts(t) : f[1].kind = "dir" /\ f[1].c = c
  <2>1. <<At("dir", c, 0), None>> \in Facts(t)
    BY DEF Facts
  <2> QED BY <2>1 DEF At
<1>7. \A f \in Facts(t) : f[1].kind \in Kinds =>
        f[1] \in DOMAIN t.files /\ f[1] \in Path /\ f[2] = t.files[f[1]]
  BY <1>1, <1>2, <1>4
<1>8. \A f \in Facts(t) : f[1].kind = "dir" => f[1].c \in t.dirs \ {0}
  <2> SUFFICES ASSUME NEW f \in Facts(t), f[1].kind = "dir" PROVE f[1].c \in t.dirs \ {0}
    OBVIOUS
  <2>1. f[1] \notin DOMAIN t.files
    BY <1>1, <1>2, <1>3
  <2> QED BY <1>4, <2>1
<1>9. \A p \in DOMAIN t.files : \E f \in Facts(t) : f[1] = p /\ f[2] = t.files[p]
  <2> SUFFICES ASSUME NEW p \in DOMAIN t.files
               PROVE  \E f \in Facts(t) : f[1] = p /\ f[2] = t.files[p]
    OBVIOUS
  <2>1. <<p, t.files[p]>>[1] = p /\ <<p, t.files[p]>>[2] = t.files[p]
    OBVIOUS
  <2> QED BY <1>5, <2>1
<1> QED BY <1>6, <1>7, <1>8, <1>9

\* What others do takes nothing from an export.
LEMMA ExportingGoesOn ==
  ASSUME NEW p, NEW v, NEW h, NEW g, Exporting(p, v, h), GoesOn(h, g)
  PROVE  Exporting(p, v, g)
<1>1. \A x : WasThere(h, x) => WasThere(g, x)
  BY DEF GoesOn, WasThere
<1>2. \A x, d : MayStand(h, x, d) => MayStand(g, x, d)
  BY <1>1 DEF GoesOn, MayStand
<1> QED BY <1>1, <1>2 DEF GoesOn, Exporting

LEMMA SpaceDirExports ==
  ASSUME NEW t, IsTree(t), Housed(t), NEW h, Saw(h, t), NEW v,
         v.listed = {p \in InSpaceDir(t) : p.c = 0}, v.dirs = t.dirs \ {0},
         v.copy = [dirs |-> t.dirs \ {0}, files |-> <<>>]
  PROVE  Exporting("walking", v, h)
<1>1. ASSUME NEW f \in h.always, f[1].kind \in Kinds \ {"key"}
      PROVE  Pending("walking", v, f[1])
  <2>1. f[1] \in DOMAIN t.files
    BY <1>1, FactsOf DEF Saw
  <2>2. CASE f[1].c = 0
    BY <1>1, <2>1, <2>2 DEF Pending, InSpaceDir
  <2>3. CASE f[1].c # 0
    BY <2>1, <2>3 DEF Pending, Housed
  <2> QED BY <2>2, <2>3
<1>2. v.copy.dirs = t.dirs \ {0} /\ DOMAIN v.copy.files = {}
  OBVIOUS
<1>3. \A f \in h.always : f[1].kind = "dir" => f[1].c \in v.copy.dirs
  BY <1>2, FactsOf DEF Saw
<1>4. \A c \in v.copy.dirs : \E f \in h.ever : f[1].kind = "dir" /\ f[1].c = c
  BY <1>2, FactsOf DEF Saw
<1>5. \A x \in v.listed : WasThere(h, x)
  BY FactsOf DEF Saw, WasThere, InSpaceDir
<1> QED BY <1>1, <1>2, <1>3, <1>4, <1>5 DEF Exporting

\* More is listed, and another directory or the revocations done.
LEMMA WalkExports ==
  ASSUME NEW t, IsTree(t), NEW h, Saw(h, t), NEW v, NEW w, NEW p,
         Exporting("walking", v, h), p \in {"walking", "packing"},
         NEW more, w.listed = v.listed \cup more, more \subseteq DOMAIN t.files, w.copy = v.copy,
         \A x \in DOMAIN t.files : x.kind # "key" /\ Pending("walking", v, x) => Pending(p, w, x)
  PROVE  Exporting(p, w, h)
<1>1. \A f \in h.always : f[1].kind \in Kinds \ {"key"} => Pending(p, w, f[1]) \/ Holds(w.copy, f)
  <2> SUFFICES ASSUME NEW f \in h.always, f[1].kind \in Kinds \ {"key"}
               PROVE  Pending(p, w, f[1]) \/ Holds(w.copy, f)
    OBVIOUS
  <2>1. f[1] \in DOMAIN t.files
    BY FactsOf DEF Saw
  <2> QED BY <2>1 DEF Exporting
<1>2. \A x \in w.listed : WasThere(h, x)
  BY FactsOf DEF Saw, WasThere, Exporting
<1> QED BY <1>1, <1>2 DEF Exporting

LEMMA TablesCover ==
  ASSUME NEW kind \in Kinds \ {"key", "space"}
  PROVE  \E table \in Tables : kind \in Inline(table) \cup Later(table)
<1>1. ASSUME NEW k \in {"policy", "description", "sidecar", "revocation", "chunk"}
      PROVE  At(k, 0, 0) \in Tables /\ At(k, 0, 0).kind = k
  BY <1>1 DEF Tables, At
<1>2. CASE kind \in {"policy", "revocation"}
  BY <1>1, <1>2 DEF Inline
<1>3. CASE kind \in {"description", "meta"}
  BY <1>1, <1>3 DEF Inline
<1>4. CASE kind \in {"sidecar"} \cup Types
  BY <1>1, <1>4 DEF Inline, Later
<1>5. CASE kind = "chunk"
  BY <1>1, <1>5 DEF Later
<1> QED BY <1>2, <1>3, <1>4, <1>5 DEF Kinds

LEMMA RowExports ==
  ASSUME NEW t, IsTree(t), NEW h, Saw(h, t), NEW v,
         v.left = Tables, v.listed = {}, v.copy.dirs = {},
         Has(t, SpaceFile), DOMAIN v.copy.files = {SpaceFile},
         v.copy.files[SpaceFile] = t.files[SpaceFile]
  PROVE  Exporting("querying", v, h)
<1>1. ASSUME NEW f \in h.always, f[1].kind \in Kinds \ {"key"}
      PROVE  Pending("querying", v, f[1]) \/ Holds(v.copy, f)
  <2>1. f[1] \in DOMAIN t.files /\ f[1] \in Path /\ f[2] = t.files[f[1]]
    BY <1>1, FactsOf DEF Saw
  <2>2. CASE f[1].kind = "space"
    <3>1. f[1] = SpaceFile
      BY <2>1, <2>2 DEF Path, SpaceFile, At
    <3> QED BY <2>1, <3>1 DEF Holds
  <2>3. CASE f[1].kind # "space"
    BY <1>1, <2>3, TablesCover DEF Pending
  <2> QED BY <2>2, <2>3
<1>2. Descriptions \in v.left
  BY DEF Descriptions, Tables
<1>3. \A x \in DOMAIN v.copy.files : MayStand(h, x, v.copy.files[x])
  BY FactsOf DEF Saw, MayStand, Has
<1> QED BY <1>1, <1>2, <1>3 DEF Exporting

\* A table's query has listed later and copied now, and with them dirs.
Queried(t, v, w, table, now, later, dirs) ==
  /\ table \in v.left
  /\ now \cup later \subseteq DOMAIN t.files
  /\ \A x \in DOMAIN t.files : x.kind \in Inline(table) => x \in now
  /\ \A x \in DOMAIN t.files : x.kind \in Later(table) => x \in later
  /\ table.kind = "description" => dirs = t.dirs \ {0}
  /\ table.kind # "description" => \A c \in dirs : c # 0 /\ \E x \in now \cup later : x.c = c
  /\ w.left = v.left \ {table} /\ w.listed = v.listed \cup later
  /\ w.copy.dirs = v.copy.dirs \cup dirs
  /\ DOMAIN w.copy.files = now \cup DOMAIN v.copy.files
  /\ \A x \in now : w.copy.files[x] = t.files[x]
  /\ \A x \in DOMAIN v.copy.files \ now : w.copy.files[x] = v.copy.files[x]

LEMMA QueryExports ==
  ASSUME NEW t, IsTree(t), Housed(t), NEW h, Saw(h, t), NEW v, NEW w, NEW p,
         Exporting("querying", v, h), NEW table, NEW now, NEW later, NEW dirs,
         Queried(t, v, w, table, now, later, dirs),
         p \in {"querying", "packing"}, p = "packing" => v.left = {table}
  PROVE  Exporting(p, w, h)
<1>0. /\ table \in v.left
      /\ now \cup later \subseteq DOMAIN t.files
      /\ \A x \in DOMAIN t.files : x.kind \in Inline(table) => x \in now
      /\ \A x \in DOMAIN t.files : x.kind \in Later(table) => x \in later
      /\ table.kind = "description" => dirs = t.dirs \ {0}
      /\ table.kind # "description" => \A c \in dirs : c # 0 /\ \E x \in now \cup later : x.c = c
      /\ w.left = v.left \ {table} /\ w.listed = v.listed \cup later
      /\ w.copy.dirs = v.copy.dirs \cup dirs
      /\ DOMAIN w.copy.files = now \cup DOMAIN v.copy.files
      /\ \A x \in now : w.copy.files[x] = t.files[x]
      /\ \A x \in DOMAIN v.copy.files \ now : w.copy.files[x] = v.copy.files[x]
  BY DEF Queried
<1> USE <1>0
<1>1. table \in Tables
  BY DEF Exporting
<1>2. ASSUME NEW f \in h.always, f[1].kind \in Kinds \ {"key"}
      PROVE  Pending(p, w, f[1]) \/ Holds(w.copy, f)
  <2>1. f[1] \in DOMAIN t.files /\ f[2] = t.files[f[1]]
    BY <1>2, FactsOf DEF Saw
  <2>2. CASE f[1] \in now
    BY <2>1, <2>2 DEF Holds
  <2>3. CASE f[1] \in later
    BY <2>3 DEF Pending
  <2>4. CASE f[1] \notin now \cup later
    <3>1. CASE Holds(v.copy, f)
      BY <2>4, <3>1 DEF Holds
    <3>2. CASE f[1] \in v.listed
      BY <3>2 DEF Pending
    <3>3. CASE \E other \in v.left : f[1].kind \in Inline(other) \cup Later(other)
      <4>1. PICK other \in v.left : f[1].kind \in Inline(other) \cup Later(other)
        BY <3>3
      <4>2. other # table
        <5>1. f[1].kind \notin Inline(table) /\ f[1].kind \notin Later(table)
          BY <2>1, <2>4
        <5> QED BY <4>1, <5>1
      <4>3. other \in w.left /\ p = "querying"
        BY <4>2
      <4> QED BY <4>1, <4>3 DEF Pending
    <3> QED BY <1>2, <3>1, <3>2, <3>3 DEF Exporting, Pending
  <2> QED BY <2>2, <2>3, <2>4
<1>3. p = "querying" => w.left \subseteq Tables
  BY DEF Exporting
<1>4. \/ p = "querying" /\ Descriptions \in w.left
      \/ \A f \in h.always : f[1].kind = "dir" => f[1].c \in w.copy.dirs
  <2>1. CASE table = Descriptions
    <3>1. dirs = t.dirs \ {0}
      BY <2>1 DEF Descriptions, At
    <3> QED BY <3>1, FactsOf DEF Saw
  <2>2. CASE table # Descriptions
    BY <2>2 DEF Exporting
  <2> QED BY <2>1, <2>2
<1>5. dirs \subseteq t.dirs \ {0}
  <2>1. CASE table.kind = "description"
    BY <2>1
  <2>2. CASE table.kind # "description"
    <3>1. \A x \in now \cup later : x.c # 0 => x.c \in t.dirs
      BY DEF Housed
    <3> QED BY <2>2, <3>1
  <2> QED BY <2>1, <2>2
<1>6. \A c \in w.copy.dirs : \E f \in h.ever : f[1].kind = "dir" /\ f[1].c = c
  <2>1. \A c \in dirs : \E f \in h.ever : f[1].kind = "dir" /\ f[1].c = c
    BY <1>5, FactsOf DEF Saw
  <2> QED BY <2>1 DEF Exporting
<1>7. \A x \in DOMAIN w.copy.files : MayStand(h, x, w.copy.files[x])
  <2> SUFFICES ASSUME NEW x \in DOMAIN w.copy.files PROVE MayStand(h, x, w.copy.files[x])
    OBVIOUS
  <2>1. CASE x \in now
    BY <2>1, FactsOf DEF Saw, MayStand
  <2>2. CASE x \notin now
    BY <2>2 DEF Exporting
  <2> QED BY <2>1, <2>2
<1>8. \A x \in w.listed : WasThere(h, x)
  BY FactsOf DEF Saw, WasThere, Exporting
<1> QED BY <1>2, <1>3, <1>4, <1>6, <1>7, <1>8 DEF Exporting

LEMMA ReadExports ==
  ASSUME NEW t, IsTree(t), NEW h, Saw(h, t), NEW v, NEW w, Exporting("packing", v, h),
         NEW x \in v.listed, w.listed = v.listed \ {x}, w.copy.dirs = v.copy.dirs,
         DOMAIN w.copy.files = DOMAIN v.copy.files \cup {x},
         \A y \in DOMAIN v.copy.files \ {x} : w.copy.files[y] = v.copy.files[y],
         Has(t, x) \/ backend = "postgres",
         w.copy.files[x] = RowContent(t, x)
  PROVE  Exporting("packing", w, h)
<1>1. ASSUME NEW f \in h.always, f[1].kind \in Kinds \ {"key"}
      PROVE  Pending("packing", w, f[1]) \/ Holds(w.copy, f)
  <2>1. f[1] \in DOMAIN t.files /\ f[2] = t.files[f[1]]
    BY <1>1, FactsOf DEF Saw
  <2>2. CASE f[1] = x
    <3>1. RowContent(t, x) = t.files[x]
      BY <2>1, <2>2, RowContentIs DEF Has
    <3> QED BY <2>1, <2>2, <3>1 DEF Holds
  <2>3. CASE f[1] # x
    BY <1>1, <2>3 DEF Exporting, Pending, Holds
  <2> QED BY <2>2, <2>3
<1>2. \A y \in DOMAIN w.copy.files : MayStand(h, y, w.copy.files[y])
  <2> SUFFICES ASSUME NEW y \in DOMAIN w.copy.files PROVE MayStand(h, y, w.copy.files[y])
    OBVIOUS
  <2>1. CASE y = x /\ Has(t, x)
    <3>1. RowContent(t, x) = t.files[x]
      BY <2>1, RowContentIs
    <3> QED BY <2>1, <3>1, FactsOf DEF Saw, MayStand, Has
  <2>2. CASE y = x /\ ~Has(t, x)
    <3>1. backend = "postgres" /\ WasThere(h, x)
      BY <2>2 DEF Exporting
    <3>2. CASE RowContent(t, x) = Data(None)
      BY <2>2, <3>1, <3>2 DEF MayStand
    <3>3. CASE /\ x.kind \in Types
               /\ \E k \in Types : /\ At(k, x.c, x.r) \in DOMAIN t.files
                                   /\ RowContent(t, x) = t.files[At(k, x.c, x.r)]
      <4>1. PICK k \in Types : /\ At(k, x.c, x.r) \in DOMAIN t.files
                               /\ RowContent(t, x) = t.files[At(k, x.c, x.r)]
        BY <3>3
      <4>2. PICK f \in Facts(t) : f[1] = At(k, x.c, x.r) /\ f[2] = t.files[At(k, x.c, x.r)]
        BY <4>1, FactsOf
      <4>3. f \in h.ever
        BY <4>2 DEF Saw
      <4> QED BY <2>2, <3>1, <3>3, <4>1, <4>2, <4>3 DEF MayStand
    <3> QED BY <2>2, <3>2, <3>3, RowContentIs
  <2>3. CASE y # x
    BY <2>3 DEF Exporting
  <2> QED BY <2>1, <2>2, <2>3
<1> QED BY <1>1, <1>2 DEF Exporting

\* A handler's own steps.
LEMMA OwnExport ==
  ASSUME TypeInv, Housed(tree), NEW s \in Slots, ExportStep(s), ExportOk(s),
         NEW h, Saw(h, tree),
         pc[s] \in {"walking", "querying", "packing", "exported"} => Exporting(pc[s], view[s], h)
  PROVE  /\ request[s] # None /\ request[s].kind = "export"
         /\ \/ Answer(s)
            \/ Step(s, "described", NoView)
            \/ \E p \in {"walking", "querying", "packing", "exported"} : \E v :
                 Step(s, p, v) /\ Exporting(p, v, h)
<1> DEFINE Goal == \/ Answer(s)
                   \/ Step(s, "described", NoView)
                   \/ \E p \in {"walking", "querying", "packing", "exported"} : \E v :
                        Step(s, p, v) /\ Exporting(p, v, h)
<1>1. request[s] # None /\ request[s].kind = "export"
  BY DEF ExportStep, ExportLook, ExportSpaceDir, ExportDir, ExportRevocations, ExportRow, ExportQuery,
         ExportRead, ExportDone, OnFiles, InRows, Running
<1> SUFFICES Goal
  BY <1>1
<1>2. IsView(view[s]) /\ IsTree(view[s].copy) /\ IsTree(tree)
  BY ViewOk, TreeOk
<1>3. pc[s] \in {"begin", "described"} => view[s] = NoView
  BY <1>1 DEF ExportOk
<1>4. CASE ExportLook(s)
  BY <1>3, <1>4 DEF ExportLook, OnFiles, Running
<1>5. CASE ExportSpaceDir(s)
  <2> DEFINE dirs == tree.dirs \ {0}
             listed == {p \in InSpaceDir(tree) : p.c = 0}
             v == [view[s] EXCEPT !.listed = listed, !.dirs = dirs,
                                  !.copy = [dirs |-> dirs, files |-> <<>>]]
  <2>1. Answer(s) \/ Step(s, "walking", v)
    BY <1>5 DEF ExportSpaceDir
  <2> HIDE DEF listed
  <2>2. v.listed = listed /\ v.dirs = dirs /\ v.copy = [dirs |-> dirs, files |-> <<>>]
    BY <1>2 DEF IsView
  <2> HIDE DEF v
  <2>3. Exporting("walking", v, h)
    BY <1>2, <2>2, SpaceDirExports DEF listed
  <2> QED BY <2>1, <2>3
<1>6. CASE ExportDir(s)
  <2> DEFINE c == CHOOSE d \in view[s].dirs : \A e \in view[s].dirs : d <= e
             dirs == view[s].dirs \ {c}
             listed == view[s].listed \cup InCollection(tree, c)
             v == [view[s] EXCEPT !.dirs = dirs, !.listed = listed]
  <2>1. pc[s] = "walking" /\ (Answer(s) \/ Step(s, "walking", v))
    BY <1>6 DEF ExportDir, OnFiles, Running
  <2> HIDE DEF c
  <2>2. v.listed = listed /\ v.dirs = dirs /\ v.copy = view[s].copy
    BY <1>2 DEF IsView
  <2> HIDE DEF v
  <2>3. InCollection(tree, c) \subseteq DOMAIN tree.files
    BY DEF InCollection, OfSpace
  <2>4. \A x \in DOMAIN tree.files :
          x.kind # "key" /\ Pending("walking", view[s], x) => Pending("walking", v, x)
    BY <2>2 DEF Pending, InCollection, OfSpace
  <2>5. Exporting("walking", v, h)
    BY <1>2, <2>1, <2>2, <2>3, <2>4, WalkExports
  <2> QED BY <2>1, <2>5
<1>7. CASE ExportRevocations(s)
  <2> DEFINE more == {p \in DOMAIN tree.files : p.kind = "revocation"}
             listed == view[s].listed \cup more
             v == [view[s] EXCEPT !.listed = listed]
  <2>1. pc[s] = "walking" /\ view[s].dirs = {} /\ Step(s, "packing", v)
    BY <1>7 DEF ExportRevocations, OnFiles, Running
  <2>2. v.listed = listed /\ v.copy = view[s].copy
    BY <1>2 DEF IsView
  <2> HIDE DEF v
  <2>3. \A x \in DOMAIN tree.files :
          x.kind # "key" /\ Pending("walking", view[s], x) => Pending("packing", v, x)
    BY <2>1, <2>2 DEF Pending
  <2>4. more \subseteq DOMAIN tree.files
    OBVIOUS
  <2> HIDE DEF more
  <2>5. Exporting("packing", v, h)
    BY <1>2, <2>1, <2>2, <2>3, <2>4, WalkExports
  <2> QED BY <2>1, <2>5
<1>8. CASE ExportRow(s)
  <2> DEFINE copy == Copied(view[s].copy, SpaceFile)
             v == [view[s] EXCEPT !.left = Tables, !.copy = copy]
  <2>1. pc[s] = "begin" /\ (Answer(s) \/ (Has(tree, SpaceFile) /\ Step(s, "querying", v)))
    BY <1>8 DEF ExportRow, InRows, Running
  <2>2. CASE Has(tree, SpaceFile) /\ Step(s, "querying", v)
    <3>1. view[s] = NoView
      BY <1>3, <2>1
    <3>2. view[s].listed = {} /\ view[s].copy = [dirs |-> {}, files |-> <<>>]
      BY <3>1 DEF NoView
    <3>3. /\ copy.dirs = {} /\ DOMAIN copy.files = {SpaceFile}
          /\ copy.files[SpaceFile] = tree.files[SpaceFile]
      BY <3>2 DEF Copied, Packed, Over
    <3> HIDE DEF copy
    <3>4. v.left = Tables /\ v.listed = {} /\ v.copy = copy
      BY <1>2, <3>2 DEF IsView
    <3> HIDE DEF v
    <3>5. Exporting("querying", v, h)
      BY <1>2, <2>2, <3>3, <3>4, RowExports
    <3> QED BY <2>2, <3>5
  <2> QED BY <2>1, <2>2
<1>9. CASE ExportQuery(s)
  <2>1. pc[s] = "querying"
    BY <1>9 DEF ExportQuery, InRows, Running
  <2>2. PICK table \in view[s].left :
          LET now == {p \in DOMAIN tree.files : p.kind \in Inline(table)}
              later == {p \in DOMAIN tree.files : p.kind \in Later(table)}
              dirs == (IF table.kind = "description" THEN tree.dirs ELSE {p.c : p \in now \cup later})
                        \ {0}
          IN  Step(s, IF view[s].left = {table} THEN "packing" ELSE "querying",
                [view[s] EXCEPT
                   !.left = view[s].left \ {table}, !.listed = view[s].listed \cup later,
                   !.copy = [dirs |-> view[s].copy.dirs \cup dirs,
                             files |-> Over([p \in now |-> tree.files[p]], view[s].copy.files)]])
    BY <1>9 DEF ExportQuery
  <2> DEFINE now == {x \in DOMAIN tree.files : x.kind \in Inline(table)}
             later == {x \in DOMAIN tree.files : x.kind \in Later(table)}
             dirs == (IF table.kind = "description" THEN tree.dirs ELSE {x.c : x \in now \cup later}) \ {0}
             files == Over([x \in now |-> tree.files[x]], view[s].copy.files)
             copy == [dirs |-> view[s].copy.dirs \cup dirs, files |-> files]
             left == view[s].left \ {table}
             listed == view[s].listed \cup later
             v == [view[s] EXCEPT !.left = left, !.listed = listed, !.copy = copy]
             p1 == IF view[s].left = {table} THEN "packing" ELSE "querying"
  <2>3. Step(s, p1, v)
    BY <2>2
  <2>4. p1 \in {"querying", "packing"} /\ (p1 = "packing" => view[s].left = {table})
    OBVIOUS
  <2>5. /\ DOMAIN files = now \cup DOMAIN view[s].copy.files
        /\ \A x \in now : files[x] = tree.files[x]
        /\ \A x \in DOMAIN view[s].copy.files \ now : files[x] = view[s].copy.files[x]
    BY DEF Over
  <2> HIDE DEF files, p1
  <2>6. copy.dirs = view[s].copy.dirs \cup dirs /\ copy.files = files
    OBVIOUS
  <2>7. /\ now \cup later \subseteq DOMAIN tree.files
        /\ \A x \in DOMAIN tree.files : x.kind \in Inline(table) => x \in now
        /\ \A x \in DOMAIN tree.files : x.kind \in Later(table) => x \in later
        /\ table.kind = "description" => dirs = tree.dirs \ {0}
    OBVIOUS
  <2>10. table.kind # "description" => \A c \in dirs : c # 0 /\ \E x \in now \cup later : x.c = c
    <3> HIDE DEF now, later
    <3> QED OBVIOUS
  <2> HIDE DEF now, later, dirs, copy
  <2>8. v.left = left /\ v.listed = listed /\ v.copy = copy
    BY <1>2 DEF IsView
  <2> HIDE DEF v
  <2>11. /\ v.left = view[s].left \ {table} /\ v.listed = view[s].listed \cup later
         /\ v.copy.dirs = view[s].copy.dirs \cup dirs
         /\ DOMAIN v.copy.files = now \cup DOMAIN view[s].copy.files
         /\ \A x \in now : v.copy.files[x] = tree.files[x]
         /\ \A x \in DOMAIN view[s].copy.files \ now : v.copy.files[x] = view[s].copy.files[x]
    BY <2>5, <2>6, <2>8
  <2>12. Exporting("querying", view[s], h) /\ table \in view[s].left
    BY <2>1
  <2> HIDE DEF left, listed
  <2>13. Queried(tree, view[s], v, table, now, later, dirs)
    BY <2>7, <2>10, <2>11, <2>12 DEF Queried
  <2>9. Exporting(p1, v, h)
    BY <1>2, <2>4, <2>12, <2>13, QueryExports
  <2> QED BY <2>3, <2>4, <2>9
<1>10. CASE ExportRead(s)
  <2> DEFINE x == CHOOSE q \in view[s].listed : \A o \in view[s].listed \ {q} : Before(q, o)
             d == RowContent(tree, x)
             copy == Packed(view[s].copy, x, d)
             listed == view[s].listed \ {x}
             v == [view[s] EXCEPT !.listed = listed, !.copy = copy]
  <2>1. pc[s] = "packing" /\ view[s].listed # {}
    BY <1>10 DEF ExportRead, Running
  <2>2. Answer(s) \/ ((Has(tree, x) \/ backend # "filesystem") /\ Step(s, "packing", v))
    BY <1>10 DEF ExportRead
  <2>3. backend \in {"filesystem", "postgres"}
    BY ConstantsAssumption DEF TypeInv, GlobalOk
  <2>4. x \in view[s].listed
    <3>1. view[s].listed \subseteq Path
      BY <1>2 DEF IsView
    <3> QED BY <2>1, <3>1, FirstPath
  <2> HIDE DEF x
  <2>5. d = RowContent(tree, x)
    OBVIOUS
  <2> HIDE DEF d
  <2>6. /\ copy.dirs = view[s].copy.dirs
        /\ DOMAIN copy.files = DOMAIN view[s].copy.files \cup {x}
        /\ copy.files[x] = d
        /\ \A y \in DOMAIN view[s].copy.files \ {x} : copy.files[y] = view[s].copy.files[y]
    <3>1. view[s].copy = [dirs |-> view[s].copy.dirs, files |-> view[s].copy.files]
      BY <1>2, PartsOfTree
    <3> DEFINE files == Over([q \in {x} |-> d], view[s].copy.files)
    <3>2. copy = [dirs |-> view[s].copy.dirs, files |-> files]
      BY <3>1 DEF Packed
    <3>3. /\ DOMAIN files = DOMAIN view[s].copy.files \cup {x}
          /\ files[x] = d
          /\ \A y \in DOMAIN view[s].copy.files \ {x} : files[y] = view[s].copy.files[y]
      BY DEF Over
    <3> HIDE DEF files
    <3> QED BY <3>2, <3>3
  <2> HIDE DEF copy
  <2>7. v.listed = listed /\ v.copy = copy
    BY <1>2 DEF IsView
  <2> HIDE DEF v
  <2>8. ASSUME Has(tree, x) \/ backend # "filesystem" PROVE Exporting("packing", v, h)
    <3>1. Has(tree, x) \/ backend = "postgres"
      BY <2>3, <2>8
    <3>2. Exporting("packing", view[s], h)
      BY <2>1
    <3> QED BY <1>2, <2>4, <2>5, <2>6, <2>7, <3>1, <3>2, ReadExports
  <2> QED BY <2>2, <2>8
<1>11. CASE ExportDone(s)
  <2>1. pc[s] = "packing" /\ view[s].listed = {} /\ Step(s, "exported", view[s])
    BY <1>11 DEF ExportDone, Running
  <2>2. Exporting("exported", view[s], h)
    BY <2>1 DEF Exporting, Pending
  <2> QED BY <2>1, <2>2
<1> QED BY <1>4, <1>5, <1>6, <1>7, <1>8, <1>9, <1>10, <1>11 DEF ExportStep

LEMMA BackendStays ==
  ASSUME [Next]_vars
  PROVE  backend' = backend
<1>1. CASE UNCHANGED vars \/ Expire \/ Crash
  BY <1>1 DEF vars, Expire, Crash
<1>2. ASSUME NEW s \in Slots,
             \/ Begin(s) \/ QuotaRefuses(s) \/ Respond(s) \/ PostCheck(s) \/ PutPrior(s)
             \/ PutPersist(s) \/ PutRow(s) \/ DropSome(s) \/ DropAll(s)
      PROVE  backend' = backend
  BY <1>2 DEF rest, Begin, QuotaRefuses, Respond, PostCheck, PutPrior, PutPersist, PutRow,
              DropSome, DropAll
<1>3. ASSUME NEW s \in Slots,
             \/ WriteCheck(s) \/ WriteContent(s) \/ WritePrune(s) \/ WriteSidecar(s)
             \/ WriteRow(s) \/ RemoveContent(s) \/ RemoveChunks(s) \/ RemoveSidecar(s)
             \/ RemoveRow(s) \/ WriteChunk(s) \/ SetPolicy(s)
      PROVE  backend' = backend
  BY <1>3 DEF rest, WriteCheck, WriteContent, WritePrune, WriteSidecar, WriteRow,
              RemoveContent, RemoveChunks, RemoveSidecar, RemoveRow, WriteChunk,
              SetPolicy
<1>4. ASSUME NEW s \in Slots,
             \/ CreateSpace(s) \/ RemoveRevocations(s) \/ RemoveSome(s) \/ RemoveAll(s)
             \/ DeleteRows(s) \/ Revoke(s) \/ Generate(s)
      PROVE  backend' = backend
  BY <1>4 DEF rest, CreateSpace, RemoveRevocations, RemoveSome, RemoveAll, DeleteRows, Revoke,
              Generate
<1>5. ASSUME NEW s \in Slots,
             \/ ListPage(s) \/ QueryRows(s) \/ QueryList(s) \/ QueryRead(s)
             \/ QueryPage(s) \/ ImportStart(s) \/ ImportLook(s) \/ ImportWrite(s)
             \/ ImportRows(s)
      PROVE  backend' = backend
  BY <1>5 DEF rest, ListPage, QueryRows, QueryList, QueryRead, QueryPage, ImportStart,
              ImportLook, ImportWrite, ImportRows
<1>6. ASSUME NEW s \in Slots,
             \/ ExportLook(s) \/ ExportSpaceDir(s) \/ ExportDir(s) \/ ExportRevocations(s)
             \/ ExportRow(s) \/ ExportQuery(s) \/ ExportRead(s) \/ ExportDone(s)
      PROVE  backend' = backend
  BY <1>6 DEF rest, ExportLook, ExportSpaceDir, ExportDir, ExportRevocations, ExportRow,
              ExportQuery, ExportRead, ExportDone
<1> QED BY <1>1, <1>2, <1>3, <1>4, <1>5, <1>6 DEF Next

LEMMA ExportingThen ==
  ASSUME backend' = backend, NEW s
  PROVE  Exporting(pc[s], view[s], seen[s])' <=> Exporting(pc'[s], view'[s], seen'[s])
BY DEF Exporting, Pending, Holds, WasThere, MayStand, Descriptions, Tables, Inline, Later, Data, At,
       Kinds, Types

\* What other slots' steps leave of a slot, and what the invariant then keeps.
LEMMA OtherExports ==
  ASSUME NEW t \in Slots, SlotOk(t), ExportOk(t), backend' = backend,
         request'[t] = request[t], pc'[t] = pc[t], view'[t] = view[t],
         request[t] # None => GoesOn(seen[t], seen'[t])
  PROVE  ExportOk(t)'
<1>1. CASE request[t] = None
  BY <1>1 DEF ExportOk, SlotOk
<1>2. CASE request[t] # None
  <2>1. Exporting(pc[t], view[t], seen[t]) => Exporting(pc'[t], view'[t], seen'[t])
    BY <1>2, ExportingGoesOn
  <2>2. Exporting(pc[t], view[t], seen[t]) => Exporting(pc[t], view[t], seen[t])'
    BY <2>1, ExportingThen
  <2> QED BY <2>2 DEF ExportOk
<1> QED BY <1>1, <1>2

LEMMA ExportNext ==
  ASSUME TypeInv, Housed(tree), \A t \in Slots : HistoryOk(t), [Next]_vars,
         NEW t \in Slots, ExportOk(t)
  PROVE  ExportOk(t)'
<1>1. HistoryOk(t)' /\ (request[t] # None /\ request'[t] # None => GoesOn(seen[t], seen'[t]))
  BY HistoryNext
<1>2. backend' = backend /\ SlotOk(t)
  BY BackendStays DEF TypeInv
<1>3. ASSUME request'[t] = request[t], pc'[t] = pc[t], view'[t] = view[t]
      PROVE  ExportOk(t)'
  BY <1>1, <1>2, <1>3, OtherExports
<1>4. CASE UNCHANGED vars \/ Expire
  BY <1>3, <1>4 DEF vars, flight, Expire
<1>5. CASE Crash
  BY <1>5 DEF Crash, ExportOk
<1>6. ASSUME NEW s \in Slots, Moves(s), t # s PROVE ExportOk(t)'
  <2>1. CASE Answer(s)
    BY <1>3, <1>6, <2>1, AnswerMoves
  <2>2. CASE \E p, v : Step(s, p, v)
    BY <1>3, <1>6, <2>2, StepMoves
  <2>3. CASE Begin(s)
    <3>1. /\ \E r : request' = [request EXCEPT ![s] = r]
          /\ \E copy : view' = [view EXCEPT ![s].copy = copy]
          /\ pc' = [pc EXCEPT ![s] = "begin"]
      BY <2>3 DEF Begin
    <3>2. request = [x \in Slots |-> request[x]] /\ view = [x \in Slots |-> view[x]]
          /\ pc = [x \in Slots |-> pc[x]]
      BY DEF TypeInv, Shapes
    <3> QED BY <1>3, <1>6, <3>1, <3>2
  <2>4. CASE ExportStep(s) \/ ListStep(s)
    BY <2>1, <2>2, <2>4, ReaderSteps
  <2> QED BY <1>6, <2>1, <2>2, <2>3, <2>4 DEF Moves, Elsewhere
<1>7. CASE Moves(t)
  <2>1. CASE Answer(t)
    <3>1. request'[t] = None /\ pc'[t] = "idle"
      BY <2>1, AnswerMoves
    <3> QED BY <3>1 DEF ExportOk
  <2>2. CASE (Elsewhere(t) \/ ListStep(t)) /\ ~Answer(t)
    <3>1. request[t].kind # "export" /\ \E p, v : p # "exported" /\ Step(t, p, v)
      BY <2>2, ReaderSteps DEF Elsewhere, Reads, Listings
    <3>2. PICK p, v : p # "exported" /\ Step(t, p, v)
      BY <3>1
    <3>3. request'[t] = request[t] /\ pc'[t] = p
      BY <3>2, StepMoves
    <3> QED BY <3>1, <3>2, <3>3 DEF ExportOk
  <2>3. CASE Begin(t)
    <3>1. PICK r \in todo : /\ request' = [request EXCEPT ![t] = r]
                            /\ view' = [view EXCEPT ![t].copy = IF r.kind = "import" THEN archive ELSE @]
      BY <2>3 DEF Begin
    <3>2. pc' = [pc EXCEPT ![t] = "begin"] /\ request[t] = None
      BY <2>3 DEF Begin
    <3>3. request = [x \in Slots |-> request[x]] /\ view = [x \in Slots |-> view[x]]
          /\ pc = [x \in Slots |-> pc[x]]
      BY DEF TypeInv, Shapes
    <3>4. request'[t] = r /\ pc'[t] = "begin"
          /\ view'[t] = [view[t] EXCEPT !.copy = IF r.kind = "import" THEN archive ELSE view[t].copy]
      BY <3>1, <3>2, <3>3
    <3>5. view[t] = NoView
      BY <1>2, <3>2 DEF SlotOk
    <3>6. r.kind = "export" => view'[t] = NoView
      BY <3>4, <3>5 DEF NoView
    <3> QED BY <3>4, <3>6 DEF ExportOk
  <2>4. CASE ExportStep(t)
    <3> DEFINE h == seen'[t]
    <3>1. request[t] # None /\ request[t].kind = "export" /\ UNCHANGED <<tree, rest>>
      BY <2>4, ReaderSteps
    <3>2. CASE Answer(t)
      BY <2>1, <3>2
    <3>3. CASE ~Answer(t)
      <4>1. request' = request
        BY <2>4, <3>3, ReaderSteps DEF Step
      <4>2. Saw(h, tree')
        BY <1>1, <3>1, <4>1 DEF HistoryOk, Reads
      <4>3. Saw(h, tree)
        BY <3>1, <4>2
      <4>4. Exporting(pc[t], view[t], seen[t]) => Exporting(pc[t], view[t], h)
        BY <1>1, <3>1, <4>1, ExportingGoesOn
      <4>5. pc[t] \in {"walking", "querying", "packing", "exported"} => Exporting(pc[t], view[t], h)
        BY <3>1, <4>4 DEF ExportOk
      <4> HIDE DEF h
      <4>6. \/ Step(t, "described", NoView)
            \/ \E p \in {"walking", "querying", "packing", "exported"} : \E v :
                 Step(t, p, v) /\ Exporting(p, v, h)
        BY <2>4, <3>3, <4>3, <4>5, OwnExport
      <4>7. CASE Step(t, "described", NoView)
        <5>1. pc'[t] = "described" /\ view'[t] = NoView
          BY <4>7, StepMoves
        <5> QED BY <5>1 DEF ExportOk
      <4>8. ASSUME NEW p \in {"walking", "querying", "packing", "exported"}, NEW v,
                   Step(t, p, v), Exporting(p, v, h)
            PROVE  ExportOk(t)'
        <5>1. pc'[t] = p /\ view'[t] = v
          BY <4>8, StepMoves
        <5>2. Exporting(pc'[t], view'[t], seen'[t])
          BY <4>8, <5>1 DEF h
        <5>3. Exporting(pc[t], view[t], seen[t])'
          BY <1>2, <5>2, ExportingThen
        <5> QED BY <3>1, <4>1, <5>1, <5>3 DEF ExportOk
      <4> QED BY <4>6, <4>7, <4>8
    <3> QED BY <3>2, <3>3
  <2> QED BY <1>7, <2>1, <2>2, <2>3, <2>4 DEF Moves
<1> QED BY <1>4, <1>5, <1>6, <1>7, NextMoves

LEMMA ExportInit ==
  ASSUME Init
  PROVE  Housed(tree) /\ \A s \in Slots : HistoryOk(s) /\ ExportOk(s)
<1>1. Housed(tree)
  BY ConstantsAssumption DEF Init, IsScenario
<1>2. \A s \in Slots : HistoryOk(s)
  BY DEF Init, HistoryOk, IsHistory, Unseen
<1>3. \A s \in Slots : ExportOk(s)
  BY DEF Init, ExportOk
<1> QED BY <1>1, <1>2, <1>3

\* What the invariant says of an export that is done.
LEMMA ExportedIsExact ==
  ASSUME NEW s \in Slots, ExportOk(s), pc[s] = "exported"
  PROVE  ExportIsExact(s)
<1> DEFINE v == view[s]
           h == seen[s]
<1>1. Exporting("exported", v, h)
  BY DEF ExportOk
<1>2. \A f \in h.always : f[1].kind \in Kinds \ {"key"} => Holds(v.copy, f)
  BY <1>1 DEF Exporting, Pending
<1>3. {d.c : d \in Throughout(seen[s], "dir")} \subseteq v.copy.dirs
  <2>1. ASSUME NEW d \in Throughout(seen[s], "dir") PROVE d.c \in v.copy.dirs
    BY <1>1, <2>1 DEF Throughout, Exporting
  <2> QED BY <2>1
<1>4. v.copy.dirs \subseteq {d.c : d \in AtSomeTime(seen[s], "dir")}
  <2> SUFFICES ASSUME NEW c \in v.copy.dirs PROVE c \in {d.c : d \in AtSomeTime(seen[s], "dir")}
    OBVIOUS
  <2>1. PICK f \in h.ever : f[1].kind = "dir" /\ f[1].c = c
    BY <1>1 DEF Exporting
  <2>2. f[1] \in AtSomeTime(seen[s], "dir")
    BY <2>1 DEF AtSomeTime
  <2> QED BY <2>1, <2>2
<1>5. ASSUME NEW x \in DOMAIN v.copy.files
      PROVE  \/ v.copy.files[x] \in Was(seen[s], x)
             \/ /\ backend = "postgres" /\ Was(seen[s], x) # {}
                /\ \/ v.copy.files[x] = Data(None)
                   \/ /\ x.kind \in Types
                      /\ \E t \in Types : v.copy.files[x] \in Was(seen[s], At(t, x.c, x.r))
  <2>1. MayStand(h, x, v.copy.files[x])
    BY <1>1 DEF Exporting
  <2>2. \A f \in h.ever : \A y : f[1] = y => f[2] \in Was(seen[s], y)
    BY DEF Was
  <2> QED BY <2>1, <2>2 DEF MayStand, WasThere
<1> QED BY <1>2, <1>3, <1>4, <1>5 DEF ExportIsExact, Holds

----------------------------------------------------------------------------
(* Pages and cursors.                                                       *)

\* A sequence that rises in the order L, and holds an x at most M[x] times, on end.
Rising(q, L, M) ==
  \A i, j \in 1 .. Len(q) : i < j =>
    L[q[i]] < L[q[j]] \/ (q[i] = q[j] /\ j - i < M[q[i]])

Occurs(x, q) == \E i \in 1 .. Len(q) : q[i] = x

\* The page w of the ids S behind the cursor: what it leaves out is before it, or is left for
\* the next one.
IsPage(w, S, cursor, L, M) ==
  /\ w.page \in Seq(S)
  /\ Rising(w.page, L, M)
  /\ w.more => w.page # <<>>
  /\ cursor # None => \A i \in 1 .. Len(w.page) : L[cursor] < L[w.page[i]]
  /\ \A x \in S : \/ cursor # None /\ L[x] <= L[cursor]
                  \/ Occurs(x, w.page)
                  \/ w.more /\ L[w.page[Len(w.page)]] < L[x]

LEMMA WindowFacts ==
  ASSUME NEW S, NEW items \in Seq(S), NEW start \in 1 .. Len(items) + 1, NEW size \in Nat \ {0}
  PROVE  LET w == Window(items, start, size)
         IN  /\ w.page \in Seq(S)
             /\ Len(w.page) = IF w.more THEN size ELSE Len(items) + 1 - start
             /\ w.more => start + size <= Len(items)
             /\ \A k \in 1 .. Len(w.page) : /\ start + k - 1 \in 1 .. Len(items)
                                            /\ w.page[k] = items[start + k - 1]
<1> DEFINE end == start + size - 1
           last == IF end > Len(items) THEN Len(items) ELSE end
           w == Window(items, start, size)
<1>1. w.page = SubSeq(items, start, last) /\ w.more = (end < Len(items))
  BY DEF Window
<1>2. Len(items) \in Nat /\ start \in Nat /\ last \in Nat /\ last <= Len(items) /\ start <= last + 1
  OBVIOUS
<1> HIDE DEF last, w
<1> DEFINE m == last + 1 - start
<1>2a. m \in Nat
  BY <1>2
<1>3. w.page = [k \in 1 .. m |-> items[start + k - 1]]
  BY <1>1, <1>2
<1>4. \A k \in 1 .. m : start + k - 1 \in 1 .. Len(items)
  BY <1>2
<1>5. (end < Len(items) => m = size /\ start + size <= Len(items))
      /\ (~(end < Len(items)) => m = Len(items) + 1 - start)
  BY <1>2 DEF last
<1> HIDE DEF m
<1>6. w.page \in [1 .. m -> S]
  BY <1>3, <1>4
<1>7. w.page \in Seq(S) /\ Len(w.page) = m
  BY <1>2a, <1>6
<1> HIDE DEF end
<1> QED BY <1>1, <1>2a, <1>3, <1>4, <1>5, <1>7 DEF w

\* A window that starts behind the cursor is a page.
LEMMA WindowIsPage ==
  ASSUME NEW S, NEW items \in Seq(S), NEW start \in 1 .. Len(items) + 1, NEW size \in Nat \ {0},
         NEW cursor, NEW L, NEW M, \A x \in S : L[x] \in Nat /\ M[x] \in Nat,
         cursor # None => L[cursor] \in Nat,
         Rising(items, L, M),
         \A x \in S : (cursor # None /\ L[x] <= L[cursor]) \/ Occurs(x, items),
         \A i \in 1 .. start - 1 : cursor # None /\ L[items[i]] <= L[cursor],
         cursor # None => \A i \in start .. Len(items) : L[cursor] < L[items[i]]
  PROVE  IsPage(Window(items, start, size), S, cursor, L, M)
<1> DEFINE w == Window(items, start, size)
           n == Len(items)
<1>1. /\ w.page \in Seq(S)
      /\ Len(w.page) = IF w.more THEN size ELSE n + 1 - start
      /\ w.more => start + size <= n
      /\ \A k \in 1 .. Len(w.page) : /\ start + k - 1 \in 1 .. n
                                     /\ w.page[k] = items[start + k - 1]
  BY WindowFacts
<1> HIDE DEF w
<1> DEFINE m == Len(w.page)
<1>2. m \in Nat /\ n \in Nat /\ start \in Nat
  BY <1>1
<1>3. Rising(w.page, L, M)
  <2> SUFFICES ASSUME NEW i \in 1 .. m, NEW j \in 1 .. m, i < j
               PROVE  \/ L[w.page[i]] < L[w.page[j]]
                      \/ w.page[i] = w.page[j] /\ j - i < M[w.page[i]]
    BY DEF Rising
  <2> DEFINE a == start + i - 1
             b == start + j - 1
  <2>2. a \in 1 .. n /\ w.page[i] = items[a] /\ b \in 1 .. n /\ w.page[j] = items[b]
    BY <1>1
  <2>1. a < b /\ b - a = j - i
    BY <1>2
  <2> HIDE DEF a, b
  <2>3. L[items[a]] < L[items[b]] \/ (items[a] = items[b] /\ b - a < M[items[a]])
    BY <2>1, <2>2 DEF Rising
  <2> QED BY <2>1, <2>2, <2>3
<1>4. w.more => w.page # <<>>
  BY <1>1
<1>5. cursor # None => \A i \in 1 .. m : L[cursor] < L[w.page[i]]
  <2> SUFFICES ASSUME cursor # None, NEW i \in 1 .. m PROVE L[cursor] < L[w.page[i]]
    OBVIOUS
  <2> DEFINE a == start + i - 1
  <2>1. a \in start .. n
    BY <1>1, <1>2
  <2>2. w.page[i] = items[a]
    BY <1>1
  <2> QED BY <2>1, <2>2
<1>6. ASSUME NEW x \in S, ~(cursor # None /\ L[x] <= L[cursor]), ~Occurs(x, w.page)
      PROVE  w.more /\ L[w.page[m]] < L[x]
  <2>1. PICK i \in 1 .. n : items[i] = x
    BY <1>6 DEF Occurs
  <2>2. i >= start
    BY <1>2, <1>6, <2>1
  <2>3. i >= start + m
    <3> SUFFICES ASSUME i < start + m PROVE FALSE
      BY <1>2
    <3>1. i - start + 1 \in 1 .. m
      BY <1>2, <2>2
    <3>2. w.page[i - start + 1] = items[start + (i - start + 1) - 1]
      BY <1>1, <3>1
    <3>3. start + (i - start + 1) - 1 = i
      BY <1>2
    <3> QED BY <1>6, <2>1, <3>1, <3>2, <3>3 DEF Occurs
  <2>4. w.more /\ m = size
    BY <1>1, <1>2, <2>3
  <2> DEFINE b == start + m - 1
  <2>5. b \in 1 .. n /\ w.page[m] = items[b] /\ b < i
    BY <1>1, <1>2, <2>3, <2>4
  <2> HIDE DEF b
  <2>6. L[items[b]] < L[x] \/ items[b] = x
    BY <2>1, <2>5 DEF Rising
  <2>7. items[b] # x
    BY <1>6, <2>4, <2>5 DEF Occurs
  <2> QED BY <2>4, <2>5, <2>6, <2>7
<1> QED BY <1>1, <1>3, <1>4, <1>5, <1>6 DEF IsPage, w

\* The first position that qualifies: none before it does.
LEMMA FirstOf ==
  ASSUME NEW n \in Nat, NEW P, P \subseteq 1 .. n, P # {}
  PROVE  \E i \in P : \A j \in 1 .. i - 1 : j \notin P
<1>1. P \subseteq Nat
  OBVIOUS
<1>2. PICK i \in P : \A j \in P : i <= j
  BY <1>1, LeastNumber
<1>3. i \in Nat
  BY <1>1
<1> QED BY <1>2, <1>3

LEMMA SeekIsPage ==
  ASSUME NEW S, S \subseteq Nat, NEW items \in Seq(S), NEW size \in Nat \ {0},
         NEW cursor, cursor = None \/ cursor \in Nat, NEW L, \A x \in Nat : L[x] = x,
         NEW M, \A x \in S : M[x] \in Nat, Rising(items, L, M), \A x \in S : Occurs(x, items)
  PROVE  IsPage(SeekPage(items, cursor, size), S, cursor, L, M)
<1> DEFINE n == Len(items)
           start == IF cursor = None THEN 1 ELSE FirstPosition(items, LAMBDA id : id > cursor)
           P == {i \in 1 .. n : items[i] > cursor}
<1>1. SeekPage(items, cursor, size) = Window(items, start, size)
  BY DEF SeekPage
<1>0. n \in Nat /\ DOMAIN items = 1 .. n /\ \A i \in 1 .. n : items[i] \in S
  OBVIOUS
<1>2. /\ n \in Nat /\ DOMAIN items = 1 .. n
      /\ \A i \in 1 .. n : items[i] \in S /\ items[i] \in Nat /\ L[items[i]] = items[i]
      /\ cursor # None => cursor \in Nat /\ L[cursor] = cursor
  BY <1>0
<1>3. /\ start \in 1 .. n + 1
      /\ cursor = None => start = 1
      /\ cursor # None => /\ \A i \in 1 .. start - 1 : items[i] <= cursor
                          /\ \A i \in start .. n : cursor < items[i]
  <2>1. CASE cursor = None
    BY <1>2, <2>1
  <2>2. CASE cursor # None /\ P = {}
    <3>1. start = n + 1
      BY <1>2, <2>2 DEF FirstPosition
    <3>2. \A i \in 1 .. n : ~ (items[i] > cursor)
      BY <2>2
    <3> HIDE DEF start
    <3> QED BY <1>2, <2>2, <3>1, <3>2
  <2>3. CASE cursor # None /\ P # {}
    <3> DEFINE First(i) == items[i] > cursor /\ \A j \in 1 .. i - 1 : ~(items[j] > cursor)
    <3>1. start = CHOOSE i \in DOMAIN items : First(i)
      BY <1>2, <2>3 DEF FirstPosition
    <3>2. \E i \in DOMAIN items : First(i)
      <4>1. P \subseteq 1 .. n
        OBVIOUS
      <4> HIDE DEF P
      <4>2. PICK i \in P : \A j \in 1 .. i - 1 : j \notin P
        BY <1>2, <2>3, <4>1, FirstOf
      <4> QED BY <1>2, <4>1, <4>2 DEF P
    <3> HIDE DEF start
    <3>3. start \in DOMAIN items /\ First(start)
      <4> HIDE DEF First
      <4> QED BY <3>1, <3>2
    <3>4. \A i \in 1 .. start - 1 : items[i] <= cursor
      BY <1>2, <2>3, <3>3
    <3>5. ASSUME NEW i \in start .. n PROVE cursor < items[i]
      <4>1. CASE i = start
        BY <2>3, <3>3, <4>1
      <4>2. CASE i > start
        <5>1. start \in 1 .. n /\ i \in 1 .. n /\ start < i
          BY <1>2, <3>3, <4>2
        <5>2. L[items[start]] < L[items[i]] \/ items[start] = items[i]
          BY <5>1 DEF Rising
        <5> QED BY <1>2, <2>3, <3>3, <5>1, <5>2
      <4> QED BY <1>2, <3>3, <4>1, <4>2
    <3> QED BY <1>2, <2>3, <3>3, <3>4, <3>5
  <2> QED BY <2>1, <2>2, <2>3
<1> HIDE DEF start
<1>4. \A x \in S : L[x] \in Nat /\ M[x] \in Nat
  OBVIOUS
<1>5. cursor # None => L[cursor] \in Nat
  OBVIOUS
<1>6. \A i \in 1 .. start - 1 : cursor # None /\ L[items[i]] <= L[cursor]
  BY <1>2, <1>3
<1>7. cursor # None => \A i \in start .. n : L[cursor] < L[items[i]]
  BY <1>2, <1>3
<1>8. \A x \in S : (cursor # None /\ L[x] <= L[cursor]) \/ Occurs(x, items)
  OBVIOUS
<1>9. start \in 1 .. Len(items) + 1
  BY <1>3
<1>10. IsPage(Window(items, start, size), S, cursor, L, M)
  BY <1>4, <1>5, <1>6, <1>7, <1>8, <1>9, WindowIsPage
<1> QED BY <1>1, <1>10

\* Ids by their places, one id in each.
LEMMA OrderByPlace ==
  ASSUME NEW S, NEW R, \A x \in S : R[x] \in Nat, \A x, y \in S : R[x] = R[y] => x = y
  PROVE  IsOrder(S, [x \in S |-> {y \in S : R[y] < R[x]}])
BY DEF IsOrder

LEMMA AscendingIsRising ==
  ASSUME NEW S, S \subseteq Nat, IsFiniteSet(S)
  PROVE  /\ Ascending(S) \in Seq(S)
         /\ Lists(Ascending(S), S)
         /\ \A i, j \in 1 .. Len(Ascending(S)) : i < j => Ascending(S)[i] < Ascending(S)[j]
<1> DEFINE below == [x \in S |-> {y \in S : y < x}]
           q == Ascending(S)
<1>0. \A x, y, z \in S : ~ (x < x) /\ (x < y /\ y < z => x < z) /\ (x # y => x < y \/ y < x)
  OBVIOUS
<1>1. IsOrder(S, below)
  BY <1>0 DEF IsOrder
<1>2. q = [i \in 1 .. Cardinality(S) |-> CHOOSE x \in S : Cardinality({y \in S : y < x}) = i - 1]
  BY DEF Ascending, Sorted
<1>3. \A x \in S : below[x] = {y \in S : y < x}
  OBVIOUS
<1> HIDE DEF q
<1>4. ASSUME NEW i \in 1 .. Cardinality(S), \E x \in S : Cardinality(below[x]) = i - 1
      PROVE  q[i] \in S /\ Cardinality(below[q[i]]) = i - 1
  <2>1. \E x \in S : Cardinality({y \in S : y < x}) = i - 1
    BY <1>3, <1>4
  <2>2. q[i] = CHOOSE x \in S : Cardinality({y \in S : y < x}) = i - 1
    BY <1>2
  <2>3. q[i] \in S /\ Cardinality({y \in S : y < q[i]}) = i - 1
    BY <2>1, <2>2
  <2> QED BY <1>3, <2>3
<1>5. q = [i \in 1 .. Cardinality(S) |-> q[i]]
  BY <1>2 DEF q
<1> HIDE DEF below
<1>6. /\ q \in Seq(S) /\ Lists(q, S)
      /\ \A i, j \in 1 .. Len(q) : i < j => q[i] \in below[q[j]]
  BY <1>1, <1>4, <1>5, SortedByRank
<1>7. \A i, j \in 1 .. Len(q) : i < j => q[i] < q[j]
  <2> SUFFICES ASSUME NEW i \in 1 .. Len(q), NEW j \in 1 .. Len(q), i < j PROVE q[i] < q[j]
    OBVIOUS
  <2>1. q[j] \in S
    BY <1>6
  <2> QED BY <1>6, <2>1 DEF below
<1> QED BY <1>6, <1>7 DEF q

KeyOrder(keys) == Sorted(keys, LAMBDA k, l : Locale[k] < Locale[l])

LEMMA KeysAreRising ==
  ASSUME NEW S, S \subseteq 0 .. MaxId
  PROVE  /\ KeyOrder(S) \in Seq(S)
         /\ Lists(KeyOrder(S), S)
         /\ \A i, j \in 1 .. Len(KeyOrder(S)) : i < j => Locale[KeyOrder(S)[i]] < Locale[KeyOrder(S)[j]]
<1> DEFINE below == [x \in S |-> {y \in S : Locale[y] < Locale[x]}]
           q == KeyOrder(S)
<1>0. /\ \A x \in S : Locale[x] \in Nat
      /\ \A x, y \in S : Locale[x] = Locale[y] => x = y
  BY ListingAssumption
<1>1. IsOrder(S, below)
  BY <1>0, OrderByPlace
<1>1a. IsFiniteSet(S)
  <2>1. IsFiniteSet(0 .. MaxId)
    BY ConstantsAssumption, FS_Interval
  <2> QED BY <2>1, FS_Subset
<1>2. q = [i \in 1 .. Cardinality(S) |->
             CHOOSE x \in S : Cardinality({y \in S : Locale[y] < Locale[x]}) = i - 1]
  BY DEF KeyOrder, Sorted
<1>3. \A x \in S : below[x] = {y \in S : Locale[y] < Locale[x]}
  OBVIOUS
<1> HIDE DEF q
<1>4. ASSUME NEW i \in 1 .. Cardinality(S), \E x \in S : Cardinality(below[x]) = i - 1
      PROVE  q[i] \in S /\ Cardinality(below[q[i]]) = i - 1
  <2>1. \E x \in S : Cardinality({y \in S : Locale[y] < Locale[x]}) = i - 1
    BY <1>3, <1>4
  <2>2. q[i] = CHOOSE x \in S : Cardinality({y \in S : Locale[y] < Locale[x]}) = i - 1
    BY <1>2
  <2>3. q[i] \in S /\ Cardinality({y \in S : Locale[y] < Locale[q[i]]}) = i - 1
    BY <2>1, <2>2
  <2> QED BY <1>3, <2>3
<1>5. q = [i \in 1 .. Cardinality(S) |-> q[i]]
  BY <1>2 DEF q
<1> HIDE DEF below
<1>6. /\ q \in Seq(S) /\ Lists(q, S)
      /\ \A i, j \in 1 .. Len(q) : i < j => q[i] \in below[q[j]]
  BY <1>1, <1>1a, <1>4, <1>5, SortedByRank
<1>7. \A i, j \in 1 .. Len(q) : i < j => Locale[q[i]] < Locale[q[j]]
  <2> SUFFICES ASSUME NEW i \in 1 .. Len(q), NEW j \in 1 .. Len(q), i < j
               PROVE  Locale[q[i]] < Locale[q[j]]
    OBVIOUS
  <2>1. q[j] \in S
    BY <1>6
  <2> QED BY <1>6, <2>1 DEF below
<1> QED BY <1>6, <1>7 DEF q

\* Page by page through the keys: the key that a page ended with is still there.
LEMMA KeyPageIsPage ==
  ASSUME NEW S, S \subseteq 0 .. MaxId, NEW cursor, cursor = None \/ cursor \in S
  PROVE  IsPage(KeyPage(S, cursor), S, cursor, Locale, [x \in 0 .. MaxId |-> 1])
<1> DEFINE items == KeyOrder(S)
           M == [x \in 0 .. MaxId |-> 1]
           n == Len(items)
<1>1. /\ items \in Seq(S) /\ Lists(items, S)
      /\ \A i, j \in 1 .. n : i < j => Locale[items[i]] < Locale[items[j]]
  BY KeysAreRising
<1>1a. cursor \in S => cursor # None
  BY ListingAssumption
<1>2. KeyPage(S, cursor) =
        Window(items, IF cursor = None THEN 1 ELSE FirstPosition(items, LAMBDA k : k = cursor) + 1,
               DefaultPageSize)
  BY DEF KeyPage, KeyOrder
<1> HIDE DEF items
<1> DEFINE start == IF cursor = None THEN 1 ELSE FirstPosition(items, LAMBDA k : k = cursor) + 1
<1>3. n \in Nat /\ DOMAIN items = 1 .. n /\ \A i \in 1 .. n : items[i] \in S
  BY <1>1
<1>4. \A x \in S : Locale[x] \in Nat /\ M[x] \in Nat
  BY ListingAssumption
<1>5. /\ start \in 1 .. n + 1
      /\ \A i \in 1 .. start - 1 : cursor # None /\ Locale[items[i]] <= Locale[cursor]
      /\ cursor # None => \A i \in start .. n : Locale[cursor] < Locale[items[i]]
  <2>1. CASE cursor = None
    BY <1>3, <2>1
  <2>2. CASE cursor # None
    <3> DEFINE At1(i) == items[i] = cursor /\ \A j \in 1 .. i - 1 : ~(items[j] = cursor)
    <3>1. PICK a \in 1 .. n : items[a] = cursor
      BY <1>1, <2>2 DEF Lists
    <3>2. At1(a)
      <4>1. ASSUME NEW j \in 1 .. a - 1 PROVE items[j] # cursor
        <5>1. j \in 1 .. n /\ j < a
          BY <1>3, <4>1
        <5>2. Locale[items[j]] < Locale[items[a]]
          BY <1>1, <5>1
        <5>3. Locale[cursor] \in Nat
          BY <1>3, <1>4, <3>1
        <5> QED BY <3>1, <5>2, <5>3
      <4> QED BY <3>1, <4>1
    <3>3. start = (CHOOSE i \in DOMAIN items : At1(i)) + 1
      BY <1>3, <2>2, <3>1 DEF FirstPosition
    <3>4. ASSUME NEW b \in 1 .. n, At1(b) PROVE b = a
      <4>1. ~ (b < a) /\ ~ (a < b)
        BY <1>3, <3>1, <3>2, <3>4
      <4> QED BY <1>3, <4>1
    <3> HIDE DEF At1
    <3>5. (CHOOSE i \in DOMAIN items : At1(i)) = a
      BY <1>3, <3>2, <3>4
    <3> HIDE DEF start
    <3>6. start = a + 1
      BY <3>3, <3>5
    <3>7. ASSUME NEW i \in 1 .. n PROVE /\ i < a => Locale[items[i]] < Locale[cursor]
                                        /\ a < i => Locale[cursor] < Locale[items[i]]
      BY <1>1, <3>1
    <3>8. ASSUME NEW i \in 1 .. start - 1 PROVE Locale[items[i]] <= Locale[cursor]
      <4>1. i \in 1 .. n /\ (i = a \/ i < a)
        BY <1>3, <3>6
      <4>2. Locale[cursor] \in Nat /\ Locale[items[i]] \in Nat
        BY <1>3, <1>4, <3>1, <4>1
      <4> QED BY <3>1, <3>7, <4>1, <4>2
    <3>9. ASSUME NEW i \in start .. n PROVE Locale[cursor] < Locale[items[i]]
      <4>1. i \in 1 .. n /\ a < i
        BY <1>3, <3>6
      <4> QED BY <3>7, <4>1
    <3> QED BY <1>3, <2>2, <3>6, <3>8, <3>9
  <2> QED BY <2>1, <2>2
<1> HIDE DEF start
<1>6. Rising(items, Locale, M)
  BY <1>1 DEF Rising
<1>7. \A x \in S : (cursor # None /\ Locale[x] <= Locale[cursor]) \/ Occurs(x, items)
  BY <1>1 DEF Lists, Occurs
<1>8. cursor # None => Locale[cursor] \in Nat
  BY <1>4
<1>9. DefaultPageSize \in Nat \ {0}
  BY ListingAssumption
<1> HIDE DEF M
<1>10. IsPage(Window(items, start, DefaultPageSize), S, cursor, Locale, M)
  BY <1>1, <1>4, <1>5, <1>6, <1>7, <1>8, <1>9, WindowIsPage
<1> QED BY <1>2, <1>10 DEF start, M

LEMMA PathsAreRising ==
  ASSUME NEW S, S \subseteq Path
  PROVE  /\ Sorted(S, Before) \in Seq(S)
         /\ Lists(Sorted(S, Before), S)
         /\ \A i, j \in 1 .. Len(Sorted(S, Before)) :
              i < j => Before(Sorted(S, Before)[i], Sorted(S, Before)[j])
<1> DEFINE below == [x \in S |-> {y \in S : Before(y, x)}]
           q == Sorted(S, Before)
<1>1. IsOrder(S, below)
  BY BeforeIsAnOrder
<1>1a. IsFiniteSet(S)
  BY PathsFinite, FS_Subset
<1>2. q = [i \in 1 .. Cardinality(S) |-> CHOOSE x \in S : Cardinality({y \in S : Before(y, x)}) = i - 1]
  BY DEF Sorted
<1>3. \A x \in S : below[x] = {y \in S : Before(y, x)}
  OBVIOUS
<1> HIDE DEF q
<1>4. ASSUME NEW i \in 1 .. Cardinality(S), \E x \in S : Cardinality(below[x]) = i - 1
      PROVE  q[i] \in S /\ Cardinality(below[q[i]]) = i - 1
  <2>1. \E x \in S : Cardinality({y \in S : Before(y, x)}) = i - 1
    BY <1>3, <1>4
  <2>2. q[i] = CHOOSE x \in S : Cardinality({y \in S : Before(y, x)}) = i - 1
    BY <1>2
  <2>3. q[i] \in S /\ Cardinality({y \in S : Before(y, q[i])}) = i - 1
    BY <2>1, <2>2
  <2> QED BY <1>3, <2>3
<1>5. q = [i \in 1 .. Cardinality(S) |-> q[i]]
  BY <1>2 DEF q
<1> HIDE DEF below
<1>6. /\ q \in Seq(S) /\ Lists(q, S)
      /\ \A i, j \in 1 .. Len(q) : i < j => q[i] \in below[q[j]]
  BY <1>1, <1>1a, <1>4, <1>5, SortedByRank
<1>7. \A i, j \in 1 .. Len(q) : i < j => Before(q[i], q[j])
  <2> SUFFICES ASSUME NEW i \in 1 .. Len(q), NEW j \in 1 .. Len(q), i < j
               PROVE  Before(q[i], q[j])
    OBVIOUS
  <2>1. q[j] \in S
    BY <1>6
  <2> QED BY <1>6, <2>1 DEF below
<1> QED BY <1>6, <1>7 DEF q

\* Of one Collection, the representations come by their Resources' ids.
LEMMA BeforeById ==
  ASSUME NEW p \in Path, NEW q \in Path, p.kind \in Types, q.kind \in Types, p.c = q.c, Before(p, q)
  PROVE  p.r < q.r \/ (p.r = q.r /\ p.kind # q.kind)
<1>1. p.c \in Nat /\ p.r \in Nat /\ q.r \in Nat
  BY ConstantsAssumption DEF Path
<1>2. /\ Place(p) = <<0, p.c, 6, p.r, TypeRank(p.kind)>>
      /\ Place(q) = <<0, p.c, 6, q.r, TypeRank(q.kind)>>
  BY DEF Place, Group, Types
<1>3. TypeRank(p.kind) \in Nat /\ TypeRank(q.kind) \in Nat
  BY DEF TypeRank
<1>4. Place(p) \in Fives /\ Place(q) \in Fives
  BY PlacesDiffer
<1>5. p.r < q.r \/ (p.r = q.r /\ TypeRank(p.kind) < TypeRank(q.kind))
  BY <1>1, <1>2, <1>3, <1>4, LowerOfFives DEF Before
<1> QED BY <1>3, <1>5

LEMMA TypesFinite == IsFiniteSet(Types)
<1>1. IsFiniteSet({"json"})
  BY FS_Singleton
<1>2. IsFiniteSet({"json"} \cup {"ld"})
  BY <1>1, FS_AddElement
<1>3. IsFiniteSet(({"json"} \cup {"ld"}) \cup {"png"})
  BY <1>2, FS_AddElement
<1>4. Types = ({"json"} \cup {"ld"}) \cup {"png"}
  BY DEF Types
<1> QED BY <1>3, <1>4

RepIds(S) == {p.r : p \in S}
TypesIn(S, c, x) == {t \in Types : At(t, c, x) \in S}

\* The ids of representations of one Collection: each once for each of its types, on end.
LEMMA IdsAreRising ==
  ASSUME NEW S, S \subseteq Path, NEW c, \A p \in S : p.kind \in Types /\ p.c = c,
         NEW L, \A x \in Nat : L[x] = x,
         NEW M, \A p \in S : M[p.r] \in Nat /\ Cardinality(TypesIn(S, c, p.r)) <= M[p.r]
  PROVE  /\ Ids(S) \in Seq(RepIds(S))
         /\ Rising(Ids(S), L, M)
         /\ \A x \in RepIds(S) : Occurs(x, Ids(S))
<1> DEFINE q == Sorted(S, Before)
           ids == Ids(S)
           n == Len(q)
<1>1. /\ q \in Seq(S) /\ Lists(q, S)
      /\ \A i, j \in 1 .. n : i < j => Before(q[i], q[j])
  BY PathsAreRising
<1>2. ids = [i \in DOMAIN q |-> q[i].r]
  BY DEF Ids
<1> HIDE DEF q, ids
<1>3. n \in Nat /\ DOMAIN q = 1 .. n /\ \A i \in 1 .. n : q[i] \in S
  BY <1>1
<1> HIDE DEF n
<1>4. ids \in [1 .. n -> {p.r : p \in S}] /\ \A i \in 1 .. n : ids[i] = q[i].r
  BY <1>2, <1>3
<1>5. ids \in Seq({p.r : p \in S}) /\ Len(ids) = n
  BY <1>3, <1>4
<1>6. \A i \in 1 .. n : q[i] \in Path /\ q[i].r \in Nat /\ q[i] = At(q[i].kind, c, q[i].r) /\ q[i].kind \in Types
  <2> SUFFICES ASSUME NEW p \in S PROVE p \in Path /\ p.r \in Nat /\ p = At(p.kind, c, p.r) /\ p.kind \in Types
    BY <1>3
  <2> QED BY ConstantsAssumption DEF Path, At
<1>7. \A i, j \in 1 .. n : i < j => q[i].r < q[j].r \/ (q[i].r = q[j].r /\ q[i].kind # q[j].kind)
  <2> SUFFICES ASSUME NEW i \in 1 .. n, NEW j \in 1 .. n, i < j
               PROVE  q[i].r < q[j].r \/ (q[i].r = q[j].r /\ q[i].kind # q[j].kind)
    OBVIOUS
  <2>1. Before(q[i], q[j])
    BY <1>1 DEF n
  <2>2. q[i].c = q[j].c
    BY <1>3
  <2> QED BY <1>6, <2>1, <2>2, BeforeById
<1>8. ASSUME NEW i \in 1 .. n, NEW j \in 1 .. n, i < j, q[i].r = q[j].r
      PROVE  j - i < M[q[i].r]
  <2> DEFINE r == q[i].r
             T == {t \in Types : At(t, c, r) \in S}
             f == [k \in i .. j |-> q[k].kind]
  <2>1. i .. j \subseteq 1 .. n
    BY <1>3
  <2>2. ASSUME NEW k \in i .. j PROVE q[k].r = r
    <3>1. k = i \/ (i < k /\ q[i].r <= q[k].r)
      BY <1>6, <1>7, <2>1, <2>2, <1>3
    <3>2. k = j \/ (k < j /\ q[k].r <= q[j].r)
      BY <1>6, <1>7, <2>1, <2>2, <1>3
    <3> QED BY <1>6, <1>8, <2>1, <2>2, <3>1, <3>2
  <2>3. ASSUME NEW k \in i .. j PROVE q[k].kind \in T
    BY <1>3, <1>6, <2>1, <2>2, <2>3
  <2>4. ASSUME NEW k \in i .. j, NEW l \in i .. j, k # l PROVE q[k].kind # q[l].kind
    <3>1. k < l \/ l < k
      BY <1>3, <2>4
    <3> QED BY <1>6, <1>7, <2>1, <2>2, <2>4, <3>1
  <2> HIDE DEF T, r
  <2>5. f \in Injection(i .. j, T)
    BY <2>3, <2>4 DEF Injection, IsInjective
  <2>6. IsFiniteSet(T)
    BY TypesFinite, FS_Subset DEF T
  <2> HIDE DEF f
  <2>7. Cardinality(i .. j) <= Cardinality(T) /\ Cardinality(i .. j) = j - i + 1
    <3>1. i \in Int /\ j \in Int /\ ~(i > j)
      BY <1>3, <1>8
    <3> QED BY <2>5, <2>6, <3>1, FS_Injection, FS_Interval
  <2>8. Cardinality(T) <= M[r] /\ M[r] \in Nat /\ Cardinality(T) \in Nat
    BY <1>3, <2>6, FS_CardinalityType DEF r, T, TypesIn
  <2> QED BY <1>3, <2>7, <2>8 DEF r
<1>9. Rising(ids, L, M)
  <2> SUFFICES ASSUME NEW i \in 1 .. n, NEW j \in 1 .. n, i < j
               PROVE  L[ids[i]] < L[ids[j]] \/ (ids[i] = ids[j] /\ j - i < M[ids[i]])
    BY <1>5 DEF Rising
  <2>1. ids[i] = q[i].r /\ ids[j] = q[j].r /\ L[q[i].r] = q[i].r /\ L[q[j].r] = q[j].r
    BY <1>4, <1>6
  <2> QED BY <1>7, <1>8, <2>1
<1>10. ASSUME NEW p \in S PROVE Occurs(p.r, ids)
  <2>1. PICK i \in 1 .. n : q[i] = p
    BY <1>1 DEF Lists, n
  <2> QED BY <1>4, <1>5, <2>1 DEF Occurs
<1> QED BY <1>5, <1>9, <1>10 DEF ids, RepIds

\* The Spaces of a server, and the order and the numbers of times of their ids.
SpacesOk(spaces) ==
  IsFiniteSet(spaces) /\ spaces \subseteq [id : Nat, controller : STRING, auxiliary : BOOLEAN]
Identity(L) == \A x \in Nat : L[x] = x
Counts(M) == \A x \in Nat : M[x] \in Nat

\* Page by page through the Spaces of one controller.
LEMMA SpacesPageIsPage ==
  ASSUME NEW spaces, SpacesOk(spaces), NEW did,
         NEW cursor, cursor = None \/ cursor \in Nat, NEW size \in Nat \ {0},
         NEW L, Identity(L), NEW M, Counts(M)
  PROVE  /\ IsPage(SpacesPage(spaces, did, cursor, size), VisibleTo(spaces, did), cursor, L, M)
         /\ VisibleTo(spaces, did) \subseteq Nat
<1> USE DEF SpacesOk, Identity, Counts
<1> DEFINE rest1 == IF cursor = None THEN spaces ELSE {s \in spaces : s.id > cursor}
           S == VisibleTo(spaces, did)
           R == VisibleTo(rest1, did)
           items == Ascending(R)
           n == Len(items)
<1>1. S \subseteq Nat /\ R \subseteq S
  BY DEF VisibleTo
<1>2. \A x \in S : x \in R \/ (cursor # None /\ x <= cursor)
  BY <1>1 DEF VisibleTo
<1>3. cursor # None => \A x \in R : x > cursor
  BY DEF VisibleTo
<1>4. IsFiniteSet(R)
  <2> DEFINE V == {x \in rest1 : ~x.auxiliary /\ x.controller = did}
  <2>1. R = {s.id : s \in V}
    BY DEF VisibleTo
  <2>2. V \subseteq spaces
    OBVIOUS
  <2> HIDE DEF V
  <2>3. IsFiniteSet(V)
    BY <2>2, FS_Subset
  <2>4. IsFiniteSet({s.id : s \in V})
    <3> DEFINE f == [s \in V |-> s.id]
               T == {s.id : s \in V}
    <3>1. f \in Surjection(V, T)
      BY DEF Surjection
    <3> HIDE DEF f, T
    <3>2. IsFiniteSet(T)
      BY <2>3, <3>1, FS_Surjection
    <3> QED BY <3>2 DEF T
  <2> QED BY <2>1, <2>4
<1>5. SpacesPage(spaces, did, cursor, size) = Window(items, 1, size)
  BY DEF SpacesPage
<1> HIDE DEF S, R, rest1
<1>6. /\ items \in Seq(R) /\ Lists(items, R)
      /\ \A i, j \in 1 .. n : i < j => items[i] < items[j]
  BY <1>1, <1>4, AscendingIsRising
<1> HIDE DEF items
<1>7a. n \in Nat /\ items \in [1 .. n -> R]
  BY <1>6
<1>7. n \in Nat /\ \A i \in 1 .. n : items[i] \in R /\ items[i] \in S /\ items[i] \in Nat
  BY <1>1, <1>7a
<1>8. items \in Seq(S)
  <2>1. items \in [1 .. n -> S]
    BY <1>1, <1>7a
  <2> QED BY <1>7a, <2>1
<1>9. Rising(items, L, M)
  BY <1>6, <1>7 DEF Rising
<1>10. \A x \in S : (cursor # None /\ L[x] <= L[cursor]) \/ Occurs(x, items)
  BY <1>1, <1>2, <1>6 DEF Lists, Occurs
<1>11. cursor # None => L[cursor] \in Nat /\ \A i \in 1 .. Len(items) : L[cursor] < L[items[i]]
  BY <1>3, <1>7
<1>12. \A x \in S : L[x] \in Nat /\ M[x] \in Nat
  BY <1>1
<1>13. 1 \in 1 .. Len(items) + 1
  BY <1>7
<1>14. IsPage(Window(items, 1, size), S, cursor, L, M)
  BY <1>8, <1>9, <1>10, <1>11, <1>12, <1>13, WindowIsPage
<1> QED BY <1>1, <1>5, <1>14 DEF S

LEMMA PageSize ==
  ASSUME NEW limit \in Nat \cup {None}
  PROVE  ResolvePageSize(limit) \in Nat \ {0}
BY ListingAssumption DEF ResolvePageSize, ClampPageSize

\* A page behind the cursor goes on what was got up to it.
LEMMA JoinRises ==
  ASSUME NEW D, NEW got \in Seq(D), NEW page \in Seq(D), NEW L, NEW M,
         \A x \in D : L[x] \in Nat /\ M[x] \in Nat,
         Rising(got, L, M), Rising(page, L, M),
         got # <<>> => \A i \in 1 .. Len(page) : L[got[Len(got)]] < L[page[i]]
  PROVE  /\ got \o page \in Seq(D)
         /\ Rising(got \o page, L, M)
         /\ \A x : Occurs(x, got \o page) <=> Occurs(x, got) \/ Occurs(x, page)
         /\ page # <<>> => /\ got \o page # <<>>
                           /\ (got \o page)[Len(got \o page)] = page[Len(page)]
<1> DEFINE q == got \o page
           n == Len(got)
           m == Len(page)
<1>1. n \in Nat /\ m \in Nat /\ q \in Seq(D) /\ Len(q) = n + m
  OBVIOUS
<1>2. /\ \A i \in 1 .. n : q[i] = got[i] /\ got[i] \in D
      /\ \A i \in n + 1 .. n + m : q[i] = page[i - n] /\ i - n \in 1 .. m
      /\ \A i \in 1 .. m : page[i] \in D /\ q[n + i] = page[i] /\ n + i \in 1 .. n + m
  OBVIOUS
<1>2a. page # <<>> => m > 0
  OBVIOUS
<1>2b. n > 0 => got # <<>>
  OBVIOUS
<1> HIDE DEF q
<1>3. ASSUME NEW i \in 1 .. n PROVE L[got[i]] <= L[got[n]]
  <2>1. n \in 1 .. n /\ (i = n \/ i < n)
    BY <1>1
  <2> QED BY <1>2, <2>1 DEF Rising
<1>4. ASSUME NEW i \in 1 .. n + m, NEW j \in 1 .. n + m, i < j
      PROVE  L[q[i]] < L[q[j]] \/ (q[i] = q[j] /\ j - i < M[q[i]])
  <2>1. CASE j <= n
    <3>1. i \in 1 .. n /\ j \in 1 .. n
      BY <1>1, <1>4, <2>1
    <3> QED BY <1>2, <1>4, <3>1 DEF Rising
  <2>2. CASE i > n
    <3>1. i \in n + 1 .. n + m /\ j \in n + 1 .. n + m
      BY <1>1, <1>4, <2>2
    <3>2. q[i] = page[i - n] /\ q[j] = page[j - n] /\ i - n \in 1 .. m /\ j - n \in 1 .. m
      BY <1>2, <3>1
    <3>3. i - n < j - n /\ (j - n) - (i - n) = j - i
      BY <1>1, <1>4
    <3> HIDE DEF n, m
    <3> DEFINE a == i - n
               b == j - n
    <3>4. a \in 1 .. Len(page) /\ b \in 1 .. Len(page) /\ a < b /\ b - a = j - i
      BY <3>2, <3>3 DEF m
    <3>5. L[page[a]] < L[page[b]] \/ (page[a] = page[b] /\ b - a < M[page[a]])
      <4> HIDE DEF a, b
      <4> QED BY <3>4 DEF Rising
    <3> QED BY <3>2, <3>4, <3>5
  <2>3. CASE i <= n /\ n < j
    <3>1. i \in 1 .. n /\ j \in n + 1 .. n + m
      BY <1>1, <1>4, <2>3
    <3>2. q[i] = got[i] /\ q[j] = page[j - n] /\ j - n \in 1 .. m /\ n > 0
      BY <1>1, <1>2, <3>1
    <3>3. L[got[n]] < L[page[j - n]] /\ L[got[i]] <= L[got[n]]
      BY <1>2b, <1>3, <3>1, <3>2
    <3>4. L[got[n]] \in Nat /\ L[got[i]] \in Nat /\ L[page[j - n]] \in Nat
      <4>1. n \in 1 .. n
        BY <1>1, <3>2
      <4> QED BY <1>2, <3>1, <3>2, <4>1
    <3> QED BY <3>2, <3>3, <3>4
  <2> QED BY <1>1, <1>4, <2>1, <2>2, <2>3
<1>5. Rising(q, L, M)
  BY <1>1, <1>4 DEF Rising
<1>6. ASSUME NEW x PROVE Occurs(x, q) <=> Occurs(x, got) \/ Occurs(x, page)
  <2>1. ASSUME Occurs(x, q) PROVE Occurs(x, got) \/ Occurs(x, page)
    <3>1. PICK i \in 1 .. n + m : q[i] = x
      BY <1>1, <2>1 DEF Occurs
    <3>2. i \in 1 .. n \/ i \in n + 1 .. n + m
      BY <1>1
    <3> QED BY <1>2, <3>1, <3>2 DEF Occurs
  <2>2. ASSUME Occurs(x, got) PROVE Occurs(x, q)
    <3>1. PICK i \in 1 .. n : got[i] = x
      BY <2>2 DEF Occurs
    <3>2. i \in 1 .. Len(q)
      BY <1>1
    <3> QED BY <1>2, <3>1, <3>2 DEF Occurs
  <2>3. ASSUME Occurs(x, page) PROVE Occurs(x, q)
    <3>1. PICK i \in 1 .. m : page[i] = x
      BY <2>3 DEF Occurs
    <3>2. n + i \in 1 .. Len(q)
      BY <1>1, <1>2
    <3> QED BY <1>2, <3>1, <3>2 DEF Occurs
  <2> QED BY <2>1, <2>2, <2>3
<1>7. page # <<>> => q # <<>> /\ q[Len(q)] = page[Len(page)]
  <2> SUFFICES ASSUME page # <<>> PROVE q # <<>> /\ q[Len(q)] = page[m]
    OBVIOUS
  <2>1. m \in 1 .. m /\ Len(q) # 0
    BY <1>1, <1>2a
  <2> QED BY <1>1, <1>2, <2>1
<1> QED BY <1>1, <1>5, <1>6, <1>7 DEF q

----------------------------------------------------------------------------
(* What a listing has delivered.                                            *)

IdsOf(r) == IF r.kind = "keys" THEN 0 .. MaxId ELSE Nat
RankOf(r) == [x \in IdsOf(r) |-> Rank(r, x)]
TimesOf(r, h) == [x \in IdsOf(r) |-> Times(r, h, x)]
KeysOf(t) == {p.r : p \in {q \in DOMAIN t.files : q.kind = "key"}}

\* What was got is in order, and each id may be listed; a key that was got is still there.
Delivered(got, r, h) ==
  /\ got \in Seq(IdsOf(r))
  /\ Rising(got, RankOf(r), TimesOf(r, h))
  /\ \A i \in 1 .. Len(got) : got[i] \in MayList(r, h)
  /\ r.kind = "keys" => \A i \in 1 .. Len(got) : got[i] \in KeysOf(tree)

\* Up to the cursor, which is the last id got, nothing was missed.
AtCursor(got, cursor, r, h) ==
  \/ cursor = None /\ got = <<>>
  \/ /\ got # <<>> /\ cursor = got[Len(got)]
     /\ \A x \in MustList(r, h) : RankOf(r)[x] <= RankOf(r)[cursor] => Occurs(x, got)

Complete(got, r, h) == \A x \in MustList(r, h) : Occurs(x, got)

LEMMA RanksAndTimes ==
  ASSUME NEW r, NEW h
  PROVE  /\ \A x \in IdsOf(r) : RankOf(r)[x] \in Nat /\ TimesOf(r, h)[x] \in Nat
         /\ r.kind # "keys" => \A x \in Nat : RankOf(r)[x] = x
         /\ r.kind = "keys" => RankOf(r) = Locale /\ TimesOf(r, h) = [x \in 0 .. MaxId |-> 1]
         /\ None \notin IdsOf(r)
<1>1. ASSUME NEW x \in IdsOf(r) PROVE Times(r, h, x) \in Nat
  <2>1. IsFiniteSet({t \in Types : Was(h, At(t, r.c, x)) # {}})
    BY TypesFinite, FS_Subset
  <2> QED BY <2>1, FS_CardinalityType DEF Times
<1>2. \A x \in IdsOf(r) : Rank(r, x) \in Nat
  BY ListingAssumption DEF IdsOf, Rank
<1>3. None \notin IdsOf(r)
  BY ListingAssumption DEF IdsOf
<1>4. r.kind # "keys" => \A x \in Nat : RankOf(r)[x] = x
  BY DEF RankOf, IdsOf, Rank
<1>5. r.kind = "keys" => RankOf(r) = Locale /\ TimesOf(r, h) = [x \in 0 .. MaxId |-> 1]
  BY ListingAssumption DEF RankOf, TimesOf, IdsOf, Rank, Times
<1> QED BY <1>1, <1>2, <1>3, <1>4, <1>5 DEF RankOf, TimesOf

\* A page of ids that may be listed, all that must be among them.
LEMMA PageDelivers ==
  ASSUME NEW r, NEW h, NEW got, NEW cursor, Delivered(got, r, h), AtCursor(got, cursor, r, h),
         NEW S, S \subseteq IdsOf(r), S \subseteq MayList(r, h), MustList(r, h) \subseteq S,
         r.kind = "keys" => S \subseteq KeysOf(tree),
         NEW w, IsPage(w, S, cursor, RankOf(r), TimesOf(r, h))
  PROVE  /\ Delivered(got \o w.page, r, h)
         /\ w.more => AtCursor(got \o w.page, w.page[Len(w.page)], r, h)
         /\ ~w.more => Complete(got \o w.page, r, h)
<1> DEFINE D == IdsOf(r)
           L == RankOf(r)
           M == TimesOf(r, h)
           page == w.page
           q == got \o page
<1>1. \A x \in D : L[x] \in Nat /\ M[x] \in Nat
  BY RanksAndTimes
<1>2. got \in Seq(D) /\ Rising(got, L, M)
  BY DEF Delivered
<1>3. page \in Seq(S) /\ Rising(page, L, M) /\ (w.more => page # <<>>)
  BY DEF IsPage
<1>4. page \in Seq(D)
  <2>1. page \in [1 .. Len(page) -> S] /\ Len(page) \in Nat
    BY <1>3
  <2>2. page \in [1 .. Len(page) -> D]
    BY <2>1
  <2> QED BY <2>1, <2>2
<1>5. got # <<>> => cursor # None /\ cursor = got[Len(got)] /\ cursor \in D
  <2> SUFFICES ASSUME got # <<>> PROVE cursor # None /\ cursor = got[Len(got)] /\ cursor \in D
    OBVIOUS
  <2>1. cursor = got[Len(got)]
    BY DEF AtCursor
  <2>2. got[Len(got)] \in D
    <3> HIDE DEF D
    <3> QED BY <1>2
  <2> QED BY <2>1, <2>2, RanksAndTimes
<1>6. got # <<>> => \A i \in 1 .. Len(page) : L[got[Len(got)]] < L[page[i]]
  BY <1>5 DEF IsPage
<1> HIDE DEF D, L, M
<1>7. /\ q \in Seq(D) /\ Rising(q, L, M)
      /\ \A x : Occurs(x, q) <=> Occurs(x, got) \/ Occurs(x, page)
      /\ page # <<>> => q # <<>> /\ q[Len(q)] = page[Len(page)]
  BY <1>1, <1>2, <1>3, <1>4, <1>6, JoinRises
<1>8. \A i \in 1 .. Len(page) : page[i] \in S
  BY <1>3
<1>9. ASSUME NEW i \in 1 .. Len(q)
      PROVE  q[i] \in MayList(r, h) /\ (r.kind = "keys" => q[i] \in KeysOf(tree))
  <2>1. Occurs(q[i], q)
    BY DEF Occurs
  <2>2. Occurs(q[i], got) \/ Occurs(q[i], page)
    BY <1>7, <2>1
  <2> QED BY <1>8, <2>2 DEF Occurs, Delivered
<1> HIDE DEF page, q
<1>10. Delivered(q, r, h)
  BY <1>7, <1>9 DEF Delivered, D, L, M
<1>11. \A x \in S : \/ cursor # None /\ L[x] <= L[cursor]
                    \/ Occurs(x, page)
                    \/ w.more /\ L[page[Len(page)]] < L[x]
  BY DEF IsPage, page, L
<1>12. ASSUME NEW x \in MustList(r, h), cursor # None, L[x] <= L[cursor] PROVE Occurs(x, got)
  BY <1>12 DEF AtCursor, L
<1>13. ASSUME w.more PROVE AtCursor(q, page[Len(page)], r, h)
  <2>1. page # <<>> /\ Len(page) \in 1 .. Len(page)
    BY <1>3, <1>13
  <2>2. page[Len(page)] \in D
    BY <1>8, <2>1 DEF D
  <2>3. ASSUME NEW x \in MustList(r, h), L[x] <= L[page[Len(page)]] PROVE Occurs(x, q)
    <3>1. x \in D /\ x \in S
      BY DEF D
    <3>2. ~ (L[page[Len(page)]] < L[x])
      BY <1>1, <2>2, <2>3, <3>1
    <3> QED BY <1>7, <1>11, <1>12, <3>1, <3>2
  <2> QED BY <1>7, <2>1, <2>3 DEF AtCursor, L
<1>14. ASSUME ~w.more PROVE Complete(q, r, h)
  BY <1>7, <1>11, <1>12, <1>14 DEF Complete
<1> QED BY <1>10, <1>13, <1>14 DEF q, page

\* With view v: of the representations listed, what was read, and is still in `left` to be.
ReadSoFar(listed, copy, left, r, h) ==
  /\ \A p \in listed : /\ p \in Path /\ p.kind \in Types /\ p.c = r.c
                       /\ Was(h, p) # {}
                       /\ At("live", p.c, p.r) \in AtSomeTime(h, "live")
  /\ \A p \in DOMAIN copy.files : copy.files[p] \in Was(h, p)
  /\ \A f \in h.always :
       f[1].kind \in Types /\ f[1].c = r.c
         /\ (r.query.profile = "blinded" => f[1].kind \in JsonTypes) => f[1] \in listed
  /\ \A f \in h.always : f[1].kind \in JsonTypes /\ f[1].c = r.c =>
       f[1] \in left \/ Holds(copy, f)
  /\ r.query.profile # "blinded" =>
       \A f \in h.always : \A p \in listed :
         f[1] = Sidecar(p.c, p.r) => f[1] \in left \/ Holds(copy, f)

Enlisted(p, v, r, h) ==
  /\ Delivered(v.got, r, h)
  /\ IF p = "listed" THEN Complete(v.got, r, h) ELSE AtCursor(v.got, v.cursor, r, h)
  /\ p = "begin" => DOMAIN v.copy.files = {}
  /\ p = "reading" => r.kind = "query" /\ ReadSoFar(v.listed, v.copy, v.left, r, h)

ListOk(s) ==
  /\ pc[s] = "listed" => request[s] # None /\ request[s].kind \in Listings
  /\ request[s] # None /\ request[s].kind \in Listings =>
       Enlisted(pc[s], view[s], request[s], seen[s])

\* While time goes on, more may be listed, and less must be.
LEMMA ListsGoOn ==
  ASSUME NEW h, NEW g, GoesOn(h, g), NEW r, r.kind \in Listings
  PROVE  /\ \A p : Was(h, p) \subseteq Was(g, p)
         /\ \A kind : AtSomeTime(h, kind) \subseteq AtSomeTime(g, kind)
         /\ MayList(r, h) \subseteq MayList(r, g)
         /\ MustList(r, g) \subseteq MustList(r, h)
         /\ \A x \in IdsOf(r) : TimesOf(r, h)[x] <= TimesOf(r, g)[x]
<1>1. \A p : Was(h, p) \subseteq Was(g, p) /\ Stayed(g, p) \subseteq Stayed(h, p)
  BY DEF GoesOn, Was, Stayed
<1>2. \A kind : /\ AtSomeTime(h, kind) \subseteq AtSomeTime(g, kind)
                /\ Throughout(g, kind) \subseteq Throughout(h, kind)
  BY DEF GoesOn, AtSomeTime, Throughout
<1>3. MayList(r, h) \subseteq MayList(r, g)
  <2>1. CASE r.kind = "keys"
    BY <1>2, <2>1 DEF MayList
  <2>2. CASE r.kind = "spaces"
    BY <1>2, <2>2 DEF MayList
  <2>3. CASE r.kind = "collections"
    BY <1>2, <2>3 DEF MayList
  <2>4. CASE r.kind = "items"
    BY <1>2, <2>4 DEF MayList
  <2>5. CASE r.kind = "query"
    <3> DEFINE bodies(k, p) == {None} \cup {v.body : v \in Was(k, p)}
               Matching(k, q) ==
                 \E content \in UNION {bodies(k, At(t, q.c, q.r)) : t \in JsonTypes} :
                   \E custom \in bodies(k, Sidecar(q.c, q.r)) : Matches(r.query, content, custom)
    <3>1. \A p : bodies(h, p) \subseteq bodies(g, p)
      BY <1>1
    <3>2. /\ MayList(r, h) = {p.r : p \in {q \in AtSomeTime(h, "live") : q.c = r.c /\ Matching(h, q)}}
          /\ MayList(r, g) = {p.r : p \in {q \in AtSomeTime(g, "live") : q.c = r.c /\ Matching(g, q)}}
      BY <2>5 DEF MayList
    <3> HIDE DEF bodies
    <3>3. \A q : Matching(h, q) => Matching(g, q)
      BY <3>1
    <3> HIDE DEF Matching
    <3> QED BY <1>2, <3>2, <3>3
  <2> QED BY <2>1, <2>2, <2>3, <2>4, <2>5 DEF Listings
<1>4. MustList(r, g) \subseteq MustList(r, h)
  <2>1. CASE r.kind = "keys"
    BY <1>2, <2>1 DEF MustList
  <2>2. CASE r.kind = "spaces"
    BY <1>2, <2>2 DEF MustList
  <2>3. CASE r.kind = "collections"
    BY <1>2, <2>3 DEF MustList
  <2>4. CASE r.kind = "items"
    BY <1>2, <2>4 DEF MustList
  <2>5. CASE r.kind = "query"
    BY <1>1, <2>5 DEF MustList
  <2> QED BY <2>1, <2>2, <2>3, <2>4, <2>5 DEF Listings
<1>5. ASSUME NEW x \in IdsOf(r) PROVE Times(r, h, x) <= Times(r, g, x)
  <2> DEFINE T(k) == {t \in Types : Was(k, At(t, r.c, x)) # {}}
  <2>1. T(h) \subseteq T(g) /\ T(g) \subseteq Types
    BY <1>1
  <2>2. /\ Times(r, h, x) = IF r.kind \in {"items", "query"} THEN Cardinality(T(h)) ELSE 1
        /\ Times(r, g, x) = IF r.kind \in {"items", "query"} THEN Cardinality(T(g)) ELSE 1
    BY DEF Times
  <2> HIDE DEF T
  <2>3. Cardinality(T(h)) <= Cardinality(T(g))
    <3>1. IsFiniteSet(T(g))
      BY <2>1, TypesFinite, FS_Subset
    <3> QED BY <2>1, <3>1, FS_Subset
  <2> QED BY <2>2, <2>3
<1> QED BY <1>1, <1>2, <1>3, <1>4, <1>5 DEF TimesOf

LEMMA DeliveredGoesOn ==
  ASSUME NEW h, NEW g, GoesOn(h, g), NEW r, r.kind \in Listings, NEW got, Delivered(got, r, h)
  PROVE  Delivered(got, r, g)
<1>1. \A x \in IdsOf(r) : TimesOf(r, h)[x] \in Nat /\ TimesOf(r, g)[x] \in Nat /\ TimesOf(r, h)[x] <= TimesOf(r, g)[x]
  BY ListsGoOn, RanksAndTimes
<1>2. got \in Seq(IdsOf(r)) /\ Rising(got, RankOf(r), TimesOf(r, h))
  BY DEF Delivered
<1>3. Len(got) \in Nat /\ \A i \in 1 .. Len(got) : got[i] \in IdsOf(r)
  BY <1>2
<1>4. Rising(got, RankOf(r), TimesOf(r, g))
  <2> SUFFICES ASSUME NEW i \in 1 .. Len(got), NEW j \in 1 .. Len(got), i < j
               PROVE  \/ RankOf(r)[got[i]] < RankOf(r)[got[j]]
                      \/ got[i] = got[j] /\ j - i < TimesOf(r, g)[got[i]]
    BY DEF Rising
  <2>1. \/ RankOf(r)[got[i]] < RankOf(r)[got[j]]
        \/ got[i] = got[j] /\ j - i < TimesOf(r, h)[got[i]]
    BY <1>2 DEF Rising
  <2>2. got[i] \in IdsOf(r) /\ i \in Nat /\ j \in Nat
    BY <1>3
  <2> QED BY <1>1, <2>1, <2>2
<1>5. MayList(r, h) \subseteq MayList(r, g)
  BY ListsGoOn
<1> QED BY <1>2, <1>4, <1>5 DEF Delivered

LEMMA EnlistedGoesOn ==
  ASSUME NEW h, NEW g, GoesOn(h, g), NEW r, r.kind \in Listings, NEW p, NEW v, Enlisted(p, v, r, h)
  PROVE  Enlisted(p, v, r, g)
<1>1. /\ \A x : Was(h, x) \subseteq Was(g, x)
      /\ AtSomeTime(h, "live") \subseteq AtSomeTime(g, "live")
      /\ MustList(r, g) \subseteq MustList(r, h)
      /\ g.always \subseteq h.always
  BY ListsGoOn DEF GoesOn
<1>2. Delivered(v.got, r, g)
  BY DeliveredGoesOn DEF Enlisted
<1>3. Complete(v.got, r, h) => Complete(v.got, r, g)
  BY <1>1 DEF Complete
<1>4. AtCursor(v.got, v.cursor, r, h) => AtCursor(v.got, v.cursor, r, g)
  BY <1>1 DEF AtCursor
<1>5. ReadSoFar(v.listed, v.copy, v.left, r, h) => ReadSoFar(v.listed, v.copy, v.left, r, g)
  <2> SUFFICES ASSUME ReadSoFar(v.listed, v.copy, v.left, r, h)
               PROVE  ReadSoFar(v.listed, v.copy, v.left, r, g)
    OBVIOUS
  <2>1. \A x \in v.listed : /\ x \in Path /\ x.kind \in Types /\ x.c = r.c
                            /\ Was(g, x) # {} /\ At("live", x.c, x.r) \in AtSomeTime(g, "live")
    BY <1>1 DEF ReadSoFar
  <2>2. \A x \in DOMAIN v.copy.files : v.copy.files[x] \in Was(g, x)
    BY <1>1 DEF ReadSoFar
  <2> QED BY <1>1, <2>1, <2>2 DEF ReadSoFar
<1> QED BY <1>2, <1>3, <1>4, <1>5 DEF Enlisted

LEMMA LiveFacts ==
  ASSUME NEW t, IsTree(t)
  PROVE  /\ \A f \in Facts(t) : f[1].kind = "live" =>
              \E p \in DOMAIN t.files : p.kind \in Types /\ p.c = f[1].c /\ p.r = f[1].r
         /\ \A p \in DOMAIN t.files : p.kind \in Types =>
              \E f \in Facts(t) : f[1] = At("live", p.c, p.r)
<1>1. "live" \notin Kinds
  BY DEF Kinds, Types
<1>2. \A p \in DOMAIN t.files : p.kind \in Kinds
  BY DEF IsTree, Path
<1>3. ASSUME NEW f \in Facts(t), f[1].kind = "live"
      PROVE  \E p \in DOMAIN t.files : p.kind \in Types /\ p.c = f[1].c /\ p.r = f[1].r
  <2>1. f[1] \notin DOMAIN t.files
    BY <1>1, <1>2, <1>3
  <2>2. ~ \E c \in t.dirs \ {0} : f = <<At("dir", c, 0), None>>
    BY <1>3 DEF At
  <2>3. PICK p \in {q \in DOMAIN t.files : q.kind \in Types} : f = <<At("live", p.c, p.r), None>>
    BY <2>1, <2>2 DEF Facts
  <2>4. f[1] = At("live", p.c, p.r)
    BY <2>3
  <2> QED BY <2>3, <2>4 DEF At
<1>4. ASSUME NEW p \in DOMAIN t.files, p.kind \in Types
      PROVE  \E f \in Facts(t) : f[1] = At("live", p.c, p.r)
  <2>1. <<At("live", p.c, p.r), None>> \in Facts(t)
    BY <1>4 DEF Facts
  <2> QED BY <2>1
<1> QED BY <1>3, <1>4

\* What is stored now was stored at some time, and what always was is.
LEMMA SeenNow ==
  ASSUME NEW h, NEW t, IsTree(t), Saw(h, t)
  PROVE  /\ \A p \in DOMAIN t.files : t.files[p] \in Was(h, p) /\ p \in AtSomeTime(h, p.kind)
         /\ \A p \in DOMAIN t.files : p.kind \in Types =>
              At("live", p.c, p.r) \in AtSomeTime(h, "live")
         /\ \A c \in t.dirs \ {0} : \E d \in AtSomeTime(h, "dir") : d.c = c
         /\ \A d \in Throughout(h, "dir") : d.c \in t.dirs \ {0}
         /\ \A kind \in Kinds : Throughout(h, kind) \subseteq {p \in DOMAIN t.files : p.kind = kind}
         /\ \A q \in Throughout(h, "live") :
              \E p \in DOMAIN t.files : p.kind \in Types /\ p.c = q.c /\ p.r = q.r
<1>1. h.always \subseteq Facts(t) /\ Facts(t) \subseteq h.ever
  BY DEF Saw
<1>2. ASSUME NEW p \in DOMAIN t.files
      PROVE  t.files[p] \in Was(h, p) /\ p \in AtSomeTime(h, p.kind)
  <2>1. PICK f \in Facts(t) : f[1] = p /\ f[2] = t.files[p]
    BY FactsOf
  <2> QED BY <1>1, <2>1 DEF Was, AtSomeTime
<1>3. ASSUME NEW p \in DOMAIN t.files, p.kind \in Types
      PROVE  At("live", p.c, p.r) \in AtSomeTime(h, "live")
  <2>1. PICK f \in Facts(t) : f[1] = At("live", p.c, p.r)
    BY <1>3, LiveFacts
  <2>2. f[1].kind = "live"
    BY <2>1 DEF At
  <2> QED BY <1>1, <2>1, <2>2 DEF AtSomeTime
<1>4. ASSUME NEW c \in t.dirs \ {0} PROVE \E d \in AtSomeTime(h, "dir") : d.c = c
  <2>1. PICK f \in Facts(t) : f[1].kind = "dir" /\ f[1].c = c
    BY FactsOf
  <2> QED BY <1>1, <2>1 DEF AtSomeTime
<1>5. \A d \in Throughout(h, "dir") : d.c \in t.dirs \ {0}
  BY <1>1, FactsOf DEF Throughout
<1>6. \A kind \in Kinds : Throughout(h, kind) \subseteq {p \in DOMAIN t.files : p.kind = kind}
  BY <1>1, FactsOf DEF Throughout
<1>7. \A q \in Throughout(h, "live") :
        \E p \in DOMAIN t.files : p.kind \in Types /\ p.c = q.c /\ p.r = q.r
  BY <1>1, LiveFacts DEF Throughout
<1> QED BY <1>2, <1>3, <1>4, <1>5, <1>6, <1>7

\* The page w serves the listing r: it is one of ids that may be listed, with all that must be.
Serves(w, cursor, r, h) ==
  \E S : /\ S \subseteq IdsOf(r) /\ S \subseteq MayList(r, h) /\ MustList(r, h) \subseteq S
         /\ r.kind = "keys" => S \subseteq KeysOf(tree)
         /\ IsPage(w, S, cursor, RankOf(r), TimesOf(r, h))

IsCursor(cursor, r) == cursor = None \/ (cursor \in IdsOf(r) /\ (r.kind = "keys" => cursor \in KeysOf(tree)))

LEMMA KeysServe ==
  ASSUME IsTree(tree), NEW r, r.kind = "keys", NEW h, Saw(h, tree), NEW cursor, IsCursor(cursor, r)
  PROVE  Serves(PageOf(tree, r, cursor), cursor, r, h)
<1> DEFINE S == KeysOf(tree)
<1>1. PageOf(tree, r, cursor) = KeyPage(S, cursor)
  BY DEF PageOf, KeysOf
<1>2. S \subseteq 0 .. MaxId
  BY DEF KeysOf, IsTree, Path
<1>3. IsPage(KeyPage(S, cursor), S, cursor, RankOf(r), TimesOf(r, h))
  <2>1. cursor = None \/ cursor \in S
    BY DEF IsCursor
  <2> HIDE DEF S
  <2> QED BY <1>2, <2>1, KeyPageIsPage, RanksAndTimes
<1>4. S \subseteq MayList(r, h)
  BY SeenNow DEF MayList, KeysOf
<1>5. MustList(r, h) \subseteq S
  <2>1. "key" \in Kinds
    BY DEF Kinds
  <2> QED BY <2>1, SeenNow DEF MustList, KeysOf
<1> QED BY <1>1, <1>2, <1>3, <1>4, <1>5 DEF Serves, IdsOf

LEMMA SpacesServe ==
  ASSUME IsTree(tree), NEW r, r.kind = "spaces", r.limit \in Nat \cup {None}, NEW h, Saw(h, tree),
         NEW cursor, IsCursor(cursor, r)
  PROVE  Serves(PageOf(tree, r, cursor), cursor, r, h)
<1> DEFINE all == Spaces \cup (IF Has(tree, SpaceFile) THEN {Here} ELSE {})
           did == Here.controller
           size == ResolvePageSize(r.limit)
           S == VisibleTo(all, did)
<1>1. PageOf(tree, r, cursor) = SpacesPage(all, did, cursor, size)
  BY DEF PageOf
<1>2. IsFiniteSet(all) /\ all \subseteq [id : Nat, controller : STRING, auxiliary : BOOLEAN]
  <2>1. IsFiniteSet(Spaces) /\ IsFiniteSet(Spaces \cup {Here})
    BY ListingAssumption, FS_AddElement
  <2>2. all \subseteq Spaces \cup {Here} /\ (all = Spaces \/ all = Spaces \cup {Here})
    OBVIOUS
  <2> QED BY <2>1, <2>2, ListingAssumption
<1>3. size \in Nat \ {0}
  BY PageSize
<1>4. /\ VisibleTo(Spaces, did) \subseteq S
      /\ Has(tree, SpaceFile) => Here.id \in S
      /\ S \subseteq VisibleTo(Spaces, did) \cup (IF Has(tree, SpaceFile) THEN {Here.id} ELSE {})
  <2>1. Here.controller = did /\ ~Here.auxiliary
    BY ListingAssumption
  <2> QED BY <2>1 DEF VisibleTo
<1>5. SpaceFile.kind = "space"
  BY DEF SpaceFile, At
<1>6. MustList(r, h) \subseteq S
  <2>1. Throughout(h, "space") # {} => Has(tree, SpaceFile)
    <3>1. "space" \in Kinds
      BY DEF Kinds
    <3>2. \A p \in DOMAIN tree.files : p.kind = "space" => p = SpaceFile
      BY DEF IsTree, Path, SpaceFile, At
    <3> QED BY <3>1, <3>2, SeenNow DEF Has
  <2> QED BY <1>4, <2>1 DEF MustList
<1>7. S \subseteq MayList(r, h)
  <2>1. Has(tree, SpaceFile) => AtSomeTime(h, "space") # {}
    BY <1>5, SeenNow DEF Has
  <2> QED BY <1>4, <2>1 DEF MayList
<1> HIDE DEF all, size, did, S
<1>8. /\ IsPage(SpacesPage(all, did, cursor, size), VisibleTo(all, did), cursor, RankOf(r), TimesOf(r, h))
      /\ VisibleTo(all, did) \subseteq Nat
  <2>1. Identity(RankOf(r))
    BY RanksAndTimes DEF Identity
  <2>2. Counts(TimesOf(r, h))
    BY RanksAndTimes DEF IdsOf, Counts
  <2>3. cursor = None \/ cursor \in Nat
    BY DEF IsCursor, IdsOf
  <2>4. SpacesOk(all)
    BY <1>2 DEF SpacesOk
  <2> QED BY <1>3, <2>1, <2>2, <2>3, <2>4, SpacesPageIsPage
<1> QED BY <1>1, <1>6, <1>7, <1>8 DEF Serves, IdsOf, S

LEMMA CollectionsServe ==
  ASSUME IsTree(tree), NEW r, r.kind = "collections", r.limit \in Nat \cup {None}, NEW h, Saw(h, tree),
         NEW cursor, IsCursor(cursor, r), Has(tree, SpaceFile)
  PROVE  Serves(PageOf(tree, r, cursor), cursor, r, h)
<1> DEFINE S == tree.dirs \ {0}
           items == Ascending(S)
           size == ResolvePageSize(r.limit)
<1>1. PageOf(tree, r, cursor) = SeekPage(items, cursor, size)
  BY DEF PageOf
<1>2. S \subseteq Nat /\ IsFiniteSet(S)
  <2>1. S \subseteq 0 .. MaxId
    BY DEF IsTree
  <2>2. IsFiniteSet(0 .. MaxId)
    BY ConstantsAssumption, FS_Interval
  <2> HIDE DEF S
  <2>3. S \in SUBSET (0 .. MaxId)
    BY <2>1
  <2>4. IsFiniteSet(S)
    BY <2>2, <2>3, FS_Subset
  <2> QED BY <2>1, <2>4
<1>3. size \in Nat \ {0}
  BY PageSize
<1>4. S \subseteq MayList(r, h)
  BY SeenNow DEF MayList
<1>5. MustList(r, h) \subseteq S
  BY SeenNow DEF MustList
<1> HIDE DEF S
<1>6. /\ items \in Seq(S) /\ Lists(items, S)
      /\ \A i, j \in 1 .. Len(items) : i < j => items[i] < items[j]
  BY <1>2, AscendingIsRising
<1> HIDE DEF items, size
<1>7. \A x \in Nat : RankOf(r)[x] = x /\ TimesOf(r, h)[x] \in Nat
  BY RanksAndTimes DEF IdsOf
<1>8. Rising(items, RankOf(r), TimesOf(r, h))
  <2>1. \A i \in 1 .. Len(items) : items[i] \in S
    BY <1>6
  <2>2. \A i \in 1 .. Len(items) : items[i] \in Nat
    BY <1>2, <2>1
  <2> QED BY <1>6, <1>7, <2>2 DEF Rising
<1>9. \A x \in S : Occurs(x, items) /\ TimesOf(r, h)[x] \in Nat
  BY <1>2, <1>6, <1>7 DEF Lists, Occurs
<1>10. cursor = None \/ cursor \in Nat
  BY DEF IsCursor, IdsOf
<1>11. IsPage(SeekPage(items, cursor, size), S, cursor, RankOf(r), TimesOf(r, h))
  BY <1>2, <1>3, <1>6, <1>7, <1>8, <1>9, <1>10, SeekIsPage
<1> QED BY <1>1, <1>2, <1>4, <1>5, <1>11 DEF Serves, IdsOf

\* A page of the ids of some representations of a Collection.
LEMMA IdsServe ==
  ASSUME NEW r, r.kind \in {"items", "query"}, NEW h, NEW cursor, IsCursor(cursor, r),
         NEW size \in Nat \ {0}, NEW reps, reps \subseteq Path,
         \A p \in reps : p.kind \in Types /\ p.c = r.c /\ Was(h, p) # {},
         RepIds(reps) \subseteq MayList(r, h), MustList(r, h) \subseteq RepIds(reps)
  PROVE  Serves(SeekPage(Ids(reps), cursor, size), cursor, r, h)
<1> DEFINE S == {p.r : p \in reps}
<1>1. S \subseteq Nat
  BY ConstantsAssumption DEF Path
<1>2. \A x \in Nat : RankOf(r)[x] = x /\ TimesOf(r, h)[x] \in Nat
  BY RanksAndTimes DEF IdsOf
<1>3. ASSUME NEW p \in reps
      PROVE  /\ TimesOf(r, h)[p.r] \in Nat
             /\ Cardinality(TypesIn(reps, r.c, p.r)) <= TimesOf(r, h)[p.r]
  <2> DEFINE T == {t \in Types : At(t, r.c, p.r) \in reps}
             U == {t \in Types : Was(h, At(t, r.c, p.r)) # {}}
  <2>1. T \subseteq U
    OBVIOUS
  <2>2. p.r \in Nat
    BY <1>1
  <2>3. TimesOf(r, h)[p.r] = Cardinality(U)
    BY <2>2 DEF TimesOf, Times, IdsOf
  <2>4. IsFiniteSet(U)
    BY TypesFinite, FS_Subset
  <2> HIDE DEF T, U
  <2>5. Cardinality(T) <= Cardinality(U)
    BY <2>1, <2>4, FS_Subset
  <2> QED BY <1>2, <2>2, <2>3, <2>5 DEF T, TypesIn
<1>4. /\ Ids(reps) \in Seq(S)
      /\ Rising(Ids(reps), RankOf(r), TimesOf(r, h))
      /\ \A x \in S : Occurs(x, Ids(reps))
  <2> DEFINE L == RankOf(r)
             M == TimesOf(r, h)
             c == r.c
  <2>1. \A x \in Nat : L[x] = x
    BY <1>2
  <2>2. \A p \in reps : M[p.r] \in Nat /\ Cardinality(TypesIn(reps, c, p.r)) <= M[p.r]
    BY <1>3
  <2>3. \A p \in reps : p.kind \in Types /\ p.c = c
    OBVIOUS
  <2>4. reps \subseteq Path
    OBVIOUS
  <2> HIDE DEF L, M, c
  <2>5. /\ Ids(reps) \in Seq(RepIds(reps))
        /\ Rising(Ids(reps), L, M)
        /\ \A x \in RepIds(reps) : Occurs(x, Ids(reps))
    BY <2>1, <2>2, <2>3, <2>4, IdsAreRising
  <2> QED BY <2>5 DEF L, M, RepIds
<1> HIDE DEF S
<1>5. cursor = None \/ cursor \in Nat
  BY DEF IsCursor, IdsOf
<1>6. IsPage(SeekPage(Ids(reps), cursor, size), S, cursor, RankOf(r), TimesOf(r, h))
  BY <1>1, <1>2, <1>4, <1>5, SeekIsPage
<1> QED BY <1>1, <1>6 DEF Serves, IdsOf, S, RepIds

LEMMA ItemsServe ==
  ASSUME IsTree(tree), NEW r, r.kind = "items", r.limit \in Nat \cup {None}, NEW h, Saw(h, tree),
         NEW cursor, IsCursor(cursor, r), Has(tree, DescriptionFile(r.c))
  PROVE  Serves(PageOf(tree, r, cursor), cursor, r, h)
<1> DEFINE reps == {p \in DOMAIN tree.files : p.kind \in Types /\ p.c = r.c}
           size == ResolvePageSize(r.limit)
<1>1. PageOf(tree, r, cursor) = SeekPage(Ids(reps), cursor, size)
  BY DEF PageOf, ItemsOf
<1>2. size \in Nat \ {0}
  BY PageSize
<1>3. reps \subseteq Path /\ \A p \in reps : p.kind \in Types /\ p.c = r.c /\ Was(h, p) # {}
  BY SeenNow DEF IsTree
<1>4. RepIds(reps) \subseteq MayList(r, h)
  <2> SUFFICES ASSUME NEW p \in reps PROVE p.r \in MayList(r, h)
    BY DEF RepIds
  <2>1. At("live", p.c, p.r) \in AtSomeTime(h, "live")
    BY SeenNow
  <2>2. At("live", p.c, p.r).c = r.c /\ At("live", p.c, p.r).r = p.r
    BY DEF At
  <2> QED BY <2>1, <2>2 DEF MayList
<1>5. MustList(r, h) \subseteq RepIds(reps)
  <2> SUFFICES ASSUME NEW x \in MustList(r, h) PROVE \E p \in reps : p.r = x
    BY DEF RepIds
  <2>1. PICK q \in Throughout(h, "live") : q.c = r.c /\ q.r = x
    BY DEF MustList
  <2>2. PICK p \in DOMAIN tree.files : p.kind \in Types /\ p.c = q.c /\ p.r = q.r
    BY SeenNow
  <2> QED BY <2>1, <2>2
<1> HIDE DEF reps, size
<1> QED BY <1>1, <1>2, <1>3, <1>4, <1>5, IdsServe

\* A query from all that it needs of a Collection, each file as it was at some time.
LEMMA QueriedServes ==
  ASSUME NEW r, r.kind = "query", r.limit \in Nat \cup {None}, NEW h, NEW reps, NEW copy,
         ReadSoFar(reps, copy, {}, r, h), NEW cursor, IsCursor(cursor, r)
  PROVE  Serves(QueriedPage(r, reps, copy.files, cursor), cursor, r, h)
<1> DEFINE files == copy.files
           content(p) == IF p.kind \in JsonTypes /\ p \in DOMAIN files THEN files[p].body ELSE None
           custom(p) == IF Sidecar(p.c, p.r) \in DOMAIN files THEN files[Sidecar(p.c, p.r)].body ELSE None
           found == {p \in reps : Matches(r.query, content(p), custom(p))}
           size == ResolvePageSize(r.limit)
<1>1. QueriedPage(r, reps, files, cursor) = SeekPage(Ids(found), cursor, size)
  BY DEF QueriedPage
<1>2. size \in Nat \ {0}
  BY PageSize
<1>3. \A p \in reps : /\ p \in Path /\ p.kind \in Types /\ p.c = r.c
                      /\ Was(h, p) # {}
                      /\ At("live", p.c, p.r) \in AtSomeTime(h, "live")
  BY DEF ReadSoFar
<1>4. \A p \in DOMAIN files : files[p] \in Was(h, p)
  BY DEF ReadSoFar
<1>5. ASSUME NEW p \in found PROVE p.r \in MayList(r, h)
  <2> DEFINE bodies(x) == {None} \cup {v.body : v \in Was(h, x)}
             live == At("live", p.c, p.r)
  <2>1. live \in AtSomeTime(h, "live") /\ live.c = r.c /\ live.r = p.r /\ p.c = r.c
    BY <1>3 DEF At
  <2>2. content(p) \in UNION {bodies(At(t, live.c, live.r)) : t \in JsonTypes}
    <3>1. CASE p.kind \in JsonTypes /\ p \in DOMAIN files
      <4>1. content(p) \in bodies(p)
        BY <1>4, <3>1
      <4>2. p = At(p.kind, live.c, live.r)
        BY <1>3, <2>1 DEF Path, At
      <4> QED BY <3>1, <4>1, <4>2
    <3>2. CASE ~ (p.kind \in JsonTypes /\ p \in DOMAIN files)
      <4>1. "json" \in JsonTypes /\ content(p) = None
        BY <3>2 DEF JsonTypes
      <4> QED BY <4>1
    <3> QED BY <3>1, <3>2
  <2>3. custom(p) \in bodies(Sidecar(live.c, live.r))
    BY <1>4, <2>1
  <2>4. Matches(r.query, content(p), custom(p))
    OBVIOUS
  <2> HIDE DEF content, custom, bodies, live
  <2> DEFINE Matching(q) ==
               \E x \in UNION {bodies(At(t, q.c, q.r)) : t \in JsonTypes} :
                 \E y \in bodies(Sidecar(q.c, q.r)) : Matches(r.query, x, y)
  <2>5. Matching(live)
    BY <2>2, <2>3, <2>4
  <2>6. MayList(r, h) = {q.r : q \in {x \in AtSomeTime(h, "live") : x.c = r.c /\ Matching(x)}}
    BY DEF MayList, bodies
  <2> HIDE DEF Matching
  <2> QED BY <2>1, <2>5, <2>6
<1>6. ASSUME NEW x \in MustList(r, h) PROVE \E p \in found : p.r = x
  <2> DEFINE body(t, v) == IF t \in JsonTypes THEN v.body ELSE None
  <2>1. PICK t \in Types :
          \E v \in Stayed(h, At(t, r.c, x)) : \E w \in Stayed(h, Sidecar(r.c, x)) :
            /\ r.query.profile = "blinded" => t \in JsonTypes
            /\ Matches(r.query, body(t, v), w.body)
    BY DEF MustList
  <2>9. PICK v \in Stayed(h, At(t, r.c, x)) :
          \E w \in Stayed(h, Sidecar(r.c, x)) :
            /\ r.query.profile = "blinded" => t \in JsonTypes
            /\ Matches(r.query, body(t, v), w.body)
    BY <2>1
  <2>10. PICK w \in Stayed(h, Sidecar(r.c, x)) :
           /\ r.query.profile = "blinded" => t \in JsonTypes
           /\ Matches(r.query, body(t, v), w.body)
    BY <2>9
  <2> DEFINE p == At(t, r.c, x)
  <2>2. PICK f \in h.always : f[1] = p /\ f[2] = v
    BY DEF Stayed
  <2>3. PICK g \in h.always : g[1] = Sidecar(r.c, x) /\ g[2] = w
    BY DEF Stayed
  <2>4. p.kind = t /\ p.c = r.c /\ p.r = x
    BY DEF At
  <2> HIDE DEF p
  <2>5. p \in reps
    BY <2>2, <2>4, <2>10 DEF ReadSoFar
  <2>6. content(p) = body(t, v)
    <3>1. CASE t \in JsonTypes
      <4>1. p \in DOMAIN files /\ files[p] = v
        BY <2>2, <2>4, <3>1 DEF ReadSoFar, Holds
      <4> QED BY <2>4, <3>1, <4>1
    <3>2. CASE t \notin JsonTypes
      BY <2>4, <3>2
    <3> QED BY <3>1, <3>2
  <2>7. CASE r.query.profile # "blinded"
    <3>1. Sidecar(p.c, p.r) \in DOMAIN files /\ files[Sidecar(p.c, p.r)] = w
      BY <2>3, <2>4, <2>5, <2>7 DEF ReadSoFar, Holds
    <3>2. custom(p) = w.body
      BY <3>1
    <3> HIDE DEF content, custom, body
    <3> QED BY <2>10, <2>4, <2>5, <2>6, <3>2
  <2>8. CASE r.query.profile = "blinded"
    <3> HIDE DEF content, custom, body
    <3>1. Matches(r.query, body(t, v), w.body) = Matches(r.query, content(p), custom(p))
      BY <2>6, <2>8 DEF Matches
    <3> QED BY <2>10, <2>4, <2>5, <3>1
  <2> QED BY <2>7, <2>8
<1>7. found \subseteq reps
  OBVIOUS
<1> HIDE DEF found, size, content, custom
<1>8. /\ found \subseteq Path
      /\ \A p \in found : p.kind \in Types /\ p.c = r.c /\ Was(h, p) # {}
  BY <1>3, <1>7
<1>9. RepIds(found) \subseteq MayList(r, h) /\ MustList(r, h) \subseteq RepIds(found)
  BY <1>5, <1>6 DEF RepIds
<1>10. r.kind \in {"items", "query"}
  OBVIOUS
<1>11. Serves(SeekPage(Ids(found), cursor, size), cursor, r, h)
  <2> DEFINE F == found
  <2>1. F \subseteq Path
    BY <1>8
  <2>2. \A p \in F : p.kind \in Types /\ p.c = r.c /\ Was(h, p) # {}
    BY <1>8
  <2>3. RepIds(F) \subseteq MayList(r, h) /\ MustList(r, h) \subseteq RepIds(F)
    BY <1>9
  <2> HIDE DEF F
  <2>5. Serves(SeekPage(Ids(F), cursor, size), cursor, r, h)
    BY <1>2, <1>10, <2>1, <2>2, <2>3, IdsServe
  <2> QED BY <2>5 DEF F
<1> QED BY <1>1, <1>11

LEMMA CursorOk ==
  ASSUME NEW r, NEW h, NEW got, NEW cursor, Delivered(got, r, h), AtCursor(got, cursor, r, h)
  PROVE  IsCursor(cursor, r)
<1>1. CASE cursor = None
  BY <1>1 DEF IsCursor
<1>2. CASE got # <<>> /\ cursor = got[Len(got)]
  <2>1. got \in Seq(IdsOf(r))
    BY DEF Delivered
  <2>2. Len(got) \in 1 .. Len(got) /\ got[Len(got)] \in IdsOf(r)
    BY <1>2, <2>1
  <2> QED BY <1>2, <2>2 DEF IsCursor, Delivered
<1> QED BY <1>1, <1>2 DEF AtCursor

\* A page that serves the listing leaves its handler as the invariant says.
LEMMA DeliverEnlists ==
  ASSUME NEW s, NEW r, NEW h, NEW page, Deliver(s, page),
         Delivered(view[s].got, r, h), AtCursor(view[s].got, view[s].cursor, r, h),
         Serves(page, view[s].cursor, r, h)
  PROVE  \E p \in {"begin", "listed"} : \E v : Step(s, p, v) /\ Enlisted(p, v, r, h)
<1> DEFINE got == view[s].got \o page.page
           cursor == IF page.more THEN page.page[Len(page.page)] ELSE None
           v == [NoView EXCEPT !.got = got, !.cursor = cursor]
           p == IF page.more THEN "begin" ELSE "listed"
<1>1. Step(s, p, v)
  BY DEF Deliver
<1>2. /\ Delivered(got, r, h)
      /\ page.more => AtCursor(got, page.page[Len(page.page)], r, h)
      /\ ~page.more => Complete(got, r, h)
  BY PageDelivers DEF Serves
<1> HIDE DEF got
<1>3. page.more => AtCursor(got, cursor, r, h)
  BY <1>2
<1> HIDE DEF cursor
<1>4. v.got = got /\ v.cursor = cursor /\ DOMAIN v.copy.files = {}
  BY DEF NoView
<1> HIDE DEF v
<1>5. Enlisted(p, v, r, h)
  BY <1>2, <1>3, <1>4 DEF Enlisted
<1>6. p \in {"begin", "listed"}
  OBVIOUS
<1> HIDE DEF p
<1> QED BY <1>1, <1>5, <1>6

----------------------------------------------------------------------------
(* The steps of a listing.                                                  *)

\* What stays stays stored, as it is.
LEMMA StaysStored ==
  ASSUME NEW h, NEW t, IsTree(t), Saw(h, t), NEW f \in h.always, f[1].kind \in Kinds
  PROVE  f[1] \in DOMAIN t.files /\ f[2] = t.files[f[1]]
BY FactsOf DEF Saw

LEMMA CandidatesServe ==
  ASSUME IsTree(tree), NEW r, NEW h, Saw(h, tree), NEW copy, NEW left,
         \A p \in DOMAIN copy.files : copy.files[p] \in Was(h, p),
         \A p \in Candidates(r) : p.kind \in JsonTypes => p \in left \/ (p \in DOMAIN copy.files /\ copy.files[p] = tree.files[p]),
         r.query.profile # "blinded" =>
           \A p \in Candidates(r) :
             LET x == Sidecar(p.c, p.r)
             IN  x \in left \/ (Has(tree, x) => x \in DOMAIN copy.files /\ copy.files[x] = tree.files[x])
  PROVE  ReadSoFar(Candidates(r), copy, left, r, h)
<1>1. \A p \in Candidates(r) : p \in DOMAIN tree.files /\ p.kind \in Types /\ p.c = r.c
  BY DEF Candidates
<1>2. \A p \in DOMAIN tree.files : p \in Path
  BY DEF IsTree
<1>3. ASSUME NEW p \in Candidates(r)
      PROVE  p \in Path /\ Was(h, p) # {} /\ At("live", p.c, p.r) \in AtSomeTime(h, "live")
  BY <1>1, <1>2, <1>3, SeenNow
<1>6. ASSUME NEW f \in h.always, f[1].kind \in Types, f[1].c = r.c,
             r.query.profile = "blinded" => f[1].kind \in JsonTypes
      PROVE  f[1] \in Candidates(r)
  <2>1. f[1].kind \in Kinds
    BY <1>6 DEF Types, Kinds
  <2>2. f[1] \in DOMAIN tree.files
    BY <2>1, StaysStored
  <2> QED BY <1>6, <2>2 DEF Candidates
<1>4. ASSUME NEW f \in h.always, f[1].kind \in JsonTypes, f[1].c = r.c
      PROVE  f[1] \in left \/ Holds(copy, f)
  <2>1. f[1].kind \in Types /\ f[1].kind \in Kinds
    BY <1>4 DEF JsonTypes, Types, Kinds
  <2>2. f[1] \in DOMAIN tree.files /\ f[2] = tree.files[f[1]]
    BY <2>1, StaysStored
  <2>3. f[1] \in Candidates(r)
    BY <1>4, <1>6, <2>1
  <2> QED BY <1>4, <2>2, <2>3 DEF Holds
<1>5. ASSUME r.query.profile # "blinded", NEW f \in h.always, NEW p \in Candidates(r),
             f[1] = Sidecar(p.c, p.r)
      PROVE  f[1] \in left \/ Holds(copy, f)
  <2>1. f[1].kind \in Kinds
    BY <1>5 DEF Sidecar, At, Kinds
  <2>2. f[1] \in DOMAIN tree.files /\ f[2] = tree.files[f[1]]
    BY <2>1, StaysStored
  <2> QED BY <1>5, <2>2 DEF Holds, Has
<1> QED BY <1>1, <1>3, <1>4, <1>5, <1>6 DEF ReadSoFar

\* One more file is read, or is gone.
LEMMA ReadGoesOn ==
  ASSUME IsTree(tree), NEW r, NEW h, Saw(h, tree), NEW listed, NEW copy, IsTree(copy), NEW left,
         ReadSoFar(listed, copy, left, r, h), NEW p \in Path, NEW new,
         new = IF Has(tree, p) THEN Copied(copy, p) ELSE copy
  PROVE  ReadSoFar(listed, new, left \ {p}, r, h)
<1>1. CASE Has(tree, p)
  <2>1. /\ DOMAIN new.files = DOMAIN copy.files \cup {p}
        /\ new.files[p] = tree.files[p]
        /\ \A q \in DOMAIN copy.files \ {p} : new.files[q] = copy.files[q]
    <3>1. tree.files[p] \in Value
      BY <1>1 DEF Has, IsTree, IsFiles
    <3> QED BY <1>1, <3>1, PackedFacts DEF Copied
  <2>2. tree.files[p] \in Was(h, p)
    BY <1>1, SeenNow DEF Has
  <2>3. \A q \in DOMAIN new.files : new.files[q] \in Was(h, q)
    BY <2>1, <2>2 DEF ReadSoFar
  <2>4. ASSUME NEW f \in h.always, f[1].kind \in Kinds, f[1] \in left \/ Holds(copy, f)
        PROVE  f[1] \in left \ {p} \/ Holds(new, f)
    <3>1. f[2] = tree.files[f[1]]
      BY <2>4, StaysStored
    <3> QED BY <2>1, <2>4, <3>1 DEF Holds
  <2> QED BY <2>3, <2>4 DEF ReadSoFar, JsonTypes, Kinds, Types, Sidecar, At
<1>2. CASE ~Has(tree, p)
  <2>1. ASSUME NEW f \in h.always, f[1].kind \in Kinds PROVE f[1] # p
    BY <1>2, <2>1, StaysStored DEF Has
  <2>2. \A f \in h.always : f[1].kind \in JsonTypes \/ f[1].kind = "sidecar" => f[1] # p
    BY <2>1 DEF JsonTypes, Kinds, Types
  <2>3. \A c, x : Sidecar(c, x).kind = "sidecar"
    BY DEF Sidecar, At
  <2> QED BY <1>2, <2>2, <2>3 DEF ReadSoFar
<1> QED BY <1>1, <1>2

LEMMA OwnListPage ==
  ASSUME TypeInv, NEW s \in Slots, ListPage(s), NEW h, Saw(h, tree),
         Enlisted(pc[s], view[s], request[s], h)
  PROVE  Answer(s) \/ \E p \in {"begin", "listed"} : \E v : Step(s, p, v) /\ Enlisted(p, v, request[s], h)
<1> DEFINE r == request[s]
           cursor == view[s].cursor
           page == PageOf(tree, r, cursor)
<1>1. r # None /\ r.kind \in Listings \ {"query"} /\ pc[s] = "begin"
  BY DEF ListPage, Running
<1>2. IsTree(tree) /\ r.limit \in Nat \cup {None}
  <2>1. r \in Request
    BY <1>1, RequestParts
  <2> QED BY <2>1, TreeOk DEF Request
<1>3. Delivered(view[s].got, r, h) /\ AtCursor(view[s].got, cursor, r, h)
  BY <1>1 DEF Enlisted
<1>4. Answer(s) \/ (page # None /\ Deliver(s, page))
  BY DEF ListPage
<1>5. IsCursor(cursor, r)
  <2> HIDE DEF r, cursor
  <2> QED BY <1>3, CursorOk
<1>6. ASSUME page # None PROVE Serves(page, cursor, r, h)
  <2>1. CASE r.kind = "keys"
    <3> HIDE DEF r, cursor
    <3> QED BY <1>2, <1>5, <2>1, KeysServe DEF page
  <2>2. CASE r.kind = "spaces"
    <3> HIDE DEF r, cursor
    <3> QED BY <1>2, <1>5, <2>2, SpacesServe DEF page
  <2>3. CASE r.kind = "collections"
    <3>1. Has(tree, SpaceFile)
      BY <1>6, <2>3 DEF PageOf
    <3> HIDE DEF r, cursor
    <3> QED BY <1>2, <1>5, <2>3, <3>1, CollectionsServe DEF page
  <2>4. CASE r.kind = "items"
    <3>1. Has(tree, DescriptionFile(r.c))
      BY <1>6, <2>4 DEF PageOf
    <3> HIDE DEF r, cursor
    <3> QED BY <1>2, <1>5, <2>4, <3>1, ItemsServe DEF page
  <2> QED BY <1>1, <2>1, <2>2, <2>3, <2>4 DEF Listings
<1> HIDE DEF page, r
<1>7. ASSUME page # None, Deliver(s, page)
      PROVE  \E p \in {"begin", "listed"} : \E v : Step(s, p, v) /\ Enlisted(p, v, r, h)
  BY <1>3, <1>6, <1>7, DeliverEnlists
<1> QED BY <1>4, <1>7 DEF r

LEMMA OwnQueryRows ==
  ASSUME TypeInv, NEW s \in Slots, QueryRows(s), NEW h, Saw(h, tree),
         Enlisted(pc[s], view[s], request[s], h)
  PROVE  Answer(s) \/ \E p \in {"begin", "listed"} : \E v : Step(s, p, v) /\ Enlisted(p, v, request[s], h)
<1> DEFINE r == request[s]
           cursor == view[s].cursor
           page == QueriedPage(r, Candidates(r), tree.files, cursor)
<1>1. r # None /\ r.kind = "query" /\ pc[s] = "begin"
  BY DEF QueryRows, InRows, Running
<1>2. IsTree(tree) /\ r.limit \in Nat \cup {None}
  <2>1. r \in Request
    BY <1>1, RequestParts
  <2> QED BY <2>1, TreeOk DEF Request
<1>3. Delivered(view[s].got, r, h) /\ AtCursor(view[s].got, cursor, r, h)
  BY <1>1 DEF Enlisted
<1>4. Answer(s) \/ Deliver(s, page)
  BY DEF QueryRows
<1> HIDE DEF r, cursor
<1>5. IsCursor(cursor, r)
  BY <1>3, CursorOk
<1>6. ReadSoFar(Candidates(r), tree, {}, r, h)
  <2>1. \A p \in DOMAIN tree.files : tree.files[p] \in Was(h, p)
    BY <1>2, SeenNow
  <2>2. \A p \in Candidates(r) : p \in DOMAIN tree.files
    BY DEF Candidates
  <2> QED BY <1>2, <2>1, <2>2, CandidatesServe DEF Has
<1>7. Serves(page, cursor, r, h)
  BY <1>1, <1>2, <1>5, <1>6, QueriedServes
<1> HIDE DEF page
<1>8. ASSUME Deliver(s, page)
      PROVE  \E p \in {"begin", "listed"} : \E v : Step(s, p, v) /\ Enlisted(p, v, r, h)
  BY <1>3, <1>7, <1>8, DeliverEnlists DEF cursor
<1> QED BY <1>4, <1>8 DEF r

LEMMA OwnQueryList ==
  ASSUME TypeInv, NEW s \in Slots, QueryList(s), NEW h, Saw(h, tree),
         Enlisted(pc[s], view[s], request[s], h)
  PROVE  Answer(s) \/ \E v : Step(s, "reading", v) /\ Enlisted("reading", v, request[s], h)
<1> DEFINE r == request[s]
           reps == Candidates(r)
           left == {p \in reps : p.kind \in JsonTypes}
                     \cup (IF r.query.profile = "blinded" THEN {} ELSE {Sidecar(p.c, p.r) : p \in reps})
           v == [view[s] EXCEPT !.listed = reps, !.left = left]
<1>1. r # None /\ r.kind = "query" /\ pc[s] = "begin"
  BY DEF QueryList, OnFiles, Running
<1>2. Answer(s) \/ Step(s, "reading", v)
  BY DEF QueryList
<1>3. /\ Delivered(view[s].got, r, h) /\ AtCursor(view[s].got, view[s].cursor, r, h)
      /\ DOMAIN view[s].copy.files = {}
  BY <1>1 DEF Enlisted
<1>4. IsTree(tree) /\ IsView(view[s])
  BY TreeOk, ViewOk
<1> HIDE DEF r
<1>5. ReadSoFar(reps, view[s].copy, left, r, h)
  <2>1. \A p \in reps : p.kind \in JsonTypes => p \in left
    OBVIOUS
  <2>2. r.query.profile # "blinded" => \A p \in reps : Sidecar(p.c, p.r) \in left
    OBVIOUS
  <2> HIDE DEF left
  <2> QED BY <1>3, <1>4, <2>1, <2>2, CandidatesServe
<1> HIDE DEF reps, left
<1>6. v.got = view[s].got /\ v.cursor = view[s].cursor /\ v.listed = reps /\ v.left = left
      /\ v.copy = view[s].copy
  BY <1>4 DEF IsView
<1> HIDE DEF v
<1>7. Enlisted("reading", v, r, h)
  BY <1>1, <1>3, <1>5, <1>6 DEF Enlisted
<1> QED BY <1>2, <1>7 DEF r

LEMMA OwnQueryRead ==
  ASSUME TypeInv, NEW s \in Slots, QueryRead(s), NEW h, Saw(h, tree),
         Enlisted(pc[s], view[s], request[s], h)
  PROVE  \E v : Step(s, "reading", v) /\ Enlisted("reading", v, request[s], h)
<1> DEFINE r == request[s]
<1>1. r # None /\ r.kind = "query" /\ pc[s] = "reading"
  BY DEF QueryRead, OnFiles, Running
<1>2. IsTree(tree) /\ IsView(view[s]) /\ view[s].left \subseteq Path /\ IsTree(view[s].copy)
  BY TreeOk, ViewOk DEF IsView
<1>3. PICK p \in view[s].left :
        Step(s, "reading",
             [view[s] EXCEPT !.left = view[s].left \ {p},
                             !.copy = IF Has(tree, p) THEN Copied(view[s].copy, p) ELSE view[s].copy])
  BY DEF QueryRead
<1> DEFINE left == view[s].left \ {p}
           new == IF Has(tree, p) THEN Copied(view[s].copy, p) ELSE view[s].copy
           v == [view[s] EXCEPT !.left = left, !.copy = new]
<1>4. /\ Delivered(view[s].got, r, h) /\ AtCursor(view[s].got, view[s].cursor, r, h)
      /\ ReadSoFar(view[s].listed, view[s].copy, view[s].left, r, h)
  BY <1>1 DEF Enlisted
<1> HIDE DEF r
<1>5. ReadSoFar(view[s].listed, new, left, r, h)
  BY <1>2, <1>4, ReadGoesOn
<1>6. Step(s, "reading", v)
  BY <1>3
<1> HIDE DEF left, new
<1>7. v.got = view[s].got /\ v.cursor = view[s].cursor /\ v.listed = view[s].listed
      /\ v.left = left /\ v.copy = new
  BY <1>2 DEF IsView
<1> HIDE DEF v
<1>8. Enlisted("reading", v, r, h)
  BY <1>1, <1>4, <1>5, <1>7 DEF Enlisted
<1> QED BY <1>6, <1>8 DEF r

LEMMA OwnQueryPage ==
  ASSUME TypeInv, NEW s \in Slots, QueryPage(s), NEW h, Saw(h, tree),
         Enlisted(pc[s], view[s], request[s], h)
  PROVE  \E p \in {"begin", "listed"} : \E v : Step(s, p, v) /\ Enlisted(p, v, request[s], h)
<1> DEFINE r == request[s]
           cursor == view[s].cursor
           page == QueriedPage(r, view[s].listed, view[s].copy.files, cursor)
<1>1. r # None /\ r.kind = "query" /\ pc[s] = "reading" /\ view[s].left = {} /\ Deliver(s, page)
  BY DEF QueryPage, OnFiles, Running
<1>2. r.limit \in Nat \cup {None}
  <2>1. r \in Request
    BY <1>1, RequestParts
  <2> QED BY <2>1 DEF Request
<1>3. /\ Delivered(view[s].got, r, h) /\ AtCursor(view[s].got, cursor, r, h)
      /\ ReadSoFar(view[s].listed, view[s].copy, {}, r, h)
  BY <1>1 DEF Enlisted
<1> HIDE DEF r, cursor
<1>4. IsCursor(cursor, r)
  BY <1>3, CursorOk
<1>5. Serves(page, cursor, r, h)
  BY <1>1, <1>2, <1>3, <1>4, QueriedServes
<1> HIDE DEF page
<1>6. \E p \in {"begin", "listed"} : \E v : Step(s, p, v) /\ Enlisted(p, v, r, h)
  BY <1>1, <1>3, <1>5, DeliverEnlists DEF cursor
<1> QED BY <1>6 DEF r

LEMMA OwnListing ==
  ASSUME TypeInv, NEW s \in Slots, ListStep(s), NEW h, Saw(h, tree),
         Enlisted(pc[s], view[s], request[s], h)
  PROVE  \/ Answer(s)
         \/ \E p \in {"begin", "reading", "listed"} : \E v :
              Step(s, p, v) /\ Enlisted(p, v, request[s], h)
BY OwnListPage, OwnQueryRows, OwnQueryList, OwnQueryRead, OwnQueryPage DEF ListStep

----------------------------------------------------------------------------
(* No request removes a key.                                                *)

KeepsKeys(t, u) == \A p \in DOMAIN t.files : p.kind = "key" => p \in DOMAIN u.files

LEMMA PutKeepsKeys ==
  ASSUME NEW t, NEW u, KeepsKeys(t, u), NEW p, NEW v
  PROVE  KeepsKeys(t, Put(u, p, v))
<1>1. DOMAIN Put(u, p, v).files = {p} \cup DOMAIN u.files
  BY DEF Put, With, Over
<1> QED BY <1>1 DEF KeepsKeys

LEMMA WithoutKeepsKeys ==
  ASSUME NEW t, IsTree(t), NEW S, \A p \in S : p.kind # "key"
  PROVE  KeepsKeys(t, Without(t, S))
BY WithoutFacts DEF KeepsKeys

LEMMA DirsKeepKeys ==
  ASSUME NEW t, IsTree(t), NEW S, \A p \in S : p.kind # "key", NEW D
  PROVE  KeepsKeys(t, [Without(t, S) EXCEPT !.dirs = D])
<1> DEFINE u == Without(t, S)
<1>1. IsTree(u) /\ DOMAIN u.files = DOMAIN t.files \ S
  BY WithoutFacts
<1> HIDE DEF u
<1> DEFINE w == [u EXCEPT !.dirs = D]
<1>2. u = [dirs |-> u.dirs, files |-> u.files]
  BY <1>1, PartsOfTree
<1>3. w.files = u.files
  BY <1>2
<1> HIDE DEF w
<1>4. KeepsKeys(t, w)
  BY <1>1, <1>3 DEF KeepsKeys
<1> QED BY <1>4 DEF u, w

LEMMA ImportKeepsKeys ==
  ASSUME NEW t, IsTree(t), NEW a, IsTree(a)
  PROVE  KeepsKeys(t, Imported(t, a))
<1> DEFINE T == {u \in TreeSet : KeepsKeys(t, u)}
<1>1. Plan(a) \in Seq(Path)
  BY PlanOk
<1>2. [t EXCEPT !.dirs = t.dirs \cup {0}] \in T
  <2> DEFINE D == t.dirs \cup {0}
             u == [t EXCEPT !.dirs = D]
  <2>1. D \subseteq 0 .. MaxId
    BY PartsOfTree, ZeroId
  <2> HIDE DEF D
  <2>2. IsTree(u) /\ u.files = t.files
    BY <2>1, DirsExcept
  <2> HIDE DEF u
  <2>3. u \in TreeSet /\ KeepsKeys(t, u)
    BY <2>2, TreesAreOfTreeSet DEF KeepsKeys
  <2> QED BY <2>3 DEF u, D
<1>3. ASSUME NEW u \in T, NEW i \in 1 .. Len(Plan(a))
      PROVE  Inserted(u, a, Plan(a)[i]) \in T
  <2>1. Plan(a)[i] \in Path
    BY <1>1
  <2>2. IsTree(u) /\ KeepsKeys(t, u)
    BY TreesAreOfTreeSet
  <2> DEFINE w == Inserted(u, a, Plan(a)[i])
  <2>3. IsTree(w) /\ DOMAIN u.files \subseteq DOMAIN w.files
    BY <2>1, <2>2, InsertedFacts DEF AddsSome
  <2> HIDE DEF w
  <2>4. w \in TreeSet /\ KeepsKeys(t, w)
    BY <2>2, <2>3, TreesAreOfTreeSet DEF KeepsKeys
  <2> QED BY <2>4 DEF w
<1> HIDE DEF T
<1>4. Imported(t, a) \in T
  BY <1>1, <1>2, <1>3, ImportKeeps
<1> QED BY <1>4 DEF T

LEMMA KeysKeptByWrites ==
  ASSUME TypeInv, NEW s \in Slots,
         \/ PutPersist(s) \/ PutRow(s) \/ WriteContent(s) \/ WriteSidecar(s) \/ WriteRow(s)
         \/ RemoveSidecar(s) \/ RemoveRow(s) \/ WriteChunk(s) \/ SetPolicy(s) \/ CreateSpace(s)
         \/ Revoke(s) \/ Generate(s)
  PROVE  KeepsKeys(tree, tree')
<1>1. KeepsKeys(tree, tree) /\ IsTree(tree)
  BY TreeOk DEF KeepsKeys
<1>2. CASE \/ PutPersist(s) \/ PutRow(s) \/ WriteContent(s) \/ WriteSidecar(s) \/ RemoveSidecar(s)
           \/ WriteChunk(s) \/ CreateSpace(s) \/ Generate(s)
  <2>1. \E p, v : tree' \in {Put(tree, p, v), tree}
    BY <1>2 DEF PutPersist, PutRow, WriteContent, WriteSidecar, RemoveSidecar, WriteChunk, CreateSpace,
                Generate
  <2> QED BY <1>1, <2>1, PutKeepsKeys
<1>3. ASSUME NEW S, \A p \in S : p.kind # "key",
             \E p, q, v, w : tree' \in {tree, Without(tree, S), Put(tree, p, v), Put(Without(tree, S), p, v),
                                        Put(Put(Without(tree, S), p, v), q, w)}
      PROVE  KeepsKeys(tree, tree')
  <2>1. KeepsKeys(tree, Without(tree, S))
    BY <1>1, <1>3, WithoutKeepsKeys
  <2>2. \A p, v : KeepsKeys(tree, Put(tree, p, v)) /\ KeepsKeys(tree, Put(Without(tree, S), p, v))
    BY <1>1, <2>1, PutKeepsKeys
  <2>3. \A p, q, v, w : KeepsKeys(tree, Put(Put(Without(tree, S), p, v), q, w))
    BY <2>2, PutKeepsKeys
  <2> QED BY <1>1, <1>3, <2>1, <2>2, <2>3
<1>4. CASE WriteRow(s)
  <2> DEFINE p == At(request[s].type, request[s].c, request[s].r)
             S == Representations(request[s].c, request[s].r) \ {p}
  <2>1. \A q \in S : q.kind # "key"
    BY DEF Representations, At, Types
  <2>2. \E q, v, w : tree' = Put(Put(Without(tree, S), p, v), q, w)
    BY <1>4 DEF WriteRow
  <2> HIDE DEF S, p
  <2> QED BY <1>3, <2>1, <2>2
<1>5. CASE RemoveRow(s)
  <2> DEFINE S == Representations(request[s].c, request[s].r) \cup {ChunkFile(request[s].c, request[s].r)}
  <2>1. \A q \in S : q.kind # "key"
    BY DEF Representations, ChunkFile, At, Types
  <2>2. \E p, v : tree' \in {tree, Put(Without(tree, S), p, v)}
    BY <1>5 DEF RemoveRow
  <2> HIDE DEF S
  <2> QED BY <1>3, <2>1, <2>2
<1>6. CASE SetPolicy(s)
  <2> DEFINE S == {PolicyFile(request[s].c, request[s].r)}
  <2>1. \A q \in S : q.kind # "key"
    BY DEF PolicyFile, At
  <2>2. \E p, v : tree' \in {tree, Without(tree, S), Put(tree, p, v)}
    BY <1>6 DEF SetPolicy
  <2> HIDE DEF S
  <2> QED BY <1>3, <2>1, <2>2
<1>7. CASE Revoke(s)
  <2> DEFINE S == {p \in DOMAIN tree.files : p.kind = "revocation" /\ p.r \in expired}
  <2>1. \A q \in S : q.kind # "key"
    OBVIOUS
  <2>2. \E p, v : tree' \in {tree, Without(tree, S), Put(tree, p, v), Put(Without(tree, S), p, v)}
    BY <1>7 DEF Revoke, Revoked, Pruned
  <2> HIDE DEF S
  <2> QED BY <1>3, <2>1, <2>2
<1> QED BY <1>2, <1>4, <1>5, <1>6, <1>7

LEMMA KeysKeptByRemovals ==
  ASSUME TypeInv, NEW scenario, ReplaceInv(scenario), NEW s \in Slots,
         \/ DropSome(s) \/ DropAll(s) \/ WritePrune(s) \/ RemoveContent(s) \/ RemoveChunks(s)
         \/ RemoveRevocations(s) \/ RemoveSome(s) \/ RemoveAll(s) \/ DeleteRows(s)
  PROVE  KeepsKeys(tree, tree')
<1>1. IsTree(tree)
  BY TreeOk
<1>2. ASSUME NEW S, \A p \in S : p.kind # "key", tree' = Without(tree, S)
      PROVE  KeepsKeys(tree, tree')
  BY <1>1, <1>2, WithoutKeepsKeys
<1>3. ASSUME NEW S, \A p \in S : p.kind # "key", \E D : tree' = [Without(tree, S) EXCEPT !.dirs = D]
      PROVE  KeepsKeys(tree, tree')
  BY <1>1, <1>3, DirsKeepKeys
<1>4. /\ \A c : \A p \in InCollection(tree, c) : p.kind # "key"
      /\ \A p \in InSpaceDir(tree) \cup OfSpace(tree) : p.kind # "key"
  BY DEF InCollection, InSpaceDir, OfSpace
<1>5. CASE DropSome(s)
  <2>1. PICK small \in BOOLEAN :
          tree' = Without(tree, {p \in InCollection(tree, request[s].c) :
                                   (p.kind \in {"description", "meta", "policy"}) = small})
    BY <1>5 DEF DropSome
  <2> DEFINE S == {p \in InCollection(tree, request[s].c) :
                     (p.kind \in {"description", "meta", "policy"}) = small}
  <2>2. tree' = Without(tree, S) /\ \A p \in S : p.kind # "key"
    BY <1>4, <2>1
  <2> HIDE DEF S
  <2> QED BY <1>2, <2>2
<1>6. CASE RemoveSome(s)
  <2>1. PICK own \in BOOLEAN : tree' = Without(tree, {p \in InSpaceDir(tree) : (p.c = 0) = own})
    BY <1>6 DEF RemoveSome
  <2> DEFINE S == {p \in InSpaceDir(tree) : (p.c = 0) = own}
  <2>2. tree' = Without(tree, S) /\ \A p \in S : p.kind # "key"
    BY <1>4, <2>1
  <2> HIDE DEF S
  <2> QED BY <1>2, <2>2
<1>7. CASE WritePrune(s)
  <2>1. \A p \in view[s].left : p.kind # "key"
    BY <1>7 DEF WritePrune, OnFiles, Running, ReplaceInv, HandlerOk, Types
  <2> QED BY <1>2, <1>7, <2>1 DEF WritePrune
<1>8. CASE RemoveContent(s) \/ RemoveChunks(s) \/ RemoveRevocations(s)
  <2> DEFINE A == Representations(request[s].c, request[s].r)
             B == {ChunkFile(request[s].c, request[s].r)}
             C == {p \in DOMAIN tree.files : p.kind = "revocation"}
  <2>1. \A p \in A \cup B \cup C : p.kind # "key"
    BY DEF Representations, ChunkFile, At, Types
  <2>2. tree' \in {Without(tree, A), Without(tree, B), Without(tree, C)}
    BY <1>8 DEF RemoveContent, RemoveChunks, RemoveRevocations
  <2> HIDE DEF A, B, C
  <2> QED BY <1>2, <2>1, <2>2
<1>9. CASE DropAll(s)
  <2>1. \E D : tree' = [Without(tree, InCollection(tree, request[s].c)) EXCEPT !.dirs = D]
    BY <1>9 DEF DropAll
  <2> QED BY <1>3, <1>4, <2>1
<1>10. CASE RemoveAll(s) \/ DeleteRows(s)
  <2>1. PICK S \in {InSpaceDir(tree), OfSpace(tree)} : tree' = [Without(tree, S) EXCEPT !.dirs = {}]
    BY <1>10 DEF RemoveAll, DeleteRows
  <2> QED BY <1>3, <1>4, <2>1
<1> QED BY <1>5, <1>6, <1>7, <1>8, <1>9, <1>10

LEMMA KeysStay ==
  ASSUME TypeInv, NEW scenario, ReplaceInv(scenario), [Next]_vars
  PROVE  KeysOf(tree) \subseteq KeysOf(tree')
<1> SUFFICES KeepsKeys(tree, tree')
  BY DEF KeepsKeys, KeysOf
<1>1. CASE UNCHANGED vars \/ Expire \/ Crash
  BY <1>1 DEF vars, Expire, Crash, KeepsKeys
<1>2. ASSUME NEW s \in Slots,
             \/ Begin(s) \/ QuotaRefuses(s) \/ Respond(s) \/ PostCheck(s) \/ PutPrior(s)
             \/ WriteCheck(s) \/ ImportStart(s) \/ ImportLook(s)
             \/ ListPage(s) \/ QueryRows(s) \/ QueryList(s) \/ QueryRead(s) \/ QueryPage(s)
             \/ ExportLook(s) \/ ExportSpaceDir(s) \/ ExportDir(s) \/ ExportRevocations(s)
             \/ ExportRow(s) \/ ExportQuery(s) \/ ExportRead(s) \/ ExportDone(s)
      PROVE  KeepsKeys(tree, tree')
  <2>1. tree' = tree
    BY <1>2 DEF Begin, QuotaRefuses, Respond, PostCheck, PutPrior, WriteCheck, ImportStart, ImportLook,
                ListPage, QueryRows, QueryList, QueryRead, QueryPage, ExportLook, ExportSpaceDir,
                ExportDir, ExportRevocations, ExportRow, ExportQuery, ExportRead, ExportDone
  <2> QED BY <2>1 DEF KeepsKeys
<1>3. ASSUME NEW s \in Slots,
             \/ PutPersist(s) \/ PutRow(s) \/ WriteContent(s) \/ WriteSidecar(s) \/ WriteRow(s)
             \/ RemoveSidecar(s) \/ RemoveRow(s) \/ WriteChunk(s) \/ SetPolicy(s) \/ CreateSpace(s)
             \/ Revoke(s) \/ Generate(s)
      PROVE  KeepsKeys(tree, tree')
  BY <1>3, KeysKeptByWrites
<1>4. ASSUME NEW s \in Slots,
             \/ DropSome(s) \/ DropAll(s) \/ WritePrune(s) \/ RemoveContent(s) \/ RemoveChunks(s)
             \/ RemoveRevocations(s) \/ RemoveSome(s) \/ RemoveAll(s) \/ DeleteRows(s)
      PROVE  KeepsKeys(tree, tree')
  BY <1>4, KeysKeptByRemovals
<1>5. ASSUME NEW s \in Slots, ImportWrite(s)
      PROVE  KeepsKeys(tree, tree')
  <2>1. view[s].writes \in Seq(Path) /\ view[s].writes # <<>>
    BY <1>5, ViewOk DEF ImportWrite, OnFiles, Running, TypeInv, SlotOk, IsView
  <2>2. Head(view[s].writes) \in Path
    BY <2>1
  <2>3. tree' \in {Restored(tree, view[s].copy, Head(view[s].writes)), tree}
    BY <1>5 DEF ImportWrite
  <2> DEFINE p == Head(view[s].writes)
             u == Restored(tree, view[s].copy, p)
  <2>4. DOMAIN tree.files \subseteq DOMAIN u.files
    BY <2>2, TreeOk, ViewOk, RestoredFacts DEF AddsOne
  <2>5. KeepsKeys(tree, u) /\ KeepsKeys(tree, tree)
    BY <2>4 DEF KeepsKeys
  <2> HIDE DEF u
  <2> QED BY <2>3, <2>5 DEF u
<1>6. ASSUME NEW s \in Slots, ImportRows(s)
      PROVE  KeepsKeys(tree, tree')
  BY <1>6, TreeOk, ViewOk, ImportKeepsKeys DEF ImportRows
<1> QED BY <1>1, <1>2, <1>3, <1>4, <1>5, <1>6 DEF Next

----------------------------------------------------------------------------
(* Every step keeps what is known of a listing.                             *)

LEMMA EnlistedThen ==
  ASSUME KeysOf(tree) \subseteq KeysOf(tree'), NEW t,
         Enlisted(pc'[t], view'[t], request'[t], seen'[t])
  PROVE  Enlisted(pc[t], view[t], request[t], seen[t])'
<1>1. Delivered(view'[t].got, request'[t], seen'[t])
  BY DEF Enlisted
<1>2. Delivered(view[t].got, request[t], seen[t])'
  BY <1>1 DEF Delivered
<1> QED BY <1>2 DEF Enlisted

LEMMA OtherListings ==
  ASSUME NEW t \in Slots, SlotOk(t), ListOk(t), KeysOf(tree) \subseteq KeysOf(tree'),
         request'[t] = request[t], pc'[t] = pc[t], view'[t] = view[t],
         request[t] # None => GoesOn(seen[t], seen'[t])
  PROVE  ListOk(t)'
<1>1. CASE request[t] = None
  BY <1>1 DEF ListOk, SlotOk
<1>2. CASE request[t] # None
  <2>1. request[t].kind \in Listings =>
          Enlisted(pc'[t], view'[t], request'[t], seen'[t])
    BY <1>2, EnlistedGoesOn DEF ListOk
  <2>2. request[t].kind \in Listings => Enlisted(pc[t], view[t], request[t], seen[t])'
    BY <2>1, EnlistedThen
  <2> QED BY <2>2 DEF ListOk, Listings
<1> QED BY <1>1, <1>2

LEMMA NothingGot ==
  ASSUME NEW r, NEW h, NEW v, v = NoView
  PROVE  Enlisted("begin", v, r, h)
<1>1. v.got = <<>> /\ v.cursor = None /\ DOMAIN v.copy.files = {}
  BY DEF NoView
<1>2. Delivered(<<>>, r, h)
  BY DEF Delivered, Rising
<1> QED BY <1>1, <1>2 DEF Enlisted, AtCursor

LEMMA OwnListingNext ==
  ASSUME TypeInv, NEW t \in Slots, HistoryOk(t)', ListStep(t), ListOk(t),
         KeysOf(tree) \subseteq KeysOf(tree'),
         request[t] # None /\ request'[t] # None => GoesOn(seen[t], seen'[t])
  PROVE  ListOk(t)'
<1> DEFINE h == seen'[t]
<1>1. request[t] # None /\ request[t].kind \in Listings /\ UNCHANGED <<tree, rest>>
  BY ReaderSteps
<1>2. CASE Answer(t)
  <2>1. request'[t] = None /\ pc'[t] = "idle"
    BY <1>2, AnswerMoves
  <2> QED BY <2>1 DEF ListOk
<1>3. CASE ~Answer(t)
  <2>1. request' = request
    BY <1>3, ReaderSteps DEF Step
  <2>2. Saw(h, tree')
    BY <1>1, <2>1 DEF HistoryOk, Reads
  <2>3. Saw(h, tree)
    BY <1>1, <2>2
  <2>4. Enlisted(pc[t], view[t], request[t], h)
    BY <1>1, <2>1, EnlistedGoesOn DEF ListOk
  <2> HIDE DEF h
  <2>5. PICK p \in {"begin", "reading", "listed"} :
          \E v : Step(t, p, v) /\ Enlisted(p, v, request[t], h)
    BY <1>3, <2>3, <2>4, OwnListing
  <2>6. PICK v : Step(t, p, v) /\ Enlisted(p, v, request[t], h)
    BY <2>5
  <2>7. pc'[t] = p /\ view'[t] = v
    BY <2>6, StepMoves
  <2>8. Enlisted(pc'[t], view'[t], request'[t], seen'[t])
    BY <2>1, <2>6, <2>7 DEF h
  <2>9. Enlisted(pc[t], view[t], request[t], seen[t])'
    BY <2>8, EnlistedThen
  <2> QED BY <1>1, <2>1, <2>9 DEF ListOk
<1> QED BY <1>2, <1>3

LEMMA ListNext ==
  ASSUME TypeInv, NEW scenario, ReplaceInv(scenario), \A t \in Slots : HistoryOk(t), [Next]_vars,
         NEW t \in Slots, ListOk(t)
  PROVE  ListOk(t)'
<1>1. HistoryOk(t)' /\ (request[t] # None /\ request'[t] # None => GoesOn(seen[t], seen'[t]))
  BY HistoryNext
<1>2. KeysOf(tree) \subseteq KeysOf(tree') /\ SlotOk(t)
  BY KeysStay DEF TypeInv
<1>3. ASSUME request'[t] = request[t], pc'[t] = pc[t], view'[t] = view[t]
      PROVE  ListOk(t)'
  BY <1>1, <1>2, <1>3, OtherListings
<1>4. CASE UNCHANGED vars \/ Expire
  BY <1>3, <1>4 DEF vars, flight, Expire
<1>5. CASE Crash
  BY <1>5 DEF Crash, ListOk
<1>6. ASSUME NEW s \in Slots, Moves(s), t # s PROVE ListOk(t)'
  <2>1. CASE Answer(s)
    BY <1>3, <1>6, <2>1, AnswerMoves
  <2>2. CASE \E p, v : Step(s, p, v)
    BY <1>3, <1>6, <2>2, StepMoves
  <2>3. CASE Begin(s)
    <3>1. /\ \E r : request' = [request EXCEPT ![s] = r]
          /\ \E copy : view' = [view EXCEPT ![s].copy = copy]
          /\ pc' = [pc EXCEPT ![s] = "begin"]
      BY <2>3 DEF Begin
    <3>2. request = [x \in Slots |-> request[x]] /\ view = [x \in Slots |-> view[x]]
          /\ pc = [x \in Slots |-> pc[x]]
      BY DEF TypeInv, Shapes
    <3> QED BY <1>3, <1>6, <3>1, <3>2
  <2>4. CASE ExportStep(s) \/ ListStep(s)
    BY <2>1, <2>2, <2>4, ReaderSteps
  <2> QED BY <1>6, <2>1, <2>2, <2>3, <2>4 DEF Moves, Elsewhere
<1>7. CASE Moves(t)
  <2>1. CASE Answer(t)
    <3>1. request'[t] = None /\ pc'[t] = "idle"
      BY <2>1, AnswerMoves
    <3> QED BY <3>1 DEF ListOk
  <2>2. CASE (Elsewhere(t) \/ ExportStep(t)) /\ ~Answer(t)
    <3>1. request[t].kind \notin Listings /\ \E p, v : p # "listed" /\ Step(t, p, v)
      BY <2>2, ReaderSteps DEF Elsewhere, Reads, Listings
    <3>2. PICK p, v : p # "listed" /\ Step(t, p, v)
      BY <3>1
    <3>3. request'[t] = request[t] /\ pc'[t] = p
      BY <3>2, StepMoves
    <3> QED BY <3>1, <3>2, <3>3 DEF ListOk, Listings
  <2>3. CASE Begin(t)
    <3>1. PICK r \in todo : /\ request' = [request EXCEPT ![t] = r]
                            /\ view' = [view EXCEPT ![t].copy = IF r.kind = "import" THEN archive ELSE @]
      BY <2>3 DEF Begin
    <3>2. pc' = [pc EXCEPT ![t] = "begin"] /\ request[t] = None
      BY <2>3 DEF Begin
    <3>3. request = [x \in Slots |-> request[x]] /\ view = [x \in Slots |-> view[x]]
          /\ pc = [x \in Slots |-> pc[x]]
      BY DEF TypeInv, Shapes
    <3>4. request'[t] = r /\ pc'[t] = "begin"
          /\ view'[t] = [view[t] EXCEPT !.copy = IF r.kind = "import" THEN archive ELSE view[t].copy]
      BY <3>1, <3>2, <3>3
    <3>5. view[t] = NoView
      BY <1>2, <3>2 DEF SlotOk
    <3>6. r.kind \in Listings => view'[t] = NoView
      BY <3>4, <3>5 DEF NoView, Listings
    <3>7. r.kind \in Listings => Enlisted(pc'[t], view'[t], request'[t], seen'[t])
      BY <3>4, <3>6, NothingGot
    <3>8. r.kind \in Listings => Enlisted(pc[t], view[t], request[t], seen[t])'
      BY <1>2, <3>7, EnlistedThen
    <3> QED BY <3>4, <3>8 DEF ListOk, Listings
  <2>4. CASE ListStep(t)
    BY <1>1, <1>2, <2>4, OwnListingNext
  <2> QED BY <1>7, <2>1, <2>2, <2>3, <2>4 DEF Moves
<1> QED BY <1>4, <1>5, <1>6, <1>7, NextMoves

\* What the invariant says of a listing that is done.
LEMMA ListedIsExact ==
  ASSUME NEW s \in Slots, ListOk(s), pc[s] = "listed"
  PROVE  ListingIsExact(s)
<1> DEFINE got == view[s].got
           r == request[s]
           h == seen[s]
<1>1. Enlisted("listed", view[s], r, h)
  BY DEF ListOk
<1>2. got \in Seq(IdsOf(r)) /\ Rising(got, RankOf(r), TimesOf(r, h)) /\ Complete(got, r, h)
      /\ \A i \in 1 .. Len(got) : got[i] \in MayList(r, h)
  BY <1>1 DEF Enlisted, Delivered
<1>3. DOMAIN got = 1 .. Len(got) /\ \A i \in 1 .. Len(got) : got[i] \in IdsOf(r)
  BY <1>2
<1>4. MustList(r, h) \subseteq Range(got)
  BY <1>2, <1>3 DEF Complete, Occurs, Range
<1>5. Range(got) \subseteq MayList(r, h)
  BY <1>2, <1>3 DEF Range
<1>6. ASSUME NEW i \in DOMAIN got, NEW j \in DOMAIN got, i < j
      PROVE  \/ Rank(r, got[i]) < Rank(r, got[j])
             \/ got[i] = got[j] /\ j - i < Times(r, h, got[i])
  <2>1. RankOf(r)[got[i]] = Rank(r, got[i]) /\ RankOf(r)[got[j]] = Rank(r, got[j])
        /\ TimesOf(r, h)[got[i]] = Times(r, h, got[i])
    BY <1>3 DEF RankOf, TimesOf
  <2> HIDE DEF got, r, h
  <2> QED BY <1>2, <1>3, <1>6, <2>1 DEF Rising
<1> QED BY <1>4, <1>5, <1>6 DEF ListingIsExact

\* A listing followed to its last page, a query or an export holds whatever was there all
\* along and nothing that never was, and a listing repeats nothing on a later page but a
\* Resource once for each type it had - whatever is written, removed or restored between
\* two pages or two file reads (seekPage, listKeys, the query candidates, exportSpace),
\* under any number of requests, on either backend.
THEOREM ReadsStayExact == Spec => []ReadsAreExact
<1> DEFINE Inv == /\ TypeInv /\ Housed(tree)
                  /\ \E scenario \in Scenarios : ReplaceInv(scenario)
                  /\ \A s \in Slots : HistoryOk(s)
                  /\ \A s \in Slots : ExportOk(s)
                  /\ \A s \in Slots : ListOk(s)
<1>1. Init => Inv
  <2>1. Init => \A s \in Slots : ListOk(s)
    BY DEF Init, ListOk
  <2> QED BY <2>1, TypeInit, ReplaceInit, ExportInit
<1>2. Inv /\ [Next]_vars => Inv'
  <2> SUFFICES ASSUME Inv, [Next]_vars PROVE Inv'
    OBVIOUS
  <2>1. PICK scenario \in Scenarios : ReplaceInv(scenario)
    OBVIOUS
  <2>2. TypeInv'
    BY TypeNext
  <2>3. Housed(tree)'
    BY HousedNext DEF Housed
  <2>4. ReplaceInv(scenario)'
    BY <2>1, ReplaceNext
  <2>5. ASSUME NEW s \in Slots PROVE HistoryOk(s)' /\ ExportOk(s)' /\ ListOk(s)'
    BY <2>1, HistoryNext, ExportNext, ListNext
  <2> QED BY <2>2, <2>3, <2>4, <2>5
<1>3. Inv => ReadsAreExact
  BY ExportedIsExact, ListedIsExact DEF ReadsAreExact
<1> QED BY <1>1, <1>2, <1>3, PTL DEF Spec

----------------------------------------------------------------------------
(* What an import leaves.                                                   *)

\* A representation of a Resource in the archive, of the type that is restored first.
First(a, op) ==
  \A q \in Representations(op.c, op.r) \cap DOMAIN a.files : TypeRank(op.kind) <= TypeRank(q.kind)

\* The archive brings a Resource the Space did not know.
Brought(b, a, c, r) ==
  ~ResourceExists(b, c, r) /\ Representations(c, r) \cap DOMAIN a.files # {}

\* What one entry of the plan of the archive a adds to the tree b the import began with,
\* when the capabilities of x are expired.
Share(b, a, x, op) ==
  CASE op.kind = "space" -> {}
    [] op.kind = "description" ->
         IF Has(b, op) THEN {}
         ELSE {op} \cup ({MetaFile(op.c), PolicyFile(op.c, 0)} \cap DOMAIN a.files)
    [] op.kind \in Types ->
         IF ResourceExists(b, op.c, op.r) \/ ~First(a, op) THEN {}
         ELSE {op} \cup ({Sidecar(op.c, op.r), PolicyFile(op.c, op.r)} \cap DOMAIN a.files)
    [] op.kind = "sidecar" -> IF ResourceExists(b, op.c, op.r) THEN {} ELSE {op}
    [] op.kind = "chunk" ->
         IF Has(b, op) \/ ~(Live(b, op.c, op.r) \/ Brought(b, a, op.c, op.r)) THEN {} ELSE {op}
    [] op.kind = "revocation" -> IF Has(b, op) \/ op.r \in x THEN {} ELSE {op}
    [] OTHER -> IF Has(b, op) THEN {} ELSE {op}
Taken(b, a, x, done) == UNION {Share(b, a, x, op) : op \in done}

\* The file at p is in u what it is in t, or the archive's.
Same(t, u, p) == (Has(t, p) <=> Has(u, p)) /\ (Has(t, p) => u.files[p] = t.files[p])
Restores(t, a, p) == Has(t, p) /\ t.files[p] = Archived(a, p)

\* Tree t is b and what the entries done add to it, but for what is left to write.
Merging(b, a, x, t, done, left) ==
  /\ \A p \in Path \ Taken(b, a, x, done) : Same(b, t, p)
  /\ \A p \in Taken(b, a, x, done) : Restores(t, a, p) \/ (p \in left /\ Same(b, t, p))
  /\ \A p \in left : p \in Taken(b, a, x, done) \/ (p.kind = "revocation" /\ Has(b, p))

\* The entries of the plan that come before op.
Ahead(a, op) == {d \in Planned(a) : Lower(Turn(d), Turn(op))}
Rises(ops) == \A i, j \in 1 .. Len(ops) : i < j => Lower(Turn(ops[i]), Turn(ops[j]))

\* The handler of an import that nothing disturbed, at step p with view v, since the tree b.
Restoring(p, v, b, t, x) ==
  /\ IsTree(b)
  /\ p = "begin" => t = b /\ v.ops = <<>> /\ v.writes = <<>>
  /\ p \in {"restoring", "writing", "imported"} =>
       /\ Range(v.ops) \subseteq Planned(v.copy)
       /\ Rises(v.ops)
       /\ Merging(b, v.copy, x, t, Planned(v.copy) \ Range(v.ops), Range(v.writes))
  /\ p = "restoring" => v.writes = <<>>
  /\ p = "imported" => v.ops = <<>> /\ v.writes = <<>>
RestoreOk(s) ==
  /\ pc[s] = "imported" => request[s] # None /\ request[s].kind = "import"
  /\ request[s] # None /\ request[s].kind = "import" /\ seen[s].quiet =>
       Restoring(pc[s], view[s], seen[s].before, tree, expired)

LEMMA PlannedParts ==
  ASSUME NEW a, IsTree(a), 0 \notin a.dirs, NEW op \in Planned(a)
  PROVE  /\ op \in Path /\ op = At(op.kind, op.c, op.r)
         /\ op.kind \in Types \cup {"space", "policy", "description", "sidecar", "chunk", "revocation"}
         /\ op.kind = "space" => op = SpaceFile
         /\ op.kind = "policy" => op = PolicyFile(0, 0)
         /\ op.kind \in Types \cup {"description", "sidecar", "chunk"} => op.c \in a.dirs /\ op.c # 0
         /\ op.kind = "description" => op = DescriptionFile(op.c)
         /\ op.kind = "sidecar" => op \in Tombstones(a)
         /\ op.kind \in Types \cup {"policy", "sidecar", "chunk", "revocation"} => op \in DOMAIN a.files
<1>1. op \in Path
  BY TurnsDiffer
<1>2. op = At(op.kind, op.c, op.r)
  BY <1>1 DEF Path, At
<1>3. CASE op = SpaceFile
  BY <1>1, <1>2, <1>3 DEF SpaceFile, At, Types
<1>4. CASE \E c \in a.dirs : op = DescriptionFile(c)
  BY <1>1, <1>2, <1>4 DEF DescriptionFile, At, Types
<1>5. CASE op \in DOMAIN a.files /\ (op = PolicyFile(0, 0) \/ op.kind = "revocation")
  BY <1>1, <1>2, <1>5 DEF PolicyFile, At, Types
<1>6. CASE op \in DOMAIN a.files /\ op.c \in a.dirs /\ op.kind \in Types \cup {"chunk"}
  BY <1>1, <1>2, <1>6 DEF Types
<1>7. CASE op \in DOMAIN a.files /\ op.c \in a.dirs /\ op \in Tombstones(a)
  <2>1. op.kind = "sidecar"
    BY <1>7 DEF Tombstones
  <2> QED BY <1>1, <1>2, <1>7, <2>1 DEF Types
<1> QED BY <1>3, <1>4, <1>5, <1>6, <1>7 DEF Planned

\* What an entry of the plan adds is itself or comes with it.
LEMMA ShareParts ==
  ASSUME NEW a, IsTree(a), 0 \notin a.dirs, NEW op \in Planned(a), NEW b, NEW x,
         NEW p \in Share(b, a, x, op)
  PROVE  /\ p \in Path
         /\ p # op => p \in DOMAIN a.files /\ p.kind \in {"meta", "policy", "sidecar"}
         /\ p # op /\ p.kind = "policy" => p.c # 0
         /\ p # op /\ p.kind = "sidecar" => op.kind \in Types /\ op.c = p.c /\ op.r = p.r
         /\ op.kind \in Types => First(a, op)
         /\ p.kind \in Types \cup {"sidecar"} => ~ResourceExists(b, p.c, p.r)
         /\ p = op /\ op.kind \in {"policy", "description", "chunk", "revocation"} => ~Has(b, p)
<1>1. /\ op \in Path
      /\ op.kind \in Types \cup {"space", "policy", "description", "sidecar", "chunk", "revocation"}
      /\ op.kind \in Types \cup {"description", "sidecar", "chunk"} => op.c # 0
  BY PlannedParts
<1>2. DOMAIN a.files \subseteq Path
  BY DEF IsTree
<1>3. CASE op.kind = "description"
  <2>1. /\ ~Has(b, op)
        /\ p = op \/ (p \in DOMAIN a.files /\ p \in {MetaFile(op.c), PolicyFile(op.c, 0)})
    BY <1>3 DEF Share, Types
  <2>2. MetaFile(op.c).kind = "meta" /\ PolicyFile(op.c, 0).kind = "policy" /\ PolicyFile(op.c, 0).c = op.c
    BY DEF MetaFile, PolicyFile, At
  <2> QED BY <1>1, <1>2, <1>3, <2>1, <2>2 DEF Types
<1>4. CASE op.kind \in Types
  <2>1. /\ ~ResourceExists(b, op.c, op.r) /\ First(a, op)
        /\ p = op \/ (p \in DOMAIN a.files /\ p \in {Sidecar(op.c, op.r), PolicyFile(op.c, op.r)})
    BY <1>4 DEF Share, Types
  <2>2. /\ PolicyFile(op.c, op.r).kind = "policy" /\ PolicyFile(op.c, op.r).c = op.c
        /\ Sidecar(op.c, op.r).kind = "sidecar"
        /\ Sidecar(op.c, op.r).c = op.c /\ Sidecar(op.c, op.r).r = op.r
    BY DEF Sidecar, PolicyFile, At
  <2> QED BY <1>1, <1>2, <1>4, <2>1, <2>2 DEF Types
<1>5. CASE op.kind = "sidecar"
  BY <1>1, <1>5 DEF Share, Types
<1>6. CASE op.kind = "chunk" \/ op.kind = "revocation"
  BY <1>1, <1>6 DEF Share, Types
<1>7. CASE op.kind = "space" \/ op.kind = "policy"
  BY <1>1, <1>7 DEF Share, Types
<1> QED BY <1>1, <1>3, <1>4, <1>5, <1>6, <1>7

LEMMA RanksOfTypes ==
  ASSUME NEW k \in Types, NEW l \in Types
  PROVE  TypeRank(k) \in Nat /\ (k # l => TypeRank(k) < TypeRank(l) \/ TypeRank(l) < TypeRank(k))
BY DEF Types, TypeRank

\* Of the representations of a Resource in the archive, one is restored first.
LEMMA FirstIsThere ==
  ASSUME NEW a, IsTree(a), NEW c, NEW r, Representations(c, r) \cap DOMAIN a.files # {}
  PROVE  \E d \in Representations(c, r) \cap DOMAIN a.files :
           d.kind \in Types /\ d.c = c /\ d.r = r /\ First(a, d)
<1> DEFINE R == Representations(c, r) \cap DOMAIN a.files
<1>1. \A q \in R : q.kind \in Types /\ q.c = c /\ q.r = r /\ TypeRank(q.kind) \in Nat
  BY RanksOfTypes DEF Representations, At
<1>2. {TypeRank(q.kind) : q \in R} \subseteq Nat /\ {TypeRank(q.kind) : q \in R} # {}
  BY <1>1
<1>3. PICK n \in {TypeRank(q.kind) : q \in R} : \A m \in {TypeRank(q.kind) : q \in R} : n <= m
  BY <1>2, LeastNumber
<1>4. PICK d \in R : n = TypeRank(d.kind)
  BY <1>3
<1>5. \A q \in R : TypeRank(d.kind) <= TypeRank(q.kind)
  BY <1>3, <1>4
<1>6. First(a, d)
  BY <1>1, <1>5 DEF First
<1> QED BY <1>1, <1>6

\* What is taken from the archive is taken for an entry of the plan.
LEMMA TakenFor ==
  ASSUME NEW a, IsTree(a), 0 \notin a.dirs, NEW done, done \subseteq Planned(a), NEW b, NEW x,
         NEW p \in Taken(b, a, x, done)
  PROVE  /\ p \in Path
         /\ p.kind \notin {"meta", "policy", "sidecar"} => p \in done
         /\ p.kind = "policy" => p.c # 0 \/ p \in done
         /\ p.kind = "sidecar" =>
              p \in done \/ \E d \in done : d.kind \in Types /\ d.c = p.c /\ d.r = p.r /\ First(a, d)
         /\ p.kind \in Types => First(a, p)
         /\ p.kind \in Types \cup {"sidecar"} => ~ResourceExists(b, p.c, p.r)
         /\ p.kind \in {"description", "chunk", "revocation"} => ~Has(b, p)
         /\ p = PolicyFile(0, 0) => ~Has(b, p)
<1>1. PICK op \in done : p \in Share(b, a, x, op)
  BY DEF Taken
<1>2. op \in Planned(a)
  OBVIOUS
<1>3. /\ p \in Path
      /\ p # op => p \in DOMAIN a.files /\ p.kind \in {"meta", "policy", "sidecar"}
      /\ p # op /\ p.kind = "policy" => p.c # 0
      /\ p # op /\ p.kind = "sidecar" => op.kind \in Types /\ op.c = p.c /\ op.r = p.r
      /\ op.kind \in Types => First(a, op)
      /\ p.kind \in Types \cup {"sidecar"} => ~ResourceExists(b, p.c, p.r)
      /\ p = op /\ op.kind \in {"policy", "description", "chunk", "revocation"} => ~Has(b, p)
  BY <1>1, <1>2, ShareParts
<1>4. p = PolicyFile(0, 0) => p.kind = "policy" /\ p.c = 0
  BY DEF PolicyFile, At
<1>5. p.kind \in Types => p.kind \notin {"meta", "policy", "sidecar"}
  BY DEF Types
<1> QED BY <1>1, <1>3, <1>4, <1>5

\* A Resource exists in a tree that is being merged if it did before, or if an entry of the
\* plan was for it.
LEMMA ResourceBefore ==
  ASSUME NEW a, IsTree(a), 0 \notin a.dirs, NEW done, done \subseteq Planned(a), NEW b, NEW x, NEW t,
         IsTree(b), IsTree(t), Merging(b, a, x, t, done, {}), NEW c, NEW r
  PROVE  /\ Live(b, c, r) => Live(t, c, r)
         /\ ResourceExists(b, c, r) => ResourceExists(t, c, r)
         /\ Live(t, c, r) =>
              Live(b, c, r) \/ (~ResourceExists(b, c, r) /\ done \cap Representations(c, r) # {})
         /\ ResourceExists(t, c, r) =>
              \/ ResourceExists(b, c, r)
              \/ Sidecar(c, r) \in done
              \/ \E d \in done \cap Representations(c, r) : First(a, d)
<1> DEFINE T == Taken(b, a, x, done)
           R == Representations(c, r)
<1>1. /\ \A p \in Path \ T : Has(b, p) <=> Has(t, p)
      /\ \A p \in T : Has(t, p)
  BY DEF Merging, Same, Restores
<1>2. \A p \in R \cup {Sidecar(c, r)} : p.kind \in Types \cup {"sidecar"} /\ p.c = c /\ p.r = r
  BY DEF Representations, Sidecar, At
<1>3. \A p \in T : p \in R \cup {Sidecar(c, r)} => ~ResourceExists(b, c, r)
  BY <1>2, TakenFor
<1>4. \A p : Has(b, p) \/ Has(t, p) => p \in Path
  BY DEF Has, IsTree
<1>5. (Live(b, c, r) <=> \E p \in R : Has(b, p)) /\ (Live(t, c, r) <=> \E p \in R : Has(t, p))
  BY DEF Live, Among, Has
<1>6. /\ ResourceExists(b, c, r) <=> Live(b, c, r) \/ Has(b, Sidecar(c, r))
      /\ ResourceExists(t, c, r) <=> Live(t, c, r) \/ Has(t, Sidecar(c, r))
  BY DEF ResourceExists
<1>7. ASSUME NEW p \in R \cup {Sidecar(c, r)}, Has(b, p) PROVE Has(t, p)
  BY <1>1, <1>4, <1>7
<1>8. ASSUME NEW p \in R, p \in T PROVE p \in done \cap R /\ First(a, p)
  <2>1. p.kind \in Types /\ p.kind \notin {"meta", "policy", "sidecar"}
    BY DEF Representations, At, Types
  <2> QED BY <1>8, <2>1, TakenFor
<1>9. ASSUME Sidecar(c, r) \in T
      PROVE  Sidecar(c, r) \in done \/ \E d \in done \cap R : First(a, d)
  <2>1. Sidecar(c, r).kind = "sidecar" /\ Sidecar(c, r).c = c /\ Sidecar(c, r).r = r
    BY DEF Sidecar, At
  <2>2. \/ Sidecar(c, r) \in done
        \/ \E d \in done : d.kind \in Types /\ d.c = c /\ d.r = r /\ First(a, d)
    BY <1>9, <2>1, TakenFor
  <2>3. ASSUME NEW d \in done, d.kind \in Types, d.c = c, d.r = r PROVE d \in R
    <3>1. d = At(d.kind, d.c, d.r)
      BY PlannedParts
    <3> QED BY <2>3, <3>1 DEF Representations
  <2> QED BY <2>2, <2>3
<1> HIDE DEF T, R
<1>10. ASSUME Live(t, c, r)
       PROVE  \/ Live(b, c, r)
              \/ ~ResourceExists(b, c, r) /\ \E d \in done \cap R : First(a, d)
  <2>1. PICK p \in R : Has(t, p)
    BY <1>5, <1>10
  <2> QED BY <2>1, <1>1, <1>3, <1>4, <1>5, <1>8
<1>11. Has(t, Sidecar(c, r)) =>
         Has(b, Sidecar(c, r)) \/ Sidecar(c, r) \in done \/ \E d \in done \cap R : First(a, d)
  BY <1>1, <1>4, <1>9
<1>12. done \cap R # {} <=> \E d \in done \cap R : TRUE
  OBVIOUS
<1>13. /\ Live(b, c, r) => Live(t, c, r)
       /\ ResourceExists(b, c, r) => ResourceExists(t, c, r)
  BY <1>5, <1>6, <1>7
<1>14. Live(t, c, r) =>
         Live(b, c, r) \/ (~ResourceExists(b, c, r) /\ done \cap R # {})
  BY <1>10, <1>12
<1>15. ResourceExists(t, c, r) =>
         ResourceExists(b, c, r) \/ Sidecar(c, r) \in done \/ \E d \in done \cap R : First(a, d)
  BY <1>6, <1>10, <1>11
<1> QED BY <1>13, <1>14, <1>15 DEF R

\* A representation comes before those of its Resource with a higher rank, and before the
\* Resource's chunks.
LEMMA RepresentationAhead ==
  ASSUME NEW a, IsTree(a), 0 \notin a.dirs, NEW op \in Planned(a), NEW d,
         d \in Representations(op.c, op.r) \cap DOMAIN a.files,
         \/ op.kind \in Types /\ TypeRank(d.kind) < TypeRank(op.kind)
         \/ op.kind = "chunk"
  PROVE  d \in Ahead(a, op)
<1>1. d.kind \in Types /\ d.c = op.c /\ d.r = op.r
  BY DEF Representations, At
<1>2. op.c \in a.dirs
  BY PlannedParts DEF Types
<1>3. d \in Planned(a)
  BY <1>1, <1>2 DEF Planned
<1>4. Turn(d) \in Fives /\ Turn(op) \in Fives
  BY <1>3, TurnsDiffer
<1>5. /\ Turn(d)[1] = 2 /\ Turn(d)[2] = d.c /\ Turn(d)[3] = 1 /\ Turn(d)[4] = d.r
      /\ Turn(d)[5] = TypeRank(d.kind)
  BY <1>1 DEF Turn, Chapter, Part, Types
<1>6. CASE op.kind \in Types
  <2>1. /\ Turn(op)[1] = 2 /\ Turn(op)[2] = op.c /\ Turn(op)[3] = 1 /\ Turn(op)[4] = op.r
        /\ Turn(op)[5] = TypeRank(op.kind)
    BY <1>6 DEF Turn, Chapter, Part, Types
  <2>2. TypeRank(d.kind) < TypeRank(op.kind)
    BY <1>6 DEF Types
  <2> QED BY <1>1, <1>3, <1>4, <1>5, <2>1, <2>2, LowerOfFives DEF Ahead
<1>7. CASE op.kind = "chunk"
  <2>1. /\ Turn(op)[1] \in {2, 3} /\ Turn(op)[2] = op.c /\ Turn(op)[3] = 3
    BY <1>7 DEF Turn, Chapter, Part, Types
  <2>2. Lower(Turn(d), Turn(op))
    <3> DEFINE u == Turn(d)
               w == Turn(op)
    <3>1. u \in Fives /\ w \in Fives /\ u[1] = 2 /\ u[2] = w[2] /\ u[3] = 1 /\ w[1] \in {2, 3} /\ w[3] = 3
      BY <1>1, <1>4, <1>5, <2>1
    <3> HIDE DEF u, w
    <3>2. u[1] < w[1] \/ (u[1] = w[1] /\ u[2] = w[2] /\ u[3] < w[3])
      BY <3>1
    <3>3. Lower(u, w)
      BY <3>1, <3>2, LowerOfFives
    <3> QED BY <3>3 DEF u, w
  <2> QED BY <1>3, <2>2 DEF Ahead
<1> QED BY <1>6, <1>7

\* What is written when nothing is there.
LEMMA RangeOfWrites ==
  ASSUME NEW a, NEW op
  PROVE  /\ Range(<<>>) = {} /\ Range(<<op>>) = {op}
         /\ \A g, h : Range(<<op>> \o Given(a, g) \o Given(a, h)) = {op} \cup ({g, h} \cap DOMAIN a.files)
<1>1. Range(<<>>) = {} /\ Range(<<op>>) = {op}
  BY DEF Range
<1>2. ASSUME NEW g, NEW h
      PROVE  Range(<<op>> \o Given(a, g) \o Given(a, h)) = {op} \cup ({g, h} \cap DOMAIN a.files)
  <2>1. /\ <<op>> \o <<>> = <<op>>
        /\ <<op>> \o <<g>> = <<op, g>> /\ <<op>> \o <<h>> = <<op, h>>
        /\ <<op, g>> \o <<>> = <<op, g>> /\ <<op, g>> \o <<h>> = <<op, g, h>>
    BY TwoJoined, ThreeJoined
  <2>2. /\ Range(<<op, g>>) = {op, g} /\ Range(<<op, h>>) = {op, h}
        /\ Range(<<op, g, h>>) = {op, g, h}
    <3>1. DOMAIN <<op, g>> = {1, 2} /\ DOMAIN <<op, h>> = {1, 2} /\ DOMAIN <<op, g, h>> = {1, 2, 3}
      OBVIOUS
    <3>2. Range(<<op, g>>) = {op, g}
      BY <3>1 DEF Range
    <3>3. Range(<<op, h>>) = {op, h}
      BY <3>1 DEF Range
    <3>4. Range(<<op, g, h>>) = {op, g, h}
      BY <3>1 DEF Range
    <3> QED BY <3>2, <3>3, <3>4
  <2>3. CASE g \in DOMAIN a.files /\ h \in DOMAIN a.files
    BY <2>1, <2>2, <2>3 DEF Given
  <2>4. CASE g \in DOMAIN a.files /\ h \notin DOMAIN a.files
    BY <2>1, <2>2, <2>4 DEF Given
  <2>5. CASE g \notin DOMAIN a.files /\ h \in DOMAIN a.files
    BY <2>1, <2>2, <2>5 DEF Given
  <2>6. CASE g \notin DOMAIN a.files /\ h \notin DOMAIN a.files
    BY <1>1, <2>1, <2>6 DEF Given
  <2> QED BY <2>3, <2>4, <2>5, <2>6
<1> QED BY <1>1, <1>2

\* What an entry of the plan finds to write is its share, or a revocation that is there.
FindsItsShare(b, a, t, op) ==
  IF op.kind = "revocation"
  THEN /\ Share(b, a, expired, op) \subseteq Range(Writes(t, a, op))
       /\ Range(Writes(t, a, op)) \subseteq {op}
       /\ Has(b, op) \/ Range(Writes(t, a, op)) = Share(b, a, expired, op)
  ELSE Range(Writes(t, a, op)) = Share(b, a, expired, op)

\* The entries before it have not changed what an entry looks at, but for the Resource that
\* an earlier one was for.
LEMMA WritesItsShare ==
  ASSUME NEW a, IsTree(a), 0 \notin a.dirs, NEW done, done \subseteq Planned(a), NEW b, NEW t,
         IsTree(b), IsTree(t), Merging(b, a, expired, t, done, {}),
         NEW op \in Planned(a), op \notin done, Ahead(a, op) \subseteq done
  PROVE  FindsItsShare(b, a, t, op)
<1> DEFINE T == Taken(b, a, expired, done)
           K == Types \cup {"space", "policy", "description", "sidecar", "chunk", "revocation"}
           all == <<op>> \o Given(a, Sidecar(op.c, op.r)) \o Given(a, PolicyFile(op.c, op.r))
           new == <<op>> \o Given(a, MetaFile(op.c)) \o Given(a, PolicyFile(op.c, 0))
<1>1. /\ op \in Path /\ op = At(op.kind, op.c, op.r) /\ op.kind \in K
      /\ op.kind = "policy" => op = PolicyFile(0, 0)
      /\ op.kind = "sidecar" => op \in Tombstones(a)
      /\ op.kind \in Types \cup {"policy", "sidecar", "chunk", "revocation"} => op \in DOMAIN a.files
  BY PlannedParts
<1>2. /\ \A p \in Path \ T : Has(b, p) <=> Has(t, p)
      /\ \A p \in T : Has(t, p)
  BY DEF Merging, Same, Restores
<1>3. /\ Range(<<>>) = {} /\ Range(<<op>>) = {op}
      /\ Range(all) = {op} \cup ({Sidecar(op.c, op.r), PolicyFile(op.c, op.r)} \cap DOMAIN a.files)
      /\ Range(new) = {op} \cup ({MetaFile(op.c), PolicyFile(op.c, 0)} \cap DOMAIN a.files)
  <2>1. \A g, h : Range(<<op>> \o Given(a, g) \o Given(a, h)) = {op} \cup ({g, h} \cap DOMAIN a.files)
    BY RangeOfWrites
  <2>2. Range(<<>>) = {} /\ Range(<<op>>) = {op}
    BY RangeOfWrites
  <2> QED BY <2>1, <2>2, Zenon
<1> HIDE DEF all, new
<1>4. ASSUME op.kind \in {"policy", "description", "chunk"} PROVE Has(b, op) <=> Has(t, op)
  <2>1. op.kind = "policy" => op.c = 0
    BY <1>1 DEF PolicyFile, At
  <2>2. op \notin T
    BY <1>4, <2>1, TakenFor
  <2> QED BY <1>1, <1>2, <2>2
<1>5. /\ Live(b, op.c, op.r) => Live(t, op.c, op.r)
      /\ ResourceExists(b, op.c, op.r) => ResourceExists(t, op.c, op.r)
      /\ Live(t, op.c, op.r) =>
           \/ Live(b, op.c, op.r)
           \/ ~ResourceExists(b, op.c, op.r) /\ done \cap Representations(op.c, op.r) # {}
      /\ ResourceExists(t, op.c, op.r) =>
           \/ ResourceExists(b, op.c, op.r)
           \/ Sidecar(op.c, op.r) \in done
           \/ \E d \in done \cap Representations(op.c, op.r) : First(a, d)
  BY ResourceBefore
<1>6. ASSUME NEW d \in Representations(op.c, op.r), d \in DOMAIN a.files, First(a, d), d \in done,
             ~ResourceExists(b, op.c, op.r)
      PROVE  Live(t, op.c, op.r)
  <2>1. d.kind \in Types /\ d.c = op.c /\ d.r = op.r
    BY DEF Representations, At
  <2>2. d \in Share(b, a, expired, d)
    BY <1>6, <2>1 DEF Share, Types
  <2>3. d \in T
    BY <1>6, <2>2 DEF Taken
  <2>4. Has(t, d)
    BY <1>2, <2>3
  <2> QED BY <2>4 DEF Live, Among, Has
<1> HIDE DEF T
<1>7. ASSUME NEW d \in done \cap Representations(op.c, op.r) PROVE d \in DOMAIN a.files
  <2>1. d.kind \in Types
    BY DEF Representations, At
  <2> QED BY <2>1, PlannedParts
<1>8. CASE op.kind = "description"
  <2>1. Writes(t, a, op) = IF Has(t, op) THEN <<>> ELSE new
    BY <1>8 DEF Writes, DescriptionWrites, Unless, new, Types
  <2>2. Share(b, a, expired, op) = IF Has(b, op) THEN {} ELSE Range(new)
    BY <1>3, <1>8 DEF Share, Types
  <2> QED BY <1>3, <1>4, <1>8, <2>1, <2>2 DEF FindsItsShare
<1>9. CASE op.kind \in Types
  <2>1. Writes(t, a, op) = IF ResourceExists(t, op.c, op.r) THEN <<>> ELSE all
    BY <1>9 DEF Writes, ResourceWrites, Unless, all, Types
  <2>2. Share(b, a, expired, op) = IF ResourceExists(b, op.c, op.r) \/ ~First(a, op) THEN {} ELSE Range(all)
    BY <1>3, <1>9 DEF Share, Types
  <2>3. op \in Representations(op.c, op.r)
    BY <1>1, <1>9 DEF Representations
  <2>4. ResourceExists(t, op.c, op.r) => ResourceExists(b, op.c, op.r) \/ ~First(a, op)
    <3>1. ASSUME NEW d \in done \cap Representations(op.c, op.r), First(a, d) PROVE ~First(a, op)
      <4>1. d.kind \in Types /\ d # op /\ d.kind # op.kind /\ d.c = op.c /\ d.r = op.r
        BY <1>1, <3>1 DEF Representations, At
      <4>2. TypeRank(d.kind) <= TypeRank(op.kind)
        BY <1>1, <1>9, <2>3, <3>1, <4>1 DEF First
      <4>3. TypeRank(d.kind) < TypeRank(op.kind) /\ TypeRank(d.kind) \in Nat /\ TypeRank(op.kind) \in Nat
        BY <1>9, <4>1, <4>2, RanksOfTypes
      <4> QED BY <1>7, <3>1, <4>3 DEF First
    <3>2. Sidecar(op.c, op.r) \notin done
      <4>1. SUFFICES ASSUME Sidecar(op.c, op.r) \in done PROVE FALSE
        OBVIOUS
      <4>2. Sidecar(op.c, op.r).kind = "sidecar"
            /\ Sidecar(op.c, op.r).c = op.c /\ Sidecar(op.c, op.r).r = op.r
        BY DEF Sidecar, At
      <4>3. Sidecar(op.c, op.r) \in Tombstones(a)
        BY <4>1, <4>2, PlannedParts
      <4> QED BY <1>1, <1>9, <2>3, <4>2, <4>3 DEF Tombstones
    <3> QED BY <1>5, <3>1, <3>2
  <2>5. ~First(a, op) /\ ~ResourceExists(b, op.c, op.r) => ResourceExists(t, op.c, op.r)
    <3> SUFFICES ASSUME ~First(a, op), ~ResourceExists(b, op.c, op.r) PROVE ResourceExists(t, op.c, op.r)
      OBVIOUS
    <3>1. PICK d \in Representations(op.c, op.r) \cap DOMAIN a.files :
            d.kind \in Types /\ d.c = op.c /\ d.r = op.r /\ First(a, d)
      BY <1>1, <1>9, <2>3, FirstIsThere
    <3>2. PICK q \in Representations(op.c, op.r) \cap DOMAIN a.files :
            ~ (TypeRank(op.kind) <= TypeRank(q.kind))
      BY DEF First
    <3>3. TypeRank(d.kind) <= TypeRank(q.kind) /\ q.kind \in Types
      BY <3>1 DEF First, Representations, At
    <3>4. TypeRank(d.kind) < TypeRank(op.kind)
      BY <1>9, <3>1, <3>2, <3>3, RanksOfTypes
    <3>5. d \in done
      BY <1>9, <3>1, <3>4, RepresentationAhead
    <3> QED BY <1>6, <3>1, <3>5 DEF ResourceExists
  <2>6. op.kind # "revocation"
    BY <1>9 DEF Types
  <2>7. ResourceExists(t, op.c, op.r) <=> ResourceExists(b, op.c, op.r) \/ ~First(a, op)
    BY <1>5, <2>4, <2>5
  <2> QED BY <1>3, <2>1, <2>2, <2>6, <2>7 DEF FindsItsShare
<1>10. CASE op.kind = "sidecar"
  <2>1. Writes(t, a, op) = IF ResourceExists(t, op.c, op.r) THEN <<>> ELSE <<op>>
    BY <1>10 DEF Writes, TombstoneWrites, Unless, Types
  <2>2. Share(b, a, expired, op) = IF ResourceExists(b, op.c, op.r) THEN {} ELSE {op}
    BY <1>10 DEF Share, Types
  <2>3. Sidecar(op.c, op.r) = op
    BY <1>1, <1>10 DEF Sidecar
  <2>4. Representations(op.c, op.r) \cap DOMAIN a.files = {}
    BY <1>1, <1>10 DEF Tombstones
  <2>5. ResourceExists(t, op.c, op.r) <=> ResourceExists(b, op.c, op.r)
    BY <1>5, <1>7, <2>3, <2>4
  <2> QED BY <1>3, <1>10, <2>1, <2>2, <2>5 DEF FindsItsShare
<1>11. CASE op.kind = "chunk"
  <2>1. Writes(t, a, op) = IF Has(t, op) \/ ~Live(t, op.c, op.r) THEN <<>> ELSE <<op>>
    BY <1>11 DEF Writes, ChunkWrites, Unless, Types
  <2>2. Share(b, a, expired, op) =
          IF Has(b, op) \/ ~(Live(b, op.c, op.r) \/ Brought(b, a, op.c, op.r)) THEN {} ELSE {op}
    BY <1>11 DEF Share, Types
  <2>3. Live(t, op.c, op.r) => Live(b, op.c, op.r) \/ Brought(b, a, op.c, op.r)
    BY <1>5, <1>7 DEF Brought
  <2>4. Brought(b, a, op.c, op.r) => Live(t, op.c, op.r)
    <3> SUFFICES ASSUME Brought(b, a, op.c, op.r) PROVE Live(t, op.c, op.r)
      OBVIOUS
    <3>1. PICK d \in Representations(op.c, op.r) \cap DOMAIN a.files :
            d.kind \in Types /\ d.c = op.c /\ d.r = op.r /\ First(a, d)
      BY FirstIsThere DEF Brought
    <3>2. d \in done
      BY <1>11, <3>1, RepresentationAhead
    <3> QED BY <1>6, <3>1, <3>2 DEF Brought
  <2>5. Live(t, op.c, op.r) <=> Live(b, op.c, op.r) \/ Brought(b, a, op.c, op.r)
    BY <1>5, <2>3, <2>4
  <2> QED BY <1>3, <1>4, <1>11, <2>1, <2>2, <2>5 DEF FindsItsShare
<1>12. CASE op.kind = "revocation"
  <2>1. Writes(t, a, op) = IF op.r \in expired THEN <<>> ELSE <<op>>
    BY <1>12 DEF Writes, RevocationWrites, Unless, Types
  <2>2. Share(b, a, expired, op) = IF Has(b, op) \/ op.r \in expired THEN {} ELSE {op}
    BY <1>12 DEF Share, Types
  <2> QED BY <1>3, <1>12, <2>1, <2>2 DEF FindsItsShare
<1>13. CASE op.kind = "space"
  <2>1. Writes(t, a, op) = <<>> /\ Share(b, a, expired, op) = {}
    BY <1>13 DEF Writes, Share, Types
  <2> QED BY <1>3, <1>13, <2>1 DEF FindsItsShare
<1>14. CASE op.kind = "policy"
  <2>1. Writes(t, a, op) = IF Has(t, op) THEN <<>> ELSE <<op>>
    BY <1>14 DEF Writes, PolicyWrites, Unless, Types
  <2>2. Share(b, a, expired, op) = IF Has(b, op) THEN {} ELSE {op}
    BY <1>14 DEF Share, Types
  <2> QED BY <1>3, <1>4, <1>14, <2>1, <2>2 DEF FindsItsShare
<1> QED BY <1>1, <1>8, <1>9, <1>10, <1>11, <1>12, <1>13, <1>14

\* When the handler has looked at an entry, it has that entry's share left to write.
LEMMA LookMerges ==
  ASSUME NEW a, IsTree(a), 0 \notin a.dirs, NEW done, done \subseteq Planned(a), NEW b, NEW t,
         IsTree(b), IsTree(t), Merging(b, a, expired, t, done, {}),
         NEW op \in Planned(a), op \notin done, Ahead(a, op) \subseteq done
  PROVE  Merging(b, a, expired, t, done \cup {op}, Range(Writes(t, a, op)))
<1> DEFINE T == Taken(b, a, expired, done)
           U == Taken(b, a, expired, done \cup {op})
           S == Share(b, a, expired, op)
           W == Range(Writes(t, a, op))
<1>1. U = T \cup S
  BY DEF Taken
<1>2. S \subseteq W /\ \A p \in W : p \in S \/ (p.kind = "revocation" /\ Has(b, p))
  <2>1. FindsItsShare(b, a, t, op)
    BY WritesItsShare
  <2> QED BY <2>1 DEF FindsItsShare
<1>3. /\ \A p \in Path \ T : Same(b, t, p)
      /\ \A p \in T : Restores(t, a, p)
  BY DEF Merging
<1>4. S \subseteq Path
  BY ShareParts
<1> HIDE DEF T, U, S, W
<1>5. /\ \A p \in Path \ U : Same(b, t, p)
      /\ \A p \in U : Restores(t, a, p) \/ (p \in W /\ Same(b, t, p))
      /\ \A p \in W : p \in U \/ (p.kind = "revocation" /\ Has(b, p))
  BY <1>1, <1>2, <1>3, <1>4
<1> QED BY <1>5 DEF Merging, U, W

\* A write puts the archive's file at its path and leaves the others.
LEMMA WriteMerges ==
  ASSUME NEW a, IsTree(a), 0 \notin a.dirs, NEW done, done \subseteq Planned(a), NEW b, NEW x, NEW t,
         IsTree(b), IsTree(t), NEW left, Merging(b, a, x, t, done, left),
         NEW p \in left, p \in Path, Restorable(t, p)
  PROVE  Merging(b, a, x, Restored(t, a, p), done, left \ {p})
<1> DEFINE T == Taken(b, a, x, done)
           u == Restored(t, a, p)
           d == Archived(a, p)
<1>1. /\ \A q \in Path \ T : Same(b, t, q)
      /\ \A q \in T : Restores(t, a, q) \/ (q \in left /\ Same(b, t, q))
      /\ \A q \in left : q \in T \/ (q.kind = "revocation" /\ Has(b, q))
  BY DEF Merging
<1>2. d \in Value
  BY ArchivedOk
<1>3. /\ DOMAIN Put(t, p, d).files = DOMAIN t.files \cup {p}
      /\ Put(t, p, d).files[p] = d
      /\ \A q \in DOMAIN t.files \ {p} : Put(t, p, d).files[q] = t.files[q]
  <2> HIDE DEF d
  <2> QED BY <1>2, PutFacts
<1>4. u = Put(t, p, d) \/ (u = t /\ Has(t, p) /\ p.kind = "revocation")
  <2>1. p.kind = "revocation" => SpaceIsThere(t)
    BY DEF Restorable, Types
  <2> QED BY <2>1 DEF Restored, Revoked
<1>5. p \in T /\ p.kind = "revocation" => ~Has(b, p)
  BY TakenFor
<1>6. \A q \in T : q \in Path
  BY TakenFor
<1>7. \A q : q \notin {p} => (Same(b, t, q) => Same(b, u, q)) /\ (Restores(t, a, q) => Restores(u, a, q))
  <2> SUFFICES ASSUME NEW q, q # p
               PROVE  (Same(b, t, q) => Same(b, u, q)) /\ (Restores(t, a, q) => Restores(u, a, q))
    OBVIOUS
  <2>1. Has(u, q) <=> Has(t, q)
    BY <1>3, <1>4 DEF Has
  <2>2. Has(t, q) => u.files[q] = t.files[q]
    BY <1>3, <1>4 DEF Has
  <2> QED BY <2>1, <2>2 DEF Same, Restores
<1>8. p \in T => Restores(u, a, p)
  <2>1. CASE u = Put(t, p, d)
    BY <1>3, <2>1 DEF Restores, Has
  <2>2. CASE u = t /\ Has(t, p) /\ p.kind = "revocation"
    BY <1>1, <1>5, <2>2 DEF Same
  <2> QED BY <1>4, <2>1, <2>2
<1>9. p \notin T => Same(b, u, p)
  <2> SUFFICES ASSUME p \notin T PROVE Same(b, u, p)
    OBVIOUS
  <2>1. p.kind = "revocation" /\ Has(b, p) /\ Same(b, t, p)
    BY <1>1
  <2>2. u = t
    BY <2>1 DEF Restored, Revoked, Same
  <2> QED BY <2>1, <2>2
<1> HIDE DEF u, T
<1>10. /\ \A q \in Path \ T : Same(b, u, q)
       /\ \A q \in T : Restores(u, a, q) \/ (q \in left \ {p} /\ Same(b, u, q))
       /\ \A q \in left \ {p} : q \in T \/ (q.kind = "revocation" /\ Has(b, q))
  BY <1>1, <1>7, <1>8, <1>9
<1> QED BY <1>10 DEF Merging, u, T

\* On Postgres the rows of an entry are inserted as it is looked at.
LEMMA InsertMerges ==
  ASSUME NEW a, IsTree(a), 0 \notin a.dirs, NEW done, done \subseteq Planned(a), NEW b, NEW t,
         IsTree(b), IsTree(t), Merging(b, a, expired, t, done, {}), backend = "postgres", 0 \in t.dirs,
         NEW op \in Planned(a), op \notin done, Ahead(a, op) \subseteq done
  PROVE  Merging(b, a, expired, Inserted(t, a, op), done \cup {op}, {})
<1> DEFINE W == Range(Writes(t, a, op))
           D == done \cup {op}
           U == Taken(b, a, expired, D)
           u == Inserted(t, a, op)
<1>1. Merging(b, a, expired, t, D, W)
  BY LookMerges
<1>2. D \subseteq Planned(a) /\ op \in Path
  BY PlannedOk
<1>3. CASE op.kind = "revocation"
  <2>1. W \subseteq {op}
    BY <1>3, WritesItsShare DEF FindsItsShare
  <2>2. u = IF W = {} THEN t ELSE Restored(t, a, op)
    BY <1>3 DEF Inserted
  <2>3. Restorable(t, op)
    BY <1>3 DEF Restorable, Lands, SpaceIsThere, Types
  <2> HIDE DEF W, D, u
  <2>4. ASSUME W = {} PROVE Merging(b, a, expired, u, D, {})
    BY <1>1, <2>2, <2>4
  <2>5. ASSUME W = {op} PROVE Merging(b, a, expired, u, D, {})
    <3>1. op \in W /\ W # {} /\ W \ {op} = {}
      BY <2>5
    <3>2. Merging(b, a, expired, Restored(t, a, op), D, W \ {op})
      BY <1>1, <1>2, <2>3, <3>1, WriteMerges
    <3> QED BY <2>2, <3>1, <3>2
  <2> QED BY <2>1, <2>4, <2>5 DEF u, D
<1>4. CASE op.kind # "revocation"
  <2>1. W = Share(b, a, expired, op)
    <3>1. FindsItsShare(b, a, t, op)
      BY WritesItsShare
    <3> QED BY <1>4, <3>1, Zenon DEF FindsItsShare
  <2>2. W \subseteq U
    BY <2>1 DEF Taken
  <2>3. u.files = Over([p \in W |-> Archived(a, p)], t.files)
    BY <1>4 DEF Inserted
  <2>4. /\ \A p \in Path \ U : Same(b, t, p)
        /\ \A p \in U : Restores(t, a, p) \/ p \in W
    BY <1>1 DEF Merging
  <2> HIDE DEF W, D, U, u
  <2>5. /\ DOMAIN u.files = W \cup DOMAIN t.files
        /\ \A p \in W : u.files[p] = Archived(a, p)
        /\ \A p \in DOMAIN t.files \ W : u.files[p] = t.files[p]
    BY <2>3 DEF Over
  <2>6. \A p \in W : Restores(u, a, p)
    BY <2>5 DEF Restores, Has
  <2>7. \A p : p \notin W => (Same(b, t, p) => Same(b, u, p)) /\ (Restores(t, a, p) => Restores(u, a, p))
    <3> SUFFICES ASSUME NEW p, p \notin W
                 PROVE  (Same(b, t, p) => Same(b, u, p)) /\ (Restores(t, a, p) => Restores(u, a, p))
      OBVIOUS
    <3>1. (Has(u, p) <=> Has(t, p)) /\ (Has(t, p) => u.files[p] = t.files[p])
      BY <2>5 DEF Has
    <3> QED BY <3>1 DEF Same, Restores
  <2>8. /\ \A p \in Path \ U : Same(b, u, p)
        /\ \A p \in U : Restores(u, a, p)
    BY <2>2, <2>4, <2>6, <2>7
  <2>9. Merging(b, a, expired, u, D, {})
    BY <2>8 DEF Merging, U
  <2> QED BY <2>9 DEF u, D
<1> QED BY <1>3, <1>4

\* The merge of the Space and the archive is what the whole plan adds.
LEMMA MergedIsTaken ==
  ASSUME NEW a, IsTree(a), 0 \notin a.dirs, NEW t, IsTree(t)
  PROVE  Merged(t, a) = Over([p \in Taken(t, a, expired, Planned(a)) |-> Archived(a, p)], t.files)
<1> DEFINE files == {p \in DOMAIN a.files : p.kind # "space"}
           undescribed == {c \in a.dirs : ~Has(t, DescriptionFile(c))}
           unused == {p \in Path : p.kind = "sidecar" /\ p.c \in a.dirs
                                     /\ ~Live(t, p.c, p.r) /\ ~Has(t, p)}
           first(c, r) == CHOOSE p \in Representations(c, r) \cap files :
                            \A q \in Representations(c, r) \cap files : TypeRank(p.kind) <= TypeRank(q.kind)
           back == {u \in unused : Representations(u.c, u.r) \cap files # {}}
           fresh == {first(u.c, u.r) : u \in back}
           alongside == UNION {{u, PolicyFile(u.c, u.r)} : u \in back}
           tombs == {u \in unused \ back : u \in files /\ a.files[u].deleted}
           level == {DescriptionFile(c) : c \in undescribed}
                      \cup UNION {{MetaFile(c), PolicyFile(c, 0)} \cap files : c \in undescribed}
           chunks == {p \in files : /\ p.kind = "chunk" /\ p.c \in a.dirs /\ ~Has(t, p)
                                    /\ (Live(t, p.c, p.r) \/ Sidecar(p.c, p.r) \in back)}
           revoked == {p \in files : p.kind = "revocation" /\ p.r \notin expired /\ ~Has(t, p)}
           policy == {p \in files : p = PolicyFile(0, 0) /\ ~Has(t, p)}
           taken == UNION {fresh, alongside \cap files, tombs, level, chunks, revoked, policy}
           share(op) == Share(t, a, expired, op)
           T == Taken(t, a, expired, Planned(a))
<1>1. Merged(t, a) = Over([p \in taken |-> Archived(a, p)], t.files)
  BY DEF Merged
<1>2. ASSUME NEW c, NEW r
      PROVE  /\ Representations(c, r) \cap files = Representations(c, r) \cap DOMAIN a.files
             /\ \A q \in Representations(c, r) \cap DOMAIN a.files :
                  /\ q.kind \in Types /\ q.c = c /\ q.r = r
                  /\ TypeRank(q.kind) \in Nat
             /\ \A d, e \in Representations(c, r) \cap DOMAIN a.files :
                  First(a, d) /\ First(a, e) => d = e
  <2>1. \A q \in Representations(c, r) : /\ q = At(q.kind, c, r) /\ q.kind \in Types
                                         /\ q.c = c /\ q.r = r /\ q.kind # "space"
    BY DEF Representations, At, Types
  <2>2. ASSUME NEW d \in Representations(c, r) \cap DOMAIN a.files,
               NEW e \in Representations(c, r) \cap DOMAIN a.files, First(a, d), First(a, e)
        PROVE  d = e
    <3>1. d.kind \in Types /\ e.kind \in Types /\ d.c = c /\ d.r = r /\ e.c = c /\ e.r = r
          /\ d = At(d.kind, c, r) /\ e = At(e.kind, c, r)
      BY <2>1
    <3>2. TypeRank(d.kind) <= TypeRank(e.kind) /\ TypeRank(e.kind) <= TypeRank(d.kind)
      BY <2>2, <3>1 DEF First
    <3>3. d.kind = e.kind
      BY <3>1, <3>2, RanksOfTypes
    <3> QED BY <3>1, <3>3
  <2> QED BY <2>1, <2>2, RanksOfTypes
<1>3. ASSUME NEW u \in back
      PROVE  /\ u = Sidecar(u.c, u.r) /\ u \in Path /\ u.c \in a.dirs
             /\ ~ResourceExists(t, u.c, u.r)
             /\ Representations(u.c, u.r) \cap DOMAIN a.files # {}
             /\ first(u.c, u.r) \in Representations(u.c, u.r) \cap DOMAIN a.files
             /\ First(a, first(u.c, u.r))
             /\ first(u.c, u.r).c = u.c /\ first(u.c, u.r).r = u.r
             /\ first(u.c, u.r).kind \in Types
  <2>1. u = Sidecar(u.c, u.r) /\ u \in Path /\ u.c \in a.dirs /\ ~Live(t, u.c, u.r) /\ ~Has(t, u)
    BY DEF Path, Sidecar, At
  <2>2. Representations(u.c, u.r) \cap files = Representations(u.c, u.r) \cap DOMAIN a.files
    BY <1>2
  <2>3. Representations(u.c, u.r) \cap DOMAIN a.files # {}
    BY <2>2
  <2>4. PICK d \in Representations(u.c, u.r) \cap DOMAIN a.files :
          d.kind \in Types /\ d.c = u.c /\ d.r = u.r /\ First(a, d)
    BY <2>3, FirstIsThere
  <2>5. \A q \in Representations(u.c, u.r) \cap files : TypeRank(d.kind) <= TypeRank(q.kind)
    BY <2>2, <2>4 DEF First
  <2> DEFINE f == first(u.c, u.r)
  <2>6. /\ f \in Representations(u.c, u.r) \cap files
        /\ \A q \in Representations(u.c, u.r) \cap files : TypeRank(f.kind) <= TypeRank(q.kind)
    BY <2>2, <2>4, <2>5
  <2> HIDE DEF f
  <2>7. f \in Representations(u.c, u.r) \cap DOMAIN a.files /\ f.c = u.c /\ f.r = u.r /\ f.kind \in Types
    BY <1>2, <2>2, <2>6
  <2>8. First(a, f)
    BY <2>2, <2>6, <2>7 DEF First
  <2>9. ~ResourceExists(t, u.c, u.r)
    BY <2>1 DEF ResourceExists
  <2> HIDE DEF first
  <2> QED BY <2>1, <2>3, <2>7, <2>8, <2>9 DEF f
<1>4. ASSUME NEW d \in Planned(a), d.kind \in Types, ~ResourceExists(t, d.c, d.r), First(a, d)
      PROVE  Sidecar(d.c, d.r) \in back /\ d = first(d.c, d.r)
  <2>1. /\ d \in Path /\ d = At(d.kind, d.c, d.r) /\ d.c \in a.dirs /\ d \in DOMAIN a.files
    BY <1>4, PlannedParts
  <2>2. d \in Representations(d.c, d.r) \cap files
    BY <1>4, <2>1, <1>2 DEF Representations
  <2> DEFINE u == Sidecar(d.c, d.r)
  <2>3. u \in Path /\ u.kind = "sidecar" /\ u.c = d.c /\ u.r = d.r
    BY <2>1 DEF Sidecar, At, Path, Kinds
  <2>4. u \in unused
    BY <1>4, <2>1, <2>3 DEF ResourceExists
  <2> HIDE DEF unused, files, u
  <2>5. u \in back
    BY <2>2, <2>3, <2>4
  <2> HIDE DEF back, first
  <2>6. /\ first(d.c, d.r) \in Representations(d.c, d.r) \cap DOMAIN a.files
        /\ First(a, first(d.c, d.r))
    BY <1>3, <2>3, <2>5
  <2>7. d \in Representations(d.c, d.r) \cap DOMAIN a.files
    BY <2>2, <1>2
  <2>8. d = first(d.c, d.r)
    BY <1>2, <1>4, <2>6, <2>7
  <2> QED BY <2>5, <2>8 DEF u
<1>5. \A op \in Planned(a) : share(op) \subseteq T
  BY DEF Taken
<1> HIDE DEF first, T
<1>6. taken \subseteq T
  <2>1. ASSUME NEW u \in back PROVE first(u.c, u.r) \in T /\ {u, PolicyFile(u.c, u.r)} \cap files \subseteq T
    <3> DEFINE d == first(u.c, u.r)
    <3>1. /\ u = Sidecar(u.c, u.r) /\ u.c \in a.dirs /\ ~ResourceExists(t, u.c, u.r)
          /\ d \in DOMAIN a.files /\ First(a, d) /\ d.c = u.c /\ d.r = u.r /\ d.kind \in Types
      BY <1>3
    <3> HIDE DEF d
    <3>2. d \in Planned(a)
      BY <3>1 DEF Planned
    <3>3. share(d) = {d} \cup ({u, PolicyFile(u.c, u.r)} \cap DOMAIN a.files)
      BY <3>1 DEF Share, Types
    <3> HIDE DEF share
    <3>4. d \in share(d) /\ {u, PolicyFile(u.c, u.r)} \cap files \subseteq share(d)
      BY <3>3
    <3> QED BY <1>5, <3>2, <3>4 DEF d
  <2>2. ASSUME NEW u \in tombs PROVE u \in T
    <3>1. /\ u \in Path /\ u.kind = "sidecar" /\ u.c \in a.dirs /\ u \in DOMAIN a.files /\ a.files[u].deleted
          /\ ~Live(t, u.c, u.r) /\ ~Has(t, u) /\ Representations(u.c, u.r) \cap files = {}
      BY <2>2
    <3>2. Representations(u.c, u.r) \cap DOMAIN a.files = {}
      BY <1>2, <3>1
    <3>3. u = Sidecar(u.c, u.r)
      BY <3>1 DEF Path, Sidecar, At
    <3>4. u \in Planned(a)
      BY <3>1, <3>2 DEF Planned, Tombstones
    <3>5. u \in share(u)
      BY <3>1, <3>3 DEF Share, Types, ResourceExists
    <3> QED BY <1>5, <3>4, <3>5
  <2>3. ASSUME NEW c \in undescribed
        PROVE  DescriptionFile(c) \in T /\ {MetaFile(c), PolicyFile(c, 0)} \cap files \subseteq T
    <3> DEFINE d == DescriptionFile(c)
    <3>1. d \in Planned(a) /\ ~Has(t, d) /\ d.kind = "description" /\ d.c = c
      BY DEF Planned, DescriptionFile, At
    <3> HIDE DEF d
    <3>2. share(d) = {d} \cup ({MetaFile(c), PolicyFile(c, 0)} \cap DOMAIN a.files)
      BY <3>1 DEF Share, Types
    <3> HIDE DEF share
    <3>3. d \in share(d) /\ {MetaFile(c), PolicyFile(c, 0)} \cap files \subseteq share(d)
      BY <3>2
    <3> QED BY <1>5, <3>1, <3>3 DEF d
  <2>4. ASSUME NEW p \in chunks PROVE p \in T
    <3>1. /\ p \in DOMAIN a.files /\ p.kind = "chunk" /\ p.c \in a.dirs /\ ~Has(t, p)
          /\ Live(t, p.c, p.r) \/ Sidecar(p.c, p.r) \in back
      BY <2>4
    <3>2. Sidecar(p.c, p.r).c = p.c /\ Sidecar(p.c, p.r).r = p.r
      BY DEF Sidecar, At
    <3>3. Live(t, p.c, p.r) \/ Brought(t, a, p.c, p.r)
      BY <1>3, <3>1, <3>2 DEF Brought
    <3>4. p \in Planned(a)
      BY <3>1 DEF Planned
    <3>5. p \in share(p)
      BY <3>1, <3>3 DEF Share, Types
    <3> QED BY <1>5, <3>4, <3>5
  <2>5. ASSUME NEW p \in revoked \cup policy PROVE p \in T
    <3>1. /\ p \in DOMAIN a.files /\ ~Has(t, p)
          /\ \/ p.kind = "revocation" /\ p.r \notin expired
             \/ p = PolicyFile(0, 0) /\ p.kind = "policy"
      BY <2>5 DEF PolicyFile, At
    <3>2. p \in Planned(a)
      BY <3>1 DEF Planned
    <3>3. p \in share(p)
      BY <3>1 DEF Share, Types
    <3> QED BY <1>5, <3>2, <3>3
  <2> HIDE DEF tombs, chunks, revoked, policy, back, undescribed, files
  <2>6. fresh \subseteq T /\ alongside \cap files \subseteq T
    BY <2>1
  <2>7. level \subseteq T
    BY <2>3
  <2> HIDE DEF fresh, alongside, level
  <2> QED BY <2>2, <2>4, <2>5, <2>6, <2>7
<1>7. T \subseteq taken
  <2> SUFFICES ASSUME NEW op \in Planned(a), NEW p \in share(op) PROVE p \in taken
    BY DEF T, Taken
  <2>1. /\ op \in Path /\ op = At(op.kind, op.c, op.r)
        /\ op.kind \in Types \cup {"space", "policy", "description", "sidecar", "chunk", "revocation"}
        /\ op.kind = "policy" => op = PolicyFile(0, 0)
        /\ op.kind \in Types \cup {"description", "sidecar", "chunk"} => op.c \in a.dirs /\ op.c # 0
        /\ op.kind = "description" => op = DescriptionFile(op.c)
        /\ op.kind = "sidecar" => op \in Tombstones(a)
        /\ op.kind \in Types \cup {"policy", "sidecar", "chunk", "revocation"} => op \in DOMAIN a.files
    BY PlannedParts
  <2>2. CASE op.kind = "description"
    <3>1. ~Has(t, op) /\ (p = op \/ (p \in DOMAIN a.files /\ p \in {MetaFile(op.c), PolicyFile(op.c, 0)}))
      BY <2>2 DEF Share, Types
    <3>2. op.c \in undescribed /\ op = DescriptionFile(op.c)
      BY <2>1, <2>2, <3>1
    <3>3. p = op \/ p \in {MetaFile(op.c), PolicyFile(op.c, 0)} \cap files
      BY <3>1 DEF MetaFile, PolicyFile, At
    <3> HIDE DEF undescribed, files
    <3>4. p \in level
      BY <3>2, <3>3
    <3> QED BY <3>4
  <2>3. CASE op.kind \in Types
    <3>1. /\ ~ResourceExists(t, op.c, op.r) /\ First(a, op)
          /\ p = op \/ (p \in DOMAIN a.files /\ p \in {Sidecar(op.c, op.r), PolicyFile(op.c, op.r)})
      BY <2>3 DEF Share, Types
    <3>2. Sidecar(op.c, op.r) \in back /\ op = first(op.c, op.r)
      BY <1>4, <2>3, <3>1
    <3>3. Sidecar(op.c, op.r).c = op.c /\ Sidecar(op.c, op.r).r = op.r
      BY DEF Sidecar, At
    <3>4. p = op \/ p \in {Sidecar(op.c, op.r), PolicyFile(op.c, op.r)} \cap files
      BY <3>1 DEF Sidecar, PolicyFile, At
    <3> HIDE DEF back, files
    <3>5. op \in fresh /\ {Sidecar(op.c, op.r), PolicyFile(op.c, op.r)} \subseteq alongside
      BY <3>2, <3>3
    <3> HIDE DEF fresh, alongside
    <3> QED BY <3>4, <3>5
  <2>4. CASE op.kind = "sidecar"
    <3>1. ~ResourceExists(t, op.c, op.r) /\ p = op
      BY <2>4 DEF Share, Types
    <3>2. op = Sidecar(op.c, op.r)
      BY <2>1, <2>4 DEF Sidecar
    <3>3. op \in unused
      BY <2>1, <2>4, <3>1, <3>2 DEF ResourceExists
    <3>4. op \in DOMAIN a.files /\ a.files[op].deleted /\ Representations(op.c, op.r) \cap DOMAIN a.files = {}
      BY <2>1, <2>4 DEF Tombstones
    <3>5. op \in files /\ op \notin back
      BY <2>4, <3>4
    <3> HIDE DEF unused, back, files
    <3>6. op \in tombs
      BY <3>3, <3>4, <3>5
    <3> QED BY <3>1, <3>6
  <2>5. CASE op.kind = "chunk"
    <3>1. ~Has(t, op) /\ (Live(t, op.c, op.r) \/ Brought(t, a, op.c, op.r)) /\ p = op
      BY <2>5 DEF Share, Types
    <3>2. Brought(t, a, op.c, op.r) => Sidecar(op.c, op.r) \in back
      <4> SUFFICES ASSUME Brought(t, a, op.c, op.r) PROVE Sidecar(op.c, op.r) \in back
        OBVIOUS
      <4>1. PICK d \in Representations(op.c, op.r) \cap DOMAIN a.files :
              d.kind \in Types /\ d.c = op.c /\ d.r = op.r /\ First(a, d)
        BY FirstIsThere DEF Brought
      <4>2. d \in Planned(a)
        BY <2>1, <2>5, <4>1 DEF Planned
      <4> HIDE DEF back
      <4> QED BY <1>4, <4>1, <4>2 DEF Brought
    <3> HIDE DEF back
    <3>3. op \in chunks
      BY <2>1, <2>5, <3>1, <3>2
    <3> QED BY <3>1, <3>3
  <2>6. CASE op.kind = "revocation"
    <3>1. ~Has(t, op) /\ op.r \notin expired /\ p = op
      BY <2>6 DEF Share, Types
    <3>2. op \in revoked
      BY <2>1, <2>6, <3>1
    <3> QED BY <3>1, <3>2
  <2>7. CASE op.kind = "policy"
    <3>1. ~Has(t, op) /\ p = op
      BY <2>7 DEF Share, Types
    <3>2. op \in policy
      BY <2>1, <2>7, <3>1
    <3> QED BY <3>1, <3>2
  <2>8. CASE op.kind = "space"
    BY <2>8 DEF Share, Types
  <2> QED BY <2>1, <2>2, <2>3, <2>4, <2>5, <2>6, <2>7, <2>8
<1> HIDE DEF taken
<1>8. taken = T
  BY <1>6, <1>7
<1> QED BY <1>1, <1>8 DEF T

\* When the whole plan is done, the tree is the merge, and has the archive's Collections.
LEMMA MergedAtEnd ==
  ASSUME NEW a, IsTree(a), 0 \notin a.dirs, NEW b, NEW t, IsTree(b), IsTree(t), Housed(t),
         Merging(b, a, expired, t, Planned(a), {})
  PROVE  t.files = Merged(b, a) /\ a.dirs \subseteq t.dirs
<1> DEFINE T == Taken(b, a, expired, Planned(a))
           f == [p \in T |-> Archived(a, p)]
           m == Over(f, b.files)
<1>1. Merged(b, a) = m
  BY MergedIsTaken
<1>2. /\ \A p \in Path \ T : Same(b, t, p)
      /\ \A p \in T : Restores(t, a, p)
  BY DEF Merging
<1>3. /\ t.files = [p \in DOMAIN t.files |-> t.files[p]]
      /\ DOMAIN t.files \subseteq Path /\ DOMAIN b.files \subseteq Path
  BY PartsOfTree DEF IsFiles
<1>4. T \subseteq Path
  BY TakenFor
<1>5. ASSUME NEW c \in a.dirs PROVE c \in t.dirs
  <2> DEFINE d == DescriptionFile(c)
  <2>1. d \in Planned(a) /\ d.kind = "description" /\ d.c = c
    BY DEF Planned, DescriptionFile, At
  <2>2. d \in Path
    BY <2>1, PlannedParts
  <2> HIDE DEF d
  <2>3. ~Has(b, d) => d \in T
    <3> SUFFICES ASSUME ~Has(b, d) PROVE d \in T
      OBVIOUS
    <3>1. d \in Share(b, a, expired, d)
      BY <2>1 DEF Share, Types
    <3> QED BY <2>1, <3>1 DEF Taken
  <2>4. Has(t, d)
    BY <1>2, <2>2, <2>3 DEF Same, Restores
  <2> QED BY <2>1, <2>4 DEF Housed, Has
<1> HIDE DEF T
<1>6. DOMAIN f = T /\ \A p \in T : f[p] = Archived(a, p)
  OBVIOUS
<1> HIDE DEF f
<1>7. m = [p \in T \cup DOMAIN b.files |-> IF p \in T THEN f[p] ELSE b.files[p]]
  BY <1>6 DEF Over
<1> HIDE DEF m
<1>8. DOMAIN t.files = T \cup DOMAIN b.files
  BY <1>2, <1>3, <1>4 DEF Same, Restores, Has
<1>9. ASSUME NEW p \in DOMAIN t.files PROVE t.files[p] = IF p \in T THEN f[p] ELSE b.files[p]
  BY <1>2, <1>3, <1>6, <1>8 DEF Same, Restores, Has
<1>10. t.files = m
  BY <1>3, <1>7, <1>8, <1>9
<1> QED BY <1>1, <1>5, <1>10

LEMMA InsertedDirs ==
  ASSUME NEW t, IsTree(t), NEW a, IsTree(a), NEW op \in Path
  PROVE  t.dirs \subseteq Inserted(t, a, op).dirs
<1>1. Archived(a, op) \in Value
  BY ArchivedOk
<1>2. t.dirs \subseteq Put(t, op, Archived(a, op)).dirs
  BY <1>1, PutFacts
<1> QED BY <1>2 DEF Inserted, Restored, Revoked

\* The first n entries of the plan.
Done(a, n) == {Plan(a)[i] : i \in 1 .. n}

\* The entries of the plan before the one at n are those that come before it.
LEMMA BeforeInPlan ==
  ASSUME NEW a, IsTree(a), NEW n \in 1 .. Len(Plan(a))
  PROVE  /\ Plan(a)[n] \in Planned(a) /\ Plan(a)[n] \notin Done(a, n - 1)
         /\ Done(a, n - 1) \subseteq Planned(a)
         /\ Ahead(a, Plan(a)[n]) \subseteq Done(a, n - 1)
         /\ Done(a, n - 1) \cup {Plan(a)[n]} = Done(a, n)
<1> DEFINE q == Plan(a)
           done == Done(a, n - 1)
<1>1. /\ q \in Seq(Planned(a))
      /\ Lists(q, Planned(a))
      /\ \A i, j \in 1 .. Len(q) : i < j => Lower(Turn(q[i]), Turn(q[j]))
  BY PlanIsSorted
<1>2. n \in 1 .. Len(q) /\ done = {q[i] : i \in 1 .. n - 1} /\ Done(a, n) = {q[i] : i \in 1 .. n}
  BY DEF Done
<1> HIDE DEF q, done
<1>3. Len(q) \in Nat /\ \A i \in 1 .. Len(q) : q[i] \in Planned(a)
  BY <1>1
<1>4. \A i \in 1 .. Len(q) : Turn(q[i]) \in Fives
  BY <1>3, TurnsDiffer
<1>5. 1 .. n - 1 \subseteq 1 .. Len(q) /\ \A i \in 1 .. n - 1 : i < n
  BY <1>2, <1>3
<1>6. q[n] \notin done
  <2> SUFFICES ASSUME NEW i \in 1 .. n - 1, q[i] = q[n] PROVE FALSE
    BY <1>2
  <2>1. Lower(Turn(q[i]), Turn(q[n]))
    BY <1>1, <1>2, <1>5
  <2> QED BY <1>2, <1>4, <2>1, LowerIsAnOrder
<1>7. ASSUME NEW d \in Ahead(a, q[n]) PROVE d \in done
  <2>1. d \in Planned(a) /\ Lower(Turn(d), Turn(q[n]))
    BY DEF Ahead
  <2>2. PICK j \in 1 .. Len(q) : q[j] = d
    BY <1>1, <2>1 DEF Lists
  <2>3. ~ Lower(Turn(q[n]), Turn(q[j])) /\ Turn(q[j]) # Turn(q[n])
    BY <1>2, <1>4, <2>1, <2>2, LowerIsAnOrder
  <2>4. j \in 1 .. n - 1
    <3>1. ~ (n < j) /\ j # n
      BY <1>1, <1>2, <2>3
    <3> QED BY <1>2, <1>3, <3>1
  <2> QED BY <1>2, <2>2, <2>4
<1>8. done \cup {q[n]} = {q[i] : i \in 1 .. n}
  <2>1. 1 .. n = (1 .. n - 1) \cup {n}
    BY <1>2, <1>3
  <2> QED BY <1>2, <2>1
<1> QED BY <1>2, <1>3, <1>5, <1>6, <1>7, <1>8 DEF q, done

\* The transaction of Postgres does the whole plan.
LEMMA ImportMerges ==
  ASSUME NEW t, IsTree(t), NEW a, IsTree(a), 0 \notin a.dirs, backend = "postgres"
  PROVE  Merging(t, a, expired, Imported(t, a), Planned(a), {})
<1> DEFINE q == Plan(a)
           N == Len(q)
           start == [t EXCEPT !.dirs = t.dirs \cup {0}]
<1>1. q \in Seq(Path) /\ q \in Seq(Planned(a)) /\ Lists(q, Planned(a))
  BY PlanOk, PlanIsSorted
<1>2. N \in Nat /\ \A i \in 1 .. N : q[i] \in Path /\ q[i] \in Planned(a)
  <2> HIDE DEF q
  <2> QED BY <1>1
<1>3. IsTree(start) /\ start.files = t.files /\ start.dirs = t.dirs \cup {0}
  <2>1. t.dirs \cup {0} \subseteq 0 .. MaxId
    BY PartsOfTree, ZeroId
  <2> QED BY <2>1, DirsExcept
<1>4. PICK g : /\ g[0] = start
               /\ \A n \in 1 .. N : g[n] = Inserted(g[n - 1], a, q[n])
               /\ \A n \in 0 .. N : g[n] \in TreeSet
               /\ Imported(t, a) = g[N]
  <2>1. ASSUME NEW u \in TreeSet, NEW i \in 1 .. N PROVE Inserted(u, a, q[i]) \in TreeSet
    <3>1. IsTree(u) /\ q[i] \in Path
      BY <1>2, TreesAreOfTreeSet
    <3>2. IsTree(Inserted(u, a, q[i]))
      BY <3>1, InsertedFacts
    <3> QED BY <3>2, TreesAreOfTreeSet
  <2>2. start \in TreeSet
    BY <1>3, TreesAreOfTreeSet
  <2> QED BY <1>1, <2>1, <2>2, ImportRuns
<1> DEFINE S == {n \in 0 .. N : Merging(t, a, expired, g[n], Done(a, n), {}) /\ 0 \in g[n].dirs}
<1> HIDE DEF start
<1>5. 0 \in S
  <2>1. Done(a, 0) = {} /\ 0 \in 0 .. N
    BY <1>2 DEF Done
  <2>2. Taken(t, a, expired, {}) = {}
    BY DEF Taken
  <2>3. \A p \in Path : Same(t, start, p)
    BY <1>3 DEF Same, Has
  <2>4. Merging(t, a, expired, start, {}, {})
    BY <2>2, <2>3 DEF Merging
  <2> QED BY <1>3, <1>4, <2>1, <2>4
<1>6. ASSUME NEW n \in 1 .. N, n - 1 \in S PROVE n \in S
  <2> DEFINE done == Done(a, n - 1)
             u == g[n - 1]
             op == q[n]
  <2>1. Merging(t, a, expired, u, done, {}) /\ 0 \in u.dirs
    BY <1>6
  <2>2. /\ op \in Planned(a) /\ op \notin done /\ done \subseteq Planned(a)
        /\ Ahead(a, op) \subseteq done
        /\ done \cup {op} = Done(a, n)
    BY BeforeInPlan
  <2>3. n - 1 \in 0 .. N /\ n \in 0 .. N
    BY <1>2
  <2>4. IsTree(u) /\ op \in Path /\ g[n] = Inserted(u, a, op)
    BY <1>2, <1>4, <2>3, TreesAreOfTreeSet
  <2> HIDE DEF u, op, done
  <2>5. Merging(t, a, expired, Inserted(u, a, op), done \cup {op}, {})
    BY <2>1, <2>2, <2>4, InsertMerges
  <2>6. 0 \in Inserted(u, a, op).dirs
    BY <2>1, <2>4, InsertedDirs
  <2> QED BY <2>2, <2>3, <2>4, <2>5, <2>6
<1>7. N \in S
  <2>1. \A n \in 1 .. N : n - 1 \in S => n \in S
    BY <1>6
  <2> HIDE DEF S, N
  <2>2. 0 .. N \subseteq S
    BY <1>2, <1>5, <2>1, UpTo
  <2> QED BY <1>2, <2>2
<1>8. Done(a, N) = Planned(a)
  <2>1. Done(a, N) = {q[i] : i \in 1 .. N}
    BY DEF Done
  <2> HIDE DEF q
  <2> QED BY <1>1, <1>2, <2>1 DEF Lists
<1> QED BY <1>4, <1>7, <1>8

----------------------------------------------------------------------------
(* The handler of an import goes through its plan.                          *)

LEMMA RestoringThen ==
  ASSUME backend' = backend, NEW s
  PROVE  Restoring(pc[s], view[s], seen[s].before, tree, expired)'
           <=> Restoring(pc'[s], view'[s], seen'[s].before, tree', expired')
<1>1. ASSUME NEW op PROVE Turn(op)' = Turn(op)
  BY <1>1 DEF Turn, Chapter
<1>2. ASSUME NEW ops PROVE Rises(ops)' <=> Rises(ops')
  BY DEF Rises, Turn, Chapter
<1> QED BY DEF Restoring, Rises, Turn, Chapter

\* The next entry of a plan, and what is left of it.
LEMMA PlanGoesOn ==
  ASSUME NEW a, IsTree(a), NEW ops, ops \in Seq(Path), ops # <<>>, Rises(ops),
         Range(ops) \subseteq Planned(a)
  PROVE  /\ Tail(ops) \in Seq(Path) /\ Rises(Tail(ops)) /\ Range(Tail(ops)) \subseteq Planned(a)
         /\ Head(ops) \in Planned(a) /\ Head(ops) \in Range(ops)
         /\ Planned(a) \ Range(Tail(ops)) = (Planned(a) \ Range(ops)) \cup {Head(ops)}
         /\ Ahead(a, Head(ops)) \subseteq Planned(a) \ Range(ops)
<1> DEFINE q == Tail(ops)
           n == Len(ops)
<1>1. n \in Nat /\ n >= 1 /\ DOMAIN ops = 1 .. n /\ Head(ops) = ops[1]
  OBVIOUS
<1>2. q \in Seq(Path) /\ Len(q) = n - 1 /\ DOMAIN q = 1 .. n - 1 /\ \A i \in 1 .. n - 1 : q[i] = ops[i + 1]
  OBVIOUS
<1> HIDE DEF q, n
<1>3. \A i \in 1 .. n : ops[i] \in Range(ops) /\ ops[i] \in Planned(a) /\ Turn(ops[i]) \in Fives
  <2> SUFFICES ASSUME NEW i \in 1 .. n
               PROVE  ops[i] \in Range(ops) /\ ops[i] \in Planned(a) /\ Turn(ops[i]) \in Fives
    OBVIOUS
  <2>1. ops[i] \in Range(ops)
    BY <1>1 DEF Range
  <2> QED BY <2>1, TurnsDiffer
<1>4. \A i \in 1 .. n - 1 : i + 1 \in 1 .. n
  BY <1>1
<1>5. Rises(q)
  <2> SUFFICES ASSUME NEW i \in 1 .. n - 1, NEW j \in 1 .. n - 1, i < j
               PROVE  Lower(Turn(q[i]), Turn(q[j]))
    BY <1>2 DEF Rises
  <2>1. i + 1 \in 1 .. n /\ j + 1 \in 1 .. n /\ i + 1 < j + 1
    BY <1>4
  <2>2. Lower(Turn(ops[i + 1]), Turn(ops[j + 1]))
    BY <2>1 DEF Rises, n
  <2> QED BY <1>2, <2>2
<1>6. Range(q) = {ops[i] : i \in 2 .. n}
  <2>1. Range(q) = {q[i] : i \in 1 .. n - 1}
    BY <1>2 DEF Range
  <2>2. \A i \in 2 .. n : i - 1 \in 1 .. n - 1 /\ q[i - 1] = ops[i]
    BY <1>1, <1>2
  <2>3. \A i \in 1 .. n - 1 : i + 1 \in 2 .. n
    BY <1>1
  <2> QED BY <1>2, <2>1, <2>2, <2>3
<1>7. Range(ops) = Range(q) \cup {ops[1]}
  <2>1. Range(ops) = {ops[i] : i \in 1 .. n}
    BY <1>1 DEF Range
  <2>2. 1 .. n = (2 .. n) \cup {1}
    BY <1>1
  <2> QED BY <1>6, <2>1, <2>2
<1>8. 1 \in 1 .. n /\ \A i \in 2 .. n : i \in 1 .. n /\ 1 < i
  BY <1>1
<1>9. \A i \in 2 .. n : Lower(Turn(ops[1]), Turn(ops[i]))
  BY <1>8 DEF Rises, n
<1>10. ops[1] \notin Range(q)
  BY <1>3, <1>6, <1>8, <1>9, LowerIsAnOrder
<1>11. ASSUME NEW d \in Ahead(a, ops[1]) PROVE d \in Planned(a) /\ d \notin Range(ops)
  <2>1. d \in Planned(a) /\ Lower(Turn(d), Turn(ops[1])) /\ Turn(d) \in Fives
    BY TurnsDiffer DEF Ahead
  <2>2. d # ops[1]
    BY <1>3, <1>8, <2>1, LowerIsAnOrder
  <2>3. d \notin Range(q)
    <3> SUFFICES ASSUME NEW i \in 2 .. n, d = ops[i] PROVE FALSE
      BY <1>6
    <3> QED BY <1>3, <1>8, <1>9, <2>1, LowerIsAnOrder
  <2> QED BY <1>7, <2>1, <2>2, <2>3
<1> HIDE DEF Ahead
<1> QED BY <1>1, <1>2, <1>3, <1>5, <1>7, <1>8, <1>10, <1>11 DEF q

\* The steps of an undisturbed import.
LEMMA RestoringStarts ==
  ASSUME TypeInv, NEW s \in Slots, 0 \notin view[s].copy.dirs, ImportStart(s), NEW b,
         Restoring(pc[s], view[s], b, tree, expired)
  PROVE  Restoring(pc'[s], view'[s], b, tree', expired')
<1> DEFINE a == view[s].copy
           q == Plan(a)
           v == [view[s] EXCEPT !.ops = q]
<1>1. /\ pc[s] = "begin" /\ Step(s, "restoring", v) /\ UNCHANGED <<tree, rest>>
  BY DEF ImportStart, OnFiles, Running
<1>2. IsTree(a) /\ IsView(view[s])
  BY ViewOk
<1>3. /\ q \in Seq(Planned(a))
      /\ Lists(q, Planned(a))
      /\ \A i, j \in 1 .. Len(q) : i < j => Lower(Turn(q[i]), Turn(q[j]))
  BY <1>2, PlanIsSorted
<1> HIDE DEF q
<1>4. v.ops = q /\ v.copy = a /\ v.writes = view[s].writes
  BY <1>2 DEF IsView
<1> HIDE DEF a, v
<1>5. tree = b /\ v.writes = <<>> /\ IsTree(b)
  BY <1>1, <1>4 DEF Restoring
<1>6. Range(q) = Planned(a) /\ Rises(q)
  BY <1>3 DEF Lists, Range, Rises
<1>7. Range(<<>>) = {} /\ Planned(a) \ Range(q) = {}
  BY <1>6, RangeOfWrites
<1>8. Merging(b, a, expired, b, {}, {})
  BY DEF Merging, Taken, Same
<1>9. pc'[s] = "restoring" /\ view'[s] = v /\ tree' = tree /\ expired' = expired
  BY <1>1, StepMoves DEF rest
<1> QED BY <1>4, <1>5, <1>6, <1>7, <1>8, <1>9 DEF Restoring

LEMMA GoesMoves ==
  ASSUME TypeInv, NEW s \in Slots, NEW v, Goes(s, v)
  PROVE  /\ request' = request /\ view'[s] = v
         /\ pc'[s] \in {"restoring", "writing", "imported"}
         /\ pc'[s] = "restoring" => v.writes = <<>>
         /\ pc'[s] = "imported" => v.ops = <<>> /\ v.writes = <<>>
<1> DEFINE p == IF v.ops = <<>> /\ v.writes = <<>> THEN "imported"
                ELSE IF v.writes = <<>> THEN "restoring" ELSE "writing"
<1>1. Step(s, p, v)
  BY DEF Goes
<1>2. /\ p \in {"restoring", "writing", "imported"}
      /\ p = "restoring" => v.writes = <<>>
      /\ p = "imported" => v.ops = <<>> /\ v.writes = <<>>
  OBVIOUS
<1> HIDE DEF p
<1> QED BY <1>1, <1>2, StepMoves

LEMMA RestoringLooks ==
  ASSUME TypeInv, NEW s \in Slots, 0 \notin view[s].copy.dirs, ImportLook(s), ~Answer(s), NEW b,
         Restoring(pc[s], view[s], b, tree, expired)
  PROVE  Restoring(pc'[s], view'[s], b, tree', expired')
<1> DEFINE a == view[s].copy
           op == Head(view[s].ops)
           ops == Tail(view[s].ops)
           writes == Writes(tree, a, op)
           dirs == IF op = SpaceFile THEN tree.dirs ELSE view[s].dirs
           v == [view[s] EXCEPT !.ops = ops, !.writes = writes, !.dirs = dirs]
           done == Planned(a) \ Range(view[s].ops)
<1>1. /\ pc[s] = "restoring" /\ Goes(s, v) /\ UNCHANGED <<tree, rest>>
  BY DEF ImportLook, OnFiles, Running
<1>2. IsTree(a) /\ IsView(view[s]) /\ IsTree(tree)
  BY ViewOk, TreeOk
<1>3. view[s].ops \in Seq(Path) /\ view[s].ops # <<>>
  BY <1>1, <1>2 DEF TypeInv, SlotOk, IsView
<1>4. /\ IsTree(b) /\ Range(view[s].ops) \subseteq Planned(a) /\ Rises(view[s].ops)
      /\ view[s].writes = <<>>
      /\ Merging(b, a, expired, tree, done, Range(view[s].writes))
  BY <1>1 DEF Restoring
<1>5. Merging(b, a, expired, tree, done, {})
  BY <1>4, RangeOfWrites
<1>6. /\ ops \in Seq(Path) /\ Rises(ops) /\ Range(ops) \subseteq Planned(a)
      /\ op \in Planned(a) /\ op \in Range(view[s].ops)
      /\ Planned(a) \ Range(ops) = done \cup {op}
      /\ Ahead(a, op) \subseteq done
  BY <1>2, <1>3, <1>4, PlanGoesOn
<1>7. v.ops = ops /\ v.writes = writes /\ v.copy = a
  <2> HIDE DEF ops, writes, dirs
  <2> QED BY <1>2 DEF IsView
<1>8. op \notin done /\ done \subseteq Planned(a)
  BY <1>6
<1> HIDE DEF op, ops, dirs, done, a
<1>9. Merging(b, a, expired, tree, done \cup {op}, Range(writes))
  BY <1>2, <1>4, <1>5, <1>6, <1>8, LookMerges DEF a
<1> HIDE DEF writes, v
<1>10. /\ view'[s] = v /\ tree' = tree /\ expired' = expired
       /\ pc'[s] \in {"restoring", "writing", "imported"}
       /\ pc'[s] = "restoring" => v.writes = <<>>
       /\ pc'[s] = "imported" => v.ops = <<>> /\ v.writes = <<>>
  BY <1>1, GoesMoves DEF rest
<1>11. Merging(b, v.copy, expired, tree, Planned(v.copy) \ Range(v.ops), Range(v.writes))
  BY <1>6, <1>7, <1>9
<1>12. Range(v.ops) \subseteq Planned(v.copy) /\ Rises(v.ops)
  BY <1>6, <1>7
<1> QED BY <1>4, <1>10, <1>11, <1>12 DEF Restoring

\* Not to have written what is left does no harm.
LEMMA MoreIsLeft ==
  ASSUME NEW b, NEW a, NEW x, NEW t, NEW u, NEW done, NEW all, NEW left, NEW more,
         Merging(b, a, x, t, done, all), Merging(b, a, x, u, done, left),
         left \subseteq more, more \subseteq all
  PROVE  Merging(b, a, x, u, done, more)
BY DEF Merging

LEMMA RestoringWrites ==
  ASSUME TypeInv, NEW s \in Slots, 0 \notin view[s].copy.dirs, ImportWrite(s), ~Answer(s), NEW b,
         Restoring(pc[s], view[s], b, tree, expired)
  PROVE  Restoring(pc'[s], view'[s], b, tree', expired')
<1> DEFINE a == view[s].copy
           p == Head(view[s].writes)
           writes == Tail(view[s].writes)
           v == [view[s] EXCEPT !.writes = writes]
           done == Planned(a) \ Range(view[s].ops)
           all == Range(view[s].writes)
<1>1. /\ pc[s] = "writing" /\ Goes(s, v) /\ expired' = expired
      /\ Restorable(tree, p) /\ tree' = Restored(tree, a, p)
  BY DEF ImportWrite, OnFiles, Running
<1>2. IsTree(a) /\ IsView(view[s]) /\ IsTree(tree)
  BY ViewOk, TreeOk
<1>3. view[s].writes \in Seq(Path) /\ view[s].writes # <<>>
  BY <1>1, <1>2 DEF TypeInv, SlotOk, IsView
<1>4. /\ IsTree(b) /\ Range(view[s].ops) \subseteq Planned(a) /\ Rises(view[s].ops)
      /\ Merging(b, a, expired, tree, done, all)
  BY <1>1 DEF Restoring
<1>5. p \in all /\ p \in Path /\ all \ {p} \subseteq Range(writes) /\ Range(writes) \subseteq all
  <2> DEFINE w == view[s].writes
             n == Len(w)
  <2>1. w \in Seq(Path) /\ w # <<>>
    BY <1>3
  <2> HIDE DEF w
  <2>2. /\ n \in Nat /\ n >= 1 /\ DOMAIN w = 1 .. n /\ Head(w) = w[1] /\ w[1] \in Path
        /\ DOMAIN Tail(w) = 1 .. n - 1 /\ \A i \in 1 .. n - 1 : Tail(w)[i] = w[i + 1]
    BY <2>1
  <2> HIDE DEF n
  <2>3. ASSUME NEW i \in 1 .. n, i # 1 PROVE w[i] \in Range(Tail(w))
    <3>1. i - 1 \in 1 .. n - 1 /\ (i - 1) + 1 = i
      BY <2>2, <2>3
    <3>2. Tail(w)[i - 1] = w[i]
      BY <2>2, <3>1
    <3> QED BY <2>2, <3>1, <3>2 DEF Range
  <2>4. ASSUME NEW i \in 1 .. n - 1 PROVE i + 1 \in 1 .. n
    BY <2>2
  <2>5. Range(w) = {w[i] : i \in 1 .. n} /\ 1 \in 1 .. n
    BY <2>2 DEF Range
  <2>6. Range(Tail(w)) = {w[i + 1] : i \in 1 .. n - 1}
    BY <2>2 DEF Range
  <2>7. Range(w) \ {w[1]} \subseteq Range(Tail(w))
    BY <2>3, <2>5
  <2>8. Range(Tail(w)) \subseteq Range(w)
    BY <2>4, <2>5, <2>6
  <2> QED BY <2>2, <2>5, <2>7, <2>8 DEF w
<1>6. v.ops = view[s].ops /\ v.writes = writes /\ v.copy = a
  <2> HIDE DEF writes
  <2> QED BY <1>2 DEF IsView
<1>7. done \subseteq Planned(a)
  OBVIOUS
<1> HIDE DEF p, writes, done, a, all
<1>8. Merging(b, a, expired, Restored(tree, a, p), done, all \ {p})
  BY <1>1, <1>2, <1>4, <1>5, <1>7, WriteMerges DEF a
<1>9. Merging(b, a, expired, tree', done, Range(writes))
  <2>1. Merging(b, a, expired, Restored(tree, a, p), done, Range(writes))
    BY <1>4, <1>5, <1>8, MoreIsLeft
  <2> QED BY <1>1, <2>1
<1> HIDE DEF v
<1>10. /\ view'[s] = v
       /\ pc'[s] \in {"restoring", "writing", "imported"}
       /\ pc'[s] = "restoring" => v.writes = <<>>
       /\ pc'[s] = "imported" => v.ops = <<>> /\ v.writes = <<>>
  BY <1>1, GoesMoves
<1>11. Merging(b, v.copy, expired, tree', Planned(v.copy) \ Range(v.ops), Range(v.writes))
  BY <1>6, <1>9 DEF done
<1>12. Range(v.ops) \subseteq Planned(v.copy) /\ Rises(v.ops)
  BY <1>4, <1>6
<1> QED BY <1>1, <1>4, <1>10, <1>11, <1>12 DEF Restoring

LEMMA RestoringRows ==
  ASSUME TypeInv, NEW s \in Slots, 0 \notin view[s].copy.dirs, ImportRows(s), NEW b,
         Restoring(pc[s], view[s], b, tree, expired)
  PROVE  Restoring(pc'[s], view'[s], b, tree', expired')
<1> DEFINE a == view[s].copy
           v == view[s]
<1>1. /\ pc[s] = "begin" /\ backend = "postgres" /\ Step(s, "imported", v) /\ expired' = expired
      /\ tree' = Imported(tree, a)
  BY DEF ImportRows, InRows, Running
<1>2. IsTree(a) /\ IsTree(tree)
  BY ViewOk, TreeOk
<1>3. IsTree(b) /\ tree = b /\ v.ops = <<>> /\ v.writes = <<>>
  BY <1>1 DEF Restoring
<1>4. Merging(b, a, expired, tree', Planned(a), {})
  BY <1>1, <1>2, <1>3, ImportMerges
<1>5. pc'[s] = "imported" /\ view'[s] = v
  BY <1>1, StepMoves
<1>6. Range(<<>>) = {}
  BY RangeOfWrites
<1>7. Rises(<<>>)
  BY DEF Rises
<1>8. Merging(b, v.copy, expired, tree', Planned(v.copy) \ Range(v.ops), Range(v.writes))
  BY <1>3, <1>4, <1>6
<1> HIDE DEF v
<1> QED BY <1>1, <1>3, <1>5, <1>6, <1>7, <1>8 DEF Restoring

\* What a slot's history was before this step, and is after it.
Recorded(t) ==
  IF request[t] # None THEN seen[t]
  ELSE [Unseen EXCEPT !.always = IF Reads(request'[t]) THEN Facts(tree) ELSE {},
                      !.before = IF request'[t].kind = "import" THEN tree ELSE None]

LEMMA RecordedThen ==
  ASSUME NEW s \in Slots, NEW t \in Slots, NEW looked, Witness(s, looked), request'[t] # None,
         IsHistory(seen[t])
  PROVE  /\ seen'[t].before = Recorded(t).before
         /\ seen'[t].quiet = (Recorded(t).quiet /\ (t = s \/ (tree' = tree /\ expired' = expired)))
<1> DEFINE old == IF request[t] # None THEN seen[t]
                  ELSE [Unseen EXCEPT !.always = IF Reads(request'[t]) THEN Facts(tree) ELSE {},
                          !.before = IF request'[t].kind = "import" THEN tree ELSE None]
           facts == IF Reads(request'[t]) THEN Facts(tree') ELSE {}
           quiet == old.quiet /\ (t = s \/ (tree' = tree /\ expired' = expired))
<1>1. seen'[t] = [old EXCEPT !.always = old.always \cap facts, !.ever = old.ever \cup facts,
                             !.quiet = quiet]
  BY Zenon DEF Witness
<1>2. IsHistory(old)
  BY DEF IsHistory, Unseen
<1>3. old = Recorded(t)
  BY DEF Recorded
<1>4. quiet = (Recorded(t).quiet /\ (t = s \/ (tree' = tree /\ expired' = expired)))
  BY <1>3
<1> HIDE DEF old, facts, quiet
<1> QED BY <1>1, <1>2, <1>3, <1>4 DEF IsHistory

\* An import is undisturbed only while it was, and nobody else's step changes anything.
LEMMA QuietSeen ==
  ASSUME NEW t \in Slots, IsHistory(seen[t]), NEW s \in Slots, NEW looked, Witness(s, looked),
         request[t] # None, request'[t] = request[t]
  PROVE  /\ seen'[t].before = seen[t].before
         /\ seen'[t].quiet => seen[t].quiet /\ (t = s \/ (tree' = tree /\ expired' = expired))
<1>1. request'[t] # None /\ Recorded(t) = seen[t]
  BY DEF Recorded
<1> QED BY <1>1, RecordedThen

ImportStep(s) ==
  \/ ImportStart(s)
  \/ ~Answer(s) /\ (ImportLook(s) \/ ImportWrite(s))
  \/ ImportRows(s)

\* Only these steps are an import's own.
LEMMA OwnImport ==
  ASSUME NEW s \in Slots, Handles(s), request[s] # None, request[s].kind = "import"
  PROVE  Answer(s) \/ ImportStep(s)
<1>1. CASE Begin(s)
  BY <1>1 DEF Begin
<1>2. CASE QuotaRefuses(s) \/ Respond(s) \/ PutPersist(s)
  BY <1>2 DEF QuotaRefuses, Respond, PutPersist
<1>3. CASE PostCheck(s) \/ PutPrior(s) \/ PutRow(s) \/ DropSome(s) \/ DropAll(s)
  BY <1>3 DEF PostCheck, PutPrior, PutRow, DropSome, DropAll, OnFiles, InRows, Running
<1>4. CASE WriteCheck(s) \/ WriteContent(s) \/ WritePrune(s) \/ WriteSidecar(s) \/ WriteRow(s)
  BY <1>4 DEF WriteCheck, WriteContent, WritePrune, WriteSidecar, WriteRow, OnFiles, InRows, Running
<1>5. CASE \/ RemoveContent(s) \/ RemoveChunks(s) \/ RemoveSidecar(s) \/ RemoveRow(s)
           \/ WriteChunk(s) \/ SetPolicy(s)
  BY <1>5 DEF RemoveContent, RemoveChunks, RemoveSidecar, RemoveRow, WriteChunk, SetPolicy, OnFiles,
              InRows, Running
<1>6. CASE \/ CreateSpace(s) \/ RemoveRevocations(s) \/ RemoveSome(s) \/ RemoveAll(s)
           \/ DeleteRows(s) \/ Revoke(s) \/ Generate(s)
  BY <1>6 DEF CreateSpace, RemoveRevocations, RemoveSome, RemoveAll, DeleteRows, Revoke, Generate,
              OnFiles, InRows, Running
<1>7. CASE ListStep(s) \/ ExportStep(s)
  BY <1>7, ReaderSteps DEF Listings
<1>8. CASE ImportStart(s) \/ ImportLook(s) \/ ImportWrite(s) \/ ImportRows(s)
  BY <1>8 DEF ImportStep
<1> QED BY <1>1, <1>2, <1>3, <1>4, <1>5, <1>6, <1>7, <1>8 DEF Handles

LEMMA OwnRestoring ==
  ASSUME TypeInv, NEW s \in Slots, 0 \notin view[s].copy.dirs, ImportStep(s), NEW b,
         Restoring(pc[s], view[s], b, tree, expired)
  PROVE  Restoring(pc'[s], view'[s], b, tree', expired')
BY RestoringStarts, RestoringLooks, RestoringWrites, RestoringRows DEF ImportStep

\* What other slots' steps leave of an import, and what the invariant then keeps.
LEMMA OtherRestores ==
  ASSUME NEW t \in Slots, SlotOk(t), RestoreOk(t), backend' = backend,
         request'[t] = request[t], pc'[t] = pc[t], view'[t] = view[t],
         request[t] # None /\ seen'[t].quiet =>
           /\ seen'[t].before = seen[t].before /\ seen[t].quiet
           /\ tree' = tree /\ expired' = expired
  PROVE  RestoreOk(t)'
<1>1. Restoring(pc[t], view[t], seen[t].before, tree, expired)'
        <=> Restoring(pc'[t], view'[t], seen'[t].before, tree', expired')
  BY RestoringThen
<1> QED BY <1>1 DEF RestoreOk

\* The steps of an import's own slot.
LEMMA OwnRestores ==
  ASSUME TypeInv, NEW scenario, ReplaceInv(scenario), NEW t \in Slots, HistoryOk(t),
         RestoreOk(t), Handles(t), Moves(t), ~Answer(t), backend' = backend,
         request[t] # None, request[t].kind = "import"
  PROVE  RestoreOk(t)'
<1>1. ImportStep(t)
  BY OwnImport
<1>2. 0 \notin view[t].copy.dirs
  BY HandlerKeeps
<1>3. request'[t] = request[t]
  <2>1. \E p, v : Step(t, p, v)
    BY ReaderSteps DEF Moves, Elsewhere, Begin
  <2> QED BY <2>1 DEF Step
<1>4. PICK looked : Witness(t, looked)
  BY DEF Moves
<1>5. seen'[t].before = seen[t].before /\ (seen'[t].quiet => seen[t].quiet)
  BY <1>3, <1>4, QuietSeen DEF HistoryOk
<1>6. ASSUME seen'[t].quiet
      PROVE  Restoring(pc[t], view[t], seen[t].before, tree, expired)'
  <2>1. Restoring(pc[t], view[t], seen[t].before, tree, expired)
    BY <1>5, <1>6 DEF RestoreOk
  <2>2. Restoring(pc'[t], view'[t], seen[t].before, tree', expired')
    BY <1>1, <1>2, <2>1, OwnRestoring
  <2> QED BY <1>5, <2>2, RestoringThen
<1> QED BY <1>3, <1>6 DEF RestoreOk

LEMMA BegunRestores ==
  ASSUME TypeInv, NEW t \in Slots, HistoryOk(t), Begin(t), backend' = backend
  PROVE  RestoreOk(t)'
<1>1. PICK r \in todo : /\ request' = [request EXCEPT ![t] = r]
                        /\ view' = [view EXCEPT ![t].copy = IF r.kind = "import" THEN archive ELSE @]
  BY DEF Begin
<1>2. /\ pc' = [pc EXCEPT ![t] = "begin"] /\ request[t] = None
      /\ tree' = tree /\ Witness(t, {})
  BY DEF Begin
<1>3. request = [x \in Slots |-> request[x]] /\ view = [x \in Slots |-> view[x]]
      /\ pc = [x \in Slots |-> pc[x]]
  BY DEF TypeInv, Shapes
<1>4. request'[t] = r /\ pc'[t] = "begin"
      /\ view'[t] = [view[t] EXCEPT !.copy = IF r.kind = "import" THEN archive ELSE view[t].copy]
  BY <1>1, <1>2, <1>3
<1>5. view[t] = NoView
  BY <1>2 DEF TypeInv, SlotOk
<1>6. view'[t].ops = <<>> /\ view'[t].writes = <<>>
  BY <1>4, <1>5 DEF NoView
<1>7. ASSUME r # None, r.kind = "import" PROVE seen'[t].before = tree
  <2>1. Recorded(t).before = tree
    BY <1>2, <1>4, <1>7 DEF Recorded, Unseen
  <2>2. request'[t] # None
    BY <1>4, <1>7
  <2> QED BY <1>2, <2>1, <2>2, RecordedThen DEF HistoryOk
<1>8. IsTree(tree)
  BY TreeOk
<1>9. ASSUME r # None, r.kind = "import"
      PROVE  Restoring(pc[t], view[t], seen[t].before, tree, expired)'
  <2>1. Restoring(pc'[t], view'[t], seen'[t].before, tree', expired')
    BY <1>2, <1>4, <1>6, <1>7, <1>8, <1>9 DEF Restoring
  <2> QED BY <2>1, RestoringThen
<1> QED BY <1>4, <1>9 DEF RestoreOk

LEMMA RestoreNext ==
  ASSUME TypeInv, NEW scenario, ReplaceInv(scenario), \A t \in Slots : HistoryOk(t), [Next]_vars,
         NEW t \in Slots, RestoreOk(t)
  PROVE  RestoreOk(t)'
<1>1. backend' = backend /\ SlotOk(t) /\ HistoryOk(t)
  BY BackendStays DEF TypeInv
<1>2. CASE UNCHANGED vars
  BY <1>1, <1>2, OtherRestores DEF vars, flight
<1>3. CASE Expire
  <2>1. UNCHANGED flight /\ seen'[t] = [seen[t] EXCEPT !.quiet = seen[t].quiet /\ request[t] = None]
    BY <1>3 DEF Expire
  <2>2. seen'[t].quiet = (seen[t].quiet /\ request[t] = None)
    BY <1>1, <2>1 DEF HistoryOk, IsHistory
  <2>3. request[t] # None => ~seen'[t].quiet
    BY <2>2
  <2> QED BY <1>1, <2>1, <2>3, OtherRestores DEF flight
<1>4. CASE Crash
  BY <1>4 DEF Crash, RestoreOk
<1>5. ASSUME NEW s \in Slots, Moves(s), t # s PROVE RestoreOk(t)'
  <2>1. PICK looked : Witness(s, looked)
    BY <1>5 DEF Moves
  <2>2. ASSUME request'[t] = request[t], pc'[t] = pc[t], view'[t] = view[t]
        PROVE  RestoreOk(t)'
    <3>1. request[t] # None /\ seen'[t].quiet =>
            /\ seen'[t].before = seen[t].before /\ seen[t].quiet
            /\ tree' = tree /\ expired' = expired
      BY <1>1, <1>5, <2>1, <2>2, QuietSeen DEF HistoryOk
    <3> QED BY <1>1, <2>2, <3>1, OtherRestores
  <2>3. CASE Answer(s)
    BY <1>5, <2>2, <2>3, AnswerMoves
  <2>4. CASE \E p, v : Step(s, p, v)
    BY <1>5, <2>2, <2>4, StepMoves
  <2>5. CASE Begin(s)
    <3>1. /\ \E r : request' = [request EXCEPT ![s] = r]
          /\ \E copy : view' = [view EXCEPT ![s].copy = copy]
          /\ pc' = [pc EXCEPT ![s] = "begin"]
      BY <2>5 DEF Begin
    <3>2. request = [x \in Slots |-> request[x]] /\ view = [x \in Slots |-> view[x]]
          /\ pc = [x \in Slots |-> pc[x]]
      BY DEF TypeInv, Shapes
    <3> QED BY <1>5, <2>2, <3>1, <3>2
  <2>6. CASE ExportStep(s) \/ ListStep(s)
    BY <2>3, <2>4, <2>6, ReaderSteps
  <2> QED BY <1>5, <2>3, <2>4, <2>5, <2>6 DEF Moves, Elsewhere
<1>6. CASE Handles(t)
  <2>1. Moves(t)
    BY <1>6, HandlesMoves
  <2>2. CASE Answer(t)
    <3>1. request'[t] = None /\ pc'[t] = "idle"
      BY <2>2, AnswerMoves
    <3> QED BY <3>1 DEF RestoreOk
  <2>3. CASE Begin(t)
    BY <1>1, <2>3, BegunRestores
  <2>4. CASE ~Answer(t) /\ request[t] # None /\ request[t].kind = "import"
    BY <1>1, <1>6, <2>1, <2>4, OwnRestores
  <2>5. CASE ~Answer(t) /\ ~Begin(t) /\ (request[t] # None => request[t].kind # "import")
    <3>1. request[t] # None /\ \E p, v : p # "imported" /\ Step(t, p, v)
      BY <2>1, <2>5, ReaderSteps DEF Moves, Elsewhere
    <3>2. PICK p, v : p # "imported" /\ Step(t, p, v)
      BY <3>1
    <3>3. request'[t] = request[t] /\ pc'[t] = p
      BY <3>2, StepMoves
    <3> QED BY <2>5, <3>1, <3>2, <3>3 DEF RestoreOk
  <2> QED BY <2>2, <2>3, <2>4, <2>5 DEF Begin
<1> QED BY <1>2, <1>3, <1>4, <1>5, <1>6, NextHandles, HandlesMoves

\* What the invariant says of an import that is done.
LEMMA RestoredIsFaithful ==
  ASSUME TypeInv, Housed(tree), NEW scenario, ReplaceInv(scenario), NEW s \in Slots, RestoreOk(s),
         pc[s] = "imported", seen[s].quiet
  PROVE  /\ tree.files = Merged(seen[s].before, view[s].copy)
         /\ view[s].copy.dirs \subseteq tree.dirs
<1> DEFINE a == view[s].copy
           b == seen[s].before
<1>1. IsTree(a) /\ IsTree(tree)
  BY ViewOk, TreeOk
<1>2. 0 \notin a.dirs
  BY HandlerKeeps
<1>3. Restoring("imported", view[s], b, tree, expired)
  BY DEF RestoreOk
<1>4. Range(<<>>) = {}
  BY RangeOfWrites
<1>5. /\ IsTree(b)
      /\ Merging(b, a, expired, tree, Planned(a), {})
  <2>1. /\ view[s].ops = <<>> /\ view[s].writes = <<>> /\ IsTree(b)
        /\ Merging(b, a, expired, tree, Planned(a) \ Range(view[s].ops), Range(view[s].writes))
    BY <1>3 DEF Restoring
  <2>2. Planned(a) \ Range(view[s].ops) = Planned(a) /\ Range(view[s].writes) = {}
    BY <1>4, <2>1
  <2> QED BY <2>1, <2>2
<1> QED BY <1>1, <1>2, <1>5, MergedAtEnd

\* An import that no other request and no expiry disturbed leaves exactly the merge of the
\* Space it began with and the archive: nothing the Space had is overwritten, whatever the
\* archive brings that the Space did not know is there, a deleted Resource stays deleted, a
\* revoked capability revoked, and no chunk comes without its Resource (importSpace of either
\* backend) - for any Space and archive, on files entry by entry, and in rows at once.
THEOREM RestoresStayFaithful == Spec => []RestoreIsFaithful
<1> DEFINE Inv == /\ TypeInv /\ Housed(tree)
                  /\ \E scenario \in Scenarios : ReplaceInv(scenario)
                  /\ \A s \in Slots : HistoryOk(s)
                  /\ \A s \in Slots : RestoreOk(s)
<1>1. Init => Inv
  <2>1. Init => \A s \in Slots : RestoreOk(s)
    BY DEF Init, RestoreOk
  <2> QED BY <2>1, TypeInit, ReplaceInit, ExportInit
<1>2. Inv /\ [Next]_vars => Inv'
  <2> SUFFICES ASSUME Inv, [Next]_vars PROVE Inv'
    OBVIOUS
  <2>1. PICK scenario \in Scenarios : ReplaceInv(scenario)
    OBVIOUS
  <2>2. TypeInv'
    BY TypeNext
  <2>3. Housed(tree)'
    BY HousedNext DEF Housed
  <2>4. ReplaceInv(scenario)'
    BY <2>1, ReplaceNext
  <2>5. ASSUME NEW s \in Slots PROVE HistoryOk(s)' /\ RestoreOk(s)'
    BY <2>1, HistoryNext, RestoreNext
  <2> QED BY <2>2, <2>3, <2>4, <2>5
<1>3. Inv => RestoreIsFaithful
  BY RestoredIsFaithful DEF RestoreIsFaithful
<1> QED BY <1>1, <1>2, <1>3, PTL DEF Spec
================================================================================
