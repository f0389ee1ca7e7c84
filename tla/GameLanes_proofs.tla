--------------------------- MODULE GameLanes_proofs ---------------------------
(***************************************************************************)
(* Proof that the lanes of IGDB miss nothing that they do not count, for   *)
(* any games, page, cap, lookback and bounds.                              *)
(***************************************************************************)
EXTENDS GameLanes, FiniteSetTheorems, WellFoundedInduction, TLAPS

\* Ids of IGDB, and the limits of a walk.
AreNumbered ==
    /\ IsFiniteSet(Games) /\ Games \subseteq Nat \ {0}
    /\ PageSize \in Nat \ {0} /\ MaxItems \in Nat /\ Lookback \in Nat

\* A set of naturals has a least one.
LEMMA LeastNatural ==
    ASSUME NEW T \in SUBSET Nat, T # {}
    PROVE  \E x \in T : \A y \in T : x =< y
<1> DEFINE below(x) == 0 .. (x - 1)
           all == {below(x) : x \in T}
           R == StrictSubsetOrdering(Nat)
<1>1. IsWellFoundedOn(R, FiniteSubsetsOf(Nat))
  BY FS_StrictSubsetOrderingWellFounded
<1>2. all \subseteq FiniteSubsetsOf(Nat) /\ all # {}
  <2>1. ASSUME NEW x \in T PROVE below(x) \in SUBSET Nat /\ IsFiniteSet(below(x))
    <3>1. 0 \in Int /\ x - 1 \in Int
      OBVIOUS
    <3>2. QED
      BY <3>1, FS_Interval
  <2>2. QED
    BY <2>1 DEF FiniteSubsetsOf
<1>3. PICK few \in all : \A s \in all : ~(<<s, few>> \in R)
  <2> HIDE DEF R, all
  <2>1. QED
    BY <1>1, <1>2, WFMin
<1>4. PICK x \in T : few = below(x)
  BY <1>3
<1>5. ASSUME NEW y \in T, y < x PROVE FALSE
  <2>1. below(y) \in SUBSET Nat /\ below(x) \in SUBSET Nat /\ below(y) \subseteq below(x)
    BY <1>5
  <2>2. y \in below(x) /\ y \notin below(y)
    BY <1>5
  <2>3. <<below(y), below(x)>> \in R
    BY <2>1, <2>2 DEF StrictSubsetOrdering
  <2>4. QED
    BY <1>3, <1>4, <2>3
<1>6. QED
  BY <1>5


-----------------------------------------------------------------------------
(* Places in a finite set that is sorted by key, and by number where keys are equal. *)

Before(S, key, x) == {y \in S : key[y] < key[x] \/ (key[y] = key[x] /\ y < x)}
Rank(S, key, x) == Cardinality(Before(S, key, x))
\* A finite set of numbers with their keys.
IsKeyed(S, key) == IsFiniteSet(S) /\ S \subseteq Int /\ \A x \in S : key[x] \in Int

LEMMA RankType ==
    ASSUME NEW S, NEW key, IsFiniteSet(S), NEW x
    PROVE  IsFiniteSet(Before(S, key, x)) /\ Rank(S, key, x) \in Nat /\ Rank(S, key, x) =< Cardinality(S)
<1>1. Before(S, key, x) \in SUBSET S
  BY DEF Before
<1>2. IsFiniteSet(Before(S, key, x)) /\ Cardinality(Before(S, key, x)) =< Cardinality(S)
  BY <1>1, FS_Subset
<1>3. QED
  BY <1>2, FS_CardinalityType DEF Rank

\* What is sorted after x has all of x before it, and x as well.
LEMMA RankFollowsOrder ==
    ASSUME NEW S, NEW key, IsKeyed(S, key), NEW x \in S, NEW z \in S, x \in Before(S, key, z)
    PROVE  Before(S, key, x) \subseteq Before(S, key, z) /\ Rank(S, key, x) < Rank(S, key, z)
<1>1. /\ S \subseteq Int /\ \A y \in S : key[y] \in Int
      /\ key[x] < key[z] \/ (key[x] = key[z] /\ x < z)
  BY DEF IsKeyed, Before
<1>2. ASSUME NEW y \in Before(S, key, x) PROVE y \in Before(S, key, z)
  BY <1>1, <1>2 DEF Before
<1>3. x \notin Before(S, key, x)
  BY <1>1 DEF Before
<1>4. Before(S, key, x) \in SUBSET Before(S, key, z)
  BY <1>2
<1>5. IsFiniteSet(Before(S, key, z)) /\ Rank(S, key, x) \in Nat /\ Rank(S, key, z) \in Nat
  BY RankType DEF IsKeyed
<1>6. Rank(S, key, x) =< Rank(S, key, z) /\ Rank(S, key, x) # Rank(S, key, z)
  BY <1>3, <1>4, <1>5, FS_Subset DEF Rank
<1>7. QED
  BY <1>4, <1>5, <1>6

LEMMA OneBeforeOther ==
    ASSUME NEW S, NEW key, IsKeyed(S, key), NEW x \in S, NEW z \in S
    PROVE  x = z \/ x \in Before(S, key, z) \/ z \in Before(S, key, x)
BY DEF IsKeyed, Before

LEMMA RankBelowSize ==
    ASSUME NEW S, NEW key, IsKeyed(S, key), NEW x \in S
    PROVE  Rank(S, key, x) < Cardinality(S)
<1>1. Before(S, key, x) \in SUBSET S /\ x \notin Before(S, key, x)
  BY DEF Before, IsKeyed
<1>2. IsFiniteSet(S) /\ Rank(S, key, x) \in Nat /\ Cardinality(S) \in Nat
  BY RankType, FS_CardinalityType DEF IsKeyed
<1>3. Rank(S, key, x) =< Cardinality(S) /\ Rank(S, key, x) # Cardinality(S)
  BY <1>1, <1>2, FS_Subset DEF Rank
<1>4. QED
  BY <1>2, <1>3

\* Of the members outside A one is sorted first: what is before it is in A.
LEMMA FirstOutside ==
    ASSUME NEW S, NEW key, IsKeyed(S, key), NEW A, \E x \in S : x \notin A
    PROVE  \E x \in S : x \notin A /\ Before(S, key, x) \subseteq A
<1> DEFINE ranks == {Rank(S, key, x) : x \in {y \in S : y \notin A}}
<1>1. ranks \in SUBSET Nat /\ ranks # {}
  BY RankType DEF IsKeyed
<1>2. PICK n \in ranks : \A m \in ranks : n =< m
  BY <1>1, LeastNatural
<1>3. PICK x \in S : x \notin A /\ Rank(S, key, x) = n
  BY <1>2
<1>4. ASSUME NEW y \in Before(S, key, x), y \notin A PROVE FALSE
  <2>1. y \in S
    BY DEF Before
  <2>2. Rank(S, key, y) \in ranks
    BY <1>4, <2>1
  <2>3. Rank(S, key, y) < Rank(S, key, x)
    BY <2>1, RankFollowsOrder
  <2>4. Rank(S, key, x) \in Nat /\ Rank(S, key, y) \in Nat
    BY RankType DEF IsKeyed
  <2>5. QED
    BY <1>2, <1>3, <2>2, <2>3, <2>4
<1>5. QED
  BY <1>3, <1>4

\* Where x would be at a place below n, some member that is not sorted before x is at one.
LEMMA SomebodyBelow ==
    ASSUME NEW S, NEW key, IsKeyed(S, key), NEW x, NEW n \in Nat,
           n =< Cardinality(S), Rank(S, key, x) < n
    PROVE  \E y \in S : y \notin Before(S, key, x) /\ Rank(S, key, y) < n
<1> DEFINE A == Before(S, key, x)
<1>1. A \in SUBSET S /\ IsFiniteSet(A) /\ Cardinality(A) \in Nat /\ Cardinality(S) \in Nat
  <2>1. IsFiniteSet(S) /\ A \in SUBSET S
    BY DEF Before, IsKeyed
  <2>2. IsFiniteSet(A)
    BY <2>1, FS_Subset
  <2> HIDE DEF A
  <2>3. QED
    BY <2>1, <2>2, FS_CardinalityType
<1>2. \E y \in S : y \notin A
  <2>1. SUFFICES ASSUME A = S PROVE FALSE
    BY <1>1
  <2>2. Cardinality(A) < n
    BY DEF Rank
  <2> HIDE DEF A
  <2>3. QED
    BY <1>1, <2>1, <2>2
<1>3. PICK y \in S : y \notin A /\ Before(S, key, y) \subseteq A
  BY <1>2, FirstOutside
<1>4. Cardinality(Before(S, key, y)) =< Cardinality(A)
  BY <1>1, <1>3, FS_Subset
<1>5. Rank(S, key, y) \in Nat /\ Rank(S, key, y) =< Rank(S, key, x) /\ Rank(S, key, x) \in Nat
  BY <1>1, <1>4, RankType DEF Rank, IsKeyed
<1>6. QED
  BY <1>3, <1>5

\* old becomes new in that x joins, or moves from a place that is not below n, or leaves from there.
IsJoined(old, was, new, key, x, n) ==
    /\ IsKeyed(old, was) /\ IsKeyed(new, key)
    /\ new = old \ {x} \/ new = (old \ {x}) \cup {x}
    /\ \A y \in old \ {x} : key[y] = was[y]
    /\ key[x] \in Int /\ x \in Int
    /\ x \in old => Rank(old, was, x) >= n

\* That pushes back what is sorted after x; if x comes in below n, it does so before a member
\* that was below n.
LEMMA Joining ==
    ASSUME NEW old, NEW was, NEW new, NEW key, NEW x, NEW n \in Nat,
           IsJoined(old, was, new, key, x, n), n =< Cardinality(old)
    PROVE  /\ n =< Cardinality(new)
           /\ \A y \in old \ {x} : Rank(new, key, y) < n => Rank(old, was, y) < n
           /\ \A y \in old \ {x} : Rank(new, key, y) >= n => Rank(old, was, y) >= n \/ key[y] >= key[x]
           /\ Rank(new, key, x) < n => \E y \in old \ {x} : Rank(old, was, y) < n /\ key[y] >= key[x]
<1> DEFINE S == old \ {x}
<1>0. /\ IsKeyed(old, was) /\ IsKeyed(new, key) /\ S = old \ {x} /\ (new = S \/ new = S \cup {x})
      /\ (\A y \in S : key[y] = was[y]) /\ key[x] \in Int /\ x \in Int
      /\ (x \in old => Rank(old, was, x) >= n)
  BY DEF IsJoined
<1> HIDE DEF S
<1> USE <1>0
<1>1. /\ IsFiniteSet(S) /\ IsFiniteSet(new) /\ IsFiniteSet(old) /\ IsKeyed(S, was) /\ IsKeyed(S, key)
      /\ Cardinality(S) \in Nat /\ Cardinality(old) \in Nat /\ Cardinality(new) \in Nat
  <2>1. S \in SUBSET old /\ IsFiniteSet(old) /\ IsFiniteSet(new)
    BY DEF IsKeyed
  <2>2. IsFiniteSet(S)
    BY <2>1, FS_Subset
  <2>3. IsKeyed(S, was) /\ IsKeyed(S, key)
    BY <2>1, <2>2 DEF IsKeyed
  <2>4. QED
    BY <2>1, <2>2, <2>3, FS_CardinalityType
<1>2. n =< Cardinality(S)
  <2>1. CASE x \notin old
    BY <2>1, <1>1
  <2>2. CASE x \in old
    <3>1. Before(old, was, x) \in SUBSET S
      BY <2>2 DEF Before, IsKeyed
    <3>2. Rank(old, was, x) =< Cardinality(S) /\ Rank(old, was, x) \in Nat
      BY <1>1, <3>1, FS_Subset, RankType DEF Rank
    <3>3. QED
      BY <1>1, <2>2, <3>2
  <2>3. QED
    BY <2>1, <2>2
<1>3. n =< Cardinality(new)
  <2>1. S \in SUBSET new
    OBVIOUS
  <2>2. Cardinality(S) =< Cardinality(new)
    BY <1>1, <2>1, FS_Subset
  <2>3. QED
    BY <1>1, <1>2, <2>2
<1>4. ASSUME NEW y \in S
      PROVE  /\ Rank(S, key, y) \in Nat /\ Rank(new, key, y) \in Nat /\ Rank(old, was, y) \in Nat
             /\ Before(S, key, y) = Before(S, was, y)
             /\ Rank(S, key, y) =< Rank(new, key, y)
             /\ Rank(S, key, y) =< Rank(old, was, y)
             /\ x \notin Before(new, key, y) => Rank(new, key, y) = Rank(S, key, y)
             /\ x \notin Before(old, was, y) => Rank(old, was, y) = Rank(S, key, y)
  <2>1. Rank(S, key, y) \in Nat /\ Rank(new, key, y) \in Nat /\ Rank(old, was, y) \in Nat
    BY <1>1, RankType
  <2>2. Before(S, key, y) = Before(S, was, y)
    BY DEF Before
  <2>3. Before(S, key, y) \in SUBSET Before(new, key, y)
    BY DEF Before
  <2>4. Before(S, was, y) \in SUBSET Before(old, was, y)
    BY DEF Before
  <2>5. IsFiniteSet(Before(new, key, y)) /\ IsFiniteSet(Before(old, was, y))
    BY <1>1, RankType
  <2>6. Rank(S, key, y) =< Rank(new, key, y)
    BY <2>3, <2>5, FS_Subset DEF Rank
  <2>7. Rank(S, key, y) =< Rank(old, was, y)
    BY <2>2, <2>4, <2>5, FS_Subset DEF Rank
  <2>8. x \notin Before(new, key, y) => Before(new, key, y) = Before(S, key, y)
    BY DEF Before
  <2>9. x \notin Before(old, was, y) => Before(old, was, y) = Before(S, was, y)
    BY DEF Before
  <2>10. QED
    BY <2>1, <2>2, <2>6, <2>7, <2>8, <2>9 DEF Rank
<1>5. ASSUME NEW y \in S, Rank(S, key, y) < n
      PROVE  Rank(old, was, y) < n
  <2>1. CASE x \notin Before(old, was, y)
    BY <1>4, <1>5, <2>1
  <2>2. CASE x \in Before(old, was, y)
    <3>1. x \in old /\ y \in old
      BY <2>2 DEF Before
    <3>2. Before(old, was, x) \subseteq Before(old, was, y)
      BY <2>2, <3>1, RankFollowsOrder
    <3>3. Before(old, was, x) \in SUBSET Before(S, was, y)
      BY <3>1, <3>2 DEF Before, IsKeyed
    <3>4. IsFiniteSet(Before(S, was, y))
      BY <1>1, RankType
    <3>5. Rank(old, was, x) =< Rank(S, was, y) /\ Rank(old, was, x) \in Nat
      BY <1>1, <3>3, <3>4, FS_Subset, RankType DEF Rank
    <3>6. Rank(S, was, y) = Rank(S, key, y)
      BY <1>4 DEF Rank
    <3>7. QED
      BY <1>4, <1>5, <3>1, <3>5, <3>6
  <2>3. QED
    BY <2>1, <2>2
<1>6. \A y \in S : Rank(new, key, y) < n => Rank(old, was, y) < n
  <2>1. ASSUME NEW y \in S, Rank(new, key, y) < n PROVE Rank(S, key, y) < n
    <3>1. Rank(S, key, y) \in Nat /\ Rank(new, key, y) \in Nat /\ Rank(S, key, y) =< Rank(new, key, y)
      BY <1>4
    <3>2. QED
      BY <2>1, <3>1
  <2>2. QED
    BY <1>5, <2>1
<1>7. ASSUME NEW y \in S, Rank(new, key, y) >= n, ~(Rank(old, was, y) >= n)
      PROVE  key[y] >= key[x]
  <2>1. x \in Before(new, key, y)
    BY <1>4, <1>7
  <2>2. key[y] \in Int
    BY <1>1 DEF IsKeyed
  <2>3. QED
    BY <2>1, <2>2 DEF Before
<1>8. ASSUME Rank(new, key, x) < n
      PROVE  \E y \in S : Rank(old, was, y) < n /\ key[y] >= key[x]
  <2>1. Before(new, key, x) = Before(S, key, x)
    BY DEF Before
  <2>2. PICK y \in S : y \notin Before(S, key, x) /\ Rank(S, key, y) < n
    BY <1>1, <1>2, <1>8, <2>1, SomebodyBelow DEF Rank
  <2>3. key[y] \in Int
    BY <1>1 DEF IsKeyed
  <2>4. key[y] >= key[x]
    BY <2>2, <2>3 DEF Before
  <2>5. QED
    BY <1>5, <2>2, <2>4
<1>9. QED
  BY <1>3, <1>6, <1>7, <1>8 DEF S

\* What was read by place: the walk has read what is placed below n, and nothing that is sorted
\* after what is not; escaped are the keys of which that is not promised.
ReadsInOrder(S, key, seen, n, escaped) ==
    /\ n =< Cardinality(S)
    /\ \A g \in S : Rank(S, key, g) < n => key[g] \in escaped \/ \E r \in seen : r.id = g /\ r.stamp = key[g]
    /\ \A g \in S : Rank(S, key, g) >= n => \A r \in seen : r.stamp =< key[g]

\* Nobody has read the latest second unless it is set apart: whoever joins in it leaves order.
LEMMA JoiningKeepsOrder ==
    ASSUME NEW old, NEW was, NEW new, NEW key, NEW x, NEW n \in Nat,
           IsJoined(old, was, new, key, x, n),
           NEW seen, \A r \in seen : r.stamp \in Int /\ r.stamp =< key[x],
           \A y \in old \ {x} : key[y] =< key[x],
           NEW escaped, NEW escapedNow, escaped \subseteq escapedNow,
           (\E r \in seen : r.stamp = key[x]) => key[x] \in escapedNow,
           ReadsInOrder(old, was, seen, n, escaped)
    PROVE  ReadsInOrder(new, key, seen, n, escapedNow)
<1> DEFINE S == old \ {x}
<1>0. (new = S \/ new = S \cup {x}) /\ IsKeyed(new, key) /\ key[x] \in Int
      /\ (\A y \in S : key[y] = was[y]) /\ \A y \in S : key[y] \in Int
  BY DEF IsJoined, IsKeyed
<1>1. n =< Cardinality(old)
  BY DEF ReadsInOrder
<1>2. /\ n =< Cardinality(new)
      /\ \A y \in S : Rank(new, key, y) < n => Rank(old, was, y) < n
      /\ \A y \in S : Rank(new, key, y) >= n => Rank(old, was, y) >= n \/ key[y] >= key[x]
      /\ Rank(new, key, x) < n => \E y \in S : Rank(old, was, y) < n /\ key[y] >= key[x]
  BY <1>1, Joining
<1>3. \A y \in S : key[y] \in Int /\ y \in old
  BY <1>0
<1> HIDE DEF S
<1>4. ASSUME NEW y \in S, Rank(old, was, y) < n
      PROVE  key[y] \in escapedNow \/ \E r \in seen : r.id = y /\ r.stamp = key[y]
  BY <1>0, <1>3, <1>4 DEF ReadsInOrder
<1>5. ASSUME NEW g \in new, Rank(new, key, g) < n
      PROVE  key[g] \in escapedNow \/ \E r \in seen : r.id = g /\ r.stamp = key[g]
  <2>1. CASE g \in S
    BY <1>2, <1>4, <1>5, <2>1
  <2>2. CASE g = x
    <3>1. PICK y \in S : Rank(old, was, y) < n /\ key[y] >= key[x]
      BY <1>2, <1>5, <2>2
    <3>2. key[y] = key[x]
      BY <1>0, <1>3, <3>1 DEF S
    <3>3. key[x] \in escapedNow
      BY <1>4, <3>1, <3>2
    <3>4. QED
      BY <2>2, <3>3
  <2>3. QED
    BY <1>0, <2>1, <2>2
<1>6. ASSUME NEW g \in new, Rank(new, key, g) >= n, NEW r \in seen
      PROVE  r.stamp =< key[g]
  <2>1. CASE g \in S /\ Rank(old, was, g) >= n
    BY <1>0, <1>3, <2>1 DEF ReadsInOrder
  <2>2. CASE key[g] >= key[x]
    <3>1. key[g] \in Int /\ key[x] \in Int
      BY <1>0 DEF IsKeyed
    <3>2. QED
      BY <2>2, <3>1
  <2>3. QED
    BY <1>0, <1>2, <1>6, <2>1, <2>2
<1>7. QED
  BY <1>2, <1>5, <1>6 DEF ReadsInOrder

\* The next page: what is placed from n to m.
LEMMA ReadingKeepsOrder ==
    ASSUME NEW S, NEW key, IsKeyed(S, key), NEW n \in Nat, NEW m \in Nat, n =< m, m =< Cardinality(S),
           NEW seen, NEW seenNow, NEW escaped,
           seen \subseteq seenNow,
           \A g \in S : Rank(S, key, g) \in n .. (m - 1) => \E r \in seenNow : r.id = g /\ r.stamp = key[g],
           \A r \in seenNow : \/ r \in seen
                              \/ \E g \in S : r.stamp = key[g] /\ Rank(S, key, g) < m,
           ReadsInOrder(S, key, seen, n, escaped)
    PROVE  ReadsInOrder(S, key, seenNow, m, escaped)
<1>1. \A g \in S : Rank(S, key, g) \in Nat /\ key[g] \in Int
  BY RankType DEF IsKeyed
<1>2. ASSUME NEW g \in S, Rank(S, key, g) < m
      PROVE  key[g] \in escaped \/ \E r \in seenNow : r.id = g /\ r.stamp = key[g]
  <2>1. CASE Rank(S, key, g) < n
    BY <2>1 DEF ReadsInOrder
  <2>2. CASE ~(Rank(S, key, g) < n)
    <3>1. Rank(S, key, g) \in n .. (m - 1)
      BY <1>1, <1>2, <2>2
    <3>2. QED
      BY <3>1
  <2>3. QED
    BY <2>1, <2>2
<1>3. ASSUME NEW g \in S, Rank(S, key, g) >= m, NEW r \in seenNow
      PROVE  r.stamp =< key[g]
  <2>1. CASE r \in seen
    <3>1. Rank(S, key, g) >= n
      BY <1>1, <1>3
    <3>2. QED
      BY <2>1, <3>1 DEF ReadsInOrder
  <2>2. ASSUME NEW h \in S, r.stamp = key[h], Rank(S, key, h) < m
        PROVE  r.stamp =< key[g]
    <3>1. CASE g \in Before(S, key, h)
      <4>1. Rank(S, key, g) < Rank(S, key, h)
        BY <3>1, RankFollowsOrder
      <4>2. QED
        BY <1>1, <1>3, <2>2, <4>1
    <3>2. CASE h \in Before(S, key, g)
      BY <1>1, <2>2, <3>2 DEF Before
    <3>3. CASE g = h
      BY <1>1, <2>2, <3>3
    <3>4. QED
      BY <3>1, <3>2, <3>3, OneBeforeOther
  <2>3. QED
    BY <2>1, <2>2
<1>4. QED
  BY <1>2, <1>3 DEF ReadsInOrder

-----------------------------------------------------------------------------
(* The inductive invariant.                                                 *)

\* Each game is published with stamps of the past, or it is not; a row stands for a payload that was.
GameIsSound(g) ==
    /\ igdb[g] = Absent \/ (/\ igdb[g].created \in 0 .. now /\ igdb[g].updated \in 0 .. now
                            /\ igdb[g].allowed \in BOOLEAN /\ igdb[g].rated \in BOOLEAN)
    /\ catalog[g] \in Int
    /\ catalog[g] # None => igdb[g] # Absent /\ catalog[g] \in 0 .. igdb[g].updated
MarkIsSound(lane) ==
    marks[lane] \in Int /\ marks[lane] =< now /\ (marks[lane] # None => marks[lane] \in unasked[lane])
IgdbIsSound ==
    /\ AreNumbered /\ now \in Nat
    /\ igdb \in [Games -> [created : Int, updated : Int, allowed : BOOLEAN, rated : BOOLEAN]]
    /\ catalog \in [Games -> Int]
    /\ marks \in [{"created", "updated"} -> Int]
    /\ DOMAIN unasked = {"created", "updated"}
    /\ \A g \in Games : GameIsSound(g)
    /\ \A lane \in {"created", "updated"} : MarkIsSound(lane)
WalkIsSound ==
    /\ walk \in [lane : {"none", "created", "updated", "promotion"}, step : {"read", "write", "advance"},
                 since : Int, offset : Nat, seen : SUBSET [id : Games, stamp : Int, updated : Int],
                 moved : BOOLEAN, whole : SUBSET Games]
    /\ walk.offset =< MaxItems
    /\ walk.lane \notin {"created", "updated"} => walk.seen = {}
    /\ walk.moved => walk.lane = "updated"
    /\ walk.lane \in {"created", "updated"} =>
          walk.since =< now /\ (marks[walk.lane] # None => walk.since = marks[walk.lane])

\* What was read is a payload of the past; one of today, or it was changed after it was read.
ReadingIsSound(r) ==
    /\ r.updated \in 0 .. igdb[r.id].updated /\ r.stamp =< now
    /\ r.updated = igdb[r.id].updated \/ igdb[r.id].updated >= marks["updated"]
    /\ walk.lane = "updated" => r.stamp = r.updated
    /\ walk.step = "advance" => \/ r.id \in refused \/ catalog[r.id] >= r.updated
                                \/ walk.lane = "updated" /\ catalog[r.id] = None
ReadingsAreSound == \A r \in walk.seen : igdb[r.id] # Absent /\ ReadingIsSound(r)

\* The walk has read what it has gone past, and nothing that is sorted after what it has not.
PlaceIsRead(g) ==
    LET place == Place(g, walk.lane, walk.since)
        stamp == Stamp(g, walk.lane)
    IN  /\ place < walk.offset => stamp \in unasked[walk.lane] \/ \E r \in walk.seen : r.id = g /\ r.stamp = stamp
        /\ place >= walk.offset => \A r \in walk.seen : r.stamp =< stamp
WalkReadsInOrder ==
    walk.lane \in {"created", "updated"} /\ ~walk.moved =>
       /\ walk.offset =< Cardinality(Listed(walk.lane, walk.since))
       /\ \A g \in Listed(walk.lane, walk.since) : PlaceIsRead(g)

\* What the sweep began with and has gone past is a target.
SweepGoesOn ==
    /\ walk.lane = "promotion" => /\ walk.whole \subseteq Eligible
                                  /\ \A g \in walk.whole : g =< walk.since => g \in targets
    /\ complete = TRUE

LanesInv == /\ IgdbIsSound /\ WalkIsSound /\ ReadingsAreSound /\ WalkReadsInOrder /\ SweepGoesOn
            /\ NewGamesAreAdmitted /\ CatalogFollowsUpdates

-----------------------------------------------------------------------------
(* The listing of a lane as a sorted set.                                   *)

Stamps(lane) == [g \in Games |-> Stamp(g, lane)]
AreStamped ==
    /\ AreNumbered
    /\ \A g \in Games : igdb[g].created \in Int /\ igdb[g].updated \in Int

LEMMA ListedIsSorted ==
    AreStamped => \A lane, since :
        /\ IsKeyed(Listed(lane, since), Stamps(lane))
        /\ \A g \in Games : Place(g, lane, since) = Rank(Listed(lane, since), Stamps(lane), g)
<1> SUFFICES ASSUME AreStamped, NEW lane, NEW since
             PROVE  /\ IsKeyed(Listed(lane, since), Stamps(lane))
                    /\ \A g \in Games : Place(g, lane, since) = Rank(Listed(lane, since), Stamps(lane), g)
  OBVIOUS
<1> DEFINE S == Listed(lane, since)
<1>1. S \in SUBSET Games /\ IsFiniteSet(Games) /\ Games \subseteq Int
  BY DEF Listed, Published, AreStamped, AreNumbered
<1>2. IsFiniteSet(S)
  BY <1>1, FS_Subset
<1>3. \A g \in Games : Stamps(lane)[g] = Stamp(g, lane) /\ Stamp(g, lane) \in Int
  BY DEF Stamps, Stamp, AreStamped
<1>4. IsKeyed(S, Stamps(lane))
  <2> HIDE DEF S
  <2>1. QED
    BY <1>1, <1>2, <1>3 DEF IsKeyed
<1>5. ASSUME NEW g \in Games
      PROVE  Place(g, lane, since) = Rank(S, Stamps(lane), g)
  <2>1. {h \in S : Precedes(h, g, lane)} = Before(S, Stamps(lane), g)
    <3> HIDE DEF S
    <3>1. QED
      BY <1>1, <1>3 DEF Precedes, Before
  <2>2. QED
    BY <2>1 DEF Place, Rank
<1>6. QED
  BY <1>4, <1>5

OrderIsKept ==
    walk.lane \in {"created", "updated"} /\ ~walk.moved =>
       ReadsInOrder(Listed(walk.lane, walk.since), Stamps(walk.lane), walk.seen, walk.offset, unasked[walk.lane])

LEMMA OrderIsOfPlaces == AreStamped => (WalkReadsInOrder <=> OrderIsKept)
<1> SUFFICES ASSUME AreStamped PROVE WalkReadsInOrder <=> OrderIsKept
  OBVIOUS
<1> DEFINE S == Listed(walk.lane, walk.since)
           key == Stamps(walk.lane)
<1>1. \A g \in S : g \in Games /\ Place(g, walk.lane, walk.since) = Rank(S, key, g) /\ key[g] = Stamp(g, walk.lane)
  <2>1. S \subseteq Games
    BY DEF Listed, Published
  <2>2. \A g \in Games : Place(g, walk.lane, walk.since) = Rank(S, key, g)
    BY ListedIsSorted
  <2>3. \A g \in Games : key[g] = Stamp(g, walk.lane)
    BY DEF Stamps
  <2>4. QED
    BY <2>1, <2>2, <2>3
<1> HIDE DEF S, key
<1>2. (\A g \in S : PlaceIsRead(g)) <=>
        (/\ \A g \in S : Rank(S, key, g) < walk.offset =>
                key[g] \in unasked[walk.lane] \/ \E r \in walk.seen : r.id = g /\ r.stamp = key[g]
         /\ \A g \in S : Rank(S, key, g) >= walk.offset => \A r \in walk.seen : r.stamp =< key[g])
  BY <1>1 DEF PlaceIsRead
<1>3. QED
  BY <1>2 DEF WalkReadsInOrder, OrderIsKept, ReadsInOrder, S, key

LEMMA SortedNext ==
    AreStamped' =>
        /\ WalkReadsInOrder' <=> OrderIsKept'
        /\ \A lane, since : IsKeyed(Listed(lane, since)', Stamps(lane)')
<1>1. AreStamped' => (WalkReadsInOrder' <=> OrderIsKept')
  BY OrderIsOfPlaces, PTL
<1>2. (AreStamped => \A lane, since :
        /\ IsKeyed(Listed(lane, since), Stamps(lane))
        /\ \A g \in Games : Place(g, lane, since) = Rank(Listed(lane, since), Stamps(lane), g))'
  BY ListedIsSorted, PTL
<1>3. QED
  BY <1>1, <1>2

-----------------------------------------------------------------------------
(* What is read of the invariant.                                           *)

\* Of things with a bounded key one has the highest.
LEMMA Topmost ==
    ASSUME NEW S, S # {}, NEW f, NEW top \in Int, \A x \in S : f[x] \in Int /\ f[x] =< top
    PROVE  \E m \in S : \A x \in S : f[x] =< f[m]
<1> DEFINE gaps == {top - f[x] : x \in S}
<1>1. gaps \in SUBSET Nat /\ gaps # {}
  OBVIOUS
<1>2. PICK least \in gaps : \A y \in gaps : least =< y
  BY <1>1, LeastNatural
<1>3. PICK m \in S : least = top - f[m]
  BY <1>2
<1>4. ASSUME NEW x \in S PROVE f[x] =< f[m]
  <2>1. top - f[x] \in gaps
    BY <1>4
  <2>2. top - f[m] =< top - f[x]
    BY <1>2, <1>3, <2>1
  <2>3. QED
    BY <2>2
<1>5. QED
  BY <1>3, <1>4

LEMMA Stamped == IgdbIsSound => AreStamped
BY DEF IgdbIsSound, AreStamped

\* What is published has stamps of the past, a row only ever stands for what is published.
LEMMA SoundGame ==
    ASSUME IgdbIsSound, NEW g \in Games
    PROVE  /\ igdb[g] \in [created : Int, updated : Int, allowed : BOOLEAN, rated : BOOLEAN]
           /\ g \in Published => igdb[g].created \in 0 .. now /\ igdb[g].updated \in 0 .. now
           /\ catalog[g] \in Int
           /\ catalog[g] # None => g \in Published /\ catalog[g] \in 0 .. igdb[g].updated
<1>1. GameIsSound(g) /\ igdb[g] \in [created : Int, updated : Int, allowed : BOOLEAN, rated : BOOLEAN]
  BY DEF IgdbIsSound
<1>2. QED
  BY <1>1 DEF GameIsSound, Published

LEMMA SoundMark ==
    ASSUME IgdbIsSound, NEW lane \in {"created", "updated"}
    PROVE  /\ marks[lane] \in Int /\ marks[lane] =< now
           /\ marks[lane] # None => marks[lane] \in unasked[lane]
BY DEF IgdbIsSound, MarkIsSound

LEMMA SoundReading ==
    ASSUME WalkIsSound, ReadingsAreSound, NEW r \in walk.seen
    PROVE  r.id \in Published /\ r.id \in Games /\ r.stamp \in Int /\ r.updated \in Int /\ ReadingIsSound(r)
<1>1. walk.seen \in SUBSET [id : Games, stamp : Int, updated : Int]
  BY DEF WalkIsSound
<1>2. QED
  BY <1>1 DEF ReadingsAreSound, Published

\* Of what was read of a game the newest payload counts.
LEMMA PayloadIsRead ==
    ASSUME IgdbIsSound, WalkIsSound, ReadingsAreSound, NEW g \in Seen
    PROVE  \E r \in walk.seen : /\ r.id = g /\ Payload(g) = r.updated
                                /\ \A c \in walk.seen : c.id = g => c.updated =< r.updated
<1> DEFINE copies == {r \in walk.seen : r.id = g}
           f == [r \in copies |-> r.updated]
<1>1. copies # {}
  BY DEF Seen
<1>2. igdb[g].updated \in Int
  <2>1. g \in Games
    BY SoundReading DEF Seen
  <2>2. QED
    BY <2>1, Stamped DEF AreStamped
<1>3. \A r \in copies : r.updated \in Int /\ r.updated =< igdb[g].updated
  <2>1. ASSUME NEW r \in copies PROVE r.updated \in Int /\ r.updated =< igdb[g].updated
    <3>1. ReadingIsSound(r) /\ r.updated \in Int
      BY SoundReading
    <3>2. QED
      BY <1>2, <3>1 DEF ReadingIsSound
  <2>2. QED
    BY <2>1
<1>4. \A r \in copies : f[r] = r.updated
  OBVIOUS
<1> HIDE DEF f
<1>5. \E m \in copies : \A x \in copies : f[x] =< f[m]
  <2>1. \A r \in copies : f[r] \in Int /\ f[r] =< igdb[g].updated
    BY <1>3, <1>4
  <2> HIDE DEF copies
  <2>2. QED
    BY <1>1, <1>2, <2>1, Topmost
<1>6. \E m \in copies : \A x \in copies : x.updated =< m.updated
  BY <1>4, <1>5
<1>7. PICK r \in copies : r = (CHOOSE m \in copies : \A c \in copies : c.updated =< m.updated)
                          /\ \A c \in copies : c.updated =< r.updated
  BY <1>6
<1>8. QED
  BY <1>7 DEF Payload

\* The cursor: the latest second read, or where the walk began.
LEMMA NewestIsRead ==
    ASSUME IgdbIsSound, WalkIsSound, ReadingsAreSound, walk.since =< now
    PROVE  LET cursor == Newest(walk.seen, walk.since)
           IN  /\ cursor \in Int /\ cursor =< now
               /\ walk.seen = {} => cursor = walk.since
               /\ walk.seen # {} => \E r \in walk.seen : r.stamp = cursor
               /\ \A r \in walk.seen : r.stamp =< cursor
<1> DEFINE S == walk.seen
           f == [r \in S |-> r.stamp]
<1>1. walk.since \in Int /\ now \in Int
  BY DEF WalkIsSound, IgdbIsSound
<1>2. CASE S = {}
  BY <1>1, <1>2 DEF Newest
<1>3. CASE S # {}
  <2>1. \A r \in S : f[r] = r.stamp
    OBVIOUS
  <2>2. \A r \in S : r.stamp \in Int /\ r.stamp =< now
    BY SoundReading DEF ReadingIsSound
  <2> HIDE DEF f
  <2>3. \A r \in S : f[r] \in Int /\ f[r] =< now
    BY <2>1, <2>2
  <2>4. \E m \in S : \A x \in S : f[x] =< f[m]
    <3> HIDE DEF S
    <3>1. QED
      BY <1>1, <1>3, <2>3, Topmost
  <2>5. \E m \in S : \A x \in S : x.stamp =< m.stamp
    BY <2>1, <2>4
  <2>6. PICK r \in S : r = (CHOOSE m \in S : \A c \in S : c.stamp =< m.stamp) /\ \A c \in S : c.stamp =< r.stamp
    BY <2>5
  <2>7. Newest(walk.seen, walk.since) = r.stamp
    BY <1>3, <2>6 DEF Newest
  <2>8. QED
    BY <1>3, <2>2, <2>6, <2>7
<1>4. QED
  BY <1>2, <1>3

-----------------------------------------------------------------------------
(* The steps that leave what is listed as it was.                           *)

WatermarksHold == NewGamesAreAdmitted /\ CatalogFollowsUpdates

LEMMA LanesInit ==
    ASSUME AreNumbered
    PROVE  Init => LanesInv
<1> SUFFICES ASSUME Init PROVE LanesInv
  OBVIOUS
<1>1. IgdbIsSound
  <2>1. \A g \in Games : GameIsSound(g)
    BY DEF Init, GameIsSound, Absent, None
  <2>2. \A lane \in {"created", "updated"} : MarkIsSound(lane)
    BY DEF Init, MarkIsSound, None
  <2>3. QED
    BY <2>1, <2>2 DEF Init, IgdbIsSound, Absent, None
<1>2. WalkIsSound
  BY DEF Init, WalkIsSound, AtRest, AreNumbered, IgdbIsSound
<1>3. ReadingsAreSound /\ WalkReadsInOrder /\ SweepGoesOn
  BY DEF Init, AtRest, ReadingsAreSound, WalkReadsInOrder, SweepGoesOn
<1>4. NewGamesAreAdmitted
  BY DEF Init, NewGamesAreAdmitted, None
<1>5. CatalogFollowsUpdates
  BY DEF Init, CatalogFollowsUpdates, Stale, None
<1>6. QED
  BY <1>1, <1>2, <1>3, <1>4, <1>5 DEF LanesInv

\* What a step leaves alone it leaves sound.
LEMMA SameIgdb ==
    ASSUME IgdbIsSound, WatermarksHold, UNCHANGED <<now, igdb, catalog, marks, unasked, refused, shifted>>
    PROVE  IgdbIsSound' /\ WatermarksHold'
<1>1. IgdbIsSound'
  BY DEF IgdbIsSound, GameIsSound, MarkIsSound
<1>2. WatermarksHold'
  BY DEF WatermarksHold, NewGamesAreAdmitted, CatalogFollowsUpdates, Stale, Published
<1>3. QED
  BY <1>1, <1>2

\* A lane at rest, and the sweep, have read nothing.
LEMMA NothingRead ==
    ASSUME walk'.lane \notin {"created", "updated"}, walk'.seen = {}
    PROVE  ReadingsAreSound' /\ WalkReadsInOrder'
BY DEF ReadingsAreSound, WalkReadsInOrder

LEMMA RestIsSound ==
    ASSUME IgdbIsSound, walk' = AtRest, complete' = TRUE
    PROVE  WalkIsSound' /\ ReadingsAreSound' /\ WalkReadsInOrder' /\ SweepGoesOn'
<1>1. WalkIsSound'
  BY DEF WalkIsSound, AtRest, AreNumbered, IgdbIsSound
<1>2. QED
  BY <1>1, NothingRead DEF AtRest, SweepGoesOn

\* Where a walk stays where it is over the same listing, it has still read what it has gone past.
LEMMA OrderUnmoved ==
    ASSUME IgdbIsSound, IgdbIsSound', WalkIsSound, WalkReadsInOrder,
           walk'.lane = walk.lane, walk'.since = walk.since, walk'.offset = walk.offset,
           walk'.seen = walk.seen, walk'.moved = walk.moved,
           walk.lane \in {"created", "updated"} =>
              /\ \A g \in Games : /\ igdb'[g] = Absent <=> igdb[g] = Absent
                                  /\ igdb'[g].allowed = igdb[g].allowed
                                  /\ Stamp(g, walk.lane)' = Stamp(g, walk.lane)
              /\ unasked[walk.lane] \subseteq unasked'[walk.lane]
    PROVE  WalkReadsInOrder'
<1>1. AreStamped /\ AreStamped'
  BY DEF IgdbIsSound, AreStamped
<1>2. SUFFICES ASSUME walk.lane \in {"created", "updated"}, ~walk.moved PROVE OrderIsKept'
  BY <1>1, SortedNext DEF OrderIsKept
<1>3. Listed(walk.lane, walk.since)' = Listed(walk.lane, walk.since)
  BY <1>2 DEF Listed, Published
<1>4. Stamps(walk.lane)' = Stamps(walk.lane)
  BY <1>2 DEF Stamps
<1>5. ReadsInOrder(Listed(walk.lane, walk.since), Stamps(walk.lane), walk.seen, walk.offset, unasked[walk.lane])
  BY <1>1, <1>2, OrderIsOfPlaces DEF OrderIsKept
<1>6. QED
  BY <1>2, <1>3, <1>4, <1>5 DEF OrderIsKept, ReadsInOrder

LEMMA TickKeeps == LanesInv /\ Tick => LanesInv'
<1> SUFFICES ASSUME LanesInv, Tick PROVE LanesInv'
  OBVIOUS
<1>1. /\ IgdbIsSound /\ WalkIsSound /\ ReadingsAreSound /\ WalkReadsInOrder /\ SweepGoesOn
      /\ NewGamesAreAdmitted /\ CatalogFollowsUpdates
      /\ now' = now + 1 /\ now \in Nat
      /\ UNCHANGED <<igdb, catalog, targets, marks, walk, unasked, refused, shifted, complete>>
  BY DEF LanesInv, Tick, history, IgdbIsSound
<1>2. IgdbIsSound'
  <2>1. ASSUME NEW g \in Games PROVE GameIsSound(g)'
    <3>1. GameIsSound(g)
      BY <1>1 DEF IgdbIsSound
    <3>2. QED
      BY <1>1, <3>1 DEF GameIsSound
  <2>2. ASSUME NEW lane \in {"created", "updated"} PROVE MarkIsSound(lane)'
    <3>1. MarkIsSound(lane)
      BY <1>1 DEF IgdbIsSound
    <3>2. QED
      BY <1>1, <3>1 DEF MarkIsSound
  <2>3. QED
    BY <1>1, <2>1, <2>2 DEF IgdbIsSound
<1>3. WalkIsSound'
  <2>1. walk.since \in Int
    BY <1>1 DEF WalkIsSound
  <2>2. QED
    BY <1>1, <2>1 DEF WalkIsSound
<1>4. ReadingsAreSound'
  <2>1. ASSUME NEW r \in walk.seen PROVE (igdb[r.id] # Absent /\ ReadingIsSound(r))'
    <3>1. igdb[r.id] # Absent /\ ReadingIsSound(r) /\ r.stamp \in Int
      BY <1>1, SoundReading DEF ReadingsAreSound
    <3>2. QED
      BY <1>1, <3>1 DEF ReadingIsSound
  <2>2. QED
    BY <1>1, <2>1 DEF ReadingsAreSound
<1>5. WalkReadsInOrder'
  <2>1. \A g \in Games : Stamp(g, walk.lane)' = Stamp(g, walk.lane)
    BY <1>1 DEF Stamp
  <2>2. QED
    BY <1>1, <1>2, <2>1, OrderUnmoved
<1>6. SweepGoesOn'
  BY <1>1 DEF SweepGoesOn, Eligible, Published
<1>7. NewGamesAreAdmitted' /\ CatalogFollowsUpdates'
  BY <1>1 DEF NewGamesAreAdmitted, CatalogFollowsUpdates, Stale, Published
<1>8. QED
  BY <1>2, <1>3, <1>4, <1>5, <1>6, <1>7 DEF LanesInv

LEMMA VoteKeeps == \A g \in Games : LanesInv /\ Vote(g) => LanesInv'
<1> SUFFICES ASSUME NEW g \in Games, LanesInv, Vote(g) PROVE LanesInv'
  OBVIOUS
<1>1. /\ IgdbIsSound /\ WalkIsSound /\ ReadingsAreSound /\ WalkReadsInOrder /\ SweepGoesOn
      /\ NewGamesAreAdmitted /\ CatalogFollowsUpdates
      /\ g \in Published
      /\ igdb' = [igdb EXCEPT ![g].rated = ~@]
      /\ walk' = [walk EXCEPT !.whole = @ \ {g}]
      /\ UNCHANGED <<now, catalog, targets, marks, unasked, refused, shifted, complete>>
  BY DEF LanesInv, Vote, history
<1>2. ASSUME NEW h \in Games
      PROVE  /\ igdb'[h] \in [created : Int, updated : Int, allowed : BOOLEAN, rated : BOOLEAN]
             /\ igdb'[h].created = igdb[h].created /\ igdb'[h].updated = igdb[h].updated
             /\ igdb'[h].allowed = igdb[h].allowed
             /\ h # g => igdb'[h] = igdb[h]
             /\ igdb'[h] = Absent <=> igdb[h] = Absent
  <2>1. igdb \in [Games -> [created : Int, updated : Int, allowed : BOOLEAN, rated : BOOLEAN]]
    BY <1>1 DEF IgdbIsSound
  <2>2. igdb[g].created \in 0 .. now
    BY <1>1, SoundGame
  <2>3. igdb'[g].created # None /\ igdb[g].created # None
    BY <1>1, <2>1, <2>2 DEF None
  <2>4. igdb'[g] # Absent /\ igdb[g] # Absent
    BY <2>3 DEF Absent
  <2>5. QED
    BY <1>1, <2>1, <2>4
<1>3. IgdbIsSound'
  <2>1. ASSUME NEW h \in Games PROVE GameIsSound(h)'
    <3>1. GameIsSound(h)
      BY <1>1 DEF IgdbIsSound
    <3>2. igdb'[h].rated \in BOOLEAN
      BY <1>2
    <3>3. QED
      BY <1>1, <1>2, <3>1, <3>2 DEF GameIsSound
  <2>2. ASSUME NEW lane \in {"created", "updated"} PROVE MarkIsSound(lane)'
    <3>1. MarkIsSound(lane)
      BY <1>1 DEF IgdbIsSound
    <3>2. QED
      BY <1>1, <3>1 DEF MarkIsSound
  <2>3. igdb' \in [Games -> [created : Int, updated : Int, allowed : BOOLEAN, rated : BOOLEAN]]
    <3>1. DOMAIN igdb' = Games /\ igdb' = [h \in Games |-> igdb'[h]]
      BY <1>1 DEF IgdbIsSound
    <3>2. QED
      BY <1>2, <3>1
  <2>4. QED
    BY <1>1, <2>1, <2>2, <2>3 DEF IgdbIsSound
<1>4. /\ walk'.lane = walk.lane /\ walk'.since = walk.since /\ walk'.offset = walk.offset
      /\ walk'.seen = walk.seen /\ walk'.moved = walk.moved /\ walk'.step = walk.step
      /\ walk'.whole = walk.whole \ {g}
  BY <1>1 DEF WalkIsSound
<1>5. WalkIsSound'
  BY <1>1, <1>4 DEF WalkIsSound
<1>6. ReadingsAreSound'
  <2>1. ASSUME NEW r \in walk.seen PROVE (igdb[r.id] # Absent /\ ReadingIsSound(r))'
    <3>1. igdb[r.id] # Absent /\ ReadingIsSound(r) /\ r.id \in Games
      BY <1>1, SoundReading DEF ReadingsAreSound
    <3>2. igdb'[r.id] # Absent /\ igdb'[r.id].updated = igdb[r.id].updated
      BY <1>2, <3>1
    <3>3. QED
      BY <1>1, <1>4, <3>1, <3>2 DEF ReadingIsSound
  <2>2. QED
    BY <1>4, <2>1 DEF ReadingsAreSound
<1>7. WalkReadsInOrder'
  <2>1. \A h \in Games : Stamp(h, walk.lane)' = Stamp(h, walk.lane)
    BY <1>2, <1>4 DEF Stamp
  <2>2. QED
    BY <1>1, <1>2, <1>3, <1>4, <2>1, OrderUnmoved
<1>8. SweepGoesOn'
  <2>1. ASSUME NEW h \in Eligible, h # g PROVE h \in Eligible'
    <3>1. igdb'[h] = igdb[h]
      BY <1>2, <2>1 DEF Eligible, Published
    <3>2. QED
      BY <3>1 DEF Eligible, Published
  <2>2. QED
    BY <1>1, <1>4, <2>1 DEF SweepGoesOn
<1>9. NewGamesAreAdmitted'
  <2>1. Published' = Published
    BY <1>2 DEF Published
  <2>2. QED
    BY <1>1, <1>2, <2>1 DEF NewGamesAreAdmitted, Published
<1>10. CatalogFollowsUpdates'
  BY <1>1, <1>2 DEF CatalogFollowsUpdates, Stale
<1>11. QED
  BY <1>3, <1>5, <1>6, <1>7, <1>8, <1>9, <1>10 DEF LanesInv

LEMMA HydrateKeeps == \A g \in Games : LanesInv /\ Hydrate(g) => LanesInv'
<1> SUFFICES ASSUME NEW g \in Games, LanesInv, Hydrate(g) PROVE LanesInv'
  OBVIOUS
<1>1. /\ IgdbIsSound /\ WalkIsSound /\ ReadingsAreSound /\ WalkReadsInOrder /\ SweepGoesOn
      /\ NewGamesAreAdmitted /\ CatalogFollowsUpdates
      /\ catalog' = [catalog EXCEPT ![g] = igdb[g].updated]
      /\ catalog[g] = None
      /\ UNCHANGED <<now, igdb, targets, marks, walk, unasked, refused, shifted, complete>>
  BY DEF LanesInv, Hydrate, history, source
<1>2. catalog \in [Games -> Int] /\ igdb[g].updated \in Int
  BY <1>1, Stamped DEF IgdbIsSound, AreStamped
<1>3. \A h \in Games : catalog'[h] = IF h = g THEN igdb[g].updated ELSE catalog[h]
  BY <1>1, <1>2
<1>4. IgdbIsSound'
  <2>1. ASSUME NEW h \in Games PROVE GameIsSound(h)'
    <3>1. GameIsSound(h)
      BY <1>1 DEF IgdbIsSound
    <3>2. CASE h # g
      BY <1>1, <1>3, <3>1, <3>2 DEF GameIsSound
    <3>3. CASE h = g
      <4>1. igdb[g].updated # None => igdb[g] # Absent /\ igdb[g].updated \in 0 .. igdb[g].updated
        BY <1>2, <3>1, <3>3 DEF GameIsSound, Absent
      <4>2. QED
        BY <1>1, <1>2, <1>3, <3>1, <3>3, <4>1 DEF GameIsSound
    <3>4. QED
      BY <3>2, <3>3
  <2>2. ASSUME NEW lane \in {"created", "updated"} PROVE MarkIsSound(lane)'
    <3>1. MarkIsSound(lane)
      BY <1>1 DEF IgdbIsSound
    <3>2. QED
      BY <1>1, <3>1 DEF MarkIsSound
  <2>3. catalog' \in [Games -> Int]
    BY <1>1, <1>2
  <2>4. QED
    BY <1>1, <2>1, <2>2, <2>3 DEF IgdbIsSound
<1>5. WalkIsSound'
  BY <1>1 DEF WalkIsSound
<1>6. ReadingsAreSound'
  <2>1. ASSUME NEW r \in walk.seen PROVE (igdb[r.id] # Absent /\ ReadingIsSound(r))'
    <3>1. igdb[r.id] # Absent /\ ReadingIsSound(r) /\ r.id \in Games /\ r.updated \in Int
      BY <1>1, SoundReading DEF ReadingsAreSound
    <3>2. r.id = g => catalog'[r.id] >= r.updated
      BY <1>2, <1>3, <3>1 DEF ReadingIsSound
    <3>3. r.id # g => catalog'[r.id] = catalog[r.id]
      BY <1>3, <3>1
    <3>4. QED
      BY <1>1, <3>1, <3>2, <3>3 DEF ReadingIsSound
  <2>2. QED
    BY <1>1, <2>1 DEF ReadingsAreSound
<1>7. WalkReadsInOrder'
  <2>1. \A h \in Games : Stamp(h, walk.lane)' = Stamp(h, walk.lane)
    BY <1>1 DEF Stamp
  <2>2. QED
    BY <1>1, <1>4, <2>1, OrderUnmoved
<1>8. SweepGoesOn'
  BY <1>1 DEF SweepGoesOn, Eligible, Published
<1>9. NewGamesAreAdmitted'
  <2>1. Published' = Published
    BY <1>1 DEF Published
  <2>2. ASSUME NEW h \in Published, catalog[h] # None PROVE catalog'[h] # None
    <3>1. h # g /\ h \in Games
      BY <1>1, <2>2 DEF Published
    <3>2. QED
      BY <1>3, <2>2, <3>1
  <2>3. QED
    BY <1>1, <2>1, <2>2 DEF NewGamesAreAdmitted
<1>10. CatalogFollowsUpdates'
  <2>1. ASSUME NEW h \in Games, Stale(h)' PROVE Stale(h)
    <3>1. h # g
      BY <1>1, <1>2, <1>3, <2>1 DEF Stale
    <3>2. QED
      BY <1>1, <1>3, <2>1, <3>1 DEF Stale
  <2>2. QED
    BY <1>1, <2>1 DEF CatalogFollowsUpdates
<1>11. QED
  BY <1>4, <1>5, <1>6, <1>7, <1>8, <1>9, <1>10 DEF LanesInv

LEMMA StartKeeps == \A lane \in {"created", "updated", "promotion"} : LanesInv /\ Start(lane) => LanesInv'
<1> SUFFICES ASSUME NEW lane \in {"created", "updated", "promotion"}, LanesInv, Start(lane) PROVE LanesInv'
  OBVIOUS
<1>1. /\ IgdbIsSound /\ WalkIsSound /\ SweepGoesOn /\ WatermarksHold
      /\ walk' = [AtRest EXCEPT !.lane = lane,
                                !.since = IF lane = "promotion" THEN 0 ELSE Since(lane),
                                !.whole = IF lane = "promotion" THEN Eligible ELSE {}]
      /\ UNCHANGED <<now, igdb, catalog, targets, marks, unasked, refused, shifted, complete>>
  BY DEF LanesInv, Start, history, source, WatermarksHold
<1>2. IgdbIsSound' /\ WatermarksHold'
  BY <1>1, SameIgdb
<1>3. /\ walk'.lane = lane /\ walk'.step = "read" /\ walk'.offset = 0 /\ walk'.seen = {} /\ walk'.moved = FALSE
      /\ walk'.since = (IF lane = "promotion" THEN 0 ELSE Since(lane))
      /\ walk'.whole = (IF lane = "promotion" THEN Eligible ELSE {})
  BY <1>1 DEF AtRest
<1>4. now \in Nat /\ (lane # "promotion" => Since(lane) \in Int /\ Since(lane) =< now
                                            /\ (marks[lane] # None => Since(lane) = marks[lane]))
  <2>1. now \in Nat
    BY <1>1 DEF IgdbIsSound
  <2>2. ASSUME lane # "promotion"
        PROVE  Since(lane) \in Int /\ Since(lane) =< now /\ (marks[lane] # None => Since(lane) = marks[lane])
    <3>1. lane \in {"created", "updated"}
      BY <2>2
    <3>2. marks[lane] \in Int /\ marks[lane] =< now
      BY <1>1, <3>1, SoundMark
    <3>3. QED
      BY <1>1, <2>1, <3>2 DEF Since, AreNumbered, IgdbIsSound
  <2>3. QED
    BY <2>1, <2>2
<1>5. WalkIsSound'
  <2>1. walk'.since \in Int /\ walk'.whole \in SUBSET Games
    BY <1>3, <1>4 DEF Eligible, Published
  <2>2. \E s \in Int, w \in SUBSET Games :
           walk' = [lane |-> lane, step |-> "read", since |-> s, offset |-> 0, seen |-> {},
                    moved |-> FALSE, whole |-> w]
    <3>1. walk' = [lane |-> lane, step |-> "read", since |-> walk'.since, offset |-> 0, seen |-> {},
                   moved |-> FALSE, whole |-> walk'.whole]
      BY <1>1 DEF AtRest
    <3>2. QED
      BY <2>1, <3>1
  <2>3. walk' \in [lane : {"none", "created", "updated", "promotion"}, step : {"read", "write", "advance"},
                   since : Int, offset : Nat, seen : SUBSET [id : Games, stamp : Int, updated : Int],
                   moved : BOOLEAN, whole : SUBSET Games]
    BY <2>1, <2>2
  <2>4. walk'.lane \in {"created", "updated"} =>
          walk'.since =< now /\ (marks[walk'.lane] # None => walk'.since = marks[walk'.lane])
    BY <1>3, <1>4
  <2>5. QED
    BY <1>1, <1>3, <2>3, <2>4 DEF WalkIsSound, AreNumbered, IgdbIsSound
<1>6. ReadingsAreSound'
  BY <1>3 DEF ReadingsAreSound
<1>7. WalkReadsInOrder'
  <2>1. AreStamped'
    BY <1>2 DEF IgdbIsSound, AreStamped
  <2>2. SUFFICES OrderIsKept'
    BY <2>1, SortedNext
  <2> DEFINE S == Listed(walk.lane, walk.since)'
             key == Stamps(walk.lane)'
  <2>3. IsKeyed(S, key)
    BY <2>1, SortedNext
  <2> HIDE DEF S, key
  <2>4. \A g \in S : Rank(S, key, g) \in Nat
    BY <2>3, RankType DEF IsKeyed
  <2>5. Cardinality(S) \in Nat
    BY <2>3, FS_CardinalityType DEF IsKeyed
  <2>6. ReadsInOrder(S, key, {}, 0, unasked'[walk'.lane])
    BY <2>4, <2>5 DEF ReadsInOrder
  <2>7. QED
    BY <1>3, <2>6 DEF OrderIsKept, S, key
<1>8. SweepGoesOn'
  <2>1. Eligible' = Eligible
    BY <1>1 DEF Eligible, Published
  <2>2. \A g \in Eligible : ~(g =< 0)
    BY <1>1 DEF Eligible, Published, AreNumbered, IgdbIsSound
  <2>3. QED
    BY <1>1, <1>3, <2>1, <2>2 DEF SweepGoesOn
<1>9. QED
  BY <1>2, <1>5, <1>6, <1>7, <1>8 DEF LanesInv, WatermarksHold

LEMMA FailKeeps == LanesInv /\ Fail => LanesInv'
<1> SUFFICES ASSUME LanesInv, Fail PROVE LanesInv'
  OBVIOUS
<1>1. /\ IgdbIsSound /\ SweepGoesOn /\ WatermarksHold /\ walk' = AtRest
      /\ UNCHANGED <<now, igdb, catalog, marks, unasked, refused, shifted, complete>>
  BY DEF LanesInv, Fail, history, source, WatermarksHold
<1>2. IgdbIsSound' /\ WatermarksHold'
  BY <1>1, SameIgdb
<1>3. complete' = TRUE
  BY <1>1 DEF SweepGoesOn
<1>4. QED
  BY <1>1, <1>2, <1>3, RestIsSound DEF LanesInv, WatermarksHold

-----------------------------------------------------------------------------
(* The promotion sweep.                                                     *)

\* The first n of a finite set of numbers: all of it where they are fewer than n, and with each
\* of them whatever is smaller.
LEMMA LeastOfSet ==
    ASSUME NEW S \in SUBSET Int, IsFiniteSet(S), NEW n \in Nat
    PROVE  /\ Cardinality(Least(S, n)) < n => Least(S, n) = S
           /\ \A g \in S, m \in Least(S, n) : g =< m => g \in Least(S, n)
<1> DEFINE key == [x \in S |-> 0]
           A == Least(S, n)
<1>1. IsKeyed(S, key) /\ \A x \in S : Before(S, key, x) = {h \in S : h < x}
  BY DEF IsKeyed, Before
<1>2. \A x \in S : x \in A <=> Rank(S, key, x) < n
  BY <1>1 DEF Rank, Least
<1>3. A \in SUBSET S /\ \A x \in S : Rank(S, key, x) \in Nat
  BY <1>1, RankType DEF Least
<1> HIDE DEF key, A
<1>4. ASSUME Cardinality(A) < n, A # S PROVE FALSE
  <2>1. PICK x \in S : x \notin A /\ Before(S, key, x) \subseteq A
    BY <1>1, <1>3, <1>4, FirstOutside
  <2>2. IsFiniteSet(A) /\ Cardinality(A) \in Nat
    BY <1>3, FS_Subset, FS_CardinalityType
  <2>3. Rank(S, key, x) =< Cardinality(A)
    BY <2>1, <2>2, FS_Subset DEF Rank
  <2>4. QED
    BY <1>2, <1>3, <1>4, <2>1, <2>2, <2>3
<1>5. ASSUME NEW g \in S, NEW m \in A, g =< m PROVE g \in A
  <2>1. CASE g = m
    BY <2>1
  <2>2. CASE g # m
    <3>1. m \in S /\ g < m
      BY <1>3, <1>5, <2>2
    <3>2. g \in Before(S, key, m)
      BY <1>1, <3>1
    <3>3. Rank(S, key, g) < Rank(S, key, m)
      BY <1>1, <3>1, <3>2, RankFollowsOrder
    <3>4. QED
      BY <1>2, <1>3, <3>1, <3>3
  <2>3. QED
    BY <2>1, <2>2
<1>6. QED
  BY <1>4, <1>5 DEF A

\* A finite set of numbers has a greatest.
LEMMA GreatestOfFinite ==
    ASSUME NEW S \in SUBSET Int, IsFiniteSet(S), S # {}
    PROVE  \E m \in S : \A x \in S : x =< m
<1> DEFINE key == [x \in S |-> 0 - x]
<1>1. IsKeyed(S, key)
  BY DEF IsKeyed
<1> HIDE DEF key
<1>2. PICK m \in S : Before(S, key, m) = {}
  <2> DEFINE nobody == {h \in S : FALSE}
  <2>1. nobody = {} /\ \E x \in S : x \notin nobody
    OBVIOUS
  <2> HIDE DEF nobody
  <2>2. \E x \in S : x \notin nobody /\ Before(S, key, x) \subseteq nobody
    BY <1>1, <2>1, FirstOutside
  <2>3. QED
    BY <2>1, <2>2
<1>3. ASSUME NEW x \in S, ~(x =< m) PROVE FALSE
  <2>1. key[x] < key[m]
    BY <1>3 DEF key
  <2>2. x \in Before(S, key, m)
    BY <2>1 DEF Before
  <2>3. QED
    BY <1>2, <2>2
<1>4. QED
  BY <1>2, <1>3

LEMMA SweepPageKeeps == LanesInv /\ SweepPage => LanesInv'
<1> SUFFICES ASSUME LanesInv, SweepPage PROVE LanesInv'
  OBVIOUS
<1> DEFINE after == walk.since
           page == CatalogPage(after)
           rest == {g \in Eligible : g > after}
<1>1. /\ IgdbIsSound /\ WalkIsSound /\ SweepGoesOn /\ WatermarksHold /\ walk.lane = "promotion"
      /\ targets' = targets \cup page
      /\ walk' = IF Cardinality(page) < PageSize THEN AtRest
                 ELSE [walk EXCEPT !.since = CHOOSE g \in page : \A h \in page : h =< g]
      /\ complete' = (complete /\ (Cardinality(page) < PageSize => walk.whole \subseteq targets'))
      /\ UNCHANGED <<now, igdb, catalog, marks, unasked, refused, shifted>>
  BY DEF LanesInv, SweepPage, source, WatermarksHold
<1>2. IgdbIsSound' /\ WatermarksHold'
  BY <1>1, SameIgdb
<1>3. rest \in SUBSET Int /\ IsFiniteSet(rest) /\ PageSize \in Nat \ {0} /\ after \in Int /\ Eligible \subseteq Int
  <2>1. rest \in SUBSET Games /\ IsFiniteSet(Games) /\ Games \subseteq Int /\ Eligible \subseteq Int
    <3>1. Eligible \in SUBSET Games /\ rest \in SUBSET Eligible
      BY DEF Eligible, Published
    <3>2. Games \subseteq Int /\ IsFiniteSet(Games)
      BY <1>1 DEF AreNumbered, IgdbIsSound
    <3>3. rest \in SUBSET Games /\ Eligible \subseteq Int
      BY <3>1, <3>2
    <3>4. QED
      BY <3>2, <3>3
  <2>2. IsFiniteSet(rest)
    BY <2>1, FS_Subset
  <2>3. QED
    BY <1>1, <2>1, <2>2 DEF WalkIsSound, AreNumbered, IgdbIsSound
<1>4. /\ page = Least(rest, PageSize)
      /\ Cardinality(page) < PageSize => page = rest
      /\ \A g \in rest, m \in page : g =< m => g \in page
  <2>1. page = Least(rest, PageSize)
    BY DEF CatalogPage
  <2> HIDE DEF page, rest
  <2>2. QED
    BY <1>3, <2>1, LeastOfSet
<1>5. page \in SUBSET rest
  BY DEF CatalogPage, Least
<1>6. /\ walk.whole \subseteq Eligible /\ complete = TRUE
      /\ \A g \in walk.whole : g =< after => g \in targets
  BY <1>1 DEF SweepGoesOn
<1>7. ASSUME NEW g \in walk.whole, g \notin rest PROVE g =< after
  <2>1. g \in Eligible /\ g \in Int /\ after \in Int
    BY <1>3, <1>6
  <2>2. ~(g > after)
    BY <1>7, <2>1
  <2> HIDE DEF after
  <2>3. QED
    BY <2>1, <2>2
<1> HIDE DEF page, rest, after
<1>8. CASE Cardinality(page) < PageSize
  <2>1. walk.whole \subseteq targets'
    BY <1>1, <1>4, <1>6, <1>7, <1>8
  <2>2. walk' = AtRest /\ complete' = TRUE
    BY <1>1, <1>6, <1>8, <2>1
  <2>3. QED
    BY <1>2, <2>2, RestIsSound DEF LanesInv, WatermarksHold
<1>9. CASE ~(Cardinality(page) < PageSize)
  <2> DEFINE last == CHOOSE g \in page : \A h \in page : h =< g
  <2>1. page # {}
    <3>1. Cardinality({}) = 0
      BY FS_EmptySet
    <3>2. QED
      BY <1>3, <1>9, <3>1
  <2>2. IsFiniteSet(page) /\ page \in SUBSET Int
    BY <1>3, <1>5, FS_Subset
  <2>3. last \in page /\ \A h \in page : h =< last
    BY <2>1, <2>2, GreatestOfFinite
  <2>4. last \in Int
    BY <2>2, <2>3
  <2>5. walk' = [walk EXCEPT !.since = last] /\ complete' = TRUE
    BY <1>1, <1>6, <1>9
  <2> HIDE DEF last
  <2>6. /\ walk'.lane = "promotion" /\ walk'.since = last /\ walk'.seen = walk.seen
        /\ walk'.whole = walk.whole
    BY <1>1, <2>5 DEF WalkIsSound
  <2>7. WalkIsSound'
    BY <1>1, <2>4, <2>5 DEF WalkIsSound
  <2>8. walk.seen = {}
    BY <1>1 DEF WalkIsSound
  <2>9. ReadingsAreSound' /\ WalkReadsInOrder'
    BY <2>6, <2>8, NothingRead
  <2>10. SweepGoesOn'
    <3>1. Eligible' = Eligible
      BY <1>1 DEF Eligible, Published
    <3>2. ASSUME NEW g \in walk.whole, g =< last PROVE g \in targets'
      <4>1. CASE g =< after
        BY <1>1, <1>6, <4>1
      <4>2. CASE g \in rest
        BY <1>1, <1>4, <2>3, <3>2, <4>2
      <4>3. QED
        BY <1>3, <1>7, <4>1, <4>2
    <3>3. QED
      BY <1>6, <2>5, <2>6, <3>1, <3>2 DEF SweepGoesOn
  <2>11. QED
    BY <1>2, <2>7, <2>9, <2>10 DEF LanesInv, WatermarksHold
<1>10. QED
  BY <1>8, <1>9

-----------------------------------------------------------------------------
(* What happens at IGDB while a lane walks.                                 *)

LEMMA JoinsAdds ==
    ASSUME NEW lanes, Joins(lanes), DOMAIN unasked = {"created", "updated"}
    PROVE  /\ DOMAIN unasked' = {"created", "updated"}
           /\ \A lane \in {"created", "updated"} : unasked[lane] \subseteq unasked'[lane]
           /\ walk.lane \in {"created", "updated"} /\ walk.lane \in lanes /\ (\E r \in walk.seen : r.stamp = now)
                 => now \in unasked'[walk.lane]
<1>1. CASE walk.lane \in lanes /\ \E r \in walk.seen : r.stamp = now
  <2>1. unasked' = [unasked EXCEPT ![walk.lane] = @ \cup {now}]
    BY <1>1 DEF Joins
  <2>2. QED
    BY <2>1
<1>2. CASE ~(walk.lane \in lanes /\ \E r \in walk.seen : r.stamp = now)
  <2>1. unasked' = unasked
    BY <1>2 DEF Joins
  <2>2. QED
    BY <1>2, <2>1
<1>3. QED
  BY <1>1, <1>2

\* A game joins the listing, or moves in it from a place that the walk has not gone past.
LEMMA OrderJoined ==
    ASSUME IgdbIsSound, IgdbIsSound', WalkIsSound, ReadingsAreSound, WalkReadsInOrder,
           NEW x \in Games,
           walk'.lane = walk.lane, walk'.since = walk.since, walk'.offset = walk.offset,
           walk'.seen = walk.seen, walk.lane \in {"created", "updated"}, ~walk.moved,
           now' = now, \A h \in Games \ {x} : igdb'[h] = igdb[h], Stamp(x, walk.lane)' = now,
           x \in Listed(walk.lane, walk.since) => Place(x, walk.lane, walk.since) >= walk.offset,
           unasked[walk.lane] \subseteq unasked'[walk.lane],
           (\E r \in walk.seen : r.stamp = now) => now \in unasked'[walk.lane]
    PROVE  WalkReadsInOrder'
<1> DEFINE old == Listed(walk.lane, walk.since)
           was == Stamps(walk.lane)
           new == Listed(walk.lane, walk.since)'
           key == Stamps(walk.lane)'
           n == walk.offset
<1>1. AreStamped /\ AreStamped'
  BY DEF IgdbIsSound, AreStamped
<1>2. IsKeyed(old, was) /\ IsKeyed(new, key)
  <2>1. IsKeyed(old, was)
    BY <1>1, ListedIsSorted
  <2>2. IsKeyed(new, key)
    BY <1>1, SortedNext
  <2>3. QED
    BY <2>1, <2>2
<1>3. Place(x, walk.lane, walk.since) = Rank(old, was, x)
  BY <1>1, ListedIsSorted
<1>4. ASSUME NEW h \in Games \ {x}
      PROVE  (h \in new <=> h \in old) /\ key[h] = was[h] /\ was[h] = Stamp(h, walk.lane)
  <2>1. igdb'[h] = igdb[h]
    BY <1>4
  <2>2. Stamp(h, walk.lane)' = Stamp(h, walk.lane)
    BY <2>1 DEF Stamp
  <2>3. h \in new <=> h \in old
    BY <2>1, <2>2 DEF Listed, Published
  <2>4. QED
    BY <2>2, <2>3 DEF Stamps
<1>5. key[x] = now /\ now \in Int /\ x \in Int /\ n \in Nat
  BY DEF Stamps, IgdbIsSound, WalkIsSound, AreNumbered
<1>6. old \subseteq Games /\ new \subseteq Games
  BY DEF Listed, Published
<1>7. ASSUME NEW y \in old \ {x} PROVE key[y] =< now
  <2>1. y \in Games \ {x} /\ y \in Published
    BY <1>7 DEF Listed, Published
  <2>2. igdb[y].created \in 0 .. now /\ igdb[y].updated \in 0 .. now
    BY <2>1, SoundGame
  <2>3. was[y] =< now
    <3>1. was[y] = Stamp(y, walk.lane)
      BY <1>4, <2>1
    <3>2. Stamp(y, walk.lane) \in 0 .. now
      BY <2>2 DEF Stamp
    <3> HIDE DEF was
    <3>3. QED
      BY <1>5, <3>1, <3>2
  <2>4. QED
    BY <1>4, <2>1, <2>3
<1>8. ReadsInOrder(old, was, walk.seen, n, unasked[walk.lane])
  BY <1>1, OrderIsOfPlaces DEF OrderIsKept
<1>9. \A r \in walk.seen : r.stamp \in Int /\ r.stamp =< now
  BY SoundReading DEF ReadingIsSound
<1> HIDE DEF old, was, new, key, n
<1>10. IsJoined(old, was, new, key, x, n)
  <2>1. new = old \ {x} \/ new = (old \ {x}) \cup {x}
    BY <1>4, <1>6
  <2>2. \A y \in old \ {x} : key[y] = was[y]
    BY <1>4, <1>6
  <2>3. x \in old => Rank(old, was, x) >= n
    BY <1>3 DEF old, n
  <2>4. QED
    BY <1>2, <1>5, <2>1, <2>2, <2>3 DEF IsJoined
<1>11. ReadsInOrder(new, key, walk.seen, n, unasked'[walk.lane])
  <2>1. \A r \in walk.seen : r.stamp \in Int /\ r.stamp =< key[x]
    BY <1>5, <1>9
  <2>2. \A y \in old \ {x} : key[y] =< key[x]
    BY <1>5, <1>7
  <2>3. (\E r \in walk.seen : r.stamp = key[x]) => key[x] \in unasked'[walk.lane]
    BY <1>5
  <2>4. QED
    BY <1>5, <1>8, <1>10, <2>1, <2>2, <2>3, JoiningKeepsOrder
<1>12. OrderIsKept'
  BY <1>11 DEF OrderIsKept, new, key, n
<1>13. QED
  BY <1>1, <1>12, SortedNext

LEMMA PublishKeeps == \A g \in Games : LanesInv /\ Publish(g) => LanesInv'
<1> SUFFICES ASSUME NEW g \in Games, LanesInv, Publish(g) PROVE LanesInv'
  OBVIOUS
<1>1. /\ IgdbIsSound /\ WalkIsSound /\ ReadingsAreSound /\ WalkReadsInOrder /\ SweepGoesOn
      /\ NewGamesAreAdmitted /\ CatalogFollowsUpdates
      /\ igdb[g] = Absent /\ now \in Nat /\ Joins({"created", "updated"})
      /\ UNCHANGED <<now, catalog, targets, marks, walk, refused, shifted, complete>>
  BY DEF LanesInv, Publish, IgdbIsSound
<1>2. PICK allowed \in BOOLEAN :
          igdb' = [igdb EXCEPT ![g] = [created |-> now, updated |-> now, allowed |-> allowed, rated |-> FALSE]]
  BY DEF Publish
<1>3. DOMAIN igdb = Games /\ DOMAIN unasked = {"created", "updated"}
  BY <1>1 DEF IgdbIsSound
<1>4. /\ igdb'[g] = [created |-> now, updated |-> now, allowed |-> allowed, rated |-> FALSE]
      /\ \A h \in Games \ {g} : igdb'[h] = igdb[h]
  BY <1>2, <1>3
<1>5. igdb'[g].created = now /\ igdb'[g].updated = now /\ igdb'[g] # Absent /\ g \notin Published
  <2>1. igdb'[g].created = now /\ igdb'[g].updated = now
    BY <1>4
  <2>2. Absent.created = None /\ now # None
    BY <1>1 DEF Absent, None
  <2>3. QED
    BY <1>1, <2>1, <2>2 DEF Published
<1>6. catalog[g] = None /\ Published' = Published \cup {g}
  <2>1. catalog[g] = None
    BY <1>1, <1>5, SoundGame
  <2>2. Published' = Published \cup {g}
    BY <1>4, <1>5 DEF Published
  <2>3. QED
    BY <2>1, <2>2
<1>7. /\ DOMAIN unasked' = {"created", "updated"}
      /\ \A lane \in {"created", "updated"} : unasked[lane] \subseteq unasked'[lane]
      /\ walk.lane \in {"created", "updated"} /\ (\E r \in walk.seen : r.stamp = now) => now \in unasked'[walk.lane]
  BY <1>1, <1>3, JoinsAdds
<1>8. IgdbIsSound'
  <2>1. ASSUME NEW h \in Games PROVE GameIsSound(h)'
    <3>1. GameIsSound(h)
      BY <1>1 DEF IgdbIsSound
    <3>2. CASE h # g
      BY <1>1, <1>4, <3>1, <3>2 DEF GameIsSound
    <3>3. CASE h = g
      <4>1. igdb'[g].created \in 0 .. now /\ igdb'[g].updated \in 0 .. now
            /\ igdb'[g].allowed \in BOOLEAN /\ igdb'[g].rated \in BOOLEAN
        BY <1>1, <1>4
      <4>2. catalog'[g] = None /\ catalog'[g] \in Int
        BY <1>1, <1>6 DEF None
      <4>3. QED
        BY <1>1, <3>3, <4>1, <4>2 DEF GameIsSound
    <3>4. QED
      BY <3>2, <3>3
  <2>2. ASSUME NEW lane \in {"created", "updated"} PROVE MarkIsSound(lane)'
    <3>1. MarkIsSound(lane)
      BY <1>1 DEF IgdbIsSound
    <3>2. QED
      BY <1>1, <1>7, <3>1 DEF MarkIsSound
  <2>3. igdb' \in [Games -> [created : Int, updated : Int, allowed : BOOLEAN, rated : BOOLEAN]]
    <3>1. [created |-> now, updated |-> now, allowed |-> allowed, rated |-> FALSE]
             \in [created : Int, updated : Int, allowed : BOOLEAN, rated : BOOLEAN]
      BY <1>1
    <3>2. igdb \in [Games -> [created : Int, updated : Int, allowed : BOOLEAN, rated : BOOLEAN]]
      BY <1>1 DEF IgdbIsSound
    <3>3. QED
      BY <1>2, <3>1, <3>2
  <2>4. QED
    BY <1>1, <1>7, <2>1, <2>2, <2>3 DEF IgdbIsSound
<1>9. WalkIsSound'
  BY <1>1 DEF WalkIsSound
<1>10. ReadingsAreSound'
  <2>1. ASSUME NEW r \in walk.seen PROVE (igdb[r.id] # Absent /\ ReadingIsSound(r))'
    <3>1. igdb[r.id] # Absent /\ ReadingIsSound(r) /\ r.id \in Published /\ r.id \in Games
      BY <1>1, SoundReading DEF ReadingsAreSound
    <3>2. igdb'[r.id] = igdb[r.id]
      BY <1>4, <1>5, <3>1
    <3>3. QED
      BY <1>1, <3>1, <3>2 DEF ReadingIsSound
  <2>2. QED
    BY <1>1, <2>1 DEF ReadingsAreSound
<1>11. WalkReadsInOrder'
  <2>1. CASE walk.lane \in {"created", "updated"} /\ ~walk.moved
    <3>1. Stamp(g, walk.lane)' = now
      BY <1>1, <1>5 DEF Stamp
    <3>2. g \notin Listed(walk.lane, walk.since)
      BY <1>5 DEF Listed
    <3>3. unasked[walk.lane] \subseteq unasked'[walk.lane]
      BY <1>7, <2>1
    <3>4. QED
      BY <1>1, <1>4, <1>7, <1>8, <2>1, <3>1, <3>2, <3>3, OrderJoined
  <2>2. CASE ~(walk.lane \in {"created", "updated"} /\ ~walk.moved)
    BY <1>1, <2>2 DEF WalkReadsInOrder
  <2>3. QED
    BY <2>1, <2>2
<1>12. SweepGoesOn'
  <2>1. Eligible \subseteq Eligible'
    <3>1. ASSUME NEW h \in Eligible PROVE h \in Eligible'
      <4>1. h \in Published /\ h # g /\ h \in Games
        BY <1>5, <3>1 DEF Eligible, Published
      <4>2. igdb'[h] = igdb[h] /\ h \in Published'
        BY <1>4, <1>6, <4>1
      <4>3. QED
        BY <3>1, <4>2 DEF Eligible
    <3>2. QED
      BY <3>1
  <2>2. QED
    BY <1>1, <2>1 DEF SweepGoesOn
<1>13. NewGamesAreAdmitted'
  <2>1. ASSUME NEW h \in Published', igdb'[h].allowed, igdb'[h].created \in 1 .. marks'["created"]
        PROVE  catalog'[h] # None \/ h \in refused' \/ igdb'[h].created \in unasked'["created"]
    <3>1. CASE h # g
      <4>1. h \in Published /\ igdb'[h] = igdb[h]
        BY <1>4, <1>6, <3>1 DEF Published
      <4>2. catalog[h] # None \/ h \in refused \/ igdb[h].created \in unasked["created"]
        BY <1>1, <2>1, <4>1 DEF NewGamesAreAdmitted
      <4>3. QED
        BY <1>1, <1>7, <4>1, <4>2
    <3>2. CASE h = g
      <4>1. marks["created"] \in Int /\ marks["created"] =< now
            /\ (marks["created"] # None => marks["created"] \in unasked["created"])
        BY <1>1, SoundMark
      <4>2. marks["created"] = now /\ now # None
        BY <1>1, <1>5, <2>1, <3>2, <4>1 DEF None
      <4>3. QED
        BY <1>5, <1>7, <3>2, <4>1, <4>2
    <3>3. QED
      BY <3>1, <3>2
  <2>2. QED
    BY <2>1 DEF NewGamesAreAdmitted
<1>14. CatalogFollowsUpdates'
  <2>1. ASSUME NEW h \in Games, Stale(h)'
        PROVE  h \in refused' \cup shifted' \/ igdb'[h].updated \in unasked'["updated"]
    <3>1. h # g
      BY <1>1, <1>6, <2>1 DEF Stale
    <3>2. igdb'[h] = igdb[h]
      BY <1>4, <3>1
    <3>3. Stale(h)
      BY <1>1, <2>1, <3>2 DEF Stale
    <3>4. QED
      BY <1>1, <1>7, <3>2, <3>3 DEF CatalogFollowsUpdates
  <2>2. QED
    BY <2>1 DEF CatalogFollowsUpdates
<1>15. QED
  BY <1>8, <1>9, <1>10, <1>11, <1>12, <1>13, <1>14 DEF LanesInv

LEMMA TouchKeeps == \A g \in Games : LanesInv /\ Touch(g) => LanesInv'
<1> SUFFICES ASSUME NEW g \in Games, LanesInv, Touch(g) PROVE LanesInv'
  OBVIOUS
<1>1. /\ IgdbIsSound /\ WalkIsSound /\ ReadingsAreSound /\ WalkReadsInOrder /\ SweepGoesOn
      /\ NewGamesAreAdmitted /\ CatalogFollowsUpdates
      /\ g \in Published /\ igdb[g].updated < now /\ now \in Nat /\ Joins({"updated"})
      /\ igdb' = [igdb EXCEPT ![g].updated = now]
      /\ walk' = [walk EXCEPT !.moved = @ \/ (walk.lane = "updated" /\ g \in Passed)]
      /\ UNCHANGED <<now, catalog, targets, marks, refused, shifted, complete>>
  BY DEF LanesInv, Touch, IgdbIsSound
<1>2. /\ igdb \in [Games -> [created : Int, updated : Int, allowed : BOOLEAN, rated : BOOLEAN]]
      /\ DOMAIN unasked = {"created", "updated"}
  BY <1>1 DEF IgdbIsSound
<1>3. igdb[g].created \in 0 .. now /\ igdb[g].updated \in 0 .. now /\ igdb[g] # Absent
  BY <1>1, SoundGame DEF Published
<1>4. /\ igdb'[g].created = igdb[g].created /\ igdb'[g].updated = now
      /\ igdb'[g].allowed = igdb[g].allowed /\ igdb'[g].rated = igdb[g].rated
      /\ igdb'[g] \in [created : Int, updated : Int, allowed : BOOLEAN, rated : BOOLEAN]
      /\ \A h \in Games \ {g} : igdb'[h] = igdb[h]
  BY <1>1, <1>2
<1>5. igdb'[g] # Absent
  <2>1. Absent.created = None /\ None \notin 0 .. now
    BY DEF Absent, None
  <2>2. QED
    BY <1>3, <1>4, <2>1
<1>6. Published' = Published
  BY <1>1, <1>4, <1>5 DEF Published
<1>7. /\ DOMAIN unasked' = {"created", "updated"}
      /\ \A lane \in {"created", "updated"} : unasked[lane] \subseteq unasked'[lane]
      /\ walk.lane = "updated" /\ (\E r \in walk.seen : r.stamp = now) => now \in unasked'[walk.lane]
  BY <1>1, <1>2, JoinsAdds
<1>8. /\ walk'.lane = walk.lane /\ walk'.since = walk.since /\ walk'.offset = walk.offset
      /\ walk'.seen = walk.seen /\ walk'.step = walk.step /\ walk'.whole = walk.whole
      /\ walk'.moved = (walk.moved \/ (walk.lane = "updated" /\ g \in Passed))
  BY <1>1 DEF WalkIsSound
<1>9. IgdbIsSound'
  <2>1. ASSUME NEW h \in Games PROVE GameIsSound(h)'
    <3>1. GameIsSound(h)
      BY <1>1 DEF IgdbIsSound
    <3>2. CASE h # g
      BY <1>1, <1>4, <3>1, <3>2 DEF GameIsSound
    <3>3. CASE h = g
      <4>1. igdb'[g].created \in 0 .. now /\ igdb'[g].updated \in 0 .. now
            /\ igdb'[g].allowed \in BOOLEAN /\ igdb'[g].rated \in BOOLEAN
        BY <1>1, <1>3, <1>4
      <4>2. catalog[g] # None => catalog[g] \in 0 .. igdb'[g].updated
        BY <1>1, <1>3, <1>4, SoundGame
      <4>3. catalog[g] \in Int
        BY <1>1, SoundGame
      <4>4. QED
        BY <1>1, <1>5, <3>3, <4>1, <4>2, <4>3 DEF GameIsSound
    <3>4. QED
      BY <3>2, <3>3
  <2>2. ASSUME NEW lane \in {"created", "updated"} PROVE MarkIsSound(lane)'
    <3>1. MarkIsSound(lane)
      BY <1>1 DEF IgdbIsSound
    <3>2. QED
      BY <1>1, <1>7, <3>1 DEF MarkIsSound
  <2>3. igdb' \in [Games -> [created : Int, updated : Int, allowed : BOOLEAN, rated : BOOLEAN]]
    BY <1>1, <1>2
  <2>4. QED
    BY <1>1, <1>7, <2>1, <2>2, <2>3 DEF IgdbIsSound
<1>10. WalkIsSound'
  <2>1. walk.moved \in BOOLEAN
    BY <1>1 DEF WalkIsSound
  <2>2. walk' \in [lane : {"none", "created", "updated", "promotion"}, step : {"read", "write", "advance"},
                 since : Int, offset : Nat, seen : SUBSET [id : Games, stamp : Int, updated : Int],
                 moved : BOOLEAN, whole : SUBSET Games]
    BY <1>1 DEF WalkIsSound
  <2>3. walk'.moved => walk'.lane = "updated"
    BY <1>1, <1>8 DEF WalkIsSound
  <2>4. QED
    BY <1>1, <1>8, <2>2, <2>3 DEF WalkIsSound
<1>11. ReadingsAreSound'
  <2>1. ASSUME NEW r \in walk.seen PROVE (igdb[r.id] # Absent /\ ReadingIsSound(r))'
    <3>1. igdb[r.id] # Absent /\ ReadingIsSound(r) /\ r.id \in Games /\ r.updated \in Int
      BY <1>1, SoundReading DEF ReadingsAreSound
    <3>2. CASE r.id # g
      BY <1>1, <1>4, <1>8, <3>1, <3>2 DEF ReadingIsSound
    <3>3. CASE r.id = g
      <4>1. marks["updated"] =< now /\ marks["updated"] \in Int
        BY <1>1, SoundMark
      <4>2. r.updated \in 0 .. igdb'[g].updated /\ igdb'[g].updated >= marks["updated"]
        BY <1>1, <1>3, <1>4, <3>1, <3>3, <4>1 DEF ReadingIsSound
      <4>3. QED
        BY <1>1, <1>5, <1>8, <3>1, <3>3, <4>2 DEF ReadingIsSound
    <3>4. QED
      BY <3>2, <3>3
  <2>2. QED
    BY <1>8, <2>1 DEF ReadingsAreSound
<1>12. WalkReadsInOrder'
  <2>1. CASE walk.lane = "updated" /\ ~walk'.moved
    <3>1. Stamp(g, walk.lane)' = now
      BY <1>4, <1>8, <2>1 DEF Stamp
    <3>2. ~walk.moved /\ g \notin Passed
      BY <1>8, <2>1
    <3>3. g \in Listed(walk.lane, walk.since) => Place(g, walk.lane, walk.since) >= walk.offset
      <4>1. AreStamped
        BY <1>1, Stamped
      <4>2. Place(g, walk.lane, walk.since) = Rank(Listed(walk.lane, walk.since), Stamps(walk.lane), g)
            /\ IsKeyed(Listed(walk.lane, walk.since), Stamps(walk.lane))
        BY <4>1, ListedIsSorted
      <4>3. Place(g, walk.lane, walk.since) \in Nat
        BY <4>2, RankType DEF IsKeyed
      <4>4. walk.offset \in Nat
        BY <1>1 DEF WalkIsSound
      <4>5. QED
        BY <3>2, <4>3, <4>4 DEF Passed
    <3>4. unasked[walk.lane] \subseteq unasked'[walk.lane]
      BY <1>7, <2>1
    <3>5. QED
      BY <1>1, <1>4, <1>7, <1>8, <1>9, <2>1, <3>1, <3>2, <3>3, <3>4, OrderJoined
  <2>2. CASE walk.lane = "created"
    <3>1. ASSUME NEW h \in Games
          PROVE  /\ igdb'[h] = Absent <=> igdb[h] = Absent
                 /\ igdb'[h].allowed = igdb[h].allowed
                 /\ Stamp(h, walk.lane)' = Stamp(h, walk.lane)
      <4>1. igdb'[h].created = igdb[h].created
        BY <1>4
      <4>2. QED
        BY <1>3, <1>4, <1>5, <1>8, <2>2, <4>1 DEF Stamp
    <3>2. unasked[walk.lane] \subseteq unasked'[walk.lane]
      BY <1>7, <2>2
    <3>3. walk'.moved = walk.moved
      BY <1>1, <1>8, <2>2 DEF WalkIsSound
    <3>4. QED
      BY <1>1, <1>8, <1>9, <3>1, <3>2, <3>3, OrderUnmoved
  <2>3. CASE walk.lane \notin {"created", "updated"} \/ walk'.moved
    BY <1>8, <2>3 DEF WalkReadsInOrder
  <2>4. QED
    BY <2>1, <2>2, <2>3
<1>13. SweepGoesOn'
  <2>1. Eligible' = Eligible
    BY <1>4, <1>6 DEF Eligible, Published
  <2>2. QED
    BY <1>1, <1>8, <2>1 DEF SweepGoesOn
<1>14. NewGamesAreAdmitted'
  <2>1. \A h \in Published : igdb'[h].created = igdb[h].created /\ igdb'[h].allowed = igdb[h].allowed
    BY <1>4 DEF Published
  <2>2. QED
    BY <1>1, <1>6, <1>7, <2>1 DEF NewGamesAreAdmitted
<1>15. CatalogFollowsUpdates'
  <2>1. ASSUME NEW h \in Games, Stale(h)'
        PROVE  h \in refused' \cup shifted' \/ igdb'[h].updated \in unasked'["updated"]
    <3>1. CASE h # g
      <4>1. igdb'[h] = igdb[h]
        BY <1>4, <3>1
      <4>2. Stale(h)
        BY <1>1, <2>1, <4>1 DEF Stale
      <4>3. QED
        BY <1>1, <1>7, <4>1, <4>2 DEF CatalogFollowsUpdates
    <3>2. CASE h = g
      <4>1. marks["updated"] \in Int /\ marks["updated"] =< now
            /\ (marks["updated"] # None => marks["updated"] \in unasked["updated"])
        BY <1>1, SoundMark
      <4>2. marks["updated"] = now /\ now # None
        BY <1>1, <1>4, <2>1, <3>2, <4>1 DEF Stale, None
      <4>3. QED
        BY <1>4, <1>7, <3>2, <4>1, <4>2
    <3>3. QED
      BY <3>1, <3>2
  <2>2. QED
    BY <2>1 DEF CatalogFollowsUpdates
<1>16. QED
  BY <1>9, <1>10, <1>11, <1>12, <1>13, <1>14, <1>15 DEF LanesInv

-----------------------------------------------------------------------------
(* The steps of a walk.                                                     *)

LEMMA FetchPageKeeps == LanesInv /\ FetchPage => LanesInv'
<1> SUFFICES ASSUME LanesInv, FetchPage PROVE LanesInv'
  OBVIOUS
<1> DEFINE lane == walk.lane
           limit == IF MaxItems - walk.offset < PageSize THEN MaxItems - walk.offset ELSE PageSize
           rows == Listed(lane, walk.since)
           key == Stamps(lane)
           to == IF Cardinality(rows) < walk.offset + limit THEN Cardinality(rows) ELSE walk.offset + limit
           page == {g \in rows : Place(g, lane, walk.since) \in walk.offset .. (to - 1)}
           read == {[id |-> g, stamp |-> Stamp(g, lane), updated |-> igdb[g].updated] : g \in page}
           step == IF to < walk.offset + limit \/ to = MaxItems THEN "write" ELSE "read"
<1>1. /\ IgdbIsSound /\ WalkIsSound /\ ReadingsAreSound /\ WalkReadsInOrder /\ SweepGoesOn /\ WatermarksHold
      /\ lane \in {"created", "updated"} /\ walk.step = "read"
      /\ walk' = [walk EXCEPT !.seen = @ \cup read, !.offset = to, !.step = step]
      /\ UNCHANGED <<now, igdb, catalog, targets, marks, unasked, refused, shifted, complete>>
  BY DEF LanesInv, FetchPage, history, source, WatermarksHold
<1>2. IgdbIsSound' /\ WatermarksHold'
  BY <1>1, SameIgdb
<1>3. AreStamped /\ AreStamped'
  BY <1>1, <1>2 DEF IgdbIsSound, AreStamped
<1>4. IsKeyed(rows, key) /\ rows \subseteq Games
      /\ \A g \in rows : Place(g, lane, walk.since) = Rank(rows, key, g) /\ key[g] = Stamp(g, lane)
  <2>1. rows \subseteq Games
    BY DEF Listed, Published
  <2>2. IsKeyed(rows, key) /\ \A g \in Games : Place(g, lane, walk.since) = Rank(rows, key, g)
    BY <1>3, ListedIsSorted
  <2>3. \A g \in Games : key[g] = Stamp(g, lane)
    BY DEF Stamps
  <2>4. QED
    BY <2>1, <2>2, <2>3
<1>5. Cardinality(rows) \in Nat /\ walk.offset \in Nat /\ walk.offset =< MaxItems /\ limit \in Nat
  <2>1. walk.offset \in Nat /\ walk.offset =< MaxItems
    BY <1>1 DEF WalkIsSound
  <2>2. Cardinality(rows) \in Nat
    BY <1>4, FS_CardinalityType DEF IsKeyed
  <2> HIDE DEF rows
  <2>3. limit \in Nat
    BY <1>1, <2>1 DEF AreNumbered, IgdbIsSound
  <2>4. QED
    BY <2>1, <2>2, <2>3
<1>6. to \in Nat /\ to =< Cardinality(rows) /\ to =< MaxItems /\ (walk.offset =< Cardinality(rows) => walk.offset =< to)
  <2>1. walk.offset + limit =< MaxItems
    BY <1>1, <1>5 DEF AreNumbered, IgdbIsSound
  <2> HIDE DEF limit, rows
  <2>2. QED
    BY <1>1, <1>5, <2>1 DEF AreNumbered, IgdbIsSound
<1>7. /\ walk'.lane = lane /\ walk'.since = walk.since /\ walk'.moved = walk.moved /\ walk'.whole = walk.whole
      /\ walk'.seen = walk.seen \cup read /\ walk'.offset = to /\ walk'.step = step
  <2> HIDE DEF read, to, step
  <2>1. QED
    BY <1>1 DEF WalkIsSound
<1>8. ASSUME NEW r \in read
      PROVE  \E g \in page : r.id = g /\ r.stamp = Stamp(g, lane) /\ r.updated = igdb[g].updated
  <2> HIDE DEF page, lane
  <2>1. PICK g \in page : r = [id |-> g, stamp |-> Stamp(g, lane), updated |-> igdb[g].updated]
    BY <1>8
  <2>2. QED
    BY <2>1
<1>9. \A g \in page : \E r \in read : r.id = g /\ r.stamp = Stamp(g, lane) /\ r.updated = igdb[g].updated
  <2> HIDE DEF page, lane
  <2>1. ASSUME NEW g \in page
        PROVE  \E r \in read : r.id = g /\ r.stamp = Stamp(g, lane) /\ r.updated = igdb[g].updated
    <3>1. [id |-> g, stamp |-> Stamp(g, lane), updated |-> igdb[g].updated] \in read
      OBVIOUS
    <3> HIDE DEF read
    <3>2. QED
      BY <3>1
  <2>2. QED
    BY <2>1
<1>10. /\ page \subseteq rows
       /\ \A g \in rows : g \in page <=> Rank(rows, key, g) \in walk.offset .. (to - 1)
  <2> HIDE DEF rows, key, to
  <2>1. QED
    BY <1>4
<1>11. read \in SUBSET [id : Games, stamp : Int, updated : Int]
  <2>1. ASSUME NEW g \in page PROVE g \in Games /\ Stamp(g, lane) \in Int /\ igdb[g].updated \in Int
    <3>1. g \in Games
      BY <1>4, <1>10
    <3>2. QED
      BY <1>3, <3>1 DEF Stamp, AreStamped
  <2> HIDE DEF page, lane
  <2>2. QED
    BY <2>1
<1>12. step \in {"read", "write"}
  OBVIOUS
<1> HIDE DEF page, read, to, step, limit
<1>13. WalkIsSound'
  <2>1. walk.seen \cup read \in SUBSET [id : Games, stamp : Int, updated : Int]
    BY <1>1, <1>11 DEF WalkIsSound
  <2>2. walk' \in [lane : {"none", "created", "updated", "promotion"}, step : {"read", "write", "advance"},
                 since : Int, offset : Nat, seen : SUBSET [id : Games, stamp : Int, updated : Int],
                 moved : BOOLEAN, whole : SUBSET Games]
    BY <1>1, <1>6, <1>12, <2>1 DEF WalkIsSound
  <2>3. QED
    BY <1>1, <1>6, <1>7, <2>2 DEF WalkIsSound
<1>14. ReadingsAreSound'
  <2>1. ASSUME NEW r \in walk.seen \cup read PROVE (igdb[r.id] # Absent /\ ReadingIsSound(r))'
    <3>1. CASE r \in walk.seen
      <4>1. igdb[r.id] # Absent /\ ReadingIsSound(r)
        BY <1>1, <3>1 DEF ReadingsAreSound
      <4>2. walk'.step # "advance"
        BY <1>7, <1>12
      <4>3. QED
        BY <1>1, <1>7, <4>1, <4>2 DEF ReadingIsSound
    <3>2. CASE r \in read
      <4>1. PICK g \in page : r.id = g /\ r.stamp = Stamp(g, lane) /\ r.updated = igdb[g].updated
        BY <1>8, <3>2
      <4>2. g \in Games /\ g \in Published
        BY <1>10 DEF Listed, Published
      <4>3. igdb[g].created \in 0 .. now /\ igdb[g].updated \in 0 .. now /\ now \in Nat /\ igdb[g] # Absent
        BY <1>1, <4>2, SoundGame DEF Published, IgdbIsSound
      <4>4. r.updated \in 0 .. igdb[r.id].updated
        BY <4>1, <4>3
      <4>5. r.stamp =< now
        <5>1. r.stamp \in 0 .. now
          BY <4>1, <4>3 DEF Stamp
        <5>2. QED
          BY <4>3, <5>1
      <4>6. lane = "updated" => r.stamp = r.updated
        BY <4>1 DEF Stamp
      <4>7. walk'.step # "advance"
        BY <1>7, <1>12
      <4>8. QED
        BY <1>1, <1>7, <4>1, <4>3, <4>4, <4>5, <4>6, <4>7 DEF ReadingIsSound
    <3>3. QED
      BY <2>1, <3>1, <3>2
  <2>2. QED
    BY <1>7, <2>1 DEF ReadingsAreSound
<1>15. WalkReadsInOrder'
  <2>1. SUFFICES ASSUME ~walk.moved PROVE OrderIsKept'
    BY <1>3, <1>7, SortedNext DEF OrderIsKept
  <2>2. ReadsInOrder(rows, key, walk.seen, walk.offset, unasked[lane])
    BY <1>1, <1>3, <2>1, OrderIsOfPlaces DEF OrderIsKept
  <2>3. Listed(walk.lane, walk.since)' = rows /\ Stamps(walk.lane)' = key
    BY <1>1, <1>7 DEF Listed, Published, Stamps, Stamp
  <2> HIDE DEF rows, key, lane
  <2>4. walk.offset =< Cardinality(rows)
    BY <2>2 DEF ReadsInOrder
  <2>5. \A g \in rows : Rank(rows, key, g) \in walk.offset .. (to - 1)
             => \E r \in walk.seen \cup read : r.id = g /\ r.stamp = key[g]
    BY <1>4, <1>9, <1>10
  <2>6. ASSUME NEW r \in walk.seen \cup read
        PROVE  r \in walk.seen \/ \E g \in rows : r.stamp = key[g] /\ Rank(rows, key, g) < to
    <3>1. CASE r \in walk.seen
      BY <3>1
    <3>2. CASE r \in read
      <4>1. PICK g \in page : r.stamp = Stamp(g, lane)
        BY <1>8, <3>2
      <4>2. g \in rows /\ Rank(rows, key, g) \in walk.offset .. (to - 1) /\ key[g] = Stamp(g, lane)
        BY <1>4, <1>10
      <4>3. Rank(rows, key, g) < to
        BY <1>5, <1>6, <4>2
      <4>4. QED
        BY <4>1, <4>2, <4>3
    <3>3. QED
      BY <3>1, <3>2
  <2>7. walk.seen \subseteq walk.seen \cup read
    OBVIOUS
  <2>8. ReadsInOrder(rows, key, walk.seen \cup read, to, unasked[lane])
    BY <1>4, <1>5, <1>6, <2>2, <2>4, <2>5, <2>6, <2>7, ReadingKeepsOrder
  <2>9. QED
    BY <1>1, <1>7, <2>3, <2>8 DEF OrderIsKept, lane
<1>16. SweepGoesOn'
  BY <1>1, <1>7 DEF SweepGoesOn
<1>17. QED
  BY <1>2, <1>13, <1>14, <1>15, <1>16 DEF LanesInv, WatermarksHold

\* Whoever is written is as new as what was read of it; who is not was refused, or is not of the catalog.
LEMMA WriteGamesKeeps ==
    ASSUME NEW known \in SUBSET Seen, LanesInv, WriteGames(known),
           walk.lane \in {"created", "updated"}, walk.step = "write",
           \A g \in Seen : g \in known \/ (walk.lane = "updated" /\ catalog[g] = None)
    PROVE  LanesInv'
<1>1. /\ IgdbIsSound /\ WalkIsSound /\ ReadingsAreSound /\ WalkReadsInOrder /\ SweepGoesOn
      /\ NewGamesAreAdmitted /\ CatalogFollowsUpdates
      /\ walk' = [walk EXCEPT !.step = "advance"]
      /\ UNCHANGED <<now, igdb, targets, marks, unasked, shifted, complete>>
  BY DEF LanesInv, WriteGames, source
<1>2. PICK rejected \in SUBSET known :
          /\ catalog' = [g \in Games |-> IF g \in known \ rejected THEN Payload(g) ELSE catalog[g]]
          /\ refused' = (refused \ (known \ rejected)) \cup rejected
  BY DEF WriteGames
<1> DEFINE written == known \ rejected
<1>3. Seen \subseteq Games /\ written \subseteq Seen
  BY <1>1, SoundReading DEF Seen
<1>4. ASSUME NEW g \in written
      PROVE  /\ g \in Published /\ catalog'[g] = Payload(g) /\ Payload(g) \in 0 .. igdb[g].updated
             /\ Payload(g) = igdb[g].updated \/ igdb[g].updated >= marks["updated"]
             /\ \A r \in walk.seen : r.id = g => Payload(g) >= r.updated
  <2>1. g \in Seen /\ g \in Games
    BY <1>3
  <2>2. PICK r \in walk.seen : /\ r.id = g /\ Payload(g) = r.updated
                               /\ \A c \in walk.seen : c.id = g => c.updated =< r.updated
    BY <1>1, <2>1, PayloadIsRead
  <2>3. r.id \in Published /\ ReadingIsSound(r)
    BY <1>1, SoundReading
  <2>4. catalog'[g] = Payload(g)
    BY <1>2, <2>1
  <2>5. \A c \in walk.seen : c.updated \in Int
    BY <1>1, SoundReading
  <2>6. QED
    BY <2>2, <2>3, <2>4, <2>5 DEF ReadingIsSound
<1>5. ASSUME NEW g \in Games, g \notin written PROVE catalog'[g] = catalog[g]
  BY <1>2, <1>5
<1>6. refused \ written \subseteq refused' /\ rejected \subseteq refused'
  BY <1>2
<1> HIDE DEF written
<1>7. IgdbIsSound'
  <2>1. ASSUME NEW h \in Games PROVE GameIsSound(h)'
    <3>1. GameIsSound(h)
      BY <1>1 DEF IgdbIsSound
    <3>2. CASE h \notin written
      BY <1>1, <1>5, <3>1, <3>2 DEF GameIsSound
    <3>3. CASE h \in written
      <4>1. h \in Published /\ catalog'[h] \in 0 .. igdb[h].updated
        BY <1>4, <3>3
      <4>2. catalog'[h] \in Int /\ igdb[h] # Absent
        BY <1>1, <4>1, Stamped DEF Published
      <4>3. QED
        BY <1>1, <3>1, <4>1, <4>2 DEF GameIsSound
    <3>4. QED
      BY <3>2, <3>3
  <2>2. ASSUME NEW lane \in {"created", "updated"} PROVE MarkIsSound(lane)'
    <3>1. MarkIsSound(lane)
      BY <1>1 DEF IgdbIsSound
    <3>2. QED
      BY <1>1, <3>1 DEF MarkIsSound
  <2>3. catalog' \in [Games -> Int]
    <3>1. \A h \in Games : catalog'[h] \in Int
      <4>1. ASSUME NEW h \in Games PROVE catalog'[h] \in Int
        BY <2>1 DEF GameIsSound
      <4>2. QED
        BY <4>1
    <3>2. DOMAIN catalog' = Games /\ catalog' = [h \in Games |-> catalog'[h]]
      BY <1>2
    <3>3. QED
      BY <3>1, <3>2
  <2>4. QED
    BY <1>1, <2>1, <2>2, <2>3 DEF IgdbIsSound
<1>8. /\ walk'.lane = walk.lane /\ walk'.since = walk.since /\ walk'.offset = walk.offset
      /\ walk'.seen = walk.seen /\ walk'.moved = walk.moved /\ walk'.whole = walk.whole
      /\ walk'.step = "advance"
  BY <1>1 DEF WalkIsSound
<1>9. WalkIsSound'
  BY <1>1, <1>8 DEF WalkIsSound
<1>10. ReadingsAreSound'
  <2>1. ASSUME NEW r \in walk.seen PROVE (igdb[r.id] # Absent /\ ReadingIsSound(r))'
    <3>1. igdb[r.id] # Absent /\ ReadingIsSound(r) /\ r.id \in Games /\ r.id \in Seen
      BY <1>1, SoundReading DEF ReadingsAreSound, Seen
    <3>2. \/ r.id \in refused' \/ catalog'[r.id] >= r.updated
          \/ walk.lane = "updated" /\ catalog'[r.id] = None
      <4>1. CASE r.id \in written
        BY <1>4, <4>1
      <4>2. CASE r.id \in rejected
        BY <1>6, <4>2
      <4>3. CASE r.id \notin written /\ r.id \notin rejected
        <5>1. r.id \notin known
          BY <4>3 DEF written
        <5>2. walk.lane = "updated" /\ catalog[r.id] = None
          BY <3>1, <5>1
        <5>3. QED
          BY <1>5, <3>1, <4>3, <5>2
      <4>4. QED
        BY <4>1, <4>2, <4>3
    <3>3. QED
      BY <1>1, <1>8, <3>1, <3>2 DEF ReadingIsSound
  <2>2. QED
    BY <1>8, <2>1 DEF ReadingsAreSound
<1>11. WalkReadsInOrder'
  <2>1. \A h \in Games : Stamp(h, walk.lane)' = Stamp(h, walk.lane)
    BY <1>1, <1>8 DEF Stamp
  <2>2. QED
    BY <1>1, <1>7, <1>8, <2>1, OrderUnmoved
<1>12. SweepGoesOn'
  BY <1>1, <1>8 DEF SweepGoesOn
<1>13. NewGamesAreAdmitted'
  <2>1. Published' = Published
    BY <1>1 DEF Published
  <2>2. ASSUME NEW h \in Published, catalog[h] # None \/ h \in refused PROVE catalog'[h] # None \/ h \in refused'
    <3>1. CASE h \in written
      <4>1. catalog'[h] \in 0 .. igdb[h].updated
        BY <1>4, <3>1
      <4>2. QED
        BY <4>1 DEF None
    <3>2. CASE h \notin written
      BY <1>5, <1>6, <2>2, <3>2 DEF Published
    <3>3. QED
      BY <3>1, <3>2
  <2>3. QED
    BY <1>1, <2>1, <2>2 DEF NewGamesAreAdmitted
<1>14. CatalogFollowsUpdates'
  <2>1. ASSUME NEW h \in Games, Stale(h)'
        PROVE  h \in refused' \cup shifted' \/ igdb'[h].updated \in unasked'["updated"]
    <3>1. CASE h \in written
      <4>1. igdb[h].updated \in 1 .. marks["updated"] /\ catalog'[h] < igdb[h].updated
        BY <1>1, <2>1 DEF Stale
      <4>2. catalog'[h] = igdb[h].updated \/ igdb[h].updated >= marks["updated"]
        BY <1>4, <3>1
      <4>3. marks["updated"] \in Int /\ (marks["updated"] # None => marks["updated"] \in unasked["updated"])
        BY <1>1, SoundMark
      <4>4. igdb[h].updated = marks["updated"] /\ marks["updated"] # None
        BY <4>1, <4>2, <4>3 DEF None
      <4>5. QED
        BY <1>1, <4>3, <4>4
    <3>2. CASE h \notin written
      <4>1. catalog'[h] = catalog[h]
        BY <1>5, <3>2
      <4>2. Stale(h)
        BY <1>1, <2>1, <4>1 DEF Stale
      <4>3. QED
        BY <1>1, <1>6, <3>2, <4>2 DEF CatalogFollowsUpdates
    <3>3. QED
      BY <3>1, <3>2
  <2>2. QED
    BY <2>1 DEF CatalogFollowsUpdates
<1>15. QED
  BY <1>7, <1>9, <1>10, <1>11, <1>12, <1>13, <1>14 DEF LanesInv

LEMMA WritesKeep == LanesInv /\ (WriteNew \/ WriteUpdated) => LanesInv'
<1>1. ASSUME LanesInv, WriteNew PROVE LanesInv'
  BY <1>1, WriteGamesKeeps DEF WriteNew, InWrite
<1>2. ASSUME LanesInv, WriteUpdated PROVE LanesInv'
  <2> DEFINE known == {g \in Seen : catalog[g] # None}
  <2>1. known \in SUBSET Seen /\ WriteGames(known) /\ walk.lane = "updated" /\ walk.step = "write"
    BY <1>2 DEF WriteUpdated, InWrite
  <2>2. \A g \in Seen : g \in known \/ (walk.lane = "updated" /\ catalog[g] = None)
    BY <2>1
  <2> HIDE DEF known
  <2>3. QED
    BY <1>2, <2>1, <2>2, WriteGamesKeeps
<1>3. QED
  BY <1>1, <1>2

\* What a walk leaves behind its cursor: the games of the listing that it has not read.
LEMMA BehindTheCursor ==
    ASSUME LanesInv, walk.lane \in {"created", "updated"}, ~walk.moved,
           NEW g \in Published, igdb[g].allowed,
           Stamp(g, walk.lane) > walk.since, Stamp(g, walk.lane) =< Newest(walk.seen, walk.since)
    PROVE  \/ Stamp(g, walk.lane) \in unasked[walk.lane] \cup {Newest(walk.seen, walk.since)}
           \/ \E r \in walk.seen : r.id = g /\ r.stamp = Stamp(g, walk.lane)
<1> DEFINE stamp == Stamp(g, walk.lane)
           cursor == Newest(walk.seen, walk.since)
<1>1. IgdbIsSound /\ WalkIsSound /\ ReadingsAreSound /\ WalkReadsInOrder /\ walk.since =< now
  BY DEF LanesInv, WalkIsSound
<1>2. /\ cursor \in Int
      /\ walk.seen = {} => cursor = walk.since
      /\ walk.seen # {} => \E r \in walk.seen : r.stamp = cursor
  BY <1>1, NewestIsRead
<1>3. g \in Listed(walk.lane, walk.since) /\ g \in Games /\ stamp \in Int /\ walk.since \in Int
  <2>1. g \in Games
    BY DEF Published
  <2>2. stamp \in Int
    BY <1>1, <2>1, Stamped DEF AreStamped, Stamp
  <2>3. QED
    BY <1>1, <2>1, <2>2 DEF Listed, WalkIsSound
<1>4. PlaceIsRead(g)
  BY <1>1, <1>3 DEF WalkReadsInOrder
<1>5. Place(g, walk.lane, walk.since) \in Nat /\ walk.offset \in Nat
  <2>1. /\ Place(g, walk.lane, walk.since) = Rank(Listed(walk.lane, walk.since), Stamps(walk.lane), g)
        /\ IsKeyed(Listed(walk.lane, walk.since), Stamps(walk.lane))
    BY <1>1, <1>3, Stamped, ListedIsSorted
  <2>2. QED
    BY <1>1, <2>1, RankType DEF IsKeyed, WalkIsSound
<1>6. CASE Place(g, walk.lane, walk.since) < walk.offset
  BY <1>4, <1>6 DEF PlaceIsRead
<1>7. CASE ~(Place(g, walk.lane, walk.since) < walk.offset)
  <2>1. Place(g, walk.lane, walk.since) >= walk.offset
    BY <1>5, <1>7
  <2>2. \A r \in walk.seen : r.stamp =< stamp
    BY <1>4, <2>1 DEF PlaceIsRead
  <2> HIDE DEF stamp, cursor
  <2>3. walk.seen # {}
    BY <1>2, <1>3 DEF stamp, cursor
  <2>4. cursor =< stamp
    BY <1>2, <2>2, <2>3
  <2>5. cursor = stamp
    BY <1>2, <1>3, <2>4 DEF stamp, cursor
  <2>6. QED
    BY <2>5 DEF stamp, cursor
<1>8. QED
  BY <1>6, <1>7

LEMMA AdvanceKeeps == \A lane \in {"created", "updated"} : LanesInv /\ Advance(lane) => LanesInv'
<1> SUFFICES ASSUME NEW lane \in {"created", "updated"}, LanesInv, Advance(lane) PROVE LanesInv'
  OBVIOUS
<1> DEFINE cursor == Newest(walk.seen, walk.since)
<1>1. /\ IgdbIsSound /\ WalkIsSound /\ ReadingsAreSound /\ WalkReadsInOrder /\ SweepGoesOn
      /\ NewGamesAreAdmitted /\ CatalogFollowsUpdates
      /\ walk.lane = lane /\ walk.step = "advance"
      /\ marks' = [marks EXCEPT ![lane] = cursor]
      /\ unasked' = [unasked EXCEPT ![lane] = @ \cup {cursor}
                                                \cup IF marks[lane] = None THEN 0 .. walk.since ELSE {}]
      /\ shifted' = IF lane = "updated" /\ walk.moved
                    THEN shifted \cup {g \in Published : /\ igdb[g].updated =< cursor
                                                         /\ g \notin Seen \/ Payload(g) < igdb[g].updated}
                    ELSE shifted
      /\ walk' = AtRest
      /\ UNCHANGED <<now, igdb, catalog, targets, refused, complete>>
  BY DEF LanesInv, Advance, source
<1>2. walk.since =< now /\ (marks[lane] # None => walk.since = marks[lane]) /\ walk.since \in Int
      /\ (walk.moved => lane = "updated")
  BY <1>1 DEF WalkIsSound
<1>3. cursor \in Int /\ cursor =< now
  BY <1>1, <1>2, NewestIsRead
<1>4. marks \in [{"created", "updated"} -> Int] /\ DOMAIN unasked = {"created", "updated"} /\ now \in Nat
  BY <1>1 DEF IgdbIsSound
<1>5. /\ marks'[lane] = cursor
      /\ \A other \in {"created", "updated"} : other # lane => marks'[other] = marks[other]
      /\ DOMAIN unasked' = {"created", "updated"}
      /\ \A other \in {"created", "updated"} : unasked[other] \subseteq unasked'[other]
      /\ cursor \in unasked'[lane]
      /\ marks[lane] = None => 0 .. walk.since \subseteq unasked'[lane]
      /\ shifted \subseteq shifted'
  <2> HIDE DEF cursor
  <2>1. QED
    BY <1>1, <1>4
<1>6. ASSUME NEW g \in Published, igdb[g].allowed, Stamp(g, lane) \in 1 .. cursor, Stamp(g, lane) > walk.since,
             ~walk.moved, Stamp(g, lane) \notin unasked'[lane]
      PROVE  \E r \in walk.seen : r.id = g /\ r.stamp = Stamp(g, lane)
  <2>1. Stamp(g, lane) =< cursor
    BY <1>3, <1>6
  <2>2. \/ Stamp(g, walk.lane) \in unasked[walk.lane] \cup {Newest(walk.seen, walk.since)}
        \/ \E r \in walk.seen : r.id = g /\ r.stamp = Stamp(g, walk.lane)
    BY <1>1, <1>6, <2>1, BehindTheCursor
  <2>3. QED
    BY <1>1, <1>5, <1>6, <2>2
<1>7. ASSUME NEW g \in Published, Stamp(g, lane) \in 1 .. cursor, ~(Stamp(g, lane) > walk.since)
      PROVE  Stamp(g, lane) \in 1 .. marks[lane] \/ Stamp(g, lane) \in unasked'[lane]
  <2>1. Stamp(g, lane) \in Int /\ Stamp(g, lane) >= 1 /\ Stamp(g, lane) =< walk.since
    BY <1>2, <1>3, <1>7
  <2>2. CASE marks[lane] = None
    <3>1. Stamp(g, lane) \in 0 .. walk.since
      BY <1>2, <2>1
    <3>2. QED
      BY <1>5, <2>2, <3>1
  <2>3. CASE marks[lane] # None
    BY <1>2, <2>1, <2>3
  <2>4. QED
    BY <2>2, <2>3
<1> HIDE DEF cursor
<1>8. IgdbIsSound'
  <2>1. ASSUME NEW h \in Games PROVE GameIsSound(h)'
    <3>1. GameIsSound(h)
      BY <1>1 DEF IgdbIsSound
    <3>2. QED
      BY <1>1, <3>1 DEF GameIsSound
  <2>2. ASSUME NEW other \in {"created", "updated"} PROVE MarkIsSound(other)'
    <3>1. MarkIsSound(other)
      BY <1>1 DEF IgdbIsSound
    <3>2. QED
      BY <1>1, <1>3, <1>5, <3>1 DEF MarkIsSound
  <2>3. marks' \in [{"created", "updated"} -> Int]
    BY <1>1, <1>3, <1>4
  <2>4. QED
    BY <1>1, <1>5, <2>1, <2>2, <2>3 DEF IgdbIsSound
<1>9. WalkIsSound' /\ ReadingsAreSound' /\ WalkReadsInOrder' /\ SweepGoesOn'
  <2>1. complete' = TRUE
    BY <1>1 DEF SweepGoesOn
  <2>2. QED
    BY <1>1, <2>1, RestIsSound
<1>10. NewGamesAreAdmitted'
  <2>1. Published' = Published
    BY <1>1 DEF Published
  <2>2. ASSUME NEW g \in Published, igdb[g].allowed, igdb[g].created \in 1 .. marks'["created"],
               igdb[g].created \notin unasked'["created"]
        PROVE  catalog[g] # None \/ g \in refused
    <3>1. CASE igdb[g].created \in 1 .. marks["created"]
      <4>1. igdb[g].created \notin unasked["created"]
        BY <1>5, <2>2
      <4>2. QED
        BY <1>1, <2>2, <3>1, <4>1 DEF NewGamesAreAdmitted
    <3>2. CASE igdb[g].created \notin 1 .. marks["created"]
      <4>1. lane = "created"
        BY <1>5, <2>2, <3>2
      <4>2. Stamp(g, lane) = igdb[g].created /\ ~walk.moved
        BY <1>2, <4>1 DEF Stamp
      <4>3. Stamp(g, lane) \in 1 .. cursor /\ Stamp(g, lane) \notin unasked'[lane]
        BY <1>5, <2>2, <4>1, <4>2
      <4>4. Stamp(g, lane) > walk.since
        BY <1>7, <3>2, <4>1, <4>2, <4>3
      <4>5. PICK r \in walk.seen : r.id = g
        BY <1>6, <2>2, <4>2, <4>3, <4>4
      <4>6. ReadingIsSound(r) /\ r.updated \in Int
        BY <1>1, SoundReading
      <4>7. r.id \in refused \/ catalog[r.id] >= r.updated
        BY <1>1, <4>1, <4>6 DEF ReadingIsSound
      <4>8. r.updated >= 0 /\ catalog[g] \in Int
        <5>1. g \in Games
          BY DEF Published
        <5>2. igdb[g].updated \in Int
          BY <1>1, <5>1, Stamped DEF AreStamped
        <5>3. QED
          BY <1>1, <4>5, <4>6, <5>1, <5>2, SoundGame DEF ReadingIsSound
      <4>9. QED
        BY <4>5, <4>6, <4>7, <4>8 DEF None
    <3>3. QED
      BY <3>1, <3>2
  <2>3. QED
    BY <1>1, <2>1, <2>2 DEF NewGamesAreAdmitted
<1>11. CatalogFollowsUpdates'
  <2>1. ASSUME NEW g \in Games, Stale(g)', g \notin refused, g \notin shifted',
               igdb[g].updated \notin unasked'["updated"]
        PROVE  FALSE
    <3>1. /\ catalog[g] # None /\ igdb[g].allowed /\ igdb[g].updated \in 1 .. marks'["updated"]
          /\ catalog[g] < igdb[g].updated
      BY <1>1, <2>1 DEF Stale
    <3>2. g \in Published /\ catalog[g] \in Int /\ igdb[g].updated \in Int
      BY <1>1, <3>1, SoundGame, Stamped DEF AreStamped
    <3>3. g \notin shifted /\ igdb[g].updated \notin unasked["updated"]
      BY <1>5, <2>1
    <3>4. ~Stale(g)
      BY <1>1, <2>1, <3>3 DEF CatalogFollowsUpdates
    <3>5. igdb[g].updated \notin 1 .. marks["updated"]
      BY <3>1, <3>4 DEF Stale
    <3>6. lane = "updated"
      BY <1>5, <3>1, <3>5
    <3>7. Stamp(g, lane) = igdb[g].updated
      BY <3>6 DEF Stamp
    <3>8. igdb[g].updated \in 1 .. cursor
      BY <1>5, <3>1, <3>6
    <3>9. ASSUME NEW r \in walk.seen, r.id = g, r.updated >= igdb[g].updated PROVE FALSE
      <4>1. ReadingIsSound(r) /\ r.updated \in Int
        BY <1>1, SoundReading
      <4>2. catalog[g] >= r.updated
        BY <1>1, <2>1, <3>1, <3>9, <4>1 DEF ReadingIsSound
      <4>3. QED
        BY <3>1, <3>2, <3>9, <4>1, <4>2
    <3>10. CASE walk.moved
      <4>1. igdb[g].updated =< cursor
        BY <1>3, <3>8
      <4>2. g \in Seen /\ ~(Payload(g) < igdb[g].updated)
        BY <1>1, <2>1, <3>2, <3>6, <3>10, <4>1
      <4>3. PICK r \in walk.seen : r.id = g /\ Payload(g) = r.updated
        BY <1>1, <4>2, PayloadIsRead
      <4>4. r.updated \in Int
        BY <1>1, SoundReading
      <4>5. r.updated >= igdb[g].updated
        BY <3>2, <4>2, <4>3, <4>4
      <4>6. QED
        BY <3>9, <4>3, <4>5
    <3>11. CASE ~walk.moved
      <4>1. Stamp(g, lane) > walk.since
        BY <1>7, <2>1, <3>2, <3>5, <3>6, <3>7, <3>8
      <4>2. PICK r \in walk.seen : r.id = g /\ r.stamp = Stamp(g, lane)
        BY <1>6, <2>1, <3>1, <3>2, <3>6, <3>7, <3>8, <3>11, <4>1
      <4>3. r.updated = igdb[g].updated
        BY <1>1, <3>6, <3>7, <4>2, SoundReading DEF ReadingIsSound
      <4>4. QED
        BY <3>2, <3>9, <4>2, <4>3
    <3>12. QED
      BY <3>10, <3>11
  <2>2. QED
    BY <1>1, <2>1 DEF CatalogFollowsUpdates
<1>12. QED
  BY <1>8, <1>9, <1>10, <1>11 DEF LanesInv

LEMMA LanesKept == LanesInv /\ [Next]_vars => LanesInv'
<1>1. ASSUME LanesInv, UNCHANGED vars PROVE LanesInv'
  <2>1. UNCHANGED <<now, igdb, catalog, targets, marks, walk, unasked, refused, shifted, complete>>
    BY <1>1 DEF vars, source, history
  <2>2. IgdbIsSound' /\ WatermarksHold'
    BY <1>1, <2>1, SameIgdb DEF LanesInv, WatermarksHold
  <2>3. WalkIsSound'
    BY <1>1, <2>1 DEF LanesInv, WalkIsSound
  <2>4. ReadingsAreSound'
    BY <1>1, <2>1 DEF LanesInv, ReadingsAreSound, ReadingIsSound
  <2>5. WalkReadsInOrder'
    <3>1. \A h \in Games : Stamp(h, walk.lane)' = Stamp(h, walk.lane)
      BY <2>1 DEF Stamp
    <3>2. QED
      BY <1>1, <2>1, <2>2, <3>1, OrderUnmoved DEF LanesInv
  <2>6. SweepGoesOn'
    BY <1>1, <2>1 DEF LanesInv, SweepGoesOn, Eligible, Published
  <2>7. QED
    BY <2>2, <2>3, <2>4, <2>5, <2>6 DEF LanesInv, WatermarksHold
<1>2. ASSUME LanesInv, NEW g \in Games, Publish(g) \/ Touch(g) \/ Vote(g) \/ Hydrate(g) PROVE LanesInv'
  BY <1>2, PublishKeeps, TouchKeeps, VoteKeeps, HydrateKeeps
<1>3. QED
  BY <1>1, <1>2, TickKeeps, StartKeeps, FetchPageKeeps, WritesKeep, AdvanceKeeps, SweepPageKeeps, FailKeeps DEF Next

LEMMA LanesImply == LanesInv => NewGamesAreAdmitted /\ CatalogFollowsUpdates /\ SweepIsWhole
BY DEF LanesInv, SweepGoesOn, SweepIsWhole

(***************************************************************************)
(* incremental_igdb_new, incremental_igdb_updated and                      *)
(* incremental_games_promotion: whatever fails, a new game behind the      *)
(* watermark is in the catalog, refused, or of a second that is not asked  *)
(* for twice; a row is as new as the last change behind the watermark, but *)
(* for those seconds and for what moved under the walk; and a sweep that   *)
(* ends was whole.                                                         *)
(***************************************************************************)
THEOREM GamesStayAccounted ==
    ASSUME AreNumbered
    PROVE  Spec => [](NewGamesAreAdmitted /\ CatalogFollowsUpdates /\ SweepIsWhole)
BY LanesInit, LanesKept, LanesImply, PTL DEF Spec
=============================================================================
