---------------------------- MODULE Seeding_proofs ----------------------------
(***************************************************************************)
(* Proofs about Seeding, for any number of overlapping slices, any sizes   *)
(* and any source.  The book-keeping: every attempt is one answer of the   *)
(* source (BudgetSpentOnAnswers), and overlapping slices cost at most one  *)
(* attempt each beyond the budget (AttemptsBounded).  The catalog: types   *)
(* (TypeOK), and one row per slug and per external id (KeysUnique).        *)
(***************************************************************************)
EXTENDS Seeding, FiniteSetTheorems, SequenceTheorems, TLAPS

\* The locals of a slice have exactly these fields.
LocalsOf(l) == DOMAIN l = {"pending", "work", "batch", "resolved", "gone"}

\* As much of the types as the book-keeping needs.
Shape ==
    /\ listed \subseteq Ids
    /\ attempts \in [Ids -> Nat]
    /\ answered \in [Ids -> Nat]
    /\ unreachable \in [Ids -> BOOLEAN]
    /\ run = [r \in Runs |-> run[r]]
    /\ \A r \in Runs : LocalsOf(run[r])
    /\ \A r \in Runs : run[r].pending \subseteq Ids

\* The slices that have an answer about x still to write down, or x on their list.
Answerers(x) == {r \in Runs : x \in run[r].resolved}
Holders(x) == {r \in Runs : x \in run[r].pending}

\* An answer about x has been written down, or one slice still has it.
AnswersKept == \A x \in Ids : attempts[x] + Cardinality(Answerers(x)) <= answered[x]

GoneReported ==
    /\ \A x \in Ids : unreachable[x] => x \in reportedGone
    /\ \A r \in Runs : run[r].gone \subseteq reportedGone

\* A slice writes down only what it took, and took it when it had budget left.
OnlyHeld == \A r \in Runs : run[r].resolved \subseteq run[r].pending
HeldBounded ==
    \A x \in Ids : attempts[x] + Cardinality(Holders(x)) <= MaxAttempts - 1 + Cardinality(Runs)

Bookkeeping == Shape /\ AnswersKept /\ GoneReported /\ OnlyHeld /\ HeldBounded

-----------------------------------------------------------------------------
(* What a slice takes from the work list                                   *)

LEMMA BeforeIsTotal ==
    ASSUME attempts \in [Ids -> Nat], NEW x \in Ids, NEW y \in Ids
    PROVE  /\ ~Before(x, x)
           /\ x # y => Before(x, y) \/ Before(y, x)
           /\ \A z \in Ids : Before(x, y) /\ Before(y, z) => Before(x, z)
<1>1. Rank \in [Ids -> Nat] /\ \A i, j \in Ids : Rank[i] = Rank[j] => i = j
  BY SeedingAssumption DEF IsInjective
<1>2. QED
  BY <1>1 DEF Before

\* A slice holds workable targets only.
LEMMA SliceIsPart ==
    ASSUME attempts \in [Ids -> Nat], NEW S \in SUBSET Ids, NEW n
    PROVE  ToSet(Slice(S, n)) \subseteq S /\ Slice(S, n) \in Seq(S)
<1> DEFINE first == {x \in S : Cardinality({y \in S : Before(y, x)}) < n}
           below(x) == {y \in first : Before(y, x)}
           size == Cardinality(first)
           place == [x \in first |-> Cardinality(below(x))]
<1>1. IsFiniteSet(first) /\ size \in Nat /\ first \subseteq Ids
  <2>1. IsFiniteSet(Ids)
    BY SeedingAssumption
  <2>2. first \in SUBSET Ids
    OBVIOUS
  <2>3. QED
    BY <2>1, <2>2, FS_Subset, FS_CardinalityType
<1> HIDE DEF first
<1>2. ASSUME NEW x \in first
      PROVE  /\ IsFiniteSet(below(x)) /\ Cardinality(below(x)) \in Nat
             /\ Cardinality(below(x)) \in 0 .. (size - 1)
  <2>1. below(x) \in SUBSET first
    OBVIOUS
  <2>2. x \notin below(x)
    BY <1>1, BeforeIsTotal
  <2>3. IsFiniteSet(below(x)) /\ Cardinality(below(x)) <= size /\ Cardinality(below(x)) # size
    BY <1>1, <2>1, <2>2, FS_Subset
  <2>4. Cardinality(below(x)) \in Nat
    BY <2>3, FS_CardinalityType
  <2>5. QED
    BY <1>1, <2>3, <2>4
<1>3. ASSUME NEW x \in first, NEW z \in first, Before(x, z)
      PROVE  Cardinality(below(x)) < Cardinality(below(z))
  <2>1. below(x) \in SUBSET below(z) /\ x \in below(z) /\ x \notin below(x)
    <3>1. \A y \in first : Before(y, x) => Before(y, z)
      BY <1>1, <1>3, BeforeIsTotal
    <3>2. QED
      BY <1>1, <1>3, <3>1, BeforeIsTotal
  <2>2. Cardinality(below(x)) <= Cardinality(below(z)) /\ Cardinality(below(x)) # Cardinality(below(z))
    BY <1>2, <2>1, FS_Subset
  <2>3. Cardinality(below(x)) \in Nat /\ Cardinality(below(z)) \in Nat
    BY <1>2
  <2> HIDE DEF below
  <2>4. QED
    BY <2>2, <2>3
<1>4. place \in Injection(first, 0 .. (size - 1))
  <2>1. place \in [first -> 0 .. (size - 1)]
    BY <1>2
  <2>2. ASSUME NEW x \in first, NEW z \in first, place[x] = place[z]
        PROVE  x = z
    <3>1. SUFFICES ASSUME x # z PROVE FALSE
      OBVIOUS
    <3>2. Before(x, z) \/ Before(z, x)
      BY <1>1, <3>1, BeforeIsTotal
    <3>3. Cardinality(below(x)) = Cardinality(below(z))
      BY <2>2
    <3>4. Cardinality(below(x)) \in Nat
      BY <1>2
    <3>5. QED
      BY <1>3, <3>2, <3>3, <3>4
  <2>3. QED
    BY <2>1, <2>2 DEF Injection, IsInjective
<1>5. place \in Surjection(first, 0 .. (size - 1))
  <2>1. IsFiniteSet(0 .. (size - 1)) /\ Cardinality(0 .. (size - 1)) = size
    BY <1>1, FS_Interval
  <2>2. QED
    BY <1>4, <2>1, FS_Injection
<1>6. ASSUME NEW k \in 1 .. size
      PROVE  \E x \in first : Cardinality(below(x)) = k - 1
  <2>1. k - 1 \in 0 .. (size - 1)
    BY <1>1
  <2>2. PICK x \in first : place[x] = k - 1
    BY <1>5, <2>1 DEF Surjection
  <2>3. QED
    BY <2>2
<1> DEFINE slice == [k \in 1 .. size |-> CHOOSE x \in first : Cardinality(below(x)) = k - 1]
<1>7. first \subseteq S
  BY DEF first
<1>8. Slice(S, n) = slice
  BY DEF Slice, first
<1>9. \A k \in 1 .. size : slice[k] \in first
  BY <1>6
<1>10. ToSet(slice) \subseteq S
  <2>1. ToSet(slice) = {slice[k] : k \in 1 .. size}
    BY DEF ToSet
  <2>2. QED
    BY <1>7, <1>9, <2>1
<1>11. slice \in Seq(S)
  <2>1. slice \in [1 .. size -> S]
    BY <1>7, <1>9
  <2> HIDE DEF slice, size
  <2>2. QED
    BY <1>1, <2>1, SeqDef
<1>12. QED
  BY <1>8, <1>10, <1>11

LEMMA TakesWorkable ==
    ASSUME attempts \in [Ids -> Nat], listed \subseteq Ids
    PROVE  ToSet(Slice(Pending, SliceSize)) \subseteq Pending
<1>1. Pending \in SUBSET Ids
  BY DEF Pending
<1>2. QED
  BY <1>1, SliceIsPart

-----------------------------------------------------------------------------
(* Counting slices                                                         *)

LEMMA CountedSlices ==
    ASSUME NEW S \in SUBSET Runs
    PROVE  /\ IsFiniteSet(S) /\ Cardinality(S) \in Nat
           /\ Cardinality(S) <= Cardinality(Runs)
           /\ \A T \in SUBSET S : Cardinality(T) \in Nat /\ Cardinality(T) <= Cardinality(S)
           /\ \A r \in Runs : Cardinality(S \cup {r}) <= Cardinality(S) + 1
           /\ \A r \in S : Cardinality(S \ {r}) = Cardinality(S) - 1
<1>1. IsFiniteSet(Runs)
  BY SeedingAssumption
<1>2. IsFiniteSet(S) /\ Cardinality(S) <= Cardinality(Runs)
  BY <1>1, FS_Subset
<1>3. Cardinality(S) \in Nat
  BY <1>2, FS_CardinalityType
<1>4. ASSUME NEW T \in SUBSET S
      PROVE  Cardinality(T) \in Nat /\ Cardinality(T) <= Cardinality(S)
  BY <1>2, FS_Subset, FS_CardinalityType
<1>5. ASSUME NEW r \in Runs
      PROVE  Cardinality(S \cup {r}) <= Cardinality(S) + 1
  <2>1. Cardinality(S \cup {r}) = IF r \in S THEN Cardinality(S) ELSE Cardinality(S) + 1
    BY <1>2, FS_AddElement
  <2>2. QED
    BY <1>3, <2>1
<1>6. \A r \in S : Cardinality(S \ {r}) = Cardinality(S) - 1
  BY <1>2, <1>3, FS_RemoveElement
<1>7. QED
  BY <1>2, <1>3, <1>4, <1>5, <1>6

\* A step that writes nothing down and takes nothing new keeps the books.
LEMMA QuietStep ==
    ASSUME Bookkeeping, Shape',
           UNCHANGED <<attempts, unreachable, history>>,
           \A r \in Runs : /\ run'[r].pending \subseteq run[r].pending
                           /\ run'[r].resolved \subseteq run[r].resolved
                           /\ run'[r].gone \subseteq run[r].gone
                           /\ run'[r].resolved \subseteq run'[r].pending
    PROVE  Bookkeeping'
<1> USE DEF Bookkeeping
<1>1. AnswersKept'
  <2>1. SUFFICES ASSUME NEW x \in Ids
                 PROVE  attempts[x] + Cardinality(Answerers(x)') <= answered[x]
    BY DEF AnswersKept, history
  <2>2. Answerers(x)' \in SUBSET Answerers(x) /\ Answerers(x) \in SUBSET Runs
    BY DEF Answerers
  <2>3. /\ Cardinality(Answerers(x)') <= Cardinality(Answerers(x))
        /\ Cardinality(Answerers(x)') \in Nat /\ Cardinality(Answerers(x)) \in Nat
    BY <2>2, CountedSlices
  <2>4. attempts[x] \in Nat /\ answered[x] \in Nat /\ attempts[x] + Cardinality(Answerers(x)) <= answered[x]
    BY DEF Shape, AnswersKept
  <2>5. QED
    BY <2>3, <2>4
<1>2. GoneReported'
  BY DEF GoneReported, history
<1>3. OnlyHeld'
  BY DEF OnlyHeld
<1>4. HeldBounded'
  <2>1. SUFFICES ASSUME NEW x \in Ids
                 PROVE  attempts[x] + Cardinality(Holders(x)') <= MaxAttempts - 1 + Cardinality(Runs)
    BY DEF HeldBounded
  <2>2. Holders(x)' \in SUBSET Holders(x) /\ Holders(x) \in SUBSET Runs
    BY DEF Holders
  <2>3. /\ Cardinality(Holders(x)') <= Cardinality(Holders(x))
        /\ Cardinality(Holders(x)') \in Nat /\ Cardinality(Holders(x)) \in Nat
    BY <2>2, CountedSlices
  <2>4. Cardinality(Runs) \in Nat /\ MaxAttempts \in Nat
    BY CountedSlices, SeedingAssumption
  <2>5. attempts[x] \in Nat /\ attempts[x] + Cardinality(Holders(x)) <= MaxAttempts - 1 + Cardinality(Runs)
    BY DEF Shape, HeldBounded
  <2>6. QED
    BY <2>3, <2>4, <2>5
<1>5. QED
  BY <1>1, <1>2, <1>3, <1>4

-----------------------------------------------------------------------------
(* The transactions that write something down or take something new        *)

LEMMA ReadPendingKeeps ==
    ASSUME Bookkeeping, NEW r \in Runs, ReadPending(r)
    PROVE  Bookkeeping'
<1> DEFINE taken == ToSet(Slice(Pending, SliceSize))
<1> USE DEF Bookkeeping
<1>1. taken \subseteq Pending
  BY TakesWorkable DEF Shape
<1>2. run' = [run EXCEPT ![r] = [Blank EXCEPT !.pending = taken, !.work = Slice(Pending, SliceSize)]]
  BY DEF ReadPending
<1> HIDE DEF taken
<1>3. /\ run'[r].pending = taken /\ run'[r].resolved = {} /\ run'[r].gone = {}
      /\ LocalsOf(run'[r])
      /\ \A q \in Runs : q # r => run'[q] = run[q]
      /\ run' = [q \in Runs |-> run'[q]]
  BY <1>2 DEF Shape, Blank, LocalsOf
<1>4. UNCHANGED <<listed, attempts, unreachable, history>>
  BY DEF ReadPending, targets
<1>5. Shape'
  BY <1>1, <1>3, <1>4 DEF Shape, Pending, history
<1>6. AnswersKept'
  <2>1. SUFFICES ASSUME NEW x \in Ids
                 PROVE  attempts[x] + Cardinality(Answerers(x)') <= answered[x]
    BY <1>4 DEF AnswersKept, history
  <2>2. Answerers(x)' \in SUBSET Answerers(x) /\ Answerers(x) \in SUBSET Runs
    BY <1>3 DEF Answerers
  <2>3. /\ Cardinality(Answerers(x)') <= Cardinality(Answerers(x))
        /\ Cardinality(Answerers(x)') \in Nat /\ Cardinality(Answerers(x)) \in Nat
    BY <2>2, CountedSlices
  <2>4. attempts[x] \in Nat /\ answered[x] \in Nat /\ attempts[x] + Cardinality(Answerers(x)) <= answered[x]
    BY DEF Shape, AnswersKept
  <2>5. QED
    BY <2>3, <2>4
<1>7. GoneReported'
  BY <1>3, <1>4 DEF GoneReported, history
<1>8. OnlyHeld'
  BY <1>3 DEF OnlyHeld
<1>9. HeldBounded'
  <2>1. SUFFICES ASSUME NEW x \in Ids
                 PROVE  attempts[x] + Cardinality(Holders(x)') <= MaxAttempts - 1 + Cardinality(Runs)
    BY <1>4 DEF HeldBounded
  <2>2. Holders(x) \in SUBSET Runs /\ Holders(x)' \in SUBSET Runs
    BY DEF Holders
  <2>3. /\ Cardinality(Runs) \in Nat /\ MaxAttempts \in Nat /\ attempts[x] \in Nat
        /\ Cardinality(Holders(x)) \in Nat
        /\ Cardinality(Holders(x)') \in Nat /\ Cardinality(Holders(x)') <= Cardinality(Runs)
    BY <2>2, CountedSlices, SeedingAssumption DEF Shape
  <2>4. CASE x \in taken
    <3>1. ~(attempts[x] >= MaxAttempts)
      BY <1>1, <2>4 DEF Pending, Retired
    <3>2. QED
      BY <2>3, <3>1
  <2>5. CASE x \notin taken
    <3>1. Holders(x)' \in SUBSET Holders(x)
      BY <1>3, <2>5 DEF Holders
    <3>2. Cardinality(Holders(x)') <= Cardinality(Holders(x))
      BY <2>2, <3>1, CountedSlices
    <3>3. attempts[x] + Cardinality(Holders(x)) <= MaxAttempts - 1 + Cardinality(Runs)
      BY DEF HeldBounded
    <3>4. QED
      BY <2>3, <3>2, <3>3
  <2>6. QED
    BY <2>4, <2>5
<1>10. QED
  BY <1>5, <1>6, <1>7, <1>8, <1>9

LEMMA FetchChunkKeeps ==
    ASSUME Bookkeeping, NEW r \in Runs, FetchChunk(r)
    PROVE  Bookkeeping'
<1> USE DEF Bookkeeping
<1>1. PICK failed \in SUBSET ToSet(Chunk(r)) :
        LET served == Picked(Chunk(r), {k \in DOMAIN Chunk(r) :
                                   Chunk(r)[k] \notin failed /\ source[Chunk(r)[k]].serves # "gone"})
            notFound == {x \in ToSet(Chunk(r)) \ failed : source[x].serves = "gone"}
            resolved == ToSet(served) \cap run[r].pending
            batch == [k \in DOMAIN served |-> Payload(served[k])]
        IN  /\ run' = [run EXCEPT ![r].work = Rest(r), ![r].batch = batch,
                                  ![r].resolved = @ \cup resolved,
                                  ![r].gone = @ \cup (notFound \cap run[r].pending)]
            /\ answered' = [x \in Ids |-> IF x \in resolved THEN answered[x] + 1 ELSE answered[x]]
            /\ reportedGone' = reportedGone \cup notFound
            /\ UNCHANGED targets
  BY DEF FetchChunk
<1> DEFINE served == Picked(Chunk(r), {k \in DOMAIN Chunk(r) :
                                   Chunk(r)[k] \notin failed /\ source[Chunk(r)[k]].serves # "gone"})
           notFound == {x \in ToSet(Chunk(r)) \ failed : source[x].serves = "gone"}
           resolved == ToSet(served) \cap run[r].pending
           batch == [k \in DOMAIN served |-> Payload(served[k])]
<1>2. /\ run' = [run EXCEPT ![r].work = Rest(r), ![r].batch = batch,
                           ![r].resolved = @ \cup resolved,
                           ![r].gone = @ \cup (notFound \cap run[r].pending)]
      /\ answered' = [x \in Ids |-> IF x \in resolved THEN answered[x] + 1 ELSE answered[x]]
      /\ reportedGone' = reportedGone \cup notFound
      /\ UNCHANGED <<listed, attempts, unreachable>>
  BY <1>1 DEF targets
<1>3. resolved \subseteq run[r].pending
  OBVIOUS
<1> HIDE DEF resolved, notFound, batch, served
<1>4. /\ run'[r].pending = run[r].pending
      /\ run'[r].resolved = run[r].resolved \cup resolved
      /\ run'[r].gone = run[r].gone \cup (notFound \cap run[r].pending)
      /\ LocalsOf(run'[r])
      /\ \A q \in Runs : q # r => run'[q] = run[q]
      /\ run' = [q \in Runs |-> run'[q]]
  <2> DEFINE gone == run[r].gone \cup (notFound \cap run[r].pending)
             answers == run[r].resolved \cup resolved
             left == Rest(r)
  <2>1. run' = [run EXCEPT ![r] = [run[r] EXCEPT !.work = left, !.batch = batch,
                                                 !.resolved = answers, !.gone = gone]]
    BY <1>2 DEF Shape, LocalsOf
  <2> HIDE DEF gone, answers, left
  <2>2. LET l == [run[r] EXCEPT !.work = left, !.batch = batch,
                                !.resolved = answers, !.gone = gone]
        IN  LocalsOf(l) /\ l.pending = run[r].pending /\ l.resolved = answers /\ l.gone = gone
    BY DEF Shape, LocalsOf
  <2>3. QED
    BY <2>1, <2>2 DEF Shape, gone, answers
<1>5. Shape'
  BY <1>2, <1>4 DEF Shape
<1>6. AnswersKept'
  <2>1. SUFFICES ASSUME NEW x \in Ids
                 PROVE  attempts[x] + Cardinality(Answerers(x)') <= answered'[x]
    BY <1>2 DEF AnswersKept
  <2>2. Answerers(x)' \in SUBSET Runs /\ Answerers(x) \in SUBSET Runs
    BY DEF Answerers
  <2>3. /\ Cardinality(Answerers(x)') \in Nat /\ Cardinality(Answerers(x)) \in Nat
        /\ attempts[x] \in Nat /\ answered[x] \in Nat
        /\ attempts[x] + Cardinality(Answerers(x)) <= answered[x]
    BY <2>2, CountedSlices DEF Shape, AnswersKept
  <2>4. CASE x \in resolved
    <3>1. Answerers(x)' = Answerers(x) \cup {r}
      BY <1>4, <2>4 DEF Answerers
    <3>2. Cardinality(Answerers(x)') <= Cardinality(Answerers(x)) + 1
      BY <2>2, <3>1, CountedSlices
    <3>3. answered'[x] = answered[x] + 1
      BY <1>2, <2>4
    <3>4. QED
      BY <2>3, <3>2, <3>3
  <2>5. CASE x \notin resolved
    <3>1. Answerers(x)' = Answerers(x)
      BY <1>4, <2>5 DEF Answerers
    <3>2. answered'[x] = answered[x]
      BY <1>2, <2>5
    <3>3. QED
      BY <2>3, <3>1, <3>2
  <2>6. QED
    BY <2>4, <2>5
<1>7. GoneReported'
  BY <1>2, <1>4 DEF GoneReported
<1>8. OnlyHeld'
  BY <1>3, <1>4 DEF OnlyHeld
<1>9. HeldBounded'
  <2>1. \A x \in Ids : Holders(x)' = Holders(x)
    BY <1>4 DEF Holders
  <2>2. QED
    BY <1>2, <2>1 DEF HeldBounded
<1>10. QED
  BY <1>5, <1>6, <1>7, <1>8, <1>9

\* Blank locals hold nothing.
LEMMA Forgotten ==
    ASSUME Shape, NEW r \in Runs, run' = [run EXCEPT ![r] = Blank]
    PROVE  /\ run'[r].pending = {} /\ run'[r].resolved = {} /\ run'[r].gone = {}
           /\ LocalsOf(run'[r])
           /\ \A q \in Runs : q # r => run'[q] = run[q]
           /\ run' = [q \in Runs |-> run'[q]]
BY DEF Shape, LocalsOf, Blank

LEMMA StampKeeps ==
    ASSUME Bookkeeping, NEW r \in Runs, Stamp(r)
    PROVE  Bookkeeping'
<1> USE DEF Bookkeeping
<1>1. /\ run'[r].pending = {} /\ run'[r].resolved = {} /\ run'[r].gone = {}
      /\ LocalsOf(run'[r])
      /\ \A q \in Runs : q # r => run'[q] = run[q]
      /\ run' = [q \in Runs |-> run'[q]]
  BY Forgotten DEF Stamp
<1>2. UNCHANGED <<listed, history>>
  BY DEF Stamp
<1>3. CASE UNCHANGED <<attempts, unreachable>>
  <2>1. Shape'
    BY <1>1, <1>2, <1>3 DEF Shape, history
  <2>2. QED
    BY <1>1, <1>2, <1>3, <2>1, QuietStep DEF OnlyHeld
<1>4. CASE /\ attempts' = [x \in Ids |-> IF x \in run[r].resolved THEN attempts[x] + 1 ELSE attempts[x]]
           /\ unreachable' = [x \in Ids |-> unreachable[x] \/ x \in run[r].gone]
  <2>1. Shape'
    BY <1>1, <1>2, <1>4 DEF Shape, history
  <2>2. ASSUME NEW x \in Ids
        PROVE  /\ attempts[x] \in Nat /\ attempts'[x] \in Nat /\ answered[x] \in Nat
               /\ answered'[x] = answered[x]
               /\ attempts'[x] = IF x \in run[r].resolved THEN attempts[x] + 1 ELSE attempts[x]
    BY <1>2, <1>4 DEF Shape, history
  <2>3. AnswersKept'
    <3>1. SUFFICES ASSUME NEW x \in Ids
                   PROVE  attempts'[x] + Cardinality(Answerers(x)') <= answered'[x]
      BY DEF AnswersKept
    <3>2. Answerers(x) \in SUBSET Runs /\ Answerers(x)' = Answerers(x) \ {r}
      BY <1>1 DEF Answerers
    <3>3. Cardinality(Answerers(x)) \in Nat /\ attempts[x] + Cardinality(Answerers(x)) <= answered[x]
      BY <3>2, CountedSlices DEF AnswersKept
    <3>4. CASE x \in run[r].resolved
      <4>1. r \in Answerers(x)
        BY <3>4 DEF Answerers
      <4>2. Cardinality(Answerers(x)') = Cardinality(Answerers(x)) - 1
        BY <3>2, <4>1, CountedSlices
      <4>3. QED
        BY <2>2, <3>3, <3>4, <4>2
    <3>5. CASE x \notin run[r].resolved
      <4>1. Answerers(x)' = Answerers(x)
        BY <3>2, <3>5 DEF Answerers
      <4>2. QED
        BY <2>2, <3>3, <3>5, <4>1
    <3>6. QED
      BY <3>4, <3>5
  <2>4. GoneReported'
    BY <1>1, <1>2, <1>4 DEF GoneReported, history
  <2>5. OnlyHeld'
    BY <1>1 DEF OnlyHeld
  <2>6. HeldBounded'
    <3>1. SUFFICES ASSUME NEW x \in Ids
                   PROVE  attempts'[x] + Cardinality(Holders(x)') <= MaxAttempts - 1 + Cardinality(Runs)
      BY DEF HeldBounded
    <3>2. Holders(x) \in SUBSET Runs /\ Holders(x)' = Holders(x) \ {r}
      BY <1>1 DEF Holders
    <3>3. /\ Cardinality(Holders(x)) \in Nat /\ Cardinality(Runs) \in Nat /\ MaxAttempts \in Nat
          /\ attempts[x] + Cardinality(Holders(x)) <= MaxAttempts - 1 + Cardinality(Runs)
      BY <3>2, CountedSlices, SeedingAssumption DEF HeldBounded
    <3>4. CASE r \in Holders(x)
      <4>1. Cardinality(Holders(x)') = Cardinality(Holders(x)) - 1
        BY <3>2, <3>4, CountedSlices
      <4>2. QED
        BY <2>2, <3>3, <4>1
    <3>5. CASE r \notin Holders(x)
      <4>1. Holders(x)' = Holders(x) /\ x \notin run[r].resolved
        BY <3>2, <3>5 DEF Holders, OnlyHeld
      <4>2. QED
        BY <2>2, <3>3, <4>1
    <3>6. QED
      BY <3>4, <3>5
  <2>7. QED
    BY <2>1, <2>3, <2>4, <2>5, <2>6
<1>5. QED
  BY <1>3, <1>4 DEF Stamp

-----------------------------------------------------------------------------
(* Every other step is quiet                                               *)

\* The steps of a slice that only move on in its list or in its batch.
LEMMA MovingOnKeeps ==
    ASSUME Bookkeeping, NEW r \in Runs, ReadRotation(r) \/ WriteBatch(r) \/ FailBatch(r) \/ WriteSingle(r)
    PROVE  Bookkeeping'
<1> USE DEF Bookkeeping
<1>1. UNCHANGED <<listed, attempts, unreachable, history>>
  BY DEF ReadRotation, WriteBatch, FailBatch, WriteSingle, targets
<1>2. /\ run' = [q \in Runs |-> run'[q]]
      /\ \A q \in Runs : /\ LocalsOf(run'[q])
                         /\ run'[q].pending = run[q].pending
                         /\ run'[q].resolved = run[q].resolved
                         /\ run'[q].gone = run[q].gone
  <2>1. CASE FailBatch(r)
    BY <2>1 DEF FailBatch, Shape
  <2>2. CASE ReadRotation(r)
    <3>1. PICK w : run' = [run EXCEPT ![r].work = w]
      BY <2>2 DEF ReadRotation
    <3>2. QED
      BY <3>1 DEF Shape, LocalsOf
  <2>3. CASE WriteBatch(r) \/ WriteSingle(r)
    <3>1. PICK b : run' = [run EXCEPT ![r].batch = b]
      BY <2>3 DEF WriteBatch, WriteSingle
    <3>2. QED
      BY <3>1 DEF Shape, LocalsOf
  <2>4. QED
    BY <2>1, <2>2, <2>3
<1>3. Shape'
  BY <1>1, <1>2 DEF Shape, history
<1>4. QED
  BY <1>1, <1>2, <1>3, QuietStep DEF OnlyHeld

LEMMA CrashKeeps ==
    ASSUME Bookkeeping, NEW r \in Runs, Crash(r)
    PROVE  Bookkeeping'
<1> USE DEF Bookkeeping
<1>1. UNCHANGED <<listed, attempts, unreachable, history>>
  BY DEF Crash, targets
<1>2. run' = [run EXCEPT ![r] = Blank]
  BY DEF Crash
<1>3. Shape'
  BY <1>1, <1>2, Forgotten DEF Shape, history
<1>4. \A q \in Runs : /\ run'[q].pending \subseteq run[q].pending
                     /\ run'[q].resolved \subseteq run[q].resolved
                     /\ run'[q].gone \subseteq run[q].gone
                     /\ run'[q].resolved \subseteq run'[q].pending
  BY <1>2, Forgotten DEF OnlyHeld
<1>5. QED
  BY <1>1, <1>3, <1>4, QuietStep

\* The source, the enumeration, the admins and the other writers.
LEMMA WorldKeeps ==
    ASSUME Bookkeeping,
           \/ \E x \in Ids : Enumerate(x) \/ SourceMoves(x) \/ WriteElsewhere(x)
           \/ \E i \in DOMAIN catalog : EditCatalogItem(i)
           \/ UNCHANGED vars
    PROVE  Bookkeeping'
<1> USE DEF Bookkeeping
<1>1. UNCHANGED <<attempts, unreachable, run, history>>
  BY DEF Enumerate, SourceMoves, WriteElsewhere, EditCatalogItem, targets, vars
<1>2. listed' \subseteq Ids
  BY DEF Shape, Enumerate, SourceMoves, WriteElsewhere, EditCatalogItem, targets, vars
<1>3. Shape'
  BY <1>1, <1>2 DEF Shape, history
<1>4. QED
  BY <1>1, <1>3, QuietStep DEF OnlyHeld

-----------------------------------------------------------------------------
LEMMA InitBookkeeping == Init => Bookkeeping
<1> SUFFICES ASSUME Init PROVE Bookkeeping
  OBVIOUS
<1>1. Shape
  <2>1. listed \subseteq Ids
    BY SeedingAssumption DEF Init
  <2>2. QED
    BY <2>1 DEF Init, Shape, Blank, LocalsOf
<1>2. \A r \in Runs : run[r].pending = {} /\ run[r].resolved = {} /\ run[r].gone = {}
  BY DEF Init, Blank
<1>3. \A x \in Ids : Answerers(x) = {} /\ Holders(x) = {}
  BY <1>2 DEF Answerers, Holders
<1>4. /\ Cardinality({}) = 0 /\ Cardinality(Runs) \in Nat
      /\ MaxAttempts \in Nat /\ MaxAttempts >= 1
  BY FS_EmptySet, CountedSlices, SeedingAssumption
<1>5. AnswersKept /\ HeldBounded
  <2>1. \A x \in Ids : /\ attempts[x] = 0 /\ answered[x] = 0
                       /\ Cardinality(Answerers(x)) = 0 /\ Cardinality(Holders(x)) = 0
    BY <1>3, <1>4 DEF Init
  <2>2. QED
    BY <1>4, <2>1 DEF AnswersKept, HeldBounded
<1>6. GoneReported /\ OnlyHeld
  BY <1>2 DEF Init, GoneReported, OnlyHeld
<1>7. QED
  BY <1>1, <1>5, <1>6 DEF Bookkeeping

LEMMA StepBookkeeping == Bookkeeping /\ [Next]_vars => Bookkeeping'
<1> SUFFICES ASSUME Bookkeeping, [Next]_vars PROVE Bookkeeping'
  OBVIOUS
<1>1. ASSUME NEW r \in Runs, ReadPending(r) PROVE Bookkeeping'
  BY <1>1, ReadPendingKeeps
<1>2. ASSUME NEW r \in Runs, FetchChunk(r) PROVE Bookkeeping'
  BY <1>2, FetchChunkKeeps
<1>3. ASSUME NEW r \in Runs, Stamp(r) PROVE Bookkeeping'
  BY <1>3, StampKeeps
<1>4. ASSUME NEW r \in Runs, ReadRotation(r) \/ WriteBatch(r) \/ FailBatch(r) \/ WriteSingle(r)
      PROVE  Bookkeeping'
  BY <1>4, MovingOnKeeps
<1>5. ASSUME NEW r \in Runs, Crash(r) PROVE Bookkeeping'
  BY <1>5, CrashKeeps
<1>6. CASE \/ \E x \in Ids : Enumerate(x) \/ SourceMoves(x) \/ WriteElsewhere(x)
           \/ \E i \in DOMAIN catalog : EditCatalogItem(i)
           \/ UNCHANGED vars
  BY <1>6, WorldKeeps
<1>7. QED
  BY <1>1, <1>2, <1>3, <1>4, <1>5, <1>6 DEF Next, Advance

(***************************************************************************)
(* An attempt at a target is one answer of the source, and an unreachable  *)
(* target is one the source answered 404 for, however many slices overlap, *)
(* fail or die between their transactions.                                 *)
(***************************************************************************)
THEOREM BudgetIsSpentOnAnswers == Spec => []BudgetSpentOnAnswers
<1>1. Bookkeeping => BudgetSpentOnAnswers
  <2> SUFFICES ASSUME Bookkeeping, NEW x \in Ids
               PROVE  attempts[x] <= answered[x] /\ (unreachable[x] => x \in reportedGone)
    BY DEF BudgetSpentOnAnswers
  <2>1. Answerers(x) \in SUBSET Runs
    BY DEF Answerers
  <2>2. Cardinality(Answerers(x)) \in Nat
    BY <2>1, CountedSlices
  <2>3. /\ attempts[x] \in Nat /\ answered[x] \in Nat
        /\ attempts[x] + Cardinality(Answerers(x)) <= answered[x]
    BY DEF Bookkeeping, Shape, AnswersKept
  <2>4. QED
    BY <2>2, <2>3 DEF Bookkeeping, GoneReported
<1>2. QED
  BY <1>1, InitBookkeeping, StepBookkeeping, PTL DEF Spec

(***************************************************************************)
(* The attempts at a target never exceed TMDB_SEED_MAX_ATTEMPTS by more    *)
(* than the slices that held it besides the one that spent the last.       *)
(***************************************************************************)
THEOREM AttemptsAreBounded == Spec => []AttemptsBounded
<1>1. Bookkeeping => AttemptsBounded
  <2> SUFFICES ASSUME Bookkeeping, NEW x \in Ids
               PROVE  attempts[x] <= MaxAttempts - 1 + Cardinality(Runs)
    BY DEF AttemptsBounded
  <2>1. Holders(x) \in SUBSET Runs
    BY DEF Holders
  <2>2. /\ Cardinality(Holders(x)) \in Nat /\ Cardinality(Runs) \in Nat
        /\ MaxAttempts \in Nat
    BY <2>1, CountedSlices, SeedingAssumption
  <2>3. /\ attempts[x] \in Nat
        /\ attempts[x] + Cardinality(Holders(x)) <= MaxAttempts - 1 + Cardinality(Runs)
    BY DEF Bookkeeping, Shape, HeldBounded
  <2>4. QED
    BY <2>2, <2>3
<1>2. QED
  BY <1>1, InitBookkeeping, StepBookkeeping, PTL DEF Spec
-----------------------------------------------------------------------------
(* Sets of positions in order                                              *)

LEMMA Interval ==
    ASSUME NEW n \in Nat
    PROVE  /\ IsFiniteSet(1 .. n) /\ Cardinality(1 .. n) = n
           /\ IsFiniteSet(0 .. (n - 1)) /\ Cardinality(0 .. (n - 1)) = n
<1>1. /\ IsFiniteSet(1 .. n) /\ Cardinality(1 .. n) = IF 1 > n THEN 0 ELSE n - 1 + 1
  BY FS_Interval
<1>2. n - 1 \in Int /\ 0 \in Int
  OBVIOUS
<1>3. /\ IsFiniteSet(0 .. (n - 1))
      /\ Cardinality(0 .. (n - 1)) = IF 0 > n - 1 THEN 0 ELSE (n - 1) - 0 + 1
  BY <1>2, FS_Interval
<1>4. QED
  BY <1>1, <1>3

LEMMA InOrderIs ==
    ASSUME NEW S \in SUBSET Nat, IsFiniteSet(S)
    PROVE  /\ Cardinality(S) \in Nat
           /\ InOrder(S) \in [1 .. Cardinality(S) -> S]
           /\ \A i, j \in 1 .. Cardinality(S) : InOrder(S)[i] = InOrder(S)[j] => i = j
           /\ \A k \in S : \E j \in 1 .. Cardinality(S) : InOrder(S)[j] = k
           /\ S # {} => \E k \in S : \A m \in S : m <= k
<1> DEFINE size == Cardinality(S)
           below(x) == {m \in S : m < x}
           place == [x \in S |-> Cardinality(below(x))]
<1>1. size \in Nat
  BY FS_CardinalityType
<1>2. ASSUME NEW x \in S
      PROVE  /\ IsFiniteSet(below(x)) /\ Cardinality(below(x)) \in Nat
             /\ Cardinality(below(x)) \in 0 .. (size - 1)
  <2>1. below(x) \in SUBSET S /\ x \notin below(x)
    OBVIOUS
  <2>2. IsFiniteSet(below(x)) /\ Cardinality(below(x)) <= size /\ Cardinality(below(x)) # size
    BY <2>1, FS_Subset
  <2>3. Cardinality(below(x)) \in Nat
    BY <2>2, FS_CardinalityType
  <2> HIDE DEF below, size
  <2>4. QED
    BY <1>1, <2>2, <2>3
<1>3. ASSUME NEW x \in S, NEW z \in S, x < z
      PROVE  Cardinality(below(x)) < Cardinality(below(z))
  <2>1. below(x) \in SUBSET below(z) /\ x \in below(z) /\ x \notin below(x)
    <3>1. x \in Nat /\ z \in Nat /\ \A m \in S : m \in Nat
      OBVIOUS
    <3>2. \A m \in S : m < x => m < z
      BY <1>3, <3>1
    <3>3. x < z /\ ~(x < x)
      BY <1>3, <3>1
    <3>4. QED
      BY <3>2, <3>3
  <2>2. Cardinality(below(x)) <= Cardinality(below(z)) /\ Cardinality(below(x)) # Cardinality(below(z))
    BY <1>2, <2>1, FS_Subset
  <2>3. Cardinality(below(x)) \in Nat /\ Cardinality(below(z)) \in Nat
    BY <1>2
  <2> HIDE DEF below
  <2>4. QED
    BY <2>2, <2>3
<1>4. ASSUME NEW x \in S, NEW z \in S, Cardinality(below(x)) = Cardinality(below(z))
      PROVE  x = z
  <2>1. SUFFICES ASSUME x # z PROVE FALSE
    OBVIOUS
  <2>2. x < z \/ z < x
    BY <2>1
  <2>3. Cardinality(below(x)) \in Nat
    BY <1>2
  <2> HIDE DEF below
  <2>4. QED
    BY <1>3, <1>4, <2>2, <2>3
<1>5. place \in Injection(S, 0 .. (size - 1))
  <2>1. place \in [S -> 0 .. (size - 1)]
    BY <1>2
  <2>2. \A x, z \in S : place[x] = place[z] => x = z
    BY <1>4
  <2>3. QED
    BY <2>1, <2>2 DEF Injection, IsInjective
<1>6. place \in Surjection(S, 0 .. (size - 1))
  <2>1. IsFiniteSet(0 .. (size - 1)) /\ Cardinality(0 .. (size - 1)) = size
    BY <1>1, Interval
  <2>2. QED
    BY <1>5, <2>1, FS_Injection
<1>7. ASSUME NEW j \in 1 .. size
      PROVE  InOrder(S)[j] \in S /\ Cardinality(below(InOrder(S)[j])) = j - 1
  <2>1. j - 1 \in 0 .. (size - 1)
    BY <1>1
  <2>2. \E x \in S : Cardinality(below(x)) = j - 1
    BY <1>6, <2>1 DEF Surjection
  <2>3. InOrder(S)[j] = CHOOSE x \in S : Cardinality(below(x)) = j - 1
    BY DEF InOrder
  <2>4. QED
    BY <2>2, <2>3
<1>8. InOrder(S) \in [1 .. size -> S]
  <2> DEFINE f == [j \in 1 .. size |-> CHOOSE k \in S : Cardinality(below(k)) = j - 1]
  <2>1. InOrder(S) = f
    BY DEF InOrder
  <2>2. \A j \in 1 .. size : f[j] \in S
    BY <1>7, <2>1
  <2>3. f \in [1 .. size -> S]
    BY <2>2
  <2>4. QED
    BY <2>1, <2>3
<1>9. ASSUME NEW i \in 1 .. size, NEW j \in 1 .. size, InOrder(S)[i] = InOrder(S)[j]
      PROVE  i = j
  <2>1. i - 1 = j - 1
    BY <1>7, <1>9
  <2>2. QED
    BY <1>1, <2>1
<1>10. ASSUME NEW k \in S
       PROVE  \E j \in 1 .. size : InOrder(S)[j] = k
  <2> DEFINE j == Cardinality(below(k)) + 1
  <2>1. j \in 1 .. size /\ j - 1 = Cardinality(below(k))
    BY <1>1, <1>2
  <2>2. InOrder(S)[j] \in S /\ Cardinality(below(InOrder(S)[j])) = Cardinality(below(k))
    BY <1>7, <2>1
  <2>3. InOrder(S)[j] = k
    BY <1>4, <2>2
  <2>4. QED
    BY <2>1, <2>3
<1>11. ASSUME S # {}
       PROVE  \E k \in S : \A m \in S : m <= k
  <2>1. size # 0
    BY <1>11, FS_EmptySet
  <2>2. size \in 1 .. size
    BY <1>1, <2>1
  <2>3. PICK k \in S : Cardinality(below(k)) = size - 1
    BY <1>7, <2>2
  <2>4. ASSUME NEW m \in S, ~(m <= k) PROVE FALSE
    <3>1. Cardinality(below(k)) < Cardinality(below(m))
      BY <1>3, <2>4
    <3>2. Cardinality(below(m)) \in 0 .. (size - 1)
      BY <1>2
    <3> HIDE DEF below, size
    <3>3. QED
      BY <1>1, <2>3, <3>1, <3>2
  <2>5. QED
    BY <2>4
<1>12. QED
  BY <1>1, <1>8, <1>9, <1>10, <1>11

LEMMA PickedIs ==
    ASSUME NEW T, NEW s \in Seq(T), NEW S \in SUBSET DOMAIN s
    PROVE  /\ IsFiniteSet(S) /\ Cardinality(S) \in Nat
           /\ Len(Picked(s, S)) = Cardinality(S)
           /\ DOMAIN Picked(s, S) = 1 .. Cardinality(S)
           /\ \A j \in 1 .. Cardinality(S) :
                  InOrder(S)[j] \in S /\ Picked(s, S)[j] = s[InOrder(S)[j]]
           /\ \A i, j \in 1 .. Cardinality(S) : InOrder(S)[i] = InOrder(S)[j] => i = j
           /\ \A k \in S : \E j \in 1 .. Cardinality(S) : InOrder(S)[j] = k
           /\ Picked(s, S) \in Seq(T)
<1>1. Len(s) \in Nat /\ DOMAIN s = 1 .. Len(s) /\ \A k \in DOMAIN s : s[k] \in T
  BY LenProperties, ElementOfSeq
<1>2. IsFiniteSet(1 .. Len(s))
  BY <1>1, FS_Interval
<1>3. IsFiniteSet(S)
  BY <1>1, <1>2, FS_Subset
<1>4. S \in SUBSET Nat
  BY <1>1
<1>5. /\ Cardinality(S) \in Nat
      /\ InOrder(S) \in [1 .. Cardinality(S) -> S]
      /\ \A i, j \in 1 .. Cardinality(S) : InOrder(S)[i] = InOrder(S)[j] => i = j
      /\ \A k \in S : \E j \in 1 .. Cardinality(S) : InOrder(S)[j] = k
  BY <1>3, <1>4, InOrderIs
<1>6. Picked(s, S) \in [1 .. Cardinality(S) -> {s[k] : k \in S}]
  <2>1. \A j \in 1 .. Cardinality(S) : InOrder(S)[j] \in S
    BY <1>5
  <2>2. QED
    BY <2>1 DEF Picked
<1>7. Picked(s, S) \in Seq({s[k] : k \in S})
  BY <1>5, <1>6, SeqDef
<1>8. {s[k] : k \in S} \subseteq T
  BY <1>1
<1>9. Picked(s, S) \in Seq(T)
  BY <1>7, <1>8, SeqMonotonic
<1>10. DOMAIN Picked(s, S) = 1 .. Cardinality(S) /\ Len(Picked(s, S)) = Cardinality(S)
  <2>1. DOMAIN Picked(s, S) = 1 .. Cardinality(S)
    BY DEF Picked
  <2>2. DOMAIN Picked(s, S) = 1 .. Len(Picked(s, S)) /\ Len(Picked(s, S)) \in Nat
    BY <1>9, LenProperties
  <2>3. QED
    BY <1>5, <2>1, <2>2
<1>11. QED
  BY <1>3, <1>5, <1>7, <1>9, <1>10 DEF Picked

-----------------------------------------------------------------------------
(* One write transaction                                                   *)

\* KeysUnique of a catalog.
Keyed(c) ==
    \A i, j \in DOMAIN c :
        i # j => /\ c[i].slug # c[j].slug
                 /\ c[i].link = c[j].link => c[i].link = NoId

\* A batch holds one answer of the source for an id, however often it asked.
Single(batch) == \A j, k \in DOMAIN batch : batch[j].id = batch[k].id => batch[j] = batch[k]

\* One row per slug and per id.
Apart(kept) ==
    /\ \A j, k \in DOMAIN kept : kept[j].slug = kept[k].slug => j = k
    /\ \A j, k \in DOMAIN kept : kept[j].id = kept[k].id => j = k

LEMMA LinkedIs ==
    ASSUME NEW c \in Seq(Rows), NEW x
    PROVE  /\ Linked(c, x) = 0 => \A i \in DOMAIN c : c[i].link # x
           /\ Linked(c, x) # 0 => Linked(c, x) \in DOMAIN c /\ c[Linked(c, x)].link = x
<1>1. DOMAIN c = 1 .. Len(c) /\ Len(c) \in Nat
  BY LenProperties
<1>2. QED
  BY <1>1 DEF Linked

LEMMA NamedIs ==
    ASSUME NEW c \in Seq(Rows), NEW s
    PROVE  /\ Named(c, s) = 0 => \A i \in DOMAIN c : c[i].slug # s
           /\ Named(c, s) # 0 => Named(c, s) \in DOMAIN c /\ c[Named(c, s)].slug = s
<1>1. DOMAIN c = 1 .. Len(c) /\ Len(c) \in Nat
  BY LenProperties
<1>2. QED
  BY <1>1 DEF Named

\* The rename: a slug that nobody has and no other id of the batch wants.
LEMMA RenamedIs ==
    ASSUME NEW c \in Seq(Rows), Keyed(c), NEW b \in Seq(Payloads), Single(b)
    PROVE  /\ Renamed(c, b) \in Seq(Rows) /\ DOMAIN Renamed(c, b) = DOMAIN c
           /\ Len(Renamed(c, b)) = Len(c) /\ Keyed(Renamed(c, b))
<1> DEFINE d == Renamed(c, b)
           taken(i) == \E p \in ToSet(b) : Linked(c, p.id) = i /\ Renames(c, b, p)
<1>1. DOMAIN c = 1 .. Len(c) /\ Len(c) \in Nat /\ \A i \in DOMAIN c : c[i] \in Rows
  BY LenProperties, ElementOfSeq
<1>2. ToSet(b) \subseteq Payloads /\ \A p, q \in ToSet(b) : p.id = q.id => p = q
  BY LenProperties, ElementOfSeq DEF ToSet, Single
<1>3. DOMAIN d = DOMAIN c
  BY DEF Renamed
<1>4. ASSUME NEW i \in DOMAIN c, taken(i)
      PROVE  \E p \in ToSet(b) : /\ d[i] = [c[i] EXCEPT !.slug = p.slug]
                                 /\ c[i].link = p.id
                                 /\ Named(c, p.slug) = 0 /\ ~Contested(b, p.slug)
  <2>1. PICK p \in ToSet(b) : Linked(c, p.id) = i /\ Renames(c, b, p)
    BY <1>4
  <2>2. i # 0
    BY <1>1
  <2>3. c[i].link = p.id
    BY <2>1, <2>2, LinkedIs
  <2>4. (CHOOSE q \in ToSet(b) : q.id = c[i].link) = p
    BY <1>2, <2>3
  <2>5. d[i] = [c[i] EXCEPT !.slug = p.slug]
    BY <1>4, <2>4 DEF Renamed
  <2>6. QED
    BY <2>1, <2>3, <2>5 DEF Renames
<1>5. ASSUME NEW i \in DOMAIN c, ~taken(i)
      PROVE  d[i] = c[i]
  BY <1>5 DEF Renamed
<1>6. ASSUME NEW i \in DOMAIN c
      PROVE  d[i] \in Rows /\ d[i].link = c[i].link
  <2>1. CASE taken(i)
    <3>1. PICK p \in ToSet(b) : d[i] = [c[i] EXCEPT !.slug = p.slug]
      BY <1>4, <2>1
    <3>2. p.slug \in Slugs /\ c[i] \in Rows
      BY <1>1, <1>2 DEF Payloads
    <3> HIDE DEF d
    <3>3. QED
      BY <3>1, <3>2 DEF Rows
  <2>2. CASE ~taken(i)
    BY <1>1, <1>5, <2>2
  <2>3. QED
    BY <2>1, <2>2
<1>7. ASSUME NEW i \in DOMAIN c
      PROVE  \/ d[i].slug = c[i].slug
             \/ \E p \in ToSet(b) : /\ d[i].slug = p.slug /\ c[i].link = p.id
                                    /\ Named(c, p.slug) = 0 /\ ~Contested(b, p.slug)
  <2>1. CASE taken(i)
    <3>1. PICK p \in ToSet(b) : /\ d[i] = [c[i] EXCEPT !.slug = p.slug]
                                /\ c[i].link = p.id
                                /\ Named(c, p.slug) = 0 /\ ~Contested(b, p.slug)
      BY <1>4, <2>1
    <3>2. c[i] \in Rows
      BY <1>1
    <3> HIDE DEF d
    <3>3. d[i].slug = p.slug
      BY <3>1, <3>2 DEF Rows
    <3>4. QED
      BY <3>1, <3>3
  <2>2. CASE ~taken(i)
    BY <1>5, <2>2
  <2>3. QED
    BY <2>1, <2>2
<1>8. d \in Seq(Rows) /\ Len(d) = Len(c)
  <2>1. d \in [1 .. Len(c) -> Rows]
    BY <1>1, <1>3, <1>6 DEF Renamed
  <2>2. d \in Seq(Rows)
    BY <1>1, <2>1, SeqDef
  <2>3. QED
    BY <1>1, <1>3, <2>2, LenProperties
<1> HIDE DEF d
<1>9. ASSUME NEW i \in DOMAIN c, NEW j \in DOMAIN c, i # j
      PROVE  d[i].slug # d[j].slug
  <2>1. c[i].slug # c[j].slug
    BY <1>9 DEF Keyed
  <2>2. \A p \in ToSet(b) : Named(c, p.slug) = 0 => c[i].slug # p.slug /\ c[j].slug # p.slug
    BY NamedIs
  <2>3. \A p, q \in ToSet(b) : p.id = c[i].link /\ q.id = c[j].link => p.id # q.id
    BY <1>2, <1>9, SeedingAssumption DEF Keyed, Payloads
  <2>4. \A p, q \in ToSet(b) : p.id # q.id /\ ~Contested(b, p.slug) => p.slug # q.slug
    BY DEF Contested
  <2>5. QED
    BY <1>7, <2>1, <2>2, <2>3, <2>4
<1>10. Keyed(d)
  BY <1>3, <1>6, <1>9 DEF Keyed
<1>11. QED
  BY <1>3, <1>8, <1>10 DEF d

LEMMA AlignedIs ==
    ASSUME NEW c \in Seq(Rows), NEW b, NEW p \in Payloads
    PROVE  Aligned(c, b, p) \in Payloads /\ Aligned(c, b, p).id = p.id
<1> DEFINE i == Linked(c, p.id)
<1>1. CASE i # 0 /\ ~Renames(c, b, p)
  <2>1. c[i] \in Rows
    BY <1>1, LinkedIs, LenProperties, ElementOfSeq
  <2>2. c[i].slug \in Slugs
    BY <2>1 DEF Rows
  <2>3. Aligned(c, b, p) = [p EXCEPT !.slug = c[i].slug]
    BY <1>1 DEF Aligned
  <2> HIDE DEF i
  <2>4. QED
    BY <2>2, <2>3 DEF Payloads
<1>2. CASE ~(i # 0 /\ ~Renames(c, b, p))
  BY <1>2 DEF Aligned
<1>3. QED
  BY <1>1, <1>2

LEMMA KeptIs ==
    ASSUME NEW c \in Seq(Rows), NEW b \in Seq(Payloads), Single(b)
    PROVE  Kept(c, b) \in Seq(Payloads) /\ Apart(Kept(c, b))
<1> DEFINE aligned == [k \in DOMAIN b |-> Aligned(c, b, b[k])]
           valid == {k \in DOMAIN b : b[k].valid}
           Sharing(k) == {m \in valid : aligned[m].slug = aligned[k].slug}
           places == {k \in valid : \A m \in Sharing(k) : k <= m}
           size == Cardinality(places)
           kept == [j \in 1 .. size |-> aligned[Max(Sharing(InOrder(places)[j]))]]
<1>1. DOMAIN b = 1 .. Len(b) /\ Len(b) \in Nat /\ \A k \in DOMAIN b : b[k] \in Payloads
  BY LenProperties, ElementOfSeq
<1>2. ASSUME NEW k \in DOMAIN b PROVE aligned[k] \in Payloads /\ aligned[k].id = b[k].id
  BY <1>1, AlignedIs
<1>3. ASSUME NEW j \in DOMAIN b, NEW k \in DOMAIN b, aligned[j].id = aligned[k].id
      PROVE  aligned[j] = aligned[k]
  <2>1. b[j] = b[k]
    BY <1>2, <1>3 DEF Single
  <2>2. QED
    BY <2>1
<1>4. \A S \in SUBSET DOMAIN b : IsFiniteSet(S) /\ S \in SUBSET Nat
  <2>1. IsFiniteSet(DOMAIN b)
    BY <1>1, FS_Interval
  <2>2. QED
    BY <1>1, <2>1, FS_Subset
<1>5. valid \in SUBSET DOMAIN b /\ places \in SUBSET valid
  OBVIOUS
<1> HIDE DEF aligned
<1>6. ASSUME NEW k \in valid
      PROVE  Max(Sharing(k)) \in valid /\ aligned[Max(Sharing(k))].slug = aligned[k].slug
  <2>1. Sharing(k) \in SUBSET valid /\ k \in Sharing(k)
    OBVIOUS
  <2> DEFINE T == Sharing(k)
  <2>2. T \in SUBSET Nat /\ IsFiniteSet(T) /\ T # {}
    BY <1>4, <1>5, <2>1
  <2> HIDE DEF T
  <2>3. \E m \in T : \A n \in T : m >= n
    <3>1. PICK m \in T : \A n \in T : n <= m
      BY <2>2, InOrderIs
    <3>2. \A n \in T : m >= n
      BY <2>2, <3>1
    <3>3. QED
      BY <3>2
  <2>4. Max(Sharing(k)) \in Sharing(k)
    BY <2>3 DEF Max, T
  <2>5. QED
    BY <2>4
<1>7. ASSUME NEW j \in places, NEW k \in places, aligned[j].slug = aligned[k].slug
      PROVE  j = k
  <2>1. j \in Sharing(k) /\ k \in Sharing(j) /\ j \in Nat /\ k \in Nat
    BY <1>4, <1>5, <1>7
  <2>2. j <= k /\ k <= j
    BY <2>1
  <2>3. QED
    BY <2>1, <2>2
<1>8. /\ size \in Nat /\ InOrder(places) \in [1 .. size -> places]
      /\ \A i, j \in 1 .. size : InOrder(places)[i] = InOrder(places)[j] => i = j
  BY <1>4, <1>5, InOrderIs
<1>9. Kept(c, b) = kept
  BY DEF Kept, aligned
<1> HIDE DEF places, valid, Sharing, size
<1>10. ASSUME NEW j \in 1 .. size
       PROVE  /\ InOrder(places)[j] \in places
              /\ kept[j] = aligned[Max(Sharing(InOrder(places)[j]))]
              /\ Max(Sharing(InOrder(places)[j])) \in DOMAIN b
              /\ kept[j].slug = aligned[InOrder(places)[j]].slug
              /\ kept[j] \in Payloads
  <2>1. InOrder(places)[j] \in places /\ InOrder(places)[j] \in valid
    BY <1>5, <1>8
  <2>2. Max(Sharing(InOrder(places)[j])) \in DOMAIN b
    BY <1>5, <1>6, <2>1
  <2>3. QED
    BY <1>2, <1>6, <2>1, <2>2
<1>11. kept \in Seq(Payloads)
  <2>1. kept \in [1 .. size -> Payloads]
    BY <1>10
  <2>2. QED
    BY <1>8, <2>1, SeqDef
<1>12. ASSUME NEW j \in 1 .. size, NEW k \in 1 .. size, kept[j].slug = kept[k].slug
       PROVE  j = k
  <2>1. InOrder(places)[j] = InOrder(places)[k]
    BY <1>7, <1>10, <1>12
  <2>2. QED
    BY <1>8, <2>1
<1>13. ASSUME NEW j \in 1 .. size, NEW k \in 1 .. size, kept[j].id = kept[k].id
       PROVE  j = k
  <2>1. kept[j] = kept[k]
    BY <1>3, <1>10, <1>13
  <2>2. QED
    BY <1>12, <2>1
<1>14. DOMAIN kept = 1 .. size
  OBVIOUS
<1> HIDE DEF kept
<1>15. Apart(kept)
  BY <1>12, <1>13, <1>14 DEF Apart
<1>16. QED
  BY <1>9, <1>11, <1>15

\* The upsert: new rows for slugs that nobody has.
LEMMA UpsertedIs ==
    ASSUME NEW c \in Seq(Rows), Keyed(c), NEW b \in Seq(Payloads), Apart(b)
    PROVE  /\ Upserted(c, b) \in Seq(Rows) /\ Keyed(Upserted(c, b))
           /\ DOMAIN c \subseteq DOMAIN Upserted(c, b)
           /\ \A j \in DOMAIN b : \E i \in DOMAIN Upserted(c, b) : Upserted(c, b)[i].slug = b[j].slug
           /\ \A i \in DOMAIN Upserted(c, b) \ DOMAIN c :
                  \E j \in DOMAIN b : Upserted(c, b)[i].slug = b[j].slug
<1> DEFINE S == {k \in DOMAIN b : Named(c, b[k].slug) = 0}
           new == Picked(b, S)
           rows == [k \in DOMAIN new |-> [slug |-> new[k].slug, link |-> NoId, locked |-> FALSE]]
           n == Cardinality(S)
           d == c \o rows
<1>1. /\ Len(c) \in Nat /\ DOMAIN c = 1 .. Len(c) /\ \A i \in DOMAIN c : c[i] \in Rows
      /\ DOMAIN b = 1 .. Len(b) /\ \A i \in DOMAIN b : b[i] \in Payloads
  BY LenProperties, ElementOfSeq
<1>2. S \in SUBSET DOMAIN b
  OBVIOUS
<1> HIDE DEF S
<1>3. /\ n \in Nat /\ DOMAIN new = 1 .. n
      /\ \A j \in 1 .. n : InOrder(S)[j] \in S /\ new[j] = b[InOrder(S)[j]]
      /\ \A i, j \in 1 .. n : InOrder(S)[i] = InOrder(S)[j] => i = j
      /\ \A k \in S : \E j \in 1 .. n : InOrder(S)[j] = k
  <2> HIDE DEF rows, d
  <2>1. n \in Nat
    BY <1>2, PickedIs
  <2>2. DOMAIN new = 1 .. n
    BY <1>2, PickedIs
  <2>3. \A j \in 1 .. n : InOrder(S)[j] \in S /\ new[j] = b[InOrder(S)[j]]
    BY <1>2, PickedIs
  <2>4. \A i, j \in 1 .. n : InOrder(S)[i] = InOrder(S)[j] => i = j
    BY <1>2, PickedIs
  <2>5. \A k \in S : \E j \in 1 .. n : InOrder(S)[j] = k
    BY <1>2, PickedIs
  <2>6. QED
    BY <2>1, <2>2, <2>3, <2>4, <2>5
<1> HIDE DEF new, n
<1>4. rows \in [1 .. n -> Rows]
  <2>1. \A j \in 1 .. n : new[j] \in Payloads
    BY <1>1, <1>2, <1>3
  <2>2. \A j \in 1 .. n : [slug |-> new[j].slug, link |-> NoId, locked |-> FALSE] \in Rows
    BY <2>1 DEF Payloads, Rows
  <2>3. QED
    BY <1>3, <2>2
<1>5. rows \in Seq(Rows) /\ Len(rows) = n
  <2>1. rows \in Seq(Rows)
    BY <1>3, <1>4, SeqDef
  <2>2. QED
    BY <1>3, <1>4, <2>1, LenProperties
<1>6. \A j \in 1 .. n : rows[j].slug = b[InOrder(S)[j]].slug /\ rows[j].link = NoId
  BY <1>3
<1> HIDE DEF rows
<1>7. /\ d \in Seq(Rows) /\ Len(d) = Len(c) + n
      /\ \A i \in 1 .. (Len(c) + n) : d[i] = IF i <= Len(c) THEN c[i] ELSE rows[i - Len(c)]
  BY <1>5, ConcatProperties
<1> HIDE DEF d
<1>8. /\ DOMAIN d = 1 .. (Len(c) + n)
      /\ \A i \in DOMAIN c : i \in DOMAIN d /\ d[i] = c[i]
      /\ \A i \in DOMAIN d \ DOMAIN c : i - Len(c) \in 1 .. n /\ d[i] = rows[i - Len(c)]
      /\ \A j \in 1 .. n : Len(c) + j \in DOMAIN d /\ d[Len(c) + j] = rows[j]
  <2>1. DOMAIN d = 1 .. (Len(c) + n)
    BY <1>7, LenProperties
  <2>2. \A i \in DOMAIN c : i \in DOMAIN d /\ d[i] = c[i]
    BY <1>1, <1>3, <1>7, <2>1
  <2>3. ASSUME NEW i \in DOMAIN d \ DOMAIN c
        PROVE  i - Len(c) \in 1 .. n /\ d[i] = rows[i - Len(c)]
    <3>1. i \in 1 .. (Len(c) + n) /\ ~(i <= Len(c))
      BY <1>1, <1>3, <2>1
    <3>2. QED
      BY <1>1, <1>3, <1>7, <3>1
  <2>4. ASSUME NEW j \in 1 .. n
        PROVE  Len(c) + j \in DOMAIN d /\ d[Len(c) + j] = rows[j]
    <3>1. Len(c) + j \in 1 .. (Len(c) + n) /\ ~(Len(c) + j <= Len(c)) /\ (Len(c) + j) - Len(c) = j
      BY <1>1, <1>3
    <3>2. QED
      BY <1>7, <2>1, <3>1
  <2>5. QED
    BY <2>1, <2>2, <2>3, <2>4
<1>9. ASSUME NEW i \in DOMAIN d \ DOMAIN c, NEW k \in DOMAIN c
      PROVE  d[i].slug # d[k].slug
  <2>1. d[i].slug = b[InOrder(S)[i - Len(c)]].slug /\ InOrder(S)[i - Len(c)] \in S
    BY <1>3, <1>6, <1>8
  <2>2. Named(c, d[i].slug) = 0
    BY <2>1 DEF S
  <2>3. QED
    BY <1>8, <2>2, NamedIs
<1>10. ASSUME NEW i \in DOMAIN d \ DOMAIN c, NEW k \in DOMAIN d \ DOMAIN c, d[i].slug = d[k].slug
       PROVE  i = k
  <2>1. /\ i - Len(c) \in 1 .. n /\ k - Len(c) \in 1 .. n
        /\ b[InOrder(S)[i - Len(c)]].slug = b[InOrder(S)[k - Len(c)]].slug
    BY <1>6, <1>8, <1>10
  <2>2. InOrder(S)[i - Len(c)] = InOrder(S)[k - Len(c)]
    BY <1>2, <1>3, <2>1 DEF Apart
  <2>3. i - Len(c) = k - Len(c)
    BY <1>3, <2>1, <2>2
  <2>4. i \in Nat /\ k \in Nat
    BY <1>1, <1>3, <1>8
  <2>5. QED
    BY <1>1, <2>3, <2>4
<1>11. ASSUME NEW i \in DOMAIN d, NEW k \in DOMAIN d, i # k
       PROVE  d[i].slug # d[k].slug
  <2>1. CASE i \in DOMAIN c /\ k \in DOMAIN c
    BY <1>8, <1>11, <2>1 DEF Keyed
  <2>2. CASE i \in DOMAIN c /\ k \notin DOMAIN c
    BY <1>9, <2>2
  <2>3. CASE i \notin DOMAIN c /\ k \in DOMAIN c
    BY <1>9, <2>3
  <2>4. CASE i \notin DOMAIN c /\ k \notin DOMAIN c
    BY <1>10, <1>11, <2>4
  <2>5. QED
    BY <2>1, <2>2, <2>3, <2>4
<1>12. ASSUME NEW i \in DOMAIN d, NEW k \in DOMAIN d, i # k, d[i].link = d[k].link
       PROVE  d[i].link = NoId
  <2>1. CASE i \in DOMAIN c /\ k \in DOMAIN c
    BY <1>8, <1>12, <2>1 DEF Keyed
  <2>2. CASE i \notin DOMAIN c \/ k \notin DOMAIN c
    BY <1>6, <1>8, <1>12, <2>2
  <2>3. QED
    BY <2>1, <2>2
<1>13. Keyed(d)
  BY <1>11, <1>12 DEF Keyed
<1>14. ASSUME NEW j \in DOMAIN b
       PROVE  \E i \in DOMAIN d : d[i].slug = b[j].slug
  <2>1. CASE Named(c, b[j].slug) = 0
    <3>1. j \in S
      BY <2>1 DEF S
    <3>2. PICK k \in 1 .. n : InOrder(S)[k] = j
      BY <1>3, <3>1
    <3>3. QED
      BY <1>6, <1>8, <3>2
  <2>2. CASE Named(c, b[j].slug) # 0
    BY <1>8, <2>2, NamedIs
  <2>3. QED
    BY <2>1, <2>2
<1>15. ASSUME NEW i \in DOMAIN d \ DOMAIN c
       PROVE  \E j \in DOMAIN b : d[i].slug = b[j].slug
  <2>1. i - Len(c) \in 1 .. n /\ d[i] = rows[i - Len(c)]
    BY <1>8
  <2>2. InOrder(S)[i - Len(c)] \in DOMAIN b
    BY <1>2, <1>3, <2>1
  <2>3. QED
    BY <1>6, <2>1, <2>2
<1>16. Upserted(c, b) = d
  BY DEF Upserted, d, rows, new, S
<1>17. QED
  BY <1>7, <1>8, <1>13, <1>14, <1>15, <1>16

\* The links: an id that is held already stays where it is.
LEMMA RelinkedIs ==
    ASSUME NEW c \in Seq(Rows), Keyed(c), NEW b \in Seq(Payloads), Apart(b)
    PROVE  /\ Relinked(c, b) \in Seq(Rows) /\ Keyed(Relinked(c, b))
           /\ DOMAIN Relinked(c, b) = DOMAIN c
           /\ \A i \in DOMAIN c : Relinked(c, b)[i].slug = c[i].slug
<1> DEFINE d == Relinked(c, b)
           claims(i) == \E p \in ToSet(b) : p.slug = c[i].slug /\ Linked(c, p.id) = 0
<1>1. Len(c) \in Nat /\ DOMAIN c = 1 .. Len(c) /\ \A i \in DOMAIN c : c[i] \in Rows
  BY LenProperties, ElementOfSeq
<1>2. /\ ToSet(b) \subseteq Payloads
      /\ \A p, q \in ToSet(b) : p.slug = q.slug => p = q
      /\ \A p, q \in ToSet(b) : p.id = q.id => p = q
  BY LenProperties, ElementOfSeq DEF ToSet, Apart
<1>3. DOMAIN d = DOMAIN c
  BY DEF Relinked
<1>4. ASSUME NEW i \in DOMAIN c, claims(i)
      PROVE  \E p \in ToSet(b) : /\ d[i] = [c[i] EXCEPT !.link = p.id]
                                 /\ p.slug = c[i].slug /\ Linked(c, p.id) = 0
  <2>1. PICK p \in ToSet(b) : p.slug = c[i].slug /\ Linked(c, p.id) = 0
    BY <1>4
  <2>2. (CHOOSE q \in ToSet(b) : q.slug = c[i].slug) = p
    BY <1>2, <2>1
  <2>3. d[i] = [c[i] EXCEPT !.link = p.id]
    BY <1>4, <2>2 DEF Relinked
  <2>4. QED
    BY <2>1, <2>3
<1>5. ASSUME NEW i \in DOMAIN c, ~claims(i)
      PROVE  d[i] = c[i]
  BY <1>5 DEF Relinked
<1> HIDE DEF d
<1>6. ASSUME NEW i \in DOMAIN c
      PROVE  /\ d[i] \in Rows /\ d[i].slug = c[i].slug
             /\ \/ d[i].link = c[i].link
                \/ \E p \in ToSet(b) : /\ d[i].link = p.id /\ p.slug = c[i].slug
                                       /\ Linked(c, p.id) = 0
  <2>1. CASE claims(i)
    <3>1. PICK p \in ToSet(b) : /\ d[i] = [c[i] EXCEPT !.link = p.id]
                                /\ p.slug = c[i].slug /\ Linked(c, p.id) = 0
      BY <1>4, <2>1
    <3>2. p.id \in Ids /\ c[i] \in Rows
      BY <1>1, <1>2 DEF Payloads
    <3>3. d[i] \in Rows /\ d[i].slug = c[i].slug /\ d[i].link = p.id
      BY <3>1, <3>2 DEF Rows
    <3>4. QED
      BY <3>1, <3>3
  <2>2. CASE ~claims(i)
    BY <1>1, <1>5, <2>2
  <2>3. QED
    BY <2>1, <2>2
<1>7. d \in Seq(Rows)
  <2>1. d = [i \in DOMAIN c |-> d[i]]
    BY DEF d, Relinked
  <2>2. d \in [1 .. Len(c) -> Rows]
    BY <1>1, <1>6, <2>1
  <2>3. QED
    BY <1>1, <2>2, SeqDef
<1>8. ASSUME NEW i \in DOMAIN c, NEW k \in DOMAIN c, i # k, d[i].link = d[k].link
      PROVE  d[i].link = NoId
  <2>1. \A p \in ToSet(b) : Linked(c, p.id) = 0 => c[i].link # p.id /\ c[k].link # p.id
    BY LinkedIs
  <2>2. c[i].slug # c[k].slug
    BY <1>8 DEF Keyed
  <2>3. c[i].link = c[k].link => c[i].link = NoId
    BY <1>8 DEF Keyed
  <2>4. QED
    BY <1>2, <1>6, <1>8, <2>1, <2>2, <2>3
<1>9. Keyed(d)
  BY <1>3, <1>6, <1>8 DEF Keyed
<1>10. QED
  BY <1>3, <1>6, <1>7, <1>9 DEF d

LEMMA WriteIs ==
    ASSUME TypeOK, KeysUnique, NEW b \in Seq(Payloads), Single(b), Write(b)
    PROVE  /\ catalog' \in Seq(Rows) /\ KeysUnique'
           /\ stale' \in Seq(DOMAIN catalog') /\ Len(stale') = Len(catalog') /\ IsInjective(stale')
<1> DEFINE renamed == Renamed(catalog, b)
           kept == Kept(catalog, b)
           grown == Upserted(renamed, kept)
           new == Relinked(grown, kept)
           S == {Named(new, p.slug) : p \in ToSet(kept)}
<1>1. /\ catalog \in Seq(Rows) /\ Keyed(catalog)
      /\ stale \in Seq(DOMAIN catalog) /\ Len(stale) = Len(catalog) /\ IsInjective(stale)
  BY DEF TypeOK, KeysUnique, Keyed
<1>2. /\ renamed \in Seq(Rows) /\ Keyed(renamed)
      /\ DOMAIN renamed = DOMAIN catalog
  BY <1>1, RenamedIs
<1>3. kept \in Seq(Payloads) /\ Apart(kept)
  BY <1>1, KeptIs
<1>4. PICK order \in SetToSeqs(S) :
         /\ catalog' = new
         /\ stale' = Picked(stale, {k \in DOMAIN stale : stale[k] \notin ToSet(order)}) \o order
  BY DEF Write
<1> HIDE DEF renamed, kept
<1>5. /\ grown \in Seq(Rows) /\ Keyed(grown)
      /\ DOMAIN catalog \subseteq DOMAIN grown
      /\ \A j \in DOMAIN kept : \E i \in DOMAIN grown : grown[i].slug = kept[j].slug
      /\ \A i \in DOMAIN grown \ DOMAIN catalog : \E j \in DOMAIN kept : grown[i].slug = kept[j].slug
  BY <1>2, <1>3, UpsertedIs
<1> HIDE DEF grown
<1>6. /\ new \in Seq(Rows) /\ Keyed(new) /\ DOMAIN new = DOMAIN grown
      /\ \A i \in DOMAIN grown : new[i].slug = grown[i].slug
  BY <1>3, <1>5, RelinkedIs
<1> HIDE DEF new
<1>7. KeysUnique'
  BY <1>4, <1>6 DEF KeysUnique, Keyed
<1>8. /\ Len(catalog) \in Nat /\ DOMAIN catalog = 1 .. Len(catalog)
      /\ Len(new) \in Nat /\ DOMAIN new = 1 .. Len(new)
      /\ DOMAIN stale = 1 .. Len(catalog) /\ \A k \in DOMAIN stale : stale[k] \in DOMAIN catalog
      /\ DOMAIN kept = 1 .. Len(kept)
  BY <1>1, <1>3, <1>6, LenProperties, ElementOfSeq
<1>9. S \subseteq DOMAIN new /\ DOMAIN new \ DOMAIN catalog \subseteq S
  <2>1. ASSUME NEW p \in ToSet(kept) PROVE Named(new, p.slug) \in DOMAIN new
    <3>1. PICK j \in DOMAIN kept : p = kept[j]
      BY DEF ToSet
    <3>2. PICK i \in DOMAIN new : new[i].slug = p.slug
      BY <1>5, <1>6, <3>1
    <3>3. QED
      BY <1>6, <3>2, NamedIs
  <2>2. ASSUME NEW i \in DOMAIN new \ DOMAIN catalog PROVE i \in S
    <3>1. PICK j \in DOMAIN kept : new[i].slug = kept[j].slug
      BY <1>5, <1>6
    <3>2. kept[j] \in ToSet(kept)
      BY DEF ToSet
    <3>3. Named(new, kept[j].slug) # 0
      BY <1>6, <3>1, NamedIs
    <3>4. Named(new, kept[j].slug) = i
      BY <1>6, <3>1, <3>3, NamedIs DEF Keyed
    <3>5. QED
      BY <3>2, <3>4
  <2>3. QED
    BY <2>1, <2>2
<1> HIDE DEF S
<1>10. stale \in Surjection(DOMAIN catalog, DOMAIN catalog)
  <2>1. stale \in [DOMAIN catalog -> DOMAIN catalog]
    BY <1>1, <1>8, LenProperties
  <2>2. stale \in Injection(DOMAIN catalog, DOMAIN catalog)
    BY <1>1, <2>1 DEF Injection
  <2>3. IsFiniteSet(DOMAIN catalog)
    BY <1>8, FS_Interval
  <2>4. QED
    BY <2>2, <2>3, FS_Injection
<1>11. /\ order \in Seq(DOMAIN new) /\ IsInjective(order) /\ ToSet(order) = S
       /\ DOMAIN order = 1 .. Len(order)
  <2>1. IsFiniteSet(S) /\ Cardinality(S) \in Nat
    <3>1. IsFiniteSet(DOMAIN new)
      BY <1>8, FS_Interval
    <3>2. QED
      BY <1>9, <3>1, FS_Subset, FS_CardinalityType
  <2>2. /\ order \in [1 .. Cardinality(S) -> S]
        /\ \A i, j \in 1 .. Cardinality(S) : i # j => order[i] # order[j]
    BY <1>4 DEF SetToSeqs
  <2>3. order \in Injection(1 .. Cardinality(S), S)
    BY <2>2 DEF Injection, IsInjective
  <2>4. IsFiniteSet(1 .. Cardinality(S)) /\ Cardinality(1 .. Cardinality(S)) = Cardinality(S)
    BY <2>1, FS_Interval
  <2>5. order \in Surjection(1 .. Cardinality(S), S)
    BY <2>1, <2>3, <2>4, FS_Injection
  <2>6. order \in Seq(S)
    BY <2>1, <2>2, SeqDef
  <2>7. order \in Seq(DOMAIN new)
    BY <1>9, <2>6, SeqMonotonic
  <2>8. ToSet(order) = S
    BY <2>2, <2>5 DEF ToSet, Surjection
  <2>9. QED
    BY <2>3, <2>6, <2>7, <2>8, LenProperties DEF Injection
<1> DEFINE M == {k \in DOMAIN stale : stale[k] \notin ToSet(order)}
           older == Picked(stale, M)
           m == Cardinality(M)
           n == Len(order)
           both == older \o order
<1>12. M \in SUBSET DOMAIN stale /\ \A k \in M : stale[k] \notin S
  BY <1>11
<1>13. ASSUME NEW k \in DOMAIN stale, stale[k] \notin S PROVE k \in M
  BY <1>11, <1>13
<1> HIDE DEF M
<1>14. /\ m \in Nat /\ Len(older) = m
       /\ \A j \in 1 .. m : InOrder(M)[j] \in M /\ older[j] = stale[InOrder(M)[j]]
       /\ \A i, j \in 1 .. m : InOrder(M)[i] = InOrder(M)[j] => i = j
       /\ \A k \in M : \E j \in 1 .. m : InOrder(M)[j] = k
       /\ older \in Seq(DOMAIN catalog)
  <2>1. stale \in Seq(DOMAIN catalog) /\ M \in SUBSET DOMAIN stale
    BY <1>1, <1>12
  <2>2. m \in Nat /\ Len(older) = m
    BY <2>1, PickedIs
  <2>3. \A j \in 1 .. m : InOrder(M)[j] \in M /\ older[j] = stale[InOrder(M)[j]]
    BY <2>1, PickedIs
  <2>4. /\ \A i, j \in 1 .. m : InOrder(M)[i] = InOrder(M)[j] => i = j
        /\ \A k \in M : \E j \in 1 .. m : InOrder(M)[j] = k
    BY <2>1, PickedIs
  <2>5. older \in Seq(DOMAIN catalog)
    BY <2>1, PickedIs
  <2>6. QED
    BY <2>2, <2>3, <2>4, <2>5
<1>15. older \in Seq(DOMAIN new)
  <2>1. DOMAIN catalog \subseteq DOMAIN new
    BY <1>5, <1>6
  <2>2. QED
    BY <1>14, <2>1, SeqMonotonic
<1> HIDE DEF older, m
<1>16. n \in Nat
  BY <1>11, LenProperties
<1>17. /\ both \in Seq(DOMAIN new) /\ Len(both) = m + n
       /\ \A i \in 1 .. (m + n) : both[i] = IF i <= m THEN older[i] ELSE order[i - m]
  <2>1. /\ both \in Seq(DOMAIN new) /\ Len(both) = Len(older) + Len(order)
        /\ \A i \in 1 .. (Len(older) + Len(order)) :
              both[i] = IF i <= Len(older) THEN older[i] ELSE order[i - Len(older)]
    BY <1>11, <1>15, ConcatProperties
  <2>2. QED
    BY <1>14, <2>1
<1> HIDE DEF both, n
<1>18. DOMAIN both = 1 .. (m + n) /\ both \in [1 .. (m + n) -> DOMAIN new]
  BY <1>17, LenProperties
<1>19. ASSUME NEW i \in 1 .. (m + n)
       PROVE  \/ /\ i \in 1 .. m /\ both[i] = older[i] /\ both[i] \notin S
                 /\ both[i] = stale[InOrder(M)[i]] /\ InOrder(M)[i] \in DOMAIN stale
              \/ i \notin 1 .. m /\ i - m \in DOMAIN order /\ both[i] = order[i - m] /\ both[i] \in S
  <2>1. CASE i <= m
    <3>1. i \in 1 .. m /\ both[i] = older[i]
      BY <1>14, <1>16, <1>17, <2>1
    <3>2. InOrder(M)[i] \in M
      BY <1>14, <3>1
    <3>3. QED
      BY <1>12, <1>14, <3>1, <3>2
  <2>2. CASE ~(i <= m)
    <3>1. i \notin 1 .. m /\ i - m \in 1 .. n /\ both[i] = order[i - m]
      BY <1>14, <1>16, <1>17, <2>2
    <3>2. i - m \in DOMAIN order
      BY <1>11, <3>1 DEF n
    <3>3. order[i - m] \in S
      BY <1>11, <3>2 DEF ToSet
    <3>4. QED
      BY <3>1, <3>2, <3>3
  <2>3. QED
    BY <2>1, <2>2
<1>20. IsInjective(both)
  <2>1. SUFFICES ASSUME NEW i \in 1 .. (m + n), NEW j \in 1 .. (m + n), both[i] = both[j]
                 PROVE  i = j
    BY <1>18 DEF IsInjective
  <2>2. CASE both[i] \in S
    <3>1. i - m = j - m
      BY <1>11, <1>19, <2>1, <2>2 DEF IsInjective
    <3>2. QED
      BY <1>14, <1>16, <3>1
  <2>3. CASE both[i] \notin S
    <3>1. /\ i \in 1 .. m /\ j \in 1 .. m
          /\ stale[InOrder(M)[i]] = stale[InOrder(M)[j]]
          /\ InOrder(M)[i] \in DOMAIN stale /\ InOrder(M)[j] \in DOMAIN stale
      BY <1>19, <2>1, <2>3
    <3>2. InOrder(M)[i] = InOrder(M)[j]
      BY <1>1, <3>1 DEF IsInjective
    <3>3. QED
      BY <1>14, <3>1, <3>2
  <2>4. QED
    BY <2>2, <2>3
<1>21. ASSUME NEW t \in DOMAIN new
       PROVE  \E i \in 1 .. (m + n) : both[i] = t
  <2>1. CASE t \in S
    <3>1. PICK k \in DOMAIN order : order[k] = t
      BY <1>11, <2>1 DEF ToSet
    <3>2. k \in 1 .. n
      BY <1>11 DEF n
    <3>3. k + m \in 1 .. (m + n) /\ ~(k + m <= m) /\ (k + m) - m = k
      BY <1>14, <1>16, <3>2
    <3>4. both[k + m] = order[k]
      BY <1>17, <3>3
    <3>5. QED
      BY <3>1, <3>3, <3>4
  <2>2. CASE t \notin S
    <3>1. t \in DOMAIN catalog
      BY <1>9, <2>2
    <3>2. PICK k \in DOMAIN stale : stale[k] = t
      BY <1>8, <1>10, <3>1 DEF Surjection
    <3>3. PICK j \in 1 .. m : InOrder(M)[j] = k
      BY <1>13, <1>14, <2>2, <3>2
    <3>4. j \in 1 .. (m + n) /\ j <= m
      BY <1>14, <1>16
    <3>5. both[j] = t
      BY <1>14, <1>17, <3>2, <3>3, <3>4
    <3>6. QED
      BY <3>4, <3>5
  <2>3. QED
    BY <2>1, <2>2
<1>22. Len(both) = Len(new)
  <2>1. both \in Injection(1 .. (m + n), DOMAIN new) /\ both \in Surjection(1 .. (m + n), DOMAIN new)
    BY <1>18, <1>20, <1>21 DEF Injection, Surjection
  <2>2. IsFiniteSet(DOMAIN new) /\ Cardinality(DOMAIN new) = Len(new)
    BY <1>8, Interval
  <2>3. Cardinality(1 .. (m + n)) = Cardinality(DOMAIN new)
    BY <2>1, <2>2, FS_Injection
  <2>4. Cardinality(1 .. (m + n)) = m + n
    BY <1>14, <1>16, Interval
  <2>5. QED
    BY <1>17, <2>2, <2>3, <2>4
<1>23. catalog' = new /\ stale' = both
  BY <1>4 DEF both, older, M
<1>24. QED
  BY <1>6, <1>7, <1>17, <1>20, <1>22, <1>23

-----------------------------------------------------------------------------
(* Types and keys                                                          *)

\* A slice that writes has something to write, one answer an id.
Aware ==
    \A r \in Runs : /\ Single(run[r].batch)
                    /\ pc[r] \in {"batch", "single"} => run[r].batch # <<>>

Sane == TypeOK /\ KeysUnique /\ Aware

\* A step of a slice that leaves the catalog alone.
LEMMA SliceMoves ==
    ASSUME Sane, NEW r \in Runs, NEW l \in Locals, NEW step \in Steps \cup {"idle"},
           run' = [run EXCEPT ![r] = l], pc' = [pc EXCEPT ![r] = step],
           Single(l.batch), step \in {"batch", "single"} => l.batch # <<>>
    PROVE  /\ run' \in [Runs -> Locals] /\ pc' \in [Runs -> Steps \cup {"idle"}]
           /\ Aware'
<1>1. run \in [Runs -> Locals] /\ pc \in [Runs -> Steps \cup {"idle"}]
  BY DEF Sane, TypeOK
<1>2. run' \in [Runs -> Locals] /\ pc' \in [Runs -> Steps \cup {"idle"}]
  BY <1>1
<1>3. \A q \in Runs : /\ run'[q] = IF q = r THEN l ELSE run[q]
                      /\ pc'[q] = IF q = r THEN step ELSE pc[q]
  BY <1>1
<1>4. QED
  BY <1>2, <1>3 DEF Sane, Aware

LEMMA BlankIs == Blank \in Locals /\ Single(Blank.batch)
<1>1. <<>> \in Seq(Ids) /\ <<>> \in Seq(Payloads) /\ DOMAIN <<>> = {}
  BY EmptySeq
<1>2. QED
  BY <1>1 DEF Blank, Locals, Single

\* Fields of the locals of a slice replaced.
LEMMA LocalsReplaced ==
    ASSUME NEW l \in Locals, NEW w \in Seq(Ids), NEW b \in Seq(Payloads),
           NEW re \in SUBSET Ids, NEW go \in SUBSET Ids
    PROVE  /\ [l EXCEPT !.work = w] \in Locals /\ [l EXCEPT !.work = w].batch = l.batch
           /\ [l EXCEPT !.batch = b] \in Locals /\ [l EXCEPT !.batch = b].batch = b
           /\ [l EXCEPT !.work = w, !.batch = b, !.resolved = re, !.gone = go] \in Locals
           /\ [l EXCEPT !.work = w, !.batch = b, !.resolved = re, !.gone = go].batch = b
BY DEF Locals

LEMMA FaultIs ==
    ASSUME faults \in 0 .. MaxFaults, NEW n \in Nat, Fault(n)
    PROVE  faults' \in 0 .. MaxFaults
BY SeedingAssumption DEF Fault

LEMMA OldestIs ==
    ASSUME TypeOK, NEW n \in Int
    PROVE  Oldest(n) \in Seq(Ids)
<1> DEFINE S == {k \in DOMAIN stale : catalog[stale[k]].link # NoId}
           rows == Picked(stale, S)
           size == IF Len(rows) < n THEN Len(rows) ELSE n
           oldest == [k \in 1 .. size |-> catalog[rows[k]].link]
<1>1. /\ stale \in Seq(DOMAIN catalog) /\ S \in SUBSET DOMAIN stale
      /\ \A k \in DOMAIN stale : stale[k] \in DOMAIN catalog
      /\ \A i \in DOMAIN catalog : catalog[i] \in Rows
  BY LenProperties, ElementOfSeq DEF TypeOK
<1>2. /\ Cardinality(S) \in Nat /\ Len(rows) = Cardinality(S)
      /\ \A j \in 1 .. Cardinality(S) : InOrder(S)[j] \in S /\ rows[j] = stale[InOrder(S)[j]]
  BY <1>1, PickedIs
<1>3. ASSUME NEW k \in S PROVE catalog[stale[k]].link \in Ids
  BY <1>1 DEF Rows
<1> HIDE DEF S
<1>4. ASSUME NEW k \in 1 .. Cardinality(S) PROVE catalog[rows[k]].link \in Ids
  BY <1>2, <1>3
<1>5. size \in Int /\ size <= Cardinality(S)
  BY <1>2
<1> HIDE DEF rows, size, oldest
<1>6. \A k \in 1 .. size : catalog[rows[k]].link \in Ids
  BY <1>2, <1>4, <1>5
<1>7. oldest \in Seq(Ids)
  <2>1. CASE size >= 0
    <3>1. size \in Nat
      BY <1>5, <2>1
    <3>2. oldest \in [1 .. size -> Ids]
      BY <1>6 DEF oldest
    <3>3. QED
      BY <3>1, <3>2, SeqDef
  <2>2. CASE ~(size >= 0)
    <3>1. 1 .. size = 1 .. 0
      BY <1>5, <2>2
    <3>2. oldest \in [1 .. 0 -> Ids]
      BY <1>6, <3>1 DEF oldest
    <3>3. 0 \in Nat
      OBVIOUS
    <3>4. QED
      BY <3>2, <3>3, SeqDef
  <2>3. QED
    BY <2>1, <2>2
<1>8. Oldest(n) = oldest
  BY DEF Oldest, oldest, size, rows, S
<1>9. QED
  BY <1>7, <1>8

LEMMA ReadsAreSane ==
    ASSUME Sane, NEW r \in Runs, ReadPending(r) \/ ReadRotation(r)
    PROVE  Sane'
<1>1. /\ UNCHANGED <<source, targets, items, faults, changes, history>>
      /\ run' \in [Runs -> Locals] /\ pc' \in [Runs -> Steps \cup {"idle"}] /\ Aware'
  <2>1. CASE ReadPending(r)
    <3> DEFINE pending == Slice(Pending, SliceSize)
               l == [Blank EXCEPT !.pending = ToSet(pending), !.work = pending]
               step == IF Len(pending) < SliceSize THEN "rotation" ELSE "fetch"
    <3>1. pending \in Seq(Ids) /\ ToSet(pending) \subseteq Ids
      <4>1. Pending \in SUBSET Ids
        BY DEF Pending, Sane, TypeOK
      <4>2. pending \in Seq(Pending) /\ ToSet(pending) \subseteq Pending
        BY <4>1, SliceIsPart DEF Sane, TypeOK
      <4>3. QED
        BY <4>1, <4>2, SeqMonotonic
    <3>2. /\ run' = [run EXCEPT ![r] = l] /\ pc' = [pc EXCEPT ![r] = step]
          /\ UNCHANGED <<source, targets, items, faults, changes, history>>
      BY <2>1 DEF ReadPending, Goto
    <3> HIDE DEF pending
    <3>3. l \in Locals /\ l.batch = <<>>
      BY <3>1, EmptySeq DEF Blank, Locals
    <3>4. Single(l.batch)
      BY <3>3 DEF Single
    <3>5. step \in Steps \cup {"idle"} /\ step \notin {"batch", "single"}
      BY DEF Steps
    <3> HIDE DEF l, step
    <3>6. QED
      BY <3>2, <3>3, <3>4, <3>5, SliceMoves
  <2>2. CASE ReadRotation(r)
    <3> DEFINE work == run[r].work \o Oldest(SliceSize - Len(run[r].work))
               l == [run[r] EXCEPT !.work = work]
               step == IF work = <<>> THEN "idle" ELSE "fetch"
    <3>1. run[r] \in Locals /\ run \in [Runs -> Locals]
      BY DEF Sane, TypeOK
    <3>2. run[r].work \in Seq(Ids) /\ Len(run[r].work) \in Nat
      BY <3>1, LenProperties DEF Locals
    <3>3. SliceSize - Len(run[r].work) \in Int
      BY <3>2, SeedingAssumption
    <3>4. work \in Seq(Ids)
      BY <3>2, <3>3, OldestIs, ConcatProperties DEF Sane
    <3>5. /\ run' = [run EXCEPT ![r].work = work] /\ pc' = [pc EXCEPT ![r] = step]
          /\ UNCHANGED <<source, targets, items, faults, changes, history>>
      BY <2>2 DEF ReadRotation, Goto
    <3> HIDE DEF work
    <3>6. run' = [run EXCEPT ![r] = l]
      BY <3>5
    <3>7. l \in Locals /\ l.batch = run[r].batch
      BY <3>1, <3>4 DEF Locals
    <3>8. Single(l.batch)
      BY <3>7 DEF Sane, Aware
    <3>9. step \in Steps \cup {"idle"} /\ step \notin {"batch", "single"}
      BY DEF Steps
    <3> HIDE DEF l, step
    <3>10. QED
      BY <3>5, <3>6, <3>7, <3>8, <3>9, SliceMoves
  <2>3. QED
    BY <2>1, <2>2
<1>2. QED
  BY <1>1 DEF Sane, TypeOK, KeysUnique, targets, items, history

LEMMA FetchChunkIsSane ==
    ASSUME Sane, NEW r \in Runs, FetchChunk(r)
    PROVE  Sane'
<1>1. PICK failed \in SUBSET ToSet(Chunk(r)) : FetchChunk(r)!(failed)
  BY DEF FetchChunk
<1> DEFINE S == {k \in DOMAIN Chunk(r) :
                    Chunk(r)[k] \notin failed /\ source[Chunk(r)[k]].serves # "gone"}
           served == Picked(Chunk(r), S)
           notFound == {x \in ToSet(Chunk(r)) \ failed : source[x].serves = "gone"}
           resolved == ToSet(served) \cap run[r].pending
           batch == [k \in DOMAIN served |-> Payload(served[k])]
           step == IF batch # <<>> THEN "batch" ELSE IF Rest(r) = <<>> THEN "stamp" ELSE "fetch"
           answers == run[r].resolved \cup resolved
           gone == run[r].gone \cup (notFound \cap run[r].pending)
           l == [run[r] EXCEPT !.work = Rest(r), !.batch = batch,
                               !.resolved = answers, !.gone = gone]
<1>2. run[r] \in Locals /\ run \in [Runs -> Locals] /\ source \in [Ids -> Entries]
      /\ faults \in 0 .. MaxFaults /\ answered \in [Ids -> Nat] /\ reportedGone \subseteq Ids
  BY DEF Sane, TypeOK
<1>3. run[r].work \in Seq(Ids) /\ ChunkSize \in Nat \ {0}
  BY <1>2, SeedingAssumption DEF Locals
<1>4. Chunk(r) \in Seq(Ids) /\ Rest(r) \in Seq(Ids)
  <2>1. Len(run[r].work) \in Nat /\ \A i \in 1 .. Len(run[r].work) : run[r].work[i] \in Ids
    BY <1>3, LenProperties, ElementOfSeq
  <2> DEFINE m == IF Len(run[r].work) < ChunkSize THEN Len(run[r].work) ELSE ChunkSize
  <2>2. m \in Int /\ m <= Len(run[r].work)
    BY <1>3, <2>1
  <2> HIDE DEF m
  <2>3. \A i \in 1 .. m : run[r].work[i] \in Ids
    BY <2>1, <2>2
  <2>4. SubSeq(run[r].work, 1, m) \in Seq(Ids)
    BY <2>2, <2>3, SubSeqProperties
  <2>5. ChunkSize + 1 \in Int /\ \A i \in (ChunkSize + 1) .. Len(run[r].work) : run[r].work[i] \in Ids
    BY <1>3, <2>1
  <2>6. SubSeq(run[r].work, ChunkSize + 1, Len(run[r].work)) \in Seq(Ids)
    BY <2>1, <2>5, SubSeqProperties
  <2>7. QED
    BY <2>4, <2>6 DEF Chunk, Rest, m
<1>5. ToSet(Chunk(r)) \subseteq Ids
  BY <1>4, LenProperties, ElementOfSeq DEF ToSet
<1>6. served \in Seq(Ids)
  BY <1>4, PickedIs
<1>7. DOMAIN served = 1 .. Len(served) /\ Len(served) \in Nat /\ \A k \in DOMAIN served : served[k] \in Ids
  BY <1>6, LenProperties, ElementOfSeq
<1> HIDE DEF served
<1>8. batch \in Seq(Payloads) /\ Single(batch)
  <2>1. \A x \in Ids : Payload(x) \in Payloads /\ Payload(x).id = x
    BY <1>2 DEF Payload, Payloads, Entries
  <2>2. batch \in [1 .. Len(served) -> Payloads]
    BY <1>7, <2>1
  <2>3. batch \in Seq(Payloads)
    BY <1>7, <2>2, SeqDef
  <2>4. Single(batch)
    BY <1>7, <2>1 DEF Single
  <2>5. QED
    BY <2>3, <2>4
<1>9. resolved \subseteq Ids /\ answers \in SUBSET Ids /\ gone \in SUBSET Ids /\ notFound \subseteq Ids
  BY <1>2, <1>5 DEF Locals
<1>10. /\ run' = [run EXCEPT ![r].work = Rest(r), ![r].batch = batch,
                            ![r].resolved = @ \cup resolved,
                            ![r].gone = @ \cup (notFound \cap run[r].pending)]
       /\ pc' = [pc EXCEPT ![r] = step]
       /\ answered' = [x \in Ids |-> IF x \in resolved THEN answered[x] + 1 ELSE answered[x]]
       /\ reportedGone' = reportedGone \cup notFound
       /\ UNCHANGED <<source, targets, items, changes>>
       /\ Fault(Cardinality(failed))
  BY <1>1 DEF Goto, served, S
<1>11. faults' \in 0 .. MaxFaults
  <2>1. IsFiniteSet(Ids)
    BY SeedingAssumption
  <2>2. failed \in SUBSET Ids
    BY <1>5
  <2>3. Cardinality(failed) \in Nat
    BY <2>1, <2>2, FS_Subset, FS_CardinalityType
  <2>4. QED
    BY <1>2, <1>10, <2>3, FaultIs
<1>12. answered' \in [Ids -> Nat] /\ reportedGone' \subseteq Ids
  <2> HIDE DEF resolved, notFound
  <2>1. answered' = [x \in Ids |-> IF x \in resolved THEN answered[x] + 1 ELSE answered[x]]
    BY <1>10
  <2>2. \A x \in Ids : (IF x \in resolved THEN answered[x] + 1 ELSE answered[x]) \in Nat
    BY <1>2
  <2>3. QED
    BY <1>2, <1>9, <1>10, <2>1, <2>2
<1> HIDE DEF resolved, notFound, batch
<1>13. run' = [run EXCEPT ![r] = l]
  BY <1>2, <1>10
<1> HIDE DEF answers, gone
<1>14. l \in Locals /\ l.batch = batch
  BY <1>2, <1>4, <1>8, <1>9 DEF Locals
<1>15. step \in Steps \cup {"idle"} /\ (step \in {"batch", "single"} => batch # <<>>)
  BY DEF Steps
<1> HIDE DEF l, step
<1>16. run' \in [Runs -> Locals] /\ pc' \in [Runs -> Steps \cup {"idle"}] /\ Aware'
  BY <1>8, <1>10, <1>13, <1>14, <1>15, SliceMoves
<1>17. QED
  BY <1>10, <1>11, <1>12, <1>16 DEF Sane, TypeOK, KeysUnique, targets, items

LEMMA WritesAreSane ==
    ASSUME Sane, NEW r \in Runs, WriteBatch(r) \/ WriteSingle(r)
    PROVE  Sane'
<1> DEFINE b == run[r].batch
<1>1. /\ run[r] \in Locals /\ run \in [Runs -> Locals] /\ pc \in [Runs -> Steps \cup {"idle"}]
      /\ b \in Seq(Payloads) /\ Single(b) /\ TypeOK /\ KeysUnique
      /\ faults \in 0 .. MaxFaults
  BY DEF Sane, TypeOK, Aware, Locals
<1>2. AfterChunk(r) \in Steps \cup {"idle"} /\ AfterChunk(r) \notin {"batch", "single"}
  BY DEF AfterChunk, Steps
<1>3. CASE WriteBatch(r)
  <2> DEFINE l == [run[r] EXCEPT !.batch = <<>>]
  <2>1. /\ Write(b) /\ run' = [run EXCEPT ![r].batch = <<>>] /\ pc' = [pc EXCEPT ![r] = AfterChunk(r)]
        /\ UNCHANGED <<source, targets, faults, changes, history>>
    BY <1>3 DEF WriteBatch, Goto
  <2>2. /\ catalog' \in Seq(Rows) /\ KeysUnique'
        /\ stale' \in Seq(DOMAIN catalog') /\ Len(stale') = Len(catalog') /\ IsInjective(stale')
    BY <1>1, <2>1, WriteIs
  <2>3. run' = [run EXCEPT ![r] = l]
    BY <2>1
  <2>4. l \in Locals /\ l.batch = <<>>
    BY <1>1, EmptySeq DEF Locals
  <2>5. Single(l.batch)
    BY <2>4 DEF Single
  <2> HIDE DEF l, b
  <2>6. run' \in [Runs -> Locals] /\ pc' \in [Runs -> Steps \cup {"idle"}] /\ Aware'
    BY <1>2, <2>1, <2>3, <2>4, <2>5, SliceMoves
  <2>7. QED
    BY <1>1, <2>1, <2>2, <2>6 DEF Sane, TypeOK, targets, history
<1>4. CASE WriteSingle(r)
  <2> DEFINE l == [run[r] EXCEPT !.batch = Tail(b)]
             step == IF Len(b) > 1 THEN "single" ELSE AfterChunk(r)
  <2>1. /\ pc[r] = "single"
        /\ \/ Write(<<Head(b)>>) /\ UNCHANGED faults
           \/ Fault(1) /\ UNCHANGED items
           \/ UNCHANGED <<items, faults>>
        /\ run' = [run EXCEPT ![r].batch = Tail(b)] /\ pc' = [pc EXCEPT ![r] = step]
        /\ UNCHANGED <<source, targets, changes, history>>
    <3>1. run' = [run EXCEPT ![r].batch = Tail(@)]
      BY <1>4 DEF WriteSingle
    <3>2. run' = [run EXCEPT ![r].batch = Tail(b)]
      BY <1>1, <3>1
    <3>3. QED
      BY <1>4, <3>2 DEF WriteSingle, Goto
  <2>2. b # <<>>
    BY <2>1 DEF Sane, Aware
  <2>3. /\ Head(b) \in Payloads /\ Tail(b) \in Seq(Payloads) /\ Len(Tail(b)) = Len(b) - 1
        /\ \A i \in 1 .. Len(Tail(b)) : Tail(b)[i] = b[i + 1]
    BY <1>1, <2>2, HeadTailProperties
  <2>4. /\ Len(b) \in Nat /\ DOMAIN b = 1 .. Len(b) /\ DOMAIN Tail(b) = 1 .. Len(Tail(b))
        /\ Len(<<>>) = 0
    BY <1>1, <2>3, LenProperties, EmptySeq
  <2>5. /\ catalog' \in Seq(Rows) /\ KeysUnique'
        /\ stale' \in Seq(DOMAIN catalog') /\ Len(stale') = Len(catalog') /\ IsInjective(stale')
        /\ faults' \in 0 .. MaxFaults
    <3>1. CASE Write(<<Head(b)>>) /\ UNCHANGED faults
      <4> DEFINE one == <<Head(b)>>
      <4>1. one \in Seq(Payloads) /\ DOMAIN one = {1}
        BY <2>3
      <4>2. Single(one)
        BY <4>1 DEF Single
      <4> HIDE DEF one
      <4>3. Write(one)
        BY <3>1 DEF one
      <4>4. QED
        BY <1>1, <3>1, <4>1, <4>2, <4>3, WriteIs
    <3>2. CASE (Fault(1) /\ UNCHANGED items) \/ UNCHANGED <<items, faults>>
      <4>1. faults' \in 0 .. MaxFaults
        BY <1>1, <3>2, FaultIs
      <4>2. QED
        BY <1>1, <3>2, <4>1 DEF items, TypeOK, KeysUnique
    <3>3. QED
      BY <2>1, <3>1, <3>2
  <2>6. run' = [run EXCEPT ![r] = l]
    BY <1>1, <2>1
  <2>7. l \in Locals /\ l.batch = Tail(b)
    BY <1>1, <2>3 DEF Locals
  <2>8. Single(Tail(b))
    <3>1. SUFFICES ASSUME NEW i \in DOMAIN Tail(b), NEW j \in DOMAIN Tail(b), Tail(b)[i].id = Tail(b)[j].id
                   PROVE  Tail(b)[i] = Tail(b)[j]
      BY DEF Single
    <3>2. i + 1 \in DOMAIN b /\ j + 1 \in DOMAIN b /\ Tail(b)[i] = b[i + 1] /\ Tail(b)[j] = b[j + 1]
      BY <2>3, <2>4
    <3>3. QED
      BY <1>1, <3>1, <3>2 DEF Single
  <2>9. step \in Steps \cup {"idle"} /\ (step \in {"batch", "single"} => Tail(b) # <<>>)
    <3>1. CASE Len(b) > 1
      <4>1. Len(Tail(b)) > 0
        BY <2>3, <2>4, <3>1
      <4> DEFINE t == Tail(b)
      <4>2. Len(t) > 0
        BY <4>1
      <4> HIDE DEF t
      <4>3. t # <<>>
        BY <2>4, <4>2
      <4>4. QED
        BY <3>1, <4>3 DEF Steps, t
    <3>2. CASE ~(Len(b) > 1)
      BY <1>2, <3>2
    <3>3. QED
      BY <3>1, <3>2
  <2> HIDE DEF l, step, b
  <2>10. run' \in [Runs -> Locals] /\ pc' \in [Runs -> Steps \cup {"idle"}] /\ Aware'
    BY <2>1, <2>6, <2>7, <2>8, <2>9, SliceMoves, ZenonT(40)
  <2>11. QED
    BY <1>1, <2>1, <2>5, <2>10 DEF Sane, TypeOK, targets, history
<1>5. QED
  BY <1>3, <1>4

LEMMA EndsAreSane ==
    ASSUME Sane, NEW r \in Runs, FailBatch(r) \/ Stamp(r) \/ Crash(r)
    PROVE  Sane'
<1>1. TypeOK /\ run \in [Runs -> Locals] /\ run[r] \in Locals /\ faults \in 0 .. MaxFaults
  BY DEF Sane, TypeOK
<1>2. faults' \in 0 .. MaxFaults
  BY <1>1, FaultIs DEF FailBatch, Stamp, Crash
<1>3. UNCHANGED <<source, listed, items, changes, history>>
  BY DEF FailBatch, Stamp, Crash, targets
<1>4. attempts' \in [Ids -> Nat] /\ unreachable' \in [Ids -> BOOLEAN]
  <2>1. attempts \in [Ids -> Nat] /\ unreachable \in [Ids -> BOOLEAN]
    BY DEF Sane, TypeOK
  <2>2. \/ UNCHANGED <<attempts, unreachable>>
        \/ /\ attempts' = [x \in Ids |-> IF x \in run[r].resolved THEN attempts[x] + 1 ELSE attempts[x]]
           /\ unreachable' = [x \in Ids |-> unreachable[x] \/ x \in run[r].gone]
    BY DEF FailBatch, Stamp, Crash, targets
  <2>3. CASE UNCHANGED <<attempts, unreachable>>
    BY <2>1, <2>3
  <2>4. CASE /\ attempts' = [x \in Ids |-> IF x \in run[r].resolved THEN attempts[x] + 1 ELSE attempts[x]]
             /\ unreachable' = [x \in Ids |-> unreachable[x] \/ x \in run[r].gone]
    <3>1. \A x \in Ids : (IF x \in run[r].resolved THEN attempts[x] + 1 ELSE attempts[x]) \in Nat
      BY <2>1
    <3>2. attempts' \in [Ids -> Nat]
      BY <2>4, <3>1
    <3>3. unreachable' \in [Ids -> BOOLEAN]
      BY <2>4
    <3>4. QED
      BY <3>2, <3>3
  <2>5. QED
    BY <2>2, <2>3, <2>4
<1>5. run' \in [Runs -> Locals] /\ pc' \in [Runs -> Steps \cup {"idle"}] /\ Aware'
  <2>1. CASE FailBatch(r)
    <3>1. run' = [run EXCEPT ![r] = run[r]] /\ pc' = [pc EXCEPT ![r] = "single"] /\ pc[r] = "batch"
      BY <1>1, <2>1 DEF FailBatch, Goto
    <3>2. Single(run[r].batch) /\ run[r].batch # <<>> /\ "single" \in Steps \cup {"idle"}
      BY <3>1 DEF Sane, Aware, Steps
    <3>3. QED
      BY <1>1, <3>1, <3>2, SliceMoves
  <2>2. CASE Stamp(r) \/ Crash(r)
    <3>1. run' = [run EXCEPT ![r] = Blank] /\ pc' = [pc EXCEPT ![r] = "idle"]
      BY <2>2 DEF Stamp, Crash, Goto
    <3>2. "idle" \in Steps \cup {"idle"} /\ "idle" \notin {"batch", "single"}
      OBVIOUS
    <3>3. QED
      BY <3>1, <3>2, BlankIs, SliceMoves
  <2>3. QED
    BY <2>1, <2>2
<1>6. QED
  BY <1>2, <1>3, <1>4, <1>5 DEF Sane, TypeOK, KeysUnique, items, history

LEMMA WorldIsSane ==
    ASSUME Sane,
           \/ \E x \in Ids : Enumerate(x) \/ SourceMoves(x) \/ WriteElsewhere(x)
           \/ \E i \in DOMAIN catalog : EditCatalogItem(i)
           \/ UNCHANGED vars
    PROVE  Sane'
<1>1. TypeOK /\ KeysUnique /\ Aware
  BY DEF Sane
<1>2. changes' \in 0 .. MaxChanges
  <2>1. changes \in 0 .. MaxChanges /\ MaxChanges \in Nat
    BY <1>1, SeedingAssumption DEF TypeOK
  <2>2. (changes < MaxChanges /\ changes' = changes + 1) \/ changes' = changes
    BY DEF Enumerate, SourceMoves, WriteElsewhere, EditCatalogItem, Change, vars
  <2>3. QED
    BY <2>1, <2>2
<1>3. CASE \E x \in Ids : Enumerate(x) \/ SourceMoves(x)
  <2>1. source' \in [Ids -> Entries] /\ listed' \subseteq Ids
    BY <1>1, <1>3 DEF TypeOK, Enumerate, SourceMoves, targets
  <2>2. UNCHANGED <<attempts, unreachable, items, pc, run, faults, history>>
    BY <1>3 DEF Enumerate, SourceMoves, targets
  <2>3. QED
    BY <1>1, <1>2, <2>1, <2>2 DEF Sane, TypeOK, KeysUnique, Aware, items, history
<1>4. CASE \E x \in Ids : WriteElsewhere(x)
  <2>1. PICK x \in Ids : WriteElsewhere(x)
    BY <1>4
  <2> DEFINE one == <<Payload(x)>>
  <2>2. Payload(x) \in Payloads
    BY <1>1 DEF TypeOK, Payload, Payloads, Entries
  <2>3. one \in Seq(Payloads) /\ DOMAIN one = {1}
    BY <2>2
  <2> HIDE DEF one
  <2>4. Single(one)
    BY <2>3 DEF Single
  <2>5. Write(one) /\ UNCHANGED <<source, targets, pc, run, faults, history>>
    BY <2>1 DEF WriteElsewhere, one
  <2>6. /\ catalog' \in Seq(Rows) /\ KeysUnique'
        /\ stale' \in Seq(DOMAIN catalog') /\ Len(stale') = Len(catalog') /\ IsInjective(stale')
    BY <1>1, <2>3, <2>4, <2>5, WriteIs
  <2>7. QED
    BY <1>1, <1>2, <2>5, <2>6 DEF Sane, TypeOK, Aware, targets, history
<1>5. CASE \E i \in DOMAIN catalog : EditCatalogItem(i)
  <2>1. PICK i \in DOMAIN catalog : EditCatalogItem(i)
    BY <1>5
  <2> DEFINE row == [catalog[i] EXCEPT !.locked = ~@]
  <2>2. /\ catalog \in Seq(Rows) /\ DOMAIN catalog = 1 .. Len(catalog) /\ Len(catalog) \in Nat
        /\ catalog[i] \in Rows
    BY <1>1, LenProperties, ElementOfSeq DEF TypeOK
  <2>3. row \in Rows /\ row.slug = catalog[i].slug /\ row.link = catalog[i].link
    BY <2>2 DEF Rows
  <2>4. catalog' = [catalog EXCEPT ![i] = row] /\ UNCHANGED <<source, targets, stale, pc, run, faults, history>>
    BY <2>1 DEF EditCatalogItem
  <2> HIDE DEF row
  <2>5. /\ catalog' \in Seq(Rows) /\ Len(catalog') = Len(catalog)
        /\ \A j \in DOMAIN catalog : catalog'[j] = IF j = i THEN row ELSE catalog[j]
    BY <2>2, <2>3, <2>4, ExceptSeq
  <2>6. DOMAIN catalog' = DOMAIN catalog
    BY <2>2, <2>5, LenProperties
  <2>7. \A j \in DOMAIN catalog : catalog'[j].slug = catalog[j].slug /\ catalog'[j].link = catalog[j].link
    BY <2>3, <2>5
  <2>8. KeysUnique'
    BY <1>1, <2>6, <2>7 DEF KeysUnique
  <2>9. QED
    BY <1>1, <1>2, <2>4, <2>5, <2>6, <2>8 DEF Sane, TypeOK, Aware, targets, history
<1>6. CASE UNCHANGED vars
  BY <1>1, <1>6 DEF Sane, TypeOK, KeysUnique, Aware, vars, targets, items, history
<1>7. QED
  BY <1>3, <1>4, <1>5, <1>6

LEMMA InitSane == Init => Sane
<1> SUFFICES ASSUME Init PROVE Sane
  OBVIOUS
<1>1. source \in [Ids -> Entries] /\ listed \subseteq Ids
  BY SeedingAssumption DEF Init
<1>2. /\ catalog \in Seq(Rows) /\ stale \in Seq(DOMAIN catalog)
      /\ Len(stale) = Len(catalog) /\ IsInjective(stale) /\ KeysUnique
  <2>1. catalog = <<>> /\ stale = <<>> /\ DOMAIN <<>> = {}
    BY DEF Init
  <2>2. QED
    BY <2>1, EmptySeq DEF IsInjective, KeysUnique
<1>3. run \in [Runs -> Locals] /\ pc \in [Runs -> Steps \cup {"idle"}] /\ Aware
  BY BlankIs DEF Init, Aware
<1>4. faults \in 0 .. MaxFaults /\ changes \in 0 .. MaxChanges
  BY SeedingAssumption DEF Init
<1>5. /\ attempts \in [Ids -> Nat] /\ unreachable \in [Ids -> BOOLEAN]
      /\ answered \in [Ids -> Nat] /\ reportedGone \subseteq Ids
  BY DEF Init
<1>6. QED
  BY <1>1, <1>2, <1>3, <1>4, <1>5 DEF Sane, TypeOK

LEMMA StepSane == Sane /\ [Next]_vars => Sane'
<1> SUFFICES ASSUME Sane, [Next]_vars PROVE Sane'
  OBVIOUS
<1>1. ASSUME NEW r \in Runs, Advance(r) \/ Crash(r)
      PROVE  Sane'
  BY <1>1, ReadsAreSane, FetchChunkIsSane, WritesAreSane, EndsAreSane DEF Advance
<1>2. CASE \/ \E x \in Ids : Enumerate(x) \/ SourceMoves(x) \/ WriteElsewhere(x)
           \/ \E i \in DOMAIN catalog : EditCatalogItem(i)
           \/ UNCHANGED vars
  BY <1>2, WorldIsSane
<1>3. QED
  BY <1>1, <1>2 DEF Next

(***************************************************************************)
(* Every variable keeps its type; in particular the rotation lists every   *)
(* row of the catalog once, whatever is written, renamed and relinked.     *)
(***************************************************************************)
THEOREM TypeCorrect == Spec => []TypeOK
<1>1. Sane => TypeOK
  BY DEF Sane
<1>2. QED
  BY <1>1, InitSane, StepSane, PTL DEF Spec

(***************************************************************************)
(* No write of a batch gives two rows one slug or one external id: a       *)
(* renamed row takes a slug that no row has and no other payload wants, a  *)
(* new row one that is free, and an id that is linked stays where it is.   *)
(***************************************************************************)
THEOREM KeysStayUnique == Spec => []KeysUnique
<1>1. Sane => KeysUnique
  BY DEF Sane
<1>2. QED
  BY <1>1, InitSane, StepSane, PTL DEF Spec
=============================================================================
