-------------------------- MODULE EmbeddingQuotas --------------------------
(***************************************************************************)
(* How EMBEDDING_MAX_ITEMS is split over the item types                     *)
(* (recommendations/embeddings.py, allocate_quotas).                        *)
(***************************************************************************)
EXTENDS Integers, Sequences, FiniteSets, FiniteSetsExt

CONSTANT Types          \* ITEM_TYPES, a sequence

Kinds == 1 .. Len(Types)

\* A limit that is not set.
None == -1

Least(a, b) == IF a < b THEN a ELSE b

Most(a, b) == IF a > b THEN a ELSE b

\* A stage of the split: what each type has, what is left over and the types that may have more.
Stages == [quotas : [Kinds -> Nat], budget : Nat, pool : SUBSET Kinds]

Share(s) == s.budget \div Cardinality(s.pool)

Room(s, available) == [t \in Kinds |-> available[t] - s.quotas[t]]

\* Each type of the pool is given a share, or all it can use, and then leaves the pool.
Round(s, available) ==
    LET room == Room(s, available)
        take == [t \in Kinds |-> IF t \in s.pool THEN Least(Share(s), Most(0, room[t])) ELSE 0]
    IN  [quotas |-> [t \in Kinds |-> s.quotas[t] + take[t]],
         budget |-> s.budget - MapThenSumSet(LAMBDA t : take[t], Kinds),
         pool |-> {t \in s.pool : take[t] < room[t]}]

\* Less than one each is left: one to the first that can use it.
OneEach(s, available) ==
    LET open == {t \in s.pool : Room(s, available)[t] > 0}
    IN  [t \in Kinds |-> s.quotas[t] +
            (IF t \in open /\ Cardinality({u \in open : u < t}) < s.budget THEN 1 ELSE 0)]

Fill(available) ==
    LET fill[s \in Stages] ==
        CASE s.budget = 0 \/ s.pool = {} -> s.quotas
          [] s.budget > 0 /\ s.pool # {} /\ Share(s) = 0 -> OneEach(s, available)
          [] OTHER -> fill[Round(s, available)]
    IN  fill

\* A limit of its own is taken off the top; the others share what it leaves.
AllocateQuotas(cap, available, overrides) ==
    LET pinned == {t \in Kinds : overrides[t] # None}
        quotas == [t \in Kinds |-> IF t \in pinned THEN Least(overrides[t], available[t]) ELSE 0]
        left == Most(0, cap - MapThenSumSet(LAMBDA t : quotas[t], pinned))
    IN  Fill(available)[[quotas |-> quotas, budget |-> left, pool |-> Kinds \ pinned]]

(***************************************************************************)
(* The split never spends more than the cap, gives no type more than it has *)
(* or than a share of the larger ones, and wastes no capacity: all of the   *)
(* cap is spent, or every type has all it can use.  A cap of fewer units    *)
(* than there are types is excepted: it is handed out one each, and what    *)
(* the empty types leave of it stays unused.                                *)
(***************************************************************************)
QuotasAreFair(cap, available) ==
    LET q == AllocateQuotas(cap, available, [t \in Kinds |-> None])
        total == MapThenSumSet(LAMBDA t : q[t], Kinds)
        most == MapThenSumSet(LAMBDA t : available[t], Kinds)
    IN  /\ total =< cap
        /\ \A t \in Kinds : q[t] =< available[t]
        /\ \A t, u \in Kinds : q[t] + 1 < q[u] => q[t] = available[t]
        /\ cap >= Len(Types) => total = Least(cap, most)
=============================================================================
