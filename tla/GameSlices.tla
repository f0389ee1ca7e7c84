---------------------------- MODULE GameSlices ----------------------------
(***************************************************************************)
(* sync_games: a slice of the listed games, or of the games synced longest *)
(* ago, hydrated a chunk per request.  A game may leave the allowlist      *)
(* between its enumeration and its hydration, or when it is already in the *)
(* catalog and users hang from it.                                         *)
(***************************************************************************)
EXTENDS Integers, Sequences, FiniteSets, SequencesExt

CONSTANTS Ids,          \* targets of the enumeration, numbers
          Catalogued,   \* games in the catalog to begin with
          SliceSize, ChunkSize, MaxAttempts,
          MaxFaults, MaxChanges  \* bounds on failures and reclassifications

VARIABLES igdb, attempts, unreachable, entered, stale, slice, faults, changes

vars == <<igdb, attempts, unreachable, entered, stale, slice, faults, changes>>

None == "none"
AtRest == [step |-> "idle", pending |-> {}, work |-> <<>>, batch |-> {}, resolved |-> {}, gone |-> {}]

\* The members of S by key, and by number where keys are equal.
InOrder(S, key) ==
    [k \in 1 .. Cardinality(S) |->
        CHOOSE x \in S :
            Cardinality({y \in S : key[y] < key[x] \/ (key[y] = key[x] /\ y < x)}) = k - 1]

ByNumber(S) == InOrder(S, [x \in S |-> x])

\* A sequence without the members of S.
Without(seq, S) ==
    LET left == ByNumber({k \in DOMAIN seq : seq[k] \notin S})
    IN  [k \in DOMAIN left |-> seq[left[k]]]

\* entered: what a game was when its row was written first.  stale: rows, oldest sync first.
Init ==
    /\ igdb \in [Ids -> {"allowed", "other", "gone"}]
    /\ attempts = [x \in Ids |-> 0] /\ unreachable = {}
    /\ entered = [x \in Ids |-> IF x \in Catalogued THEN "allowed" ELSE None]
    /\ stale = ByNumber(Catalogued)
    /\ slice = AtRest /\ faults = 0 /\ changes = 0

\* IGDB reclassifies a game, merges it or brings it back.
Reclassify(x) ==
    /\ changes < MaxChanges /\ changes' = changes + 1
    /\ \E c \in {"allowed", "other", "gone"} \ {igdb[x]} : igdb' = [igdb EXCEPT ![x] = c]
    /\ UNCHANGED <<attempts, unreachable, entered, stale, slice, faults>>

Retired(x) == x \in unreachable \/ attempts[x] >= MaxAttempts
Pending == {x \in Ids : entered[x] = None /\ ~Retired(x)}
Prefix(seq, n) == SubSeq(seq, 1, IF Len(seq) < n THEN Len(seq) ELSE n)

\* _read_seed_work_list: fewest attempts first, and the rotation fills the slice.
Start ==
    /\ slice.step = "idle"
    /\ LET pending == Prefix(InOrder(Pending, attempts), SliceSize)
           work == pending \o Prefix(stale, SliceSize - Len(pending))
       IN  /\ work # <<>>
           /\ slice' = [AtRest EXCEPT !.step = "fetch", !.pending = ToSet(pending), !.work = work]
    /\ UNCHANGED <<igdb, attempts, unreachable, entered, stale, faults, changes>>

\* The clause of the enumeration is trusted.
GateOpen(x, payload) == TRUE

\* Only a game that never was in the catalog is kept out of it.
Gate(x, payload) == payload = "allowed" \/ x \notin slice.pending

Chunk == Prefix(slice.work, ChunkSize)
Rest == SubSeq(slice.work, ChunkSize + 1, Len(slice.work))

\* What the gate refuses is no conclusive pass.
ResolvedWritten(served, written) == written
Resolved(served, written) == served

\* get_games_by_ids: one request; what it does not answer for is gone.
FetchChunk ==
    /\ slice.step = "fetch" /\ slice.work # <<>>
    /\ LET served == {x \in ToSet(Chunk) : igdb[x] # "gone"}
           written == {x \in served : Gate(x, igdb[x])}
       IN  slice' = [slice EXCEPT
                       !.work = Rest, !.step = "write",
                       !.batch = {<<x, igdb[x]>> : x \in written},
                       !.resolved = @ \cup (Resolved(served, written) \cap slice.pending),
                       !.gone = @ \cup ((ToSet(Chunk) \ served) \cap slice.pending)]
    /\ UNCHANGED <<igdb, attempts, unreachable, entered, stale, faults, changes>>

\* The request raised: one error, and no id of the chunk is any nearer to retirement.
FetchFails ==
    /\ slice.step = "fetch" /\ slice.work # <<>> /\ faults < MaxFaults
    /\ faults' = faults + 1 /\ slice' = [slice EXCEPT !.work = Rest]
    /\ UNCHANGED <<igdb, attempts, unreachable, entered, stale, changes>>

\* The batch, or one by one those of it that can be written.
WriteBatch ==
    /\ slice.step = "write"
    /\ \E lost \in SUBSET slice.batch :
          LET rows == slice.batch \ lost
              ids == {r[1] : r \in rows}
          IN  /\ faults + Cardinality(lost) =< MaxFaults /\ faults' = faults + Cardinality(lost)
              /\ entered' = [x \in Ids |-> IF x \in ids /\ entered[x] = None
                                           THEN (CHOOSE r \in rows : r[1] = x)[2] ELSE entered[x]]
              /\ stale' = Without(stale, ids) \o ByNumber(ids)
    /\ slice' = [slice EXCEPT !.batch = {}, !.step = "fetch"]
    /\ UNCHANGED <<igdb, attempts, unreachable, changes>>

\* _stamp_seed_outcomes, whose failure is logged only.
Stamp ==
    /\ slice.step = "fetch" /\ slice.work = <<>> /\ slice' = AtRest
    /\ \/ /\ attempts' = [x \in Ids |-> IF x \in slice.resolved \cup slice.gone
                                        THEN attempts[x] + 1 ELSE attempts[x]]
          /\ unreachable' = unreachable \cup slice.gone /\ UNCHANGED faults
       \/ faults < MaxFaults /\ faults' = faults + 1 /\ UNCHANGED <<attempts, unreachable>>
    /\ UNCHANGED <<igdb, entered, stale, changes>>

Crash ==
    /\ slice.step # "idle" /\ faults < MaxFaults /\ faults' = faults + 1 /\ slice' = AtRest
    /\ UNCHANGED <<igdb, attempts, unreachable, entered, stale, changes>>

Job == Start \/ FetchChunk \/ WriteBatch \/ Stamp
Next == Job \/ FetchFails \/ Crash \/ \E x \in Ids : Reclassify(x)

\* nightly-sync.yml calls the endpoint every night.
Fairness == WF_vars(Job)

-----------------------------------------------------------------------------
SlicesTypeOK ==
    /\ \A x \in Ids : attempts[x] \in 0 .. MaxAttempts
    /\ ToSet(stale) = {x \in Ids : entered[x] # None} /\ IsInjective(stale)

(***************************************************************************)
(* The gate this code owns: no game enters the catalog from a payload that *)
(* is outside the allowlist, whenever it was reclassified.                 *)
(***************************************************************************)
AllowlistGuardsAdmission == \A x \in Ids : entered[x] # "other"

(***************************************************************************)
(* The backfill loop ends: a target is linked or retires, the refused ones *)
(* too, "instead of costing a slice slot every night for ever".            *)
(***************************************************************************)
Drained == Pending = {}
GamesDrain == <>[]Drained
=============================================================================
