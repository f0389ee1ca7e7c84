------------------------------- MODULE Seeding -------------------------------
(***************************************************************************)
(* The target-driven hydration of the movies, or of the series:            *)
(* seed_targets lists the external ids the catalog wants, every slice      *)
(* works on those that are not linked yet and fills what is left of it     *)
(* with the rotation of the oldest catalog items.  Slices overlap (the     *)
(* nightly workflow retries a request that timed out while the server      *)
(* still runs it, and a backfill may run next to it), fail in part, and    *)
(* die between any two of their transactions.                              *)
(*                                                                         *)
(* One action is one transaction, or one round of requests to the source.  *)
(* faults and changes only count, to bound what may go wrong and how often *)
(* the world moves; answered and reportedGone record what the source said. *)
(***************************************************************************)
EXTENDS CatalogIdentity

CONSTANTS Ids, Slugs,
          Rank,          \* seed_targets by vote_count (most voted first), then id
          Runs,          \* the slices that may be under way at a time
          SliceSize, ChunkSize, MaxAttempts,
          Sources,       \* what the source may hold at the start
          Listings,      \* the targets that may be listed at the start
          MaxFaults, MaxChanges

\* What the source answers about an id: the slug its title folds to, and whether it
\* serves a payload the catalog accepts, one that validation rejects, or a 404.
Entries == [slug : Slugs, serves : {"valid", "invalid", "gone"}]

Payloads == [id : Ids, slug : Slugs, valid : BOOLEAN]

ASSUME SeedingAssumption ==
    /\ IsFiniteSet(Ids) /\ IsFiniteSet(Runs)
    /\ NoId \notin Ids
    /\ Rank \in [Ids -> Nat] /\ IsInjective(Rank)
    /\ SliceSize \in Nat \ {0} /\ ChunkSize \in Nat \ {0} /\ MaxAttempts \in Nat \ {0}
    /\ Sources \subseteq [Ids -> Entries]
    /\ Listings \subseteq SUBSET Ids
    /\ MaxFaults \in Nat /\ MaxChanges \in Nat

VARIABLES
    source,                             \* TMDB
    listed, attempts, unreachable,      \* seed_targets
    catalog,                            \* the items and their external_ids
    stale,                              \* catalog rows by last_synced_at, oldest first
    pc, run,                            \* each slice: next step and locals
    faults, changes,                    \* bounds
    answered, reportedGone              \* history

targets == <<listed, attempts, unreachable>>
items == <<catalog, stale>>
history == <<answered, reportedGone>>
vars == <<source, targets, items, pc, run, faults, changes, history>>

Steps == {"rotation", "fetch", "batch", "single", "stamp"}

\* A slice's locals: its pending targets, what is left to fetch, the payloads still to
\* write, and the conclusive outcomes on pending targets.
Blank == [pending |-> {}, work |-> <<>>, batch |-> <<>>, resolved |-> {}, gone |-> {}]

Active(r) == pc[r] \in Steps

-----------------------------------------------------------------------------
(***************************************************************************)
(* Plausible bugs, which no specification uses.  Each one stands before    *)
(* the definition it would replace, and the comment names that one.        *)
(***************************************************************************)
\* Retired - the budget is recorded and never looked at.
RetiredUnreachable(x) == unreachable[x]

\* Retired - the 404s are recorded and never looked at.
RetiredExhausted(x) == attempts[x] >= MaxAttempts

-----------------------------------------------------------------------------
\* _unlinked_targets_stmt without _retired_clause: what a slice may work on.
Retired(x) == unreachable[x] \/ attempts[x] >= MaxAttempts
Pending == {x \in listed : Linked(catalog, x) = 0 /\ ~Retired(x)}

\* Fewest attempts first, then most voted.
Before(x, y) ==
    \/ attempts[x] < attempts[y]
    \/ attempts[x] = attempts[y] /\ Rank[x] < Rank[y]

\* The first n of a set of targets in that order.
Slice(S, n) ==
    LET first == {x \in S : Cardinality({y \in S : Before(y, x)}) < n}
    IN  [k \in 1 .. Cardinality(first) |->
            CHOOSE x \in first : Cardinality({y \in first : Before(y, x)}) = k - 1]

\* Oldest - ordered by the id of the row: the index that serves the filter.
OldestRow(n) ==
    LET rows == InOrder({i \in DOMAIN catalog : catalog[i].link # NoId})
    IN  [k \in 1 .. (IF Len(rows) < n THEN Len(rows) ELSE n) |-> catalog[rows[k]].link]

\* The ids of the n rows that were synced longest ago, of those that have one.
Oldest(n) ==
    LET rows == Picked(stale, {k \in DOMAIN stale : catalog[stale[k]].link # NoId})
    IN  [k \in 1 .. (IF Len(rows) < n THEN Len(rows) ELSE n) |-> catalog[rows[k]].link]

Payload(x) == [id |-> x, slug |-> source[x].slug, valid |-> source[x].serves = "valid"]

Goto(r, step) == pc' = [pc EXCEPT ![r] = step]

\* After a chunk: the next one, or the book-keeping.
AfterChunk(r) == IF run[r].work = <<>> THEN "stamp" ELSE "fetch"

Chunk(r) == SubSeq(run[r].work, 1, IF Len(run[r].work) < ChunkSize THEN Len(run[r].work) ELSE ChunkSize)
Rest(r) == SubSeq(run[r].work, ChunkSize + 1, Len(run[r].work))

\* Write - a row that is synced again is counted as one more row.
WriteAgain(batch) ==
    \E kept \in {Kept(catalog, batch)}, renamed \in {Renamed(catalog, batch)} :
        /\ catalog' = Relinked(Upserted(renamed, kept), kept)
        /\ \E order \in SetToSeqs({Named(catalog', p.slug) : p \in ToSet(kept)}) :
              stale' = stale \o order

\* One transaction of item writes; what it writes becomes the most recently synced.
Write(batch) ==
    \E kept \in {Kept(catalog, batch)}, renamed \in {Renamed(catalog, batch)} :
        /\ catalog' = Relinked(Upserted(renamed, kept), kept)
        /\ \E order \in SetToSeqs({Named(catalog', p.slug) : p \in ToSet(kept)}) :
              stale' = Picked(stale, {k \in DOMAIN stale : stale[k] \notin ToSet(order)}) \o order

Fault(n) == faults + n <= MaxFaults /\ faults' = faults + n

-----------------------------------------------------------------------------
Init ==
    /\ source \in Sources
    /\ listed \in Listings
    /\ attempts = [x \in Ids |-> 0]
    /\ unreachable = [x \in Ids |-> FALSE]
    /\ catalog = <<>> /\ stale = <<>>
    /\ pc = [r \in Runs |-> "idle"]
    /\ run = [r \in Runs |-> Blank]
    /\ faults = 0 /\ changes = 0
    /\ answered = [x \in Ids |-> 0]
    /\ reportedGone = {}

\* The first queries of _read_seed_work_list.  Each of its queries sees its own snapshot.
ReadPending(r) ==
    LET pending == Slice(Pending, SliceSize)
    IN  /\ pc[r] = "idle"
        /\ run' = [run EXCEPT ![r] = [Blank EXCEPT !.pending = ToSet(pending), !.work = pending]]
        /\ Goto(r, IF Len(pending) < SliceSize THEN "rotation" ELSE "fetch")
        /\ UNCHANGED <<source, targets, items, faults, changes, history>>

\* The last one: the rotation fills the slice.
ReadRotation(r) ==
    LET work == run[r].work \o Oldest(SliceSize - Len(run[r].work))
    IN  /\ pc[r] = "rotation"
        /\ run' = [run EXCEPT ![r].work = work]
        /\ Goto(r, IF work = <<>> THEN "idle" ELSE "fetch")
        /\ UNCHANGED <<source, targets, items, faults, changes, history>>

\* FetchChunk - a request that raised counts as an attempt.
FetchChunkCountingErrors(r) ==
    \E failed \in SUBSET ToSet(Chunk(r)) :
        LET served == Picked(Chunk(r), {k \in DOMAIN Chunk(r) :
                                   Chunk(r)[k] \notin failed /\ source[Chunk(r)[k]].serves # "gone"})
            notFound == {x \in ToSet(Chunk(r)) \ failed : source[x].serves = "gone"}
            resolved == (ToSet(served) \cup failed) \cap run[r].pending
            batch == [k \in DOMAIN served |-> Payload(served[k])]
        IN  /\ pc[r] = "fetch"
            /\ Fault(Cardinality(failed))
            /\ run' = [run EXCEPT ![r].work = Rest(r), ![r].batch = batch,
                                  ![r].resolved = @ \cup resolved,
                                  ![r].gone = @ \cup (notFound \cap run[r].pending)]
            /\ Goto(r, IF batch # <<>> THEN "batch" ELSE IF Rest(r) = <<>> THEN "stamp" ELSE "fetch")
            /\ answered' = [x \in Ids |-> IF x \in resolved \ failed THEN answered[x] + 1
                                          ELSE answered[x]]
            /\ reportedGone' = reportedGone \cup notFound
            /\ UNCHANGED <<source, targets, items, changes>>

(***************************************************************************)
(* The fetch phase of a chunk.  A request that raises is not conclusive.   *)
(* A 404 retires a pending target; a payload counts as an attempt at it,   *)
(* whatever becomes of the write.                                          *)
(***************************************************************************)
FetchChunk(r) ==
    \E failed \in SUBSET ToSet(Chunk(r)) :
        LET served == Picked(Chunk(r), {k \in DOMAIN Chunk(r) :
                                   Chunk(r)[k] \notin failed /\ source[Chunk(r)[k]].serves # "gone"})
            notFound == {x \in ToSet(Chunk(r)) \ failed : source[x].serves = "gone"}
            resolved == ToSet(served) \cap run[r].pending
            batch == [k \in DOMAIN served |-> Payload(served[k])]
        IN  /\ pc[r] = "fetch"
            /\ Fault(Cardinality(failed))
            /\ run' = [run EXCEPT ![r].work = Rest(r), ![r].batch = batch,
                                  ![r].resolved = @ \cup resolved,
                                  ![r].gone = @ \cup (notFound \cap run[r].pending)]
            /\ Goto(r, IF batch # <<>> THEN "batch" ELSE IF Rest(r) = <<>> THEN "stamp" ELSE "fetch")
            /\ answered' = [x \in Ids |-> IF x \in resolved THEN answered[x] + 1 ELSE answered[x]]
            /\ reportedGone' = reportedGone \cup notFound
            /\ UNCHANGED <<source, targets, items, changes>>

\* _write_batch: bulk_load_items and COMMIT ...
WriteBatch(r) ==
    /\ pc[r] = "batch"
    /\ Write(run[r].batch)
    /\ run' = [run EXCEPT ![r].batch = <<>>]
    /\ Goto(r, AfterChunk(r))
    /\ UNCHANGED <<source, targets, faults, changes, history>>

\* ... or it raises, is rolled back, and the batch is retried one item at a time.
FailBatch(r) ==
    /\ pc[r] = "batch"
    /\ Fault(1)
    /\ Goto(r, "single")
    /\ UNCHANGED <<source, targets, items, run, changes, history>>

\* _write_items_individually: each item commits, or is rolled back and counted.
WriteSingle(r) ==
    LET item == Head(run[r].batch)
    IN  /\ pc[r] = "single"
        /\ \/ item.valid /\ Write(<<item>>) /\ UNCHANGED faults
           \/ item.valid /\ Fault(1) /\ UNCHANGED items
           \/ ~item.valid /\ UNCHANGED <<items, faults>>
        /\ run' = [run EXCEPT ![r].batch = Tail(@)]
        /\ Goto(r, IF Len(run[r].batch) > 1 THEN "single" ELSE AfterChunk(r))
        /\ UNCHANGED <<source, targets, changes, history>>

\* _stamp_seed_outcomes commits the book-keeping of the slice, or loses all of it.
Stamp(r) ==
    /\ pc[r] = "stamp"
    /\ \/ /\ attempts' = [x \in Ids |-> IF x \in run[r].resolved THEN attempts[x] + 1 ELSE attempts[x]]
          /\ unreachable' = [x \in Ids |-> unreachable[x] \/ x \in run[r].gone]
          /\ UNCHANGED faults
       \/ Fault(1) /\ UNCHANGED <<attempts, unreachable>>
    /\ run' = [run EXCEPT ![r] = Blank]
    /\ Goto(r, "idle")
    /\ UNCHANGED <<source, listed, items, changes, history>>

\* The process of a slice dies; the transaction under way is rolled back.
Crash(r) ==
    /\ Active(r)
    /\ Fault(1)
    /\ run' = [run EXCEPT ![r] = Blank]
    /\ Goto(r, "idle")
    /\ UNCHANGED <<source, targets, items, changes, history>>

-----------------------------------------------------------------------------
Change == changes < MaxChanges /\ changes' = changes + 1

\* upsert_seed_targets: a target that is listed already keeps its book-keeping.
Enumerate(x) ==
    /\ Change
    /\ x \notin listed
    /\ listed' = listed \cup {x}
    /\ UNCHANGED <<source, attempts, unreachable, items, pc, run, faults, history>>

\* The source renames an entry, deletes it, or brings it back.
SourceMoves(x) ==
    /\ Change
    /\ \E entry \in Entries : entry # source[x] /\ source' = [source EXCEPT ![x] = entry]
    /\ UNCHANGED <<targets, items, pc, run, faults, history>>

\* PATCH /admin/catalog: an edit of the title locks it, unlock_fields releases it.
EditCatalogItem(i) ==
    /\ Change
    /\ catalog' = [catalog EXCEPT ![i].locked = ~@]
    /\ UNCHANGED <<source, targets, stale, pc, run, faults, history>>

\* The item page, the search fan-out or an incremental lane writes an item it fetched.
WriteElsewhere(x) ==
    /\ Change
    /\ source[x].serves = "valid"
    /\ Write(<<Payload(x)>>)
    /\ UNCHANGED <<source, targets, pc, run, faults, history>>

Advance(r) ==
    \/ ReadPending(r) \/ ReadRotation(r) \/ FetchChunk(r)
    \/ WriteBatch(r) \/ FailBatch(r) \/ WriteSingle(r) \/ Stamp(r)

Next ==
    \/ \E r \in Runs : Advance(r) \/ Crash(r)
    \/ \E x \in Ids : Enumerate(x) \/ SourceMoves(x) \/ WriteElsewhere(x)
    \/ \E i \in DOMAIN catalog : EditCatalogItem(i)

Spec == Init /\ [][Next]_vars

\* Slices are started night after night and every one of them runs to its end.
FairSpec == Spec /\ \A r \in Runs : WF_vars(Advance(r))

-----------------------------------------------------------------------------
Rows == [slug : Slugs, link : Ids \cup {NoId}, locked : BOOLEAN]

Locals == [pending : SUBSET Ids, work : Seq(Ids), batch : Seq(Payloads),
           resolved : SUBSET Ids, gone : SUBSET Ids]

TypeOK ==
    /\ source \in [Ids -> Entries]
    /\ listed \subseteq Ids
    /\ attempts \in [Ids -> Nat]
    /\ unreachable \in [Ids -> BOOLEAN]
    /\ catalog \in Seq(Rows)
    /\ stale \in Seq(DOMAIN catalog) /\ Len(stale) = Len(catalog) /\ IsInjective(stale)
    /\ pc \in [Runs -> Steps \cup {"idle"}]
    /\ run \in [Runs -> Locals]
    /\ faults \in 0 .. MaxFaults /\ changes \in 0 .. MaxChanges
    /\ answered \in [Ids -> Nat]
    /\ reportedGone \subseteq Ids

(***************************************************************************)
(* The budget of a target is spent on answers of the source only: never on *)
(* a request that failed, a slice that died, or the same answer twice; and *)
(* only a 404 makes a target unreachable (mark_seed_targets_attempted,     *)
(* "a fetch that raised does not count").                                  *)
(***************************************************************************)
BudgetSpentOnAnswers ==
    \A x \in Ids : /\ attempts[x] <= answered[x]
                   /\ unreachable[x] => x \in reportedGone

(***************************************************************************)
(* _retired_clause bounds what a target can cost: TMDB_SEED_MAX_ATTEMPTS   *)
(* passes, and one more for every other slice that had already taken it    *)
(* from the work list when it was retired.                                 *)
(***************************************************************************)
AttemptsBounded == \A x \in Ids : attempts[x] <= MaxAttempts - 1 + Cardinality(Runs)

(***************************************************************************)
(* No two rows share a slug or an external id, after whatever renames,     *)
(* homonyms, locks and retries: no transaction of the write path asks the  *)
(* database for what uq_*_slug or uq_external_id would refuse.             *)
(***************************************************************************)
KeysUnique ==
    \A i, j \in DOMAIN catalog :
        i # j => /\ catalog[i].slug # catalog[j].slug
                 /\ catalog[i].link = catalog[j].link => catalog[i].link = NoId

(***************************************************************************)
(* The number of workable targets reaches 0 and stays there once the       *)
(* source and the enumeration are quiet: two ids that keep taking one row  *)
(* from each other, payloads that are always rejected and 404s all retire. *)
(* The rotation and the end of a backfill depend on it.                    *)
(***************************************************************************)
PendingDrains == <>[](Pending = {})

\* A slice commits an accepted payload of x.
Resyncs(x) ==
    \E r \in Runs :
        /\ pc[r] \in {"batch", "single"} /\ faults' = faults /\ Len(run'[r].batch) < Len(run[r].batch)
        /\ \E k \in DOMAIN run[r].batch :
              /\ run[r].batch[k].id = x /\ run[r].batch[k].valid
              /\ pc[r] = "batch" \/ k = 1

(***************************************************************************)
(* An item whose source keeps serving it is re-synced again and again:     *)
(* the rotation of _read_seed_work_list reaches it however many new        *)
(* targets, homonyms and failures came before.  This is how the catalog    *)
(* stays within the 6 months that TMDB allows (docs/schema.md).            *)
(***************************************************************************)
RotationReachesEveryItem ==
    \A x \in Ids :
        <>[](Linked(catalog, x) # 0 /\ source[x].serves = "valid") =>
            []<><<Resyncs(x)>>_vars
=============================================================================
