---------------------------- MODULE BookSlices ----------------------------
(***************************************************************************)
(* sync_books: the nightly slice of the books synced longest ago.  A chunk *)
(* of works is asked for in one request, and each of the answered ones for *)
(* its detail and its authors; every request may fail by itself.           *)
(***************************************************************************)
EXTENDS Integers, Sequences, FiniteSets, SequencesExt

CONSTANTS Books, Writers,   \* works of the catalog, people
          Answered,         \* the works that the search index still has
          Detailed,         \* the ones whose record can still be read (404 otherwise)
          Described,        \* the ones whose record has a description
          AuthorsOf,        \* book -> the authors its record names
          SliceSize, ChunkSize,
          MaxFaults         \* bound on failed requests and rejected rows

VARIABLES overview, credits, stale, job, faults

vars == <<overview, credits, stale, job, faults>>

AtRest == [step |-> "idle", work |-> <<>>, batch |-> {}]

\* stale: the rows, the one synced longest ago first.
Init ==
    /\ overview = [b \in Books |-> TRUE] /\ credits = [b \in Books |-> {}]
    /\ stale = SetToSortSeq(Books, <)
    /\ job = AtRest /\ faults = 0

Prefix(seq, n) == SubSeq(seq, 1, IF Len(seq) < n THEN Len(seq) ELSE n)

\* get_stale_catalog_external_ids, with the order turned round.
NewestFirst == Prefix(Reverse(stale), SliceSize)
Oldest == Prefix(stale, SliceSize)

Start ==
    /\ job.step = "idle"
    /\ job' = [AtRest EXCEPT !.step = "fetch", !.work = Oldest]
    /\ UNCHANGED <<overview, credits, stale, faults>>

Chunk == ToSet(Prefix(job.work, ChunkSize))
Rest == SubSeq(job.work, ChunkSize + 1, Len(job.work))

\* collect_book_authors: an author who cannot be read is left out.
Authors(b, unread) == AuthorsOf[b] \ unread

\* book_to_dict with the record when there is one.
WithoutDetail(failed) == {[book |-> b, overview |-> FALSE] : b \in (Chunk \cap Answered) \cap failed}
Rows(failed) == {[book |-> b, overview |-> b \in Described] :
                    b \in (Chunk \cap Answered \cap Detailed) \ failed}

\* A book whose detail is missing or fails is passed over whole.
RowsAnyway(failed) == Rows(failed) \cup WithoutDetail(failed)
BatchOf(failed) == Rows(failed)

FetchChunk ==
    /\ job.step = "fetch" /\ job.work # <<>>
    /\ \E failed \in SUBSET (Chunk \cap Answered), unread \in SUBSET Writers :
          /\ faults + Cardinality(failed) + Cardinality(unread) =< MaxFaults
          /\ faults' = faults + Cardinality(failed) + Cardinality(unread)
          /\ job' = [job EXCEPT !.work = Rest,
                        !.batch = @ \cup {[book |-> r.book, overview |-> r.overview,
                                           authors |-> Authors(r.book, unread)] : r \in BatchOf(failed)}]
    /\ UNCHANGED <<overview, credits, stale>>

\* The request for the whole chunk fails: one error, and the next chunk.
ChunkFails ==
    /\ job.step = "fetch" /\ job.work # <<>> /\ faults < MaxFaults /\ faults' = faults + 1
    /\ job' = [job EXCEPT !.work = Rest]
    /\ UNCHANGED <<overview, credits, stale>>

\* BatchWriter.flush; the loader replaces the columns and adds the credits.
Flush ==
    /\ job.step = "fetch" /\ job.work = <<>> /\ job' = AtRest
    /\ \E rejected \in SUBSET job.batch :
          /\ faults + Cardinality(rejected) =< MaxFaults /\ faults' = faults + Cardinality(rejected)
          /\ LET rows == job.batch \ rejected
                 ids == {r.book : r \in rows}
                 Of(b) == CHOOSE r \in rows : r.book = b
             IN  /\ overview' = [b \in Books |-> IF b \in ids THEN Of(b).overview ELSE overview[b]]
                 /\ credits' = [b \in Books |-> IF b \in ids THEN credits[b] \cup Of(b).authors
                                                ELSE credits[b]]
                 /\ stale' = SelectSeq(stale, LAMBDA b : b \notin ids) \o SetToSortSeq(ids, <)

Killed ==
    /\ job.step # "idle" /\ faults < MaxFaults /\ faults' = faults + 1 /\ job' = AtRest
    /\ UNCHANGED <<overview, credits, stale>>

Job == Start \/ FetchChunk \/ Flush
Next == Job \/ ChunkFails \/ Killed
Fairness == WF_vars(Job)

-----------------------------------------------------------------------------
(***************************************************************************)
(* A transient failure erases nothing: a synopsis goes only when the       *)
(* source has none, and no credit goes at all.                             *)
(***************************************************************************)
StepErasesNothing ==
    \A b \in Books : /\ overview[b] /\ ~overview'[b] => b \in Detailed \ Described
                     /\ credits[b] \subseteq credits'[b]

(***************************************************************************)
(* While the books that the source no longer serves are fewer than a slice *)
(* they do not block the rotation: every other book has its authors in the *)
(* end.                                                                    *)
(***************************************************************************)
Refreshed ==
    Cardinality(Books \ (Answered \cap Detailed)) < SliceSize =>
        \A b \in Answered \cap Detailed : credits[b] = AuthorsOf[b]
EveryBookComesRound == <>[]Refreshed
=============================================================================
