-------------------------- MODULE MissingCredits --------------------------
(***************************************************************************)
(* sync_missing_credits: items without people are fetched a chunk at a     *)
(* time and sealed by a stamp, so that one which has none is not asked     *)
(* about for ever.  The stamp travels in the transaction of the credits.   *)
(* The people of a film come with one request; the authors of a book are   *)
(* asked for one by one, and one whose request times out is left out of    *)
(* the answer.  Runs may overlap: each works on the list it read at its    *)
(* start.                                                                  *)
(***************************************************************************)
EXTENDS Integers, Sequences, FiniteSets, SequencesExt

CONSTANTS Items, Linked,    \* item ids, and those with an external id
          ByAuthor,         \* books: the items whose people are asked for one by one
          Names,            \* linked item -> the people that the source names
          Rejected,         \* people whose payload the writers refuse
          Runs, ChunkSize,
          MaxFaults

VARIABLES people, sealed, job, faults, answered, unheard

vars == <<people, sealed, job, faults, answered, unheard>>

AtRest == [step |-> "idle", work |-> <<>>, done |-> {}, rows |-> {}]

\* What is credited, asked about or lost: an item and one of its people.
CreditsOf(items) == UNION {{x} \X Names[x] : x \in items}
ItemsOf(rows) == {row[1] : row \in rows}

\* unheard: the authors whose own request was given up on.
Init ==
    /\ \E credited \in SUBSET Linked : people = CreditsOf(credited)
    /\ sealed = {} /\ answered = {} /\ unheard = {}
    /\ job = [r \in Runs |-> AtRest] /\ faults = 0

\* get_credit_gaps; recheck asks the sealed ones again.  A job is of one type of items, so
\* ByAuthor is {} or Items there; nothing below needs that.
Gaps(recheck) == {x \in Items \ ItemsOf(people) : recheck \/ x \notin sealed}
Workable(recheck) == Gaps(recheck) \cap Linked

Start(r) ==
    /\ job[r].step = "idle"
    /\ \E recheck \in BOOLEAN :
          /\ Workable(recheck) # {}
          /\ job' = [job EXCEPT ![r] = [AtRest EXCEPT !.step = "fetch",
                                            !.work = SetToSortSeq(Workable(recheck), <)]]
    /\ UNCHANGED <<people, sealed, faults, answered, unheard>>

Chunk(r) == ToSet(SubSeq(job[r].work, 1, IF Len(job[r].work) < ChunkSize THEN Len(job[r].work)
                                         ELSE ChunkSize))
Rest(r) == SubSeq(job[r].work, ChunkSize + 1, Len(job[r].work))

\* gather(return_exceptions=True): each item fails by itself.  get_author fails by no exception:
\* after its timeouts the author is passed over, and the item counts as answered.
FetchChunk(r) ==
    /\ job[r].step = "fetch" /\ job[r].work # <<>>
    /\ \E failed \in SUBSET Chunk(r) :
       LET got == Chunk(r) \ failed
       IN  \E missed \in SUBSET CreditsOf(got \cap ByAuthor) :
              /\ faults' = faults + Cardinality(failed) + Cardinality(missed)
              /\ faults' =< MaxFaults
              /\ job' = [job EXCEPT ![r] = [@ EXCEPT !.step = "write", !.work = Rest(r), !.done = got,
                                                !.rows = CreditsOf(got) \ missed]]
              /\ answered' = answered \cup got /\ unheard' = unheard \cup missed
    /\ UNCHANGED <<people, sealed>>

\* Both writers pass over the people they refuse, and count them.
Accepted(rows) == {row \in rows : row[2] \notin Rejected}

\* The stamp of a chunk is committed although its credits were not.
WriteStampFirst(r) ==
    /\ job[r].step = "write"
    /\ \/ people' = people \cup Accepted(job[r].rows) /\ UNCHANGED faults
       \/ faults < MaxFaults /\ faults' = faults + 1 /\ UNCHANGED people
    /\ sealed' = sealed \cup job[r].done
    /\ job' = [job EXCEPT ![r] = [@ EXCEPT !.step = "fetch", !.done = {}, !.rows = {}]]
    /\ UNCHANGED <<answered, unheard>>

\* _write_credits_batch, and item by item when it fails: an item is stamped with what was
\* accepted of its people, none of them included.
Write(r) ==
    /\ job[r].step = "write"
    /\ \E lost \in SUBSET job[r].done :
          /\ faults + Cardinality(lost) =< MaxFaults /\ faults' = faults + Cardinality(lost)
          /\ people' = people \cup {row \in Accepted(job[r].rows) : row[1] \notin lost}
          /\ sealed' = sealed \cup (job[r].done \ lost)
    /\ job' = [job EXCEPT ![r] = [@ EXCEPT !.step = "fetch", !.done = {}, !.rows = {}]]
    /\ UNCHANGED <<answered, unheard>>

\* The list is exhausted, or the time budget spent.
Finish(r) ==
    /\ job[r].step = "fetch" /\ (job[r].work = <<>> \/ faults < MaxFaults)
    /\ faults' = IF job[r].work = <<>> THEN faults ELSE faults + 1
    /\ job' = [job EXCEPT ![r] = AtRest]
    /\ UNCHANGED <<people, sealed, answered, unheard>>

\* The runner is killed before the commit of a chunk.
Crash(r) ==
    /\ job[r].step = "write" /\ faults < MaxFaults /\ faults' = faults + 1
    /\ job' = [job EXCEPT ![r] = AtRest]
    /\ UNCHANGED <<people, sealed, answered, unheard>>

Step(r) == Start(r) \/ FetchChunk(r) \/ Write(r) \/ Finish(r)
Next == \E r \in Runs : Step(r) \/ Crash(r)

Spec == Init /\ [][Next]_vars
Fairness == \A r \in Runs : WF_vars(Step(r))

-----------------------------------------------------------------------------
(***************************************************************************)
(* "a rollback must not leave an item marked as done with no credits       *)
(* written": a sealed item was answered for, and has everybody whom the    *)
(* source names, except the people that the writers refuse and the authors *)
(* of a book whose own request was given up on.                            *)
(***************************************************************************)
SealedMeansAnswered ==
    /\ sealed \subseteq answered
    /\ \A x \in sealed : \A p \in Names[x] \ Rejected : <<x, p>> \in people \cup unheard
    /\ ItemsOf(unheard) \subseteq ByAuthor

(***************************************************************************)
(* The list converges: in the end every item that can be asked about has   *)
(* its people or its seal, although runs stop at their budget.             *)
(***************************************************************************)
Closed == Workable(FALSE) = {}
GapsClose == <>[]Closed
=============================================================================
