----------------------------- MODULE Embeddings -----------------------------
(***************************************************************************)
(* The embedding pass (recommendations/embeddings.py,                       *)
(* scripts/generate_embeddings.py): the best items of each type, up to a    *)
(* quota, get a vector of their text.  A pass has no cursor: it walks the   *)
(* same list from the top every time and skips what has not changed, which  *)
(* it tells by the hash of the text and the name of the model kept beside   *)
(* each vector.  Meanwhile the syncs add and rewrite items, the deployment  *)
(* changes its model, passes overlap, run out of budget and die.            *)
(***************************************************************************)
EXTENDS EmbeddingQuotas, Sequences, SequencesExt

CONSTANTS
    Items,          \* items, numbered in the order of _embedding_rank_order
    TypeOf,         \* the type of each item, a position in Types
    Cap,            \* EMBEDDING_MAX_ITEMS
    Overrides,      \* the limit of each type in the settings, or -1
    BatchSize,      \* EMBEDDING_BATCH_SIZE
    Runs,           \* passes that may overlap
    Models,         \* embedder names, numbers; deployments only move forward
    MaxEdits,       \* bound on additions and changes of text
    MaxFaults       \* bound on expired budgets and lost processes

VARIABLES
    text,           \* item -> the version of its text; 0 is not catalogued yet
    model,          \* the embedder that new passes load
    store,          \* item_embeddings: item -> [vector, hash, model], or NoRow
    run,            \* the passes
    edits, faults

vars == <<text, model, store, run, edits, faults>>

(***************************************************************************)
(* The catalog and the store.                                               *)
(***************************************************************************)

Catalogued(t) == {i \in Items : TypeOf[i] = t /\ text[i] > 0}

NoRow == [vector |-> <<0, 0>>, hash |-> 0, model |-> 0]

\* Computed once for the whole pass.
SelectCandidates(t, limit) ==
    LET ranked == SetToSortSeq(Catalogued(t), <) IN
    SubSeq(ranked, 1, Least(limit, Len(ranked)))

Quotas == AllocateQuotas(Cap, [t \in Kinds |-> Cardinality(Catalogued(t))], Overrides)

\* Another model would not be noticed.
UnchangedText(i, v, m) == store[i].hash = v

\* The text decides, and so does the model that read it.
Unchanged(i, v, m) == store[i].hash = v /\ store[i].model = m

\* INSERT ... ON CONFLICT DO UPDATE: the whole row is replaced.
UpsertEmbeddings(es) ==
    store' = [i \in Items |-> IF i \in DOMAIN es THEN es[i] ELSE store[i]]

(***************************************************************************)
(* A pass.                                                                  *)
(***************************************************************************)

Idle == [step |-> "idle", type |-> 0, model |-> 0, quotas |-> <<>>, queue |-> <<>>, pending |-> <<>>]

Init ==
    /\ text \in [Items -> {0, 1}]
    /\ model = 1
    /\ store = [i \in Items |-> NoRow]
    /\ run = [r \in Runs |-> Idle]
    /\ edits = 0
    /\ faults = 0

Start(r) ==
    /\ run[r].step = "idle"
    /\ run' = [run EXCEPT ![r] = [Idle EXCEPT !.step = "type", !.model = model, !.quotas = Quotas]]
    /\ UNCHANGED <<text, model, store, edits, faults>>

NextType(r) ==
    LET t == run[r].type + 1 IN
    /\ run[r].step = "type"
    /\ run' = [run EXCEPT ![r] =
                  IF t > Len(Types) THEN Idle
                  ELSE [@ EXCEPT !.step = "batch", !.type = t,
                                 !.queue = SelectCandidates(t, run[r].quotas[t])]]
    /\ UNCHANGED <<text, model, store, edits, faults>>

\* load_embedding_sources: what of the batch is to be embedded, with the text it has now.
ReadBatch(r) ==
    LET me == run[r]
        size == Least(BatchSize, Len(me.queue))
        pending == SelectSeq([k \in 1 .. size |-> [item |-> me.queue[k], text |-> text[me.queue[k]]]],
                             LAMBDA p : ~Unchanged(p.item, p.text, me.model))
    IN  /\ me.step = "batch"
        /\ run' = [run EXCEPT ![r] =
                      IF size = 0 THEN [@ EXCEPT !.step = "type"]
                      ELSE [@ EXCEPT !.queue = SubSeq(@, size + 1, Len(@)),
                                     !.pending = pending,
                                     !.step = IF pending = <<>> THEN "batch" ELSE "embed"]]
        /\ UNCHANGED <<text, model, store, edits, faults>>

\* The text is read once more for the hash.
RowOfNow(p, m) == [vector |-> <<p.text, m>>, hash |-> text[p.item], model |-> m]

Row(p, m) == [vector |-> <<p.text, m>>, hash |-> p.text, model |-> m]

\* The model has answered: the batch is written with the text that was embedded.
WriteBatch(r) ==
    LET me == run[r]
        batch == ToSet(me.pending)
    IN  /\ me.step = "embed"
        /\ UpsertEmbeddings([i \in {p.item : p \in batch} |->
                                Row(CHOOSE p \in batch : p.item = i, me.model)])
        /\ run' = [run EXCEPT ![r].step = "batch", ![r].pending = <<>>]
        /\ UNCHANGED <<text, model, edits, faults>>

(***************************************************************************)
(* The surroundings.                                                        *)
(***************************************************************************)

\* The budget expires between two batches, a batch fails, or the process is lost.
Fail(r) ==
    /\ run[r] # Idle
    /\ faults < MaxFaults
    /\ faults' = faults + 1
    /\ run' = [run EXCEPT ![r] = Idle]
    /\ UNCHANGED <<text, model, store, edits>>

\* A sync adds an item or rewrites its title, its genres or its overview.
Edit(i) ==
    /\ edits < MaxEdits
    /\ edits' = edits + 1
    /\ text' = [text EXCEPT ![i] = @ + 1]
    /\ UNCHANGED <<model, store, run, faults>>

Deploy ==
    /\ model + 1 \in Models
    /\ model' = model + 1
    /\ UNCHANGED <<text, store, run, edits, faults>>

Pass(r) == Start(r) \/ NextType(r) \/ ReadBatch(r) \/ WriteBatch(r)

Next ==
    \/ \E r \in Runs : Pass(r) \/ Fail(r)
    \/ \E i \in Items : Edit(i)
    \/ Deploy

\* The workflow starts pass after pass, and each gets on.
Fairness == \A r \in Runs : WF_vars(Pass(r))

Spec == Init /\ [][Next]_vars
FairSpec == Spec /\ Fairness

(***************************************************************************)
(* Properties.                                                              *)
(***************************************************************************)

(***************************************************************************)
(* The hash and the model kept beside a vector are those it was made from,  *)
(* also when the text was rewritten while the model was reading it: the     *)
(* staleness of a vector can always be told.                                *)
(***************************************************************************)
StalenessIsVisible ==
    \A i \in Items : store[i].vector = <<store[i].hash, store[i].model>>

(***************************************************************************)
(* Sooner or later every item that its type has room for carries a vector   *)
(* of the text and the model of today, and keeps it until one of the two    *)
(* changes: lost passes and passes of an older model do not leave one       *)
(* behind for good.                                                         *)
(***************************************************************************)
Covered ==
    \A t \in Kinds : \A i \in ToSet(SelectCandidates(t, Quotas[t])) :
        store[i].hash = text[i] /\ store[i].model = model

VectorsCatchUp == []<>Covered
=============================================================================
