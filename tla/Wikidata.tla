------------------------------ MODULE Wikidata ------------------------------
(***************************************************************************)
(* The two resumable passes over Wikidata                                   *)
(* (recommendations/wikidata_sync.py, scripts/sync_wikidata.py).  The        *)
(* anchor pass walks the rows of external_ids that link items to their own  *)
(* source and adds to each item the Wikidata entity that carries that id;   *)
(* the relations pass walks the anchors and writes an edge for every        *)
(* statement that joins two anchored items.  Each pass commits what it      *)
(* wrote together with the row id it reached, and starts over after the     *)
(* last row.  Meanwhile the lanes that fill the catalog link new items, the *)
(* budget of a pass runs out, and a request or the process fails.           *)
(***************************************************************************)
EXTENDS Integers, Sequences, FiniteSets, SequencesExt

CONSTANTS
    Items,          \* catalogued items, all types together
    Types,          \* the types in the order of ANCHOR_PROPERTIES, a sequence
    TypeOf,         \* the type of each item
    LinkedFirst,    \* the items linked to their source from the start, a sequence
    Entities,       \* QIDs
    Carries,        \* item -> the entities that carry its external id
    Statements,     \* what fetch_relations knows: [from, relation, to]
    BatchSize, RelationBatch,
    MaxFaults       \* bound on expired budgets, failed requests and lost processes

VARIABLES
    rows,           \* external_ids in the order of their ids: [item, source, value]
    cursor,         \* sync_watermarks.cursor_value of each lane; 0 is None
    edges,          \* item_relations: [from, to, relation]
    pass,           \* the run in flight
    asked,          \* per type, the rows whose answer was committed since the last wrap
    faults

vars == <<rows, cursor, edges, pass, asked, faults>>

\* A lane for each type, and one for the relations of all of them.
Relations == 0
Lanes == {Relations} \cup 1 .. Len(Types)

Native(i) == [item |-> i, source |-> "NATIVE", value |-> i]

Idle == [step |-> "idle", lane |-> 1, at |-> 0, batch |-> <<>>]

Init ==
    /\ rows = [k \in DOMAIN LinkedFirst |-> Native(LinkedFirst[k])]
    /\ cursor = [l \in Lanes |-> 0]
    /\ edges = {}
    /\ pass = Idle
    /\ asked = [t \in 1 .. Len(Types) |-> {}]
    /\ faults = 0

(***************************************************************************)
(* The table.                                                               *)
(***************************************************************************)

RowsOf(source) == {n \in DOMAIN rows : rows[n].source = source}

Held(rs, i) == {n \in DOMAIN rs : rs[n].source = "WIKIDATA" /\ rs[n].item = i}

Owned(rs, type, q) ==
    {n \in DOMAIN rs : /\ rs[n].source = "WIKIDATA"
                       /\ TypeOf[rs[n].item] = type
                       /\ rs[n].value = q}

Anchor(i) == {rows[n].value : n \in Held(rows, i)}

\* ORDER BY id LIMIT n.
FirstRows(ns, n) ==
    [k \in 1 .. (IF Cardinality(ns) < n THEN Cardinality(ns) ELSE n) |->
        CHOOSE x \in ns : Cardinality({j \in ns : j < x}) = k - 1]

CatalogBatch(t, after) ==
    FirstRows({n \in RowsOf("NATIVE") : TypeOf[rows[n].item] = Types[t] /\ n > after}, BatchSize)

AnchoredBatch(after) == FirstRows({n \in RowsOf("WIKIDATA") : n > after}, RelationBatch)

\* upsert_external_id: an entity somebody owns stays theirs, the item's other one is replaced.
Upsert(rs, i, q) ==
    CASE Owned(rs, TypeOf[i], q) # {} -> rs
      [] Owned(rs, TypeOf[i], q) = {} /\ Held(rs, i) # {} ->
            [n \in DOMAIN rs |-> IF n \in Held(rs, i) THEN [rs[n] EXCEPT !.value = q] ELSE rs[n]]
      [] OTHER -> Append(rs, [item |-> i, source |-> "WIKIDATA", value |-> q])

(***************************************************************************)
(* The endpoint.  A binding that is not an entity is dropped.               *)
(***************************************************************************)

ResolveQids(i) == Carries[i] \cap Entities

FetchRelations(qids) == {s \in Statements : s.from \in qids /\ s.to \in Entities}

(***************************************************************************)
(* The anchor pass.                                                         *)
(***************************************************************************)

ReadCursor(l) == cursor[l]

WriteCursor(l, at) == cursor' = [cursor EXCEPT ![l] = at]

\* --pass anchor or --pass relations: each takes up where it was left.
Start(step) ==
    LET first == IF step = "anchor" THEN 1 ELSE Relations IN
    /\ pass = Idle
    /\ pass' = [Idle EXCEPT !.step = step, !.lane = first, !.at = ReadCursor(first)]
    /\ UNCHANGED <<rows, cursor, edges, asked, faults>>

\* The next type of the for loop, or the end of the pass.
NextType ==
    IF pass.lane < Len(Types)
    THEN [pass EXCEPT !.lane = @ + 1, !.at = ReadCursor(pass.lane + 1)]
    ELSE Idle

\* The cursor moves when the batch is read.
ReadAnchorsEager ==
    LET t == pass.lane
        batch == CatalogBatch(t, pass.at) IN
    /\ pass.step = "anchor"
    /\ IF batch = <<>>
       THEN /\ WriteCursor(t, 0)
            /\ asked' = [asked EXCEPT ![t] = {}]
            /\ pass' = NextType
       ELSE /\ pass' = [pass EXCEPT !.step = "link", !.batch = batch]
            /\ WriteCursor(t, batch[Len(batch)])
            /\ UNCHANGED asked
    /\ UNCHANGED <<rows, edges, faults>>

ReadAnchors ==
    LET t == pass.lane
        batch == CatalogBatch(t, pass.at) IN
    /\ pass.step = "anchor"
    /\ IF batch = <<>>
       THEN /\ WriteCursor(t, 0)
            /\ asked' = [asked EXCEPT ![t] = {}]
            /\ pass' = NextType
       ELSE /\ pass' = [pass EXCEPT !.step = "link", !.batch = batch]
            /\ UNCHANGED <<cursor, asked>>
    /\ UNCHANGED <<rows, edges, faults>>

\* The first of several entities is taken.
LinkRowFirst(rs, n) ==
    LET i == rs[n].item
        qids == ResolveQids(i) IN
    IF qids # {} THEN Upsert(rs, i, CHOOSE q \in qids : TRUE) ELSE rs

\* One row of the answer: nobody or more than one entity carries the id, or just one.
LinkRow(rs, n) ==
    LET i == rs[n].item
        qids == ResolveQids(i) IN
    IF Cardinality(qids) = 1 THEN Upsert(rs, i, CHOOSE q \in qids : TRUE) ELSE rs

LinkRows(batch) ==
    LET after[k \in 0 .. Len(batch)] ==
            IF k = 0 THEN rows ELSE LinkRow(after[k - 1], batch[k])
    IN  after[Len(batch)]

WriteAnchors ==
    LET t == pass.lane
        last == pass.batch[Len(pass.batch)] IN
    /\ pass.step = "link"
    /\ rows' = LinkRows(pass.batch)
    /\ WriteCursor(t, last)
    /\ asked' = [asked EXCEPT ![t] = @ \cup ToSet(pass.batch)]
    /\ pass' = [pass EXCEPT !.step = "anchor", !.batch = <<>>, !.at = last]
    /\ UNCHANGED <<edges, faults>>

(***************************************************************************)
(* The relations pass.                                                      *)
(***************************************************************************)

Anchors(batch) ==
    [k \in DOMAIN batch |-> [row |-> batch[k], item |-> rows[batch[k]].item,
                             value |-> rows[batch[k]].value]]

\* The relations pass stays behind its last row.
ReadRelationsOnce ==
    LET batch == AnchoredBatch(pass.at) IN
    /\ pass.step = "relations"
    /\ pass' = IF batch = <<>> THEN Idle
               ELSE [pass EXCEPT !.step = "join",
                                 !.batch = Anchors(batch)]
    /\ UNCHANGED <<rows, cursor, edges, asked, faults>>

ReadRelations ==
    LET batch == AnchoredBatch(pass.at) IN
    /\ pass.step = "relations"
    /\ IF batch = <<>>
       THEN /\ WriteCursor(Relations, 0)
            /\ pass' = Idle
       ELSE /\ pass' = [pass EXCEPT !.step = "join",
                                    !.batch = Anchors(batch)]
            /\ UNCHANGED cursor
    /\ UNCHANGED <<rows, edges, asked, faults>>

\* The statements about the batch whose other end is anchored by now.
Joins(batch) ==
    {e \in [from : {r.item : r \in ToSet(batch)}, to : Items, relation : {"ADAPTATION", "DERIVATIVE"}] :
        \E r \in ToSet(batch), s \in FetchRelations({r.value : r \in ToSet(batch)}) :
            /\ r.item = e.from /\ r.value = s.from
            /\ s.relation = e.relation
            /\ s.to \in Anchor(e.to)}

\* Written once each, and never from an item to itself.
AddEdges(es) == edges' = edges \cup {e \in es : e.from # e.to}

WriteRelations ==
    LET last == pass.batch[Len(pass.batch)].row IN
    /\ pass.step = "join"
    /\ AddEdges(Joins(pass.batch))
    /\ WriteCursor(Relations, last)
    /\ pass' = [pass EXCEPT !.step = "relations", !.batch = <<>>, !.at = last]
    /\ UNCHANGED <<rows, asked, faults>>

(***************************************************************************)
(* The surroundings.                                                        *)
(***************************************************************************)

\* The budget expires between two batches, a request fails for good, or the process is lost.
Fail ==
    /\ pass # Idle
    /\ faults < MaxFaults
    /\ faults' = faults + 1
    /\ pass' = Idle
    /\ UNCHANGED <<rows, cursor, edges, asked>>

\* Another lane links a new item to its source.
LinkItem(i) ==
    /\ \A n \in RowsOf("NATIVE") : rows[n].item # i
    /\ rows' = Append(rows, Native(i))
    /\ UNCHANGED <<cursor, edges, pass, asked, faults>>

Next ==
    \/ \E step \in {"anchor", "relations"} : Start(step)
    \/ ReadAnchors \/ WriteAnchors
    \/ ReadRelations \/ WriteRelations
    \/ Fail
    \/ \E i \in Items : LinkItem(i)

\* The script runs both passes, one after the other, whenever it is scheduled.
Fairness ==
    /\ SF_vars(Start("anchor")) /\ SF_vars(Start("relations"))
    /\ WF_vars(ReadAnchors \/ WriteAnchors)
    /\ WF_vars(ReadRelations \/ WriteRelations)

Spec == Init /\ [][Next]_vars
FairSpec == Spec /\ Fairness

(***************************************************************************)
(* What the page of an item shows (get_item_adaptations).                   *)
(***************************************************************************)

\* A derived work is shown as the source.
DirectionAsSource(relation, isFrom) == IF isFrom THEN "SOURCE" ELSE "DERIVED"

DirectionOfOtherEnd(relation, isFrom) ==
    IF (relation = "ADAPTATION") = isFrom THEN "SOURCE" ELSE "DERIVED"

Adaptations(i) ==
    {<<e.to, DirectionOfOtherEnd(e.relation, TRUE)>> : e \in {x \in edges : x.from = i}}
      \cup {<<e.from, DirectionOfOtherEnd(e.relation, FALSE)>> : e \in {x \in edges : x.to = i}}

(***************************************************************************)
(* Properties.                                                              *)
(***************************************************************************)

TypeOK ==
    /\ \A n \in DOMAIN rows : rows[n].item \in Items /\ rows[n].source \in {"NATIVE", "WIKIDATA"}
    /\ cursor \in [Lanes -> 0 .. Len(rows)]
    /\ edges \subseteq [from : Items, to : Items, relation : {"ADAPTATION", "DERIVATIVE"}]
    /\ faults \in 0 .. MaxFaults

(***************************************************************************)
(* The cursor of a type never gets ahead of the work: every linked row it   *)
(* has passed had its answer committed since the walk last started over,    *)
(* whatever failed in between.                                              *)
(***************************************************************************)
CursorFollowsTheWork ==
    \A t \in 1 .. Len(Types) :
        {n \in RowsOf("NATIVE") : TypeOf[rows[n].item] = Types[t] /\ n =< cursor[t]}
            \subseteq asked[t]

(***************************************************************************)
(* An edge joins two items that Wikidata names without ambiguity and says   *)
(* that of, and no entity is the anchor of two items of a type.             *)
(***************************************************************************)
EdgesAreGrounded ==
    /\ \A e \in edges : \E s \in Statements :
          /\ ResolveQids(e.from) = {s.from} /\ ResolveQids(e.to) = {s.to}
          /\ s.relation = e.relation
    /\ \A i, j \in Items : i # j /\ TypeOf[i] = TypeOf[j] => Anchor(i) \cap Anchor(j) = {}

(***************************************************************************)
(* The two pages of an edge tell the same story: one end is the source of   *)
(* the other exactly when the other derives from it.                        *)
(***************************************************************************)
PagesAgree ==
    \A s \in Statements, i, j \in Items :
        [from |-> i, to |-> j, relation |-> s.relation] \in edges =>
            /\ \/ s.relation = "ADAPTATION" /\ <<j, "SOURCE">> \in Adaptations(i)
               \/ s.relation = "DERIVATIVE" /\ <<j, "DERIVED">> \in Adaptations(i)
            /\ <<j, "SOURCE">> \in Adaptations(i) <=> <<i, "DERIVED">> \in Adaptations(j)

(***************************************************************************)
(* RelationsAppear: two anchored items that a statement joins are sooner or *)
(* later joined by an edge, also when the second was anchored after the     *)
(* pass went by the first: the passes start over.                           *)
(***************************************************************************)
EveryStatementJoined ==
    \A s \in Statements, i, j \in Items :
        i # j /\ s.from \in Anchor(i) /\ s.to \in Anchor(j)
            => [from |-> i, to |-> j, relation |-> s.relation] \in edges

RelationsAppear == []<>EveryStatementJoined
=============================================================================
