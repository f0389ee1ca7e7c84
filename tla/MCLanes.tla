------------------------------- MODULE MCLanes -------------------------------
(***************************************************************************)
(* The jobs on small sources, and how they are scheduled.                  *)
(***************************************************************************)
EXTENDS Lanes, TLC

\* EMBEDDING_MAX_ITEMS_<TYPE> is not set.
NoLimit == -1

\* An edition of a book without a page count, Unpaged in BookDump.
Unstated == -1

\* Two dumps: readings logged, editions in print, works, authors.  "c" clears the thresholds
\* by the log and the editions of the second only.
InPrint(works, pages, langs) == [works |-> works, pages |-> pages, langs |-> langs]
Printed ==
    << InPrint({"a", "c"}, 1, {"eng"}), InPrint({"a", "d"}, 2, {"eng"}),
       InPrint({"b"}, 2, {"spa"}), InPrint({"c", "d"}, 0, {"spa"}),
       InPrint({"a", "c"}, Unstated, {}) >>
Reprinted == Printed \o << InPrint({"c", "d"}, 3, {}), InPrint({"c"}, 3, {}) >>
MCEditions ==
    << [log |-> <<"a", "b", "c", "d", "a", "d">>, editions |-> Printed, authors |-> {"x"},
        works |-> ("a" :> {"x", "y"} @@ "b" :> {"x"} @@ "c" :> {"x"} @@ "d" :> {"x"})],
       [log |-> <<"a", "c", "c", "d", "a", "d">>, editions |-> Reprinted, authors |-> {"x", "y"},
        works |-> [w \in {"a", "c", "d"} |-> {"x", "y"}]] >>

\* Five linked items; two of them carry one entity, one carries two, one a malformed value.
MCTypeOfItem == [i \in 1 .. 5 |-> IF i =< 3 THEN "MOVIE" ELSE "BOOK"]
MCCarries ==
    << {"Q1"}, {"Q1"}, {"Q2", "Q3"}, {"Q4", "junk"}, {"Q1"} >>
MCStatements ==
    { [from |-> "Q1", relation |-> "ADAPTATION", to |-> "Q4"],
      [from |-> "Q4", relation |-> "DERIVATIVE", to |-> "Q1"],
      [from |-> "Q4", relation |-> "DERIVATIVE", to |-> "Q2"] }

MCTypes == <<"MOVIE", "BOOK">>
MCYearOfFilm == <<1>>
MCYearInPair == <<1, 2>>
MCAuthorsOf == << {}, {"x", "y"}, {"x"}, {"x"} >>
MCPeopleNamed == << {"x", "y"}, {"x", "y"}, {} >>
MCLinkedFirst == <<1, 4, 2>>
MCTypeOfEmbedded == <<1, 2>>
MCOverrides == <<NoLimit, NoLimit>>

-----------------------------------------------------------------------------
(***************************************************************************)
(* Every job is started again and again and gets on.  Jobs of which two    *)
(* runs may overlap have a condition for each run.                         *)
(***************************************************************************)
Scheduled ==
    /\ UNCHANGED part
    /\ \/ part = "releases" /\ Releases!Lane /\ UNCHANGED Past11
       \/ part = "two_releases" /\ Pair!Lane /\ UNCHANGED Past11
       \/ part = "game_slices" /\ Slices!Job /\ UNCHANGED Past8
       \/ part = "book_slices" /\ Books!Job /\ UNCHANGED Past5
       \/ part = "dump" /\ Dump!Go /\ UNCHANGED Past6
       \/ part = "credits" /\ Credits!Step(1) /\ UNCHANGED Past6
       \/ /\ part = "wikidata" /\ UNCHANGED Past6
          /\ Wikidata!ReadAnchors \/ Wikidata!WriteAnchors
       \/ part = "embeddings" /\ Embeddings!Pass("r1") /\ UNCHANGED Past6
AlsoScheduled ==
    /\ UNCHANGED part
    /\ \/ part = "releases" /\ Releases!HydrateTarget(1) /\ UNCHANGED Past11
       \/ part = "two_releases" /\ Pair!HydrateTarget(1) /\ UNCHANGED Past11
       \/ part = "credits" /\ Credits!Step(2) /\ UNCHANGED Past6
       \/ /\ part = "wikidata" /\ UNCHANGED Past6
          /\ Wikidata!ReadRelations \/ Wikidata!WriteRelations
       \/ part = "embeddings" /\ Embeddings!Pass("r2") /\ UNCHANGED Past6
Anchors == part = "wikidata" /\ Wikidata!Start("anchor") /\ UNCHANGED <<part, Past6>>
Relations == part = "wikidata" /\ Wikidata!Start("relations") /\ UNCHANGED <<part, Past6>>

FairSpec ==
    /\ Spec
    /\ WF_vars(Scheduled) /\ WF_vars(AlsoScheduled)
    /\ SF_vars(Anchors) /\ SF_vars(Relations)

-----------------------------------------------------------------------------
(***************************************************************************)
(* A film that has gathered votes enters the catalog in the end, also one  *)
(* that the gate of the exports had refused or a skipped stretch held.     *)
(***************************************************************************)
LateBloomersEnter ==
    (part = "releases" /\ Releases!Promoted(1)) ~> (part = "releases" /\ Releases!Entered(1))

(***************************************************************************)
(* The lists of work run dry: every game is linked or retired, every item  *)
(* that can be asked about has its people or its seal, every book its      *)
(* authors, and the edition of the dump that stays is recorded.            *)
(***************************************************************************)
ListsDrain ==
    <>[](/\ part = "game_slices" => Slices!Drained
         /\ part = "credits" => Credits!Closed
         /\ part = "book_slices" => Books!Refreshed
         /\ part = "dump" => Dump!Diffed)

(***************************************************************************)
(* The passes that start over catch up again and again: every statement    *)
(* between anchored items has its edge, every item its type has room for   *)
(* the vector of its text.                                                 *)
(***************************************************************************)
PassesCatchUp ==
    []<>(/\ part = "wikidata" => Wikidata!EveryStatementJoined
         /\ part = "embeddings" => Embeddings!Covered)
=============================================================================
