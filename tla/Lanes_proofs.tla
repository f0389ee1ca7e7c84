---------------------------- MODULE Lanes_proofs ----------------------------
(***************************************************************************)
(* What is proved of the jobs holds of every behaviour of Lanes, for any   *)
(* value of its constants.                                                 *)
(***************************************************************************)
EXTENDS Lanes, FiniteSetTheorems, WellFoundedInduction, TLAPS

GamesProofs == INSTANCE GameLanes_proofs WITH
    Games <- IgdbGames, Catalogued <- CataloguedGames

-----------------------------------------------------------------------------
(* Releases. *)

FilmAccounted == Releases!Known \cup settled \cup skipped

FilmDays == 0 .. LastDay

FilmRuns == [step : {"idle", "plan", "hydrate", "sweep"}, day : Int, base : Int, ids : SUBSET Films, failed : BOOLEAN,
         years : SUBSET Years]

\* The watermark and the day of a run are days whose export was published.
FilmPublished ==
    /\ today \in FilmDays /\ early \in BOOLEAN /\ (early => today > 0)
    /\ exports \in [FilmDays -> SUBSET Films]
    /\ mark \in Int /\ (mark # Releases!None => mark \in FilmDays /\ mark =< Releases!LatestExport)
    /\ run \in FilmRuns
    /\ run.step # "idle" => run.day \in FilmDays /\ run.day =< Releases!LatestExport

\* While a run hydrates, what its export lists is accounted for, still to do, or failed.
FilmInHand ==
    run.step = "hydrate" /\ ~run.failed => exports[run.day] \subseteq FilmAccounted \cup run.ids

FilmAccounting == FilmPublished /\ FilmInHand /\ Releases!ReleasesAreAccounted

LEMMA FilmAccountingInit ==
    ASSUME LastDay \in Nat
    PROVE  Releases!Init => FilmAccounting
<1> SUFFICES ASSUME Releases!Init PROVE FilmAccounting
  OBVIOUS
<1> USE DEF Releases!Init
<1>1. exports \in [FilmDays -> SUBSET Films]
  BY DEF FilmDays
<1>2. today \in FilmDays /\ early \in BOOLEAN /\ (early => today > 0)
  <2>1. today \in FilmDays
    BY DEF FilmDays
  <2>2. early \in BOOLEAN /\ (early => today > 0)
    BY Zenon
  <2>3. QED
    BY <2>1, <2>2
<1>3. mark \in Int /\ mark = Releases!None
  BY DEF Releases!None
<1>4. /\ run.step = "idle"
      /\ run \in FilmRuns
  BY DEF Releases!Idle, FilmRuns
<1>5. QED
  BY <1>1, <1>2, <1>3, <1>4 DEF FilmAccounting, FilmPublished, FilmInHand,
     Releases!ReleasesAreAccounted

\* What was accounted for stays so, and no export that was published changes but to go.
LEMMA FilmNothingForgotten ==
    ASSUME LastDay \in Nat, FilmPublished, Releases!Next
    PROVE  /\ FilmAccounted \subseteq FilmAccounted'
           /\ Releases!LatestExport =< Releases!LatestExport'
           /\ \A d \in FilmDays : d =< Releases!LatestExport => exports'[d] \subseteq exports[d]
           /\ exports' \in [FilmDays -> SUBSET Films]
           /\ today' \in FilmDays /\ early' \in BOOLEAN /\ (early' => today' > 0)
<1> USE DEF FilmPublished, FilmAccounted, Releases!Known, Releases!LatestExport, FilmDays
<1>1. CASE Releases!Midnight
  BY <1>1 DEF Releases!Midnight, Releases!local, Releases!history
<1>2. CASE Releases!PublishExport
  <2>1. early /\ exports' = [exports EXCEPT ![today] = Releases!Alive]
    BY <1>2 DEF Releases!PublishExport
  <2>2. UNCHANGED <<today, Releases!local, Releases!history>> /\ ~early' /\ early' \in BOOLEAN
    BY <1>2, Zenon DEF Releases!PublishExport
  <2>3. \A d \in FilmDays : d =< Releases!LatestExport => exports'[d] \subseteq exports[d]
    BY <2>1
  <2>4. exports' \in [FilmDays -> SUBSET Films]
    <3>1. Releases!Alive \in SUBSET Films
      BY DEF Releases!Alive
    <3>2. QED
      BY <2>1, <3>1
  <2>5. QED
    BY <2>1, <2>2, <2>3, <2>4 DEF Releases!local, Releases!history
<1>3. ASSUME NEW x \in Films, Releases!Become(x) PROVE UNCHANGED <<today, early, exports, Releases!local, Releases!history>>
  BY <1>3 DEF Releases!Become
<1>4. ASSUME Releases!Lane \/ Releases!Fail \/ \E x \in Films : Releases!HydrateTarget(x)
      PROVE  UNCHANGED <<today, early, exports>> /\ FilmAccounted \subseteq FilmAccounted'
  BY <1>4 DEF Releases!Lane, Releases!Start, Releases!Rebaseline, Releases!AlreadyProcessed,
     Releases!ReadDiff, Releases!Advance, Releases!Sweep, Releases!Hydrate,
              Releases!Fail, Releases!HydrateTarget, Releases!source, Releases!local, Releases!history
<1>5. QED
  BY <1>1, <1>2, <1>3, <1>4 DEF Releases!Next, Releases!local, Releases!history

LEMMA FilmAccountingKept ==
    ASSUME LastDay \in Nat
    PROVE  FilmAccounting /\ [Releases!Next]_Releases!vars => FilmAccounting'
<1> SUFFICES ASSUME FilmAccounting, Releases!Next PROVE FilmAccounting'
  <2>1. UNCHANGED Releases!vars => (FilmAccounting <=> FilmAccounting')
    BY DEF Releases!vars, Releases!source, Releases!local, Releases!history, FilmAccounting,
       FilmPublished, FilmInHand, Releases!ReleasesAreAccounted,
           FilmAccounted, Releases!Known, Releases!LatestExport
  <2>2. QED
    BY <2>1
<1>1. /\ FilmAccounted \subseteq FilmAccounted' /\ Releases!LatestExport =< Releases!LatestExport'
      /\ \A d \in FilmDays : d =< Releases!LatestExport => exports'[d] \subseteq exports[d]
      /\ exports' \in [FilmDays -> SUBSET Films]
      /\ today' \in FilmDays /\ early' \in BOOLEAN /\ (early' => today' > 0)
  BY FilmNothingForgotten DEF FilmAccounting
<1>2. Releases!LatestExport \in Int /\ Releases!LatestExport' \in Int
  BY <1>1 DEF FilmAccounting, FilmPublished, Releases!LatestExport, FilmDays
<1> USE DEF FilmAccounting, FilmPublished, FilmInHand, Releases!ReleasesAreAccounted
<1>3. CASE UNCHANGED <<mark, run>>
  <2>1. FilmPublished'
    BY <1>1, <1>2, <1>3 DEF FilmDays
  <2>2. FilmInHand' /\ Releases!ReleasesAreAccounted'
    BY <1>1, <1>3 DEF FilmAccounted
  <2>3. QED
    BY <2>1, <2>2
<1>4. CASE Releases!Start
  <2>1. /\ exports' = exports /\ mark' = mark /\ Releases!LatestExport >= 0
        /\ run' = [Releases!Idle EXCEPT !.step = "plan", !.day = Releases!LatestExport, !.years = Years]
    BY <1>4 DEF Releases!Start, Releases!local, Releases!source
  <2>2. Releases!LatestExport \in FilmDays /\ Releases!LatestExport =< Releases!LatestExport'
    BY <1>1, <1>2, <2>1 DEF FilmDays, Releases!LatestExport
  <2>3. /\ run' \in FilmRuns
        /\ run'.step = "plan" /\ run'.day = Releases!LatestExport
    <3>1. Releases!Idle \in FilmRuns
      BY DEF Releases!Idle, FilmRuns
    <3>2. QED
      BY <1>2, <2>1, <3>1 DEF FilmRuns
  <2>4. QED
    BY <1>1, <1>2, <2>1, <2>2, <2>3 DEF FilmAccounted
<1>5. CASE Releases!Rebaseline
  <2>1. /\ exports' = exports /\ mark' = run.day /\ skipped' = skipped \cup exports[run.day]
        /\ run.step = "plan" /\ run' = [run EXCEPT !.step = "sweep"]
    BY <1>5 DEF Releases!Rebaseline, Releases!source
  <2>2. run' \in FilmRuns /\ run'.step = "sweep" /\ run'.day = run.day
    BY <2>1 DEF FilmRuns
  <2>3. FilmPublished'
    BY <1>1, <1>2, <2>1, <2>2 DEF FilmDays
  <2>4. FilmInHand' /\ Releases!ReleasesAreAccounted'
    BY <1>1, <2>1, <2>2 DEF FilmAccounted
  <2>5. QED
    BY <2>3, <2>4
<1>6. CASE Releases!AlreadyProcessed
  <2>1. /\ exports' = exports /\ mark' = mark /\ run.step = "plan"
        /\ run' = [run EXCEPT !.step = "sweep"]
    BY <1>6 DEF Releases!AlreadyProcessed, Releases!local, Releases!source
  <2>2. run' \in FilmRuns /\ run'.step = "sweep" /\ run'.day = run.day
    BY <2>1 DEF FilmRuns
  <2>3. FilmPublished'
    BY <1>1, <1>2, <2>1, <2>2 DEF FilmDays
  <2>4. FilmInHand' /\ Releases!ReleasesAreAccounted'
    BY <1>1, <2>1, <2>2 DEF FilmAccounted
  <2>5. QED
    BY <2>3, <2>4
<1>7. CASE Releases!ReadDiff
  <2>1. /\ mark # Releases!None /\ exports' = exports /\ mark' = mark /\ run.step = "plan"
        /\ run' = [run EXCEPT !.step = "hydrate", !.base = mark, !.ids = Releases!Diff(run.day, mark)]
    BY <1>7 DEF Releases!ReadDiff, Releases!Rebaselines, Releases!source, Releases!local
  <2>2. exports[run.day] \subseteq FilmAccounted \cup Releases!Diff(run.day, mark)
    BY <2>1 DEF Releases!Diff, FilmAccounted
  <2>6. Releases!Diff(run.day, mark) \subseteq Films
    BY <2>1, <1>1 DEF Releases!Diff
  <2>7. /\ run' \in FilmRuns /\ run'.step = "hydrate" /\ run'.day = run.day
        /\ run'.ids = Releases!Diff(run.day, mark)
    BY <2>1, <2>6 DEF FilmRuns
  <2>3. FilmPublished'
    BY <1>1, <1>2, <2>1, <2>7 DEF FilmDays
  <2>4. FilmInHand' /\ Releases!ReleasesAreAccounted'
    BY <1>1, <2>1, <2>2, <2>7 DEF FilmAccounted
  <2>5. QED
    BY <2>3, <2>4
<1>8. ASSUME NEW x \in Films, Releases!Hydrate(x) PROVE FilmAccounting'
  <2>1. /\ run.step = "hydrate" /\ exports' = exports /\ mark' = mark
        /\ \/ run' = [run EXCEPT !.ids = @ \ {x}, !.failed = TRUE]
           \/ run' = [run EXCEPT !.ids = @ \ {x}] /\ x \in FilmAccounted'
    BY <1>8 DEF Releases!Hydrate, Releases!source, FilmAccounted, Releases!Known
  <2>5. /\ run' \in FilmRuns /\ run'.step = "hydrate" /\ run'.day = run.day
        /\ run'.failed \/ (run'.failed = run.failed /\ x \in FilmAccounted')
        /\ run'.ids = run.ids \ {x}
    <3>1. CASE run' = [run EXCEPT !.ids = @ \ {x}, !.failed = TRUE]
      <4>1. run'.failed
        BY <3>1, Zenon DEF FilmRuns
      <4>2. /\ run' \in FilmRuns /\ run'.step = "hydrate" /\ run'.day = run.day
            /\ run'.ids = run.ids \ {x}
        BY <2>1, <3>1 DEF FilmRuns
      <4>3. QED
        BY <4>1, <4>2
    <3>2. CASE run' = [run EXCEPT !.ids = @ \ {x}] /\ x \in FilmAccounted'
      BY <2>1, <3>2 DEF FilmRuns
    <3>3. QED
      BY <2>1, <3>1, <3>2
  <2>2. FilmPublished'
    BY <1>1, <1>2, <2>1, <2>5 DEF FilmDays
  <2>3. FilmInHand' /\ Releases!ReleasesAreAccounted'
    BY <1>1, <2>1, <2>5 DEF FilmAccounted
  <2>4. QED
    BY <2>2, <2>3
<1>9. CASE Releases!Advance
  <2>1. /\ run.step = "hydrate" /\ run.ids = {} /\ exports' = exports
        /\ mark' = IF Releases!Covered THEN run.day ELSE mark
        /\ run' = [run EXCEPT !.step = "sweep"]
    BY <1>9 DEF Releases!Advance, Releases!source
  <2>5. run' \in FilmRuns /\ run'.step = "sweep" /\ run'.day = run.day
    BY <2>1 DEF FilmRuns
  <2>6. mark' = run.day \/ mark' = mark
    BY <2>1
  <2>2. FilmPublished'
    BY <1>1, <1>2, <2>1, <2>5, <2>6 DEF FilmDays
  <2>3. FilmInHand' /\ Releases!ReleasesAreAccounted'
    BY <1>1, <2>1, <2>5 DEF FilmAccounted, Releases!Covered
  <2>4. QED
    BY <2>2, <2>3
<1>10. CASE Releases!Sweep \/ Releases!Fail
  <2>1. /\ exports' = exports /\ mark' = mark
        /\ \/ run' = Releases!Idle
           \/ run.step # "idle" /\ run' = [run EXCEPT !.step = "sweep"]
           \/ run.step = "sweep" /\ run' = [run EXCEPT !.years = @ \ {Releases!Oldest(@)}]
    BY <1>10 DEF Releases!Sweep, Releases!Fail, Releases!source, Releases!local
  <2>5. /\ run' \in FilmRuns
        /\ \/ run'.step = "idle"
           \/ run.step # "idle" /\ run'.step = "sweep" /\ run'.day = run.day
    <3>1. CASE run' = Releases!Idle
      <4>1. Releases!Idle \in FilmRuns /\ Releases!Idle.step = "idle"
        BY DEF Releases!Idle, FilmRuns
      <4>2. QED
        BY <3>1, <4>1
    <3>2. CASE run.step # "idle" /\ run' = [run EXCEPT !.step = "sweep"]
      BY <3>2 DEF FilmRuns
    <3>3. CASE run.step = "sweep" /\ run' = [run EXCEPT !.years = @ \ {Releases!Oldest(@)}]
      <4>1. run.years \ {Releases!Oldest(run.years)} \subseteq Years
        BY DEF FilmRuns
      <4>2. run' = [run EXCEPT !.years = run.years \ {Releases!Oldest(run.years)}]
        BY <3>3
      <4>3. QED
        BY <3>3, <4>1, <4>2 DEF FilmRuns
    <3>4. QED
      BY <2>1, <3>1, <3>2, <3>3
  <2>2. FilmPublished'
    BY <1>1, <1>2, <2>1, <2>5 DEF FilmDays
  <2>3. FilmInHand' /\ Releases!ReleasesAreAccounted'
    BY <1>1, <2>1, <2>5 DEF FilmAccounted
  <2>4. QED
    BY <2>2, <2>3
<1>11. ASSUME NEW x \in Films, Releases!Become(x) \/ Releases!HydrateTarget(x) PROVE UNCHANGED <<mark, run>>
  BY <1>11 DEF Releases!Become, Releases!HydrateTarget, Releases!local
<1>12. Releases!Midnight \/ Releases!PublishExport => UNCHANGED <<mark, run>>
  BY DEF Releases!Midnight, Releases!PublishExport, Releases!local
<1>13. QED
  BY <1>3, <1>4, <1>5, <1>6, <1>7, <1>8, <1>9, <1>10, <1>11, <1>12 DEF Releases!Next, Releases!Lane

LEMMA OneFilmIsAccounted == Spec => [](part = "releases" => Releases!ReleasesAreAccounted)
<1> DEFINE Here == part = "releases"
           Wanted == part = "releases" => Releases!ReleasesAreAccounted
<1>1. Init /\ Here => FilmAccounting
  BY FilmAccountingInit, LanesAssumption DEF Init
<1>2. UNCHANGED vars => UNCHANGED Releases!vars
  BY DEF vars, Releases!vars, Releases!source, Releases!local, Releases!history, today, early,
     tmdb, exports,
         catalog, targets, mark, run, settled, skipped, faults
<1>3. [Next]_vars /\ Here /\ FilmAccounting => FilmAccounting' /\ Here'
  BY <1>2, FilmAccountingKept, LanesAssumption DEF Next, vars
<1>4. [Next]_vars /\ ~Here => ~Here'
  BY DEF Next, vars
<1>5. (Here => FilmAccounting) => Wanted
  BY DEF FilmAccounting
<1>6. Spec => []Wanted
  <2> HIDE DEF Here, Wanted
  <2>1. QED
    BY <1>1, <1>3, <1>4, <1>5, PTL DEF Spec
<1>7. QED
  BY <1>6

-----------------------------------------------------------------------------
(* Releases of a pair of films. *)

PairAccounted == Pair!Known \cup settled \cup skipped

PairDays == 0 .. LastPairDay

PairRuns == [step : {"idle", "plan", "hydrate", "sweep"}, day : Int, base : Int, ids : SUBSET PairOfFilms, failed : BOOLEAN,
         years : SUBSET Years]

\* The watermark and the day of a run are days whose export was published.
PairPublished ==
    /\ today \in PairDays /\ early \in BOOLEAN /\ (early => today > 0)
    /\ exports \in [PairDays -> SUBSET PairOfFilms]
    /\ mark \in Int /\ (mark # Pair!None => mark \in PairDays /\ mark =< Pair!LatestExport)
    /\ run \in PairRuns
    /\ run.step # "idle" => run.day \in PairDays /\ run.day =< Pair!LatestExport

\* While a run hydrates, what its export lists is accounted for, still to do, or failed.
PairInHand ==
    run.step = "hydrate" /\ ~run.failed => exports[run.day] \subseteq PairAccounted \cup run.ids

PairAccounting == PairPublished /\ PairInHand /\ Pair!ReleasesAreAccounted

LEMMA PairAccountingInit ==
    ASSUME LastPairDay \in Nat
    PROVE  Pair!Init => PairAccounting
<1> SUFFICES ASSUME Pair!Init PROVE PairAccounting
  OBVIOUS
<1> USE DEF Pair!Init
<1>1. exports \in [PairDays -> SUBSET PairOfFilms]
  BY DEF PairDays
<1>2. today \in PairDays /\ early \in BOOLEAN /\ (early => today > 0)
  <2>1. today \in PairDays
    BY DEF PairDays
  <2>2. early \in BOOLEAN /\ (early => today > 0)
    BY Zenon
  <2>3. QED
    BY <2>1, <2>2
<1>3. mark \in Int /\ mark = Pair!None
  BY DEF Pair!None
<1>4. /\ run.step = "idle"
      /\ run \in PairRuns
  BY DEF Pair!Idle, PairRuns
<1>5. QED
  BY <1>1, <1>2, <1>3, <1>4 DEF PairAccounting, PairPublished, PairInHand, Pair!ReleasesAreAccounted

\* What was accounted for stays so, and no export that was published changes but to go.
LEMMA PairNothingForgotten ==
    ASSUME LastPairDay \in Nat, PairPublished, Pair!Next
    PROVE  /\ PairAccounted \subseteq PairAccounted'
           /\ Pair!LatestExport =< Pair!LatestExport'
           /\ \A d \in PairDays : d =< Pair!LatestExport => exports'[d] \subseteq exports[d]
           /\ exports' \in [PairDays -> SUBSET PairOfFilms]
           /\ today' \in PairDays /\ early' \in BOOLEAN /\ (early' => today' > 0)
<1> USE DEF PairPublished, PairAccounted, Pair!Known, Pair!LatestExport, PairDays
<1>1. CASE Pair!Midnight
  BY <1>1 DEF Pair!Midnight, Pair!local, Pair!history
<1>2. CASE Pair!PublishExport
  <2>1. early /\ exports' = [exports EXCEPT ![today] = Pair!Alive]
    BY <1>2 DEF Pair!PublishExport
  <2>2. UNCHANGED <<today, Pair!local, Pair!history>> /\ ~early' /\ early' \in BOOLEAN
    BY <1>2, Zenon DEF Pair!PublishExport
  <2>3. \A d \in PairDays : d =< Pair!LatestExport => exports'[d] \subseteq exports[d]
    BY <2>1
  <2>4. exports' \in [PairDays -> SUBSET PairOfFilms]
    <3>1. Pair!Alive \in SUBSET PairOfFilms
      BY DEF Pair!Alive
    <3>2. QED
      BY <2>1, <3>1
  <2>5. QED
    BY <2>1, <2>2, <2>3, <2>4 DEF Pair!local, Pair!history
<1>3. ASSUME NEW x \in PairOfFilms, Pair!Become(x) PROVE UNCHANGED <<today, early, exports, Pair!local, Pair!history>>
  BY <1>3 DEF Pair!Become
<1>4. ASSUME Pair!Lane \/ Pair!Fail \/ \E x \in PairOfFilms : Pair!HydrateTarget(x)
      PROVE  UNCHANGED <<today, early, exports>> /\ PairAccounted \subseteq PairAccounted'
  BY <1>4 DEF Pair!Lane, Pair!Start, Pair!Rebaseline, Pair!AlreadyProcessed, Pair!ReadDiff,
     Pair!Advance, Pair!Sweep, Pair!Hydrate,
              Pair!Fail, Pair!HydrateTarget, Pair!source, Pair!local, Pair!history
<1>5. QED
  BY <1>1, <1>2, <1>3, <1>4 DEF Pair!Next, Pair!local, Pair!history

LEMMA PairAccountingKept ==
    ASSUME LastPairDay \in Nat
    PROVE  PairAccounting /\ [Pair!Next]_Pair!vars => PairAccounting'
<1> SUFFICES ASSUME PairAccounting, Pair!Next PROVE PairAccounting'
  <2>1. UNCHANGED Pair!vars => (PairAccounting <=> PairAccounting')
    BY DEF Pair!vars, Pair!source, Pair!local, Pair!history, PairAccounting, PairPublished,
       PairInHand, Pair!ReleasesAreAccounted,
           PairAccounted, Pair!Known, Pair!LatestExport
  <2>2. QED
    BY <2>1
<1>1. /\ PairAccounted \subseteq PairAccounted' /\ Pair!LatestExport =< Pair!LatestExport'
      /\ \A d \in PairDays : d =< Pair!LatestExport => exports'[d] \subseteq exports[d]
      /\ exports' \in [PairDays -> SUBSET PairOfFilms]
      /\ today' \in PairDays /\ early' \in BOOLEAN /\ (early' => today' > 0)
  BY PairNothingForgotten DEF PairAccounting
<1>2. Pair!LatestExport \in Int /\ Pair!LatestExport' \in Int
  BY <1>1 DEF PairAccounting, PairPublished, Pair!LatestExport, PairDays
<1> USE DEF PairAccounting, PairPublished, PairInHand, Pair!ReleasesAreAccounted
<1>3. CASE UNCHANGED <<mark, run>>
  <2>1. PairPublished'
    BY <1>1, <1>2, <1>3 DEF PairDays
  <2>2. PairInHand' /\ Pair!ReleasesAreAccounted'
    BY <1>1, <1>3 DEF PairAccounted
  <2>3. QED
    BY <2>1, <2>2
<1>4. CASE Pair!Start
  <2>1. /\ exports' = exports /\ mark' = mark /\ Pair!LatestExport >= 0
        /\ run' = [Pair!Idle EXCEPT !.step = "plan", !.day = Pair!LatestExport, !.years = Years]
    BY <1>4 DEF Pair!Start, Pair!local, Pair!source
  <2>2. Pair!LatestExport \in PairDays /\ Pair!LatestExport =< Pair!LatestExport'
    BY <1>1, <1>2, <2>1 DEF PairDays, Pair!LatestExport
  <2>3. /\ run' \in PairRuns
        /\ run'.step = "plan" /\ run'.day = Pair!LatestExport
    <3>1. Pair!Idle \in PairRuns
      BY DEF Pair!Idle, PairRuns
    <3>2. QED
      BY <1>2, <2>1, <3>1 DEF PairRuns
  <2>4. QED
    BY <1>1, <1>2, <2>1, <2>2, <2>3 DEF PairAccounted
<1>5. CASE Pair!Rebaseline
  <2>1. /\ exports' = exports /\ mark' = run.day /\ skipped' = skipped \cup exports[run.day]
        /\ run.step = "plan" /\ run' = [run EXCEPT !.step = "sweep"]
    BY <1>5 DEF Pair!Rebaseline, Pair!source
  <2>2. run' \in PairRuns /\ run'.step = "sweep" /\ run'.day = run.day
    BY <2>1 DEF PairRuns
  <2>3. PairPublished'
    BY <1>1, <1>2, <2>1, <2>2 DEF PairDays
  <2>4. PairInHand' /\ Pair!ReleasesAreAccounted'
    BY <1>1, <2>1, <2>2 DEF PairAccounted
  <2>5. QED
    BY <2>3, <2>4
<1>6. CASE Pair!AlreadyProcessed
  <2>1. /\ exports' = exports /\ mark' = mark /\ run.step = "plan"
        /\ run' = [run EXCEPT !.step = "sweep"]
    BY <1>6 DEF Pair!AlreadyProcessed, Pair!local, Pair!source
  <2>2. run' \in PairRuns /\ run'.step = "sweep" /\ run'.day = run.day
    BY <2>1 DEF PairRuns
  <2>3. PairPublished'
    BY <1>1, <1>2, <2>1, <2>2 DEF PairDays
  <2>4. PairInHand' /\ Pair!ReleasesAreAccounted'
    BY <1>1, <2>1, <2>2 DEF PairAccounted
  <2>5. QED
    BY <2>3, <2>4
<1>7. CASE Pair!ReadDiff
  <2>1. /\ mark # Pair!None /\ exports' = exports /\ mark' = mark /\ run.step = "plan"
        /\ run' = [run EXCEPT !.step = "hydrate", !.base = mark, !.ids = Pair!Diff(run.day, mark)]
    BY <1>7 DEF Pair!ReadDiff, Pair!Rebaselines, Pair!source, Pair!local
  <2>2. exports[run.day] \subseteq PairAccounted \cup Pair!Diff(run.day, mark)
    BY <2>1 DEF Pair!Diff, PairAccounted
  <2>6. Pair!Diff(run.day, mark) \subseteq PairOfFilms
    BY <2>1, <1>1 DEF Pair!Diff
  <2>7. /\ run' \in PairRuns /\ run'.step = "hydrate" /\ run'.day = run.day
        /\ run'.ids = Pair!Diff(run.day, mark)
    BY <2>1, <2>6 DEF PairRuns
  <2>3. PairPublished'
    BY <1>1, <1>2, <2>1, <2>7 DEF PairDays
  <2>4. PairInHand' /\ Pair!ReleasesAreAccounted'
    BY <1>1, <2>1, <2>2, <2>7 DEF PairAccounted
  <2>5. QED
    BY <2>3, <2>4
<1>8. ASSUME NEW x \in PairOfFilms, Pair!Hydrate(x) PROVE PairAccounting'
  <2>1. /\ run.step = "hydrate" /\ exports' = exports /\ mark' = mark
        /\ \/ run' = [run EXCEPT !.ids = @ \ {x}, !.failed = TRUE]
           \/ run' = [run EXCEPT !.ids = @ \ {x}] /\ x \in PairAccounted'
    BY <1>8 DEF Pair!Hydrate, Pair!source, PairAccounted, Pair!Known
  <2>5. /\ run' \in PairRuns /\ run'.step = "hydrate" /\ run'.day = run.day
        /\ run'.failed \/ (run'.failed = run.failed /\ x \in PairAccounted')
        /\ run'.ids = run.ids \ {x}
    <3>1. CASE run' = [run EXCEPT !.ids = @ \ {x}, !.failed = TRUE]
      <4>1. run'.failed
        BY <3>1, Zenon DEF PairRuns
      <4>2. /\ run' \in PairRuns /\ run'.step = "hydrate" /\ run'.day = run.day
            /\ run'.ids = run.ids \ {x}
        BY <2>1, <3>1 DEF PairRuns
      <4>3. QED
        BY <4>1, <4>2
    <3>2. CASE run' = [run EXCEPT !.ids = @ \ {x}] /\ x \in PairAccounted'
      BY <2>1, <3>2 DEF PairRuns
    <3>3. QED
      BY <2>1, <3>1, <3>2
  <2>2. PairPublished'
    BY <1>1, <1>2, <2>1, <2>5 DEF PairDays
  <2>3. PairInHand' /\ Pair!ReleasesAreAccounted'
    BY <1>1, <2>1, <2>5 DEF PairAccounted
  <2>4. QED
    BY <2>2, <2>3
<1>9. CASE Pair!Advance
  <2>1. /\ run.step = "hydrate" /\ run.ids = {} /\ exports' = exports
        /\ mark' = IF Pair!Covered THEN run.day ELSE mark
        /\ run' = [run EXCEPT !.step = "sweep"]
    BY <1>9 DEF Pair!Advance, Pair!source
  <2>5. run' \in PairRuns /\ run'.step = "sweep" /\ run'.day = run.day
    BY <2>1 DEF PairRuns
  <2>6. mark' = run.day \/ mark' = mark
    BY <2>1
  <2>2. PairPublished'
    BY <1>1, <1>2, <2>1, <2>5, <2>6 DEF PairDays
  <2>3. PairInHand' /\ Pair!ReleasesAreAccounted'
    BY <1>1, <2>1, <2>5 DEF PairAccounted, Pair!Covered
  <2>4. QED
    BY <2>2, <2>3
<1>10. CASE Pair!Sweep \/ Pair!Fail
  <2>1. /\ exports' = exports /\ mark' = mark
        /\ \/ run' = Pair!Idle
           \/ run.step # "idle" /\ run' = [run EXCEPT !.step = "sweep"]
           \/ run.step = "sweep" /\ run' = [run EXCEPT !.years = @ \ {Pair!Oldest(@)}]
    BY <1>10 DEF Pair!Sweep, Pair!Fail, Pair!source, Pair!local
  <2>5. /\ run' \in PairRuns
        /\ \/ run'.step = "idle"
           \/ run.step # "idle" /\ run'.step = "sweep" /\ run'.day = run.day
    <3>1. CASE run' = Pair!Idle
      <4>1. Pair!Idle \in PairRuns /\ Pair!Idle.step = "idle"
        BY DEF Pair!Idle, PairRuns
      <4>2. QED
        BY <3>1, <4>1
    <3>2. CASE run.step # "idle" /\ run' = [run EXCEPT !.step = "sweep"]
      BY <3>2 DEF PairRuns
    <3>3. CASE run.step = "sweep" /\ run' = [run EXCEPT !.years = @ \ {Pair!Oldest(@)}]
      <4>1. run.years \ {Pair!Oldest(run.years)} \subseteq Years
        BY DEF PairRuns
      <4>2. run' = [run EXCEPT !.years = run.years \ {Pair!Oldest(run.years)}]
        BY <3>3
      <4>3. QED
        BY <3>3, <4>1, <4>2 DEF PairRuns
    <3>4. QED
      BY <2>1, <3>1, <3>2, <3>3
  <2>2. PairPublished'
    BY <1>1, <1>2, <2>1, <2>5 DEF PairDays
  <2>3. PairInHand' /\ Pair!ReleasesAreAccounted'
    BY <1>1, <2>1, <2>5 DEF PairAccounted
  <2>4. QED
    BY <2>2, <2>3
<1>11. ASSUME NEW x \in PairOfFilms, Pair!Become(x) \/ Pair!HydrateTarget(x) PROVE UNCHANGED <<mark, run>>
  BY <1>11 DEF Pair!Become, Pair!HydrateTarget, Pair!local
<1>12. Pair!Midnight \/ Pair!PublishExport => UNCHANGED <<mark, run>>
  BY DEF Pair!Midnight, Pair!PublishExport, Pair!local
<1>13. QED
  BY <1>3, <1>4, <1>5, <1>6, <1>7, <1>8, <1>9, <1>10, <1>11, <1>12 DEF Pair!Next, Pair!Lane

LEMMA TwoFilmsAreAccounted == Spec => [](part = "two_releases" => Pair!ReleasesAreAccounted)
<1> DEFINE Here == part = "two_releases"
           Wanted == part = "two_releases" => Pair!ReleasesAreAccounted
<1>1. Init /\ Here => PairAccounting
  BY PairAccountingInit, LanesAssumption DEF Init
<1>2. UNCHANGED vars => UNCHANGED Pair!vars
  BY DEF vars, Pair!vars, Pair!source, Pair!local, Pair!history, today, early, tmdb, exports,
         catalog, targets, mark, run, settled, skipped, faults
<1>3. [Next]_vars /\ Here /\ PairAccounting => PairAccounting' /\ Here'
  BY <1>2, PairAccountingKept, LanesAssumption DEF Next, vars
<1>4. [Next]_vars /\ ~Here => ~Here'
  BY DEF Next, vars
<1>5. (Here => PairAccounting) => Wanted
  BY DEF PairAccounting
<1>6. Spec => []Wanted
  <2> HIDE DEF Here, Wanted
  <2>1. QED
    BY <1>1, <1>3, <1>4, <1>5, PTL DEF Spec
<1>7. QED
  BY <1>6

(***************************************************************************)
(* Whatever fails, is skipped or is killed: a film that an export which was *)
(* processed lists is known, was refused by the gate, or was skipped and   *)
(* reported.                                                               *)
(***************************************************************************)
THEOREM NoReleaseIsForgotten == Spec => []ReleasesAreAccounted
BY OneFilmIsAccounted, TwoFilmsAreAccounted, PTL DEF ReleasesAreAccounted

-----------------------------------------------------------------------------
(* Missing credits. *)

\* A job is a record of exactly these fields for each run.
CreditsShape ==
    /\ job = [r \in CreditRuns |-> job[r]]
    /\ \A r \in CreditRuns : DOMAIN job[r] = {"step", "work", "done", "rows"}
    /\ \A r \in CreditRuns : job[r] = [f \in DOMAIN job[r] |-> job[r][f]]

\* What a run is about to seal was answered for, and it holds the people of those answers,
\* but for the authors of whom nothing was heard.
CreditsInHand ==
    \A r \in CreditRuns :
        /\ job[r].done \subseteq answered
        /\ \A x \in job[r].done : \A p \in PeopleNamed[x] : <<x, p>> \in job[r].rows \cup unheard

Sealing == CreditsShape /\ CreditsInHand /\ Credits!SealedMeansAnswered

LEMMA SealingInit == Credits!Init => Sealing
  BY DEF Credits!Init, Credits!AtRest, Sealing, CreditsShape, CreditsInHand,
         Credits!SealedMeansAnswered, Credits!ItemsOf

LEMMA SealingKept == Sealing /\ [Credits!Next]_Credits!vars => Sealing'
<1> SUFFICES ASSUME Sealing, [Credits!Next]_Credits!vars PROVE Sealing'
  OBVIOUS
<1> USE DEF Sealing, CreditsShape, CreditsInHand, Credits!SealedMeansAnswered
<1>1. ASSUME NEW r \in CreditRuns, Credits!Start(r) PROVE Sealing'
  <2>1. PICK list : job' = [job EXCEPT
                             ![r] = [Credits!AtRest EXCEPT !.step = "fetch", !.work = list]]
    BY <1>1 DEF Credits!Start
  <2>2. UNCHANGED <<people, sealed, answered, unheard>>
    BY <1>1 DEF Credits!Start
  <2>3. QED
    BY <2>1, <2>2 DEF Credits!AtRest
<1>2. ASSUME NEW r \in CreditRuns, Credits!FetchChunk(r) PROVE Sealing'
  <2>0. PICK failed \in SUBSET Credits!Chunk(r) :
            LET got == Credits!Chunk(r) \ failed
            IN  \E missed \in SUBSET Credits!CreditsOf(got \cap CreditBooks) :
                /\ job' = [job EXCEPT ![r] = [@ EXCEPT !.step = "write", !.work = Credits!Rest(r), !.done = got,
                                                !.rows = Credits!CreditsOf(got) \ missed]]
                /\ answered' = answered \cup got /\ unheard' = unheard \cup missed
    BY <1>2 DEF Credits!FetchChunk
  <2>1. PICK missed \in SUBSET Credits!CreditsOf((Credits!Chunk(r) \ failed) \cap CreditBooks) :
            LET got == Credits!Chunk(r) \ failed
            IN  /\ job' = [job EXCEPT ![r] = [@ EXCEPT !.step = "write", !.work = Credits!Rest(r), !.done = got,
                                                !.rows = Credits!CreditsOf(got) \ missed]]
                /\ answered' = answered \cup got /\ unheard' = unheard \cup missed
    BY <2>0
  <2> DEFINE got == Credits!Chunk(r) \ failed
             named == Credits!CreditsOf(got) \ missed
  <2>2. UNCHANGED <<people, sealed>>
    BY <1>2 DEF Credits!FetchChunk
  <2>3. ASSUME NEW x \in got, NEW p \in PeopleNamed[x] PROVE <<x, p>> \in named \cup missed
    <3>1. <<x, p>> \in {x} \X PeopleNamed[x]
      OBVIOUS
    <3>2. {x} \X PeopleNamed[x] \in {{y} \X PeopleNamed[y] : y \in got}
      OBVIOUS
    <3>3. <<x, p>> \in Credits!CreditsOf(got)
      BY <3>1, <3>2 DEF Credits!CreditsOf
    <3>4. QED
      BY <3>3
  <2>4. Credits!ItemsOf(missed) \subseteq CreditBooks
    BY DEF Credits!CreditsOf, Credits!ItemsOf
  <2> HIDE DEF got, named
  <2>5. /\ job' = [job EXCEPT ![r] = [@ EXCEPT !.step = "write", !.work = Credits!Rest(r), !.done = got,
                                        !.rows = named]]
        /\ answered' = answered \cup got /\ unheard' = unheard \cup missed
    BY <2>1 DEF got, named
  <2>6. CreditsShape'
    BY <2>5
  <2>7. CreditsInHand'
    BY <2>2, <2>3, <2>5
  <2>8. Credits!ItemsOf(unheard') \subseteq CreditBooks
    BY <2>4, <2>5 DEF Credits!ItemsOf
  <2>9. Credits!SealedMeansAnswered'
    BY <2>2, <2>5, <2>8 DEF Credits!ItemsOf
  <2>10. QED
    BY <2>6, <2>7, <2>9
<1>3. ASSUME NEW r \in CreditRuns, Credits!Write(r) PROVE Sealing'
  <2>1. PICK lost \in SUBSET job[r].done :
            /\ people' = people \cup {row \in Credits!Accepted(job[r].rows) : row[1] \notin lost}
            /\ sealed' = sealed \cup (job[r].done \ lost)
    BY <1>3 DEF Credits!Write
  <2>2. /\ job' = [job EXCEPT ![r] = [@ EXCEPT !.step = "fetch", !.done = {}, !.rows = {}]]
        /\ UNCHANGED <<answered, unheard>>
    BY <1>3 DEF Credits!Write
  <2>3. CreditsShape' /\ CreditsInHand'
    BY <2>2
  <2>4. ASSUME NEW x \in sealed', NEW p \in PeopleNamed[x] \ Rejected
        PROVE  <<x, p>> \in people' \cup unheard
    <3>1. CASE x \in sealed
      BY <2>1, <3>1
    <3>2. CASE x \in job[r].done \ lost
      <4>1. <<x, p>> \in job[r].rows => <<x, p>> \in Credits!Accepted(job[r].rows)
        BY DEF Credits!Accepted
      <4>2. QED
        BY <2>1, <3>2, <4>1
    <3>3. QED
      BY <2>1, <3>1, <3>2
  <2>5. Credits!SealedMeansAnswered'
    BY <2>1, <2>2, <2>4 DEF Credits!ItemsOf
  <2>6. QED
    BY <2>3, <2>5
<1>4. ASSUME NEW r \in CreditRuns, Credits!Finish(r) \/ Credits!Crash(r) PROVE Sealing'
  BY <1>4 DEF Credits!Finish, Credits!Crash, Credits!AtRest, Credits!ItemsOf
<1>5. CASE UNCHANGED Credits!vars
  BY <1>5 DEF Credits!vars, Credits!ItemsOf
<1>6. QED
  BY <1>1, <1>2, <1>3, <1>4, <1>5 DEF Credits!Next, Credits!Step

(***************************************************************************)
(* "a rollback must not leave an item marked as done with no credits       *)
(* written" (_write_credits_batch): whatever fails, is rolled back or is   *)
(* killed, a sealed item was answered for and has the people of its        *)
(* answer.  Missing are only people whom the writers refuse, and authors   *)
(* of a book whose own request was given up on: an item whose people come  *)
(* with the answer loses nobody to a request that fails.                   *)
(***************************************************************************)
THEOREM SealsAreBacked == Spec => []SealedMeansAnswered
<1> DEFINE Here == part = "credits"
<1>1. Init /\ Here => Sealing
  BY SealingInit DEF Init
<1>2. UNCHANGED vars => UNCHANGED Credits!vars
  BY DEF vars, Credits!vars, unheard, people, sealed, job, faults, answered
<1>3. [Next]_vars /\ Here /\ Sealing => Sealing' /\ Here'
  BY <1>2, SealingKept DEF Next, vars
<1>4. [Next]_vars /\ ~Here => ~Here'
  BY DEF Next, vars
<1>5. (Here => Sealing) => SealedMeansAnswered
  BY DEF SealedMeansAnswered, Sealing
<1> HIDE DEF Here
<1>6. QED
  BY <1>1, <1>3, <1>4, <1>5, PTL DEF Spec

-----------------------------------------------------------------------------
(* The dump: the thresholds of the filter. *)

\* A set of naturals has a least one.
LEMMA LeastNatural ==
    ASSUME NEW T \in SUBSET Nat, T # {}
    PROVE  \E x \in T : \A y \in T : x =< y
<1> DEFINE below(x) == 0 .. (x - 1)
           all == {below(x) : x \in T}
           R == StrictSubsetOrdering(Nat)
<1>1. IsWellFoundedOn(R, FiniteSubsetsOf(Nat))
  BY FS_StrictSubsetOrderingWellFounded
<1>2. all \subseteq FiniteSubsetsOf(Nat) /\ all # {}
  <2>1. ASSUME NEW x \in T PROVE below(x) \in SUBSET Nat /\ IsFiniteSet(below(x))
    <3>1. 0 \in Int /\ x - 1 \in Int
      OBVIOUS
    <3>2. QED
      BY <3>1, FS_Interval
  <2>2. QED
    BY <2>1 DEF FiniteSubsetsOf
<1>3. PICK few \in all : \A s \in all : ~(<<s, few>> \in R)
  <2> HIDE DEF R, all
  <2>1. QED
    BY <1>1, <1>2, WFMin
<1>4. PICK x \in T : few = below(x)
  BY <1>3
<1>5. ASSUME NEW y \in T, y < x PROVE FALSE
  <2>1. below(y) \in SUBSET Nat /\ below(x) \in SUBSET Nat /\ below(y) \subseteq below(x)
    BY <1>5
  <2>2. y \in below(x) /\ y \notin below(y)
    BY <1>5
  <2>3. <<below(y), below(x)>> \in R
    BY <2>1, <2>2 DEF StrictSubsetOrdering
  <2>4. QED
    BY <1>3, <1>4, <2>3
<1>6. QED
  BY <1>5

LEMMA SameDumpCount == \A S : Dump!Cardinality(S) = Cardinality(S)
BY DEF Dump!Cardinality, Cardinality

\* Positions with a page count below, up to and above a value.
Below(pages, v) == {k \in DOMAIN pages : pages[k] < v}
UpTo(pages, v) == {k \in DOMAIN pages : pages[k] =< v}
Above(pages, v) == {k \in DOMAIN pages : pages[k] > v}
Numbers(pages) == {pages[k] : k \in DOMAIN pages}
ArePages(pages) == IsFiniteSet(DOMAIN pages) /\ \A k \in DOMAIN pages : pages[k] \in Nat

LEMMA Sizes ==
    ASSUME NEW pages, ArePages(pages), NEW v \in Nat
    PROVE  /\ Cardinality(DOMAIN pages) \in Nat
           /\ Cardinality(Below(pages, v)) \in Nat /\ Cardinality(UpTo(pages, v)) \in Nat
           /\ Cardinality(Above(pages, v)) \in Nat
           /\ Cardinality(UpTo(pages, v)) + Cardinality(Above(pages, v)) = Cardinality(DOMAIN pages)
           /\ Cardinality(Below(pages, v)) =< Cardinality(UpTo(pages, v))
           /\ v \in Numbers(pages) => Cardinality(Below(pages, v)) < Cardinality(UpTo(pages, v))
<1> DEFINE D == DOMAIN pages
<1>0. IsFiniteSet(D) /\ \A k \in D : pages[k] \in Nat
  BY DEF ArePages
<1>1. /\ Below(pages, v) \in SUBSET D /\ UpTo(pages, v) \in SUBSET D /\ Above(pages, v) \in SUBSET D
  BY DEF Below, UpTo, Above
<1>2. /\ IsFiniteSet(Below(pages, v)) /\ IsFiniteSet(UpTo(pages, v)) /\ IsFiniteSet(Above(pages, v))
  BY <1>0, <1>1, FS_Subset
<1>3. /\ Cardinality(D) \in Nat
      /\ Cardinality(Below(pages, v)) \in Nat /\ Cardinality(UpTo(pages, v)) \in Nat
      /\ Cardinality(Above(pages, v)) \in Nat
  BY <1>0, <1>2, FS_CardinalityType
<1>4. D = UpTo(pages, v) \cup Above(pages, v) /\ UpTo(pages, v) \cap Above(pages, v) = {}
  BY <1>0 DEF UpTo, Above
<1>5. Cardinality(D) = Cardinality(UpTo(pages, v)) + Cardinality(Above(pages, v))
  <2>1. Cardinality(UpTo(pages, v) \cup Above(pages, v))
          = Cardinality(UpTo(pages, v)) + Cardinality(Above(pages, v))
              - Cardinality(UpTo(pages, v) \cap Above(pages, v))
    BY <1>2, FS_Union
  <2>2. Cardinality(UpTo(pages, v) \cap Above(pages, v)) = 0
    BY <1>4, FS_EmptySet
  <2>3. QED
    BY <1>3, <1>4, <2>1, <2>2
<1>6. Below(pages, v) \in SUBSET UpTo(pages, v)
  BY <1>0 DEF Below, UpTo
<1>7. Cardinality(Below(pages, v)) =< Cardinality(UpTo(pages, v))
  BY <1>2, <1>6, FS_Subset
<1>8. ASSUME v \in Numbers(pages)
      PROVE  Cardinality(Below(pages, v)) < Cardinality(UpTo(pages, v))
  <2>1. PICK k \in D : pages[k] = v
    BY <1>8 DEF Numbers
  <2>2. k \in UpTo(pages, v) /\ k \notin Below(pages, v)
    BY <2>1 DEF UpTo, Below
  <2>3. Cardinality(Below(pages, v)) # Cardinality(UpTo(pages, v))
    BY <1>2, <1>6, <2>2, FS_Subset
  <2>4. QED
    BY <1>3, <1>7, <2>3
<1>9. QED
  BY <1>3, <1>5, <1>7, <1>8

\* The value of rank n: fewer than n are below it, n or more are not above it.
HasRank(pages, v, n) ==
    v \in Numbers(pages) /\ Cardinality(Below(pages, v)) < n /\ Cardinality(UpTo(pages, v)) >= n

LEMMA RankExists ==
    ASSUME NEW pages, ArePages(pages), NEW n \in 1 .. Cardinality(DOMAIN pages)
    PROVE  \E v \in Numbers(pages) : HasRank(pages, v, n)
<1> DEFINE D == DOMAIN pages
           V == Numbers(pages)
           Far == {v \in V : Cardinality(UpTo(pages, v)) >= n}
<1>0. IsFiniteSet(D) /\ \A k \in D : pages[k] \in Nat
  BY DEF ArePages
<1>1. Cardinality(D) \in Nat /\ n \in Nat /\ n >= 1 /\ n =< Cardinality(D)
  BY <1>0, FS_CardinalityType
<1>2. V \in SUBSET Nat
  BY <1>0 DEF Numbers
<1>3. ASSUME NEW A \in SUBSET D, A # {}
      PROVE  \E k \in A : \A j \in A : pages[j] =< pages[k]
  <2> DEFINE top(k) == {j \in A : pages[j] > pages[k]}
             sizes == {Cardinality(top(k)) : k \in A}
  <2>1. ASSUME NEW k \in A PROVE IsFiniteSet(top(k)) /\ Cardinality(top(k)) \in Nat
    <3>1. top(k) \in SUBSET D
      OBVIOUS
    <3>2. QED
      BY <1>0, <3>1, FS_Subset, FS_CardinalityType
  <2>2. sizes \in SUBSET Nat /\ sizes # {}
    BY <1>3, <2>1
  <2>3. PICK m \in sizes : \A l \in sizes : m =< l
    <3> HIDE DEF sizes
    <3>1. QED
      BY <2>2, LeastNatural
  <2>4. PICK k \in A : m = Cardinality(top(k))
    BY <2>3
  <2>5. ASSUME NEW j \in A, pages[j] > pages[k] PROVE FALSE
    <3>0. \A i \in A : pages[i] \in Nat
      BY <1>0
    <3>1. top(j) \in SUBSET top(k)
      BY <2>5, <3>0
    <3>2. j \in top(k) /\ j \notin top(j)
      BY <2>5, <3>0
    <3>3. Cardinality(top(j)) =< Cardinality(top(k)) /\ Cardinality(top(j)) # Cardinality(top(k))
      BY <2>1, <3>1, <3>2, FS_Subset
    <3>4. Cardinality(top(k)) =< Cardinality(top(j))
      BY <2>3, <2>4
    <3>5. Cardinality(top(k)) \in Nat /\ Cardinality(top(j)) \in Nat
      BY <2>1
    <3> HIDE DEF top
    <3>6. QED
      BY <3>3, <3>4, <3>5
  <2>6. \A i \in A : pages[i] \in Nat
    BY <1>0
  <2>7. QED
    BY <2>5, <2>6
<1>4. Far # {}
  <2>1. D # {}
    BY <1>1, <1>0, FS_EmptySet
  <2>2. PICK k \in D : \A j \in D : pages[j] =< pages[k]
    BY <1>3, <2>1
  <2>3. UpTo(pages, pages[k]) = D /\ pages[k] \in V
    BY <2>2 DEF UpTo, Numbers
  <2>4. QED
    BY <1>1, <2>3
<1>5. PICK v \in Far : \A u \in Far : v =< u
  <2>1. Far \in SUBSET Nat
    BY <1>2
  <2> HIDE DEF Far
  <2>2. QED
    BY <1>4, <2>1, LeastNatural
<1>6. v \in V /\ v \in Nat /\ Cardinality(UpTo(pages, v)) >= n
  BY <1>2
<1>7. Cardinality(Below(pages, v)) < n
  <2>1. CASE Below(pages, v) = {}
    BY <1>1, <2>1, FS_EmptySet
  <2>2. CASE Below(pages, v) # {}
    <3>1. Below(pages, v) \in SUBSET D
      BY DEF Below
    <3>2. PICK k \in Below(pages, v) : \A j \in Below(pages, v) : pages[j] =< pages[k]
      BY <1>3, <2>2, <3>1
    <3>3. k \in D /\ pages[k] < v /\ pages[k] \in V /\ pages[k] \in Nat
      BY <1>0 DEF Below, Numbers
    <3>4. UpTo(pages, pages[k]) = Below(pages, v)
      <4>1. \A j \in D : pages[j] \in Nat
        BY <1>0
      <4>2. ASSUME NEW j \in D PROVE pages[j] =< pages[k] <=> pages[j] < v
        BY <1>6, <3>2, <3>3, <4>1 DEF Below
      <4>3. QED
        BY <4>2 DEF UpTo, Below
    <3>5. pages[k] \notin Far
      BY <1>5, <1>6, <3>3
    <3>6. Cardinality(UpTo(pages, pages[k])) \in Nat
      BY <3>3, Sizes
    <3>7. QED
      BY <1>1, <3>3, <3>4, <3>5, <3>6
  <2>3. QED
    BY <2>1, <2>2
<1>8. QED
  BY <1>6, <1>7 DEF HasRank

LEMMA RankIsUnique ==
    ASSUME NEW pages, ArePages(pages), NEW n \in Nat,
           NEW u, NEW v, HasRank(pages, u, n), HasRank(pages, v, n)
    PROVE  u = v
<1>1. \A k \in DOMAIN pages : pages[k] \in Nat
  BY DEF ArePages
<1>2. u \in Nat /\ v \in Nat
  BY <1>1 DEF HasRank, Numbers
<1>3. ASSUME NEW x \in Nat, NEW y \in Nat, HasRank(pages, x, n), HasRank(pages, y, n), x < y
      PROVE  FALSE
  <2>1. UpTo(pages, x) \in SUBSET Below(pages, y)
    BY <1>1, <1>3 DEF UpTo, Below
  <2>2. IsFiniteSet(Below(pages, y))
    <3>1. Below(pages, y) \in SUBSET DOMAIN pages
      BY DEF Below
    <3>2. QED
      BY <3>1, FS_Subset DEF ArePages
  <2>3. Cardinality(UpTo(pages, x)) =< Cardinality(Below(pages, y))
    BY <2>1, <2>2, FS_Subset
  <2>4. Cardinality(UpTo(pages, x)) \in Nat /\ Cardinality(Below(pages, y)) \in Nat
    BY Sizes
  <2>5. Cardinality(Below(pages, y)) < n /\ Cardinality(UpTo(pages, x)) >= n
    BY <1>3 DEF HasRank
  <2>6. QED
    BY <2>3, <2>4, <2>5
<1>4. QED
  BY <1>2, <1>3

LEMMA NthHasRank ==
    ASSUME NEW pages, ArePages(pages), NEW n \in 1 .. Cardinality(DOMAIN pages)
    PROVE  HasRank(pages, Dump!Nth(pages, n), n)
<1> USE SameDumpCount
<1>1. \E v \in Numbers(pages) : HasRank(pages, v, n)
  BY RankExists
<1>2. Dump!Nth(pages, n) = CHOOSE v \in Numbers(pages) :
            Cardinality(Below(pages, v)) < n /\ Cardinality(UpTo(pages, v)) >= n
  BY DEF Dump!Nth, Numbers, Below, UpTo
<1>3. QED
  BY <1>1, <1>2 DEF HasRank

\* The median that the code computes from two ranks is the mean of the middle.
LEMMA MiddleIsTwoRanks ==
    ASSUME NEW pages, ArePages(pages), DOMAIN pages # {}
    PROVE  LET n == Cardinality(DOMAIN pages)
               a == Dump!Nth(pages, (n + 1) \div 2)
               b == Dump!Nth(pages, n \div 2 + 1)
           IN  a \in Nat /\ b \in Nat /\ Dump!Middle(pages) = {a, b}
<1> USE SameDumpCount
<1> DEFINE D == DOMAIN pages
           n == Cardinality(D)
           lo == (n + 1) \div 2
           hi == n \div 2 + 1
           a == Dump!Nth(pages, lo)
           b == Dump!Nth(pages, hi)
<1>0. IsFiniteSet(D) /\ \A k \in D : pages[k] \in Nat
  BY DEF ArePages
<1>1. n \in Nat /\ n # 0
  BY <1>0, FS_CardinalityType, FS_EmptySet
<1>2. /\ lo \in 1 .. n /\ hi \in 1 .. n /\ lo \in Nat /\ hi \in Nat
      /\ 2 * lo >= n /\ 2 * (lo - 1) =< n /\ 2 * (hi - 1) =< n /\ 2 * hi >= n
      /\ n < 2 * hi /\ n =< 2 * lo /\ (hi = lo \/ hi = lo + 1)
  BY <1>1
<1>3. HasRank(pages, a, lo) /\ HasRank(pages, b, hi)
  BY <1>2, NthHasRank
<1>4. \A v \in Numbers(pages) : v \in Nat
  BY <1>0 DEF Numbers
<1>5. a \in Nat /\ b \in Nat
  BY <1>3, <1>4 DEF HasRank
<1>6. \A v : v \in Dump!Middle(pages) <=>
          /\ v \in Numbers(pages)
          /\ 2 * Cardinality(Below(pages, v)) =< n /\ 2 * Cardinality(Above(pages, v)) =< n
  BY DEF Dump!Middle, Numbers, Below, Above
<1> HIDE DEF a, b
<1>7. ASSUME NEW v \in {a, b} PROVE v \in Dump!Middle(pages)
  <2>1. v \in Numbers(pages) /\ v \in Nat
    BY <1>3, <1>5 DEF HasRank
  <2>2. PICK m \in {lo, hi} : HasRank(pages, v, m)
    BY <1>3
  <2>3. Cardinality(Below(pages, v)) < m /\ Cardinality(UpTo(pages, v)) >= m
    BY <2>2 DEF HasRank
  <2>4. /\ Cardinality(Below(pages, v)) \in Nat /\ Cardinality(UpTo(pages, v)) \in Nat
        /\ Cardinality(Above(pages, v)) \in Nat
        /\ Cardinality(UpTo(pages, v)) + Cardinality(Above(pages, v)) = n
    BY <2>1, Sizes
  <2>5. m \in Nat /\ 2 * m >= n /\ 2 * (m - 1) =< n
    BY <1>2
  <2> HIDE DEF n, lo, hi
  <2>6. 2 * Cardinality(Below(pages, v)) =< n /\ 2 * Cardinality(Above(pages, v)) =< n
    BY <1>1, <2>3, <2>4, <2>5
  <2>7. QED
    BY <1>6, <2>1, <2>6
<1>8. ASSUME NEW v \in Dump!Middle(pages) PROVE v \in {a, b}
  <2>1. v \in Numbers(pages) /\ v \in Nat
    BY <1>4, <1>6
  <2>2. 2 * Cardinality(Below(pages, v)) =< n /\ 2 * Cardinality(Above(pages, v)) =< n
    BY <1>6
  <2>4. /\ Cardinality(Below(pages, v)) \in Nat /\ Cardinality(UpTo(pages, v)) \in Nat
        /\ Cardinality(Above(pages, v)) \in Nat
        /\ Cardinality(UpTo(pages, v)) + Cardinality(Above(pages, v)) = n
        /\ Cardinality(Below(pages, v)) < Cardinality(UpTo(pages, v))
    BY <2>1, Sizes
  <2>5. \/ Cardinality(Below(pages, v)) < lo /\ Cardinality(UpTo(pages, v)) >= lo
        \/ Cardinality(Below(pages, v)) < hi /\ Cardinality(UpTo(pages, v)) >= hi
    BY <1>1, <2>2, <2>4
  <2>6. HasRank(pages, v, lo) \/ HasRank(pages, v, hi)
    BY <2>1, <2>5 DEF HasRank
  <2>7. QED
    BY <1>2, <1>3, <2>6, RankIsUnique
<1>9. Dump!Middle(pages) = {a, b}
  BY <1>7, <1>8
<1>10. QED
  BY <1>5, <1>9 DEF a, b

LEMMA MedianClears ==
    ASSUME NEW pages, ArePages(pages), MinPages \in Int
    PROVE  DOMAIN pages # {} /\ Dump!Median(pages) >= MinPages
             <=> \E p, q \in Dump!Middle(pages) : Dump!Middle(pages) = {p, q} /\ p + q >= 2 * MinPages - 1
<1> USE SameDumpCount
<1>1. CASE DOMAIN pages = {}
  BY <1>1 DEF Dump!Middle
<1>2. CASE DOMAIN pages # {}
  <2>1. PICK a \in Nat, b \in Nat : /\ Dump!Median(pages) = (a + b + 1) \div 2
                                    /\ Dump!Middle(pages) = {a, b}
    BY <1>2, MiddleIsTwoRanks DEF Dump!Median
  <2>2. (a + b + 1) \div 2 >= MinPages <=> a + b >= 2 * MinPages - 1
    OBVIOUS
  <2>3. ASSUME NEW p \in {a, b}, NEW q \in {a, b}, {p, q} = {a, b} PROVE p + q = a + b
    BY <2>3
  <2>4. QED
    BY <1>2, <2>1, <2>2, <2>3
<1>3. QED
  BY <1>1, <1>2

-----------------------------------------------------------------------------
(* The dump: what an edition selects. *)

IsEdition(e) == e \in 1 .. Len(Editions)

\* What two passes select, over a log and the editions of two dumps.
Chosen(read) ==
    {w \in DOMAIN Dump!Counted(read.log) :
        Dump!Selects(Dump!Counted(read.log)[w], Dump!Aggregate(read.editions, w))}

LEMMA ChosenAreEligible ==
    ASSUME NEW read, IsEdition(read.log), IsEdition(read.editions), IsEdition(read.works)
    PROVE  Chosen(read) \cap DOMAIN Editions[read.works].works = Dump!Eligible(read)
<1> USE SameDumpCount
<1>1. ASSUME NEW w \in DOMAIN Editions[read.works].works
      PROVE  w \in Chosen(read) <=> w \in Dump!Eligible(read)
  <2> DEFINE eds == Editions[read.editions].editions
             mine == {k \in DOMAIN eds : w \in eds[k].works}
             pages == [k \in {x \in mine : eds[x].pages # Dump!Unpaged} |-> eds[k].pages]
             english == \E k \in mine : "eng" \in eds[k].langs
             spanish == \E k \in mine : "spa" \in eds[k].langs
             agg == Dump!Aggregate(read.editions, w)
  <2>1. ArePages(pages)
    <3>1. IsFiniteSet(DOMAIN eds) /\ \A k \in DOMAIN eds : eds[k].pages \in Nat \cup {Dump!Unpaged}
      BY DumpAssumption DEF IsEdition
    <3>2. DOMAIN pages \in SUBSET DOMAIN eds
      OBVIOUS
    <3>3. IsFiniteSet(DOMAIN pages)
      BY <3>1, <3>2, FS_Subset
    <3>4. \A k \in DOMAIN pages : pages[k] \in Nat
      BY <3>1
    <3> HIDE DEF pages
    <3>5. QED
      BY <3>3, <3>4 DEF ArePages
  <2>2. /\ agg.pages = pages /\ agg.editions = Cardinality(mine)
        /\ ("eng" \in agg.langs <=> english) /\ ("spa" \in agg.langs <=> spanish)
    BY DEF Dump!Aggregate
  <2>3. w \in Works
    BY DumpAssumption DEF IsEdition
  <2>4. MinLog \in Int /\ MinLogEs \in Int /\ MinPages \in Int /\ Dump!Floor \in Int
        /\ Dump!Floor =< MinLog /\ Dump!Floor =< MinLogEs
    BY DumpAssumption DEF Dump!Floor
  <2>5. Dump!Shelvings(read.log, w) \in Nat
    <3>1. IsFiniteSet(DOMAIN Editions[read.log].log)
      BY DumpAssumption DEF IsEdition
    <3>2. {k \in DOMAIN Editions[read.log].log : Editions[read.log].log[k] = w} \in SUBSET DOMAIN Editions[read.log].log
      OBVIOUS
    <3>3. QED
      BY <3>1, <3>2, FS_Subset, FS_CardinalityType DEF Dump!Shelvings
  <2>6. DOMAIN Dump!Counted(read.log) = {x \in Works : Dump!Shelvings(read.log, x) >= Dump!Floor}
    BY DEF Dump!Counted
  <2>7. w \in DOMAIN Dump!Counted(read.log) <=> Dump!Shelvings(read.log, w) >= Dump!Floor
    BY <2>3, <2>6
  <2>8. w \in DOMAIN Dump!Counted(read.log) => Dump!Counted(read.log)[w] = Dump!Shelvings(read.log, w)
    BY DEF Dump!Counted
  <2>9. w \in Chosen(read) <=> Dump!Shelvings(read.log, w) >= Dump!Floor /\ Dump!Selects(Dump!Shelvings(read.log, w), agg)
    BY <2>7, <2>8 DEF Chosen
  <2> DEFINE middling == \E p, q \in Dump!Middle(pages) : Dump!Middle(pages) = {p, q} /\ p + q >= 2 * MinPages - 1
             far(minLog, minEditions) ==
                Dump!Shelvings(read.log, w) >= minLog /\ Cardinality(mine) >= minEditions /\ middling
  <2>10. DOMAIN pages # {} /\ Dump!Median(pages) >= MinPages <=> middling
    <3> HIDE DEF pages
    <3>1. QED
      BY <2>1, <2>4, MedianClears
  <2>11. ASSUME NEW minLog, NEW minEditions
         PROVE  Dump!Clears(Dump!Shelvings(read.log, w), agg, minLog, minEditions) <=> far(minLog, minEditions)
    <3> HIDE DEF pages, mine, agg, middling
    <3>1. QED
      BY <2>2, <2>10 DEF Dump!Clears, middling
  <2>12. w \in Dump!Eligible(read) <=>
            /\ english \/ spanish
            /\ Dump!Shelvings(read.log, w) >= (IF english THEN MinLog ELSE MinLogEs)
            /\ Cardinality(mine) >= (IF english THEN MinEditions ELSE MinEditionsEs)
            /\ middling
    BY DEF Dump!Eligible
  <2>13. Dump!Selects(Dump!Shelvings(read.log, w), agg) <=>
            IF english THEN far(MinLog, MinEditions) ELSE spanish /\ far(MinLogEs, MinEditionsEs)
    <3> HIDE DEF far, agg, english, spanish
    <3>1. QED
      BY <2>2, <2>11 DEF Dump!Selects
  <2> HIDE DEF agg, english, spanish, mine, pages, middling
  <2>14. CASE english
    BY <2>4, <2>5, <2>9, <2>12, <2>13, <2>14
  <2>15. CASE ~english
    BY <2>4, <2>5, <2>9, <2>12, <2>13, <2>15
  <2>16. QED
    BY <2>14, <2>15
<1>2. Dump!Eligible(read) \subseteq DOMAIN Editions[read.works].works
  BY DEF Dump!Eligible
<1>3. QED
  BY <1>1, <1>2

-----------------------------------------------------------------------------
(* The dump: its passes. *)

Dirs == 0 .. Len(Editions)
DumpSteps == {"idle", "log", "editions", "works", "authors", "load", "check"}

\* A directory is a record with the five fields, and knows of each artifact what it is made of.
IsDir(d) ==
    /\ DOMAIN d = {"of", "counts", "selected", "records", "names"}
    /\ d = [f \in DOMAIN d |-> d[f]]
    /\ d.of = [file \in Dump!Files |-> d.of[file]]

\* The artifacts of the directory of edition e: each of an edition of its own file, the
\* works of e itself, and each with the ones that it was made of.
OfEdition(d, e) ==
    /\ d.of.log # 0 => IsEdition(d.of.log) /\ d.counts = Dump!Counted(d.of.log)
    /\ d.of.editions # 0 => d.of.log # 0 /\ IsEdition(d.of.editions) /\ d.selected = Chosen(d.of)
    /\ d.of.works # 0 => /\ d.of.editions # 0 /\ d.of.works = e
                         /\ DOMAIN d.records = Dump!Eligible(d.of)
    /\ d.of.authors # 0 => d.of.works # 0

\* A phase is reached with the artifacts of the phases before it.
Reached(step, d) ==
    /\ step \in {"editions", "works", "authors", "load", "check"} => d.of.log # 0
    /\ step \in {"works", "authors", "load", "check"} => d.of.editions # 0
    /\ step \in {"authors", "load", "check"} => d.of.works # 0
    /\ step \in {"load", "check"} => d.of.authors # 0

\* All passes of a directory are done, and the catalog has what they found.
Held(d) ==
    /\ \A file \in Dump!Files : d.of[file] # 0
    /\ Dump!Eligible(d.of) \ Unwritable \subseteq DOMAIN catalog

DumpShape ==
    /\ alias \in [Dump!Files -> 1 .. Len(Editions)] /\ watermark \in 0 .. alias.works
    /\ run.dir \in 0 .. alias.works /\ run.step \in DumpSteps /\ run.force \in BOOLEAN
    /\ run = [step |-> run.step, dir |-> run.dir, force |-> run.force]
    /\ run.force => run.dir = 0
    /\ dirs = [d \in Dirs |-> dirs[d]]
    /\ \A d \in Dirs : IsDir(dirs[d])
    /\ \A d \in Dirs : d > alias.works => \A file \in Dump!Files : dirs[d].of[file] = 0

Diffing ==
    /\ DumpShape
    /\ OfEdition(dirs[alias.works], alias.works)
    /\ Reached(run.step, dirs[run.dir])
    /\ run.step = "check" /\ run.dir = alias.works => Held(dirs[alias.works])
    /\ watermark = alias.works => Held(dirs[alias.works])

\* The numbers of a state of that shape.
LEMMA DumpNumbers ==
    ASSUME DumpShape
    PROVE  /\ Len(Editions) \in Nat /\ alias.works \in Nat /\ alias.works >= 1
           /\ alias.works =< Len(Editions) /\ alias.works \in Dirs /\ alias.works # 0
           /\ watermark \in Nat /\ watermark =< alias.works
           /\ run.dir \in Nat /\ run.dir =< alias.works /\ run.dir \in Dirs /\ 0 \in Dirs
           /\ \A file \in Dump!Files : IsEdition(alias[file]) /\ alias[file] # 0
<1>1. alias \in [Dump!Files -> 1 .. Len(Editions)] /\ "works" \in Dump!Files
  BY DEF DumpShape, Dump!Files
<1>2. Len(Editions) \in Nat
  BY DumpAssumption
<1>3. \A file \in Dump!Files : alias[file] \in 1 .. Len(Editions)
  BY <1>1
<1>4. alias.works \in 1 .. Len(Editions)
  BY <1>1, <1>3
<1>5. watermark \in 0 .. alias.works /\ run.dir \in 0 .. alias.works
  BY DEF DumpShape
<1>6. QED
  BY <1>2, <1>3, <1>4, <1>5 DEF Dirs, IsEdition

LEMMA DiffingInit == Dump!Init => Diffing
<1> SUFFICES ASSUME Dump!Init PROVE Diffing
  OBVIOUS
<1>1. Len(Editions) \in Nat /\ Len(Editions) >= 1
  BY DumpAssumption
<1>2. /\ alias = [file \in Dump!Files |-> 1] /\ watermark = 0 /\ run = Dump!AtRest
      /\ dirs = [d \in Dirs |-> Dump!Empty]
  BY DEF Dump!Init, Dirs
<1>3. alias.works = 1 /\ alias \in [Dump!Files -> 1 .. Len(Editions)]
  BY <1>1, <1>2 DEF Dump!Files
<1>4. IsDir(Dump!Empty) /\ \A file \in Dump!Files : Dump!Empty.of[file] = 0
  BY DEF IsDir, Dump!Empty, Dump!Unread
<1>5. \A d \in Dirs : dirs[d] = Dump!Empty
  BY <1>2
<1>6. /\ run.step = "idle" /\ run.dir = 0 /\ run.force = FALSE
      /\ run = [step |-> run.step, dir |-> run.dir, force |-> run.force]
  BY <1>2 DEF Dump!AtRest, Dump!Seed
<1> HIDE DEF IsDir, Dump!Empty
<1>7. DumpShape
  <2>1. dirs = [d \in Dirs |-> dirs[d]]
    BY <1>2
  <2>2. \A d \in Dirs : IsDir(dirs[d]) /\ \A file \in Dump!Files : dirs[d].of[file] = 0
    BY <1>4, <1>5
  <2>3. watermark \in 0 .. alias.works /\ run.dir \in 0 .. alias.works
    BY <1>2, <1>3, <1>6
  <2>4. QED
    BY <1>3, <1>6, <2>1, <2>2, <2>3 DEF DumpShape, DumpSteps
<1>8. OfEdition(dirs[alias.works], alias.works)
  <2>1. 1 \in Dirs
    BY <1>1 DEF Dirs
  <2>2. dirs[alias.works] = Dump!Empty
    BY <1>3, <1>5, <2>1
  <2>3. QED
    BY <1>4, <2>2 DEF OfEdition, Dump!Files
<1>9. QED
  BY <1>2, <1>3, <1>6, <1>7, <1>8 DEF Diffing, Reached

LEMMA OfPublish == ASSUME Diffing, Dump!Publish PROVE Diffing'
<1> USE DEF Diffing
<1>1. PICK file \in Dump!Files : alias[file] < Len(Editions) /\ alias' = [alias EXCEPT ![file] = @ + 1]
  BY DEF Dump!Publish
<1>2. UNCHANGED <<watermark, dirs, catalog, run>>
  BY DEF Dump!Publish
<1>3. /\ alias \in [Dump!Files -> 1 .. Len(Editions)] /\ Len(Editions) \in Nat /\ "works" \in Dump!Files
  BY DumpAssumption DEF DumpShape, Dump!Files
<1>4. alias' \in [Dump!Files -> 1 .. Len(Editions)]
  BY <1>1, <1>3
<1>5. alias'.works = IF file = "works" THEN alias.works + 1 ELSE alias.works
  BY <1>1, <1>3
<1>6. DumpShape'
  <2>1. (\A d \in Dirs : d > alias.works => \A f \in Dump!Files : dirs[d].of[f] = 0)'
    BY <1>2, <1>5, DumpNumbers DEF DumpShape, Dirs
  <2>2. watermark' \in 0 .. alias'.works /\ run'.dir \in 0 .. alias'.works
    BY <1>2, <1>5, DumpNumbers
  <2> HIDE DEF IsDir
  <2>3. (\A d \in Dirs : IsDir(dirs[d]))'
    BY <1>2 DEF DumpShape
  <2>4. QED
    BY <1>2, <1>4, <2>1, <2>2, <2>3 DEF DumpShape
<1>7. CASE file # "works"
  <2>1. alias'.works = alias.works
    BY <1>5, <1>7
  <2>2. OfEdition(dirs[alias.works], alias.works)' /\ Reached(run.step, dirs[run.dir])'
    BY <1>2, <2>1
  <2>3. Held(dirs[alias.works]) => Held(dirs[alias.works])'
    BY <1>2, <2>1 DEF Held
  <2>4. QED
    BY <1>2, <1>6, <2>1, <2>2, <2>3
<1>8. CASE file = "works"
  <2>1. /\ alias'.works = alias.works + 1 /\ alias'.works \in Dirs /\ alias'.works > alias.works
        /\ run'.dir # alias'.works /\ watermark' # alias'.works
    BY <1>1, <1>2, <1>5, <1>8, DumpNumbers DEF Dirs
  <2>2. \A f \in Dump!Files : dirs[alias'.works].of[f] = 0
    BY <2>1 DEF DumpShape
  <2>3. OfEdition(dirs[alias.works], alias.works)'
    BY <1>2, <2>2 DEF OfEdition, Dump!Files
  <2>4. Reached(run.step, dirs[run.dir])'
    BY <1>2
  <2>5. QED
    BY <1>6, <2>1, <2>3, <2>4
<1>9. QED
  BY <1>7, <1>8

\* A run starts in the directory of the published edition, or in that of the seeding.
LEMMA OfStart ==
    ASSUME Diffing, NEW dir \in {0, alias.works}, NEW force \in BOOLEAN, force => dir = 0,
           Dump!StartIn(dir, force)
    PROVE  Diffing'
<1> USE DEF Diffing
<1>1. /\ run' = [step |-> "log", dir |-> dir, force |-> force]
      /\ UNCHANGED <<alias, watermark, dirs, catalog>>
  BY DEF Dump!StartIn
<1>2. DumpShape'
  <2>1. dir \in 0 .. alias.works
    BY DumpNumbers
  <2> HIDE DEF IsDir
  <2>2. (\A d \in Dirs : IsDir(dirs[d]))'
    BY <1>1 DEF DumpShape
  <2>3. QED
    BY <1>1, <2>1, <2>2 DEF DumpShape, DumpSteps
<1>3. Reached(run.step, dirs[run.dir])'
  BY <1>1 DEF Reached
<1>4. Held(dirs[alias.works]) => Held(dirs[alias.works])'
  BY <1>1 DEF Held
<1>5. OfEdition(dirs[alias.works], alias.works)'
  BY <1>1
<1>6. run'.step # "check"
  BY <1>1
<1>7. QED
  BY <1>1, <1>2, <1>3, <1>4, <1>5, <1>6

LEMMA OfStarts ==
    ASSUME Diffing, Dump!StartIncremental \/ Dump!Redo \/ Dump!StartSeed PROVE Diffing'
<1>1. CASE Dump!StartIncremental \/ Dump!Redo
  BY <1>1, OfStart DEF Dump!StartIncremental, Dump!Redo, Dump!Edition
<1>2. CASE Dump!StartSeed
  BY <1>2, OfStart DEF Dump!StartSeed, Dump!Seed
<1>3. QED
  BY <1>1, <1>2

\* A phase leaves every other directory alone and keeps what was there, unless it is forced.
LEMMA OfPhase ==
    ASSUME Diffing, NEW file \in Dump!Files, NEW made,
           NEW next \in DumpSteps \ {"check"}, Dump!Phase(file, made, next),
           IsDir(made), made.of = Dump!Here.of,
           LET done == [made EXCEPT !.of[file] = alias[file]]
           IN  /\ Dump!Here.of[file] = 0 /\ run.dir = alias.works => OfEdition(done, alias.works)
               /\ Reached(next, done),
           Dump!Here.of[file] # 0 => Reached(next, Dump!Here)
    PROVE  Diffing'
<1> USE DEF Diffing
<1> DEFINE done == [made EXCEPT !.of[file] = alias[file]]
           kept == Dump!Here.of[file] # 0 /\ ~run.force
<1>1. /\ run.step = file /\ run' = [run EXCEPT !.step = next]
      /\ UNCHANGED <<alias, watermark, catalog, faults>>
      /\ dirs' = IF kept THEN dirs ELSE [dirs EXCEPT ![run.dir] = done]
  BY DEF Dump!Phase, Dump!Unread
<1>2. IsDir(done)
  BY DEF IsDir
<1>3. /\ run' = [step |-> next, dir |-> run.dir, force |-> run.force]
      /\ run'.step = next /\ run'.dir = run.dir /\ run'.force = run.force
  BY <1>1 DEF DumpShape
<1>4. Reached(next, done) /\ (kept => Reached(next, Dump!Here))
  OBVIOUS
<1>5. run.dir = alias.works => ~run.force
  BY DumpNumbers DEF DumpShape
<1>6. run.dir = alias.works /\ ~kept => Dump!Here.of[file] = 0 /\ OfEdition(done, alias.works)
  BY <1>5
<1>7. kept => Dump!Here.of[file] # 0
  OBVIOUS
<1> HIDE DEF done, kept
<1>8. /\ dirs' = [d \in Dirs |-> dirs'[d]]
      /\ \A d \in Dirs : d # run.dir => dirs'[d] = dirs[d]
      /\ dirs'[run.dir] = IF kept THEN Dump!Here ELSE done
  <2>1. dirs = [d \in Dirs |-> dirs[d]] /\ Dump!Here = dirs[run.dir]
    BY DEF DumpShape, Dump!Here
  <2>2. QED
    BY <1>1, <2>1, DumpNumbers
<1>9. DumpShape'
  <2>1. ASSUME NEW d \in Dirs
        PROVE  IsDir(dirs'[d]) /\ (d > alias.works => \A f \in Dump!Files : dirs'[d].of[f] = 0)
    <3>1. d > alias.works => d # run.dir
      BY DumpNumbers DEF Dirs
    <3> HIDE DEF IsDir
    <3>2. QED
      BY <1>2, <1>8, <3>1 DEF DumpShape, Dump!Here
  <2> HIDE DEF IsDir
  <2>2. QED
    BY <1>1, <1>3, <1>8, <2>1 DEF DumpShape
<1>10. Reached(run.step, dirs[run.dir])'
  <2>1. (dirs'[run'.dir] = Dump!Here /\ kept) \/ dirs'[run'.dir] = done
    BY <1>3, <1>8
  <2>2. QED
    BY <1>3, <1>4, <2>1
<1>11. \/ dirs'[alias.works] = dirs[alias.works]
       \/ /\ run.dir = alias.works /\ ~kept
          /\ dirs'[alias.works] = done
  BY <1>8, DumpNumbers DEF Dump!Here
<1>12. OfEdition(dirs[alias.works], alias.works)'
  BY <1>1, <1>6, <1>11
<1>13. run'.step # "check"
  BY <1>3
<1>14. watermark' = alias'.works => Held(dirs[alias.works])'
  <2>1. SUFFICES ASSUME watermark = alias.works PROVE Held(dirs[alias.works])'
    BY <1>1
  <2>2. dirs'[alias.works] = dirs[alias.works]
    BY <1>6, <1>11, <2>1 DEF Held, Dump!Here
  <2>3. QED
    BY <1>1, <2>1, <2>2 DEF Held
<1>15. QED
  BY <1>9, <1>10, <1>12, <1>13, <1>14

LEMMA DirectoryInUse ==
    ASSUME Diffing
    PROVE  /\ IsDir(Dump!Here) /\ Reached(run.step, Dump!Here)
           /\ run.dir = alias.works => OfEdition(Dump!Here, alias.works)
<1>1. run.dir \in Dirs
  BY DumpNumbers DEF Diffing
<1> HIDE DEF IsDir
<1>2. QED
  BY <1>1 DEF Diffing, DumpShape, Dump!Here

\* What an artifact and the mark of its edition change in a directory.
LEMMA Marked ==
    ASSUME NEW d, IsDir(d), NEW made, IsDir(made), made.of = d.of,
           NEW file \in Dump!Files, NEW e
    PROVE  LET done == [made EXCEPT !.of[file] = e]
           IN  /\ done.counts = made.counts /\ done.selected = made.selected
               /\ done.records = made.records
               /\ done.of[file] = e
               /\ \A f \in Dump!Files \ {file} : done.of[f] = d.of[f]
  BY DEF IsDir

LEMMA OfReadingLog == ASSUME Diffing, Dump!ReadingLog PROVE Diffing'
<1> DEFINE here == Dump!Here
           made == [here EXCEPT !.counts = Dump!Counted(alias.log)]
           done == [made EXCEPT !.of["log"] = alias["log"]]
<1>1. /\ IsDir(here) /\ IsDir(made) /\ made.of = here.of
      /\ made.counts = Dump!Counted(alias.log)
  BY DirectoryInUse DEF IsDir
<1>2. Dump!Phase("log", made, "editions")
  BY DEF Dump!ReadingLog
<1>3. run.dir = alias.works => OfEdition(here, alias.works)
  BY DirectoryInUse
<1>4. "log" \in Dump!Files /\ alias.log = alias["log"] /\ IsEdition(alias.log) /\ alias.log # 0
  BY DumpNumbers DEF Dump!Files, Diffing
<1> HIDE DEF made, here
<1>5. /\ done.counts = made.counts /\ done.of.log = alias.log
      /\ done.of.editions = here.of.editions /\ done.of.works = here.of.works
      /\ done.of.authors = here.of.authors
  BY <1>1, <1>4, Marked DEF Dump!Files
<1> HIDE DEF done
<1>6. run.dir = alias.works /\ here.of.log = 0 => OfEdition(done, alias.works)
  BY <1>1, <1>3, <1>4, <1>5 DEF OfEdition
<1>7. Reached("editions", done) /\ (here.of.log # 0 => Reached("editions", here))
  BY <1>4, <1>5 DEF Reached
<1>8. "editions" \in DumpSteps \ {"check"}
  BY DEF DumpSteps
<1>9. QED
  BY <1>1, <1>2, <1>4, <1>6, <1>7, <1>8, OfPhase DEF here, done

LEMMA OfEditionsPass == ASSUME Diffing, Dump!EditionsPass PROVE Diffing'
<1> DEFINE here == Dump!Here
           picked == {w \in DOMAIN here.counts :
                         Dump!Selects(here.counts[w], Dump!Aggregate(alias.editions, w))}
           made == [here EXCEPT !.selected = picked]
           done == [made EXCEPT !.of["editions"] = alias["editions"]]
<1>1. /\ IsDir(here) /\ IsDir(made) /\ made.of = here.of
      /\ made.counts = here.counts /\ made.selected = picked
  <2> HIDE DEF picked
  <2>1. QED
    BY DirectoryInUse DEF IsDir
<1>2. Dump!Phase("editions", made, "works")
  <2>1. picked = {w \in DOMAIN here.counts : \E agg \in {Dump!Aggregate(alias.editions, w)} :
                                                Dump!Selects(here.counts[w], agg)}
    OBVIOUS
  <2> HIDE DEF picked
  <2>2. QED
    BY <2>1 DEF Dump!EditionsPass
<1>3. run.step = "editions"
  BY DEF Dump!EditionsPass, Dump!Phase
<1>4. (run.dir = alias.works => OfEdition(here, alias.works)) /\ here.of.log # 0
  BY DirectoryInUse, <1>3 DEF Reached
<1>5. /\ "editions" \in Dump!Files /\ alias.editions = alias["editions"]
      /\ IsEdition(alias.editions) /\ alias.editions # 0
  BY DumpNumbers DEF Dump!Files, Diffing
<1>6. here.counts = Dump!Counted(here.of.log) =>
         \A of : of.log = here.of.log /\ of.editions = alias.editions => picked = Chosen(of)
  BY DEF Chosen
<1> HIDE DEF made, here, picked
<1>7. /\ done.counts = made.counts /\ done.selected = made.selected
      /\ done.of.editions = alias.editions /\ done.of.log = here.of.log
      /\ done.of.works = here.of.works /\ done.of.authors = here.of.authors
  BY <1>1, <1>5, Marked DEF Dump!Files
<1> HIDE DEF done
<1>8. run.dir = alias.works /\ here.of.editions = 0 => OfEdition(done, alias.works)
  <2>1. SUFFICES ASSUME run.dir = alias.works, here.of.editions = 0 PROVE OfEdition(done, alias.works)
    OBVIOUS
  <2>2. done.selected = Chosen(done.of)
    BY <1>1, <1>4, <1>6, <1>7, <2>1 DEF OfEdition
  <2>3. QED
    BY <1>1, <1>4, <1>5, <1>7, <2>1, <2>2 DEF OfEdition
<1>9. Reached("works", done) /\ (here.of.editions # 0 => Reached("works", here))
  BY <1>4, <1>5, <1>7 DEF Reached
<1>10. "works" \in DumpSteps \ {"check"}
  BY DEF DumpSteps
<1>11. QED
  BY <1>1, <1>2, <1>5, <1>8, <1>9, <1>10, OfPhase DEF here, done

LEMMA OfWorksPass == ASSUME Diffing, Dump!WorksPass PROVE Diffing'
<1> DEFINE here == Dump!Here
           found == Dump!WorkRecords(alias.works, here.selected)
           made == [here EXCEPT !.records = found]
           done == [made EXCEPT !.of["works"] = alias["works"]]
<1>1. /\ IsDir(here) /\ IsDir(made) /\ made.of = here.of
      /\ made.counts = here.counts /\ made.selected = here.selected /\ made.records = found
  BY DirectoryInUse DEF IsDir
<1>2. Dump!Phase("works", made, "authors")
  BY DEF Dump!WorksPass
<1>3. run.step = "works"
  BY DEF Dump!WorksPass, Dump!Phase
<1>4. /\ run.dir = alias.works => OfEdition(here, alias.works)
      /\ here.of.log # 0 /\ here.of.editions # 0
  BY DirectoryInUse, <1>3 DEF Reached
<1>5. "works" \in Dump!Files /\ alias.works = alias["works"] /\ IsEdition(alias.works) /\ alias.works # 0
  BY DumpNumbers DEF Dump!Files, Diffing
<1>6. DOMAIN found = here.selected \cap DOMAIN Editions[alias.works].works
  BY DEF Dump!WorkRecords
<1> HIDE DEF made, here, found
<1>7. /\ done.counts = made.counts /\ done.selected = made.selected /\ done.records = made.records
      /\ done.of.works = alias.works /\ done.of.log = here.of.log
      /\ done.of.editions = here.of.editions /\ done.of.authors = here.of.authors
  BY <1>1, <1>5, Marked DEF Dump!Files
<1> HIDE DEF done
<1>8. run.dir = alias.works /\ here.of.works = 0 => OfEdition(done, alias.works)
  <2>1. SUFFICES ASSUME run.dir = alias.works, here.of.works = 0 PROVE OfEdition(done, alias.works)
    OBVIOUS
  <2>2. Chosen(done.of) = Chosen(here.of)
    BY <1>7 DEF Chosen
  <2>3. DOMAIN done.records = Chosen(done.of) \cap DOMAIN Editions[done.of.works].works
    BY <1>1, <1>4, <1>6, <1>7, <2>1, <2>2 DEF OfEdition
  <2>4. IsEdition(done.of.log) /\ IsEdition(done.of.editions) /\ IsEdition(done.of.works)
    BY <1>4, <1>5, <1>7, <2>1 DEF OfEdition
  <2>5. DOMAIN done.records = Dump!Eligible(done.of)
    BY <2>3, <2>4, ChosenAreEligible
  <2>6. QED
    BY <1>1, <1>4, <1>5, <1>7, <2>1, <2>2, <2>5 DEF OfEdition
<1>9. Reached("authors", done) /\ (here.of.works # 0 => Reached("authors", here))
  BY <1>4, <1>5, <1>7 DEF Reached
<1>10. "authors" \in DumpSteps \ {"check"}
  BY DEF DumpSteps
<1>11. QED
  BY <1>1, <1>2, <1>5, <1>8, <1>9, <1>10, OfPhase DEF here, done

LEMMA OfAuthorsPass == ASSUME Diffing, Dump!AuthorsPass PROVE Diffing'
<1> DEFINE here == Dump!Here
           wanted == UNION {here.records[w] : w \in DOMAIN here.records}
           made == [here EXCEPT !.names = Dump!AuthorNames(alias.authors, wanted)]
           done == [made EXCEPT !.of["authors"] = alias["authors"]]
<1>1. Dump!Phase("authors", made, "load")
  BY DEF Dump!AuthorsPass
<1> HIDE DEF wanted
<1>2. /\ IsDir(here) /\ IsDir(made) /\ made.of = here.of
      /\ made.counts = here.counts /\ made.selected = here.selected /\ made.records = here.records
  BY DirectoryInUse DEF IsDir
<1>3. run.step = "authors"
  BY <1>1 DEF Dump!Phase
<1>4. /\ run.dir = alias.works => OfEdition(here, alias.works)
      /\ here.of.log # 0 /\ here.of.editions # 0 /\ here.of.works # 0
  BY DirectoryInUse, <1>3 DEF Reached
<1>5. "authors" \in Dump!Files /\ alias["authors"] # 0
  BY DumpNumbers DEF Dump!Files, Diffing
<1> HIDE DEF made, here
<1>6. /\ done.counts = made.counts /\ done.selected = made.selected /\ done.records = made.records
      /\ done.of.works = here.of.works /\ done.of.log = here.of.log
      /\ done.of.editions = here.of.editions /\ done.of.authors = alias["authors"]
  BY <1>2, <1>5, Marked DEF Dump!Files
<1> HIDE DEF done
<1>7. run.dir = alias.works => OfEdition(done, alias.works)
  <2>1. Chosen(done.of) = Chosen(here.of)
    BY <1>6 DEF Chosen
  <2>2. Dump!Eligible(done.of) = Dump!Eligible(here.of)
    BY <1>6 DEF Dump!Eligible
  <2>3. QED
    BY <1>2, <1>4, <1>5, <1>6, <2>1, <2>2 DEF OfEdition
<1>8. Reached("load", done) /\ (here.of.authors # 0 => Reached("load", here))
  BY <1>4, <1>5, <1>6 DEF Reached
<1>9. "load" \in DumpSteps \ {"check"}
  BY DEF DumpSteps
<1>10. QED
  BY <1>1, <1>2, <1>5, <1>7, <1>8, <1>9, OfPhase DEF here, done

\* A step that leaves the directories and the edition alone keeps what they say.
LEMMA ArtifactsKept ==
    ASSUME Diffing, UNCHANGED <<alias, dirs>>
    PROVE  /\ OfEdition(dirs[alias.works], alias.works)' /\ (\A d \in Dirs : IsDir(dirs[d]))'
           /\ DOMAIN catalog \subseteq DOMAIN catalog' =>
                 (Held(dirs[alias.works]) => Held(dirs[alias.works])')
  BY DEF Diffing, DumpShape, Held

\* So does one that ends the run, if what it records is there.
LEMMA OfRest ==
    ASSUME Diffing, UNCHANGED <<alias, dirs>>, run' = Dump!AtRest,
           DOMAIN catalog \subseteq DOMAIN catalog', watermark' \in 0 .. alias.works,
           watermark' = alias.works => Held(dirs[alias.works])
    PROVE  Diffing'
<1>1. /\ run'.step = "idle" /\ run'.dir = 0 /\ run'.force = FALSE
      /\ run' = [step |-> run'.step, dir |-> run'.dir, force |-> run'.force]
  BY DEF Dump!AtRest, Dump!Seed
<1>2. 0 \in 0 .. alias.works
  BY DumpNumbers DEF Diffing
<1> HIDE DEF IsDir
<1>3. DumpShape'
  BY <1>1, <1>2, ArtifactsKept DEF Diffing, DumpShape, DumpSteps
<1>4. QED
  BY <1>1, <1>3, ArtifactsKept DEF Diffing, Reached

LEMMA OfLoad == ASSUME Diffing, Dump!Load PROVE Diffing'
<1>1. UNCHANGED <<alias, watermark, dirs>> /\ run.step = "load"
  BY DEF Dump!Load
<1> DEFINE known == IF run.dir = Dump!Seed THEN {} ELSE DOMAIN catalog
           todo == (DOMAIN Dump!Here.records \cap Dump!Here.selected) \ (known \cup Unwritable)
<1>2. PICK written \in SUBSET todo :
            /\ \/ written = todo /\ run' = [run EXCEPT !.step = "check"]
               \/ run' = Dump!AtRest
            /\ catalog' = [w \in DOMAIN catalog \cup written |->
                              IF w \in written THEN Dump!Credited(w) ELSE catalog[w]]
  BY DEF Dump!Load
<1>3. DOMAIN catalog' = DOMAIN catalog \cup written
  BY <1>2
<1>4. DumpShape
  BY DEF Diffing
<1>5. CASE run' = Dump!AtRest
  BY <1>1, <1>3, <1>4, <1>5, OfRest DEF Diffing, DumpShape
<1>6. CASE written = todo /\ run' = [run EXCEPT !.step = "check"]
  <2>1. /\ run' = [step |-> "check", dir |-> run.dir, force |-> run.force]
        /\ run'.step = "check" /\ run'.dir = run.dir /\ run'.force = run.force
    BY <1>4, <1>6 DEF DumpShape
  <2>2. DumpShape'
    <3> HIDE DEF IsDir
    <3>1. QED
      BY <1>1, <1>4, <2>1, ArtifactsKept DEF DumpShape, DumpSteps
  <2>3. /\ Dump!Here.of.log # 0 /\ Dump!Here.of.editions # 0
        /\ Dump!Here.of.works # 0 /\ Dump!Here.of.authors # 0
    BY <1>1, DirectoryInUse DEF Reached
  <2>4. Reached(run.step, dirs[run.dir])'
    BY <1>1, <2>1, <2>3 DEF Reached, Dump!Here
  <2>5. ASSUME run.dir = alias.works PROVE Held(dirs[alias.works])'
    <3>1. OfEdition(Dump!Here, alias.works)
      BY <2>5, DirectoryInUse
    <3>2. /\ DOMAIN Dump!Here.records = Dump!Eligible(Dump!Here.of)
          /\ Dump!Here.selected = Chosen(Dump!Here.of)
      BY <2>3, <3>1 DEF OfEdition
    <3>3. Dump!Eligible(Dump!Here.of) \subseteq Chosen(Dump!Here.of)
      <4>1. /\ IsEdition(Dump!Here.of.log) /\ IsEdition(Dump!Here.of.editions)
            /\ IsEdition(Dump!Here.of.works)
        BY <1>4, <2>3, <3>1, DumpNumbers DEF OfEdition, IsEdition
      <4>2. QED
        BY <4>1, ChosenAreEligible
    <3>4. known = DOMAIN catalog
      BY <1>4, <2>5, DumpNumbers DEF Dump!Seed
    <3>5. written = Dump!Eligible(Dump!Here.of) \ (DOMAIN catalog \cup Unwritable)
      BY <1>6, <3>2, <3>3, <3>4
    <3>6. Dump!Eligible(Dump!Here.of) \ Unwritable \subseteq DOMAIN catalog'
      BY <1>3, <3>5
    <3>7. dirs'[alias'.works] = Dump!Here
      BY <1>1, <2>5 DEF Dump!Here
    <3>8. QED
      BY <2>3, <3>6, <3>7 DEF Held, Dump!Files
  <2>6. QED
    BY <1>1, <1>3, <2>1, <2>2, <2>4, <2>5, ArtifactsKept DEF Diffing
<1>7. QED
  BY <1>2, <1>5, <1>6

LEMMA OfAdvance == ASSUME Diffing, Dump!Advance PROVE Diffing'
<1>1. UNCHANGED <<alias, dirs, catalog>> /\ run' = Dump!AtRest /\ run.step = "check"
  BY DEF Dump!Advance
<1>2. \/ watermark' = run.dir
      \/ run.dir # alias.works /\ watermark' = watermark
  BY DEF Dump!Advance, Dump!Edition
<1>3. watermark' \in 0 .. alias.works
  BY <1>2 DEF Diffing, DumpShape
<1>4. watermark' = alias.works => Held(dirs[alias.works])
  BY <1>1, <1>2 DEF Diffing
<1>5. QED
  BY <1>1, <1>3, <1>4, OfRest

LEMMA OfEnding == ASSUME Diffing, Dump!EndSeed \/ Dump!Killed PROVE Diffing'
<1>1. UNCHANGED <<alias, watermark, dirs, catalog>> /\ run' = Dump!AtRest
  BY DEF Dump!EndSeed, Dump!Killed
<1>2. QED
  BY <1>1, OfRest DEF Diffing, DumpShape

LEMMA DiffingKept == Diffing /\ [Dump!Next]_Dump!vars => Diffing'
<1> SUFFICES ASSUME Diffing, [Dump!Next]_Dump!vars PROVE Diffing'
  OBVIOUS
<1>1. CASE UNCHANGED Dump!vars
  <2>1. UNCHANGED <<alias, watermark, dirs, catalog, run>>
    BY <1>1 DEF Dump!vars
  <2>2. DumpShape'
    <3> HIDE DEF IsDir
    <3>1. QED
      BY <2>1, ArtifactsKept DEF Diffing, DumpShape
  <2>3. QED
    BY <2>1, <2>2, ArtifactsKept DEF Diffing, Reached
<1>2. CASE Dump!Next
  BY <1>2, OfPublish, OfStarts, OfReadingLog, OfEditionsPass, OfWorksPass,
     OfAuthorsPass, OfLoad, OfAdvance, OfEnding DEF Dump!Next, Dump!Go
<1>3. QED
  BY <1>1, <1>2

LEMMA DiffingImplies == Diffing => Dump!RecordedMeansDiffed /\ Dump!DirectoryHoldsItsEdition
<1> SUFFICES ASSUME Diffing PROVE Dump!RecordedMeansDiffed /\ Dump!DirectoryHoldsItsEdition
  OBVIOUS
<1>1. Dump!DirectoryHoldsItsEdition
  BY DEF Diffing, OfEdition, Dump!DirectoryHoldsItsEdition, Dump!Edition, Dump!Unread
<1>2. Dump!RecordedMeansDiffed
  BY DEF Diffing, OfEdition, Held, Dump!RecordedMeansDiffed, Dump!Edition, Dump!Unread, Dump!Files
<1>3. QED
  BY <1>1, <1>2

(***************************************************************************)
(* "an artifact can only ever be reused by a run of the same edition"      *)
(* (run_book_incremental): whatever is resumed, killed or overtaken by a   *)
(* new edition, an edition that is recorded while it is the published one  *)
(* has all its passes done, its works were read from that very edition,    *)
(* and those of them that are eligible by the log and the editions that    *)
(* were read are in the catalog, all that can be written.  Of which months *)
(* that log and those editions are is not said: their aliases move on      *)
(* their own, and no run asks where they point.                            *)
(***************************************************************************)
THEOREM EditionsAreDiffedWhole == Spec => []RecordedMeansDiffed
<1> DEFINE Here == part = "dump"
<1>1. Init /\ Here => Diffing
  BY DiffingInit DEF Init
<1>2. UNCHANGED vars => UNCHANGED Dump!vars
  BY DEF vars, Dump!vars, alias, watermark, dirs, catalog, run, faults
<1>3. [Next]_vars /\ Here /\ Diffing => Diffing' /\ Here'
  BY <1>2, DiffingKept DEF Next, vars
<1>4. [Next]_vars /\ ~Here => ~Here'
  BY DEF Next, vars
<1>5. (Here => Diffing) => RecordedMeansDiffed
  BY DiffingImplies DEF RecordedMeansDiffed
<1> HIDE DEF Here
<1>6. QED
  BY <1>1, <1>3, <1>4, <1>5, PTL DEF Spec

-----------------------------------------------------------------------------
(* Slices of books. *)

\* What a slice is about to write of a book was read in its record.
WasRead(row) == row.book \in Detailed /\ (row.book \in Described => row.overview)
HasFields == DOMAIN job = {"step", "work", "batch"} /\ job = [f \in DOMAIN job |-> job[f]]
ReadInRecord == HasFields /\ \A r \in job.batch : WasRead(r)

LEMMA ReadInRecordInit == job = Books!AtRest => ReadInRecord
  BY DEF Books!AtRest, ReadInRecord, HasFields

LEMMA FetchReads == ASSUME ReadInRecord, Books!FetchChunk PROVE ReadInRecord'
<1>1. PICK failed \in SUBSET (Books!Chunk \cap Answered), unread \in SUBSET BookWriters :
          job' = [job EXCEPT !.work = Books!Rest,
                        !.batch = @ \cup {[book |-> r.book, overview |-> r.overview,
                                           authors |-> Books!Authors(r.book, unread)] :
                                              r \in Books!BatchOf(failed)}]
  BY DEF Books!FetchChunk
<1> DEFINE new == {[book |-> r.book, overview |-> r.overview,
                    authors |-> Books!Authors(r.book, unread)] : r \in Books!BatchOf(failed)}
<1>2. ASSUME NEW r \in Books!BatchOf(failed)
      PROVE  WasRead(r)
  <2>1. PICK b \in Detailed : r = [book |-> b, overview |-> b \in Described]
    BY <1>2 DEF Books!BatchOf, Books!Rows
  <2>2. r.book = b /\ r.overview = (b \in Described)
    BY <2>1
  <2>3. QED
    BY <2>2 DEF WasRead
<1>3. \A r \in new : WasRead(r)
  BY <1>2 DEF WasRead
<1> HIDE DEF new
<1>4. job'.batch = job.batch \cup new /\ HasFields'
  BY <1>1 DEF ReadInRecord, HasFields, new
<1>5. QED
  BY <1>3, <1>4 DEF ReadInRecord

LEMMA FlushErasesNothing ==
    ASSUME ReadInRecord, Books!Flush
    PROVE  ReadInRecord' /\ Books!StepErasesNothing
<1>1. PICK rejected \in SUBSET job.batch :
          LET kept == job.batch \ rejected
              ids == {r.book : r \in kept}
              Of(b) == CHOOSE r \in kept : r.book = b
          IN  /\ overview' = [b \in BookIds |-> IF b \in ids THEN Of(b).overview ELSE overview[b]]
              /\ credits' = [b \in BookIds |-> IF b \in ids THEN credits[b] \cup Of(b).authors
                                                ELSE credits[b]]
  BY DEF Books!Flush
<1> DEFINE written == job.batch \ rejected
           Row(b) == CHOOSE r \in written : r.book = b
<1>2. ASSUME NEW b \in {r.book : r \in written}
      PROVE  b \in Detailed /\ (b \in Described => Row(b).overview)
  <2>1. Row(b) \in job.batch /\ Row(b).book = b
    OBVIOUS
  <2>2. QED
    BY <2>1 DEF ReadInRecord, WasRead
<1>3. job' = Books!AtRest
  BY DEF Books!Flush
<1>4. ReadInRecord'
  BY <1>3 DEF ReadInRecord, HasFields, Books!AtRest
<1>5. ASSUME NEW b \in BookIds
      PROVE  /\ overview[b] /\ ~overview'[b] => b \in Detailed \ Described
             /\ credits[b] \subseteq credits'[b]
  <2>1. CASE b \in {r.book : r \in written}
    BY <1>1, <1>2, <2>1
  <2>2. CASE b \notin {r.book : r \in written}
    BY <1>1, <2>2
  <2>3. QED
    BY <2>1, <2>2
<1>6. QED
  BY <1>4, <1>5 DEF Books!StepErasesNothing

LEMMA ReadInRecordKept ==
    ReadInRecord /\ [Books!Next]_Books!vars => ReadInRecord' /\ Books!StepErasesNothing
<1> SUFFICES ASSUME ReadInRecord, [Books!Next]_Books!vars
             PROVE  ReadInRecord' /\ Books!StepErasesNothing
  OBVIOUS
<1>1. CASE Books!Start \/ Books!ChunkFails \/ Books!Killed
  <2>1. UNCHANGED <<overview, credits>>
    BY <1>1 DEF Books!Start, Books!ChunkFails, Books!Killed
  <2>2. Books!StepErasesNothing
    BY <2>1 DEF Books!StepErasesNothing
  <2>3. \/ job' = [Books!AtRest EXCEPT !.step = "fetch", !.work = Books!Oldest]
        \/ job' = [job EXCEPT !.work = Books!Rest]
        \/ job' = Books!AtRest
    BY <1>1 DEF Books!Start, Books!ChunkFails, Books!Killed
  <2>4. CASE job' = [Books!AtRest EXCEPT !.step = "fetch", !.work = Books!Oldest]
    <3>1. job'.batch = {} /\ HasFields'
      BY <2>4 DEF Books!AtRest, HasFields
    <3>2. QED
      BY <2>2, <3>1 DEF ReadInRecord
  <2>5. CASE job' = [job EXCEPT !.work = Books!Rest]
    <3>1. job'.batch = job.batch /\ HasFields'
      BY <2>5 DEF ReadInRecord, HasFields
    <3>2. QED
      BY <2>2, <3>1 DEF ReadInRecord
  <2>6. CASE job' = Books!AtRest
    <3>1. job'.batch = {} /\ HasFields'
      BY <2>6 DEF Books!AtRest, HasFields
    <3>2. QED
      BY <2>2, <3>1 DEF ReadInRecord
  <2>7. QED
    BY <2>3, <2>4, <2>5, <2>6
<1>2. CASE Books!FetchChunk
  <2>1. UNCHANGED <<overview, credits>>
    BY <1>2 DEF Books!FetchChunk
  <2>2. QED
    BY <1>2, <2>1, FetchReads DEF Books!StepErasesNothing
<1>3. CASE Books!Flush
  BY <1>3, FlushErasesNothing
<1>4. CASE UNCHANGED Books!vars
  BY <1>4 DEF Books!vars, ReadInRecord, HasFields, Books!StepErasesNothing
<1>5. QED
  BY <1>1, <1>2, <1>3, <1>4 DEF Books!Next, Books!Job

(***************************************************************************)
(* "a refresh that wrote overview=None would erase, catalog wide, the      *)
(* descriptions the dump seeding loaded" (sync_books): whatever requests   *)
(* fail and whatever rows are rejected, no step of a slice takes the       *)
(* synopsis of a book whose record has one, and none takes a credit.       *)
(***************************************************************************)
THEOREM FailedRequestsEraseNothing == Spec => FailuresEraseNothing
<1> DEFINE Here == part = "book_slices"
           Whole == Here => Books!StepErasesNothing
<1>1. Init /\ Here => ReadInRecord
  BY ReadInRecordInit DEF Init, Books!Init
<1>2. UNCHANGED vars => UNCHANGED Books!vars
  BY DEF vars, Books!vars, overview, credits, stale, job, faults
<1>3. [Next]_vars /\ Here /\ ReadInRecord => ReadInRecord' /\ Here' /\ Books!StepErasesNothing
  BY <1>2, ReadInRecordKept DEF Next, vars
<1>4. [Next]_vars /\ ~Here => ~Here'
  BY DEF Next, vars
<1>5. Spec => [][Whole]_vars
  <2>1. (Here => ReadInRecord) /\ [Next]_vars => [Whole]_vars
    BY <1>3
  <2> HIDE DEF Here, Whole
  <2>2. QED
    BY <1>1, <1>3, <1>4, <2>1, PTL DEF Spec
<1>6. QED
  BY <1>5 DEF FailuresEraseNothing

-----------------------------------------------------------------------------
(* Wikidata: what a batch holds. *)

LEMMA SameWikidataCount == \A S : Wikidata!Cardinality(S) = Cardinality(S)
BY DEF Wikidata!Cardinality, Cardinality

\* The first n of a finite set of rows: rows of the set, and all of them up to the last one.
LEMMA FirstRowsAre ==
    ASSUME NEW S \in SUBSET Nat, IsFiniteSet(S), NEW n \in Nat
    PROVE  LET batch == Wikidata!FirstRows(S, n)
               size == Len(batch)
           IN  /\ batch \in Seq(S) /\ size \in Nat
               /\ \A x \in S : size > 0 /\ x <= batch[size] => \E k \in DOMAIN batch : batch[k] = x
<1> USE SameWikidataCount
<1> DEFINE below(x) == {j \in S : j < x}
           all == Cardinality(S)
           size == IF all < n THEN all ELSE n
           batch == Wikidata!FirstRows(S, n)
<1>1. all \in Nat /\ size \in Nat /\ size <= all
  BY FS_CardinalityType
<1>2. batch = [k \in 1 .. size |-> CHOOSE x \in S : Cardinality(below(x)) = k - 1]
  BY DEF Wikidata!FirstRows, Wikidata!Cardinality, Cardinality
<1>3. ASSUME NEW x \in S
      PROVE  /\ IsFiniteSet(below(x)) /\ Cardinality(below(x)) \in 0 .. (all - 1)
  <2>1. below(x) \in SUBSET S /\ x \notin below(x)
    OBVIOUS
  <2>2. IsFiniteSet(below(x)) /\ Cardinality(below(x)) <= all /\ Cardinality(below(x)) # all
    BY <2>1, FS_Subset
  <2>3. Cardinality(below(x)) \in Nat
    BY <2>2, FS_CardinalityType
  <2> HIDE DEF below, all
  <2>4. QED
    BY <1>1, <2>2, <2>3
<1>4. ASSUME NEW x \in S, NEW z \in S, x < z
      PROVE  Cardinality(below(x)) < Cardinality(below(z))
  <2>0. x \in Nat /\ z \in Nat /\ \A m \in S : m \in Nat
    OBVIOUS
  <2>1. below(x) \in SUBSET below(z) /\ x \in below(z) /\ x \notin below(x)
    <3>1. \A m \in S : m < x => m < z
      BY <1>4, <2>0
    <3>2. x < z /\ ~(x < x)
      BY <1>4, <2>0
    <3>3. QED
      BY <3>1, <3>2
  <2>2. Cardinality(below(x)) <= Cardinality(below(z)) /\ Cardinality(below(x)) # Cardinality(below(z))
    BY <1>3, <2>1, FS_Subset
  <2>3. Cardinality(below(x)) \in 0 .. (all - 1) /\ Cardinality(below(z)) \in 0 .. (all - 1)
    BY <1>3
  <2> HIDE DEF below, all
  <2>4. QED
    BY <1>1, <2>2, <2>3
<1>5. ASSUME NEW x \in S, NEW z \in S, Cardinality(below(x)) = Cardinality(below(z))
      PROVE  x = z
  <2>1. x < z \/ z < x \/ x = z
    OBVIOUS
  <2>2. Cardinality(below(x)) \in 0 .. (all - 1)
    BY <1>3
  <2> HIDE DEF below, all
  <2>3. QED
    BY <1>1, <1>4, <1>5, <2>1, <2>2
<1> DEFINE place == [x \in S |-> Cardinality(below(x))]
<1>6. place \in Surjection(S, 0 .. (all - 1))
  <2>1. place \in [S -> 0 .. (all - 1)]
    BY <1>3
  <2>2. \A x, z \in S : place[x] = place[z] => x = z
    BY <1>5
  <2>3. place \in Injection(S, 0 .. (all - 1))
    BY <2>1, <2>2 DEF Injection, IsInjective
  <2>4. IsFiniteSet(0 .. (all - 1)) /\ Cardinality(0 .. (all - 1)) = all
    <3>1. 0 \in Int /\ all - 1 \in Int
      BY <1>1
    <3>2. /\ IsFiniteSet(0 .. (all - 1))
          /\ Cardinality(0 .. (all - 1)) = IF 0 > all - 1 THEN 0 ELSE (all - 1) - 0 + 1
      BY <3>1, FS_Interval
    <3> HIDE DEF all
    <3>3. QED
      BY <1>1, <3>2
  <2> HIDE DEF place
  <2>5. QED
    BY <2>3, <2>4, FS_Injection
<1>7. ASSUME NEW k \in 1 .. size
      PROVE  batch[k] \in S /\ Cardinality(below(batch[k])) = k - 1
  <2>1. k - 1 \in 0 .. (all - 1)
    BY <1>1
  <2>2. \E x \in S : Cardinality(below(x)) = k - 1
    BY <1>6, <2>1 DEF Surjection
  <2>3. batch[k] = CHOOSE x \in S : Cardinality(below(x)) = k - 1
    BY <1>2
  <2>4. QED
    BY <2>2, <2>3
<1>8. batch \in Seq(S) /\ Len(batch) = size /\ DOMAIN batch = 1 .. size
  <2>1. DOMAIN batch = 1 .. size /\ batch = [k \in 1 .. size |-> batch[k]]
    BY <1>2
  <2>2. \A k \in 1 .. size : batch[k] \in S
    BY <1>7
  <2> HIDE DEF batch, size
  <2>3. batch \in [1 .. size -> S]
    BY <2>1, <2>2
  <2>4. batch \in Seq(S)
    BY <1>1, <2>3
  <2>5. QED
    BY <1>1, <2>1, <2>4
<1>9. ASSUME NEW x \in S, size > 0, x <= batch[size]
      PROVE  \E k \in DOMAIN batch : batch[k] = x
  <2>1. size \in 1 .. size
    BY <1>1, <1>9
  <2>2. batch[size] \in S /\ Cardinality(below(batch[size])) = size - 1
    BY <1>7, <2>1
  <2>3. Cardinality(below(x)) \in 0 .. (all - 1)
    BY <1>3
  <2>4. x \in Nat /\ batch[size] \in Nat
    BY <2>2
  <2>5. x < batch[size] \/ x = batch[size]
    BY <1>9, <2>4
  <2>6. x < batch[size] => Cardinality(below(x)) < Cardinality(below(batch[size]))
    BY <1>4, <2>2
  <2> HIDE DEF batch, size, below, all
  <2>7. Cardinality(below(x)) + 1 \in 1 .. size
    BY <1>1, <1>9, <2>2, <2>3, <2>4, <2>5, <2>6
  <2>8. (Cardinality(below(x)) + 1) - 1 = Cardinality(below(x))
    BY <2>3
  <2>9. batch[Cardinality(below(x)) + 1] = x
    BY <1>5, <1>7, <2>7, <2>8
  <2>10. QED
    BY <1>8, <2>7, <2>9
<1>10. QED
  BY <1>1, <1>8, <1>9

-----------------------------------------------------------------------------
(* Wikidata: what a write leaves in the table. *)

Sources == {"NATIVE", "WIKIDATA"}
RowSet == [item : WikidataItems, source : Sources, value : WikidataItems \cup Entities]

\* An anchor is the only entity that carries the id of its item, and its owner's alone.
Grounded(rs) ==
    \A n \in DOMAIN rs : rs[n].source = "WIKIDATA" => Wikidata!ResolveQids(rs[n].item) = {rs[n].value}
Exclusive(rs) ==
    \A n, m \in DOMAIN rs :
        /\ rs[n].source = "WIKIDATA" /\ rs[m].source = "WIKIDATA"
        /\ rs[n].value = rs[m].value /\ TypeOfItem[rs[n].item] = TypeOfItem[rs[m].item]
        => rs[n].item = rs[m].item
Table(rs) == rs \in Seq(RowSet) /\ Grounded(rs) /\ Exclusive(rs)

\* A table that grew out of another: rows stay what they link, and new ones are anchors.
GrownFrom(old, rs) ==
    /\ Len(old) <= Len(rs)
    /\ \A n \in DOMAIN old : rs[n].item = old[n].item /\ rs[n].source = old[n].source
    /\ \A n \in DOMAIN rs : n \notin DOMAIN old => rs[n].source = "WIKIDATA"

LEMMA AppendRow ==
    ASSUME NEW rs \in Seq(RowSet), NEW r \in RowSet
    PROVE  /\ Append(rs, r) \in Seq(RowSet) /\ Len(Append(rs, r)) = Len(rs) + 1
           /\ DOMAIN Append(rs, r) = 1 .. (Len(rs) + 1) /\ DOMAIN rs = 1 .. Len(rs)
           /\ Append(rs, r)[Len(rs) + 1] = r
           /\ \A n \in DOMAIN rs : Append(rs, r)[n] = rs[n]
           /\ Len(rs) \in Nat
  OBVIOUS

LEMMA UpsertKeeps ==
    ASSUME NEW rs, Table(rs), NEW i \in WikidataItems, NEW q \in Entities, Wikidata!ResolveQids(i) = {q}
    PROVE  Table(Wikidata!Upsert(rs, i, q)) /\ GrownFrom(rs, Wikidata!Upsert(rs, i, q))
<1>0. rs \in Seq(RowSet) /\ Len(rs) \in Nat /\ DOMAIN rs = 1 .. Len(rs)
      /\ \A n \in DOMAIN rs : rs[n] \in RowSet
  BY DEF Table
<1>1. CASE Wikidata!Owned(rs, TypeOfItem[i], q) # {}
  <2>1. Wikidata!Upsert(rs, i, q) = rs
    BY <1>1 DEF Wikidata!Upsert
  <2>2. QED
    BY <1>0, <2>1 DEF GrownFrom
<1>2. CASE Wikidata!Owned(rs, TypeOfItem[i], q) = {} /\ Wikidata!Held(rs, i) # {}
  <2> DEFINE new == [n \in DOMAIN rs |->
                        IF n \in Wikidata!Held(rs, i) THEN [rs[n] EXCEPT !.value = q] ELSE rs[n]]
  <2>1. Wikidata!Upsert(rs, i, q) = new
    BY <1>2 DEF Wikidata!Upsert
  <2>2. ASSUME NEW n \in DOMAIN rs
        PROVE  /\ new[n] \in RowSet /\ new[n].item = rs[n].item /\ new[n].source = rs[n].source
               /\ n \in Wikidata!Held(rs, i) => new[n].value = q
               /\ n \notin Wikidata!Held(rs, i) => new[n] = rs[n]
    BY <1>0 DEF RowSet
  <2>3. DOMAIN new = DOMAIN rs
    OBVIOUS
  <2> HIDE DEF new
  <2>4. new \in Seq(RowSet) /\ Len(new) = Len(rs)
    <3>1. new \in [1 .. Len(rs) -> RowSet]
      <4>1. new = [n \in DOMAIN rs |-> new[n]]
        BY DEF new
      <4>2. QED
        BY <1>0, <2>2, <4>1
    <3>2. QED
      BY <1>0, <3>1
  <2>5. \A n \in DOMAIN rs : n \in Wikidata!Held(rs, i) <=> rs[n].source = "WIKIDATA" /\ rs[n].item = i
    BY DEF Wikidata!Held
  <2>6. \A n \in DOMAIN rs : rs[n].source = "WIKIDATA" /\ TypeOfItem[rs[n].item] = TypeOfItem[i] => rs[n].value # q
    BY <1>2 DEF Wikidata!Owned
  <2>7. Grounded(new)
    BY <2>2, <2>3, <2>5 DEF Grounded, Table
  <2>8. Exclusive(new)
    <3> SUFFICES ASSUME NEW n \in DOMAIN rs, NEW m \in DOMAIN rs,
                        new[n].source = "WIKIDATA", new[m].source = "WIKIDATA",
                        new[n].value = new[m].value,
                        TypeOfItem[new[n].item] = TypeOfItem[new[m].item]
                 PROVE  new[n].item = new[m].item
      BY <2>3 DEF Exclusive
    <3>1. /\ rs[n].source = "WIKIDATA" /\ rs[m].source = "WIKIDATA"
          /\ TypeOfItem[rs[n].item] = TypeOfItem[rs[m].item]
      BY <2>2
    <3>2. CASE n \in Wikidata!Held(rs, i)
      <4>1. rs[n].item = i /\ new[m].value = q
        BY <2>2, <2>5, <3>2
      <4>2. m \in Wikidata!Held(rs, i)
        BY <2>2, <2>6, <3>1, <4>1
      <4>3. QED
        BY <2>2, <2>5, <4>1, <4>2
    <3>3. CASE m \in Wikidata!Held(rs, i)
      <4>1. rs[m].item = i /\ new[n].value = q
        BY <2>2, <2>5, <3>3
      <4>2. n \in Wikidata!Held(rs, i)
        BY <2>2, <2>6, <3>1, <4>1
      <4>3. QED
        BY <2>2, <2>5, <4>1, <4>2
    <3>4. CASE n \notin Wikidata!Held(rs, i) /\ m \notin Wikidata!Held(rs, i)
      BY <2>2, <3>1, <3>4 DEF Table, Exclusive
    <3>5. QED
      BY <3>2, <3>3, <3>4
  <2>9. GrownFrom(rs, new)
    BY <1>0, <2>2, <2>3, <2>4 DEF GrownFrom
  <2>10. QED
    BY <2>1, <2>4, <2>7, <2>8, <2>9 DEF Table
<1>3. CASE Wikidata!Owned(rs, TypeOfItem[i], q) = {} /\ Wikidata!Held(rs, i) = {}
  <2> DEFINE r == [item |-> i, source |-> "WIKIDATA", value |-> q]
             new == Append(rs, r)
             at == Len(rs) + 1
  <2>1. Wikidata!Upsert(rs, i, q) = new
    BY <1>3 DEF Wikidata!Upsert
  <2>2. r \in RowSet /\ r.item = i /\ r.source = "WIKIDATA" /\ r.value = q
    BY DEF RowSet, Sources
  <2> HIDE DEF r
  <2>3. /\ new \in Seq(RowSet) /\ Len(new) = at /\ DOMAIN new = 1 .. at
        /\ new[at] = r /\ \A n \in DOMAIN rs : new[n] = rs[n]
    BY <1>0, <2>2, AppendRow
  <2>4. \A n \in DOMAIN new : n = at \/ n \in DOMAIN rs
    BY <1>0, <2>3
  <2> HIDE DEF new
  <2>5. \A n \in DOMAIN rs : rs[n].source = "WIKIDATA" /\ TypeOfItem[rs[n].item] = TypeOfItem[i] => rs[n].value # q
    BY <1>3 DEF Wikidata!Owned
  <2>6. Grounded(new)
    BY <2>2, <2>3, <2>4 DEF Grounded, Table
  <2>7. Exclusive(new)
    BY <2>2, <2>3, <2>4, <2>5 DEF Exclusive, Table
  <2>8. GrownFrom(rs, new)
    BY <1>0, <2>2, <2>3, <2>4 DEF GrownFrom
  <2>9. QED
    BY <2>1, <2>3, <2>6, <2>7, <2>8 DEF Table
<1>4. QED
  BY <1>1, <1>2, <1>3

LEMMA LinkRowKeeps ==
    ASSUME NEW rs, Table(rs), NEW n \in DOMAIN rs
    PROVE  Table(Wikidata!LinkRow(rs, n)) /\ GrownFrom(rs, Wikidata!LinkRow(rs, n))
<1> USE SameWikidataCount
<1> DEFINE i == rs[n].item
<1>1. i \in WikidataItems
  <2>1. rs[n] \in RowSet
    BY DEF Table
  <2>2. QED
    BY <2>1 DEF RowSet
<1>2. CASE Cardinality(Wikidata!ResolveQids(i)) = 1
  <2>1. IsFiniteSet(Wikidata!ResolveQids(i))
    <3>1. Wikidata!ResolveQids(i) \in SUBSET Entities
      BY DEF Wikidata!ResolveQids
    <3>2. QED
      BY <3>1, WikidataAssumption, FS_Subset
  <2>2. PICK q : Wikidata!ResolveQids(i) = {q}
    BY <1>2, <2>1, FS_Singleton
  <2>3. q \in Entities
    BY <2>2 DEF Wikidata!ResolveQids
  <2>4. (CHOOSE x \in Wikidata!ResolveQids(i) : TRUE) = q
    BY <2>2
  <2>5. Wikidata!LinkRow(rs, n) = Wikidata!Upsert(rs, i, q)
    BY <1>2, <2>4 DEF Wikidata!LinkRow
  <2>6. QED
    BY <1>1, <2>2, <2>3, <2>5, UpsertKeeps
<1>3. CASE Cardinality(Wikidata!ResolveQids(i)) # 1
  <2>1. Wikidata!LinkRow(rs, n) = rs
    BY <1>3 DEF Wikidata!LinkRow
  <2>2. rs \in Seq(RowSet) /\ Len(rs) \in Nat
    BY DEF Table
  <2>3. QED
    BY <2>1, <2>2 DEF GrownFrom
<1>4. QED
  BY <1>2, <1>3

LEMMA GrownTwice ==
    ASSUME NEW old \in Seq(RowSet), NEW mid \in Seq(RowSet), NEW rs \in Seq(RowSet),
           GrownFrom(old, mid), GrownFrom(mid, rs)
    PROVE  GrownFrom(old, rs)
<1>1. /\ Len(old) \in Nat /\ Len(mid) \in Nat /\ Len(rs) \in Nat
      /\ DOMAIN old = 1 .. Len(old) /\ DOMAIN mid = 1 .. Len(mid) /\ DOMAIN rs = 1 .. Len(rs)
  OBVIOUS
<1>2. Len(old) <= Len(rs) /\ DOMAIN old \subseteq DOMAIN mid /\ DOMAIN mid \subseteq DOMAIN rs
  BY <1>1 DEF GrownFrom
<1>3. QED
  BY <1>2 DEF GrownFrom

\* The rows of a batch are linked one after the other: by the first row that would go wrong.
LEMMA LinkRowsKeeps ==
    ASSUME Table(rows), NEW batch, Len(batch) \in Nat,
           \A k \in 1 .. Len(batch) : batch[k] \in DOMAIN rows
    PROVE  Table(Wikidata!LinkRows(batch)) /\ GrownFrom(rows, Wikidata!LinkRows(batch))
<1> DEFINE L == Len(batch)
           Walk(n, f) == f = [k \in 0 .. n |-> IF k = 0 THEN rows ELSE Wikidata!LinkRow(f[k - 1], batch[k])]
           Good(rs) == Table(rs) /\ GrownFrom(rows, rs)
<1>1. ASSUME NEW n \in 0 .. L PROVE \E f : Walk(n, f)
  <2> DEFINE bad == {m \in 0 .. L : ~ \E f : Walk(m, f)}
  <2>1. SUFFICES ASSUME bad # {} PROVE FALSE
    OBVIOUS
  <2>2. PICK m \in bad : \A o \in bad : m =< o
    <3>1. bad \in SUBSET Nat
      OBVIOUS
    <3> HIDE DEF bad
    <3>2. QED
      BY <2>1, <3>1, LeastNatural
  <2>3. m \in 0 .. L /\ m \in Nat /\ ~ \E f : Walk(m, f)
    OBVIOUS
  <2>4. m # 0
    <3>1. Walk(0, [k \in 0 .. 0 |-> rows])
      OBVIOUS
    <3>2. QED
      BY <2>3, <3>1
  <2>5. m - 1 \in 0 .. L /\ ~(m =< m - 1)
    BY <2>3, <2>4
  <2>6. PICK f : Walk(m - 1, f)
    BY <2>2, <2>5
  <2> DEFINE g == [k \in 0 .. m |-> IF k < m THEN f[k] ELSE Wikidata!LinkRow(f[m - 1], batch[m])]
  <2>7. ASSUME NEW k \in 0 .. m
        PROVE  g[k] = IF k = 0 THEN rows ELSE Wikidata!LinkRow(g[k - 1], batch[k])
    <3>0. m - 1 \in 0 .. m /\ m - 1 < m
      BY <2>3, <2>4
    <3>1. CASE k = m
      <4>1. g[m - 1] = f[m - 1]
        BY <3>0
      <4>2. g[m] = Wikidata!LinkRow(f[m - 1], batch[m])
        BY <2>3
      <4>3. QED
        BY <2>4, <3>1, <4>1, <4>2
    <3>2. CASE k < m
      <4>1. k \in 0 .. (m - 1) /\ g[k] = f[k]
        BY <2>3, <3>2
      <4>2. f[k] = IF k = 0 THEN rows ELSE Wikidata!LinkRow(f[k - 1], batch[k])
        BY <2>6, <4>1
      <4>3. k # 0 => g[k - 1] = f[k - 1]
        BY <2>3, <3>2
      <4>4. QED
        BY <4>1, <4>2, <4>3
    <3>3. QED
      BY <2>3, <3>1, <3>2
  <2>8. g = [k \in 0 .. m |-> g[k]]
    OBVIOUS
  <2> HIDE DEF g
  <2>9. Walk(m, g)
    BY <2>7, <2>8
  <2>10. QED
    BY <2>3, <2>9
<1> DEFINE after == CHOOSE f : Walk(L, f)
<1>2. Walk(L, after)
  <2>1. \E f : Walk(L, f)
    BY <1>1
  <2> HIDE DEF Walk
  <2>2. QED
    BY <2>1
<1>3. Wikidata!LinkRows(batch) = after[L]
  BY DEF Wikidata!LinkRows
<1> HIDE DEF after
<1>4. after[0] = rows /\ \A k \in 0 .. L : k # 0 => after[k] = Wikidata!LinkRow(after[k - 1], batch[k])
  BY <1>2
<1>5. ASSUME NEW n \in 0 .. L PROVE Good(after[n])
  <2> DEFINE bad == {m \in 0 .. L : ~Good(after[m])}
  <2>1. SUFFICES ASSUME bad # {} PROVE FALSE
    OBVIOUS
  <2>2. PICK m \in bad : \A o \in bad : m =< o
    <3>1. bad \in SUBSET Nat
      OBVIOUS
    <3> HIDE DEF bad
    <3>2. QED
      BY <2>1, <3>1, LeastNatural
  <2>3. m \in 0 .. L /\ m \in Nat /\ ~Good(after[m])
    OBVIOUS
  <2>4. m # 0
    <3>1. Good(rows)
      <4>1. rows \in Seq(RowSet) /\ Len(rows) \in Nat
        BY DEF Table
      <4>2. QED
        BY <4>1 DEF GrownFrom
    <3>2. QED
      BY <1>4, <2>3, <3>1
  <2>5. m - 1 \in 0 .. L /\ ~(m =< m - 1)
    BY <2>3, <2>4
  <2>6. Good(after[m - 1])
    BY <2>2, <2>5
  <2>7. after[m] = Wikidata!LinkRow(after[m - 1], batch[m]) /\ m \in 1 .. L
    BY <1>4, <2>3, <2>4
  <2>8. batch[m] \in DOMAIN after[m - 1]
    <3>1. batch[m] \in DOMAIN rows
      BY <2>7
    <3>2. /\ rows \in Seq(RowSet) /\ after[m - 1] \in Seq(RowSet)
          /\ Len(rows) <= Len(after[m - 1])
      BY <2>6 DEF Table, GrownFrom
    <3>3. QED
      BY <3>1, <3>2
  <2>9. Table(after[m]) /\ GrownFrom(after[m - 1], after[m])
    BY <2>6, <2>7, <2>8, LinkRowKeeps
  <2>10. GrownFrom(rows, after[m])
    BY <2>6, <2>9, GrownTwice DEF Table
  <2>11. QED
    BY <2>3, <2>9, <2>10
<1>6. QED
  BY <1>3, <1>5

-----------------------------------------------------------------------------
(* Wikidata: the passes. *)

\* A pass is a record with the four fields.
IsPass(p) ==
    DOMAIN p = {"step", "lane", "at", "batch"} /\ p = [f \in DOMAIN p |-> p[f]]

TypeLanes == 1 .. Len(Types)
LinkedRows(t) == {n \in Wikidata!RowsOf("NATIVE") : TypeOfItem[rows[n].item] = Types[t]}
EdgeSet == [from : WikidataItems, to : WikidataItems, relation : {"ADAPTATION", "DERIVATIVE"}]

WalkShape ==
    /\ IsPass(pass) /\ pass.step \in {"idle", "anchor", "link", "relations", "join"}
    /\ cursor = [l \in Wikidata!Lanes |-> cursor[l]] /\ asked = [t \in TypeLanes |-> asked[t]]
    /\ \A t \in TypeLanes : cursor[t] \in 0 .. Len(rows)

\* The anchor pass is where its cursor is, and holds every row up to where it will be.
AnchorsInHand ==
    /\ pass.step \in {"anchor", "link"} => pass.lane \in TypeLanes /\ pass.at = cursor[pass.lane]
    /\ pass.step = "link" =>
          /\ Len(pass.batch) \in Nat /\ Len(pass.batch) > 0
          /\ \A k \in 1 .. Len(pass.batch) : pass.batch[k] \in DOMAIN rows
          /\ DOMAIN pass.batch = 1 .. Len(pass.batch)
          /\ \A n \in LinkedRows(pass.lane) :
                n > pass.at /\ n =< pass.batch[Len(pass.batch)]
                    => \E k \in DOMAIN pass.batch : pass.batch[k] = n

\* The relations pass holds anchors, as they were when it read them.
RelationsInHand ==
    pass.step = "join" =>
        \A k \in DOMAIN pass.batch : LET r == pass.batch[k] IN
            r.item \in WikidataItems /\ Wikidata!ResolveQids(r.item) = {r.value}

EdgesGrounded ==
    edges \subseteq EdgeSet /\ \A e \in edges : \E s \in Statements :
        /\ Wikidata!ResolveQids(e.from) = {s.from} /\ Wikidata!ResolveQids(e.to) = {s.to}
        /\ s.relation = e.relation

Walking ==
    /\ Table(rows) /\ WalkShape /\ AnchorsInHand /\ RelationsInHand
    /\ EdgesGrounded /\ Wikidata!CursorFollowsTheWork

LEMMA WalkingInit == Wikidata!Init => Walking
<1> SUFFICES ASSUME Wikidata!Init PROVE Walking
  OBVIOUS
<1>1. rows = [k \in DOMAIN LinkedFirst |-> Wikidata!Native(LinkedFirst[k])]
  BY DEF Wikidata!Init
<1>2. /\ DOMAIN LinkedFirst = 1 .. Len(LinkedFirst) /\ Len(LinkedFirst) \in Nat
      /\ \A k \in DOMAIN LinkedFirst : LinkedFirst[k] \in WikidataItems
  BY WikidataAssumption
<1>3. ASSUME NEW k \in DOMAIN LinkedFirst
      PROVE  rows[k] \in RowSet /\ rows[k].source = "NATIVE"
  BY <1>1, <1>2 DEF Wikidata!Native, RowSet, Sources
<1>4. DOMAIN rows = 1 .. Len(LinkedFirst) /\ rows = [k \in 1 .. Len(LinkedFirst) |-> rows[k]]
  BY <1>1, <1>2
<1>5. rows \in Seq(RowSet) /\ Len(rows) \in Nat
  <2>1. rows \in [1 .. Len(LinkedFirst) -> RowSet]
    BY <1>2, <1>3, <1>4
  <2>2. rows \in Seq(RowSet)
    BY <1>2, <2>1
  <2>3. QED
    BY <2>2
<1>6. Table(rows)
  BY <1>2, <1>3, <1>4, <1>5 DEF Table, Grounded, Exclusive
<1>7. pass = Wikidata!Idle /\ cursor = [l \in Wikidata!Lanes |-> 0] /\ edges = {}
      /\ asked = [t \in TypeLanes |-> {}]
  BY DEF Wikidata!Init, TypeLanes
<1>8. IsPass(pass) /\ pass.step = "idle"
  BY <1>7 DEF IsPass, Wikidata!Idle
<1>9. \A t \in TypeLanes : cursor[t] = 0
  BY <1>7 DEF Wikidata!Lanes, TypeLanes
<1>10. WalkShape
  <2>1. 0 \in 0 .. Len(rows)
    BY <1>5
  <2>2. cursor = [l \in Wikidata!Lanes |-> cursor[l]] /\ asked = [t \in TypeLanes |-> asked[t]]
    BY <1>7
  <2>3. QED
    BY <1>8, <1>9, <2>1, <2>2 DEF WalkShape
<1>11. Wikidata!CursorFollowsTheWork
  <2>1. \A n \in DOMAIN rows : ~(n =< 0)
    BY <1>2, <1>4
  <2>2. QED
    BY <1>9, <2>1 DEF Wikidata!CursorFollowsTheWork, Wikidata!RowsOf, TypeLanes
<1>12. EdgesGrounded
  BY <1>7 DEF EdgesGrounded
<1>13. QED
  BY <1>6, <1>8, <1>10, <1>11, <1>12 DEF Walking, AnchorsInHand, RelationsInHand

\* While the table is not written, what a pass has in hand and what it asked stays true.
LEMMA SameTable ==
    ASSUME Walking, rows' = rows
    PROVE  /\ Table(rows') /\ \A t \in TypeLanes : LinkedRows(t)' = LinkedRows(t)
           /\ Len(rows) \in Nat /\ Len(rows') = Len(rows)
<1>1. Table(rows) /\ rows \in Seq(RowSet)
  BY DEF Walking, Table
<1>2. \A t \in TypeLanes : LinkedRows(t)' = LinkedRows(t)
  BY DEF LinkedRows, Wikidata!RowsOf
<1>3. QED
  BY <1>1, <1>2

\* The same of a table that grew: a row that is linked later comes after every cursor.
LEMMA FollowsByLane ==
    Wikidata!CursorFollowsTheWork <=> \A t \in TypeLanes : \A n \in LinkedRows(t) : n =< cursor[t] => n \in asked[t]
  BY DEF Wikidata!CursorFollowsTheWork, TypeLanes, LinkedRows

LEMMA FollowsByLaneNext ==
    Wikidata!CursorFollowsTheWork'
        <=> \A t \in TypeLanes : \A n \in LinkedRows(t)' : n =< cursor'[t] => n \in asked'[t]
  BY DEF Wikidata!CursorFollowsTheWork, TypeLanes, LinkedRows

LEMMA OfStartPass == ASSUME Walking, NEW step \in {"anchor", "relations"}, Wikidata!Start(step) PROVE Walking'
<1> DEFINE first == IF step = "anchor" THEN 1 ELSE Wikidata!Relations
<1>1. /\ pass' = [Wikidata!Idle EXCEPT !.step = step, !.lane = first, !.at = cursor[first]]
      /\ UNCHANGED <<rows, cursor, edges, asked, faults>>
  BY DEF Wikidata!Start, Wikidata!ReadCursor
<1>2. IsPass(pass') /\ pass'.step = step /\ pass'.lane = first /\ pass'.at = cursor[first]
  BY <1>1 DEF IsPass, Wikidata!Idle
<1>3. WalkShape'
  BY <1>1, <1>2 DEF Walking, WalkShape
<1>4. step = "anchor" => first \in TypeLanes
  BY WikidataAssumption DEF TypeLanes
<1> HIDE DEF first
<1>5. AnchorsInHand' /\ RelationsInHand'
  BY <1>1, <1>2, <1>4 DEF AnchorsInHand, RelationsInHand
<1>6. Table(rows') /\ EdgesGrounded'
  BY <1>1 DEF Walking, EdgesGrounded
<1>7. Wikidata!CursorFollowsTheWork'
  BY <1>1, SameTable, FollowsByLane, FollowsByLaneNext DEF Walking
<1>8. QED
  BY <1>3, <1>5, <1>6, <1>7 DEF Walking

LEMMA OfReadAnchors == ASSUME Walking, Wikidata!ReadAnchors PROVE Walking'
<1> DEFINE t == pass.lane
           S == {n \in Wikidata!RowsOf("NATIVE") : TypeOfItem[rows[n].item] = Types[t] /\ n > pass.at}
           batch == Wikidata!CatalogBatch(t, pass.at)
<1>1. pass.step = "anchor" /\ UNCHANGED <<rows, edges, faults>>
  BY DEF Wikidata!ReadAnchors
<1>2. /\ t \in TypeLanes /\ pass.at = cursor[t] /\ IsPass(pass) /\ rows \in Seq(RowSet)
      /\ Len(rows) \in Nat /\ DOMAIN rows = 1 .. Len(rows)
  BY <1>1 DEF Walking, AnchorsInHand, WalkShape, Table
<1>3. Table(rows') /\ EdgesGrounded'
  BY <1>1 DEF Walking, EdgesGrounded
<1>4. cursor = [l \in Wikidata!Lanes |-> cursor[l]] /\ asked = [l \in TypeLanes |-> asked[l]]
      /\ t \in Wikidata!Lanes /\ \A l \in TypeLanes : l \in Wikidata!Lanes /\ cursor[l] \in 0 .. Len(rows)
  BY <1>2 DEF Walking, WalkShape, Wikidata!Lanes, TypeLanes
<1>5. CASE batch = <<>>
  <2>1. cursor' = [cursor EXCEPT ![t] = 0] /\ asked' = [asked EXCEPT ![t] = {}] /\ pass' = Wikidata!NextType
    BY <1>5 DEF Wikidata!ReadAnchors, Wikidata!WriteCursor
  <2> HIDE DEF batch
  <2>2. /\ cursor' = [l \in Wikidata!Lanes |-> cursor'[l]] /\ cursor'[t] = 0
        /\ \A l \in Wikidata!Lanes : l # t => cursor'[l] = cursor[l]
        /\ asked' = [l \in TypeLanes |-> asked'[l]]
        /\ \A l \in TypeLanes : l # t => asked'[l] = asked[l]
    BY <1>2, <1>4, <2>1
  <2>3. \/ /\ pass' = [pass EXCEPT !.lane = t + 1, !.at = cursor[t + 1]]
           /\ t + 1 \in TypeLanes
        \/ pass' = Wikidata!Idle
    <3>1. t \in Nat /\ t >= 1 /\ Len(Types) \in Nat
      BY <1>2, WikidataAssumption DEF TypeLanes
    <3>2. QED
      BY <2>1, <3>1 DEF Wikidata!NextType, Wikidata!ReadCursor, TypeLanes
  <2>4. /\ IsPass(pass') /\ pass'.step \in {"anchor", "idle"}
        /\ pass'.step = "anchor" => pass'.lane \in TypeLanes /\ pass'.at = cursor'[pass'.lane]
    <3>1. CASE pass' = Wikidata!Idle
      BY <3>1 DEF Wikidata!Idle, IsPass
    <3>2. CASE pass' = [pass EXCEPT !.lane = t + 1, !.at = cursor[t + 1]] /\ t + 1 \in TypeLanes
      <4>1. IsPass(pass') /\ pass'.step = "anchor" /\ pass'.lane = t + 1 /\ pass'.at = cursor[t + 1]
        BY <1>1, <1>2, <3>2 DEF IsPass
      <4>2. t + 1 # t /\ t + 1 \in Wikidata!Lanes
        <5>1. t \in Nat
          BY <1>2 DEF TypeLanes
        <5>2. t + 1 # t
          BY <5>1
        <5>3. QED
          BY <1>4, <3>2, <5>2
      <4>3. QED
        BY <2>2, <3>2, <4>1, <4>2
    <3>3. QED
      BY <2>3, <3>1, <3>2
  <2>5. WalkShape'
    <3>1. ASSUME NEW l \in TypeLanes PROVE cursor'[l] \in 0 .. Len(rows)
      <4>1. 0 \in 0 .. Len(rows)
        BY <1>2
      <4>2. l \in Wikidata!Lanes /\ cursor[l] \in 0 .. Len(rows)
        BY <1>4
      <4>3. l = t \/ cursor'[l] = cursor[l]
        BY <2>2, <4>2
      <4>4. QED
        BY <2>2, <4>1, <4>2, <4>3
    <3>2. QED
      BY <1>1, <2>2, <2>4, <3>1 DEF WalkShape
  <2>6. Wikidata!CursorFollowsTheWork'
    <3>1. ASSUME NEW l \in TypeLanes, NEW n \in LinkedRows(l), n =< cursor'[l] PROVE n \in asked'[l]
      <4>1. n \in DOMAIN rows
        BY DEF LinkedRows, Wikidata!RowsOf
      <4>2. l # t
        BY <1>2, <2>2, <3>1, <4>1
      <4>3. QED
        BY <1>4, <2>2, <3>1, <4>2, FollowsByLane DEF Walking
    <3>2. QED
      BY <1>1, <3>1, SameTable, FollowsByLaneNext
  <2>7. AnchorsInHand' /\ RelationsInHand'
    BY <2>4 DEF AnchorsInHand, RelationsInHand
  <2>8. QED
    BY <1>3, <2>5, <2>6, <2>7 DEF Walking
<1>6. CASE batch # <<>>
  <2>1. pass' = [pass EXCEPT !.step = "link", !.batch = batch] /\ UNCHANGED <<cursor, asked>>
    BY <1>6 DEF Wikidata!ReadAnchors
  <2>2. S \in SUBSET Nat /\ IsFiniteSet(S) /\ S \subseteq DOMAIN rows
    <3>1. S \in SUBSET (1 .. Len(rows))
      BY <1>2 DEF Wikidata!RowsOf
    <3>2. IsFiniteSet(1 .. Len(rows))
      <4>1. 1 \in Int /\ Len(rows) \in Int
        BY <1>2
      <4>2. QED
        BY <4>1, FS_Interval
    <3>3. QED
      BY <1>2, <3>1, <3>2, FS_Subset
  <2>3. batch = Wikidata!FirstRows(S, AnchorBatch)
    BY DEF Wikidata!CatalogBatch
  <2> DEFINE size == Len(batch)
  <2>4. /\ batch \in Seq(S) /\ size \in Nat
        /\ \A x \in S : size > 0 /\ x =< batch[size] => \E k \in DOMAIN batch : batch[k] = x
    <3> HIDE DEF S, batch
    <3>1. QED
      BY <2>2, <2>3, FirstRowsAre, WikidataAssumption
  <2>5. size > 0 /\ DOMAIN batch = 1 .. size /\ \A k \in 1 .. size : batch[k] \in DOMAIN rows
    <3> HIDE DEF S, batch
    <3>1. DOMAIN batch = 1 .. size /\ \A k \in 1 .. size : batch[k] \in S
      BY <2>4
    <3>2. size # 0
      BY <1>6, <2>4
    <3>3. \A k \in 1 .. size : batch[k] \in DOMAIN rows
      BY <2>2, <3>1
    <3> HIDE DEF size
    <3>4. QED
      BY <2>4, <3>1, <3>2, <3>3
  <2>6. \A n \in LinkedRows(t) : n > pass.at => n \in S
    BY DEF LinkedRows
  <2> HIDE DEF batch, S
  <2>7. /\ IsPass(pass') /\ pass'.step = "link" /\ pass'.batch = batch
        /\ pass'.lane = t /\ pass'.at = pass.at
    BY <1>2, <2>1 DEF IsPass
  <2>8. WalkShape'
    BY <1>1, <1>4, <2>1, <2>7 DEF WalkShape
  <2>9. AnchorsInHand'
    <3>1. ASSUME NEW n \in LinkedRows(t)', n > pass.at, n =< batch[size]
          PROVE  \E k \in DOMAIN batch : batch[k] = n
      <4>1. LinkedRows(t)' = {m \in Wikidata!RowsOf("NATIVE") : TypeOfItem[rows[m].item] = Types[t]}
        BY <1>1, <2>7 DEF LinkedRows, Wikidata!RowsOf
      <4>2. n \in S
        BY <2>6, <3>1, <4>1 DEF LinkedRows
      <4>3. QED
        BY <2>4, <2>5, <3>1, <4>2
    <3>2. LinkedRows(pass.lane)' = LinkedRows(t)'
      BY <2>7 DEF LinkedRows, Wikidata!RowsOf
    <3>3. QED
      BY <1>1, <1>2, <2>1, <2>4, <2>5, <2>7, <3>1, <3>2 DEF AnchorsInHand
  <2>10. Wikidata!CursorFollowsTheWork'
    BY <1>1, <2>1, SameTable, FollowsByLane, FollowsByLaneNext DEF Walking
  <2>11. RelationsInHand'
    BY <2>7 DEF RelationsInHand
  <2>12. QED
    BY <1>3, <2>8, <2>9, <2>10, <2>11 DEF Walking
<1>7. QED
  BY <1>5, <1>6

LEMMA OfWriteAnchors == ASSUME Walking, Wikidata!WriteAnchors PROVE Walking'
<1> DEFINE t == pass.lane
           last == pass.batch[Len(pass.batch)]
<1>1. /\ pass.step = "link" /\ rows' = Wikidata!LinkRows(pass.batch)
      /\ cursor' = [cursor EXCEPT ![t] = last]
      /\ asked' = [asked EXCEPT ![t] = @ \cup {pass.batch[k] : k \in DOMAIN pass.batch}]
      /\ pass' = [pass EXCEPT !.step = "anchor", !.batch = <<>>, !.at = last]
      /\ UNCHANGED <<edges, faults>>
  BY DEF Wikidata!WriteAnchors, Wikidata!WriteCursor, Wikidata!ToSet
<1>2. /\ t \in TypeLanes /\ pass.at = cursor[t] /\ IsPass(pass) /\ Table(rows)
      /\ Len(pass.batch) \in Nat /\ Len(pass.batch) > 0
      /\ \A k \in 1 .. Len(pass.batch) : pass.batch[k] \in DOMAIN rows
      /\ DOMAIN pass.batch = 1 .. Len(pass.batch)
      /\ \A n \in LinkedRows(t) : n > pass.at /\ n =< last
                => \E k \in DOMAIN pass.batch : pass.batch[k] = n
  BY <1>1 DEF Walking, AnchorsInHand, WalkShape
<1>3. Table(rows') /\ GrownFrom(rows, rows')
  BY <1>1, <1>2, LinkRowsKeeps
<1>4. /\ rows \in Seq(RowSet) /\ rows' \in Seq(RowSet)
      /\ Len(rows) \in Nat /\ Len(rows') \in Nat /\ Len(rows) =< Len(rows')
      /\ DOMAIN rows = 1 .. Len(rows) /\ DOMAIN rows' = 1 .. Len(rows')
      /\ last \in 1 .. Len(rows)
  BY <1>2, <1>3 DEF Table, GrownFrom
<1>5. \A l \in TypeLanes : LinkedRows(l)' = LinkedRows(l)
  <2>1. \A n : n \in Wikidata!RowsOf("NATIVE")' <=> n \in Wikidata!RowsOf("NATIVE")
    BY <1>3, <1>4 DEF GrownFrom, Wikidata!RowsOf
  <2>2. \A n \in Wikidata!RowsOf("NATIVE") : rows'[n].item = rows[n].item
    BY <1>3 DEF GrownFrom, Wikidata!RowsOf
  <2>3. Wikidata!RowsOf("NATIVE")' = Wikidata!RowsOf("NATIVE")
    BY <2>1 DEF Wikidata!RowsOf
  <2>4. QED
    BY <2>2, <2>3 DEF LinkedRows
<1>6. cursor = [l \in Wikidata!Lanes |-> cursor[l]] /\ asked = [l \in TypeLanes |-> asked[l]]
      /\ t \in Wikidata!Lanes /\ \A l \in TypeLanes : l \in Wikidata!Lanes /\ cursor[l] \in 0 .. Len(rows)
  BY <1>2 DEF Walking, WalkShape, Wikidata!Lanes, TypeLanes
<1> HIDE DEF last
<1>7. /\ IsPass(pass') /\ pass'.step = "anchor" /\ pass'.lane = t /\ pass'.at = last
  BY <1>1, <1>2 DEF IsPass
<1>8. /\ cursor' = [l \in Wikidata!Lanes |-> cursor'[l]] /\ cursor'[t] = last
      /\ \A l \in Wikidata!Lanes : l # t => cursor'[l] = cursor[l]
      /\ asked' = [l \in TypeLanes |-> asked'[l]]
      /\ asked'[t] = asked[t] \cup {pass.batch[k] : k \in DOMAIN pass.batch}
      /\ \A l \in TypeLanes : l # t => asked'[l] = asked[l]
  BY <1>1, <1>2, <1>6
<1>9. WalkShape'
  <2>1. \A l \in TypeLanes : cursor'[l] \in 0 .. Len(rows')
    BY <1>4, <1>6, <1>8
  <2>2. QED
    BY <1>7, <1>8, <2>1 DEF WalkShape
<1>10. AnchorsInHand' /\ RelationsInHand'
  BY <1>2, <1>7, <1>8 DEF AnchorsInHand, RelationsInHand
<1>11. Wikidata!CursorFollowsTheWork'
  <2>1. ASSUME NEW l \in TypeLanes, NEW n \in LinkedRows(l), n =< cursor'[l] PROVE n \in asked'[l]
    <3>1. CASE l # t
      BY <1>6, <1>8, <2>1, <3>1, FollowsByLane DEF Walking
    <3>2. CASE l = t /\ n =< cursor[t]
      BY <1>8, <2>1, <3>2, FollowsByLane DEF Walking
    <3>3. CASE l = t /\ ~(n =< cursor[t])
      <4>1. n \in DOMAIN rows
        BY DEF LinkedRows, Wikidata!RowsOf
      <4>2. n \in Nat /\ cursor[t] \in Nat /\ n =< last
        <5>1. n \in Nat /\ cursor[t] \in Nat
          <6>1. n \in Nat
            BY <1>4, <4>1
          <6>2. cursor[t] \in 0 .. Len(rows)
            BY <1>2, <1>6
          <6>3. QED
            BY <1>4, <6>1, <6>2
        <5>2. QED
          BY <1>8, <2>1, <3>3, <5>1
      <4>3. n > pass.at
        BY <1>2, <3>3, <4>2
      <4>4. QED
        BY <1>2, <1>8, <3>3, <4>2, <4>3
    <3>4. QED
      BY <3>1, <3>2, <3>3
  <2>2. QED
    BY <1>5, <2>1, FollowsByLaneNext
<1>12. EdgesGrounded'
  BY <1>1 DEF Walking, EdgesGrounded
<1>13. QED
  BY <1>3, <1>9, <1>10, <1>11, <1>12 DEF Walking

LEMMA OfReadRelations == ASSUME Walking, Wikidata!ReadRelations PROVE Walking'
<1> DEFINE batch == Wikidata!AnchoredBatch(pass.at)
           S == {n \in Wikidata!RowsOf("WIKIDATA") : n > pass.at}
<1>1. pass.step = "relations" /\ UNCHANGED <<rows, edges, asked, faults>>
  BY DEF Wikidata!ReadRelations
<1>2. /\ IsPass(pass) /\ Table(rows) /\ rows \in Seq(RowSet)
      /\ Len(rows) \in Nat /\ DOMAIN rows = 1 .. Len(rows)
  BY DEF Walking, WalkShape, Table
<1>3. cursor = [l \in Wikidata!Lanes |-> cursor[l]] /\ Wikidata!Relations \in Wikidata!Lanes /\ Wikidata!Relations \notin TypeLanes
      /\ \A l \in TypeLanes : l \in Wikidata!Lanes
  BY DEF Walking, WalkShape, Wikidata!Lanes, TypeLanes, Wikidata!Relations
<1>4. \/ pass' = Wikidata!Idle /\ cursor' = [cursor EXCEPT ![Wikidata!Relations] = 0]
      \/ pass' = [pass EXCEPT !.step = "join", !.batch = Wikidata!Anchors(batch)] /\ UNCHANGED cursor
  BY DEF Wikidata!ReadRelations, Wikidata!WriteCursor
<1>5. /\ cursor' = [l \in Wikidata!Lanes |-> cursor'[l]]
      /\ \A l \in TypeLanes : cursor'[l] = cursor[l]
  BY <1>3, <1>4
<1>6. Wikidata!CursorFollowsTheWork'
  BY <1>1, <1>5, SameTable, FollowsByLane, FollowsByLaneNext DEF Walking
<1>7. ASSUME NEW k \in DOMAIN Wikidata!Anchors(batch)
      PROVE  LET r == Wikidata!Anchors(batch)[k] IN r.item \in WikidataItems /\ Wikidata!ResolveQids(r.item) = {r.value}
  <2>1. S \in SUBSET Nat /\ IsFiniteSet(S)
    <3>1. S \in SUBSET (1 .. Len(rows))
      BY <1>2 DEF Wikidata!RowsOf
    <3>2. IsFiniteSet(1 .. Len(rows))
      <4>1. 1 \in Int /\ Len(rows) \in Int
        BY <1>2
      <4>2. QED
        BY <4>1, FS_Interval
    <3>3. QED
      BY <1>2, <3>1, <3>2, FS_Subset
  <2>2. batch \in Seq(S)
    <3>1. batch = Wikidata!FirstRows(S, RelationBatch)
      BY DEF Wikidata!AnchoredBatch
    <3> HIDE DEF S, batch
    <3>2. QED
      BY <2>1, <3>1, FirstRowsAre, WikidataAssumption
  <2>3. k \in DOMAIN batch /\ batch[k] \in S
    <3>1. k \in DOMAIN batch
      BY DEF Wikidata!Anchors
    <3> HIDE DEF S, batch
    <3>2. QED
      BY <2>2, <3>1
  <2>4. batch[k] \in DOMAIN rows /\ rows[batch[k]].source = "WIKIDATA"
    BY <2>3 DEF Wikidata!RowsOf
  <2>5. Wikidata!Anchors(batch)[k] = [row |-> batch[k], item |-> rows[batch[k]].item,
                             value |-> rows[batch[k]].value]
    BY <2>3 DEF Wikidata!Anchors
  <2>6. rows[batch[k]].item \in WikidataItems
    <3>1. rows[batch[k]] \in RowSet
      BY <1>2, <2>4
    <3>2. QED
      BY <3>1 DEF RowSet
  <2> HIDE DEF batch
  <2>7. Wikidata!Anchors(batch)[k].item = rows[batch[k]].item /\ Wikidata!Anchors(batch)[k].value = rows[batch[k]].value
    BY <2>5
  <2>8. QED
    BY <1>2, <2>4, <2>6, <2>7 DEF Table, Grounded
<1> HIDE DEF batch
<1>8. /\ IsPass(pass') /\ pass'.step \in {"idle", "join"}
      /\ pass'.step = "join" => pass'.batch = Wikidata!Anchors(batch)
  <2>1. CASE pass' = Wikidata!Idle
    BY <2>1 DEF Wikidata!Idle, IsPass
  <2>2. CASE pass' = [pass EXCEPT !.step = "join", !.batch = Wikidata!Anchors(batch)]
    BY <1>2, <2>2 DEF IsPass
  <2>3. QED
    BY <1>4, <2>1, <2>2
<1>9. WalkShape'
  BY <1>1, <1>5, <1>8 DEF Walking, WalkShape
<1>10. AnchorsInHand' /\ RelationsInHand'
  BY <1>7, <1>8 DEF AnchorsInHand, RelationsInHand
<1>11. EdgesGrounded' /\ Table(rows')
  BY <1>1, <1>2 DEF Walking, EdgesGrounded
<1>12. QED
  BY <1>6, <1>9, <1>10, <1>11 DEF Walking

LEMMA JoinsAreGrounded ==
    ASSUME Table(rows), NEW batch,
           \A k \in DOMAIN batch : LET r == batch[k] IN
              r.item \in WikidataItems /\ Wikidata!ResolveQids(r.item) = {r.value},
           NEW e \in Wikidata!Joins(batch)
    PROVE  /\ e \in EdgeSet
           /\ \E s \in Statements :
                 /\ Wikidata!ResolveQids(e.from) = {s.from} /\ Wikidata!ResolveQids(e.to) = {s.to}
                 /\ s.relation = e.relation
<1>1. \A r \in Wikidata!ToSet(batch) : r.item \in WikidataItems /\ Wikidata!ResolveQids(r.item) = {r.value}
  BY DEF Wikidata!ToSet
<1>2. PICK r \in Wikidata!ToSet(batch), s \in Wikidata!FetchRelations({x.value : x \in Wikidata!ToSet(batch)}) :
            /\ r.item = e.from /\ r.value = s.from
            /\ s.relation = e.relation
            /\ s.to \in Wikidata!Anchor(e.to)
  BY DEF Wikidata!Joins
<1>3. e \in [from : {x.item : x \in Wikidata!ToSet(batch)}, to : WikidataItems, relation : {"ADAPTATION", "DERIVATIVE"}]
  BY DEF Wikidata!Joins
<1>4. e \in EdgeSet
  <2>1. {x.item : x \in Wikidata!ToSet(batch)} \subseteq WikidataItems
    BY <1>1
  <2>2. QED
    BY <1>3, <2>1 DEF EdgeSet
<1>5. s \in Statements
  BY DEF Wikidata!FetchRelations
<1>6. PICK n \in Wikidata!Held(rows, e.to) : s.to = rows[n].value
  BY <1>2 DEF Wikidata!Anchor
<1>7. Wikidata!ResolveQids(e.to) = {s.to}
  BY <1>6 DEF Wikidata!Held, Table, Grounded
<1>8. QED
  BY <1>1, <1>2, <1>4, <1>5, <1>7

LEMMA OfWriteRelations == ASSUME Walking, Wikidata!WriteRelations PROVE Walking'
<1> DEFINE last == pass.batch[Len(pass.batch)].row
           new == {e \in Wikidata!Joins(pass.batch) : e.from # e.to}
<1>1. /\ pass.step = "join" /\ edges' = edges \cup new
      /\ cursor' = [cursor EXCEPT ![Wikidata!Relations] = last]
      /\ pass' = [pass EXCEPT !.step = "relations", !.batch = <<>>, !.at = last]
      /\ UNCHANGED <<rows, asked, faults>>
  BY DEF Wikidata!WriteRelations, Wikidata!AddEdges, Wikidata!WriteCursor
<1> HIDE DEF last
<1>2. IsPass(pass') /\ pass'.step = "relations"
  BY <1>1 DEF Walking, WalkShape, IsPass
<1>3. /\ cursor' = [l \in Wikidata!Lanes |-> cursor'[l]]
      /\ \A l \in TypeLanes : cursor'[l] = cursor[l]
  <2>1. cursor = [l \in Wikidata!Lanes |-> cursor[l]] /\ Wikidata!Relations \in Wikidata!Lanes /\ Wikidata!Relations \notin TypeLanes
        /\ \A l \in TypeLanes : l \in Wikidata!Lanes
    BY DEF Walking, WalkShape, Wikidata!Lanes, TypeLanes, Wikidata!Relations
  <2>2. QED
    BY <1>1, <2>1
<1>4. Wikidata!CursorFollowsTheWork'
  BY <1>1, <1>3, SameTable, FollowsByLane, FollowsByLaneNext DEF Walking
<1>5. WalkShape'
  BY <1>1, <1>2, <1>3 DEF Walking, WalkShape
<1>6. AnchorsInHand' /\ RelationsInHand'
  BY <1>2 DEF AnchorsInHand, RelationsInHand
<1>7. EdgesGrounded'
  <2>1. \A e \in new : e \in EdgeSet /\ \E s \in Statements :
            /\ Wikidata!ResolveQids(e.from) = {s.from} /\ Wikidata!ResolveQids(e.to) = {s.to}
            /\ s.relation = e.relation
    BY <1>1, JoinsAreGrounded DEF Walking, RelationsInHand
  <2> HIDE DEF new
  <2>2. QED
    BY <1>1, <2>1 DEF Walking, EdgesGrounded
<1>8. Table(rows')
  BY <1>1 DEF Walking
<1>9. QED
  BY <1>4, <1>5, <1>6, <1>7, <1>8 DEF Walking

LEMMA OfFail == ASSUME Walking, Wikidata!Fail PROVE Walking'
<1>1. pass' = Wikidata!Idle /\ UNCHANGED <<rows, cursor, edges, asked>>
  BY DEF Wikidata!Fail
<1>2. IsPass(pass') /\ pass'.step = "idle"
  BY <1>1 DEF Wikidata!Idle, IsPass
<1>3. WalkShape' /\ Table(rows') /\ EdgesGrounded' /\ AnchorsInHand' /\ RelationsInHand'
  BY <1>1, <1>2 DEF Walking, WalkShape, EdgesGrounded, AnchorsInHand, RelationsInHand
<1>4. Wikidata!CursorFollowsTheWork'
  BY <1>1, SameTable, FollowsByLane, FollowsByLaneNext DEF Walking
<1>5. QED
  BY <1>3, <1>4 DEF Walking

LEMMA OfLinkItem == ASSUME Walking, NEW i \in WikidataItems, Wikidata!LinkItem(i) PROVE Walking'
<1> DEFINE r == Wikidata!Native(i)
           at == Len(rows) + 1
<1>1. rows' = Append(rows, r) /\ UNCHANGED <<cursor, edges, pass, asked, faults>>
  BY DEF Wikidata!LinkItem
<1>2. Table(rows) /\ rows \in Seq(RowSet) /\ Len(rows) \in Nat
  BY DEF Walking, Table
<1>3. r \in RowSet /\ r.source = "NATIVE"
  BY DEF Wikidata!Native, RowSet, Sources
<1> HIDE DEF r
<1>4. /\ rows' \in Seq(RowSet) /\ Len(rows') = at /\ DOMAIN rows' = 1 .. at
      /\ DOMAIN rows = 1 .. Len(rows)
      /\ rows'[at] = r /\ \A n \in DOMAIN rows : rows'[n] = rows[n]
  BY <1>1, <1>2, <1>3, AppendRow
<1>5. \A n \in DOMAIN rows' : n = at \/ n \in DOMAIN rows
  BY <1>2, <1>4
<1>6. Table(rows')
  <2>1. \A n \in DOMAIN rows' : rows'[n].source = "WIKIDATA" => n \in DOMAIN rows /\ rows'[n] = rows[n]
    BY <1>3, <1>4, <1>5
  <2>2. Grounded(rows) /\ Exclusive(rows)
    BY <1>2 DEF Table
  <2>3. Grounded(rows')
    BY <2>1, <2>2 DEF Grounded
  <2>4. Exclusive(rows')
    BY <2>1, <2>2 DEF Exclusive
  <2>5. QED
    BY <1>4, <2>3, <2>4 DEF Table
<1>7. ASSUME NEW l \in TypeLanes, NEW n \in LinkedRows(l)'
      PROVE  n \in LinkedRows(l) \/ n = at
  BY <1>4, <1>5 DEF LinkedRows, Wikidata!RowsOf
<1>8. \A l \in TypeLanes : cursor[l] \in 0 .. Len(rows)
  BY DEF Walking, WalkShape
<1>9. Wikidata!CursorFollowsTheWork'
  <2>1. ASSUME NEW l \in TypeLanes, NEW n \in LinkedRows(l)', n =< cursor'[l] PROVE n \in asked'[l]
    <3>1. n # at
      BY <1>1, <1>2, <1>8, <2>1
    <3>2. n \in LinkedRows(l)
      BY <1>7, <2>1, <3>1
    <3>3. QED
      BY <1>1, <2>1, <3>2, FollowsByLane DEF Walking
  <2>2. QED
    BY <2>1, FollowsByLaneNext
<1>10. WalkShape'
  <2>1. \A l \in TypeLanes : cursor[l] \in 0 .. at
    BY <1>2, <1>8
  <2>2. QED
    BY <1>1, <1>4, <2>1 DEF Walking, WalkShape
<1>11. AnchorsInHand'
  <2>1. CASE pass.step = "link"
    <3>1. /\ pass.lane \in TypeLanes /\ pass.at = cursor[pass.lane]
          /\ Len(pass.batch) \in Nat /\ Len(pass.batch) > 0
          /\ \A k \in 1 .. Len(pass.batch) : pass.batch[k] \in DOMAIN rows
          /\ DOMAIN pass.batch = 1 .. Len(pass.batch)
          /\ \A n \in LinkedRows(pass.lane) :
                n > pass.at /\ n =< pass.batch[Len(pass.batch)]
                    => \E k \in DOMAIN pass.batch : pass.batch[k] = n
      BY <2>1 DEF Walking, AnchorsInHand
    <3>2. pass.batch[Len(pass.batch)] \in DOMAIN rows
      BY <3>1
    <3>3. \A k \in 1 .. Len(pass.batch) : pass.batch[k] \in DOMAIN rows'
      BY <1>2, <1>4, <3>1
    <3>4. ASSUME NEW n \in LinkedRows(pass.lane)', n > pass.at, n =< pass.batch[Len(pass.batch)]
          PROVE  \E k \in DOMAIN pass.batch : pass.batch[k] = n
      <4>1. LinkedRows(pass.lane)' = {m \in Wikidata!RowsOf("NATIVE")' : TypeOfItem[rows'[m].item] = Types[pass.lane]}
        BY <1>1 DEF LinkedRows
      <4>2. n # at
        BY <1>2, <1>4, <3>2, <3>4
      <4>3. n \in LinkedRows(pass.lane)
        BY <1>4, <1>5, <4>1, <4>2 DEF LinkedRows, Wikidata!RowsOf
      <4>4. QED
        BY <3>1, <3>4, <4>3
    <3>5. QED
      BY <1>1, <3>1, <3>3, <3>4 DEF AnchorsInHand
  <2>2. CASE pass.step # "link"
    BY <1>1, <2>2 DEF Walking, AnchorsInHand
  <2>3. QED
    BY <2>1, <2>2
<1>12. RelationsInHand' /\ EdgesGrounded'
  BY <1>1 DEF Walking, RelationsInHand, EdgesGrounded
<1>13. QED
  BY <1>6, <1>9, <1>10, <1>11, <1>12 DEF Walking

LEMMA WalkingKept == Walking /\ [Wikidata!Next]_Wikidata!vars => Walking'
<1> SUFFICES ASSUME Walking, [Wikidata!Next]_Wikidata!vars PROVE Walking'
  OBVIOUS
<1>1. CASE UNCHANGED Wikidata!vars
  <2>1. UNCHANGED <<rows, cursor, edges, pass, asked>>
    BY <1>1 DEF Wikidata!vars
  <2>2. WalkShape' /\ Table(rows') /\ EdgesGrounded' /\ RelationsInHand' /\ AnchorsInHand'
    BY <2>1 DEF Walking, WalkShape, EdgesGrounded, AnchorsInHand, RelationsInHand, LinkedRows,
       Wikidata!RowsOf
  <2>3. Wikidata!CursorFollowsTheWork'
    BY <2>1, SameTable, FollowsByLane, FollowsByLaneNext DEF Walking
  <2>4. QED
    BY <2>2, <2>3 DEF Walking
<1>2. CASE Wikidata!Next
  BY <1>2, OfStartPass, OfReadAnchors, OfWriteAnchors, OfReadRelations, OfWriteRelations, OfFail,
     OfLinkItem DEF Wikidata!Next
<1>3. QED
  BY <1>1, <1>2

LEMMA WalkingImplies == Walking => Wikidata!CursorFollowsTheWork /\ Wikidata!EdgesAreGrounded /\ Wikidata!PagesAgree
<1> SUFFICES ASSUME Walking PROVE Wikidata!CursorFollowsTheWork /\ Wikidata!EdgesAreGrounded /\ Wikidata!PagesAgree
  OBVIOUS
<1>1. Wikidata!CursorFollowsTheWork
  BY DEF Walking
<1>2. Wikidata!EdgesAreGrounded
  <2>1. ASSUME NEW i \in WikidataItems, NEW j \in WikidataItems, i # j, TypeOfItem[i] = TypeOfItem[j]
        PROVE  Wikidata!Anchor(i) \cap Wikidata!Anchor(j) = {}
    <3>1. \A n \in Wikidata!Held(rows, i), m \in Wikidata!Held(rows, j) : rows[n].value # rows[m].value
      BY <2>1 DEF Wikidata!Held, Walking, Table, Exclusive
    <3>2. QED
      BY <3>1 DEF Wikidata!Anchor
  <2>2. QED
    BY <2>1 DEF Wikidata!EdgesAreGrounded, Walking, EdgesGrounded
<1>3. Wikidata!PagesAgree
  <2>1. ASSUME NEW s \in Statements, NEW i \in WikidataItems, NEW j \in WikidataItems,
               [from |-> i, to |-> j, relation |-> s.relation] \in edges
        PROVE  s.relation \in {"ADAPTATION", "DERIVATIVE"}
    <3>1. [from |-> i, to |-> j, relation |-> s.relation] \in EdgeSet
      BY <2>1 DEF Walking, EdgesGrounded
    <3>2. QED
      BY <3>1 DEF EdgeSet
  <2>2. \A e \in edges : e.from \in WikidataItems /\ e.to \in WikidataItems /\ e.relation \in {"ADAPTATION", "DERIVATIVE"}
    BY DEF Walking, EdgesGrounded, EdgeSet
  <2>3. ASSUME NEW i \in WikidataItems, NEW j \in WikidataItems
        PROVE  /\ <<j, "SOURCE">> \in Wikidata!Adaptations(i) <=>
                     \/ \E e \in edges : e.from = i /\ e.to = j /\ e.relation = "ADAPTATION"
                     \/ \E e \in edges : e.to = i /\ e.from = j /\ e.relation # "ADAPTATION"
               /\ <<j, "DERIVED">> \in Wikidata!Adaptations(i) <=>
                     \/ \E e \in edges : e.from = i /\ e.to = j /\ e.relation # "ADAPTATION"
                     \/ \E e \in edges : e.to = i /\ e.from = j /\ e.relation = "ADAPTATION"
    BY <2>2 DEF Wikidata!Adaptations, Wikidata!DirectionOfOtherEnd
  <2>4. ASSUME NEW s \in Statements, NEW i \in WikidataItems, NEW j \in WikidataItems,
               [from |-> i, to |-> j, relation |-> s.relation] \in edges
        PROVE  \/ s.relation = "ADAPTATION" /\ <<j, "SOURCE">> \in Wikidata!Adaptations(i)
               \/ s.relation = "DERIVATIVE" /\ <<j, "DERIVED">> \in Wikidata!Adaptations(i)
    <3> DEFINE e == [from |-> i, to |-> j, relation |-> s.relation]
    <3>1. e \in edges /\ e.from = i /\ e.to = j /\ e.relation = s.relation
      BY <2>4
    <3> HIDE DEF e
    <3>2. QED
      BY <2>1, <2>3, <2>4, <3>1
  <2>5. ASSUME NEW i \in WikidataItems, NEW j \in WikidataItems
        PROVE  <<j, "SOURCE">> \in Wikidata!Adaptations(i) <=> <<i, "DERIVED">> \in Wikidata!Adaptations(j)
    <3>1. <<j, "SOURCE">> \in Wikidata!Adaptations(i) <=>
                     \/ \E e \in edges : e.from = i /\ e.to = j /\ e.relation = "ADAPTATION"
                     \/ \E e \in edges : e.to = i /\ e.from = j /\ e.relation # "ADAPTATION"
      BY <2>3
    <3>2. <<i, "DERIVED">> \in Wikidata!Adaptations(j) <=>
                     \/ \E e \in edges : e.from = j /\ e.to = i /\ e.relation # "ADAPTATION"
                     \/ \E e \in edges : e.to = j /\ e.from = i /\ e.relation = "ADAPTATION"
      BY <2>3
    <3>3. QED
      BY <3>1, <3>2
  <2>6. QED
    BY <2>4, <2>5 DEF Wikidata!PagesAgree
<1>4. QED
  BY <1>1, <1>2, <1>3

-----------------------------------------------------------------------------
(* Embeddings. *)

\* A vector is read in the row that carries its hash and its model.
LEMMA VisibleInit == Embeddings!Init => Embeddings!StalenessIsVisible
  BY DEF Embeddings!Init, Embeddings!NoRow, Embeddings!StalenessIsVisible

LEMMA VisibleKept == Embeddings!StalenessIsVisible /\ [Embeddings!Next]_Embeddings!vars => Embeddings!StalenessIsVisible'
<1> SUFFICES ASSUME Embeddings!StalenessIsVisible, [Embeddings!Next]_Embeddings!vars PROVE Embeddings!StalenessIsVisible'
  OBVIOUS
<1>1. ASSUME NEW r \in Passes, Embeddings!WriteBatch(r) PROVE Embeddings!StalenessIsVisible'
  <2> DEFINE batch == Embeddings!ToSet(run[r].pending)
             written == [i \in {p.item : p \in batch} |->
                            Embeddings!Row(CHOOSE p \in batch : p.item = i, run[r].model)]
  <2>1. store' = [i \in EmbeddedItems |-> IF i \in DOMAIN written THEN written[i] ELSE store[i]]
    BY <1>1 DEF Embeddings!WriteBatch, Embeddings!UpsertEmbeddings
  <2>2. \A i \in DOMAIN written : written[i].vector = <<written[i].hash, written[i].model>>
    BY DEF Embeddings!Row
  <2> HIDE DEF written
  <2>3. QED
    BY <2>1, <2>2 DEF Embeddings!StalenessIsVisible
<1>2. CASE UNCHANGED store
  BY <1>2 DEF Embeddings!StalenessIsVisible
<1>3. ASSUME NEW r \in Passes, Embeddings!Start(r) \/ Embeddings!NextType(r) \/ Embeddings!ReadBatch(r) \/ Embeddings!Fail(r) PROVE UNCHANGED store
  BY <1>3 DEF Embeddings!Start, Embeddings!NextType, Embeddings!ReadBatch, Embeddings!Fail
<1>4. ASSUME NEW i \in EmbeddedItems, Embeddings!Edit(i) PROVE UNCHANGED store
  BY <1>4 DEF Embeddings!Edit
<1>5. CASE Embeddings!Deploy \/ UNCHANGED Embeddings!vars
  BY <1>2, <1>5 DEF Embeddings!Deploy, Embeddings!vars
<1>6. QED
  BY <1>1, <1>2, <1>3, <1>4, <1>5 DEF Embeddings!Next, Embeddings!Pass

(***************************************************************************)
(* "a run killed mid-batch redoes that batch and nothing else"             *)
(* (wikidata_sync): whatever fails between two batches, the cursor of a    *)
(* type has passed no linked row whose answer was not committed; every     *)
(* edge is one that Wikidata states of two items that it names without     *)
(* ambiguity, and the pages of both tell the same.  The hash and the model *)
(* beside a vector are those it was made from, whatever passes overlap.    *)
(***************************************************************************)
THEOREM PassesTellTheTruth == Spec => []PassesAreTruthful
<1> DEFINE Here == part = "wikidata"
           There == part = "embeddings"
<1>1. /\ Init /\ Here => Walking
      /\ Init /\ There => Embeddings!StalenessIsVisible
  BY WalkingInit, VisibleInit DEF Init
<1>2. UNCHANGED vars => UNCHANGED Wikidata!vars /\ UNCHANGED Embeddings!vars
  BY DEF vars, Wikidata!vars, Embeddings!vars, rows, cursor, edges, pass, asked, faults,
         text, model, store, run, edits
<1>3. /\ [Next]_vars /\ Here /\ Walking => Walking' /\ Here'
      /\ [Next]_vars /\ There /\ Embeddings!StalenessIsVisible
            => Embeddings!StalenessIsVisible' /\ There'
  BY <1>2, WalkingKept, VisibleKept DEF Next, vars
<1>4. /\ [Next]_vars /\ ~Here => ~Here'
      /\ [Next]_vars /\ ~There => ~There'
  BY DEF Next, vars
<1>5. (Here => Walking) /\ (There => Embeddings!StalenessIsVisible) => PassesAreTruthful
  BY WalkingImplies DEF PassesAreTruthful
<1> HIDE DEF Here, There
<1>6. QED
  BY <1>1, <1>3, <1>4, <1>5, PTL DEF Spec

-----------------------------------------------------------------------------
(* The lanes of IGDB. *)

LEMMA GamesAreTheSame ==
    /\ Walks!Init => GamesProofs!Init
    /\ Walks!Next => GamesProofs!Next
    /\ UNCHANGED vars => UNCHANGED GamesProofs!vars
    /\ GamesProofs!NewGamesAreAdmitted => Walks!NewGamesAreAdmitted
    /\ GamesProofs!CatalogFollowsUpdates => Walks!CatalogFollowsUpdates
    /\ GamesProofs!SweepIsWhole => Walks!SweepIsWhole
<1> USE DEF Walks!source, GamesProofs!source, Walks!history, GamesProofs!history,
            Walks!vars, GamesProofs!vars, Walks!None, GamesProofs!None, Walks!Absent,
            GamesProofs!Absent, Walks!AtRest, GamesProofs!AtRest, Walks!Published,
            GamesProofs!Published, Walks!Eligible, GamesProofs!Eligible, Walks!Init,
            GamesProofs!Init, Walks!Stamp, GamesProofs!Stamp, Walks!Listed,
            GamesProofs!Listed, Walks!Precedes, GamesProofs!Precedes, Walks!Place,
            GamesProofs!Place, Walks!Passed, GamesProofs!Passed, Walks!Joins,
            GamesProofs!Joins, Walks!Tick, GamesProofs!Tick, Walks!Publish,
            GamesProofs!Publish, Walks!Touch, GamesProofs!Touch, Walks!Vote,
            GamesProofs!Vote, Walks!Since, GamesProofs!Since, Walks!Start,
            GamesProofs!Start, Walks!FetchPage, GamesProofs!FetchPage, Walks!InWrite,
            GamesProofs!InWrite, Walks!Seen, GamesProofs!Seen, Walks!Payload,
            GamesProofs!Payload, Walks!WriteGames, GamesProofs!WriteGames,
            Walks!WriteNew, GamesProofs!WriteNew, Walks!WriteUpdated,
            GamesProofs!WriteUpdated, Walks!Newest, GamesProofs!Newest, Walks!Advance,
            GamesProofs!Advance, Walks!Least, GamesProofs!Least, Walks!CatalogPage,
            GamesProofs!CatalogPage, Walks!SweepPage, GamesProofs!SweepPage,
            Walks!Hydrate, GamesProofs!Hydrate, Walks!Fail, GamesProofs!Fail,
            Walks!Next, GamesProofs!Next, Walks!NewGamesAreAdmitted,
            GamesProofs!NewGamesAreAdmitted, Walks!Stale, GamesProofs!Stale,
            Walks!CatalogFollowsUpdates, GamesProofs!CatalogFollowsUpdates,
            Walks!SweepIsWhole, GamesProofs!SweepIsWhole, Walks!Cardinality,
            GamesProofs!Cardinality
<1>1. Walks!Init => GamesProofs!Init
  OBVIOUS
<1>2. Walks!Next => GamesProofs!Next
  OBVIOUS
<1>3. UNCHANGED vars => UNCHANGED GamesProofs!vars
  BY DEF vars, now, igdb, events, catalog, targets, marks, walk, runs,
         unasked, refused, shifted, complete
<1>4. GamesProofs!NewGamesAreAdmitted => Walks!NewGamesAreAdmitted
  OBVIOUS
<1>5. GamesProofs!CatalogFollowsUpdates => Walks!CatalogFollowsUpdates
  OBVIOUS
<1>6. GamesProofs!SweepIsWhole => Walks!SweepIsWhole
  OBVIOUS
<1>7. QED
  BY <1>1, <1>2, <1>3, <1>4, <1>5, <1>6

-----------------------------------------------------------------------------
(* Places in a finite set that is sorted by key, and by number where keys are equal. *)

Before(S, key, x) == {y \in S : key[y] < key[x] \/ (key[y] = key[x] /\ y < x)}
Rank(S, key, x) == Cardinality(Before(S, key, x))
\* A finite set of numbers with their keys.
IsKeyed(S, key) == IsFiniteSet(S) /\ S \subseteq Int /\ \A x \in S : key[x] \in Int

LEMMA RankType ==
    ASSUME NEW S, NEW key, IsFiniteSet(S), NEW x
    PROVE  IsFiniteSet(Before(S, key, x)) /\ Rank(S, key, x) \in Nat /\ Rank(S, key, x) =< Cardinality(S)
<1>1. Before(S, key, x) \in SUBSET S
  BY DEF Before
<1>2. IsFiniteSet(Before(S, key, x)) /\ Cardinality(Before(S, key, x)) =< Cardinality(S)
  BY <1>1, FS_Subset
<1>3. QED
  BY <1>2, FS_CardinalityType DEF Rank

\* What is sorted after x has all of x before it, and x as well.
LEMMA RankFollowsOrder ==
    ASSUME NEW S, NEW key, IsKeyed(S, key), NEW x \in S, NEW z \in S, x \in Before(S, key, z)
    PROVE  Before(S, key, x) \subseteq Before(S, key, z) /\ Rank(S, key, x) < Rank(S, key, z)
<1>1. /\ S \subseteq Int /\ \A y \in S : key[y] \in Int
      /\ key[x] < key[z] \/ (key[x] = key[z] /\ x < z)
  BY DEF IsKeyed, Before
<1>2. ASSUME NEW y \in Before(S, key, x) PROVE y \in Before(S, key, z)
  BY <1>1, <1>2 DEF Before
<1>3. x \notin Before(S, key, x)
  BY <1>1 DEF Before
<1>4. Before(S, key, x) \in SUBSET Before(S, key, z)
  BY <1>2
<1>5. IsFiniteSet(Before(S, key, z)) /\ Rank(S, key, x) \in Nat /\ Rank(S, key, z) \in Nat
  BY RankType DEF IsKeyed
<1>6. Rank(S, key, x) =< Rank(S, key, z) /\ Rank(S, key, x) # Rank(S, key, z)
  BY <1>3, <1>4, <1>5, FS_Subset DEF Rank
<1>7. QED
  BY <1>4, <1>5, <1>6

LEMMA OneBeforeOther ==
    ASSUME NEW S, NEW key, IsKeyed(S, key), NEW x \in S, NEW z \in S
    PROVE  x = z \/ x \in Before(S, key, z) \/ z \in Before(S, key, x)
BY DEF IsKeyed, Before

LEMMA RankBelowSize ==
    ASSUME NEW S, NEW key, IsKeyed(S, key), NEW x \in S
    PROVE  Rank(S, key, x) < Cardinality(S)
<1>1. Before(S, key, x) \in SUBSET S /\ x \notin Before(S, key, x)
  BY DEF Before, IsKeyed
<1>2. IsFiniteSet(S) /\ Rank(S, key, x) \in Nat /\ Cardinality(S) \in Nat
  BY RankType, FS_CardinalityType DEF IsKeyed
<1>3. Rank(S, key, x) =< Cardinality(S) /\ Rank(S, key, x) # Cardinality(S)
  BY <1>1, <1>2, FS_Subset DEF Rank
<1>4. QED
  BY <1>2, <1>3

LEMMA SameSlicesCount == \A S : Slices!Cardinality(S) = Cardinality(S)
BY DEF Slices!Cardinality, Cardinality

-----------------------------------------------------------------------------
(* The slices of games: what a sorted list holds.                           *)

LEMMA OrderHolds ==
    ASSUME NEW S, NEW key, IsKeyed(S, key)
    PROVE  Slices!InOrder(S, key) \in Seq(S)
<1> DEFINE all == Cardinality(S)
           listed == Slices!InOrder(S, key)
           place == [x \in S |-> Rank(S, key, x)]
<1>1. IsFiniteSet(S) /\ all \in Nat
  BY FS_CardinalityType DEF IsKeyed
<1>2. listed = [k \in 1 .. all |-> CHOOSE x \in S : Rank(S, key, x) = k - 1]
  BY DEF Slices!InOrder, Rank, Before, Slices!Cardinality, Cardinality
<1>3. place \in Surjection(S, 0 .. (all - 1))
  <2>1. ASSUME NEW x \in S PROVE Rank(S, key, x) \in 0 .. (all - 1)
    <3>1. Rank(S, key, x) \in Nat /\ Rank(S, key, x) < all
      BY <1>1, RankType, RankBelowSize
    <3> HIDE DEF all
    <3>2. QED
      BY <1>1, <3>1
  <2>2. ASSUME NEW x \in S, NEW z \in S, Rank(S, key, x) = Rank(S, key, z) PROVE x = z
    <3>1. Rank(S, key, x) \in Nat /\ Rank(S, key, z) \in Nat
      BY <1>1, RankType
    <3>2. ~(x \in Before(S, key, z)) /\ ~(z \in Before(S, key, x))
      BY <2>2, <3>1, RankFollowsOrder
    <3>3. QED
      BY <3>2, OneBeforeOther
  <2>3. place \in Injection(S, 0 .. (all - 1))
    <3>1. place \in [S -> 0 .. (all - 1)]
      BY <2>1
    <3>2. \A x, z \in S : place[x] = place[z] => x = z
      BY <2>2
    <3>3. QED
      BY <3>1, <3>2 DEF Injection, IsInjective
  <2>4. IsFiniteSet(0 .. (all - 1)) /\ Cardinality(0 .. (all - 1)) = all
    <3>1. 0 \in Int /\ all - 1 \in Int
      BY <1>1
    <3>2. /\ IsFiniteSet(0 .. (all - 1))
          /\ Cardinality(0 .. (all - 1)) = IF 0 > all - 1 THEN 0 ELSE (all - 1) - 0 + 1
      BY <3>1, FS_Interval
    <3> HIDE DEF all
    <3>3. QED
      BY <1>1, <3>2
  <2> HIDE DEF place
  <2>5. QED
    BY <2>3, <2>4, FS_Injection
<1>4. ASSUME NEW k \in 1 .. all PROVE listed[k] \in S
  <2>1. k - 1 \in 0 .. (all - 1)
    BY <1>1
  <2>2. \E x \in S : Rank(S, key, x) = k - 1
    BY <1>3, <2>1 DEF Surjection
  <2>3. listed[k] = CHOOSE x \in S : Rank(S, key, x) = k - 1
    BY <1>2
  <2>4. QED
    BY <2>2, <2>3
<1>5. DOMAIN listed = 1 .. all /\ listed = [k \in 1 .. all |-> listed[k]]
  BY <1>2
<1> HIDE DEF all, listed
<1>6. listed \in [1 .. all -> S]
  BY <1>4, <1>5
<1>7. listed \in Seq(S)
  BY <1>1, <1>6
<1>8. QED
  BY <1>7 DEF listed

LEMMA NumbersHold ==
    ASSUME NEW S \in SUBSET Int, IsFiniteSet(S)
    PROVE  Slices!ByNumber(S) \in Seq(S)
<1> DEFINE key == [x \in S |-> x]
<1>1. IsKeyed(S, key)
  BY DEF IsKeyed
<1>2. Slices!InOrder(S, key) \in Seq(S)
  <2> HIDE DEF key
  <2>1. QED
    BY <1>1, OrderHolds
<1>3. QED
  BY <1>2 DEF Slices!ByNumber

LEMMA WithoutHolds ==
    ASSUME NEW T, NEW seq \in Seq(T), NEW S
    PROVE  Slices!Without(seq, S) \in Seq(T)
<1> DEFINE kept == {k \in DOMAIN seq : seq[k] \notin S}
           left == Slices!ByNumber(kept)
<1>1. Len(seq) \in Nat /\ DOMAIN seq = 1 .. Len(seq) /\ \A k \in DOMAIN seq : seq[k] \in T
  OBVIOUS
<1>2. kept \in SUBSET Int /\ IsFiniteSet(kept)
  <2>1. kept \in SUBSET (1 .. Len(seq))
    BY <1>1
  <2>2. IsFiniteSet(1 .. Len(seq))
    <3>1. 1 \in Int /\ Len(seq) \in Int
      BY <1>1
    <3>2. QED
      BY <3>1, FS_Interval
  <2>3. IsFiniteSet(kept)
    BY <2>1, <2>2, FS_Subset
  <2>4. kept \in SUBSET Int
    BY <1>1, <2>1
  <2>5. QED
    BY <2>3, <2>4
<1>3. left \in Seq(kept)
  <2> HIDE DEF kept
  <2>1. QED
    BY <1>2, NumbersHold
<1>4. Slices!Without(seq, S) = [k \in DOMAIN left |-> seq[left[k]]]
  BY DEF Slices!Without
<1>5. kept \subseteq DOMAIN seq
  OBVIOUS
<1> HIDE DEF left, kept
<1>6. Len(left) \in Nat /\ DOMAIN left = 1 .. Len(left) /\ \A k \in 1 .. Len(left) : left[k] \in kept
  BY <1>3
<1>7. \A k \in 1 .. Len(left) : seq[left[k]] \in T
  BY <1>1, <1>5, <1>6
<1>8. Slices!Without(seq, S) \in [1 .. Len(left) -> T]
  BY <1>4, <1>6, <1>7
<1>9. QED
  BY <1>6, <1>8

LEMMA PrefixHolds ==
    ASSUME NEW T, NEW seq \in Seq(T), NEW n \in Nat
    PROVE  Slices!Prefix(seq, n) \in Seq(T) /\ Len(Slices!Prefix(seq, n)) \in 0 .. n
BY DEF Slices!Prefix

-----------------------------------------------------------------------------
(* The slices of games: the gate.                                           *)

Entered == {x \in GameTargets : entered[x] # Slices!None}
\* A game in hand with a payload that the gate lets pass: a new one is of the allowlist.
Admissible(x, payload) ==
    /\ x \in GameTargets /\ payload \in {"allowed", "other"}
    /\ payload = "allowed" \/ x \notin slice.pending
    /\ x \in slice.pending \/ entered[x] # Slices!None
SliceIsSound ==
    /\ slice \in [step : {"idle", "fetch", "write"}, pending : SUBSET GameTargets, work : Seq(GameTargets),
                  batch : SUBSET (GameTargets \X {"allowed", "other"}), resolved : SUBSET GameTargets, gone : SUBSET GameTargets]
    /\ slice.work \in Seq(slice.pending \cup Entered)
    /\ \A r \in slice.batch : Admissible(r[1], r[2])
SlicesInv ==
    /\ igdb \in [GameTargets -> {"allowed", "other", "gone"}]
    /\ attempts \in [GameTargets -> Int]
    /\ entered \in [GameTargets -> {Slices!None, "allowed", "other"}]
    /\ stale \in Seq(Entered)
    /\ SliceIsSound
    /\ Slices!AllowlistGuardsAdmission

LEMMA SeqMonotone ==
    ASSUME NEW S, NEW T, S \subseteq T
    PROVE  Seq(S) \subseteq Seq(T)
OBVIOUS

LEMMA SlicesInit == Slices!Init => SlicesInv
<1> SUFFICES ASSUME Slices!Init PROVE SlicesInv
  OBVIOUS
<1>1. attempts \in [GameTargets -> Int] /\ entered \in [GameTargets -> {Slices!None, "allowed", "other"}]
  BY DEF Slices!Init
<1>2. stale \in Seq(Entered)
  <2>1. LinkedGames \in SUBSET Int /\ IsFiniteSet(LinkedGames)
    <3>1. LinkedGames \in SUBSET GameTargets
      BY SlicesAssumption
    <3>2. IsFiniteSet(LinkedGames)
      BY <3>1, SlicesAssumption, FS_Subset
    <3>3. QED
      BY <3>1, <3>2, SlicesAssumption
  <2>2. stale \in Seq(LinkedGames)
    BY <2>1, NumbersHold DEF Slices!Init
  <2>3. LinkedGames \subseteq Entered
    BY SlicesAssumption DEF Slices!Init, Entered, Slices!None
  <2>4. QED
    BY <2>2, <2>3, SeqMonotone
<1>3. SliceIsSound
  <2>1. slice = Slices!AtRest
    BY DEF Slices!Init
  <2>2. <<>> \in Seq(GameTargets) /\ <<>> \in Seq({} \cup Entered)
    OBVIOUS
  <2>3. QED
    BY <2>1, <2>2 DEF Slices!AtRest, SliceIsSound
<1>4. Slices!AllowlistGuardsAdmission
  BY DEF Slices!Init, Slices!AllowlistGuardsAdmission, Slices!None
<1>5. QED
  BY <1>1, <1>2, <1>3, <1>4 DEF SlicesInv, Slices!Init

\* A slice at rest, whatever happened to it.
LEMMA SliceAtRest == slice' = Slices!AtRest => SliceIsSound'
<1> SUFFICES ASSUME slice' = Slices!AtRest PROVE SliceIsSound'
  OBVIOUS
<1>1. <<>> \in Seq(GameTargets) /\ <<>> \in Seq({} \cup Entered')
  OBVIOUS
<1>2. QED
  BY <1>1 DEF Slices!AtRest, SliceIsSound

LEMMA SliceStartKeeps == SlicesInv /\ Slices!Start => SlicesInv'
<1> SUFFICES ASSUME SlicesInv, Slices!Start PROVE SlicesInv'
  OBVIOUS
<1> DEFINE inOrder == Slices!InOrder(Slices!Pending, attempts)
           pending == Slices!Prefix(inOrder, GameSlice)
           filled == Slices!Prefix(stale, GameSlice - Len(pending))
           work == pending \o filled
<1>1. /\ slice' = [Slices!AtRest EXCEPT !.step = "fetch", !.pending = Slices!ToSet(pending), !.work = work]
      /\ UNCHANGED <<igdb, attempts, entered, stale>>
  BY DEF Slices!Start
<1>2. Slices!Pending \subseteq GameTargets /\ IsKeyed(Slices!Pending, attempts)
  <2>1. Slices!Pending \in SUBSET GameTargets
    BY DEF Slices!Pending
  <2>2. IsFiniteSet(Slices!Pending)
    BY <2>1, SlicesAssumption, FS_Subset
  <2>3. \A x \in Slices!Pending : attempts[x] \in Int
    BY <2>1 DEF SlicesInv
  <2>4. QED
    BY <2>1, <2>2, <2>3, SlicesAssumption DEF IsKeyed
<1>3. inOrder \in Seq(Slices!Pending)
  BY <1>2, OrderHolds
<1>4. pending \in Seq(Slices!Pending) /\ Len(pending) \in 0 .. GameSlice
  <2> HIDE DEF inOrder
  <2>1. QED
    BY <1>3, PrefixHolds, SlicesAssumption
<1> HIDE DEF pending
<1>5. filled \in Seq(Entered)
  <2>1. GameSlice - Len(pending) \in Nat
    BY <1>4, SlicesAssumption
  <2>2. QED
    BY <2>1, PrefixHolds DEF SlicesInv
<1>6. Slices!ToSet(pending) \subseteq Slices!Pending /\ pending \in Seq(Slices!ToSet(pending))
  BY <1>4 DEF Slices!ToSet
<1> HIDE DEF filled
<1>7. pending \in Seq(Slices!ToSet(pending) \cup Entered) /\ filled \in Seq(Slices!ToSet(pending) \cup Entered)
  BY <1>5, <1>6, SeqMonotone
<1>8. work \in Seq(Slices!ToSet(pending) \cup Entered)
  BY <1>7
<1>9. work \in Seq(GameTargets) /\ Slices!ToSet(pending) \in SUBSET GameTargets
  <2>1. Slices!ToSet(pending) \cup Entered \subseteq GameTargets /\ Slices!ToSet(pending) \subseteq GameTargets
    BY <1>2, <1>6 DEF Entered
  <2> HIDE DEF work
  <2>2. QED
    BY <1>8, <2>1, SeqMonotone
<1> HIDE DEF work
<1>10. SliceIsSound'
  <2>1. Entered' = Entered
    BY <1>1 DEF Entered
  <2>2. /\ slice'.pending = Slices!ToSet(pending) /\ slice'.work = work /\ slice'.batch = {}
        /\ slice' \in [step : {"idle", "fetch", "write"}, pending : SUBSET GameTargets, work : Seq(GameTargets),
                  batch : SUBSET (GameTargets \X {"allowed", "other"}), resolved : SUBSET GameTargets, gone : SUBSET GameTargets]
    BY <1>1, <1>9 DEF Slices!AtRest
  <2>3. QED
    BY <1>8, <2>1, <2>2 DEF SliceIsSound
<1>11. QED
  <2>1. Entered' = Entered
    BY <1>1 DEF Entered
  <2>2. QED
    BY <1>1, <1>10, <2>1 DEF SlicesInv, Slices!AllowlistGuardsAdmission

\* A step that goes on to the rest of the work, with what it has in hand.
LEMMA SliceGoesOn ==
    ASSUME SlicesInv, UNCHANGED <<igdb, attempts, entered, stale>>, slice.step = "fetch",
           NEW step \in {"fetch", "write"}, NEW batch \in SUBSET (GameTargets \X {"allowed", "other"}),
           NEW resolved \in SUBSET GameTargets, NEW gone \in SUBSET GameTargets,
           \A r \in batch : Admissible(r[1], r[2]),
           slice' = [slice EXCEPT !.work = Slices!Rest, !.step = step, !.batch = batch,
                                  !.resolved = resolved, !.gone = gone]
    PROVE  SlicesInv'
<1> DEFINE holds == slice.pending \cup Entered
<1>1. slice.work \in Seq(holds) /\ slice.pending \in SUBSET GameTargets /\ SliceIsSound
  BY DEF SlicesInv, SliceIsSound
<1>2. Slices!Rest \in Seq(holds)
  <2> HIDE DEF holds
  <2>1. GameChunk \in Nat
    BY SlicesAssumption
  <2>2. QED
    BY <1>1, <2>1 DEF Slices!Rest
<1>3. holds \subseteq GameTargets
  BY <1>1 DEF Entered
<1>4. Slices!Rest \in Seq(GameTargets)
  <2> HIDE DEF holds
  <2>1. QED
    BY <1>2, <1>3, SeqMonotone
<1>5. /\ slice'.pending = slice.pending /\ slice'.work = Slices!Rest /\ slice'.batch = batch
      /\ slice' \in [step : {"idle", "fetch", "write"}, pending : SUBSET GameTargets, work : Seq(GameTargets),
                  batch : SUBSET (GameTargets \X {"allowed", "other"}), resolved : SUBSET GameTargets, gone : SUBSET GameTargets]
  BY <1>1, <1>4 DEF SliceIsSound
<1>6. Entered' = Entered /\ \A r \in batch : Admissible(r[1], r[2])'
  BY <1>5 DEF Entered, Admissible
<1>7. SliceIsSound'
  BY <1>2, <1>5, <1>6 DEF SliceIsSound
<1>8. QED
  BY <1>6, <1>7 DEF SlicesInv, Slices!AllowlistGuardsAdmission

LEMMA FetchChunkKeeps == SlicesInv /\ Slices!FetchChunk => SlicesInv'
<1> SUFFICES ASSUME SlicesInv, Slices!FetchChunk PROVE SlicesInv'
  OBVIOUS
<1> DEFINE served == {x \in Slices!ToSet(Slices!Chunk) : igdb[x] # "gone"}
           written == {x \in served : Slices!Gate(x, igdb[x])}
           batch == {<<x, igdb[x]>> : x \in written}
           resolved == slice.resolved \cup (Slices!Resolved(served, written) \cap slice.pending)
           gone == slice.gone \cup ((Slices!ToSet(Slices!Chunk) \ served) \cap slice.pending)
<1>1. /\ slice' = [slice EXCEPT !.work = Slices!Rest, !.step = "write", !.batch = batch,
                                !.resolved = resolved, !.gone = gone]
      /\ UNCHANGED <<igdb, attempts, entered, stale>> /\ slice.step = "fetch"
  BY DEF Slices!FetchChunk
<1>2. /\ slice.work \in Seq(slice.pending \cup Entered) /\ slice.pending \in SUBSET GameTargets
      /\ slice.resolved \in SUBSET GameTargets /\ slice.gone \in SUBSET GameTargets
      /\ igdb \in [GameTargets -> {"allowed", "other", "gone"}]
  BY DEF SlicesInv, SliceIsSound
<1>3. Slices!ToSet(Slices!Chunk) \subseteq slice.pending \cup Entered
  <2> DEFINE holds == slice.pending \cup Entered
  <2> HIDE DEF holds
  <2>1. slice.work \in Seq(holds)
    BY <1>2 DEF holds
  <2>2. Slices!Chunk \in Seq(holds)
    BY <2>1, PrefixHolds, SlicesAssumption DEF Slices!Chunk
  <2>3. Slices!ToSet(Slices!Chunk) \subseteq holds
    BY <2>2 DEF Slices!ToSet
  <2>4. QED
    BY <2>3 DEF holds
<1>4. ASSUME NEW x \in written
      PROVE  x \in GameTargets /\ igdb[x] \in {"allowed", "other"} /\ Admissible(x, igdb[x])
  <2>1. x \in slice.pending \cup Entered /\ igdb[x] # "gone" /\ Slices!Gate(x, igdb[x])
    BY <1>3
  <2>2. x \in GameTargets /\ (x \in slice.pending \/ entered[x] # Slices!None)
    BY <1>2, <2>1 DEF Entered
  <2>3. igdb[x] \in {"allowed", "other"}
    BY <1>2, <2>1, <2>2
  <2>4. QED
    BY <2>1, <2>2, <2>3 DEF Slices!Gate, Admissible
<1>5. resolved \in SUBSET GameTargets /\ gone \in SUBSET GameTargets
  BY <1>2
<1> HIDE DEF written, resolved, gone
<1>6. batch \in SUBSET (GameTargets \X {"allowed", "other"})
  BY <1>4
<1>7. \A r \in batch : Admissible(r[1], r[2])
  <2>1. ASSUME NEW r \in batch PROVE Admissible(r[1], r[2])
    <3>1. PICK x \in written : r = <<x, igdb[x]>>
      BY <2>1
    <3>2. r[1] = x /\ r[2] = igdb[x]
      BY <3>1
    <3>3. QED
      BY <1>4, <3>2
  <2>2. QED
    BY <2>1
<1> HIDE DEF batch
<1>8. QED
  BY <1>1, <1>5, <1>6, <1>7, SliceGoesOn

LEMMA FetchFailsKeeps == SlicesInv /\ Slices!FetchFails => SlicesInv'
<1> SUFFICES ASSUME SlicesInv, Slices!FetchFails PROVE SlicesInv'
  OBVIOUS
<1>1. /\ slice' = [slice EXCEPT !.work = Slices!Rest]
      /\ UNCHANGED <<igdb, attempts, entered, stale>> /\ slice.step = "fetch"
  BY DEF Slices!FetchFails
<1>2. /\ slice \in [step : {"idle", "fetch", "write"}, pending : SUBSET GameTargets, work : Seq(GameTargets),
                  batch : SUBSET (GameTargets \X {"allowed", "other"}), resolved : SUBSET GameTargets, gone : SUBSET GameTargets]
      /\ \A r \in slice.batch : Admissible(r[1], r[2])
  BY DEF SlicesInv, SliceIsSound
<1> DEFINE batch == slice.batch
           resolved == slice.resolved
           gone == slice.gone
<1>3. /\ slice' = [slice EXCEPT !.work = Slices!Rest, !.step = "fetch", !.batch = batch,
                               !.resolved = resolved, !.gone = gone]
      /\ batch \in SUBSET (GameTargets \X {"allowed", "other"})
      /\ resolved \in SUBSET GameTargets /\ gone \in SUBSET GameTargets
      /\ \A r \in batch : Admissible(r[1], r[2])
  BY <1>1, <1>2
<1> HIDE DEF batch, resolved, gone
<1>4. QED
  BY <1>1, <1>3, SliceGoesOn

LEMMA WriteBatchKeeps == SlicesInv /\ Slices!WriteBatch => SlicesInv'
<1> USE SameSlicesCount
<1> SUFFICES ASSUME SlicesInv, Slices!WriteBatch PROVE SlicesInv'
  OBVIOUS
<1>1. PICK lost \in SUBSET slice.batch :
         LET found == slice.batch \ lost
             ids == {r[1] : r \in found}
         IN  /\ entered' = [x \in GameTargets |-> IF x \in ids /\ entered[x] = Slices!None
                                          THEN (CHOOSE r \in found : r[1] = x)[2] ELSE entered[x]]
             /\ stale' = Slices!Without(stale, ids) \o Slices!ByNumber(ids)
  BY DEF Slices!WriteBatch
<1> DEFINE found == slice.batch \ lost
           ids == {r[1] : r \in found}
<1>2. /\ slice' = [slice EXCEPT !.batch = {}, !.step = "fetch"]
      /\ UNCHANGED <<igdb, attempts>>
      /\ entered \in [GameTargets -> {Slices!None, "allowed", "other"}] /\ stale \in Seq(Entered)
      /\ SliceIsSound /\ Slices!AllowlistGuardsAdmission
  BY DEF Slices!WriteBatch, SlicesInv
<1>3. \A r \in found : Admissible(r[1], r[2])
  BY <1>2 DEF SliceIsSound
<1>4. ids \subseteq GameTargets
  BY <1>3 DEF Admissible
<1>5. ASSUME NEW x \in GameTargets
      PROVE  /\ entered'[x] \in {Slices!None, "allowed", "other"} /\ entered'[x] # "other"
             /\ entered[x] # Slices!None \/ x \in ids => entered'[x] # Slices!None
             /\ entered[x] # Slices!None => entered'[x] = entered[x]
  <2>1. entered[x] \in {Slices!None, "allowed", "other"} /\ entered[x] # "other"
    BY <1>2 DEF Slices!AllowlistGuardsAdmission
  <2>2. CASE x \in ids /\ entered[x] = Slices!None
    <3>1. PICK r \in found : r = (CHOOSE q \in found : q[1] = x) /\ r[1] = x
      BY <2>2
    <3>2. entered'[x] = r[2]
      BY <1>1, <2>2, <3>1
    <3>3. r[2] = "allowed"
      BY <1>3, <2>2, <3>1 DEF Admissible
    <3>4. QED
      BY <2>2, <3>2, <3>3 DEF Slices!None
  <2>3. CASE ~(x \in ids /\ entered[x] = Slices!None)
    <3>1. entered'[x] = entered[x]
      BY <1>1, <2>3
    <3>2. QED
      BY <2>1, <2>3, <3>1
  <2>4. QED
    BY <2>2, <2>3
<1>6. entered' \in [GameTargets -> {Slices!None, "allowed", "other"}]
  <2>1. DOMAIN entered' = GameTargets /\ entered' = [x \in GameTargets |-> entered'[x]]
    BY <1>1
  <2>2. QED
    BY <1>5, <2>1
<1>7. Entered \subseteq Entered' /\ ids \subseteq Entered'
  BY <1>4, <1>5 DEF Entered
<1> HIDE DEF ids, found
<1>8. stale' \in Seq(Entered')
  <2>1. stale' = Slices!Without(stale, ids) \o Slices!ByNumber(ids)
    BY <1>1 DEF ids, found
  <2>2. Slices!Without(stale, ids) \in Seq(Entered)
    BY <1>2, WithoutHolds
  <2>3. ids \in SUBSET GameTargets /\ ids \in SUBSET Int /\ IsFiniteSet(ids)
    <3>1. IsFiniteSet(ids)
      BY <1>4, SlicesAssumption, FS_Subset
    <3>2. QED
      BY <1>4, <3>1, SlicesAssumption
  <2>4. Slices!ByNumber(ids) \in Seq(ids)
    BY <2>3, NumbersHold
  <2>5. Slices!Without(stale, ids) \in Seq(Entered') /\ Slices!ByNumber(ids) \in Seq(Entered')
    BY <1>7, <2>2, <2>4, SeqMonotone
  <2>6. QED
    BY <2>1, <2>5
<1>9. SliceIsSound'
  <2>1. /\ slice'.pending = slice.pending /\ slice'.work = slice.work /\ slice'.batch = {}
        /\ slice' \in [step : {"idle", "fetch", "write"}, pending : SUBSET GameTargets, work : Seq(GameTargets),
                  batch : SUBSET (GameTargets \X {"allowed", "other"}), resolved : SUBSET GameTargets, gone : SUBSET GameTargets]
    BY <1>2 DEF SliceIsSound
  <2>2. slice.work \in Seq(slice.pending \cup Entered')
    <3>1. slice.work \in Seq(slice.pending \cup Entered)
      BY <1>2 DEF SliceIsSound
    <3>2. slice.pending \cup Entered \subseteq slice.pending \cup Entered'
      BY <1>7
    <3>3. QED
      BY <3>1, <3>2, SeqMonotone
  <2>3. QED
    BY <2>1, <2>2 DEF SliceIsSound
<1>10. Slices!AllowlistGuardsAdmission'
  BY <1>5 DEF Slices!AllowlistGuardsAdmission
<1>11. QED
  BY <1>2, <1>6, <1>8, <1>9, <1>10 DEF SlicesInv

LEMMA SlicesKept == SlicesInv /\ [Slices!Next]_Slices!vars => SlicesInv'
<1>1. ASSUME SlicesInv, UNCHANGED Slices!vars PROVE SlicesInv'
  BY <1>1 DEF Slices!vars, SlicesInv, SliceIsSound, Admissible, Entered,
     Slices!AllowlistGuardsAdmission
<1>2. ASSUME SlicesInv, Slices!Stamp PROVE SlicesInv'
  <2>1. slice' = Slices!AtRest /\ UNCHANGED <<igdb, entered, stale>>
    BY <1>2 DEF Slices!Stamp
  <2>2. attempts' \in [GameTargets -> Int]
    BY <1>2 DEF Slices!Stamp, SlicesInv
  <2>3. Entered' = Entered /\ SliceIsSound'
    BY <2>1, SliceAtRest DEF Entered
  <2>4. QED
    BY <1>2, <2>1, <2>2, <2>3 DEF SlicesInv, Slices!AllowlistGuardsAdmission
<1>3. ASSUME SlicesInv, Slices!Crash PROVE SlicesInv'
  <2>1. slice' = Slices!AtRest /\ UNCHANGED <<igdb, attempts, entered, stale>>
    BY <1>3 DEF Slices!Crash
  <2>2. Entered' = Entered /\ SliceIsSound'
    BY <2>1, SliceAtRest DEF Entered
  <2>3. QED
    BY <1>3, <2>1, <2>2 DEF SlicesInv, Slices!AllowlistGuardsAdmission
<1>4. ASSUME SlicesInv, NEW x \in GameTargets, Slices!Reclassify(x) PROVE SlicesInv'
  <2>1. UNCHANGED <<attempts, entered, stale, slice>>
    BY <1>4 DEF Slices!Reclassify
  <2>2. igdb' \in [GameTargets -> {"allowed", "other", "gone"}]
    BY <1>4 DEF Slices!Reclassify, SlicesInv
  <2>3. QED
    BY <1>4, <2>1, <2>2 DEF SlicesInv, SliceIsSound, Admissible, Entered,
       Slices!AllowlistGuardsAdmission
<1>5. QED
  BY <1>1, <1>2, <1>3, <1>4, SliceStartKeeps, FetchChunkKeeps, WriteBatchKeeps, FetchFailsKeeps
     DEF Slices!Next, Slices!Job

LEMMA SlicesImply == SlicesInv => Slices!AllowlistGuardsAdmission
BY DEF SlicesInv

(***************************************************************************)
(* The lanes and slices of IGDB: what the walks over a source that changes *)
(* under them miss is known.  Each new game behind the watermark is in the *)
(* catalog, refused, or of a second that is not asked for twice; each row  *)
(* is as new as the last change behind the watermark, but for those        *)
(* seconds and for what moved under the walk; a sweep that ends was whole; *)
(* and no game enters from a payload outside the allowlist.                *)
(***************************************************************************)
THEOREM IgdbLanesAreAccounted == Spec => []IgdbLanesMissNothing
<1> DEFINE Here == part = "games"
           There == part = "game_slices"
           Starts == GamesProofs!Init
           Steps == [GamesProofs!Next]_GamesProofs!vars
           Good == /\ GamesProofs!NewGamesAreAdmitted /\ GamesProofs!CatalogFollowsUpdates
                   /\ GamesProofs!SweepIsWhole
<1>1. Starts /\ [][Steps]_GamesProofs!vars => []Good
  <2>1. GamesProofs!AreNumbered
    BY GamesAssumption DEF GamesProofs!AreNumbered, GamesProofs!IsFiniteSet, IsFiniteSet
  <2>2. QED
    BY <2>1, GamesProofs!GamesStayAccounted, PTL DEF GamesProofs!Spec
<1>2. /\ Init /\ Here => Starts
      /\ Init /\ There => SlicesInv
  BY GamesAreTheSame, SlicesInit DEF Init
<1>3. UNCHANGED vars => UNCHANGED Slices!vars
  BY DEF vars, Slices!vars, igdb, attempts, unreachable, entered, stale, slice, faults, changes
<1>4. /\ [Next]_vars /\ Here => Steps /\ Here'
      /\ [Next]_vars /\ There /\ SlicesInv => SlicesInv' /\ There'
  BY <1>3, GamesAreTheSame, SlicesKept DEF Next, vars
<1>5. /\ [Next]_vars /\ ~Here => ~Here'
      /\ [Next]_vars /\ ~There => ~There'
  BY DEF Next, vars
<1>6. (Here => Good) /\ (There => SlicesInv) => IgdbLanesMissNothing
  BY GamesAreTheSame, SlicesImply DEF IgdbLanesMissNothing
<1> HIDE DEF Here, There, Starts, Steps, Good
<1>7. QED
  BY <1>1, <1>2, <1>4, <1>5, <1>6, PTL DEF Spec
=============================================================================
