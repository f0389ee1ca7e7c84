---------------------------- MODULE ReleaseLane ----------------------------
(***************************************************************************)
(* How a new film or series enters the catalog: the diff of the daily id   *)
(* exports, behind the release gate and its watermark, and the promotion   *)
(* sweep, which lists what has gathered votes by now and leaves it to the  *)
(* nightly slices.  One job runs both, each isolated from the failure of   *)
(* the other.                                                              *)
(***************************************************************************)
EXTENDS Integers, FiniteSets

CONSTANTS Ids, New, YearOf,   \* the ids of TMDB, those that pass the gate, their years
          Years,              \* those that the sweep lists
          MaxGap, Retention,  \* days
          LastDay, MaxFaults  \* bounds

VARIABLES today, early, tmdb, exports, catalog, targets, mark, run, settled, skipped, faults

source == <<today, early, tmdb, exports>>
local == <<catalog, targets, mark>>
history == <<settled, skipped>>
vars == <<source, local, run, history, faults>>

None == -1
Idle == [step |-> "idle", day |-> 0, base |-> 0, ids |-> {}, failed |-> FALSE, years |-> {}]

Alive == {x \in Ids : tmdb[x].alive}
Known == catalog \cup targets

Init ==
    /\ today = 0 /\ early = FALSE
    /\ tmdb \in [Ids -> [alive : BOOLEAN, voted : {FALSE}]]
    /\ exports = [d \in 0 .. LastDay |-> IF d = 0 THEN {x \in Ids : tmdb[x].alive} ELSE {}]
    /\ catalog = {} /\ targets = {} /\ mark = None
    /\ run = Idle /\ settled = {} /\ skipped = {} /\ faults = 0

-----------------------------------------------------------------------------
(* TMDB.  Today's file is there from eight o'clock on; the oldest one goes.  *)

Midnight ==
    /\ ~early /\ today < LastDay /\ today' = today + 1 /\ early' = TRUE
    /\ exports' = [d \in 0 .. LastDay |-> IF d > today' - Retention THEN exports[d] ELSE {}]
    /\ UNCHANGED <<tmdb, local, run, history, faults>>

PublishExport ==
    /\ early /\ early' = FALSE /\ exports' = [exports EXCEPT ![today] = Alive]
    /\ UNCHANGED <<today, tmdb, local, run, history, faults>>

Become(x) ==
    /\ \/ ~tmdb[x].alive /\ tmdb' = [tmdb EXCEPT ![x].alive = TRUE]
       \/ tmdb[x].alive /\ ~tmdb[x].voted /\ tmdb' = [tmdb EXCEPT ![x].voted = TRUE]
       \/ tmdb[x].alive /\ tmdb[x].voted /\ tmdb' = [tmdb EXCEPT ![x].alive = FALSE]
    /\ UNCHANGED <<today, early, exports, local, run, history, faults>>

-----------------------------------------------------------------------------
(* The lane of the exports.                                                 *)

LatestExport == IF early THEN today - 1 ELSE today
Downloadable(d) == d > today - Retention

Oldest(years) == CHOOSE y \in years : \A z \in years : y =< z

\* start_year = end_year - span + 2.
StartShort ==
    /\ run.step = "idle" /\ LatestExport >= 0
    /\ run' = [Idle EXCEPT !.step = "plan", !.day = LatestExport, !.years = Years \ {Oldest(Years)}]
    /\ UNCHANGED <<source, local, history, faults>>

\* _sync_tmdb_incremental: the lanes share one now.
Start ==
    /\ run.step = "idle" /\ LatestExport >= 0
    /\ run' = [Idle EXCEPT !.step = "plan", !.day = LatestExport, !.years = Years]
    /\ UNCHANGED <<source, local, history, faults>>

Rebaselines == mark = None \/ run.day - mark > MaxGap \/ ~Downloadable(mark)

\* Nothing is admitted of the stretch that is skipped, which the result reports.
Rebaseline ==
    /\ run.step = "plan" /\ mark < run.day /\ Rebaselines
    /\ mark' = run.day /\ skipped' = skipped \cup exports[run.day]
    /\ run' = [run EXCEPT !.step = "sweep"]
    /\ UNCHANGED <<source, catalog, targets, settled, faults>>

AlreadyProcessed ==
    /\ run.step = "plan" /\ mark # None /\ mark >= run.day
    /\ run' = [run EXCEPT !.step = "sweep"]
    /\ UNCHANGED <<source, local, history, faults>>

Diff(day, base) == (exports[day] \ exports[base]) \ Known

ReadDiff ==
    /\ run.step = "plan" /\ mark < run.day /\ ~Rebaselines
    /\ run' = [run EXCEPT !.step = "hydrate", !.base = mark, !.ids = Diff(run.day, mark)]
    /\ UNCHANGED <<source, local, history, faults>>

\* The detail of one id and its verdict; a release that the writer rejects is not retried.
Hydrate(x) ==
    /\ run.step = "hydrate" /\ x \in run.ids
    /\ \/ /\ faults < MaxFaults /\ faults' = faults + 1
          /\ run' = [run EXCEPT !.ids = @ \ {x}, !.failed = TRUE]
          /\ UNCHANGED <<catalog, settled>>
       \/ /\ run' = [run EXCEPT !.ids = @ \ {x}]
          /\ \/ tmdb[x].alive /\ x \in New /\ catalog' = catalog \cup {x} /\ UNCHANGED settled
             \/ settled' = settled \cup {x} /\ UNCHANGED catalog
          /\ UNCHANGED faults
    /\ UNCHANGED <<source, targets, mark, skipped>>

\* A failed request is forgotten.
CoveredAnyway == run.ids = {}
\* An id that got no answer keeps the watermark where it is.
Covered == run.ids = {} /\ ~run.failed

Advance ==
    /\ run.step = "hydrate" /\ run.ids = {}
    /\ mark' = IF Covered THEN run.day ELSE mark
    /\ run' = [run EXCEPT !.step = "sweep"]
    /\ UNCHANGED <<source, catalog, targets, history, faults>>

-----------------------------------------------------------------------------
(* The promotion sweep: a window per year, oldest first, each page          *)
(* committed as it comes.                                                   *)

Listed(y) == {x \in Alive : tmdb[x].voted /\ YearOf[x] = y}

Sweep ==
    /\ run.step = "sweep"
    /\ IF run.years = {}
       THEN run' = Idle /\ UNCHANGED targets
       ELSE /\ targets' = targets \cup Listed(Oldest(run.years))
            /\ run' = [run EXCEPT !.years = @ \ {Oldest(@)}]
    /\ UNCHANGED <<source, catalog, mark, history, faults>>

\* The nightly slice of Seeding.
HydrateTarget(x) ==
    /\ x \in targets \ catalog /\ tmdb[x].alive
    /\ catalog' = catalog \cup {x}
    /\ UNCHANGED <<source, targets, mark, run, history, faults>>

\* An exception ends the lane, and in the sweep the run.  So does the end of the process.
Fail ==
    /\ run.step # "idle" /\ faults < MaxFaults /\ faults' = faults + 1
    /\ \/ run.step # "sweep" /\ run' = [run EXCEPT !.step = "sweep"]
       \/ run' = Idle
    /\ UNCHANGED <<source, local, history>>

Lane == \/ Start \/ Rebaseline \/ AlreadyProcessed \/ ReadDiff \/ Advance \/ Sweep
        \/ \E x \in Ids : Hydrate(x)

Next ==
    \/ Midnight \/ PublishExport \/ \E x \in Ids : Become(x)
    \/ Lane \/ Fail \/ \E x \in Ids : HydrateTarget(x)

Spec == Init /\ [][Next]_vars

\* The job and the nightly slices are scheduled for ever.
Fairness == WF_vars(Lane) /\ \A x \in Ids : WF_vars(HydrateTarget(x))

-----------------------------------------------------------------------------
ReleaseTypeOK ==
    /\ catalog \cup targets \cup settled \cup skipped \subseteq Ids
    /\ mark \in None .. LatestExport /\ run.day \in 0 .. LastDay

(***************************************************************************)
(* What the last processed export lists got its answer: it is known, it    *)
(* was refused, or it belongs to a stretch that was skipped and reported.  *)
(***************************************************************************)
ReleasesAreAccounted ==
    mark # None => exports[mark] \subseteq Known \cup settled \cup skipped

(***************************************************************************)
(* "it will cross the vote threshold and enter through lane 2": what the   *)
(* gate refused, or a skipped stretch held, is not lost for good.          *)
(***************************************************************************)
Promoted(x) == tmdb[x].alive /\ tmdb[x].voted /\ YearOf[x] \in Years
Entered(x) == x \in catalog \/ ~tmdb[x].alive
LateBloomersEnter == \A x \in Ids : Promoted(x) ~> Entered(x)
=============================================================================
