----------------------------- MODULE ChangesLane -----------------------------
(***************************************************************************)
(* The changes lane of the incremental job, for movies or for series: it   *)
(* asks TMDB which entries changed since the day its watermark names,      *)
(* re-hydrates those the catalog holds, and moves the watermark to the     *)
(* last day it covered.  Meanwhile the source goes on changing, days pass, *)
(* the source forgets old days, the nightly rotation refreshes items of    *)
(* its own, and a run may fail at any request or die between two of its    *)
(* transactions.                                                           *)
(*                                                                         *)
(* A change is the pair of the day it was stamped and the entry.  stale    *)
(* holds the changes the catalog's copy of an entry does not reflect, late *)
(* those that came after the payload under way was fetched.  The history   *)
(* variables record what the code said or met: reported, the days it gave  *)
(* up; slipped, the days it neither asked for in time nor reported;        *)
(* refused, the changes whose rows the writer rejected; promised, the day  *)
(* coverage starts at.                                                     *)
(***************************************************************************)
EXTENDS ChangeFeed, FiniteSets

CONSTANTS Ids,          \* entries of the source
          Runs,         \* runs of the job that may overlap
          Span,         \* days one request may ask for
          Retention,    \* days the source keeps
          Cap,          \* entries the source pages through in one request
          Overnight,    \* whether a run may be under way at midnight
          LastDay,      \* bound on the calendar
          MaxChanges,   \* bound on the changes of the source
          MaxFaults     \* bound on the failed requests and the crashes

\* Runs overlap within one day only.
Sequential == Overnight => \A r, s \in Runs : r = s

ASSUME ChangesLaneAssumption ==
    /\ IsFiniteSet(Ids)
    /\ Span \in Nat \ {0} /\ Retention \in Nat \ {0} /\ Cap \in Nat \ {0}
    /\ Overnight \in BOOLEAN /\ MaxChanges \in Nat /\ MaxFaults \in Nat
    /\ LastDay \in Nat /\ LastDay >= Retention - 1
    /\ Sequential

VARIABLES
    today, feed, changes,               \* TMDB: its clock and what it lists
    catalog, stale,                     \* the items, and what their copies lack
    watermark,                          \* sync_watermarks, kind changes
    pc, run,                            \* the runs: next step and locals
    faults,                             \* bound
    reported, slipped, refused, promised \* history

source == <<today, feed, changes>>
items == <<catalog, stale>>
lane == <<pc, run, faults>>
history == <<reported, slipped, refused, promised>>
vars == <<source, items, watermark, lane, history>>

Calendar == 0 .. LastDay
Changes == Calendar \X Ids

Of(pairs, ids) == {p \in pairs : p[2] \in ids}
On(pairs, days) == {p \in pairs : p[1] \in days}
IdsOf(pairs) == {p[2] : p \in pairs}

\* until: the day the job started.  next: the first day not requested yet.  refresh: the
\* changed items of this window still to fetch.  held: the payloads fetched, not written.
Blank == [until |-> 0, next |-> 0, through |-> None, refresh |-> {}, held |-> {}, late |-> {},
          failed |-> FALSE]

Init ==
    /\ today = Retention - 1 /\ feed = {} /\ changes = 0
    /\ catalog \in SUBSET Ids /\ stale = {}
    /\ watermark = None
    /\ pc = [r \in Runs |-> "idle"] /\ run = [r \in Runs |-> Blank] /\ faults = 0
    /\ reported = {} /\ slipped = {} /\ refused = {} /\ promised = None

-----------------------------------------------------------------------------
(* The source, the nightly job and the other lanes.                         *)

\* A day passes and the source forgets the oldest one it kept.
Tick ==
    /\ today < LastDay /\ (Overnight \/ \A r \in Runs : pc[r] = "idle")
    /\ today' = today + 1
    /\ feed' = On(feed, Horizon(today', Retention) .. today')
    /\ UNCHANGED <<changes, items, watermark, lane, history>>

Missed(i, l) == IF i \in l.held THEN [l EXCEPT !.late = @ \cup {<<today, i>>}] ELSE l

Change(i) ==
    /\ changes < MaxChanges
    /\ changes' = changes + 1
    /\ feed' = feed \cup {<<today, i>>}
    /\ stale' = IF i \in catalog THEN stale \cup {<<today, i>>} ELSE stale
    /\ run' = [r \in Runs |-> Missed(i, run[r])]
    /\ UNCHANGED <<today, catalog, watermark, pc, faults, history>>

\* Another lane, or the nightly job, writes an item with what the source holds now.
WriteElsewhere(i) ==
    /\ catalog' = catalog \cup {i}
    /\ stale' = stale \ Of(stale, {i})
    /\ UNCHANGED <<source, watermark, lane, history>>

-----------------------------------------------------------------------------
(* The lane.                                                                *)

Goto(r, step, l) == pc' = [pc EXCEPT ![r] = step] /\ run' = [run EXCEPT ![r] = l]
Stop(r) == Goto(r, "idle", Blank)
Fault == faults < MaxFaults /\ faults' = faults + 1

\* _sync_tmdb_incremental reads the clock, then runs two other lanes first.
Start(r) ==
    /\ pc[r] = "idle"
    /\ Goto(r, "plan", [Blank EXCEPT !.until = today])
    /\ UNCHANGED <<source, items, watermark, faults, history>>

Plan(r) ==
    /\ pc[r] = "plan"
    /\ LET l == run[r]
           start == PlanStart(watermark, l.until, Retention)
       IN  /\ IF watermark > l.until THEN Stop(r) ELSE Goto(r, "feed", [l EXCEPT !.next = start])
           /\ slipped' = slipped \cup {e \in {watermark} \ {None} : e < Horizon(l.until, Retention)}
           /\ promised' = IF watermark = None THEN start ELSE promised
           /\ reported' = reported \cup Uncovered(watermark, l.until, Retention)
    /\ UNCHANGED <<source, items, watermark, faults, refused>>

WindowOf(l) == NextWindow(l.next, l.until, Span)
Listed(d) == On(feed, {d})
Load(w) == [e \in Days(w) |-> Cardinality(Listed(e))]

\* What the source serves of a window: of a saturated day only Cap entries.
Serves(w, served) ==
    \A e \in Days(w) :
       \/ On(served, {e}) = Listed(e)
       \/ Cardinality(Listed(e)) > Cap /\ Cardinality(On(served, {e})) = Cap

\* A window whose first day saturated moves the watermark to the day before it.
FetchFeedRegressing(r) ==
    /\ pc[r] = "feed"
    /\ LET w == WindowOf(run[r])
       IN  /\ \E served \in SUBSET On(feed, Days(w)), d \in w.start - 1 .. w.end :
                 /\ Serves(w, served) /\ WholeThrough(w, Load(w), Cap, d)
                 /\ Goto(r, "detail", [run[r] EXCEPT !.through = d,
                                                     !.refresh = IdsOf(served) \cap catalog])
           /\ slipped' = slipped \cup {e \in Days(w) : e < Horizon(today, Retention)}
    /\ UNCHANGED <<source, items, watermark, faults, reported, refused, promised>>

\* fetch_change_ids, then which of the ids the catalog holds.
FetchFeed(r) ==
    /\ pc[r] = "feed"
    /\ LET w == WindowOf(run[r])
       IN  /\ \E served \in SUBSET On(feed, Days(w)), d \in w.start - 1 .. w.end :
                 /\ Serves(w, served) /\ WholeThrough(w, Load(w), Cap, d)
                 /\ Goto(r, "detail", [run[r] EXCEPT !.through = IF d < w.start THEN None ELSE d,
                                                     !.refresh = IdsOf(served) \cap catalog])
           /\ slipped' = slipped \cup {e \in Days(w) : e < Horizon(today, Retention)}
    /\ UNCHANGED <<source, items, watermark, faults, reported, refused, promised>>

\* The window could not be fetched: the lane stops here.
FeedFails(r) ==
    /\ pc[r] = "feed" /\ Stop(r) /\ Fault
    /\ UNCHANGED <<source, items, watermark, history>>

\* _hydrate_ids: one gather over the changed items.  Some requests fail, and of some
\* items the source answers that they are gone: there is nothing left to reflect.
FetchDetails(r) ==
    /\ pc[r] = "detail"
    /\ \E failing \in SUBSET run[r].refresh : \E gone \in SUBSET (run[r].refresh \ failing) :
        /\ Goto(r, "write", [run[r] EXCEPT !.held = run[r].refresh \ (failing \cup gone),
                                           !.refresh = {}, !.failed = failing # {}])
        /\ stale' = stale \ Of(stale, gone)
        /\ IF failing = {} THEN UNCHANGED faults ELSE Fault
    /\ UNCHANGED <<source, catalog, watermark, history>>

\* The rows it rejects stay as they are; the rows it writes are those of the payloads.
Flush(l) ==
    \E rejected \in SUBSET l.held :
        LET written == l.held \ rejected
        IN  /\ stale' = (stale \ Of(stale, written)) \cup Of(l.late, written)
            /\ refused' = refused \cup Of(stale, rejected)

\* The watermark moves although requests of the window failed.
WriteDetailsCoveringFailures(r) ==
    /\ pc[r] = "write" /\ Flush(run[r])
    /\ IF run[r].through = None
       THEN Stop(r)
       ELSE Goto(r, "save", [run[r] EXCEPT !.held = {}, !.late = {}])
    /\ UNCHANGED <<source, catalog, watermark, faults, reported, slipped, promised>>

\* BatchWriter.flush.  A window of which a request failed, or of which not even one day
\* was seen whole, ends the lane; rows that the writer rejects do not.
WriteDetails(r) ==
    /\ pc[r] = "write" /\ Flush(run[r])
    /\ IF run[r].failed \/ run[r].through = None
       THEN Stop(r)
       ELSE Goto(r, "save", [run[r] EXCEPT !.held = {}, !.late = {}])
    /\ UNCHANGED <<source, catalog, watermark, faults, reported, slipped, promised>>

\* _advance_watermark, in a transaction of its own, then the next window.
Save(r) ==
    /\ pc[r] = "save"
    /\ watermark' = run[r].through
    /\ LET w == WindowOf(run[r])
       IN  IF run[r].through < w.end \/ w.end = run[r].until
           THEN Stop(r)
           ELSE Goto(r, "feed", [run[r] EXCEPT !.next = w.end + 1])
    /\ UNCHANGED <<source, items, faults, history>>

\* The job is killed, or a query fails and the lane ends with an exception.
Crash(r) ==
    /\ pc[r] # "idle" /\ Stop(r) /\ Fault
    /\ UNCHANGED <<source, items, watermark, history>>

Step(r) == Plan(r) \/ FetchFeed(r) \/ FetchDetails(r) \/ WriteDetails(r) \/ Save(r)

Next ==
    \/ Tick
    \/ \E i \in Ids : Change(i) \/ WriteElsewhere(i)
    \/ \E r \in Runs : Start(r) \/ Step(r) \/ FeedFails(r) \/ Crash(r)

Spec == Init /\ [][Next]_vars

(***************************************************************************)
(* The workflow starts the job every day, and a started run goes on.       *)
(***************************************************************************)
FairSpec == Spec /\ WF_vars(Tick) /\ \A r \in Runs : WF_vars(Start(r)) /\ WF_vars(Step(r))

-----------------------------------------------------------------------------
TypeOK ==
    /\ today \in Calendar /\ feed \subseteq Changes /\ changes \in 0 .. MaxChanges
    /\ catalog \subseteq Ids /\ stale \subseteq Changes
    /\ watermark \in {None} \cup Calendar
    /\ pc \in [Runs -> {"idle", "plan", "feed", "detail", "write", "save"}]
    /\ run \in [Runs -> [until : Calendar, next : Calendar, through : {None} \cup Calendar,
                         refresh : SUBSET Ids, held : SUBSET Ids, late : SUBSET Changes,
                         failed : BOOLEAN]]
    /\ faults \in 0 .. MaxFaults
    /\ reported \subseteq Calendar /\ slipped \subseteq Calendar
    /\ refused \subseteq Changes /\ promised \in {None} \cup Calendar

\* A change that the lane has left behind: it is on a day that coverage was promised for
\* and that no later run asks for.
LeftBehind == {p \in stale : promised # None /\ watermark # None /\ p[1] \in promised .. watermark - 1}

(***************************************************************************)
(* docs/schema.md: the watermark moved means that range was covered.  A    *)
(* change of an item the catalog holds is never left behind, unless its    *)
(* day was reported as uncovered or the writer refused the row.            *)
(***************************************************************************)
MovedMeansCovered == \A p \in LeftBehind : p[1] \in reported \/ p \in refused

(***************************************************************************)
(* What the lane leaves behind is reported, refused, on a watermark day    *)
(* that fell out of the source's memory before it was asked again, or on a *)
(* day that fell out of it while the run was under way: nothing is lost to *)
(* failed requests, saturated days, crashes, or changes that arrive while  *)
(* the payload of the same item is being written.                          *)
(***************************************************************************)
EveryLossIsAccounted ==
    \A p \in LeftBehind : p[1] \in reported \cup slipped \/ p \in refused

(***************************************************************************)
(* No run takes back coverage that an earlier one recorded.                *)
(***************************************************************************)
WatermarkOnlyAdvances == [][watermark' >= watermark]_watermark

Saturated(d) == Cardinality(Listed(d)) > Cap
GivenUp(p) == \/ p \in refused \/ Saturated(p[1])
              \/ p[1] \in reported \cup slipped
              \/ promised # None /\ p[1] < promised

(***************************************************************************)
(* A change of an item the catalog holds is refreshed in the end, unless   *)
(* its row is refused or its day was given up or lists more than the       *)
(* source serves.                                                          *)
(***************************************************************************)
ChangesGetThrough == \A p \in Changes : p \in stale ~> p \notin stale \/ GivenUp(p)
=============================================================================
