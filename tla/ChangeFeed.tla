----------------------------- MODULE ChangeFeed -----------------------------
(***************************************************************************)
(* How a range of days becomes requests to TMDB's /changes: the plan       *)
(* clips the range to what the source still keeps and cuts it into         *)
(* windows, and the walk halves a window that lists more changes than the  *)
(* source will page through.  A day is a natural number, None no day, and  *)
(* load[d] the number of entries the source lists for day d.               *)
(***************************************************************************)
EXTENDS Integers, Sequences, SequencesExt, FiniteSetsExt

None == -1

Later(a, b) == IF a > b THEN a ELSE b
Earlier(a, b) == IF a < b THEN a ELSE b

Window(first, last) == [start |-> first, end |-> last]
Days(w) == w.start .. w.end
Splittable(w) == w.end > w.start

\* The oldest day the source answers for, counting the day until itself.
Horizon(until, retention) == until - (retention - 1)

\* The last window reaches past the end.
NextWindowUnclipped(cursor, end, span) == Window(cursor, cursor + span - 1)

\* One turn of the loop of change_windows.
NextWindow(cursor, end, span) == Window(cursor, Earlier(cursor + span - 1, end))

\* The cursor moves on by one day too many.
ChangeWindowsWithHoles(start, end, span) ==
    LET from[cursor \in start .. end + span + 1] ==
            IF cursor > end
            THEN <<>>
            ELSE LET w == NextWindow(cursor, end, span) IN <<w>> \o from[w.end + 2]
    IN  from[start]

ChangeWindows(start, end, span) ==
    LET from[cursor \in start .. end + span] ==
            IF cursor > end
            THEN <<>>
            ELSE LET w == NextWindow(cursor, end, span) IN <<w>> \o from[w.end + 1]
    IN  from[start]

\* The day after the one covered, as if it had been covered to its end.
PlanStartAfter(since, until, retention) ==
    IF since = None THEN Horizon(until, retention)
                    ELSE Later(since + 1, Horizon(until, retention))

(***************************************************************************)
(* The first day to request and the days given up for lost.  A day that    *)
(* was covered is requested again, because the run that covered it may     *)
(* have seen only its morning.                                             *)
(***************************************************************************)
PlanStart(since, until, retention) ==
    IF since = None THEN Horizon(until, retention)
                    ELSE Later(since, Horizon(until, retention))

Uncovered(since, until, retention) ==
    IF since = None \/ since > until
    THEN {}
    ELSE since + 1 .. Horizon(until, retention) - 1

PlanWindows(since, until, span, retention) ==
    IF since # None /\ since > until
    THEN <<>>
    ELSE ChangeWindows(PlanStart(since, until, retention), until, span)

(***************************************************************************)
(* The walk of one window.  Pages hold a fixed number of entries, so over  *)
(* the page cap is over a cap on entries.                                  *)
(***************************************************************************)
LoadOf(w, load) == MapThenSumSet(LAMBDA d : load[d], Days(w))

Halves(w) ==
    LET mid == w.start + (w.end - w.start + 1) \div 2 - 1
    IN  <<Window(w.start, mid), Window(mid + 1, w.end)>>

\* A half over the cap is not halved again.
LeavesOfOneSplit(w, load, cap) ==
    IF LoadOf(w, load) > cap /\ Splittable(w) THEN Halves(w) ELSE <<w>>

\* The windows that are walked page by page, in the order of the walk.
Leaves(w, load, cap) ==
    LET walk[v \in [start : Days(w), end : Days(w)]] ==
            IF LoadOf(v, load) > cap /\ Splittable(v)
            THEN walk[Halves(v)[1]] \o walk[Halves(v)[2]]
            ELSE <<v>>
    IN  walk[w]

FirstTruncated(w, load, cap) ==
    LET vs == Leaves(w, load, cap)
        cut == {k \in DOMAIN vs : LoadOf(vs[k], load) > cap}
    IN  IF cut = {} THEN None ELSE vs[Min(cut)].start

\* The day that saturated counted as covered.
CoveredThroughSaturated(w, truncated) == IF truncated = None THEN w.end ELSE truncated

\* fetch_change_ids: how far into the window every page was seen.
CoveredThrough(w, truncated) ==
    CASE truncated = None    -> w.end
      [] truncated > w.start -> truncated - 1
      [] OTHER               -> None

(***************************************************************************)
(* What the callers rely on.                                               *)
(***************************************************************************)

\* ws covers first .. last in order, leaving out no day and repeating none.
Tiles(ws, first, last) ==
    IF ws = <<>>
    THEN first > last
    ELSE /\ Head(ws).start = first /\ Last(ws).end = last
         /\ \A k \in 1 .. Len(ws) : ws[k].start =< ws[k].end
         /\ \A k \in 1 .. Len(ws) - 1 : ws[k + 1].start = ws[k].end + 1

\* Every page of w was seen up to the end of day d (the day before w: of no day),
\* and the next day, if w has one, lists more than the source serves.
WholeThrough(w, load, cap, d) ==
    /\ d \in w.start - 1 .. w.end
    /\ \A e \in w.start .. d : load[e] =< cap
    /\ d < w.end => load[d + 1] > cap
=============================================================================
