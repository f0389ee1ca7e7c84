----------------------------- MODULE GameLanes -----------------------------
(***************************************************************************)
(* The incremental job of the games: the lane of new records, the lane of  *)
(* changed records, each with its watermark, and the promotion sweep, one  *)
(* after the other over a source that goes on changing.  A page is one     *)
(* request: between two pages anything may happen at IGDB.                 *)
(***************************************************************************)
EXTENDS Integers, FiniteSets

CONSTANTS Games,     \* ids, numbers from 1
          Catalogued,  \* those in the catalog to begin with
          PageSize, MaxItems, Lookback,
          LastTick,  \* bound on the clock (seconds of IGDB's stamps)
          MaxEvents, \* bound on what happens at IGDB
          MaxRuns    \* bound on the lanes started

VARIABLES now, igdb, events, catalog, targets, marks, walk, runs, unasked, refused, shifted, complete

source == <<now, igdb, events>>
history == <<unasked, refused, shifted, complete>>
vars == <<source, catalog, targets, marks, walk, runs, history>>

None == -1
Absent == [created |-> None, updated |-> None, allowed |-> FALSE, rated |-> FALSE]
AtRest == [lane |-> "none", step |-> "read", since |-> 0, offset |-> 0, seen |-> {}, moved |-> FALSE, whole |-> {}]

Published == {g \in Games : igdb[g] # Absent}
\* The catalog filter of the enumeration: IGDB_CATALOG_WHERE.
Eligible == {g \in Published : igdb[g].allowed /\ igdb[g].rated}

\* catalog: the stamp of the payload a row was written from, None without a row.
Init ==
    /\ now = 1 /\ events = 0
    /\ igdb = [g \in Games |-> IF g \in Catalogued
                               THEN [created |-> 0, updated |-> 0, allowed |-> TRUE, rated |-> TRUE]
                               ELSE Absent]
    /\ catalog = [g \in Games |-> IF g \in Catalogued THEN 0 ELSE None]
    /\ targets = {} /\ runs = 0 /\ walk = AtRest
    /\ marks = [lane \in {"created", "updated"} |-> None]
    /\ unasked = [lane \in {"created", "updated"} |-> {}]
    /\ refused = {} /\ shifted = {} /\ complete = TRUE

-----------------------------------------------------------------------------
(* What a lane asks for: where game_type = (...) & field > since;           *)
(* sort field asc.  A record is found by its place in that order.           *)

Stamp(g, lane) == IF lane = "created" THEN igdb[g].created ELSE igdb[g].updated
Listed(lane, since) == {g \in Published : igdb[g].allowed /\ Stamp(g, lane) > since}
Precedes(h, g, lane) ==
    Stamp(h, lane) < Stamp(g, lane) \/ (Stamp(h, lane) = Stamp(g, lane) /\ h < g)
Place(g, lane, since) == Cardinality({h \in Listed(lane, since) : Precedes(h, g, lane)})

\* The records that the pages read so far have gone past.
Passed == {g \in Listed(walk.lane, walk.since) : Place(g, walk.lane, walk.since) < walk.offset}

-----------------------------------------------------------------------------
(* IGDB.                                                                    *)

\* What joins the listing in a second that a page already reached may sort before that page's end.
Joins(lanes) ==
    unasked' = IF walk.lane \in lanes /\ \E r \in walk.seen : r.stamp = now
               THEN [unasked EXCEPT ![walk.lane] = @ \cup {now}] ELSE unasked

Tick == now < LastTick /\ now' = now + 1
        /\ UNCHANGED <<igdb, events, catalog, targets, marks, walk, runs, history>>

Publish(g) ==
    /\ igdb[g] = Absent
    /\ events < MaxEvents /\ events' = events + 1
    /\ \E allowed \in BOOLEAN :
          igdb' = [igdb EXCEPT ![g] = [created |-> now, updated |-> now, allowed |-> allowed,
                                       rated |-> FALSE]]
    /\ Joins({"created", "updated"})
    /\ UNCHANGED <<now, catalog, targets, marks, walk, runs, refused, shifted, complete>>

\* A record that the walk has gone past moves to the end of the listing: the rest moves up.
Touch(g) ==
    /\ g \in Published /\ igdb[g].updated < now
    /\ events < MaxEvents /\ events' = events + 1
    /\ igdb' = [igdb EXCEPT ![g].updated = now]
    /\ walk' = [walk EXCEPT !.moved = @ \/ (walk.lane = "updated" /\ g \in Passed)]
    /\ Joins({"updated"})
    /\ UNCHANGED <<now, catalog, targets, marks, runs, refused, shifted, complete>>

\* Somebody votes, or a moderator of IGDB removes the last vote.
Vote(g) ==
    /\ g \in Published
    /\ events < MaxEvents /\ events' = events + 1
    /\ igdb' = [igdb EXCEPT ![g].rated = ~@]
    /\ walk' = [walk EXCEPT !.whole = @ \ {g}]
    /\ UNCHANGED <<now, catalog, targets, marks, runs, history>>

-----------------------------------------------------------------------------
(* The lanes of the watermarks.                                             *)

\* Without a watermark only the lookback is asked for.
Since(lane) == IF marks[lane] = None THEN now - Lookback ELSE marks[lane]

Start(lane) ==
    /\ walk.lane = "none" /\ runs < MaxRuns /\ runs' = runs + 1
    /\ walk' = [AtRest EXCEPT !.lane = lane,
                              !.since = IF lane = "promotion" THEN 0 ELSE Since(lane),
                              !.whole = IF lane = "promotion" THEN Eligible ELSE {}]
    /\ UNCHANGED <<source, catalog, targets, marks, history>>

\* offset N, limit per_request.  A short page or the ceiling ends the walk.
FetchPage ==
    /\ walk.lane \in {"created", "updated"} /\ walk.step = "read"
    /\ LET limit == IF MaxItems - walk.offset < PageSize THEN MaxItems - walk.offset ELSE PageSize
           rows == Listed(walk.lane, walk.since)
           to == IF Cardinality(rows) < walk.offset + limit THEN Cardinality(rows) ELSE walk.offset + limit
           page == {g \in rows : Place(g, walk.lane, walk.since) \in walk.offset .. (to - 1)}
       IN  walk' = [walk EXCEPT !.seen = @ \cup {[id |-> g, stamp |-> Stamp(g, walk.lane),
                                                 updated |-> igdb[g].updated] : g \in page},
                                !.offset = to,
                                !.step = IF to < walk.offset + limit \/ to = MaxItems
                                         THEN "write" ELSE "read"]
    /\ UNCHANGED <<source, catalog, targets, marks, runs, history>>

InWrite(lane) == walk.lane = lane /\ walk.step = "write"
Seen == {r.id : r \in walk.seen}
\* Of a record read twice the last payload is the one written.
Payload(g) == LET copies == {r \in walk.seen : r.id = g}
              IN  (CHOOSE r \in copies : \A c \in copies : c.updated =< r.updated).updated

\* A row that the writer rejects is counted and the walk goes on.
WriteGames(known) ==
    /\ \E rejected \in SUBSET known :
          /\ catalog' = [g \in Games |-> IF g \in known \ rejected THEN Payload(g) ELSE catalog[g]]
          /\ refused' = (refused \ (known \ rejected)) \cup rejected
    /\ walk' = [walk EXCEPT !.step = "advance"]
    /\ UNCHANGED <<source, targets, marks, runs, unasked, shifted, complete>>

\* What is listed passed the allowlist, which the payload is checked against again.
WriteNew == InWrite("created") /\ WriteGames(Seen)

\* filter_catalogued_external_ids: an update is no reason to admit a game.
WriteUpdated ==
    InWrite("updated") /\ WriteGames({g \in Seen : catalog[g] # None})

\* The watermark is the time of the run.
NewestNow(rows, since) == now

Newest(rows, since) ==
    IF rows = {} THEN since
    ELSE (CHOOSE r \in rows : \A c \in rows : c.stamp =< r.stamp).stamp

Advance(lane) ==
    /\ walk.lane = lane /\ walk.step = "advance"
    /\ LET cursor == Newest(walk.seen, walk.since)
       IN  /\ marks' = [marks EXCEPT ![lane] = cursor]
           /\ unasked' = [unasked EXCEPT ![lane] = @ \cup {cursor}
                                                     \cup IF marks[lane] = None THEN 0 .. walk.since ELSE {}]
           /\ shifted' = IF lane = "updated" /\ walk.moved
                         THEN shifted \cup {g \in Published :
                                          /\ igdb[g].updated =< cursor
                                          /\ g \notin Seen \/ Payload(g) < igdb[g].updated}
                         ELSE shifted
    /\ walk' = AtRest
    /\ UNCHANGED <<source, catalog, targets, runs, refused, complete>>

-----------------------------------------------------------------------------
(* The promotion sweep and what hydrates its targets.                       *)

Least(S, n) == {g \in S : Cardinality({h \in S : h < g}) < n}

\* offset N instead, N the rows already listed.
CatalogPageByOffset(after) ==
    IF after = 0 THEN Least(Eligible, PageSize)
    ELSE Least(Eligible \ Least(Eligible, Cardinality(targets)), PageSize)

\* where ... & id > after; sort id asc.
CatalogPage(after) == Least({g \in Eligible : g > after}, PageSize)

\* One page, persisted and committed before the next; since is the id to go on after.
SweepPage ==
    /\ walk.lane = "promotion"
    /\ LET page == CatalogPage(walk.since)
       IN  /\ targets' = targets \cup page
           /\ walk' = IF Cardinality(page) < PageSize THEN AtRest
                      ELSE [walk EXCEPT !.since = CHOOSE g \in page : \A h \in page : h =< g]
           /\ complete' = (complete /\ (Cardinality(page) < PageSize => walk.whole \subseteq targets'))
    /\ UNCHANGED <<source, catalog, marks, runs, unasked, refused, shifted>>

\* The nightly slice writes the target from the payload of that moment.
Hydrate(g) ==
    /\ g \in targets /\ catalog[g] = None
    /\ catalog' = [catalog EXCEPT ![g] = igdb[g].updated]
    /\ UNCHANGED <<source, targets, marks, walk, runs, history>>

\* A page that still fails after its retries, or the end of the process: nothing is
\* recorded, and the next lane starts by itself.
Fail ==
    /\ walk.lane # "none" /\ walk' = AtRest
    /\ UNCHANGED <<source, catalog, targets, marks, runs, history>>

Next ==
    \/ Tick
    \/ \E g \in Games : Publish(g) \/ Touch(g) \/ Vote(g) \/ Hydrate(g)
    \/ \E lane \in {"created", "updated", "promotion"} : Start(lane)
    \/ FetchPage \/ WriteNew \/ WriteUpdated
    \/ \E lane \in {"created", "updated"} : Advance(lane)
    \/ SweepPage \/ Fail

Spec == Init /\ [][Next]_vars

-----------------------------------------------------------------------------
LanesTypeOK ==
    /\ catalog \in [Games -> None .. LastTick] /\ targets \subseteq Games
    /\ \A lane \in DOMAIN marks : marks[lane] \in None .. now
    /\ walk.offset =< MaxItems

(***************************************************************************)
(* The lane of new games misses none: one that IGDB created not after the  *)
(* watermark is in the catalog or its write was refused - or it is older   *)
(* than the first lookback, or it was created in a second that a page had  *)
(* already reached: at the end of a run "created_at > cursor" never asks   *)
(* for that second again, and within one the records of a second are not   *)
(* sorted by their creation.                                               *)
(***************************************************************************)
NewGamesAreAdmitted ==
    \A g \in Published :
       igdb[g].allowed /\ igdb[g].created \in 1 .. marks["created"] =>
          catalog[g] # None \/ g \in refused \/ igdb[g].created \in unasked["created"]

(***************************************************************************)
(* The lane of changed games: a row of the catalog is as new as the last   *)
(* change at or before the watermark, unless the write was refused, the    *)
(* change was made in a second that a page had already reached, or a game  *)
(* that the walk had gone past changed under it: that one moves to the end *)
(* of the listing, and all that follows moves up across the edge of a page.*)
(***************************************************************************)
Stale(g) == /\ catalog[g] # None /\ igdb[g].allowed
            /\ igdb[g].updated \in 1 .. marks["updated"] /\ catalog[g] < igdb[g].updated
CatalogFollowsUpdates ==
    \A g \in Games : Stale(g) =>
       g \in refused \cup shifted \/ igdb[g].updated \in unasked["updated"]

(***************************************************************************)
(* "games created during the walk land at the end instead of shifting the  *)
(* offsets of the pages already read": the same, of changes.               *)
(***************************************************************************)
WalkDoesNotShift ==
    \A g \in Games : Stale(g) => g \in refused \/ igdb[g].updated \in unasked["updated"]

(***************************************************************************)
(* A sweep that ended was whole: what passed the filter from its start to  *)
(* its end is among the targets, whatever joined or left meanwhile.        *)
(***************************************************************************)
SweepIsWhole == complete
=============================================================================
