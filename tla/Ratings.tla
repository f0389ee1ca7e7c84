------------------------------- MODULE Ratings -------------------------------
(***************************************************************************)
(* Ratings, review moderation, bans and account erasure of backlogg, as    *)
(* concurrent HTTP requests.  Each request is one PostgreSQL transaction   *)
(* at READ COMMITTED and each action below is one of its SQL statements,   *)
(* so that requests interleave where the code awaits the database.         *)
(*                                                                         *)
(* A row has a committed version and a newest one (the W variables), which *)
(* differ only while a transaction holds its row lock.  A statement reads  *)
(* the committed rows and its own transaction's newest ones.  A request of *)
(* one user may run more than once at a time (two tabs, a double click).   *)
(***************************************************************************)
EXTENDS RatingAggregates, Sequences

CONSTANTS Users, Items, Scores,
          Txns,             \* one element per request that may arrive
          NoTxn,            \* the holder of a free row lock
          NoRating,         \* there is no user_ratings row
          NoRequest,        \* the payload of a request that has not arrived
          Menu,             \* the requests clients may send
          InitialRatings,   \* the reviews the system may start with
          InitialId         \* the user_ratings id sequence at the start

Keys == Users \X Items

\* A user_ratings row together with its rating_created event, which
\* uq_activity_events_rating_id and ON DELETE CASCADE tie to the row.
Rows == [id : Nat, score : Scores \cup {NoScore}, text : BOOLEAN,
         hidden : BOOLEAN, event : BOOLEAN]

Accounts == {"active", "banned", "gone"}

Ballots == [Users -> Scores \cup {NoScore}]

Aggregates == [avg : {SingleAggregate(b).avg : b \in Ballots} \cup
                     {BatchAggregate(b).avg : b \in Ballots} \cup {NoMean},
               count : {ScoreCount(b) : b \in Ballots} \cup {0}]

Requests ==
    [kind : {"rate"}, user : Users, item : Items, score : Scores \cup {NoScore}, text : BOOLEAN]
    \cup [kind : {"unrate"}, user : Users, item : Items]
    \cup [kind : {"hide"}, user : Users, item : Items, flag : BOOLEAN]
    \cup [kind : {"ban"}, user : Users, flag : BOOLEAN]
    \cup [kind : {"erase"}, user : Users]

HasContent(row) == row.score # NoScore \/ row.text

ASSUME RatingsAssumption ==
    /\ Scores \subseteq Nat \ {NoScore}
    /\ NoTxn \notin Txns
    /\ NoRating \notin Rows
    /\ NoRating \notin [score : Scores \cup {NoScore}, text : BOOLEAN, hidden : BOOLEAN]
    /\ Menu \subseteq Requests
    /\ NoRequest \notin Requests
    /\ InitialId \in Nat
    /\ InitialRatings \subseteq [Keys -> Rows \cup {NoRating}]
    /\ \A table \in InitialRatings, k \in Keys :
          table[k] # NoRating => /\ table[k].id \in 1 .. InitialId
                                 /\ table[k].event <=> HasContent(table[k])

VARIABLES
    account, rating, agg,               \* committed rows of users, user_ratings, items
    accountW, ratingW, aggW,            \* newest versions
    userLock, ratingLock, itemLock,     \* who holds each row
    lastId,                             \* the user_ratings id sequence
    audit,                              \* admin_actions, in commit order
    pc, req, mem,                       \* each request: next statement, payload, locals
    solo                                \* no overlapping request may meet it (history)

users == <<account, accountW, userLock>>
ratings == <<rating, ratingW, ratingLock>>
items == <<agg, aggW, itemLock>>
vars == <<users, ratings, items, lastId, audit, pc, req, mem, solo>>

\* A request's Python locals: the id of the rating it loaded, the moderation flag
\* it loaded, the aggregates of the item it loaded and those it computed, the
\* items it captured and those still to reset, and whether it holds KEY SHARE on
\* its user row through a foreign key.
Memory == [row : Nat, flag : BOOLEAN, seen : Aggregates, calc : Aggregates,
           captured : SUBSET Items, todo : SUBSET Items, share : BOOLEAN]

Blank == [row |-> 0, flag |-> FALSE, seen |-> NoRatings, calc |-> NoRatings,
          captured |-> {}, todo |-> {}, share |-> FALSE]

Statements == {"load", "find", "write", "capture", "cascade", "select", "update",
               "event", "reset", "aggregate", "commit"}

Active(t) == pc[t] \in Statements

\* Two requests that may recompute the same item; bans and erasures may reach any.
MayMeet(r, s) == {"item"} \subseteq DOMAIN r \cap DOMAIN s => r.item = s.item

Key(t) == <<req[t].user, req[t].item>>

-----------------------------------------------------------------------------
\* visible_review_filters and the aggregate SELECT, over given versions of the rows.
Ballot(accounts, table, i) ==
    [u \in Users |->
        IF /\ accounts[u] = "active"
           /\ table[<<u, i>>] # NoRating
           /\ ~table[<<u, i>>].hidden
        THEN table[<<u, i>>].score ELSE NoScore]

\* The rows of t take the values of source, the others keep those of base.
AccountsAfter(t, base, source) ==
    [u \in Users |-> IF userLock[u] = t THEN source[u] ELSE base[u]]
RatingsAfter(t, base, source) ==
    [k \in Keys |-> IF ratingLock[k] = t THEN source[k] ELSE base[k]]
ItemsAfter(t, base, source) ==
    [i \in Items |-> IF itemLock[i] = t THEN source[i] ELSE base[i]]

\* What a statement of t reads: committed rows, and its own newest versions.
BallotSeen(t, i) ==
    Ballot(AccountsAfter(t, account, accountW), RatingsAfter(t, rating, ratingW), i)

\* The row t loaded is still there (rows are addressed by id once loaded).
StillThere(t) == rating[Key(t)] # NoRating /\ rating[Key(t)].id = mem[t].row

\* The moderation flag t loaded differs from the one it is asked to set.
SetsFlag(t) == mem[t].flag # req[t].flag

InsertsEvent(t) == HasContent(ratingW[Key(t)]) /\ ~ratingW[Key(t)].event

\* Whom t waits for before its next statement can run.
Holder(lock) == {lock} \ {NoTxn}
Eraser(u) == {s \in Holder(userLock[u]) : req[s].kind = "erase"}
KeySharers(u) == {s \in Txns : mem[s].share /\ req[s].user = u}

Blockers(t) ==
    CASE pc[t] = "write" /\ req[t].kind = "rate" ->
            Holder(ratingLock[Key(t)]) \cup
            (IF rating[Key(t)] = NoRating THEN Eraser(req[t].user) ELSE {})
      [] pc[t] = "write" /\ req[t].kind = "unrate" ->
            IF StillThere(t) THEN Holder(ratingLock[Key(t)]) ELSE {}
      [] pc[t] = "write" /\ req[t].kind = "hide" ->
            IF SetsFlag(t) /\ StillThere(t) THEN Holder(ratingLock[Key(t)]) ELSE {}
      [] pc[t] = "write" /\ req[t].kind = "ban" ->
            IF SetsFlag(t) THEN Holder(userLock[req[t].user]) ELSE {}
      [] pc[t] = "write" /\ req[t].kind = "erase" ->
            Holder(userLock[req[t].user]) \cup KeySharers(req[t].user)
      [] pc[t] = "cascade" ->
            UNION {Holder(ratingLock[<<req[t].user, i>>]) : i \in Items}
      [] pc[t] = "update" ->
            IF mem[t].calc = mem[t].seen THEN {} ELSE Holder(itemLock[req[t].item])
      [] pc[t] = "event" -> IF InsertsEvent(t) THEN Eraser(req[t].user) ELSE {}
      [] pc[t] = "reset" ->
            IF \E i \in mem[t].todo : itemLock[i] = NoTxn THEN {}
            ELSE {itemLock[i] : i \in mem[t].todo}
      [] OTHER -> {}

Goto(t, label) == pc' = [pc EXCEPT ![t] = label]

\* A transaction ends: its row locks and its memory are gone.
Release(t) ==
    /\ userLock' = [u \in Users |-> IF userLock[u] = t THEN NoTxn ELSE userLock[u]]
    /\ ratingLock' = [k \in Keys |-> IF ratingLock[k] = t THEN NoTxn ELSE ratingLock[k]]
    /\ itemLock' = [i \in Items |-> IF itemLock[i] = t THEN NoTxn ELSE itemLock[i]]
    /\ mem' = [mem EXCEPT ![t] = Blank]

-----------------------------------------------------------------------------
Init ==
    /\ account \in [Users -> {"active", "banned"}]
    /\ rating \in InitialRatings
    /\ agg = [i \in Items |-> SingleAggregate(Ballot(account, rating, i))]
    /\ accountW = account /\ ratingW = rating /\ aggW = agg
    /\ userLock = [u \in Users |-> NoTxn]
    /\ ratingLock = [k \in Keys |-> NoTxn]
    /\ itemLock = [i \in Items |-> NoTxn]
    /\ lastId = InitialId
    /\ audit = <<>>
    /\ pc = [t \in Txns |-> "idle"]
    /\ req = [t \in Txns |-> NoRequest]
    /\ mem = [t \in Txns |-> Blank]
    /\ solo = [t \in Txns |-> TRUE]

(***************************************************************************)
(* A request arrives and runs its first SELECT: the bearer token's user    *)
(* (get_current_user: 401 when gone or banned), or for the moderation      *)
(* routes the review or the user they act on (404 when missing).  A        *)
(* request refused there has done nothing and is not modelled further.     *)
(***************************************************************************)
Begin(t) ==
    \E r \in Menu :
        /\ pc[t] = "idle"
        /\ r.kind \in {"rate", "unrate", "erase"} => account[r.user] = "active"
        /\ r.kind = "ban" => account[r.user] # "gone"
        /\ r.kind = "hide" => rating[<<r.user, r.item>>] # NoRating
        /\ req' = [req EXCEPT ![t] = r]
        /\ mem' = CASE r.kind = "hide" ->
                         [mem EXCEPT ![t].row = rating[<<r.user, r.item>>].id,
                                     ![t].flag = rating[<<r.user, r.item>>].hidden]
                    [] r.kind = "ban" -> [mem EXCEPT ![t].flag = (account[r.user] = "banned")]
                    [] OTHER -> mem
        /\ Goto(t, CASE r.kind \in {"rate", "unrate"} -> "load"
                     [] r.kind = "hide" -> "write"
                     [] OTHER -> "capture")
        /\ solo' = [s \in Txns |->
                      IF s = t THEN \A x \in Txns : Active(x) => ~MayMeet(req[x], r)
                      ELSE solo[s] /\ ~(Active(s) /\ MayMeet(req[s], r))]
        /\ UNCHANGED <<users, ratings, items, lastId, audit>>

\* SELECT of the catalog item; the session keeps this copy for the whole request.
\* set_review_hidden reaches it only through db.get, after the aggregate SELECT.
LoadItem(t) ==
    /\ pc[t] = "load"
    /\ mem' = [mem EXCEPT ![t].seen = agg[req[t].item]]
    /\ Goto(t, CASE req[t].kind = "rate" -> "write"
                 [] req[t].kind = "unrate" -> "find"
                 [] OTHER -> "update")
    /\ UNCHANGED <<users, ratings, items, lastId, audit, req, solo>>

\* delete_item_rating's get_rating: 404 when the caller has none.
FindOwnRating(t) ==
    /\ pc[t] = "find"
    /\ IF rating[Key(t)] = NoRating
       THEN Goto(t, "failed") /\ UNCHANGED mem
       ELSE Goto(t, "write") /\ mem' = [mem EXCEPT ![t].row = rating[Key(t)].id]
    /\ UNCHANGED <<users, ratings, items, lastId, audit, req, solo>>

\* get_distinct_rated_items_for_user.
CaptureItems(t) ==
    /\ pc[t] = "capture"
    /\ LET rated == {i \in Items : rating[<<req[t].user, i>>] # NoRating}
       IN  mem' = [mem EXCEPT ![t].captured = rated, ![t].todo = rated]
    /\ Goto(t, "write")
    /\ UNCHANGED <<users, ratings, items, lastId, audit, req, solo>>

-----------------------------------------------------------------------------
(***************************************************************************)
(* Six plausible bugs, which no specification uses: each mutated form      *)
(* replaces the definition named before the dash to show that a property   *)
(* really depends on what the code does there.                             *)
(***************************************************************************)
\* Abort - the session is not closed on an error, so its row locks stay.
AbortKeepingLocks(t) ==
    /\ accountW' = AccountsAfter(t, accountW, account)
    /\ ratingW' = RatingsAfter(t, ratingW, rating)
    /\ aggW' = ItemsAfter(t, aggW, agg)
    /\ mem' = [mem EXCEPT ![t] = Blank]
    /\ UNCHANGED <<account, rating, agg, lastId, audit, req, solo,
                   userLock, ratingLock, itemLock>>
    /\ Goto(t, "failed")

\* UpsertRating - the inserted row references no user (no foreign key, no cascade).
UpsertUnreferenced(t) ==
    LET old == rating[Key(t)]
        new == [id |-> lastId + 1, score |-> req[t].score, text |-> req[t].text,
                hidden |-> FALSE, event |-> FALSE]
    IN  /\ pc[t] = "write" /\ req[t].kind = "rate" /\ ratingLock[Key(t)] = NoTxn
        /\ lastId' = IF old = NoRating THEN lastId + 1 ELSE lastId
        /\ ratingW' = [ratingW EXCEPT ![Key(t)] =
              IF old = NoRating THEN new
              ELSE [old EXCEPT !.score = req[t].score, !.text = req[t].text]]
        /\ ratingLock' = [ratingLock EXCEPT ![Key(t)] = t]
        /\ Goto(t, "select")
        /\ UNCHANGED <<users, items, rating, audit, req, mem, solo>>

\* DeleteRating - the DELETE names the user and forgets the item.
DeleteRatingsOfUser(t) ==
    LET own == {k \in Keys : k[1] = req[t].user /\ rating[k] # NoRating}
    IN  /\ pc[t] = "write" /\ req[t].kind = "unrate"
        /\ \A k \in own : ratingLock[k] = NoTxn
        /\ ratingW' = [k \in Keys |-> IF k \in own THEN NoRating ELSE ratingW[k]]
        /\ ratingLock' = [k \in Keys |-> IF k \in own THEN t ELSE ratingLock[k]]
        /\ Goto(t, "select")
        /\ UNCHANGED <<users, items, rating, lastId, audit, req, mem, solo>>

\* UpdateItem - counts one rating more instead of storing what was recomputed.
UpdateItemCounting(t) ==
    LET i == req[t].item
    IN  /\ pc[t] = "update" /\ Blockers(t) = {}
        /\ aggW' = [aggW EXCEPT ![i] = [avg |-> mem[t].calc.avg, count |-> agg[i].count + 1]]
        /\ itemLock' = [itemLock EXCEPT ![i] = t]
        /\ Goto(t, IF req[t].kind = "rate" THEN "event" ELSE "commit")
        /\ UNCHANGED <<users, ratings, agg, lastId, audit, req, mem, solo>>

\* WriteEvent - never deletes the event of a review that was cleared.
WriteEventOnlyCreating(t) ==
    /\ pc[t] = "event" /\ Blockers(t) = {}
    /\ ratingW' = [ratingW EXCEPT ![Key(t)].event = @ \/ HasContent(ratingW[Key(t)])]
    /\ mem' = [mem EXCEPT ![t].share = mem[t].share \/ InsertsEvent(t)]
    /\ Goto(t, "commit")
    /\ UNCHANGED <<users, rating, ratingLock, items, lastId, audit, req, solo>>

\* ResetItem - the first UPDATE is missing, so an item without a group keeps its mean.
LockWithoutReset(t) ==
    \E i \in mem[t].todo :
        /\ pc[t] = "reset" /\ itemLock[i] = NoTxn
        /\ itemLock' = [itemLock EXCEPT ![i] = t]
        /\ mem' = [mem EXCEPT ![t].todo = @ \ {i}]
        /\ Goto(t, IF mem[t].todo = {i} THEN "aggregate" ELSE "reset")
        /\ UNCHANGED <<users, ratings, agg, aggW, lastId, audit, req, solo>>

-----------------------------------------------------------------------------
\* ROLLBACK: the newest versions of t's rows fall back to the committed ones.
Abort(t) ==
    /\ accountW' = AccountsAfter(t, accountW, account)
    /\ ratingW' = RatingsAfter(t, ratingW, rating)
    /\ aggW' = ItemsAfter(t, aggW, agg)
    /\ UNCHANGED <<account, rating, agg, lastId, audit, req, solo>>
    /\ Release(t)
    /\ Goto(t, "failed")

\* upsert_rating: INSERT ... ON CONFLICT (user, item) DO UPDATE of score and text.
\* The insert's foreign key needs KEY SHARE on the user row, and fails without one.
UpsertRating(t) ==
    /\ pc[t] = "write" /\ req[t].kind = "rate" /\ Blockers(t) = {}
    /\ IF rating[Key(t)] # NoRating
       THEN /\ ratingW' = [ratingW EXCEPT ![Key(t)].score = req[t].score,
                                          ![Key(t)].text = req[t].text]
            /\ ratingLock' = [ratingLock EXCEPT ![Key(t)] = t]
            /\ Goto(t, "select")
            /\ UNCHANGED <<users, items, rating, lastId, audit, req, mem, solo>>
       ELSE IF account[req[t].user] = "gone"
       THEN Abort(t)
       ELSE /\ lastId' = lastId + 1
            /\ ratingW' = [ratingW EXCEPT ![Key(t)] =
                              [id |-> lastId + 1, score |-> req[t].score, text |-> req[t].text,
                               hidden |-> FALSE, event |-> FALSE]]
            /\ ratingLock' = [ratingLock EXCEPT ![Key(t)] = t]
            /\ mem' = [mem EXCEPT ![t].share = TRUE]
            /\ Goto(t, "select")
            /\ UNCHANGED <<users, items, rating, audit, req, solo>>

\* delete_rating: DELETE WHERE id = ...; a row that has vanished only logs a warning.
DeleteRating(t) ==
    /\ pc[t] = "write" /\ req[t].kind = "unrate" /\ Blockers(t) = {}
    /\ IF StillThere(t)
       THEN /\ ratingW' = [ratingW EXCEPT ![Key(t)] = NoRating]
            /\ ratingLock' = [ratingLock EXCEPT ![Key(t)] = t]
       ELSE UNCHANGED <<ratingW, ratingLock>>
    /\ Goto(t, "select")
    /\ UNCHANGED <<users, items, rating, lastId, audit, req, mem, solo>>

\* set_rating_hidden: no UPDATE when the loaded flag has the value already; a row
\* that has vanished makes the UPDATE miss (StaleDataError).
WriteHidden(t) ==
    /\ pc[t] = "write" /\ req[t].kind = "hide" /\ Blockers(t) = {}
    /\ IF ~SetsFlag(t)
       THEN /\ Goto(t, "select")
            /\ UNCHANGED <<users, ratings, items, lastId, audit, req, mem, solo>>
       ELSE IF ~StillThere(t)
       THEN Abort(t)
       ELSE /\ ratingW' = [ratingW EXCEPT ![Key(t)].hidden = req[t].flag]
            /\ ratingLock' = [ratingLock EXCEPT ![Key(t)] = t]
            /\ Goto(t, "select")
            /\ UNCHANGED <<users, items, rating, lastId, audit, req, mem, solo>>

\* The batch recompute starts, unless there is nothing to recompute.
AfterWrite(t) == IF mem[t].captured = {} THEN "commit" ELSE "reset"

\* users.repository.set_user_banned: as WriteHidden, on the users row.
WriteBanned(t) ==
    /\ pc[t] = "write" /\ req[t].kind = "ban" /\ Blockers(t) = {}
    /\ IF ~SetsFlag(t)
       THEN /\ Goto(t, AfterWrite(t))
            /\ UNCHANGED <<users, ratings, items, lastId, audit, req, mem, solo>>
       ELSE IF account[req[t].user] = "gone"
       THEN Abort(t)
       ELSE /\ accountW' = [accountW EXCEPT ![req[t].user] =
                               IF req[t].flag THEN "banned" ELSE "active"]
            /\ userLock' = [userLock EXCEPT ![req[t].user] = t]
            /\ Goto(t, AfterWrite(t))
            /\ UNCHANGED <<ratings, items, account, lastId, audit, req, mem, solo>>

\* delete_user: the DELETE takes the user row (it waits for KEY SHARE holders) ...
DeleteUser(t) ==
    /\ pc[t] = "write" /\ req[t].kind = "erase" /\ Blockers(t) = {}
    /\ IF account[req[t].user] # "gone"
       THEN /\ accountW' = [accountW EXCEPT ![req[t].user] = "gone"]
            /\ userLock' = [userLock EXCEPT ![req[t].user] = t]
            /\ Goto(t, "cascade")
       ELSE /\ Goto(t, AfterWrite(t))
            /\ UNCHANGED <<accountW, userLock>>
    /\ UNCHANGED <<ratings, items, account, lastId, audit, req, mem, solo>>

\* ... and ON DELETE CASCADE then takes every review of this user with its event.
CascadeRatings(t) ==
    LET doomed == {k \in Keys : k[1] = req[t].user /\ rating[k] # NoRating}
    IN  /\ pc[t] = "cascade" /\ Blockers(t) = {}
        /\ ratingW' = [k \in Keys |-> IF k \in doomed THEN NoRating ELSE ratingW[k]]
        /\ ratingLock' = [k \in Keys |-> IF k \in doomed THEN t ELSE ratingLock[k]]
        /\ Goto(t, AfterWrite(t))
        /\ UNCHANGED <<users, items, rating, lastId, audit, req, mem, solo>>

-----------------------------------------------------------------------------
\* recalculate_item_aggregates: the AVG/COUNT SELECT ...
SelectAggregate(t) ==
    /\ pc[t] = "select"
    /\ mem' = [mem EXCEPT ![t].calc = SingleAggregate(BallotSeen(t, req[t].item))]
    /\ Goto(t, IF req[t].kind = "hide" THEN "load" ELSE "update")
    /\ UNCHANGED <<users, ratings, items, lastId, audit, req, solo>>

\* ... and the flush: the ORM writes only the columns whose new value differs from
\* the copy this request loaded, and issues no UPDATE when none does.
UpdateItem(t) ==
    LET i == req[t].item
        seen == mem[t].seen
        calc == mem[t].calc
    IN  /\ pc[t] = "update"
        /\ IF calc = seen
           THEN UNCHANGED <<aggW, itemLock>>
           ELSE /\ Blockers(t) = {}
                /\ aggW' = [aggW EXCEPT ![i] =
                      [avg |-> IF calc.avg # seen.avg THEN calc.avg ELSE agg[i].avg,
                       count |-> IF calc.count # seen.count THEN calc.count ELSE agg[i].count]]
                /\ itemLock' = [itemLock EXCEPT ![i] = t]
        /\ Goto(t, IF req[t].kind = "rate" THEN "event" ELSE "commit")
        /\ UNCHANGED <<users, ratings, agg, lastId, audit, req, mem, solo>>

\* create_rating_event (ON CONFLICT DO NOTHING; an insert takes KEY SHARE on the
\* user row) or delete_rating_event.
WriteEvent(t) ==
    /\ pc[t] = "event" /\ Blockers(t) = {}
    /\ ratingW' = [ratingW EXCEPT ![Key(t)].event = HasContent(ratingW[Key(t)])]
    /\ mem' = [mem EXCEPT ![t].share = mem[t].share \/ InsertsEvent(t)]
    /\ Goto(t, "commit")
    /\ UNCHANGED <<users, rating, ratingLock, items, lastId, audit, req, solo>>

\* recalculate_item_aggregates_batch: the first UPDATE resets the captured items,
\* taking their row locks one after the other in whatever order the scan meets them.
ResetItem(t) ==
    \E i \in mem[t].todo :
        /\ pc[t] = "reset" /\ itemLock[i] = NoTxn
        /\ aggW' = [aggW EXCEPT ![i] = NoRatings]
        /\ itemLock' = [itemLock EXCEPT ![i] = t]
        /\ mem' = [mem EXCEPT ![t].todo = @ \ {i}]
        /\ Goto(t, IF mem[t].todo = {i} THEN "aggregate" ELSE "reset")
        /\ UNCHANGED <<users, ratings, agg, lastId, audit, req, solo>>

\* The second UPDATE ... FROM (GROUP BY item_id) overwrites the reset where a scored
\* visible rating is left; an item without one has no group and keeps the reset.
AggregateItems(t) ==
    /\ pc[t] = "aggregate"
    /\ aggW' = [i \in Items |->
                   IF i \in mem[t].captured /\ Voters(BallotSeen(t, i)) # {}
                   THEN BatchAggregate(BallotSeen(t, i)) ELSE aggW[i]]
    /\ Goto(t, "commit")
    /\ UNCHANGED <<users, ratings, agg, itemLock, lastId, audit, req, mem, solo>>

-----------------------------------------------------------------------------
\* COMMIT publishes t's rows; the admin routes add their audit row just before it.
Commit(t) ==
    /\ pc[t] = "commit"
    /\ account' = AccountsAfter(t, account, accountW)
    /\ rating' = RatingsAfter(t, rating, ratingW)
    /\ agg' = ItemsAfter(t, agg, aggW)
    /\ audit' = IF req[t].kind \in {"hide", "ban"} THEN Append(audit, req[t]) ELSE audit
    /\ UNCHANGED <<accountW, ratingW, aggW, lastId, req, solo>>
    /\ Release(t)
    /\ Goto(t, "done")

\* The process dies, the connection drops or the client goes away before COMMIT.
Crash(t) == Active(t) /\ Abort(t)

\* PostgreSQL finds t in a cycle of waiting transactions and aborts it.
DeadlockVictim(t) ==
    /\ Active(t) /\ Blockers(t) # {}
    /\ \E cycle \in SUBSET Txns :
          /\ t \in cycle
          /\ \A s \in cycle : /\ Blockers(s) \cap cycle # {}
                              /\ \E r \in cycle : s \in Blockers(r)
    /\ Abort(t)

Statement(t) ==
    \/ LoadItem(t) \/ FindOwnRating(t) \/ CaptureItems(t)
    \/ UpsertRating(t) \/ DeleteRating(t) \/ WriteHidden(t) \/ WriteBanned(t)
    \/ DeleteUser(t) \/ CascadeRatings(t)
    \/ SelectAggregate(t) \/ UpdateItem(t) \/ WriteEvent(t)
    \/ ResetItem(t) \/ AggregateItems(t)
    \/ Commit(t) \/ DeadlockVictim(t)

Next == \E t \in Txns : Begin(t) \/ Statement(t) \/ Crash(t)

Spec == Init /\ [][Next]_vars

\* A request that has begun keeps running: the event loop resumes its coroutine,
\* the database answers, and PostgreSQL breaks deadlocks.  Nothing makes a client
\* send a request, and nothing makes one crash.
FairSpec == Spec /\ \A t \in Txns : WF_vars(Statement(t))

-----------------------------------------------------------------------------
TypeOK ==
    /\ account \in [Users -> Accounts] /\ accountW \in [Users -> Accounts]
    /\ rating \in [Keys -> Rows \cup {NoRating}] /\ ratingW \in [Keys -> Rows \cup {NoRating}]
    /\ agg \in [Items -> Aggregates] /\ aggW \in [Items -> Aggregates]
    /\ userLock \in [Users -> Txns \cup {NoTxn}]
    /\ ratingLock \in [Keys -> Txns \cup {NoTxn}]
    /\ itemLock \in [Items -> Txns \cup {NoTxn}]
    /\ lastId \in Nat
    /\ audit \in Seq(Requests)
    /\ pc \in [Txns -> Statements \cup {"idle", "done", "failed"}]
    /\ req \in [Txns -> Menu \cup {NoRequest}]
    /\ mem \in [Txns -> Memory]
    /\ solo \in [Txns -> BOOLEAN]

Exact(i) == agg[i] = SingleAggregate(Ballot(account, rating, i))

\* The items whose aggregates a request recomputes when nothing else runs.
Touched(t) ==
    IF req[t].kind \in {"ban", "erase"}
    THEN {i \in Items : rating[<<req[t].user, i>>] # NoRating}
    ELSE {req[t].item}

(***************************************************************************)
(* A review has its feed event exactly when it has a score or a text, in   *)
(* every committed state: rate_item keeps both in one transaction "to      *)
(* avoid ever having a rating without its event or vice versa", and every  *)
(* other writer of the row (hide, delete, cascade) must respect it too.    *)
(***************************************************************************)
EventIffContent ==
    \A k \in Keys : rating[k] # NoRating => (rating[k].event <=> HasContent(rating[k]))

(***************************************************************************)
(* An erased account leaves no review behind, whatever its owner's other   *)
(* requests and the moderators were doing: delete_current_user's cascade   *)
(* against an upsert that was authenticated before the erasure.            *)
(***************************************************************************)
ErasedUserLeavesNoRows ==
    \A u \in Users, i \in Items : account[u] = "gone" => rating[<<u, i>>] = NoRating

\* What its recompute makes of a ballot: the two round a half differently.
Recomputed(t, ballot) ==
    IF req[t].kind \in {"ban", "erase"} THEN BatchAggregate(ballot)
    ELSE SingleAggregate(ballot)

(***************************************************************************)
(* A committed request that no overlapping request could meet on an item   *)
(* leaves the aggregates of its items exact, also when they were wrong     *)
(* before: recalculate_item_aggregates and its batched variant heal drift. *)
(***************************************************************************)
SoloRequestsLeaveExact ==
    [][\A t \in Txns :
          pc[t] = "commit" /\ pc'[t] = "done" /\ solo[t] =>
              \A i \in Touched(t) :
                  agg'[i] = Recomputed(t, Ballot(account', rating', i))]_vars

(***************************************************************************)
(* docs/schema.md: after every change of a review and after every          *)
(* moderation action the persisted aggregates are those of the visible     *)
(* reviews.  Claimed of every state in which no request is running.        *)
(***************************************************************************)
AggregatesMatchReviews == (\A t \in Txns : ~Active(t)) => \A i \in Items : Exact(i)

(***************************************************************************)
(* Every request that begins ends, by commit, refusal or rollback: row     *)
(* locks, foreign-key locks and the lock order of two batches never leave  *)
(* one waiting for ever, because PostgreSQL breaks the cycles.             *)
(***************************************************************************)
RequestsEnd == \A t \in Txns : Active(t) ~> ~Active(t)

\* What the ledger knows of a user_ratings row, and of which reviews there is news.
Review(row) ==
    IF row = NoRating THEN NoRating
    ELSE [score |-> row.score, text |-> row.text, hidden |-> row.hidden]

Reviewed == [k \in Keys |-> Review(rating[k])]
Featured == {k \in Keys : rating[k] # NoRating /\ rating[k].event}

Ledger == INSTANCE ReviewLedger WITH
              NoReview <- NoRating, review <- Reviewed, feed <- Featured

(***************************************************************************)
(* The committed rows change as ReviewLedger says: one request at a time,  *)
(* all of it or nothing, and audited exactly when an admin action commits. *)
(***************************************************************************)
ImplementsLedger == Ledger!Spec
=============================================================================
