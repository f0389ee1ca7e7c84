----------------------------- MODULE Community -----------------------------
(***************************************************************************)
(* Library, follows, feed events, notifications, likes and reports.  What  *)
(* a request announces is written in a second transaction, after the one   *)
(* that changed something; what it decides from a first statement may have *)
(* changed by the second.                                                  *)
(***************************************************************************)
EXTENDS Integers, FiniteSets

CONSTANTS Users, Items,
          Slots,          \* requests that can be in flight at once
          MaxRequests,    \* bound on requests that write in several steps
          MaxOthers,      \* bound on the other requests
          MaxFaults       \* bound on notifications that fail or are cut off

VARIABLES users, banned, library, reviews, hidden, events, follows, likes, notifications,
          reports, audit, requests,
          left, nextReview, serial, completions, raced, announced, told, lost, answered

vars == <<users, banned, library, reviews, hidden, events, follows, likes, notifications,
          reports, audit, requests,
          left, nextReview, serial, completions, raced, announced, told, lost, answered>>
counters == <<nextReview, serial>>
social == <<users, banned, library, reviews, hidden, events, follows, likes>>
ghosts == <<completions, raced, announced, told, lost, answered>>

None == "none"
NoReview == [id |-> 0, content |-> FALSE]
Idle == [step |-> "idle"]

\* left: what remains of the bounds.  serial: the key of the next row of the feed or the inbox.
\* completions, raced, announced, told, lost, answered:
\* what has happened, for the properties.
Init ==
    /\ users = Users /\ banned = {}
    /\ library = [e \in Users \X Items |-> None]
    /\ reviews = [e \in Users \X Items |-> NoReview] /\ hidden = {}
    /\ events = {} /\ follows = {} /\ likes = {} /\ notifications = {}
    /\ reports = {} /\ audit = {}
    /\ requests = [s \in Slots |-> Idle]
    /\ left = [requests |-> MaxRequests, others |-> MaxOthers, faults |-> MaxFaults]
    /\ nextReview = 1 /\ serial = 1
    /\ completions = [e \in Users \X Items |-> 0] /\ raced = {}
    /\ announced = 0 /\ told = 0 /\ lost = 0 /\ answered = {}

Starts(s) ==
    /\ requests[s] = Idle /\ left.requests > 0
    /\ left' = [left EXCEPT !.requests = @ - 1]
Other == left.others > 0 /\ left' = [left EXCEPT !.others = @ - 1]
Goes(s, r) == requests' = [requests EXCEPT ![s] = r]

-----------------------------------------------------------------------------
(* Library. *)

ReadPrevious(s, u, i, status) ==
    /\ Starts(s) /\ u \in users
    /\ Goes(s, [step |-> "status", user |-> u, item |-> i, status |-> status,
                previous |-> library[<<u, i>>]])
    /\ UNCHANGED <<social, notifications, reports, audit, counters, ghosts>>

\* Every request for "completed" is one.
EveryCompletion(status, previous) == status = "completed"
IsNewCompletion(status, previous) == status = "completed" /\ previous # "completed"

Completed(u, i) == [id |-> serial, user |-> u, item |-> i, review |-> 0]

\* The upsert and the event commit together; the owner may have deleted the account.
WriteStatus(s) ==
    /\ requests[s].step = "status"
    /\ LET r == requests[s]  e == <<r.user, r.item>>
           new == IsNewCompletion(r.status, r.previous)
       IN  IF r.user \notin users THEN Goes(s, Idle) /\ UNCHANGED <<social, serial, ghosts>>
           ELSE /\ library' = [library EXCEPT ![e] = r.status]
                /\ events' = IF new THEN events \cup {Completed(r.user, r.item)} ELSE events
                /\ serial' = IF new THEN serial + 1 ELSE serial
                /\ Goes(s, IF new THEN [step |-> "fanout", user |-> r.user] ELSE Idle)
                /\ raced' = IF library[e] # r.previous THEN raced \cup {e} ELSE raced
                /\ completions' = IF r.status = "completed" /\ library[e] # "completed"
                                  THEN [completions EXCEPT ![e] = @ + 1] ELSE completions
                /\ UNCHANGED <<users, banned, reviews, hidden, follows, likes, announced, told,
                               lost, answered>>
    /\ UNCHANGED <<notifications, reports, audit, left, nextReview>>

Note(to, by, type) ==
    [id |-> serial, to |-> to, by |-> by, type |-> type, read |-> FALSE]

\* One INSERT ... SELECT over whoever follows the user by now.
Fanout(s) ==
    /\ requests[s].step = "fanout" /\ Goes(s, Idle)
    /\ LET u == requests[s].user
       IN  notifications' = notifications \cup
              {Note(f, u, "user_completed") : f \in {g \in users : <<g, u>> \in follows}}
    /\ serial' = serial + 1
    /\ UNCHANGED <<social, reports, audit, left, nextReview, ghosts>>

FanoutFails(s) ==
    /\ requests[s].step = "fanout" /\ Goes(s, Idle)
    /\ left.faults > 0 /\ left' = [left EXCEPT !.faults = @ - 1]
    /\ UNCHANGED <<social, notifications, reports, audit, counters, ghosts>>

RemoveEntry(u, i) ==
    /\ Other /\ library[<<u, i>>] # None
    /\ library' = [library EXCEPT ![<<u, i>>] = None]
    /\ UNCHANGED <<users, banned, reviews, hidden, events, follows, likes, notifications, reports,
                   audit, requests, counters, ghosts>>

-----------------------------------------------------------------------------
(* Follows and likes: the row, and then its notification. *)

\* Who follows already is announced again.
AnnouncesAnyway(there) == TRUE
\* ON CONFLICT DO NOTHING ... RETURNING tells whether this request created the row.
Announces(there) == ~there

Tell(to, by, type) == [step |-> "tell", to |-> to, by |-> by, type |-> type]

FollowUser(s, u, t) ==
    /\ Starts(s) /\ u \in users /\ t \in users \ {u}
    /\ follows' = follows \cup {<<u, t>>}
    /\ LET new == Announces(<<u, t>> \in follows)
       IN Goes(s, IF new THEN Tell(t, u, "new_follower") ELSE Idle)
    /\ announced' = IF <<u, t>> \in follows THEN announced ELSE announced + 1
    /\ UNCHANGED <<users, banned, library, reviews, hidden, events, likes, notifications, reports,
                   audit, counters, completions, raced, told, lost, answered>>

UnfollowUser(u, t) ==
    /\ Other /\ <<u, t>> \in follows /\ follows' = follows \ {<<u, t>>}
    /\ UNCHANGED <<users, banned, library, reviews, hidden, events, likes, notifications, reports,
                   audit, requests, counters, ghosts>>

ReviewIds == {reviews[e].id : e \in DOMAIN reviews} \ {0}
EntryOf(id) == CHOOSE e \in DOMAIN reviews : reviews[e].id = id

\* Nobody is notified of a like of their own.
LikeReview(s, u, id) ==
    /\ Starts(s) /\ u \in users /\ id \in ReviewIds
    /\ likes' = likes \cup {<<u, id>>}
    /\ LET owner == EntryOf(id)[1]  there == <<u, id>> \in likes
       IN  /\ Goes(s, IF Announces(there) /\ owner # u THEN Tell(owner, u, "review_like") ELSE Idle)
           /\ announced' = IF there \/ owner = u THEN announced ELSE announced + 1
    /\ UNCHANGED <<users, banned, library, reviews, hidden, events, follows, notifications, reports,
                   audit, counters, completions, raced, told, lost, answered>>

UnlikeReview(u, id) ==
    /\ Other /\ <<u, id>> \in likes /\ likes' = likes \ {<<u, id>>}
    /\ UNCHANGED <<users, banned, library, reviews, hidden, events, follows, notifications, reports,
                   audit, requests, counters, ghosts>>

\* Either party may have deleted the account meanwhile: the foreign key refuses the row.
CreateNotification(s) ==
    /\ requests[s].step = "tell" /\ Goes(s, Idle)
    /\ LET r == requests[s] IN
       IF {r.to, r.by} \subseteq users
       THEN /\ notifications' = notifications \cup {Note(r.to, r.by, r.type)}
            /\ serial' = serial + 1 /\ told' = told + 1 /\ UNCHANGED lost
       ELSE lost' = lost + 1 /\ UNCHANGED <<notifications, serial, told>>
    /\ UNCHANGED <<social, reports, audit, left, nextReview, completions, raced, announced,
                   answered>>

\* The INSERT fails and is logged, or the process ends first: the follow stays.
NotificationFails(s) ==
    /\ requests[s].step = "tell" /\ Goes(s, Idle)
    /\ left.faults > 0 /\ left' = [left EXCEPT !.faults = @ - 1]
    /\ lost' = lost + 1
    /\ UNCHANGED <<social, notifications, reports, audit, counters, completions, raced, announced,
                   told, answered>>

\* The inbox: mark_read and delete_notification touch the caller's rows only.
MarkRead(u) ==
    /\ Other
    /\ notifications' = {IF n.to = u THEN [n EXCEPT !.read = TRUE] ELSE n : n \in notifications}
    /\ UNCHANGED <<social, reports, audit, requests, counters, ghosts>>

DeleteNotification(u, n) ==
    /\ Other /\ n.to = u
    /\ notifications' = notifications \ {n}
    /\ UNCHANGED <<social, reports, audit, requests, counters, ghosts>>

-----------------------------------------------------------------------------
(* Reviews, as far as the feed and the reports depend on them. *)

Rated(u, i, id) == [id |-> serial, user |-> u, item |-> i, review |-> id]

\* A second event for a review that is edited.
AddEventAlways(u, i, id) == events \cup {Rated(u, i, id)}
\* create_rating_event: at most one for a review.
AddEvent(u, i, id) ==
    IF \E x \in events : x.review = id THEN events ELSE events \cup {Rated(u, i, id)}
DropEvents(ids) == {x \in events : x.review \notin ids}

\* Without score and text the review leaves the feed and is no longer one.
RateItem(u, i, content) ==
    /\ Other /\ u \in users
    /\ LET old == reviews[<<u, i>>]
           id == IF old.id = 0 THEN nextReview ELSE old.id
       IN  /\ reviews' = [reviews EXCEPT ![<<u, i>>] = [id |-> id, content |-> content]]
           /\ nextReview' = IF old.id = 0 THEN nextReview + 1 ELSE nextReview
           /\ events' = IF content THEN AddEvent(u, i, id) ELSE DropEvents({id})
    /\ serial' = IF content THEN serial + 1 ELSE serial
    /\ UNCHANGED <<users, banned, library, hidden, follows, likes, notifications, reports, audit,
                   requests, ghosts>>

\* What hangs from reviews goes with them.
Cascade(ids) ==
    /\ events' = DropEvents(ids)
    /\ hidden' = hidden \ ids
    /\ likes' = {l \in likes : l[2] \notin ids}
    /\ reports' = {r \in reports : r.review \notin ids}

DeleteRating(u, i) ==
    /\ Other /\ reviews[<<u, i>>].id # 0
    /\ Cascade({reviews[<<u, i>>].id})
    /\ reviews' = [reviews EXCEPT ![<<u, i>>] = NoReview]
    /\ UNCHANGED <<users, banned, library, follows, notifications, audit, requests, counters,
                   ghosts>>

SetReviewHidden(id) ==
    /\ Other /\ id \in ReviewIds
    /\ hidden' = IF id \in hidden THEN hidden \ {id} ELSE hidden \cup {id}
    /\ UNCHANGED <<users, banned, library, reviews, events, follows, likes, notifications, reports,
                   audit, requests, counters, ghosts>>

SetUserBanned(u) ==
    /\ Other /\ u \in users
    /\ banned' = IF u \in banned THEN banned \ {u} ELSE banned \cup {u}
    /\ UNCHANGED <<users, library, reviews, hidden, events, follows, likes, notifications, reports,
                   audit, requests, counters, ghosts>>

\* Only what the account received is deleted with it.
KeepsActor(u) == {n \in notifications : n.to # u}
\* Both foreign keys cascade.
DropsActor(u) == {n \in notifications : u \notin {n.to, n.by}}

DeleteUser(u) ==
    /\ Other /\ u \in users /\ users' = users \ {u} /\ banned' = banned \ {u}
    /\ LET ids == {reviews[<<u, i>>].id : i \in Items} \ {0}
       IN  /\ events' = {x \in DropEvents(ids) : x.user # u}
           /\ likes' = {l \in likes : l[1] # u /\ l[2] \notin ids}
           /\ reports' = {r \in reports : r.reporter # u /\ r.review \notin ids}
           /\ hidden' = hidden \ ids
    /\ reviews' = [e \in DOMAIN reviews |-> IF e[1] = u THEN NoReview ELSE reviews[e]]
    /\ library' = [e \in DOMAIN library |-> IF e[1] = u THEN None ELSE library[e]]
    /\ follows' = {f \in follows : u \notin {f[1], f[2]}}
    /\ notifications' = DropsActor(u)
    /\ UNCHANGED <<audit, requests, counters, ghosts>>

-----------------------------------------------------------------------------
(* Reports. *)

ReadReview(s, u, id) ==
    /\ Starts(s) /\ u \in users /\ id \in ReviewIds
    /\ Goes(s, [step |-> "report", user |-> u, review |-> id])
    /\ UNCHANGED <<social, notifications, reports, audit, counters, ghosts>>

Filed(u, id) == {r \in reports : r.reporter = u /\ r.review = id}

\* ON CONFLICT DO NOTHING; the keys refuse a review or a reporter that has gone.
InsertReport(s) ==
    /\ requests[s].step = "report"
    /\ LET r == requests[s]  new == [reporter |-> r.user, review |-> r.review, status |-> "open"] IN
       \/ /\ Filed(r.user, r.review) # {}
          /\ Goes(s, [r EXCEPT !.step = "existing"]) /\ UNCHANGED <<reports, answered>>
       \/ /\ Filed(r.user, r.review) = {} /\ Goes(s, Idle)
          /\ IF r.user \in users /\ r.review \in ReviewIds
             THEN reports' = reports \cup {new} /\ answered' = answered \cup {<<r.user, r.review>>}
             ELSE UNCHANGED <<reports, answered>>
    /\ UNCHANGED <<social, notifications, audit, left, counters, completions, raced, announced,
                   told, lost>>

\* The second statement finds the row, or nothing when the review went in between: an error.
SelectExisting(s) ==
    /\ requests[s].step = "existing" /\ Goes(s, Idle)
    /\ LET r == requests[s] IN
       answered' = IF Filed(r.user, r.review) = {} THEN answered
                   ELSE answered \cup {<<r.user, r.review>>}
    /\ UNCHANGED <<social, notifications, reports, audit, left, counters, completions, raced,
                   announced, told, lost>>

Audited(r) == <<r.reporter, r.review>>

\* The row is resolved and nothing is recorded.
ResolveSilently(r) ==
    /\ Other /\ r \in reports
    /\ reports' = (reports \ {r}) \cup {[r EXCEPT !.status = "resolved"]}
    /\ UNCHANGED <<social, notifications, audit, requests, counters, ghosts>>

ResolveReport(r) ==
    /\ Other /\ r \in reports
    /\ reports' = (reports \ {r}) \cup {[r EXCEPT !.status = "resolved"]}
    /\ audit' = audit \cup {Audited(r)}
    /\ UNCHANGED <<social, notifications, requests, counters, ghosts>>

InFlight(s) ==
    \/ WriteStatus(s) \/ Fanout(s) \/ FanoutFails(s)
    \/ CreateNotification(s) \/ NotificationFails(s)
    \/ InsertReport(s) \/ SelectExisting(s)
    \/ \E u \in Users :
          \/ \E i \in Items, status \in {"completed", "wishlist"} : ReadPrevious(s, u, i, status)
          \/ \E t \in Users : FollowUser(s, u, t)
          \/ \E id \in ReviewIds : LikeReview(s, u, id) \/ ReadReview(s, u, id)

AtOnce ==
    \/ \E u \in Users :
          \/ \E i \in Items : RemoveEntry(u, i) \/ DeleteRating(u, i)
                              \/ \E content \in BOOLEAN : RateItem(u, i, content)
          \/ \E t \in Users : UnfollowUser(u, t)
          \/ \E id \in ReviewIds : UnlikeReview(u, id)
          \/ MarkRead(u) \/ SetUserBanned(u) \/ DeleteUser(u)
          \/ \E n \in notifications : DeleteNotification(u, n)
    \/ \E id \in ReviewIds : SetReviewHidden(id)
    \/ \E r \in reports : ResolveReport(r)

Next == AtOnce \/ \E s \in Slots : InFlight(s)

Spec == Init /\ [][Next]_vars

-----------------------------------------------------------------------------
(* What is read. *)

FollowingFeed(u) ==
    {x \in events : <<u, x.user>> \in follows /\ x.user \notin banned /\ x.review \notin hidden}

\* The count has no join, the listing joins the user who acted.
CountUnread(u) == Cardinality({n \in notifications : n.to = u /\ ~n.read})
ListedUnread(u) == Cardinality({n \in notifications : n.to = u /\ n.by \in users /\ ~n.read})

-----------------------------------------------------------------------------
(***************************************************************************)
(* A completion is announced to the feed once per time the item became     *)
(* completed, unless two requests for the same entry overlapped.           *)
(***************************************************************************)
OneEventPerCompletion ==
    \A e \in (users \X Items) \ raced :
        Cardinality({x \in events : x.user = e[1] /\ x.item = e[2] /\ x.review = 0})
            = completions[e]

(***************************************************************************)
(* The feed of a follower has one entry for every review with content that *)
(* an author in good standing keeps visible, and none for any other,       *)
(* whatever was edited, emptied, hidden, deleted or banned before.         *)
(***************************************************************************)
FeedMirrorsReviews ==
    \A f \in follows, i \in Items :
        LET r == reviews[<<f[2], i>>]
        IN  Cardinality({x \in FollowingFeed(f[1]) : x.user = f[2] /\ x.item = i /\ x.review # 0})
               = IF r.content /\ r.id \notin hidden /\ f[2] \notin banned THEN 1 ELSE 0

(***************************************************************************)
(* A follow or a like is announced once, by the request that created it:   *)
(* every one was told, is about to be, or was lost to a failure after the  *)
(* commit.                                                                 *)
(***************************************************************************)
AnnouncedOnce ==
    announced = told + lost + Cardinality({s \in Slots : requests[s].step = "tell"})

(***************************************************************************)
(* The badge and the inbox agree: no counted notification is left out of   *)
(* the listing because its actor is gone.                                  *)
(***************************************************************************)
BadgeMatchesInbox == \A u \in users : CountUnread(u) = ListedUnread(u)

(***************************************************************************)
(* A report that was acknowledged is filed as long as its reporter and its *)
(* review exist, and a resolved one has its entry in the audit log.        *)
(***************************************************************************)
ReportsAreKept ==
    /\ \A a \in answered : a[1] \in users /\ a[2] \in ReviewIds => Filed(a[1], a[2]) # {}
    /\ \A r \in reports : r.status = "resolved" => Audited(r) \in audit
=============================================================================
