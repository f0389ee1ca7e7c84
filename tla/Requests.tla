------------------------------ MODULE Requests ------------------------------
(***************************************************************************)
(* The request handlers of four parts of the API that share no state with  *)
(* each other: accounts, community, writers of the catalog, search.  A     *)
(* behaviour belongs to one part; the instances rename one set of          *)
(* variables.                                                              *)
(***************************************************************************)
EXTENDS Integers, Sequences, FiniteSets

CONSTANTS \* Accounts: requests in flight, usernames, lifetimes, bounds.
          AccountRequests, Names, SessionLife, LinkLife, MaxAccounts, MaxSessions,
          MaxLinks, MaxObjects, MaxAccountRequests, LastLogin,
          \* Community: users, items, requests in flight, bounds.
          Users, Items, Slots, MaxRequests, MaxOthers, MaxLosses,
          \* Writers: syncs, administrators, the rows and their fields, bounds.
          Syncs, Admins, RowIds, Ids, Slugs, Titles, MaxWrites, MaxEdits, MaxAborts,
          \* Search: what the source has, pages, limits, requests, bounds.
          Hits, Locally, Limit, FanoutPage, Pages, Ttl, Rate, Window, Clients, Searches,
          LastTick, MaxServed, MaxFaults

ASSUME RequestsAssumption == SessionLife \in Nat /\ LinkLife \in Nat /\ IsFiniteSet(Slots)

\* "none" is what a row without an external id has.
ASSUME IdsAssumption == "none" \notin Ids

\* Sizes of pages, and a limit that lets something through.
ASSUME SearchAssumption ==
    /\ Limit \in Nat \ {0} /\ FanoutPage \in Nat \ {0} /\ Pages \subseteq Nat \ {0} /\ Hits \in Nat
    /\ Rate \in Nat \ {0} /\ Window \in Nat \ {0} /\ Ttl \in Nat /\ LastTick \in Nat

\* Room for the account, its session, its two links and its avatar.
ASSUME BoundsAssumption ==
    /\ MaxAccounts \in Nat \ {0} /\ MaxSessions \in Nat \ {0} /\ MaxLinks \in Nat \ {0, 1}
    /\ MaxObjects \in Nat \ {0} /\ MaxAccountRequests \in Nat /\ LastLogin \in Nat

VARIABLES part,
          v1, v2, v3, v4, v5, v6, v7, v8, v9, v10, v11, v12, v13, v14,
          v15, v16, v17, v18, v19, v20, v21

\* What the parts call the variables.
now == v1
accounts == v2
sessions == v3
links == v4
bucket == v5
objects == v6
request == v7
begun == v8
orphans == v9
broken == v10

users == v1
banned == v2
library == v3
reviews == v4
left == v5
events == v6
follows == v7
likes == v8
notifications == v9
reports == v10
audit == v11
requests == v12
hidden == v13
nextReview == v14
completions == v15
raced == v16
announced == v17
told == v18
lost == v19
answered == v20
serial == v21

db == v1
pending == v2
writer == v3
edit == v4
skips == v6
dropped == v7
everLinked == v8
granted == v9
overlapped == v10

catalog == v2
marker == v3
hits == v4
req == v5
fanned == v6
served == v7
faults == v8

Accounts == INSTANCE Accounts WITH
    Requests <- AccountRequests, MaxRequests <- MaxAccountRequests, LastTick <- LastLogin
Community == INSTANCE Community WITH MaxFaults <- MaxLosses
Upserts == INSTANCE CatalogWriters WITH Writers <- Syncs, MaxFaults <- MaxAborts
Search == INSTANCE Search WITH Requests <- Searches

\* What a part does not use.
Past8 == <<v9, v10, v11, v12, v13, v14, v15, v16, v17, v18, v19, v20, v21>>
Past10 == <<v11, v12, v13, v14, v15, v16, v17, v18, v19, v20, v21>>

Zero8 ==
    /\ v9 = 0 /\ v10 = 0 /\ v11 = 0 /\ v12 = 0 /\ v13 = 0 /\ v14 = 0 /\ v15 = 0
    /\ v16 = 0 /\ v17 = 0 /\ v18 = 0 /\ v19 = 0 /\ v20 = 0 /\ v21 = 0
Zero10 ==
    /\ v11 = 0 /\ v12 = 0 /\ v13 = 0 /\ v14 = 0 /\ v15 = 0 /\ v16 = 0 /\ v17 = 0
    /\ v18 = 0 /\ v19 = 0 /\ v20 = 0 /\ v21 = 0

Init ==
    \/ part = "accounts" /\ Accounts!Init /\ Zero10
    \/ part = "community" /\ Community!Init
    \/ part = "writers" /\ Upserts!Init /\ Zero10
    \/ part = "search" /\ Search!Init /\ Zero8

Next ==
    /\ UNCHANGED part
    /\ \/ part = "accounts" /\ Accounts!Next /\ UNCHANGED Past10
       \/ part = "community" /\ Community!Next
       \/ part = "writers" /\ Upserts!Next /\ UNCHANGED Past10
       \/ part = "search" /\ Search!Next /\ UNCHANGED Past8

vars == <<part, v1, v2, v3, v4, v5, v6, v7, v8, v9, v10, v11, v12, v13, v14,
          v15, v16, v17, v18, v19, v20, v21>>

Spec == Init /\ [][Next]_vars

-----------------------------------------------------------------------------
(***************************************************************************)
(* A session that is good was opened with the current password of an       *)
(* account in good standing, a refresh makes one token of one token,       *)
(* requests that overlap the change apart, and a verification or reset     *)
(* link is used once, but by requests that overlap.                        *)
(***************************************************************************)
SessionsAreSound == part = "accounts" => Accounts!SessionsAreSound

(***************************************************************************)
(* Names stay unique, the audit says what the role is, and the bucket and  *)
(* the rows agree on the avatars except for what failed or was raced.      *)
(***************************************************************************)
AccountsAreConsistent == part = "accounts" =>
    /\ Accounts!TypeOK /\ Accounts!AuditSaysRole
    /\ Accounts!ObjectsAreOwned /\ Accounts!AvatarsResolve

(***************************************************************************)
(* The feed has one event per completion and one per review that its       *)
(* readers may see.                                                        *)
(***************************************************************************)
FeedIsConsistent == part = "community" =>
    Community!OneEventPerCompletion /\ Community!FeedMirrorsReviews

(***************************************************************************)
(* A follow or a like is announced once at most, only a failure loses the  *)
(* announcement, and the badge counts what the inbox lists.                *)
(***************************************************************************)
NotificationsAreSound == part = "community" =>
    Community!AnnouncedOnce /\ Community!BadgeMatchesInbox

(***************************************************************************)
(* An acknowledged report stays filed, a resolved one has its audit entry. *)
(***************************************************************************)
ReportsAreKept == part = "community" => Community!ReportsAreKept

(***************************************************************************)
(* Every row of the catalog that lacks the id it was written for, and      *)
(* every id that lost its row, was counted or reported by some writer.     *)
(***************************************************************************)
IdentitiesAreAccounted == part = "writers" =>
    Upserts!OrphansAreCounted /\ Upserts!LostIdentitiesAreRecorded

(***************************************************************************)
(* A lock that an administrator was granted is kept, edits that overlap    *)
(* apart, and no sync changes a locked title.                              *)
(***************************************************************************)
LocksLast == part = "writers" => Upserts!LocksLast
TitlesStay == [][part = "writers" => Upserts!StepKeepsLockedTitles]_vars
LocksHold == []LocksLast /\ TitlesStay

(***************************************************************************)
(* However requests overlap, a client makes the service ask the sources no *)
(* more often than its rate, a refused one is told when to come back, a    *)
(* burst asks once, and the hits of a page that was asked for are kept.    *)
(***************************************************************************)
SourcesAreShielded == part = "search" =>
    /\ Search!SourcesAreShielded /\ Search!RetryAfterIsHonest
    /\ Search!BurstFansOutOnce /\ Search!PageIsIngested
=============================================================================
