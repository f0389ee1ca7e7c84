---------------------------- MODULE Ratings_proofs ----------------------------
(***************************************************************************)
(* Proofs about Ratings, for any sets of users, items and requests:        *)
(*   1. TypeOK, with what a program counter says of its request and locks; *)
(*   2. EventIffContent and ErasedUserLeavesNoRows, from an inductive      *)
(*      invariant about who may hold which row lock in which statement;    *)
(*   3. ImplementsLedger, from what every uncommitted version of a row is; *)
(*   4. SoloRequestsLeaveExact, from what a request that nothing overlaps  *)
(*      knows of its item at each of its statements.                       *)
(***************************************************************************)
EXTENDS Ratings, FiniteSetTheorems, TLAPS

-----------------------------------------------------------------------------
(* 1. Types                                                                *)

\* Which kinds of request reach which statement.
Requesting ==
    \A t \in Txns :
        /\ Active(t) => req[t] \in Menu
        /\ pc[t] \in {"load", "select", "update"} => req[t].kind \in {"rate", "unrate", "hide"}
        /\ pc[t] = "event" => req[t].kind = "rate"
        /\ pc[t] = "find" => req[t].kind = "unrate"
        /\ pc[t] = "cascade" => req[t].kind = "erase"
        /\ pc[t] \in {"capture", "reset", "aggregate"} => req[t].kind \in {"ban", "erase"}

\* A row nobody has locked has no uncommitted version.
Unlocked ==
    /\ \A u \in Users : userLock[u] = NoTxn => accountW[u] = account[u]
    /\ \A k \in Keys : ratingLock[k] = NoTxn => ratingW[k] = rating[k]

\* From its upsert to its commit rate_item holds a row that is there.
Holding ==
    \A t \in Txns :
        pc[t] \in {"select", "update", "event", "commit"} /\ req[t].kind = "rate" =>
            ratingLock[Key(t)] = t /\ ratingW[Key(t)] # NoRating

TypeInv == TypeOK /\ Requesting /\ Unlocked /\ Holding

\* The fields a request has, by its kind.
LEMMA RequestFields ==
    ASSUME NEW r \in Menu
    PROVE  /\ r \in Requests
           /\ r.kind \in {"rate", "unrate", "hide", "ban", "erase"}
           /\ r.user \in Users
           /\ r.kind \in {"rate", "unrate", "hide"} => r.item \in Items
           /\ r.kind = "rate" => r.score \in Scores \cup {NoScore} /\ r.text \in BOOLEAN
           /\ r.kind \in {"hide", "ban"} => r.flag \in BOOLEAN
<1>1. r \in Requests
  BY RatingsAssumption
<1>2. QED
  BY <1>1 DEF Requests

\* An aggregate SELECT counts at most one score of each user.
LEMMA BallotType ==
    ASSUME NEW accounts, NEW table \in [Keys -> Rows \cup {NoRating}], NEW i \in Items
    PROVE  Ballot(accounts, table, i) \in Ballots
<1>1. ASSUME NEW u \in Users, table[<<u, i>>] # NoRating
      PROVE  table[<<u, i>>].score \in Scores \cup {NoScore}
  BY <1>1 DEF Keys, Rows
<1>2. QED
  BY <1>1 DEF Ballot, Ballots

\* Both recomputes yield storable aggregates.
LEMMA AggregateType ==
    ASSUME NEW ballot \in Ballots
    PROVE  /\ SingleAggregate(ballot) \in Aggregates
           /\ BatchAggregate(ballot) \in Aggregates
BY DEF SingleAggregate, BatchAggregate, Aggregates

LEMMA NoRatingsType == NoRatings \in Aggregates
BY DEF NoRatings, Aggregates

LEMMA BlankType == Blank \in Memory
BY NoRatingsType DEF Blank, Memory

\* The views and the effects of COMMIT and ROLLBACK have the rows' types.
LEMMA AfterTypes ==
    ASSUME TypeOK, NEW t \in Txns
    PROVE  /\ AccountsAfter(t, account, accountW) \in [Users -> Accounts]
           /\ AccountsAfter(t, accountW, account) \in [Users -> Accounts]
           /\ RatingsAfter(t, rating, ratingW) \in [Keys -> Rows \cup {NoRating}]
           /\ RatingsAfter(t, ratingW, rating) \in [Keys -> Rows \cup {NoRating}]
           /\ ItemsAfter(t, agg, aggW) \in [Items -> Aggregates]
           /\ ItemsAfter(t, aggW, agg) \in [Items -> Aggregates]
BY DEF TypeOK, AccountsAfter, RatingsAfter, ItemsAfter

LEMMA BallotSeenType ==
    ASSUME TypeOK, NEW t \in Txns, NEW i \in Items
    PROVE  BallotSeen(t, i) \in Ballots
BY AfterTypes, BallotType DEF BallotSeen

LEMMA ReleaseType ==
    ASSUME TypeOK, NEW t \in Txns, Release(t)
    PROVE  /\ userLock' \in [Users -> Txns \cup {NoTxn}]
           /\ ratingLock' \in [Keys -> Txns \cup {NoTxn}]
           /\ itemLock' \in [Items -> Txns \cup {NoTxn}]
           /\ mem' \in [Txns -> Memory]
BY BlankType DEF TypeOK, Release

\* A request may store what it has read in its locals.
LEMMA LocalsType ==
    ASSUME TypeOK, NEW t \in Txns
    PROVE  /\ \A n \in Nat : [mem EXCEPT ![t].row = n] \in [Txns -> Memory]
           /\ \A b \in BOOLEAN : [mem EXCEPT ![t].flag = b] \in [Txns -> Memory]
           /\ \A n \in Nat, b \in BOOLEAN :
                 [mem EXCEPT ![t].row = n, ![t].flag = b] \in [Txns -> Memory]
           /\ \A a \in Aggregates : [mem EXCEPT ![t].seen = a] \in [Txns -> Memory]
           /\ \A a \in Aggregates : [mem EXCEPT ![t].calc = a] \in [Txns -> Memory]
           /\ \A S \in SUBSET Items :
                 [mem EXCEPT ![t].captured = S, ![t].todo = S] \in [Txns -> Memory]
           /\ \A S \in SUBSET Items : [mem EXCEPT ![t].todo = S] \in [Txns -> Memory]
           /\ \A b \in BOOLEAN : [mem EXCEPT ![t].share = b] \in [Txns -> Memory]
<1>1. mem \in [Txns -> Memory]
  BY DEF TypeOK
<1>2. \A n \in Nat : [mem EXCEPT ![t].row = n] \in [Txns -> Memory]
  BY <1>1 DEF Memory
<1>3. \A b \in BOOLEAN : [mem EXCEPT ![t].flag = b] \in [Txns -> Memory]
  BY <1>1 DEF Memory
<1>4. \A n \in Nat, b \in BOOLEAN :
         [mem EXCEPT ![t].row = n, ![t].flag = b] \in [Txns -> Memory]
  BY <1>1 DEF Memory
<1>5. \A a \in Aggregates : [mem EXCEPT ![t].seen = a] \in [Txns -> Memory]
  BY <1>1 DEF Memory
<1>6. \A a \in Aggregates : [mem EXCEPT ![t].calc = a] \in [Txns -> Memory]
  BY <1>1 DEF Memory
<1>7. \A S \in SUBSET Items :
         [mem EXCEPT ![t].captured = S, ![t].todo = S] \in [Txns -> Memory]
  BY <1>1 DEF Memory
<1>8. \A S \in SUBSET Items : [mem EXCEPT ![t].todo = S] \in [Txns -> Memory]
  BY <1>1 DEF Memory
<1>9. \A b \in BOOLEAN : [mem EXCEPT ![t].share = b] \in [Txns -> Memory]
  BY <1>1 DEF Memory
<1>10. QED
  BY <1>2, <1>3, <1>4, <1>5, <1>6, <1>7, <1>8, <1>9

LEMMA TypeInit == Init => TypeInv
<1> SUFFICES ASSUME Init PROVE TypeInv
  OBVIOUS
<1>1. account \in [Users -> Accounts]
  BY DEF Init, Accounts
<1>2. rating \in [Keys -> Rows \cup {NoRating}]
  BY RatingsAssumption DEF Init
<1>3. agg \in [Items -> Aggregates]
  BY <1>2, BallotType, AggregateType DEF Init
<1>4. audit \in Seq(Requests)
  BY DEF Init
<1>5. lastId \in Nat
  BY RatingsAssumption DEF Init
<1>6. Requesting /\ Unlocked /\ Holding
  BY DEF Init, Requesting, Unlocked, Holding, Active, Statements
<1>7. QED
  BY <1>1, <1>2, <1>3, <1>4, <1>5, <1>6, BlankType DEF Init, TypeInv, TypeOK

\* What the statement of a running request may rely on.
LEMMA Running ==
    ASSUME TypeInv, NEW t \in Txns, Active(t)
    PROVE  /\ req[t] \in Menu
           /\ req[t] \in Requests
           /\ req[t].kind \in {"rate", "unrate", "hide", "ban", "erase"}
           /\ req[t].user \in Users
           /\ req[t].kind \in {"rate", "unrate", "hide"} => req[t].item \in Items /\ Key(t) \in Keys
           /\ req[t].kind = "rate" =>
                 req[t].score \in Scores \cup {NoScore} /\ req[t].text \in BOOLEAN
           /\ req[t].kind \in {"hide", "ban"} => req[t].flag \in BOOLEAN
<1>1. req[t] \in Menu
  BY DEF TypeInv, Requesting
<1>2. QED
  BY <1>1, RequestFields DEF Key, Keys

\* A write that need not wait finds the rows it takes unlocked.
LEMMA FreeToWrite ==
    ASSUME TypeInv, NEW t \in Txns, pc[t] = "write", Blockers(t) = {}
    PROVE  /\ req[t].kind = "rate" =>
                 /\ ratingLock[Key(t)] = NoTxn
                 /\ rating[Key(t)] = NoRating => Eraser(req[t].user) = {}
           /\ req[t].kind = "unrate" /\ StillThere(t) => ratingLock[Key(t)] = NoTxn
           /\ req[t].kind = "hide" /\ SetsFlag(t) /\ StillThere(t) =>
                 ratingLock[Key(t)] = NoTxn
           /\ req[t].kind = "ban" /\ SetsFlag(t) => userLock[req[t].user] = NoTxn
           /\ req[t].kind = "erase" =>
                 userLock[req[t].user] = NoTxn /\ KeySharers(req[t].user) = {}
BY Zenon DEF Blockers, Holder

LEMMA FreeToCascade ==
    ASSUME NEW t \in Txns, pc[t] = "cascade", Blockers(t) = {}, NEW k \in Keys,
           k[1] = req[t].user
    PROVE  ratingLock[k] = NoTxn
<1>1. Blockers(t) = UNION {Holder(ratingLock[<<req[t].user, i>>]) : i \in Items}
  BY DEF Blockers
<1>2. \A i \in Items : Holder(ratingLock[<<req[t].user, i>>]) = {}
  BY <1>1
<1>3. \A i \in Items : ratingLock[<<req[t].user, i>>] = NoTxn
  BY <1>2 DEF Holder
<1>4. QED
  BY <1>3 DEF Keys

-----------------------------------------------------------------------------
(* One lemma per action: it preserves TypeInv.                             *)

\* A statement that only reads: rows and locks stay, t stores and moves on.
LEMMA ReadStep ==
    ASSUME TypeInv, NEW t \in Txns, Active(t), NEW label \in Statements \cup {"failed"},
           mem' \in [Txns -> Memory], Goto(t, label),
           label \in {"load", "select", "update"} => req[t].kind \in {"rate", "unrate", "hide"},
           label = "event" => req[t].kind = "rate",
           label = "find" => req[t].kind = "unrate",
           label = "cascade" => req[t].kind = "erase",
           label \in {"capture", "reset", "aggregate"} => req[t].kind \in {"ban", "erase"},
           label \in {"select", "update", "event", "commit"} /\ req[t].kind = "rate" =>
               pc[t] \in {"select", "update", "event", "commit"},
           UNCHANGED <<users, ratings, items, lastId, audit, req, solo>>
    PROVE  TypeInv'
<1>1. pc' = [pc EXCEPT ![t] = label]
  BY DEF Goto
<1>2. TypeOK'
  BY <1>1 DEF TypeInv, TypeOK, users, ratings, items
<1>3. Requesting'
  BY <1>1 DEF TypeInv, TypeOK, Requesting, Active
<1>4. Unlocked'
  BY DEF TypeInv, Unlocked, users, ratings
<1>5. Holding'
  BY <1>1 DEF TypeInv, TypeOK, Holding, Key, ratings
<1>6. QED
  BY <1>2, <1>3, <1>4, <1>5 DEF TypeInv

LEMMA BeginType == ASSUME TypeInv, NEW t \in Txns, Begin(t) PROVE TypeInv'
<1>1. PICK r \in Menu : Begin(t)!(r)
  BY DEF Begin
<1>2. /\ r \in Requests
      /\ r.kind \in {"rate", "unrate", "hide", "ban", "erase"}
      /\ r.kind \in {"rate", "unrate", "hide"} => <<r.user, r.item>> \in Keys
  BY RequestFields DEF Keys
<1>3. mem' \in [Txns -> Memory]
  <2>1. CASE r.kind = "hide"
    <3>1. rating[<<r.user, r.item>>] \in Rows
      BY <1>1, <1>2, <2>1 DEF TypeInv, TypeOK
    <3>2. /\ rating[<<r.user, r.item>>].id \in Nat
          /\ rating[<<r.user, r.item>>].hidden \in BOOLEAN
      BY <3>1 DEF Rows
    <3>3. mem' = [mem EXCEPT ![t].row = rating[<<r.user, r.item>>].id,
                             ![t].flag = rating[<<r.user, r.item>>].hidden]
      BY <1>1, <2>1
    <3>4. QED
      BY <3>2, <3>3, LocalsType DEF TypeInv
  <2>2. CASE r.kind = "ban"
    <3>1. mem' = [mem EXCEPT ![t].flag = (account[r.user] = "banned")]
      BY <1>1, <2>2
    <3>2. (account[r.user] = "banned") \in BOOLEAN
      OBVIOUS
    <3>3. QED
      BY <3>1, <3>2, LocalsType DEF TypeInv
  <2>3. CASE r.kind \notin {"hide", "ban"}
    BY <1>1, <2>3 DEF TypeInv, TypeOK
  <2>4. QED
    BY <2>1, <2>2, <2>3
<1>4. /\ req' = [req EXCEPT ![t] = r]
      /\ pc' = [pc EXCEPT ![t] = CASE r.kind \in {"rate", "unrate"} -> "load"
                                   [] r.kind = "hide" -> "write"
                                   [] OTHER -> "capture"]
  BY <1>1 DEF Goto
<1>5. solo' \in [Txns -> BOOLEAN]
  BY <1>1 DEF TypeInv, TypeOK
<1>6. TypeOK'
  BY <1>1, <1>3, <1>4, <1>5 DEF TypeInv, TypeOK, users, ratings, items, Statements
<1>7. Requesting'
  BY <1>2, <1>4 DEF TypeInv, TypeOK, Requesting, Active, Statements
<1>8. Unlocked' /\ Holding'
  BY <1>1, <1>2, <1>4 DEF TypeInv, TypeOK, Unlocked, Holding, Key, users, ratings
<1>9. QED
  BY <1>6, <1>7, <1>8 DEF TypeInv

LEMMA LoadItemType == ASSUME TypeInv, NEW t \in Txns, LoadItem(t) PROVE TypeInv'
<1> DEFINE label == CASE req[t].kind = "rate" -> "write"
                      [] req[t].kind = "unrate" -> "find"
                      [] OTHER -> "update"
<1>1. Active(t) /\ req[t].kind \in {"rate", "unrate", "hide"}
  BY DEF LoadItem, TypeInv, Requesting, Active, Statements
<1>2. agg[req[t].item] \in Aggregates
  BY <1>1, Running DEF TypeInv, TypeOK
<1>3. mem' \in [Txns -> Memory]
  BY <1>2, LocalsType DEF LoadItem, TypeInv
<1>4. /\ label \in Statements
      /\ label \in {"write", "find", "update"}
      /\ label = "find" => req[t].kind = "unrate"
      /\ label = "update" => req[t].kind = "hide"
  BY <1>1 DEF Statements
<1>5. Goto(t, label)
  BY DEF LoadItem
<1> HIDE DEF label
<1>6. QED
  BY <1>1, <1>3, <1>4, <1>5, ReadStep DEF LoadItem

LEMMA FindOwnRatingType == ASSUME TypeInv, NEW t \in Txns, FindOwnRating(t) PROVE TypeInv'
<1>1. Active(t) /\ req[t].kind = "unrate"
  BY DEF FindOwnRating, TypeInv, Requesting, Active, Statements
<1>2. CASE rating[Key(t)] = NoRating
  <2>1. mem' \in [Txns -> Memory] /\ Goto(t, "failed")
    BY <1>2 DEF FindOwnRating, TypeInv, TypeOK
  <2>2. QED
    BY <1>1, <2>1, ReadStep DEF FindOwnRating
<1>3. CASE rating[Key(t)] # NoRating
  <2>1. rating[Key(t)] \in Rows
    BY <1>1, <1>3, Running DEF TypeInv, TypeOK
  <2>2. rating[Key(t)].id \in Nat
    BY <2>1 DEF Rows
  <2>3. mem' = [mem EXCEPT ![t].row = rating[Key(t)].id] /\ Goto(t, "write")
    BY <1>3 DEF FindOwnRating
  <2>4. mem' \in [Txns -> Memory]
    BY <2>2, <2>3, LocalsType DEF TypeInv
  <2>5. QED
    BY <1>1, <2>3, <2>4, ReadStep DEF FindOwnRating, Statements
<1>4. QED
  BY <1>2, <1>3

LEMMA CaptureItemsType == ASSUME TypeInv, NEW t \in Txns, CaptureItems(t) PROVE TypeInv'
<1>1. mem' \in [Txns -> Memory]
  BY LocalsType DEF CaptureItems, TypeInv
<1>2. Active(t) /\ Goto(t, "write")
  BY DEF CaptureItems, Active, Statements
<1>3. QED
  BY <1>1, <1>2, ReadStep DEF CaptureItems, Statements

LEMMA SelectAggregateType == ASSUME TypeInv, NEW t \in Txns, SelectAggregate(t) PROVE TypeInv'
<1>1. Active(t) /\ req[t].kind \in {"rate", "unrate", "hide"}
  BY DEF SelectAggregate, TypeInv, Requesting, Active, Statements
<1>2. SingleAggregate(BallotSeen(t, req[t].item)) \in Aggregates
  BY <1>1, Running, BallotSeenType, AggregateType DEF TypeInv
<1>3. mem' \in [Txns -> Memory]
  BY <1>2, LocalsType DEF SelectAggregate, TypeInv
<1>4. CASE req[t].kind = "hide"
  <2>1. Goto(t, "load")
    BY <1>4 DEF SelectAggregate
  <2>2. QED
    BY <1>1, <1>3, <2>1, ReadStep DEF SelectAggregate, Statements
<1>5. CASE req[t].kind # "hide"
  <2>1. Goto(t, "update")
    BY <1>5 DEF SelectAggregate
  <2>2. QED
    BY <1>1, <1>3, <2>1, ReadStep DEF SelectAggregate, Statements
<1>6. QED
  BY <1>4, <1>5

LEMMA AbortType == ASSUME TypeInv, NEW t \in Txns, Abort(t) PROVE TypeInv'
<1>1. /\ accountW' \in [Users -> Accounts]
      /\ ratingW' \in [Keys -> Rows \cup {NoRating}]
      /\ aggW' \in [Items -> Aggregates]
  BY AfterTypes DEF Abort, TypeInv
<1>2. /\ userLock' \in [Users -> Txns \cup {NoTxn}]
      /\ ratingLock' \in [Keys -> Txns \cup {NoTxn}]
      /\ itemLock' \in [Items -> Txns \cup {NoTxn}]
      /\ mem' \in [Txns -> Memory]
  BY ReleaseType DEF Abort, TypeInv
<1>3. TypeOK'
  BY <1>1, <1>2 DEF Abort, Goto, TypeInv, TypeOK
<1>4. Requesting'
  BY DEF Abort, Goto, TypeInv, TypeOK, Requesting, Active, Statements
<1>5. Unlocked'
  BY DEF Abort, Release, AccountsAfter, RatingsAfter, TypeInv, TypeOK, Unlocked
<1>6. Holding'
  <2> SUFFICES ASSUME NEW s \in Txns,
                      pc'[s] \in {"select", "update", "event", "commit"}, req'[s].kind = "rate"
               PROVE  ratingLock'[Key(s)'] = s /\ ratingW'[Key(s)'] # NoRating
    BY DEF Holding
  <2>1. s # t /\ pc'[s] = pc[s] /\ req' = req
    BY DEF Abort, Goto, TypeInv, TypeOK
  <2>2. Active(s) /\ Key(s)' = Key(s)
    BY <2>1 DEF Active, Statements, Key
  <2>3. ratingLock[Key(s)] = s /\ ratingW[Key(s)] # NoRating /\ Key(s) \in Keys
    BY <2>1, <2>2, Running DEF TypeInv, Holding
  <2>4. QED
    BY <2>1, <2>2, <2>3 DEF Abort, Release, RatingsAfter
<1>7. QED
  BY <1>3, <1>4, <1>5, <1>6 DEF TypeInv

LEMMA CommitType == ASSUME TypeInv, NEW t \in Txns, Commit(t) PROVE TypeInv'
<1>1. /\ account' \in [Users -> Accounts]
      /\ rating' \in [Keys -> Rows \cup {NoRating}]
      /\ agg' \in [Items -> Aggregates]
  BY AfterTypes DEF Commit, TypeInv
<1>2. /\ userLock' \in [Users -> Txns \cup {NoTxn}]
      /\ ratingLock' \in [Keys -> Txns \cup {NoTxn}]
      /\ itemLock' \in [Items -> Txns \cup {NoTxn}]
      /\ mem' \in [Txns -> Memory]
  BY ReleaseType DEF Commit, TypeInv
<1>3. audit' \in Seq(Requests)
  <2>1. Active(t)
    BY DEF Commit, Active, Statements
  <2>2. req[t] \in Requests
    BY <2>1, Running
  <2>3. QED
    BY <2>2 DEF Commit, TypeInv, TypeOK
<1>4. TypeOK'
  BY <1>1, <1>2, <1>3 DEF Commit, Goto, TypeInv, TypeOK
<1>5. Requesting'
  BY DEF Commit, Goto, TypeInv, TypeOK, Requesting, Active, Statements
<1>6. Unlocked'
  BY DEF Commit, Release, AccountsAfter, RatingsAfter, TypeInv, TypeOK, Unlocked
<1>7. Holding'
  <2> SUFFICES ASSUME NEW s \in Txns,
                      pc'[s] \in {"select", "update", "event", "commit"}, req'[s].kind = "rate"
               PROVE  ratingLock'[Key(s)'] = s /\ ratingW'[Key(s)'] # NoRating
    BY DEF Holding
  <2>1. s # t /\ pc'[s] = pc[s] /\ req' = req /\ ratingW' = ratingW
    BY DEF Commit, Goto, TypeInv, TypeOK
  <2>2. Active(s) /\ Key(s)' = Key(s)
    BY <2>1 DEF Active, Statements, Key
  <2>3. ratingLock[Key(s)] = s /\ ratingW[Key(s)] # NoRating /\ Key(s) \in Keys
    BY <2>1, <2>2, Running DEF TypeInv, Holding
  <2>4. QED
    BY <2>1, <2>2, <2>3 DEF Commit, Release
<1>8. QED
  BY <1>4, <1>5, <1>6, <1>7 DEF TypeInv

\* A statement that writes: t changes only rows that it locks or already holds.
LEMMA WriteStep ==
    ASSUME TypeInv, NEW t \in Txns, Active(t), NEW label \in Statements,
           Goto(t, label),
           accountW' \in [Users -> Accounts], userLock' \in [Users -> Txns \cup {NoTxn}],
           ratingW' \in [Keys -> Rows \cup {NoRating}],
           ratingLock' \in [Keys -> Txns \cup {NoTxn}],
           aggW' \in [Items -> Aggregates], itemLock' \in [Items -> Txns \cup {NoTxn}],
           lastId' \in Nat, mem' \in [Txns -> Memory],
           UNCHANGED <<account, rating, agg, audit, req, solo>>,
           \A u \in Users : \/ userLock[u] \in {NoTxn, t} /\ userLock'[u] = t
                            \/ userLock'[u] = userLock[u] /\ accountW'[u] = accountW[u],
           \A k \in Keys : \/ ratingLock[k] \in {NoTxn, t} /\ ratingLock'[k] = t
                           \/ ratingLock'[k] = ratingLock[k] /\ ratingW'[k] = ratingW[k],
           label \in {"select", "update"} => req[t].kind \in {"rate", "unrate", "hide"},
           label = "cascade" => req[t].kind = "erase",
           label \in {"reset", "aggregate"} => req[t].kind \in {"ban", "erase"},
           label = "event" => req[t].kind = "rate",
           label \notin {"load", "find", "capture"},
           label \in {"select", "update", "event", "commit"} /\ req[t].kind = "rate" =>
               ratingLock'[Key(t)] = t /\ ratingW'[Key(t)] # NoRating
    PROVE  TypeInv'
<1>1. pc' = [pc EXCEPT ![t] = label]
  BY DEF Goto
<1>2. TypeOK'
  BY <1>1 DEF TypeInv, TypeOK
<1>3. Requesting'
  BY <1>1 DEF TypeInv, TypeOK, Requesting, Active
<1>4. Unlocked'
  BY RatingsAssumption DEF TypeInv, Unlocked
<1>5. Holding'
  <2> SUFFICES ASSUME NEW s \in Txns,
                      pc'[s] \in {"select", "update", "event", "commit"}, req'[s].kind = "rate"
               PROVE  ratingLock'[Key(s)'] = s /\ ratingW'[Key(s)'] # NoRating
    BY DEF Holding
  <2>1. req' = req /\ Key(s)' = Key(s)
    BY DEF Key
  <2>2. CASE s = t
    BY <1>1, <2>1, <2>2 DEF TypeInv, TypeOK
  <2>3. CASE s # t
    <3>1. pc'[s] = pc[s] /\ Active(s)
      BY <1>1, <2>3 DEF TypeInv, TypeOK, Active, Statements
    <3>2. ratingLock[Key(s)] = s /\ ratingW[Key(s)] # NoRating /\ Key(s) \in Keys
      BY <2>1, <3>1, Running DEF TypeInv, Holding
    <3>3. QED
      BY <2>1, <2>3, <3>2, RatingsAssumption
  <2>4. QED
    BY <2>2, <2>3
<1>6. QED
  BY <1>2, <1>3, <1>4, <1>5 DEF TypeInv

\* A row's score, text, flag or event may be overwritten.
LEMMA RowType ==
    ASSUME TypeOK, NEW k \in Keys, ratingW[k] # NoRating
    PROVE  /\ ratingW[k] \in Rows
           /\ \A score \in Scores \cup {NoScore}, text \in BOOLEAN :
                 /\ [ratingW[k] EXCEPT !.score = score, !.text = text] \in Rows
                 /\ [ratingW EXCEPT ![k].score = score, ![k].text = text]
                       = [ratingW EXCEPT ![k] = [ratingW[k] EXCEPT !.score = score, !.text = text]]
           /\ \A b \in BOOLEAN :
                 /\ [ratingW[k] EXCEPT !.hidden = b] \in Rows
                 /\ [ratingW[k] EXCEPT !.event = b] \in Rows
<1>1. ratingW[k] \in Rows
  BY DEF TypeOK
<1>2. \A score \in Scores \cup {NoScore}, text \in BOOLEAN :
         [ratingW[k] EXCEPT !.score = score, !.text = text] \in Rows
  BY <1>1 DEF Rows
<1>3. \A score, text :
         [ratingW EXCEPT ![k].score = score, ![k].text = text]
            = [ratingW EXCEPT ![k] = [ratingW[k] EXCEPT !.score = score, !.text = text]]
  BY DEF TypeOK
<1>4. \A b \in BOOLEAN : [ratingW[k] EXCEPT !.hidden = b] \in Rows
  BY <1>1 DEF Rows
<1>5. \A b \in BOOLEAN : [ratingW[k] EXCEPT !.event = b] \in Rows
  BY <1>1 DEF Rows
<1>6. QED
  BY <1>1, <1>2, <1>3, <1>4, <1>5

LEMMA UpsertRatingType == ASSUME TypeInv, NEW t \in Txns, UpsertRating(t) PROVE TypeInv'
<1>1. Active(t) /\ req[t].kind = "rate" /\ pc[t] = "write" /\ Blockers(t) = {}
  BY DEF UpsertRating, Active, Statements
<1>2. /\ Key(t) \in Keys
      /\ req[t].score \in Scores \cup {NoScore}
      /\ req[t].text \in BOOLEAN
  BY <1>1, Running
<1>3. ratingLock[Key(t)] = NoTxn /\ ratingW[Key(t)] = rating[Key(t)]
  BY <1>1, <1>2, FreeToWrite DEF TypeInv, Unlocked
<1>4. CASE rating[Key(t)] # NoRating
  <2> DEFINE row == [ratingW[Key(t)] EXCEPT !.score = req[t].score, !.text = req[t].text]
  <2>1. row \in Rows
    BY <1>2, <1>3, <1>4, RowType DEF TypeInv
  <2>2. ratingW' = [ratingW EXCEPT ![Key(t)] = row]
    BY <1>2, <1>3, <1>4, RowType DEF UpsertRating, TypeInv
  <2>3. row # NoRating
    BY <2>1, RatingsAssumption
  <2> HIDE DEF row
  <2>4. /\ ratingLock' = [ratingLock EXCEPT ![Key(t)] = t]
        /\ Goto(t, "select")
        /\ UNCHANGED <<users, items, rating, lastId, audit, req, mem, solo>>
    BY <1>4 DEF UpsertRating
  <2>5. /\ ratingW' \in [Keys -> Rows \cup {NoRating}]
        /\ ratingLock' \in [Keys -> Txns \cup {NoTxn}]
    BY <2>1, <2>2, <2>4 DEF TypeInv, TypeOK
  <2>6. QED
    BY <1>1, <1>2, <1>3, <2>2, <2>3, <2>4, <2>5, WriteStep
       DEF TypeInv, TypeOK, users, items, Statements
<1>5. CASE rating[Key(t)] = NoRating /\ account[req[t].user] = "gone"
  BY <1>5, AbortType DEF UpsertRating
<1>6. CASE rating[Key(t)] = NoRating /\ account[req[t].user] # "gone"
  <2> DEFINE row == [id |-> lastId + 1, score |-> req[t].score, text |-> req[t].text,
                     hidden |-> FALSE, event |-> FALSE]
  <2>1. row \in Rows
    BY <1>2 DEF Rows, TypeInv, TypeOK
  <2>2. row # NoRating
    BY <2>1, RatingsAssumption
  <2>3. ratingW' = [ratingW EXCEPT ![Key(t)] = row]
    BY <1>6 DEF UpsertRating
  <2> HIDE DEF row
  <2>4. /\ ratingLock' = [ratingLock EXCEPT ![Key(t)] = t]
        /\ lastId' = lastId + 1
        /\ mem' = [mem EXCEPT ![t].share = TRUE]
        /\ Goto(t, "select")
        /\ UNCHANGED <<users, items, rating, audit, req, solo>>
    BY <1>6 DEF UpsertRating
  <2>5. mem' \in [Txns -> Memory]
    BY <2>4, LocalsType DEF TypeInv
  <2>6. /\ ratingW' \in [Keys -> Rows \cup {NoRating}]
        /\ ratingLock' \in [Keys -> Txns \cup {NoTxn}]
    BY <2>1, <2>3, <2>4 DEF TypeInv, TypeOK
  <2>7. lastId' \in Nat
    BY <2>4 DEF TypeInv, TypeOK
  <2>8. QED
    BY <1>1, <1>2, <1>3, <2>2, <2>3, <2>4, <2>5, <2>6, <2>7, WriteStep
       DEF TypeInv, TypeOK, users, items, Statements
<1>7. QED
  BY <1>4, <1>5, <1>6

LEMMA DeleteRatingType == ASSUME TypeInv, NEW t \in Txns, DeleteRating(t) PROVE TypeInv'
<1>1. /\ Active(t) /\ req[t].kind = "unrate" /\ pc[t] = "write" /\ Blockers(t) = {}
      /\ Goto(t, "select")
      /\ UNCHANGED <<users, items, rating, lastId, audit, req, mem, solo>>
  BY DEF DeleteRating, Active, Statements
<1>2. Key(t) \in Keys
  BY <1>1, Running
<1>3. CASE StillThere(t)
  <2>1. ratingLock[Key(t)] = NoTxn
    BY <1>1, <1>3, FreeToWrite
  <2>2. /\ ratingW' = [ratingW EXCEPT ![Key(t)] = NoRating]
        /\ ratingLock' = [ratingLock EXCEPT ![Key(t)] = t]
    BY <1>3 DEF DeleteRating
  <2>3. QED
    BY <1>1, <1>2, <2>1, <2>2, WriteStep DEF TypeInv, TypeOK, users, items, Statements
<1>4. CASE ~StillThere(t)
  <2>1. UNCHANGED <<ratingW, ratingLock>>
    BY <1>4 DEF DeleteRating
  <2>2. QED
    BY <1>1, <2>1, WriteStep DEF TypeInv, TypeOK, users, items, Statements
<1>5. QED
  BY <1>3, <1>4

LEMMA WriteHiddenType == ASSUME TypeInv, NEW t \in Txns, WriteHidden(t) PROVE TypeInv'
<1>1. Active(t) /\ req[t].kind = "hide" /\ pc[t] = "write" /\ Blockers(t) = {}
  BY DEF WriteHidden, Active, Statements
<1>2. Key(t) \in Keys /\ req[t].flag \in BOOLEAN
  BY <1>1, Running
<1>3. CASE ~SetsFlag(t)
  <2>1. /\ Goto(t, "select")
        /\ UNCHANGED <<users, ratings, items, lastId, audit, req, mem, solo>>
    BY <1>3 DEF WriteHidden
  <2>2. QED
    BY <1>1, <2>1, ReadStep DEF TypeInv, TypeOK, Statements
<1>4. CASE SetsFlag(t) /\ ~StillThere(t)
  BY <1>4, AbortType DEF WriteHidden
<1>5. CASE SetsFlag(t) /\ StillThere(t)
  <2> DEFINE row == [ratingW[Key(t)] EXCEPT !.hidden = req[t].flag]
  <2>1. ratingLock[Key(t)] = NoTxn
    BY <1>1, <1>5, FreeToWrite
  <2>2. ratingW[Key(t)] # NoRating
    BY <1>2, <1>5, <2>1 DEF StillThere, TypeInv, Unlocked
  <2>3. row \in Rows
    BY <1>2, <2>2, RowType DEF TypeInv
  <2>4. ratingW' = [ratingW EXCEPT ![Key(t)] = row]
    BY <1>2, <1>5 DEF WriteHidden, TypeInv, TypeOK
  <2> HIDE DEF row
  <2>5. /\ ratingLock' = [ratingLock EXCEPT ![Key(t)] = t]
        /\ Goto(t, "select")
        /\ UNCHANGED <<users, items, rating, lastId, audit, req, mem, solo>>
    BY <1>5 DEF WriteHidden
  <2>6. /\ ratingW' \in [Keys -> Rows \cup {NoRating}]
        /\ ratingLock' \in [Keys -> Txns \cup {NoTxn}]
    BY <2>3, <2>4, <2>5 DEF TypeInv, TypeOK
  <2>7. QED
    BY <1>1, <1>2, <2>1, <2>4, <2>5, <2>6, WriteStep DEF TypeInv, TypeOK, users, items, Statements
<1>6. QED
  BY <1>3, <1>4, <1>5

LEMMA WriteBannedType == ASSUME TypeInv, NEW t \in Txns, WriteBanned(t) PROVE TypeInv'
<1>1. /\ Active(t) /\ req[t].kind = "ban" /\ pc[t] = "write" /\ Blockers(t) = {}
      /\ AfterWrite(t) \in {"commit", "reset"}
  BY DEF WriteBanned, AfterWrite, Active, Statements
<1>2. req[t].user \in Users
  BY <1>1, Running
<1>3. CASE ~SetsFlag(t)
  <2>1. /\ Goto(t, AfterWrite(t))
        /\ UNCHANGED <<users, ratings, items, lastId, audit, req, mem, solo>>
    BY <1>3 DEF WriteBanned
  <2>2. QED
    BY <1>1, <2>1, ReadStep DEF TypeInv, TypeOK, Statements
<1>4. CASE SetsFlag(t) /\ account[req[t].user] = "gone"
  BY <1>4, AbortType DEF WriteBanned
<1>5. CASE SetsFlag(t) /\ account[req[t].user] # "gone"
  <2>1. userLock[req[t].user] = NoTxn
    BY <1>1, <1>5, FreeToWrite
  <2>2. /\ accountW' = [accountW EXCEPT ![req[t].user] =
                           IF req[t].flag THEN "banned" ELSE "active"]
        /\ userLock' = [userLock EXCEPT ![req[t].user] = t]
        /\ Goto(t, AfterWrite(t))
        /\ UNCHANGED <<ratings, items, account, lastId, audit, req, mem, solo>>
    BY <1>5 DEF WriteBanned
  <2>3. accountW' \in [Users -> Accounts] /\ userLock' \in [Users -> Txns \cup {NoTxn}]
    BY <2>2 DEF TypeInv, TypeOK, Accounts
  <2>4. QED
    BY <1>1, <1>2, <2>1, <2>2, <2>3, WriteStep DEF TypeInv, TypeOK, ratings, items, Statements
<1>6. QED
  BY <1>3, <1>4, <1>5

LEMMA DeleteUserType == ASSUME TypeInv, NEW t \in Txns, DeleteUser(t) PROVE TypeInv'
<1>1. /\ Active(t) /\ req[t].kind = "erase" /\ pc[t] = "write" /\ Blockers(t) = {}
      /\ AfterWrite(t) \in {"commit", "reset"}
      /\ UNCHANGED <<ratings, items, account, lastId, audit, req, mem, solo>>
  BY DEF DeleteUser, AfterWrite, Active, Statements
<1>2. req[t].user \in Users /\ userLock[req[t].user] = NoTxn
  BY <1>1, Running, FreeToWrite
<1>3. CASE account[req[t].user] # "gone"
  <2>1. /\ accountW' = [accountW EXCEPT ![req[t].user] = "gone"]
        /\ userLock' = [userLock EXCEPT ![req[t].user] = t]
        /\ Goto(t, "cascade")
    BY <1>3 DEF DeleteUser
  <2>2. accountW' \in [Users -> Accounts] /\ userLock' \in [Users -> Txns \cup {NoTxn}]
    BY <2>1 DEF TypeInv, TypeOK, Accounts
  <2>3. QED
    BY <1>1, <1>2, <2>1, <2>2, WriteStep DEF TypeInv, TypeOK, ratings, items, Statements
<1>4. CASE account[req[t].user] = "gone"
  <2>1. Goto(t, AfterWrite(t)) /\ UNCHANGED <<accountW, userLock>>
    BY <1>4 DEF DeleteUser
  <2>2. QED
    BY <1>1, <2>1, WriteStep DEF TypeInv, TypeOK, ratings, items, Statements
<1>5. QED
  BY <1>3, <1>4

LEMMA CascadeRatingsType == ASSUME TypeInv, NEW t \in Txns, CascadeRatings(t) PROVE TypeInv'
<1> DEFINE doomed == {k \in Keys : k[1] = req[t].user /\ rating[k] # NoRating}
<1>1. /\ Active(t) /\ req[t].kind = "erase" /\ pc[t] = "cascade" /\ Blockers(t) = {}
      /\ AfterWrite(t) \in {"commit", "reset"}
      /\ Goto(t, AfterWrite(t))
      /\ UNCHANGED <<users, items, rating, lastId, audit, req, mem, solo>>
      /\ ratingW' = [k \in Keys |-> IF k \in doomed THEN NoRating ELSE ratingW[k]]
      /\ ratingLock' = [k \in Keys |-> IF k \in doomed THEN t ELSE ratingLock[k]]
  BY DEF CascadeRatings, AfterWrite, Active, Statements, TypeInv, Requesting
<1>2. \A k \in doomed : ratingLock[k] = NoTxn
  BY <1>1, FreeToCascade
<1> HIDE DEF doomed
<1>3. /\ ratingW' \in [Keys -> Rows \cup {NoRating}]
      /\ ratingLock' \in [Keys -> Txns \cup {NoTxn}]
  BY <1>1 DEF TypeInv, TypeOK
<1>4. QED
  BY <1>1, <1>2, <1>3, WriteStep DEF TypeInv, TypeOK, users, items, Statements

LEMMA UpdateItemType == ASSUME TypeInv, NEW t \in Txns, UpdateItem(t) PROVE TypeInv'
<1> DEFINE label == IF req[t].kind = "rate" THEN "event" ELSE "commit"
<1>1. /\ Active(t) /\ req[t].kind \in {"rate", "unrate", "hide"} /\ pc[t] = "update"
      /\ Goto(t, label)
      /\ UNCHANGED <<users, ratings, agg, lastId, audit, req, mem, solo>>
  BY DEF UpdateItem, Active, Statements, TypeInv, Requesting
<1>2. /\ label \in {"event", "commit"} /\ label \in Statements
      /\ label = "event" => req[t].kind = "rate"
  BY DEF Statements
<1> HIDE DEF label
<1>3. req[t].item \in Items
  BY <1>1, Running
<1>4. aggW' \in [Items -> Aggregates] /\ itemLock' \in [Items -> Txns \cup {NoTxn}]
  <2>1. /\ mem[t].seen \in Aggregates /\ mem[t].calc \in Aggregates
        /\ agg[req[t].item] \in Aggregates
    BY <1>3 DEF TypeInv, TypeOK, Memory
  <2>2. [avg |-> IF mem[t].calc.avg # mem[t].seen.avg
                 THEN mem[t].calc.avg ELSE agg[req[t].item].avg,
         count |-> IF mem[t].calc.count # mem[t].seen.count
                   THEN mem[t].calc.count ELSE agg[req[t].item].count] \in Aggregates
    BY <2>1 DEF Aggregates
  <2>3. QED
    BY <2>2 DEF UpdateItem, TypeInv, TypeOK
<1>5. req[t].kind = "rate" => ratingLock[Key(t)] = t /\ ratingW[Key(t)] # NoRating
  BY <1>1 DEF TypeInv, Holding
<1>6. QED
  BY <1>1, <1>2, <1>4, <1>5, WriteStep DEF TypeInv, TypeOK, users, ratings

LEMMA WriteEventType == ASSUME TypeInv, NEW t \in Txns, WriteEvent(t) PROVE TypeInv'
<1> DEFINE row == [ratingW[Key(t)] EXCEPT !.event = HasContent(ratingW[Key(t)])]
<1>1. /\ Active(t) /\ req[t].kind = "rate" /\ pc[t] = "event"
      /\ Goto(t, "commit")
      /\ mem' = [mem EXCEPT ![t].share = mem[t].share \/ InsertsEvent(t)]
      /\ UNCHANGED <<users, rating, ratingLock, items, lastId, audit, req, solo>>
  BY DEF WriteEvent, Active, Statements, TypeInv, Requesting
<1>2. Key(t) \in Keys /\ ratingLock[Key(t)] = t /\ ratingW[Key(t)] # NoRating
  BY <1>1, Running DEF TypeInv, Holding
<1>3. row \in Rows
  <2>1. HasContent(ratingW[Key(t)]) \in BOOLEAN
    BY DEF HasContent
  <2>2. QED
    BY <1>2, <2>1, RowType DEF TypeInv
<1>4. ratingW' = [ratingW EXCEPT ![Key(t)] = row]
  BY <1>2 DEF WriteEvent, TypeInv, TypeOK
<1>5. row # NoRating
  BY <1>3, RatingsAssumption
<1> HIDE DEF row
<1>6. mem' \in [Txns -> Memory]
  <2>1. mem[t].share \in BOOLEAN /\ InsertsEvent(t) \in BOOLEAN
    BY DEF TypeInv, TypeOK, Memory, InsertsEvent
  <2>2. (mem[t].share \/ InsertsEvent(t)) \in BOOLEAN
    OBVIOUS
  <2>3. QED
    BY <1>1, <2>2, LocalsType DEF TypeInv
<1>7. ratingW' \in [Keys -> Rows \cup {NoRating}]
  BY <1>3, <1>4 DEF TypeInv, TypeOK
<1>8. QED
  BY <1>1, <1>2, <1>4, <1>5, <1>6, <1>7, WriteStep DEF TypeInv, TypeOK, users, items, Statements

LEMMA ResetItemType == ASSUME TypeInv, NEW t \in Txns, ResetItem(t) PROVE TypeInv'
<1>1. PICK i \in mem[t].todo : ResetItem(t)!(i)
  BY DEF ResetItem
<1> DEFINE label == IF mem[t].todo = {i} THEN "aggregate" ELSE "reset"
<1>2. mem[t].todo \subseteq Items
  BY DEF TypeInv, TypeOK, Memory
<1>3. /\ Active(t) /\ req[t].kind \in {"ban", "erase"} /\ itemLock[i] = NoTxn
      /\ Goto(t, label)
      /\ aggW' = [aggW EXCEPT ![i] = NoRatings]
      /\ itemLock' = [itemLock EXCEPT ![i] = t]
      /\ mem' = [mem EXCEPT ![t].todo = mem[t].todo \ {i}]
      /\ UNCHANGED <<users, ratings, agg, lastId, audit, req, solo>>
  BY <1>1 DEF Active, Statements, TypeInv, TypeOK, Requesting
<1>4. label \in {"aggregate", "reset"} /\ label \in Statements
  BY DEF Statements
<1> HIDE DEF label
<1>5. mem' \in [Txns -> Memory]
  BY <1>2, <1>3, LocalsType DEF TypeInv
<1>6. aggW' \in [Items -> Aggregates] /\ itemLock' \in [Items -> Txns \cup {NoTxn}]
  BY <1>3, NoRatingsType DEF TypeInv, TypeOK
<1>7. QED
  BY <1>3, <1>4, <1>5, <1>6, WriteStep DEF TypeInv, TypeOK, users, ratings

LEMMA AggregateItemsType == ASSUME TypeInv, NEW t \in Txns, AggregateItems(t) PROVE TypeInv'
<1>1. /\ Active(t) /\ req[t].kind \in {"ban", "erase"} /\ Goto(t, "commit")
      /\ UNCHANGED <<users, ratings, agg, itemLock, lastId, audit, req, mem, solo>>
  BY DEF AggregateItems, Active, Statements, TypeInv, Requesting
<1>2. \A i \in Items : BatchAggregate(BallotSeen(t, i)) \in Aggregates
  BY BallotSeenType, AggregateType DEF TypeInv
<1>3. aggW' \in [Items -> Aggregates]
  BY <1>2 DEF AggregateItems, TypeInv, TypeOK
<1>4. QED
  BY <1>1, <1>3, WriteStep DEF TypeInv, TypeOK, users, ratings, Statements

LEMMA NextType == TypeInv /\ [Next]_vars => TypeInv'
<1> SUFFICES ASSUME TypeInv, [Next]_vars PROVE TypeInv'
  OBVIOUS
<1>1. ASSUME NEW t \in Txns, Begin(t) \/ Statement(t) \/ Crash(t)
      PROVE  TypeInv'
  BY <1>1, BeginType, LoadItemType, FindOwnRatingType, CaptureItemsType, UpsertRatingType,
     DeleteRatingType, WriteHiddenType, WriteBannedType, DeleteUserType, CascadeRatingsType,
     SelectAggregateType, UpdateItemType, WriteEventType, ResetItemType, AggregateItemsType,
     CommitType, AbortType DEF Statement, DeadlockVictim, Crash
<1>2. CASE UNCHANGED vars
  BY <1>2 DEF vars, users, ratings, items, TypeInv, TypeOK, Requesting, Unlocked, Holding,
              Active, Key
<1>3. QED
  BY <1>1, <1>2 DEF Next

LEMMA TypeInvariant == Spec => []TypeInv
<1>1. QED
  BY TypeInit, NextType, PTL DEF Spec

(***************************************************************************)
(* Every variable keeps its type: in particular no statement computes an   *)
(* aggregate that could not be the mean and the count of some ballots, and *)
(* no row is written that nobody holds.                                    *)
(***************************************************************************)
THEOREM TypeCorrect == Spec => []TypeOK
<1>1. TypeInv => TypeOK
  BY DEF TypeInv
<1>2. QED
  BY <1>1, TypeInvariant, PTL

-----------------------------------------------------------------------------
(* 2. Reviews, their events and erased accounts                            *)

\* KEY SHARE on a user row: an account that exists and that nobody is deleting.
Sharing ==
    \A t \in Txns :
        mem[t].share =>
            /\ Active(t) /\ req[t].kind = "rate"
            /\ account[req[t].user] # "gone"
            /\ Eraser(req[t].user) = {}

\* A users row is held by a ban or an erasure of this very user.
UserHolders ==
    \A u \in Users, t \in Txns :
        userLock[u] = t =>
            /\ pc[t] \in {"cascade", "reset", "aggregate", "commit"}
            /\ req[t].user = u
            /\ req[t].kind \in {"ban", "erase"}
            /\ req[t].kind = "erase" <=> accountW[u] = "gone"

\* A user_ratings row is held by a request that names it, or by its owner's erasure.
\* Only rate_item creates one, under KEY SHARE, and only rate_item has a version whose
\* event is still to be written.
RatingHolders ==
    \A k \in Keys, t \in Txns :
        ratingLock[k] = t =>
            /\ \/ pc[t] \in {"select", "update", "event", "reset", "aggregate", "commit"}
               \/ pc[t] = "load" /\ req[t].kind = "hide"
            /\ \/ req[t].kind \in {"rate", "unrate", "hide"} /\ k = Key(t)
               \/ req[t].kind = "erase" /\ ratingW[k] = NoRating
            /\ ratingW[k] # NoRating /\ rating[k] = NoRating =>
                  req[t].kind = "rate" /\ mem[t].share
            /\ ratingW[k] # NoRating =>
                  \/ ratingW[k].event <=> HasContent(ratingW[k])
                  \/ req[t].kind = "rate" /\ pc[t] \in {"select", "update", "event"}

\* Past its cascade an erasure holds, deleted, every committed review of its user.
Cascaded ==
    \A t \in Txns, i \in Items :
        /\ req[t] # NoRequest /\ req[t].kind = "erase"
        /\ userLock[req[t].user] = t
        /\ pc[t] # "cascade"
        /\ rating[<<req[t].user, i>>] # NoRating
        => ratingLock[<<req[t].user, i>>] = t

SafetyInv ==
    /\ TypeInv
    /\ EventIffContent
    /\ ErasedUserLeavesNoRows
    /\ Sharing
    /\ UserHolders
    /\ RatingHolders
    /\ Cascaded

LEMMA SafetyInit == Init => SafetyInv
<1> SUFFICES ASSUME Init PROVE SafetyInv
  OBVIOUS
<1>1. TypeInv
  BY TypeInit
<1>2. EventIffContent
  BY RatingsAssumption DEF Init, EventIffContent
<1>3. ErasedUserLeavesNoRows
  BY DEF Init, ErasedUserLeavesNoRows
<1>4. Sharing
  BY DEF Init, Sharing, Blank
<1>5. UserHolders /\ RatingHolders /\ Cascaded
  BY RatingsAssumption DEF Init, UserHolders, RatingHolders, Cascaded
<1>6. QED
  BY <1>1, <1>2, <1>3, <1>4, <1>5 DEF SafetyInv

\* A statement that touches no users and no user_ratings row.
LEMMA QuietStep ==
    ASSUME SafetyInv, TypeInv', NEW t \in Txns, Active(t), NEW label, Goto(t, label),
           label \in Statements \/ pc[t] = "find",
           pc[t] \in {"load", "find", "capture", "write", "select", "update", "reset", "aggregate"},
           pc[t] = "load" /\ req[t].kind = "hide" => label = "update",
           pc[t] = "select" => \/ label = "update"
                               \/ label = "load" /\ req[t].kind = "hide",
           pc[t] = "update" => label = IF req[t].kind = "rate" THEN "event" ELSE "commit",
           pc[t] \in {"reset", "aggregate"} => label \in {"reset", "aggregate", "commit"},
           \A s \in Txns : mem'[s].share = mem[s].share,
           UNCHANGED <<users, ratings, req>>
    PROVE  SafetyInv'
<1>1. pc' = [pc EXCEPT ![t] = label]
  BY DEF Goto
<1>2. /\ UNCHANGED <<account, accountW, userLock, rating, ratingW, ratingLock, req>>
      /\ \A s \in Txns : Key(s)' = Key(s)
  BY DEF users, ratings, Key
<1>3. EventIffContent' /\ ErasedUserLeavesNoRows'
  BY <1>2 DEF SafetyInv, EventIffContent, ErasedUserLeavesNoRows
<1>4. Sharing'
  <2> SUFFICES ASSUME NEW s \in Txns, mem'[s].share
               PROVE  /\ Active(s)' /\ req'[s].kind = "rate"
                      /\ account'[req'[s].user] # "gone"
                      /\ Eraser(req[s].user)' = {}
    BY <1>2 DEF Sharing
  <2>1. /\ Active(s) /\ req[s].kind = "rate"
        /\ account[req[s].user] # "gone"
        /\ Eraser(req[s].user) = {}
    BY DEF SafetyInv, Sharing
  <2>2. Active(s)'
    BY <1>1, <2>1 DEF SafetyInv, TypeInv, TypeOK, Requesting, Active
  <2>3. QED
    BY <1>2, <2>1, <2>2 DEF Eraser, Holder
<1>5. UserHolders'
  BY <1>1, <1>2 DEF SafetyInv, UserHolders, TypeInv, TypeOK
<1>6. RatingHolders'
  BY <1>1, <1>2 DEF SafetyInv, RatingHolders, TypeInv, TypeOK
<1>7. Cascaded'
  <2> SUFFICES ASSUME NEW s \in Txns, NEW i \in Items,
                      req[s] # NoRequest, req[s].kind = "erase",
                      userLock[req[s].user] = s, pc'[s] # "cascade",
                      rating[<<req[s].user, i>>] # NoRating
               PROVE  ratingLock[<<req[s].user, i>>] = s
    BY <1>2 DEF Cascaded
  <2>1. pc[s] # "cascade"
    BY <1>1 DEF SafetyInv, TypeInv, TypeOK
  <2>2. QED
    BY <2>1 DEF SafetyInv, Cascaded
<1>8. QED
  BY <1>3, <1>4, <1>5, <1>6, <1>7 DEF SafetyInv

\* A statement that writes the one user_ratings row its request names.
LEMMA RatingStep ==
    ASSUME SafetyInv, TypeInv', NEW t \in Txns,
           pc[t] \in {"write", "event"}, pc'[t] \in {"select", "commit"},
           \A s \in Txns \ {t} : pc'[s] = pc[s],
           req[t].kind \in {"rate", "unrate", "hide"},
           Key(t) \in Keys, ratingLock[Key(t)] \in {NoTxn, t}, ratingLock'[Key(t)] = t,
           \A k \in Keys \ {Key(t)} :
               ratingW'[k] = ratingW[k] /\ ratingLock'[k] = ratingLock[k],
           ratingW'[Key(t)] # NoRating /\ rating[Key(t)] = NoRating =>
               req[t].kind = "rate" /\ mem'[t].share,
           ratingW'[Key(t)] # NoRating =>
               \/ ratingW'[Key(t)].event <=> HasContent(ratingW'[Key(t)])
               \/ req[t].kind = "rate" /\ pc'[t] = "select",
           \A s \in Txns \ {t} : mem'[s].share = mem[s].share,
           mem[t].share => mem'[t].share,
           mem'[t].share => \/ mem[t].share
                            \/ /\ req[t].kind = "rate"
                               /\ account[req[t].user] # "gone"
                               /\ Eraser(req[t].user) = {},
           UNCHANGED <<users, rating, req>>
    PROVE  SafetyInv'
<1>1. \A s \in Txns \ {t} : pc'[s] = pc[s]
  OBVIOUS
<1>2. /\ UNCHANGED <<account, accountW, userLock, rating, req>>
      /\ \A s \in Txns : Key(s)' = Key(s)
      /\ \A u \in Users : Eraser(u)' = Eraser(u)
  BY DEF users, Key, Eraser, Holder
<1>3. EventIffContent' /\ ErasedUserLeavesNoRows'
  BY <1>2 DEF SafetyInv, EventIffContent, ErasedUserLeavesNoRows
<1>4. Sharing'
  <2> SUFFICES ASSUME NEW s \in Txns, mem'[s].share
               PROVE  /\ Active(s)' /\ req'[s].kind = "rate"
                      /\ account'[req'[s].user] # "gone"
                      /\ Eraser(req[s].user)' = {}
    BY <1>2 DEF Sharing
  <2>1. /\ Active(s) /\ req[s].kind = "rate"
        /\ account[req[s].user] # "gone"
        /\ Eraser(req[s].user) = {}
    BY DEF SafetyInv, Sharing, Active, Statements
  <2>2. Active(s)'
    BY <1>1, <2>1 DEF SafetyInv, TypeInv, TypeOK, Active, Statements
  <2>3. QED
    BY <1>2, <2>1, <2>2 DEF Eraser, Holder
<1>5. UserHolders'
  <2> SUFFICES ASSUME NEW u \in Users, NEW s \in Txns, userLock[u] = s
               PROVE  UserHolders!(u, s)'
    BY <1>2 DEF UserHolders
  <2>1. UserHolders!(u, s) /\ s # t
    BY DEF SafetyInv, UserHolders
  <2>2. QED
    BY <1>1, <1>2, <2>1
<1>6. RatingHolders'
  <2> SUFFICES ASSUME NEW k \in Keys, NEW s \in Txns, ratingLock'[k] = s
               PROVE  RatingHolders!(k, s)'
    BY DEF RatingHolders
  <2>1. CASE k = Key(t)
    <3>1. s = t
      BY <2>1
    <3>2. QED
      BY <1>1, <1>2, <2>1, <3>1
  <2>2. CASE k # Key(t)
    <3>1. /\ ratingLock[k] = s /\ ratingW'[k] = ratingW[k]
          /\ RatingHolders!(k, s)
      BY <2>2 DEF SafetyInv, TypeInv, TypeOK, RatingHolders
    <3>2. s # t
      BY <2>2, <3>1
    <3>3. QED
      BY <1>1, <1>2, <3>1, <3>2 DEF SafetyInv, TypeInv, TypeOK
  <2>3. QED
    BY <2>1, <2>2
<1>7. Cascaded'
  <2> SUFFICES ASSUME NEW s \in Txns, NEW i \in Items,
                      req[s] # NoRequest, req[s].kind = "erase",
                      userLock[req[s].user] = s, pc'[s] # "cascade",
                      rating[<<req[s].user, i>>] # NoRating
               PROVE  ratingLock'[<<req[s].user, i>>] = s
    BY <1>2 DEF Cascaded
  <2>1. s # t /\ pc[s] # "cascade"
    BY <1>1
  <2>2. <<req[s].user, i>> \in Keys
    BY RequestFields DEF SafetyInv, TypeInv, TypeOK, Keys
  <2>3. ratingLock[<<req[s].user, i>>] = s
    BY <2>1 DEF SafetyInv, Cascaded
  <2>4. <<req[s].user, i>> # Key(t)
    BY <2>1, <2>3, RatingsAssumption
  <2>5. QED
    BY <2>2, <2>3, <2>4
<1>8. QED
  BY <1>3, <1>4, <1>5, <1>6, <1>7 DEF SafetyInv

LEMMA BeginSafety == ASSUME SafetyInv, NEW t \in Txns, Begin(t) PROVE SafetyInv'
<1>1. PICK r \in Menu : Begin(t)!(r)
  BY DEF Begin
<1>2. /\ pc[t] = "idle" /\ ~Active(t)
      /\ req' = [req EXCEPT ![t] = r]
      /\ \A s \in Txns \ {t} : pc'[s] = pc[s] /\ req'[s] = req[s] /\ mem'[s] = mem[s]
      /\ UNCHANGED <<account, accountW, userLock, rating, ratingW, ratingLock>>
  BY <1>1 DEF Goto, SafetyInv, TypeInv, TypeOK, users, ratings, Active, Statements
<1>3. mem'[t].share = mem[t].share
  <2>1. mem \in [Txns -> Memory]
    BY DEF SafetyInv, TypeInv, TypeOK
  <2>2. CASE r.kind = "hide"
    BY <1>1, <2>1, <2>2 DEF Memory
  <2>3. CASE r.kind = "ban"
    BY <1>1, <2>1, <2>3 DEF Memory
  <2>4. CASE r.kind \notin {"hide", "ban"}
    BY <1>1, <2>4
  <2>5. QED
    BY <2>2, <2>3, <2>4
<1>4. ~mem'[t].share
  BY <1>2, <1>3 DEF SafetyInv, Sharing
<1>5. \A u \in Users : userLock[u] # t
  BY <1>2 DEF SafetyInv, UserHolders
<1>6. \A k \in Keys : ratingLock[k] # t
  BY <1>2 DEF SafetyInv, RatingHolders
<1>7. TypeInv'
  BY BeginType DEF SafetyInv
<1>8. EventIffContent' /\ ErasedUserLeavesNoRows'
  BY <1>2 DEF SafetyInv, EventIffContent, ErasedUserLeavesNoRows
<1>9. Sharing'
  <2> SUFFICES ASSUME NEW s \in Txns, mem'[s].share
               PROVE  /\ Active(s)' /\ req'[s].kind = "rate"
                      /\ account'[req'[s].user] # "gone"
                      /\ Eraser(req[s].user)' = {}
    BY <1>2, <1>4 DEF Sharing
  <2>1. s # t
    BY <1>4
  <2>2. /\ Active(s) /\ req[s].kind = "rate"
        /\ account[req[s].user] # "gone"
        /\ Eraser(req[s].user) = {}
    BY <1>2, <2>1 DEF SafetyInv, Sharing
  <2>3. Active(s)' /\ req[s].user \in Users
    BY <1>2, <2>1, <2>2, Running DEF Active, SafetyInv
  <2>4. userLock[req[s].user] \in Txns \cup {NoTxn}
    BY <2>3 DEF SafetyInv, TypeInv, TypeOK
  <2>5. Eraser(req[s].user)' = {}
    BY <1>2, <1>5, <2>2, <2>3, <2>4 DEF Eraser, Holder
  <2>6. QED
    BY <1>2, <2>1, <2>2, <2>3, <2>5
<1>10. UserHolders'
  BY <1>2, <1>5 DEF SafetyInv, UserHolders
<1>11. RatingHolders'
  BY <1>2, <1>6 DEF SafetyInv, RatingHolders, Key
<1>12. Cascaded'
  <2> SUFFICES ASSUME NEW s \in Txns, NEW i \in Items,
                      req'[s] # NoRequest, req'[s].kind = "erase",
                      userLock[req'[s].user] = s, pc'[s] # "cascade",
                      rating[<<req'[s].user, i>>] # NoRating
               PROVE  ratingLock[<<req'[s].user, i>>] = s
    BY <1>2 DEF Cascaded
  <2>1. s # t
    <3>1. r.user \in Users /\ req'[t] = r
      BY <1>2, RequestFields DEF SafetyInv, TypeInv, TypeOK
    <3>2. QED
      BY <1>5, <3>1
  <2>2. QED
    BY <1>2, <2>1 DEF SafetyInv, Cascaded
<1>13. QED
  BY <1>7, <1>8, <1>9, <1>10, <1>11, <1>12 DEF SafetyInv

\* Storing a local other than share does not touch share.
LEMMA ShareKept ==
    ASSUME TypeOK, NEW t \in Txns, NEW v
    PROVE  \A s \in Txns :
              /\ [mem EXCEPT ![t].row = v][s].share = mem[s].share
              /\ [mem EXCEPT ![t].seen = v][s].share = mem[s].share
              /\ [mem EXCEPT ![t].calc = v][s].share = mem[s].share
              /\ [mem EXCEPT ![t].todo = v][s].share = mem[s].share
              /\ [mem EXCEPT ![t].captured = v, ![t].todo = v][s].share = mem[s].share
<1>1. mem \in [Txns -> Memory]
  BY DEF TypeOK
<1>2. QED
  BY <1>1 DEF Memory

LEMMA LoadItemSafety == ASSUME SafetyInv, NEW t \in Txns, LoadItem(t) PROVE SafetyInv'
<1> DEFINE label == CASE req[t].kind = "rate" -> "write"
                      [] req[t].kind = "unrate" -> "find"
                      [] OTHER -> "update"
<1>1. /\ Active(t) /\ pc[t] = "load" /\ Goto(t, label) /\ label \in Statements
      /\ req[t].kind = "hide" => label = "update"
  BY DEF LoadItem, Active, Statements
<1>2. TypeInv'
  BY LoadItemType DEF SafetyInv
<1>3. \A s \in Txns : mem'[s].share = mem[s].share
  BY ShareKept DEF LoadItem, SafetyInv, TypeInv
<1> HIDE DEF label
<1>4. QED
  BY <1>1, <1>2, <1>3, QuietStep DEF LoadItem

LEMMA FindOwnRatingSafety == ASSUME SafetyInv, NEW t \in Txns, FindOwnRating(t) PROVE SafetyInv'
<1>1. PICK label : Goto(t, label) /\ pc[t] = "find"
  BY DEF FindOwnRating
<1>2. TypeInv' /\ Active(t)
  BY <1>1, FindOwnRatingType DEF SafetyInv, Active, Statements
<1>3. \A s \in Txns : mem'[s].share = mem[s].share
  <2>1. CASE mem' = mem
    BY <2>1
  <2>2. CASE mem' = [mem EXCEPT ![t].row = rating[Key(t)].id]
    BY <2>2 DEF SafetyInv, TypeInv, TypeOK, Memory
  <2>3. QED
    BY <2>1, <2>2 DEF FindOwnRating
<1>4. QED
  BY <1>1, <1>2, <1>3, QuietStep DEF FindOwnRating

LEMMA CaptureItemsSafety == ASSUME SafetyInv, NEW t \in Txns, CaptureItems(t) PROVE SafetyInv'
<1>1. Active(t) /\ pc[t] = "capture" /\ Goto(t, "write") /\ "write" \in Statements
  BY DEF CaptureItems, Active, Statements
<1>2. TypeInv'
  BY CaptureItemsType DEF SafetyInv
<1>3. \A s \in Txns : mem'[s].share = mem[s].share
  <2> DEFINE rated == {i \in Items : rating[<<req[t].user, i>>] # NoRating}
  <2>1. mem' = [mem EXCEPT ![t].captured = rated, ![t].todo = rated]
    BY DEF CaptureItems
  <2> HIDE DEF rated
  <2>2. QED
    BY <2>1 DEF SafetyInv, TypeInv, TypeOK, Memory
<1>4. QED
  BY <1>1, <1>2, <1>3, QuietStep DEF CaptureItems

LEMMA SelectAggregateSafety ==
    ASSUME SafetyInv, NEW t \in Txns, SelectAggregate(t) PROVE SafetyInv'
<1> DEFINE label == IF req[t].kind = "hide" THEN "load" ELSE "update"
<1>1. Active(t) /\ pc[t] = "select" /\ Goto(t, label)
  BY DEF SelectAggregate, Active, Statements
<1>2. /\ label \in Statements
      /\ label = "update" \/ (label = "load" /\ req[t].kind = "hide")
  BY DEF Statements
<1>3. TypeInv'
  BY SelectAggregateType DEF SafetyInv
<1>4. \A s \in Txns : mem'[s].share = mem[s].share
  BY ShareKept DEF SelectAggregate, SafetyInv, TypeInv
<1> HIDE DEF label
<1>5. QED
  BY <1>1, <1>2, <1>3, <1>4, QuietStep DEF SelectAggregate

LEMMA UpdateItemSafety == ASSUME SafetyInv, NEW t \in Txns, UpdateItem(t) PROVE SafetyInv'
<1> DEFINE label == IF req[t].kind = "rate" THEN "event" ELSE "commit"
<1>1. /\ Active(t) /\ pc[t] = "update" /\ Goto(t, label) /\ label \in Statements
      /\ UNCHANGED <<users, ratings, req, mem>>
  BY DEF UpdateItem, Active, Statements
<1>2. TypeInv'
  BY UpdateItemType DEF SafetyInv
<1>3. label = IF req[t].kind = "rate" THEN "event" ELSE "commit"
  OBVIOUS
<1> HIDE DEF label
<1>4. QED
  BY <1>1, <1>2, <1>3, QuietStep

LEMMA ResetItemSafety == ASSUME SafetyInv, NEW t \in Txns, ResetItem(t) PROVE SafetyInv'
<1>1. PICK i \in mem[t].todo : ResetItem(t)!(i)
  BY DEF ResetItem
<1> DEFINE label == IF mem[t].todo = {i} THEN "aggregate" ELSE "reset"
<1>2. /\ Active(t) /\ pc[t] = "reset" /\ Goto(t, label)
      /\ label \in Statements /\ label \in {"reset", "aggregate"}
      /\ UNCHANGED <<users, ratings, req>>
  BY <1>1 DEF Active, Statements
<1>3. mem' = [mem EXCEPT ![t].todo = mem[t].todo \ {i}]
  BY <1>1 DEF SafetyInv, TypeInv, TypeOK
<1>4. TypeInv'
  BY ResetItemType DEF SafetyInv
<1>5. \A s \in Txns : mem'[s].share = mem[s].share
  BY <1>3, ShareKept DEF SafetyInv, TypeInv
<1> HIDE DEF label
<1>6. QED
  BY <1>2, <1>4, <1>5, QuietStep

LEMMA AggregateItemsSafety ==
    ASSUME SafetyInv, NEW t \in Txns, AggregateItems(t) PROVE SafetyInv'
<1>1. /\ Active(t) /\ pc[t] = "aggregate" /\ Goto(t, "commit") /\ "commit" \in Statements
      /\ UNCHANGED <<users, ratings, req, mem>>
  BY DEF AggregateItems, Active, Statements
<1>2. TypeInv'
  BY AggregateItemsType DEF SafetyInv
<1>3. QED
  BY <1>1, <1>2, QuietStep

\* After t ends the locks of the other requests, and only those, are left.
LEMMA Released ==
    ASSUME TypeInv, NEW t \in Txns, Release(t)
    PROVE  /\ \A u \in Users, s \in Txns :
                 userLock'[u] = s <=> userLock[u] = s /\ s # t
           /\ \A k \in Keys, s \in Txns :
                 ratingLock'[k] = s <=> ratingLock[k] = s /\ s # t
           /\ ~mem'[t].share
           /\ \A s \in Txns \ {t} : mem'[s] = mem[s]
BY RatingsAssumption DEF Release, Blank, TypeInv, TypeOK

LEMMA AbortSafety ==
    ASSUME SafetyInv, NEW t \in Txns, Abort(t) PROVE SafetyInv'
<1>1. TypeInv'
  BY AbortType DEF SafetyInv
<1>2. /\ UNCHANGED <<account, rating, req>>
      /\ \A s \in Txns \ {t} : pc'[s] = pc[s]
      /\ \A s \in Txns : Key(s)' = Key(s)
      /\ Release(t)
  BY DEF Abort, Goto, Key, SafetyInv, TypeInv, TypeOK
<1>3. /\ \A u \in Users : userLock[u] # t => accountW'[u] = accountW[u]
      /\ \A k \in Keys : ratingLock[k] # t => ratingW'[k] = ratingW[k]
  BY DEF Abort, AccountsAfter, RatingsAfter
<1>4. EventIffContent' /\ ErasedUserLeavesNoRows'
  BY <1>2 DEF SafetyInv, EventIffContent, ErasedUserLeavesNoRows
<1>5. Sharing'
  <2> SUFFICES ASSUME NEW s \in Txns, mem'[s].share
               PROVE  /\ Active(s)' /\ req'[s].kind = "rate"
                      /\ account'[req'[s].user] # "gone"
                      /\ Eraser(req[s].user)' = {}
    BY <1>2 DEF Sharing
  <2>1. s # t /\ mem[s].share
    BY <1>2, Released DEF SafetyInv
  <2>2. /\ Active(s) /\ req[s].kind = "rate"
        /\ account[req[s].user] # "gone"
        /\ Eraser(req[s].user) = {}
    BY <2>1 DEF SafetyInv, Sharing
  <2>3. Active(s)' /\ req[s].user \in Users
    BY <1>2, <2>1, <2>2, Running DEF Active, SafetyInv
  <2>4. Eraser(req[s].user)' = {}
    BY <1>2, <2>2, <2>3, Released DEF Eraser, Holder, Release
  <2>5. QED
    BY <1>2, <2>2, <2>3, <2>4
<1>6. UserHolders'
  BY <1>2, <1>3, Released DEF SafetyInv, UserHolders
<1>7. RatingHolders'
  <2> SUFFICES ASSUME NEW k \in Keys, NEW s \in Txns, ratingLock'[k] = s
               PROVE  RatingHolders!(k, s)'
    BY DEF RatingHolders
  <2>1. s # t /\ ratingLock[k] = s
    BY <1>2, Released DEF SafetyInv
  <2>2. ratingW'[k] = ratingW[k] /\ mem'[s] = mem[s] /\ RatingHolders!(k, s)
    BY <1>2, <1>3, <2>1, Released DEF SafetyInv, RatingHolders
  <2>3. QED
    BY <1>2, <2>1, <2>2
<1>8. Cascaded'
  <2> SUFFICES ASSUME NEW s \in Txns, NEW i \in Items,
                      req[s] # NoRequest, req[s].kind = "erase",
                      userLock'[req[s].user] = s, pc'[s] # "cascade",
                      rating[<<req[s].user, i>>] # NoRating
               PROVE  ratingLock'[<<req[s].user, i>>] = s
    BY <1>2 DEF Cascaded
  <2>1. req[s].user \in Users
    BY RequestFields DEF SafetyInv, TypeInv, TypeOK
  <2>2. s # t /\ userLock[req[s].user] = s
    BY <1>2, <2>1, Released DEF SafetyInv
  <2>3. ratingLock[<<req[s].user, i>>] = s
    BY <1>2, <2>2 DEF SafetyInv, Cascaded
  <2>4. QED
    BY <1>2, <2>1, <2>2, <2>3, Released DEF SafetyInv, Keys
<1>9. QED
  BY <1>1, <1>4, <1>5, <1>6, <1>7, <1>8 DEF SafetyInv

LEMMA UpsertRatingSafety == ASSUME SafetyInv, NEW t \in Txns, UpsertRating(t) PROVE SafetyInv'
<1>1. /\ Active(t) /\ req[t].kind = "rate" /\ pc[t] = "write" /\ Blockers(t) = {}
      /\ TypeInv'
  BY UpsertRatingType DEF UpsertRating, Active, Statements, SafetyInv
<1>2. Key(t) \in Keys
  BY <1>1, Running DEF SafetyInv
<1>3. /\ ratingLock[Key(t)] = NoTxn /\ ratingW[Key(t)] = rating[Key(t)]
      /\ rating[Key(t)] = NoRating => Eraser(req[t].user) = {}
  BY <1>1, <1>2, FreeToWrite DEF SafetyInv, TypeInv, Unlocked
<1>4. CASE rating[Key(t)] # NoRating
  <2> DEFINE row == [ratingW[Key(t)] EXCEPT !.score = req[t].score, !.text = req[t].text]
  <2>1. ratingW' = [ratingW EXCEPT ![Key(t)] = row]
    <3>1. req[t].score \in Scores \cup {NoScore} /\ req[t].text \in BOOLEAN
      BY <1>1, Running DEF SafetyInv
    <3>2. QED
      BY <1>2, <1>3, <1>4, <3>1, RowType DEF UpsertRating, SafetyInv, TypeInv
  <2>2. /\ ratingLock' = [ratingLock EXCEPT ![Key(t)] = t]
        /\ Goto(t, "select")
        /\ UNCHANGED <<users, rating, req, mem>>
    BY <1>4 DEF UpsertRating
  <2> HIDE DEF row
  <2>3. QED
    <3>1. /\ pc'[t] = "select" /\ \A s \in Txns \ {t} : pc'[s] = pc[s]
          /\ ratingLock'[Key(t)] = t
          /\ \A k \in Keys \ {Key(t)} :
                ratingW'[k] = ratingW[k] /\ ratingLock'[k] = ratingLock[k]
      BY <1>2, <2>1, <2>2 DEF Goto, SafetyInv, TypeInv, TypeOK
    <3>2. QED
      BY <1>1, <1>2, <1>3, <1>4, <2>2, <3>1, RatingStep
<1>5. CASE rating[Key(t)] = NoRating /\ account[req[t].user] = "gone"
  BY <1>5, AbortSafety DEF UpsertRating
<1>6. CASE rating[Key(t)] = NoRating /\ account[req[t].user] # "gone"
  <2> DEFINE row == [id |-> lastId + 1, score |-> req[t].score, text |-> req[t].text,
                     hidden |-> FALSE, event |-> FALSE]
  <2>1. /\ ratingW' = [ratingW EXCEPT ![Key(t)] = row]
        /\ ratingLock' = [ratingLock EXCEPT ![Key(t)] = t]
        /\ mem' = [mem EXCEPT ![t].share = TRUE]
        /\ Goto(t, "select")
        /\ UNCHANGED <<users, rating, req>>
    BY <1>6 DEF UpsertRating
  <2>2. mem'[t].share /\ \A s \in Txns \ {t} : mem'[s].share = mem[s].share
    BY <2>1 DEF SafetyInv, TypeInv, TypeOK, Memory
  <2> HIDE DEF row
  <2>3. QED
    <3>1. /\ pc'[t] = "select" /\ \A s \in Txns \ {t} : pc'[s] = pc[s]
          /\ ratingW'[Key(t)] = row /\ ratingLock'[Key(t)] = t
          /\ \A k \in Keys \ {Key(t)} :
                ratingW'[k] = ratingW[k] /\ ratingLock'[k] = ratingLock[k]
      BY <1>2, <2>1 DEF Goto, SafetyInv, TypeInv, TypeOK
    <3>2. QED
      BY <1>1, <1>2, <1>3, <1>6, <2>1, <2>2, <3>1, RatingStep
<1>7. QED
  BY <1>4, <1>5, <1>6

LEMMA DeleteRatingSafety == ASSUME SafetyInv, NEW t \in Txns, DeleteRating(t) PROVE SafetyInv'
<1>1. /\ Active(t) /\ req[t].kind = "unrate" /\ pc[t] = "write" /\ Blockers(t) = {}
      /\ Goto(t, "select")
      /\ UNCHANGED <<users, rating, req, mem>>
      /\ TypeInv'
  BY DeleteRatingType DEF DeleteRating, Active, Statements, SafetyInv
<1>2. Key(t) \in Keys
  BY <1>1, Running DEF SafetyInv
<1>3. CASE StillThere(t)
  <2>1. /\ ratingLock[Key(t)] = NoTxn
        /\ ratingW' = [ratingW EXCEPT ![Key(t)] = NoRating]
        /\ ratingLock' = [ratingLock EXCEPT ![Key(t)] = t]
    BY <1>1, <1>3, FreeToWrite DEF DeleteRating, SafetyInv
  <2>2. QED
    <3>1. /\ pc'[t] = "select" /\ \A s \in Txns \ {t} : pc'[s] = pc[s]
          /\ ratingW'[Key(t)] = NoRating /\ ratingLock'[Key(t)] = t
          /\ \A k \in Keys \ {Key(t)} :
                ratingW'[k] = ratingW[k] /\ ratingLock'[k] = ratingLock[k]
      BY <1>1, <1>2, <2>1 DEF Goto, SafetyInv, TypeInv, TypeOK
    <3>2. QED
      BY <1>1, <1>2, <2>1, <3>1, RatingStep
<1>4. CASE ~StillThere(t)
  <2>1. UNCHANGED <<ratings, users>>
    BY <1>1, <1>4 DEF DeleteRating, ratings
  <2>2. "select" \in Statements
    BY DEF Statements
  <2>3. QED
    BY <1>1, <2>1, <2>2, QuietStep
<1>5. QED
  BY <1>3, <1>4

LEMMA WriteHiddenSafety == ASSUME SafetyInv, NEW t \in Txns, WriteHidden(t) PROVE SafetyInv'
<1>1. /\ Active(t) /\ req[t].kind = "hide" /\ pc[t] = "write" /\ Blockers(t) = {}
      /\ TypeInv'
  BY WriteHiddenType DEF WriteHidden, Active, Statements, SafetyInv
<1>2. Key(t) \in Keys
  BY <1>1, Running DEF SafetyInv
<1>3. CASE ~SetsFlag(t)
  <2>1. Goto(t, "select") /\ UNCHANGED <<users, ratings, req, mem>> /\ "select" \in Statements
    BY <1>3 DEF WriteHidden, Statements
  <2>2. QED
    BY <1>1, <2>1, QuietStep
<1>4. CASE SetsFlag(t) /\ ~StillThere(t)
  BY <1>4, AbortSafety DEF WriteHidden
<1>5. CASE SetsFlag(t) /\ StillThere(t)
  <2> DEFINE row == [ratingW[Key(t)] EXCEPT !.hidden = req[t].flag]
  <2>1. /\ ratingLock[Key(t)] = NoTxn
        /\ ratingW[Key(t)] = rating[Key(t)] /\ rating[Key(t)] \in Rows
    BY <1>1, <1>2, <1>5, FreeToWrite DEF StillThere, SafetyInv, TypeInv, TypeOK, Unlocked
  <2>2. /\ ratingW' = [ratingW EXCEPT ![Key(t)] = row]
        /\ ratingLock' = [ratingLock EXCEPT ![Key(t)] = t]
        /\ Goto(t, "select")
        /\ UNCHANGED <<users, rating, req, mem>>
    BY <1>2, <1>5 DEF WriteHidden, SafetyInv, TypeInv, TypeOK
  <2>3. row.event <=> HasContent(row)
    <3>1. rating[Key(t)].event <=> HasContent(rating[Key(t)])
      BY <1>2, <2>1, RatingsAssumption DEF SafetyInv, EventIffContent
    <3>2. row.event = rating[Key(t)].event /\ row.score = rating[Key(t)].score
          /\ row.text = rating[Key(t)].text
      BY <2>1 DEF Rows
    <3>3. QED
      BY <3>1, <3>2 DEF HasContent
  <2>4. rating[Key(t)] # NoRating
    BY <1>5 DEF StillThere
  <2> HIDE DEF row
  <2>5. QED
    <3>1. /\ pc'[t] = "select" /\ \A s \in Txns \ {t} : pc'[s] = pc[s]
          /\ ratingW'[Key(t)] = row /\ ratingLock'[Key(t)] = t
          /\ \A k \in Keys \ {Key(t)} :
                ratingW'[k] = ratingW[k] /\ ratingLock'[k] = ratingLock[k]
      BY <1>2, <2>2 DEF Goto, SafetyInv, TypeInv, TypeOK
    <3>2. QED
      BY <1>1, <1>2, <2>1, <2>2, <2>3, <2>4, <3>1, RatingStep
<1>6. QED
  BY <1>3, <1>4, <1>5

LEMMA WriteEventSafety == ASSUME SafetyInv, NEW t \in Txns, WriteEvent(t) PROVE SafetyInv'
<1> DEFINE row == [ratingW[Key(t)] EXCEPT !.event = HasContent(ratingW[Key(t)])]
<1>1. /\ Active(t) /\ req[t].kind = "rate" /\ pc[t] = "event" /\ Blockers(t) = {}
      /\ Goto(t, "commit")
      /\ mem' = [mem EXCEPT ![t].share = mem[t].share \/ InsertsEvent(t)]
      /\ UNCHANGED <<users, rating, ratingLock, req>>
      /\ TypeInv'
  BY WriteEventType DEF WriteEvent, Active, Statements, SafetyInv, TypeInv, Requesting
<1>2. /\ Key(t) \in Keys /\ ratingLock[Key(t)] = t /\ ratingW[Key(t)] \in Rows
      /\ ratingW[Key(t)] # NoRating
  BY <1>1, Running DEF SafetyInv, TypeInv, TypeOK, Holding
<1>3. ratingW' = [ratingW EXCEPT ![Key(t)] = row]
  BY <1>2 DEF WriteEvent, SafetyInv, TypeInv, TypeOK
<1>4. ratingLock' = [ratingLock EXCEPT ![Key(t)] = t]
  BY <1>1, <1>2 DEF SafetyInv, TypeInv, TypeOK
<1>5. row.event <=> HasContent(row)
  BY <1>2 DEF Rows, HasContent
<1>6. rating[Key(t)] = NoRating => mem[t].share
  BY <1>2 DEF SafetyInv, RatingHolders
<1>7. /\ mem'[t].share = (mem[t].share \/ InsertsEvent(t))
      /\ \A s \in Txns \ {t} : mem'[s].share = mem[s].share
  BY <1>1 DEF SafetyInv, TypeInv, TypeOK, Memory
<1>8. mem'[t].share => \/ mem[t].share
                       \/ /\ req[t].kind = "rate"
                          /\ account[req[t].user] # "gone"
                          /\ Eraser(req[t].user) = {}
  <2>1. InsertsEvent(t) => Eraser(req[t].user) = {}
    BY <1>1 DEF Blockers
  <2>2. req[t].user \in Users /\ req[t].item \in Items
    BY <1>1, Running DEF SafetyInv
  <2>3. rating[Key(t)] # NoRating => account[req[t].user] # "gone"
    BY <2>2 DEF SafetyInv, ErasedUserLeavesNoRows, Key
  <2>4. QED
    BY <1>1, <1>6, <1>7, <2>1, <2>3
<1> HIDE DEF row
<1>9. QED
  <2>1. /\ pc'[t] = "commit" /\ \A s \in Txns \ {t} : pc'[s] = pc[s]
        /\ ratingW'[Key(t)] = row /\ ratingLock'[Key(t)] = t
        /\ \A k \in Keys \ {Key(t)} :
              ratingW'[k] = ratingW[k] /\ ratingLock'[k] = ratingLock[k]
    BY <1>1, <1>2, <1>3 DEF Goto, SafetyInv, TypeInv, TypeOK
  <2>2. QED
    BY <1>1, <1>2, <1>5, <1>6, <1>7, <1>8, <2>1, RatingStep

\* A statement that takes the users row its request names.
LEMMA UserStep ==
    ASSUME SafetyInv, TypeInv', NEW t \in Txns, req[t].user \in Users,
           pc[t] = "write", pc'[t] \in {"cascade", "reset", "commit"},
           \A s \in Txns \ {t} : pc'[s] = pc[s],
           req[t].kind \in {"ban", "erase"},
           req[t].kind = "erase" => KeySharers(req[t].user) = {} /\ pc'[t] = "cascade",
           userLock[req[t].user] = NoTxn, userLock'[req[t].user] = t,
           req[t].kind = "erase" <=> accountW'[req[t].user] = "gone",
           \A u \in Users \ {req[t].user} :
               userLock'[u] = userLock[u] /\ accountW'[u] = accountW[u],
           UNCHANGED <<account, ratings, req, mem>>
    PROVE  SafetyInv'
<1>1. /\ UNCHANGED <<account, rating, ratingW, ratingLock, req, mem>>
      /\ \A s \in Txns : Key(s)' = Key(s)
  BY DEF ratings, Key
<1>2. EventIffContent' /\ ErasedUserLeavesNoRows'
  BY <1>1 DEF SafetyInv, EventIffContent, ErasedUserLeavesNoRows
<1>3. Sharing'
  <2> SUFFICES ASSUME NEW s \in Txns, mem[s].share
               PROVE  /\ Active(s)' /\ req[s].kind = "rate"
                      /\ account[req[s].user] # "gone"
                      /\ Eraser(req[s].user)' = {}
    BY <1>1 DEF Sharing
  <2>1. /\ Active(s) /\ req[s].kind = "rate"
        /\ account[req[s].user] # "gone"
        /\ Eraser(req[s].user) = {}
    BY DEF SafetyInv, Sharing
  <2>2. s # t /\ Active(s)' /\ req[s].user \in Users
    BY <2>1, Running DEF Active, SafetyInv
  <2>3. CASE req[s].user # req[t].user
    BY <1>1, <2>1, <2>2, <2>3 DEF Eraser, Holder
  <2>4. CASE req[s].user = req[t].user
    <3>1. req[t].kind = "ban"
      BY <2>4 DEF KeySharers
    <3>2. Eraser(req[s].user)' = {}
      BY <1>1, <2>4, <3>1 DEF Eraser, Holder
    <3>3. QED
      BY <2>1, <2>2, <3>2
  <2>5. QED
    BY <2>3, <2>4
<1>4. UserHolders'
  <2> SUFFICES ASSUME NEW u \in Users, NEW s \in Txns, userLock'[u] = s
               PROVE  UserHolders!(u, s)'
    BY DEF UserHolders
  <2>1. CASE u = req[t].user
    BY <1>1, <2>1
  <2>2. CASE u # req[t].user
    <3>1. UserHolders!(u, s) /\ s # t
      BY <2>2 DEF SafetyInv, UserHolders
    <3>2. QED
      BY <1>1, <2>2, <3>1
  <2>3. QED
    BY <2>1, <2>2
<1>5. RatingHolders'
  <2> SUFFICES ASSUME NEW k \in Keys, NEW s \in Txns, ratingLock[k] = s
               PROVE  RatingHolders!(k, s)'
    BY <1>1 DEF RatingHolders
  <2>1. RatingHolders!(k, s) /\ s # t
    BY DEF SafetyInv, RatingHolders
  <2>2. QED
    BY <1>1, <2>1
<1>6. Cascaded'
  <2> SUFFICES ASSUME NEW s \in Txns, NEW i \in Items,
                      req[s] # NoRequest, req[s].kind = "erase",
                      userLock'[req[s].user] = s, pc'[s] # "cascade",
                      rating[<<req[s].user, i>>] # NoRating
               PROVE  ratingLock[<<req[s].user, i>>] = s
    BY <1>1 DEF Cascaded
  <2>1. req[s].user \in Users /\ s # t
    BY RequestFields DEF SafetyInv, TypeInv, TypeOK
  <2>2. userLock[req[s].user] = s /\ pc[s] # "cascade"
    BY <2>1
  <2>3. QED
    BY <2>2 DEF SafetyInv, Cascaded
<1>7. QED
  BY <1>2, <1>3, <1>4, <1>5, <1>6 DEF SafetyInv

LEMMA WriteBannedSafety == ASSUME SafetyInv, NEW t \in Txns, WriteBanned(t) PROVE SafetyInv'
<1>1. /\ Active(t) /\ req[t].kind = "ban" /\ pc[t] = "write" /\ Blockers(t) = {}
      /\ AfterWrite(t) \in {"commit", "reset"} /\ AfterWrite(t) \in Statements
      /\ TypeInv'
  BY WriteBannedType DEF WriteBanned, AfterWrite, Active, Statements, SafetyInv
<1>2. req[t].user \in Users
  BY <1>1, Running DEF SafetyInv
<1>3. CASE ~SetsFlag(t)
  <2>1. Goto(t, AfterWrite(t)) /\ UNCHANGED <<users, ratings, req, mem>>
    BY <1>3 DEF WriteBanned
  <2>2. QED
    BY <1>1, <2>1, QuietStep
<1>4. CASE SetsFlag(t) /\ account[req[t].user] = "gone"
  BY <1>4, AbortSafety DEF WriteBanned
<1>5. CASE SetsFlag(t) /\ account[req[t].user] # "gone"
  <2>1. userLock[req[t].user] = NoTxn
    BY <1>1, <1>5, FreeToWrite DEF SafetyInv
  <2>2. /\ accountW' = [accountW EXCEPT ![req[t].user] =
                           IF req[t].flag THEN "banned" ELSE "active"]
        /\ userLock' = [userLock EXCEPT ![req[t].user] = t]
        /\ Goto(t, AfterWrite(t))
        /\ UNCHANGED <<account, ratings, req, mem>>
    BY <1>5 DEF WriteBanned
  <2>3. /\ pc'[t] = AfterWrite(t) /\ \A s \in Txns \ {t} : pc'[s] = pc[s]
        /\ userLock'[req[t].user] = t /\ accountW'[req[t].user] # "gone"
        /\ \A u \in Users \ {req[t].user} :
              userLock'[u] = userLock[u] /\ accountW'[u] = accountW[u]
    BY <1>2, <2>2 DEF Goto, SafetyInv, TypeInv, TypeOK
  <2>4. QED
    BY <1>1, <1>2, <2>1, <2>2, <2>3, UserStep
<1>6. QED
  BY <1>3, <1>4, <1>5

LEMMA DeleteUserSafety == ASSUME SafetyInv, NEW t \in Txns, DeleteUser(t) PROVE SafetyInv'
<1>1. /\ Active(t) /\ req[t].kind = "erase" /\ pc[t] = "write" /\ Blockers(t) = {}
      /\ AfterWrite(t) \in Statements
      /\ UNCHANGED <<account, ratings, req, mem>>
      /\ TypeInv'
  BY DeleteUserType DEF DeleteUser, AfterWrite, Active, Statements, SafetyInv
<1>2. /\ req[t].user \in Users
      /\ userLock[req[t].user] = NoTxn /\ KeySharers(req[t].user) = {}
  BY <1>1, Running, FreeToWrite DEF SafetyInv
<1>3. CASE account[req[t].user] # "gone"
  <2>1. /\ accountW' = [accountW EXCEPT ![req[t].user] = "gone"]
        /\ userLock' = [userLock EXCEPT ![req[t].user] = t]
        /\ Goto(t, "cascade")
    BY <1>3 DEF DeleteUser
  <2>2. /\ pc'[t] = "cascade" /\ \A s \in Txns \ {t} : pc'[s] = pc[s]
        /\ userLock'[req[t].user] = t /\ accountW'[req[t].user] = "gone"
        /\ \A u \in Users \ {req[t].user} :
              userLock'[u] = userLock[u] /\ accountW'[u] = accountW[u]
    BY <1>2, <2>1 DEF Goto, SafetyInv, TypeInv, TypeOK
  <2>3. QED
    BY <1>1, <1>2, <2>2, UserStep
<1>4. CASE account[req[t].user] = "gone"
  <2>1. Goto(t, AfterWrite(t)) /\ UNCHANGED <<users, ratings, req, mem>>
    BY <1>1, <1>4 DEF DeleteUser, users
  <2>2. QED
    BY <1>1, <2>1, QuietStep
<1>5. QED
  BY <1>3, <1>4

LEMMA CascadeRatingsSafety ==
    ASSUME SafetyInv, NEW t \in Txns, CascadeRatings(t) PROVE SafetyInv'
<1> DEFINE doomed == {k \in Keys : k[1] = req[t].user /\ rating[k] # NoRating}
<1>1. /\ Active(t) /\ req[t].kind = "erase" /\ pc[t] = "cascade" /\ Blockers(t) = {}
      /\ UNCHANGED <<users, rating, req, mem>>
      /\ ratingW' = [k \in Keys |-> IF k \in doomed THEN NoRating ELSE ratingW[k]]
      /\ ratingLock' = [k \in Keys |-> IF k \in doomed THEN t ELSE ratingLock[k]]
      /\ TypeInv'
  BY CascadeRatingsType
     DEF CascadeRatings, Active, Statements, SafetyInv, TypeInv, Requesting
<1>2. /\ pc'[t] \in {"reset", "commit"}
      /\ \A s \in Txns \ {t} : pc'[s] = pc[s]
  BY DEF CascadeRatings, AfterWrite, Goto, SafetyInv, TypeInv, TypeOK
<1>3. /\ UNCHANGED <<account, accountW, userLock, rating, req, mem>>
      /\ \A s \in Txns : Key(s)' = Key(s)
  BY <1>1 DEF users, Key
<1>4. \A k \in doomed : ratingLock[k] = NoTxn
  BY <1>1, FreeToCascade
<1>5. EventIffContent' /\ ErasedUserLeavesNoRows'
  BY <1>3 DEF SafetyInv, EventIffContent, ErasedUserLeavesNoRows
<1>6. Sharing'
  <2> SUFFICES ASSUME NEW s \in Txns, mem[s].share
               PROVE  /\ Active(s)' /\ req[s].kind = "rate"
                      /\ account[req[s].user] # "gone"
                      /\ Eraser(req[s].user)' = {}
    BY <1>3 DEF Sharing
  <2>1. /\ Active(s) /\ req[s].kind = "rate"
        /\ account[req[s].user] # "gone"
        /\ Eraser(req[s].user) = {}
    BY DEF SafetyInv, Sharing
  <2>2. Active(s)'
    BY <1>1, <1>2, <2>1 DEF Active
  <2>3. QED
    BY <1>3, <2>1, <2>2 DEF Eraser, Holder
<1>7. UserHolders'
  <2> SUFFICES ASSUME NEW u \in Users, NEW s \in Txns, userLock[u] = s
               PROVE  UserHolders!(u, s)'
    BY <1>3 DEF UserHolders
  <2>1. UserHolders!(u, s)
    BY DEF SafetyInv, UserHolders
  <2>2. QED
    BY <1>2, <1>3, <2>1
<1>8. RatingHolders'
  <2> SUFFICES ASSUME NEW k \in Keys, NEW s \in Txns, ratingLock'[k] = s
               PROVE  RatingHolders!(k, s)'
    BY DEF RatingHolders
  <2>1. CASE k \in doomed
    <3>1. s = t /\ ratingW'[k] = NoRating
      BY <1>1, <2>1
    <3>2. QED
      BY <1>1, <1>2, <1>3, <3>1
  <2>2. CASE k \notin doomed
    <3>1. ratingLock[k] = s /\ ratingW'[k] = ratingW[k] /\ RatingHolders!(k, s)
      BY <1>1, <2>2 DEF SafetyInv, RatingHolders
    <3>2. s # t
      BY <1>1, <3>1
    <3>3. QED
      BY <1>2, <1>3, <3>1, <3>2
  <2>3. QED
    BY <2>1, <2>2
<1>9. Cascaded'
  <2> SUFFICES ASSUME NEW s \in Txns, NEW i \in Items,
                      req[s] # NoRequest, req[s].kind = "erase",
                      userLock[req[s].user] = s, pc'[s] # "cascade",
                      rating[<<req[s].user, i>>] # NoRating
               PROVE  ratingLock'[<<req[s].user, i>>] = s
    BY <1>3 DEF Cascaded
  <2>1. <<req[s].user, i>> \in Keys
    BY RequestFields DEF SafetyInv, TypeInv, TypeOK, Keys
  <2>2. CASE s = t
    BY <1>1, <2>1, <2>2
  <2>3. CASE s # t
    <3>1. ratingLock[<<req[s].user, i>>] = s
      BY <1>2, <2>3 DEF SafetyInv, Cascaded
    <3>2. <<req[s].user, i>> \notin doomed
      BY <1>4, <3>1, RatingsAssumption
    <3>3. QED
      BY <1>1, <2>1, <3>1, <3>2
  <2>4. QED
    BY <2>2, <2>3
<1>10. QED
  BY <1>1, <1>5, <1>6, <1>7, <1>8, <1>9 DEF SafetyInv

LEMMA CommitSafety == ASSUME SafetyInv, NEW t \in Txns, Commit(t) PROVE SafetyInv'
<1>1. TypeInv'
  BY CommitType DEF SafetyInv
<1>2. /\ Active(t) /\ pc[t] = "commit"
      /\ UNCHANGED <<accountW, ratingW, req>>
      /\ \A s \in Txns \ {t} : pc'[s] = pc[s]
      /\ \A s \in Txns : Key(s)' = Key(s)
      /\ Release(t)
  BY DEF Commit, Goto, Key, Active, Statements, SafetyInv, TypeInv, TypeOK
<1>3. /\ \A u \in Users :
            account'[u] = IF userLock[u] = t THEN accountW[u] ELSE account[u]
      /\ \A k \in Keys :
            rating'[k] = IF ratingLock[k] = t THEN ratingW[k] ELSE rating[k]
  BY DEF Commit, AccountsAfter, RatingsAfter
<1>4. \A k \in Keys : rating'[k] # NoRating /\ rating[k] = NoRating =>
                        ratingLock[k] = t /\ k = Key(t) /\ mem[t].share
  BY <1>3 DEF SafetyInv, RatingHolders
<1>5. EventIffContent'
  <2> SUFFICES ASSUME NEW k \in Keys, rating'[k] # NoRating
               PROVE  rating'[k].event <=> HasContent(rating'[k])
    BY DEF EventIffContent, HasContent
  <2>1. CASE ratingLock[k] = t
    BY <1>2, <1>3, <2>1 DEF SafetyInv, RatingHolders
  <2>2. CASE ratingLock[k] # t
    BY <1>3, <2>2 DEF SafetyInv, EventIffContent
  <2>3. QED
    BY <2>1, <2>2
<1>6. ErasedUserLeavesNoRows'
  <2> SUFFICES ASSUME NEW u \in Users, NEW i \in Items, account'[u] = "gone"
               PROVE  rating'[<<u, i>>] = NoRating
    BY DEF ErasedUserLeavesNoRows
  <2>1. <<u, i>> \in Keys
    BY DEF Keys
  <2>2. CASE userLock[u] = t
    <3>1. req[t].user = u /\ req[t].kind = "erase"
      BY <1>3, <2>2 DEF SafetyInv, UserHolders
    <3>2. rating[<<u, i>>] # NoRating => ratingLock[<<u, i>>] = t
      BY <1>2, <2>2, <3>1, RatingsAssumption DEF SafetyInv, Cascaded, TypeInv, Requesting
    <3>3. ratingLock[<<u, i>>] = t => ratingW[<<u, i>>] = NoRating
      BY <2>1, <3>1 DEF SafetyInv, RatingHolders
    <3>4. QED
      BY <1>3, <2>1, <3>2, <3>3
  <2>3. CASE userLock[u] # t
    <3>1. account[u] = "gone"
      BY <1>3, <2>3
    <3>2. rating[<<u, i>>] = NoRating
      BY <3>1 DEF SafetyInv, ErasedUserLeavesNoRows
    <3>3. rating'[<<u, i>>] # NoRating => mem[t].share /\ u = req[t].user
      BY <1>4, <2>1, <3>2 DEF Key
    <3>4. mem[t].share => account[req[t].user] # "gone"
      BY DEF SafetyInv, Sharing
    <3>5. QED
      BY <3>1, <3>3, <3>4
  <2>4. QED
    BY <2>2, <2>3
<1>7. Sharing'
  <2> SUFFICES ASSUME NEW s \in Txns, mem'[s].share
               PROVE  /\ Active(s)' /\ req[s].kind = "rate"
                      /\ account'[req[s].user] # "gone"
                      /\ Eraser(req[s].user)' = {}
    BY <1>2 DEF Sharing
  <2>1. s # t /\ mem[s].share
    BY <1>2, Released DEF SafetyInv
  <2>2. /\ Active(s) /\ req[s].kind = "rate"
        /\ account[req[s].user] # "gone"
        /\ Eraser(req[s].user) = {}
    BY <2>1 DEF SafetyInv, Sharing
  <2>3. Active(s)' /\ req[s].user \in Users
    BY <1>2, <2>1, <2>2, Running DEF Active, SafetyInv
  <2>4. Eraser(req[s].user)' = {}
    BY <1>2, <2>2, <2>3, Released DEF Eraser, Holder, Release
  <2>5. account'[req[s].user] # "gone"
    <3>1. CASE userLock[req[s].user] = t
      <4>1. req[t].kind # "erase"
        BY <1>2, <2>2, <3>1, RatingsAssumption DEF Eraser, Holder
      <4>2. accountW[req[s].user] # "gone"
        BY <2>3, <3>1, <4>1 DEF SafetyInv, UserHolders
      <4>3. QED
        BY <1>3, <2>3, <3>1, <4>2
    <3>2. CASE userLock[req[s].user] # t
      BY <1>3, <2>2, <2>3, <3>2
    <3>3. QED
      BY <3>1, <3>2
  <2>6. QED
    BY <2>2, <2>3, <2>4, <2>5
<1>8. UserHolders'
  BY <1>2, Released DEF SafetyInv, UserHolders
<1>9. RatingHolders'
  <2> SUFFICES ASSUME NEW k \in Keys, NEW s \in Txns, ratingLock'[k] = s
               PROVE  RatingHolders!(k, s)'
    BY DEF RatingHolders
  <2>1. s # t /\ ratingLock[k] = s
    BY <1>2, Released DEF SafetyInv
  <2>2. rating'[k] = rating[k] /\ mem'[s] = mem[s] /\ RatingHolders!(k, s)
    BY <1>2, <1>3, <2>1, Released DEF SafetyInv, RatingHolders
  <2>3. QED
    BY <1>2, <2>1, <2>2
<1>10. Cascaded'
  <2> SUFFICES ASSUME NEW s \in Txns, NEW i \in Items,
                      req[s] # NoRequest, req[s].kind = "erase",
                      userLock'[req[s].user] = s, pc'[s] # "cascade",
                      rating'[<<req[s].user, i>>] # NoRating
               PROVE  ratingLock'[<<req[s].user, i>>] = s
    BY <1>2 DEF Cascaded
  <2>1. req[s].user \in Users /\ <<req[s].user, i>> \in Keys
    BY RequestFields DEF SafetyInv, TypeInv, TypeOK, Keys
  <2>2. s # t /\ userLock[req[s].user] = s
    BY <1>2, <2>1, Released DEF SafetyInv
  <2>3. rating[<<req[s].user, i>>] # NoRating
    <3>1. rating[<<req[s].user, i>>] = NoRating => mem[t].share /\ req[s].user = req[t].user
      BY <1>4, <2>1 DEF Key
    <3>2. mem[t].share => Eraser(req[t].user) = {}
      BY DEF SafetyInv, Sharing
    <3>3. s \in Eraser(req[s].user)
      BY <2>2, RatingsAssumption DEF Eraser, Holder
    <3>4. QED
      BY <3>1, <3>2, <3>3
  <2>4. ratingLock[<<req[s].user, i>>] = s
    BY <1>2, <2>2, <2>3 DEF SafetyInv, Cascaded
  <2>5. QED
    BY <1>2, <2>1, <2>2, <2>4, Released DEF SafetyInv
<1>11. QED
  BY <1>1, <1>5, <1>6, <1>7, <1>8, <1>9, <1>10 DEF SafetyInv

LEMMA NextSafety == SafetyInv /\ [Next]_vars => SafetyInv'
<1> SUFFICES ASSUME SafetyInv, [Next]_vars PROVE SafetyInv'
  OBVIOUS
<1>1. ASSUME NEW t \in Txns, Begin(t) \/ Statement(t) \/ Crash(t)
      PROVE  SafetyInv'
  BY <1>1, BeginSafety, LoadItemSafety, FindOwnRatingSafety, CaptureItemsSafety,
     UpsertRatingSafety, DeleteRatingSafety, WriteHiddenSafety, WriteBannedSafety,
     DeleteUserSafety, CascadeRatingsSafety, SelectAggregateSafety, UpdateItemSafety,
     WriteEventSafety, ResetItemSafety, AggregateItemsSafety, CommitSafety, AbortSafety
     DEF Statement, DeadlockVictim, Crash
<1>2. CASE UNCHANGED vars
  <2>1. TypeInv'
    BY <1>2, NextType DEF SafetyInv
  <2>2. /\ UNCHANGED <<account, accountW, userLock, rating, ratingW, ratingLock, pc, req, mem>>
        /\ \A s \in Txns : Key(s)' = Key(s) /\ Active(s)' = Active(s)
        /\ \A u \in Users : Eraser(u)' = Eraser(u)
    BY <1>2 DEF vars, users, ratings, Key, Active, Eraser, Holder
  <2>3. EventIffContent' /\ ErasedUserLeavesNoRows'
    BY <2>2 DEF SafetyInv, EventIffContent, ErasedUserLeavesNoRows
  <2>4. Sharing'
    BY <2>2 DEF SafetyInv, Sharing, Eraser, Holder
  <2>5. UserHolders' /\ RatingHolders' /\ Cascaded'
    BY <2>2 DEF SafetyInv, UserHolders, RatingHolders, Cascaded
  <2>6. QED
    BY <2>1, <2>3, <2>4, <2>5 DEF SafetyInv
<1>3. QED
  BY <1>1, <1>2 DEF Next

LEMMA SafetyInvariant == Spec => []SafetyInv
<1>1. QED
  BY SafetyInit, NextSafety, PTL DEF Spec

(***************************************************************************)
(* A review and its feed event stay together in every committed state,     *)
(* however rate_item, delete_item_rating, moderation and erasure interleave*)
(* and wherever one of them fails.                                         *)
(***************************************************************************)
THEOREM EventsFollowContent == Spec => []EventIffContent
<1>1. SafetyInv => EventIffContent
  BY DEF SafetyInv
<1>2. QED
  BY <1>1, SafetyInvariant, PTL

(***************************************************************************)
(* delete_current_user leaves no review of the erased account: the foreign *)
(* key's KEY SHARE lock keeps a concurrent upsert_rating from adding one   *)
(* behind the cascade.                                                     *)
(***************************************************************************)
THEOREM ErasureIsComplete == Spec => []ErasedUserLeavesNoRows
<1>1. SafetyInv => ErasedUserLeavesNoRows
  BY DEF SafetyInv
<1>2. QED
  BY <1>1, SafetyInvariant, PTL

-----------------------------------------------------------------------------
(* 3. The ledger of committed reviews                                      *)

\* The uncommitted version of a review is what its holder was asked to make of it.
Versions ==
    \A k \in Keys, t \in Txns :
        ratingLock[k] = t =>
            /\ req[t].kind = "rate" =>
                  /\ ratingW[k].score = req[t].score
                  /\ ratingW[k].text = req[t].text
                  /\ rating[k] = NoRating => ratingW[k].hidden = FALSE
                  /\ rating[k] # NoRating => ratingW[k].hidden = rating[k].hidden
            /\ req[t].kind \in {"unrate", "erase"} => ratingW[k] = NoRating
            /\ req[t].kind = "hide" =>
                  ratingW[k] = [rating[k] EXCEPT !.hidden = req[t].flag]
            /\ req[t].kind # "rate" => rating[k] # NoRating
            /\ req[t].kind = "erase" => k[1] = req[t].user /\ userLock[k[1]] = t

\* A users row is held only while the account is there, by what is to become of it.
AccountVersions ==
    \A u \in Users, t \in Txns :
        userLock[u] = t =>
            /\ account[u] # "gone"
            /\ req[t].kind = "ban" =>
                  accountW[u] = IF req[t].flag THEN "banned" ELSE "active"

\* ON DELETE CASCADE runs while the DELETE holds the users row.
Cascading == \A t \in Txns : pc[t] = "cascade" => userLock[req[t].user] = t

LedgerInv == SafetyInv /\ Versions /\ AccountVersions /\ Cascading

LEMMA LedgerInit == Init => LedgerInv
<1>1. Init => Versions /\ AccountVersions /\ Cascading
  BY RatingsAssumption DEF Init, Versions, AccountVersions, Cascading
<1>2. QED
  BY <1>1, SafetyInit DEF LedgerInv

\* A statement that writes no users and no user_ratings row.
LEMMA QuietVersions ==
    ASSUME LedgerInv, UNCHANGED <<users, ratings, req>>
    PROVE  Versions' /\ AccountVersions'
BY DEF LedgerInv, Versions, AccountVersions, users, ratings

LEMMA BeginVersions ==
    ASSUME LedgerInv, NEW t \in Txns, Begin(t) PROVE Versions' /\ AccountVersions'
<1>1. PICK r \in Menu : Begin(t)!(r)
  BY DEF Begin
<1>2. /\ pc[t] = "idle"
      /\ \A s \in Txns \ {t} : req'[s] = req[s]
      /\ UNCHANGED <<account, accountW, userLock, rating, ratingW, ratingLock>>
  BY <1>1 DEF LedgerInv, SafetyInv, TypeInv, TypeOK, users, ratings
<1>3. /\ \A u \in Users : userLock[u] # t
      /\ \A k \in Keys : ratingLock[k] # t
  BY <1>2 DEF LedgerInv, SafetyInv, UserHolders, RatingHolders
<1>4. QED
  BY <1>2, <1>3 DEF LedgerInv, Versions, AccountVersions

\* The end of a transaction: what the others hold stays as it was.
LEMMA ReleaseVersions ==
    ASSUME LedgerInv, NEW t \in Txns, Release(t), UNCHANGED req,
           \A u \in Users : userLock[u] # t =>
               account'[u] = account[u] /\ accountW'[u] = accountW[u],
           \A k \in Keys : ratingLock[k] # t =>
               rating'[k] = rating[k] /\ ratingW'[k] = ratingW[k]
    PROVE  Versions' /\ AccountVersions'
<1>1. Versions'
  <2> SUFFICES ASSUME NEW k \in Keys, NEW s \in Txns, ratingLock'[k] = s
               PROVE  Versions!(k, s)'
    BY DEF Versions
  <2>1. s # t /\ ratingLock[k] = s
    BY Released DEF LedgerInv, SafetyInv
  <2>2. rating'[k] = rating[k] /\ ratingW'[k] = ratingW[k]
    BY <2>1
  <2>3. Versions!(k, s)
    BY <2>1 DEF LedgerInv, Versions
  <2>4. req[s].kind = "erase" => userLock'[k[1]] = s
    <3>1. k[1] \in Users
      BY DEF Keys
    <3>2. QED
      BY <2>1, <2>3, <3>1 DEF Release
  <2>5. QED
    BY <2>1, <2>2, <2>3, <2>4
<1>2. AccountVersions'
  <2> SUFFICES ASSUME NEW u \in Users, NEW s \in Txns, userLock'[u] = s
               PROVE  AccountVersions!(u, s)'
    BY DEF AccountVersions
  <2>1. s # t /\ userLock[u] = s
    BY Released DEF LedgerInv, SafetyInv
  <2>2. AccountVersions!(u, s)
    BY <2>1 DEF LedgerInv, AccountVersions
  <2>3. QED
    BY <2>1, <2>2
<1>3. QED
  BY <1>1, <1>2

LEMMA AbortVersions ==
    ASSUME LedgerInv, NEW t \in Txns, Abort(t) PROVE Versions' /\ AccountVersions'
<1>1. /\ \A u \in Users : userLock[u] # t => accountW'[u] = accountW[u]
      /\ \A k \in Keys : ratingLock[k] # t => ratingW'[k] = ratingW[k]
  BY DEF Abort, AccountsAfter, RatingsAfter
<1>2. QED
  BY <1>1, ReleaseVersions DEF Abort

LEMMA CommitVersions ==
    ASSUME LedgerInv, NEW t \in Txns, Commit(t) PROVE Versions' /\ AccountVersions'
<1>1. /\ \A u \in Users : userLock[u] # t => account'[u] = account[u]
      /\ \A k \in Keys : ratingLock[k] # t => rating'[k] = rating[k]
  BY DEF Commit, AccountsAfter, RatingsAfter
<1>2. QED
  BY <1>1, ReleaseVersions DEF Commit

\* A statement that writes one user_ratings row.
LEMMA OneVersion ==
    ASSUME LedgerInv, NEW t \in Txns, NEW row \in Keys,
           \A k \in Keys \ {row} :
               ratingW'[k] = ratingW[k] /\ ratingLock'[k] = ratingLock[k],
           UNCHANGED <<users, rating, req>>,
           ratingLock'[row] = t, req[t].kind # "erase",
           req[t].kind = "rate" =>
               /\ ratingW'[row].score = req[t].score
               /\ ratingW'[row].text = req[t].text
               /\ rating[row] = NoRating => ratingW'[row].hidden = FALSE
               /\ rating[row] # NoRating => ratingW'[row].hidden = rating[row].hidden,
           req[t].kind = "unrate" => ratingW'[row] = NoRating,
           req[t].kind = "hide" =>
               ratingW'[row] = [rating[row] EXCEPT !.hidden = req[t].flag],
           req[t].kind # "rate" => rating[row] # NoRating
    PROVE  Versions' /\ AccountVersions'
<1>1. AccountVersions'
  BY DEF LedgerInv, AccountVersions, users
<1>2. Versions'
  <2> SUFFICES ASSUME NEW k \in Keys, NEW s \in Txns, ratingLock'[k] = s
               PROVE  Versions!(k, s)'
    BY DEF Versions
  <2>1. CASE k = row
    <3>1. s = t
      BY <2>1
    <3>2. QED
      BY <2>1, <3>1
  <2>2. CASE k # row
    <3>1. Versions!(k, s) /\ ratingW'[k] = ratingW[k]
      BY <2>2 DEF LedgerInv, Versions
    <3>2. UNCHANGED <<userLock, rating, req>>
      BY DEF users
    <3>3. QED
      BY <3>1, <3>2
  <2>3. QED
    BY <2>1, <2>2
<1>3. QED
  BY <1>1, <1>2

LEMMA UpsertRatingVersions ==
    ASSUME LedgerInv, NEW t \in Txns, UpsertRating(t) PROVE Versions' /\ AccountVersions'
<1>1. Active(t) /\ req[t].kind = "rate" /\ pc[t] = "write" /\ Blockers(t) = {}
  BY DEF UpsertRating, Active, Statements
<1>2. Key(t) \in Keys /\ ratingLock[Key(t)] = NoTxn
  BY <1>1, Running, FreeToWrite DEF LedgerInv, SafetyInv
<1>3. ratingW[Key(t)] = rating[Key(t)]
  BY <1>2 DEF LedgerInv, SafetyInv, TypeInv, Unlocked
<1>4. CASE rating[Key(t)] # NoRating
  <2>1. /\ ratingW' = [ratingW EXCEPT ![Key(t)].score = req[t].score,
                                      ![Key(t)].text = req[t].text]
        /\ ratingLock' = [ratingLock EXCEPT ![Key(t)] = t]
        /\ UNCHANGED <<users, rating, req>>
    BY <1>4 DEF UpsertRating
  <2>2. rating[Key(t)] \in Rows
    BY <1>2, <1>4 DEF LedgerInv, SafetyInv, TypeInv, TypeOK
  <2>3. /\ ratingW'[Key(t)] = [rating[Key(t)] EXCEPT !.score = req[t].score, !.text = req[t].text]
        /\ ratingLock'[Key(t)] = t
        /\ \A k \in Keys \ {Key(t)} :
               ratingW'[k] = ratingW[k] /\ ratingLock'[k] = ratingLock[k]
    BY <1>2, <1>3, <2>1, <2>2 DEF LedgerInv, SafetyInv, TypeInv, TypeOK
  <2>4. /\ ratingW'[Key(t)].score = req[t].score
        /\ ratingW'[Key(t)].text = req[t].text
        /\ ratingW'[Key(t)].hidden = rating[Key(t)].hidden
    BY <2>2, <2>3 DEF Rows
  <2>5. QED
    BY <1>1, <1>2, <1>4, <2>1, <2>3, <2>4, OneVersion
<1>5. CASE rating[Key(t)] = NoRating /\ account[req[t].user] = "gone"
  BY <1>5, AbortVersions DEF UpsertRating
<1>6. CASE rating[Key(t)] = NoRating /\ account[req[t].user] # "gone"
  <2> DEFINE new == [id |-> lastId + 1, score |-> req[t].score, text |-> req[t].text,
                     hidden |-> FALSE, event |-> FALSE]
  <2>1. /\ ratingW' = [ratingW EXCEPT ![Key(t)] = new]
        /\ ratingLock' = [ratingLock EXCEPT ![Key(t)] = t]
        /\ UNCHANGED <<users, rating, req>>
    BY <1>6 DEF UpsertRating
  <2>2. /\ ratingW'[Key(t)] = new
        /\ ratingLock'[Key(t)] = t
        /\ \A k \in Keys \ {Key(t)} :
               ratingW'[k] = ratingW[k] /\ ratingLock'[k] = ratingLock[k]
    BY <1>2, <2>1 DEF LedgerInv, SafetyInv, TypeInv, TypeOK
  <2>3. new.score = req[t].score /\ new.text = req[t].text /\ new.hidden = FALSE
    OBVIOUS
  <2> HIDE DEF new
  <2>4. QED
    BY <1>1, <1>2, <1>6, <2>1, <2>2, <2>3, OneVersion
<1>7. QED
  BY <1>4, <1>5, <1>6

LEMMA DeleteRatingVersions ==
    ASSUME LedgerInv, NEW t \in Txns, DeleteRating(t) PROVE Versions' /\ AccountVersions'
<1>1. /\ Active(t) /\ req[t].kind = "unrate" /\ pc[t] = "write" /\ Blockers(t) = {}
      /\ UNCHANGED <<users, rating, req>>
  BY DEF DeleteRating, Active, Statements
<1>2. Key(t) \in Keys
  BY <1>1, Running DEF LedgerInv, SafetyInv
<1>3. CASE StillThere(t)
  <2>1. /\ rating[Key(t)] # NoRating
        /\ ratingW' = [ratingW EXCEPT ![Key(t)] = NoRating]
        /\ ratingLock' = [ratingLock EXCEPT ![Key(t)] = t]
    BY <1>3 DEF DeleteRating, StillThere
  <2>2. /\ ratingW'[Key(t)] = NoRating
        /\ ratingLock'[Key(t)] = t
        /\ \A k \in Keys \ {Key(t)} :
               ratingW'[k] = ratingW[k] /\ ratingLock'[k] = ratingLock[k]
    BY <1>2, <2>1 DEF LedgerInv, SafetyInv, TypeInv, TypeOK
  <2>3. QED
    BY <1>1, <1>2, <2>1, <2>2, OneVersion
<1>4. CASE ~StillThere(t)
  BY <1>1, <1>4, QuietVersions DEF DeleteRating, ratings
<1>5. QED
  BY <1>3, <1>4

LEMMA WriteHiddenVersions ==
    ASSUME LedgerInv, NEW t \in Txns, WriteHidden(t) PROVE Versions' /\ AccountVersions'
<1>1. Active(t) /\ req[t].kind = "hide" /\ pc[t] = "write" /\ Blockers(t) = {}
  BY DEF WriteHidden, Active, Statements
<1>2. Key(t) \in Keys
  BY <1>1, Running DEF LedgerInv, SafetyInv
<1>3. CASE ~SetsFlag(t)
  BY <1>3, QuietVersions DEF WriteHidden
<1>4. CASE SetsFlag(t) /\ ~StillThere(t)
  BY <1>4, AbortVersions DEF WriteHidden
<1>5. CASE SetsFlag(t) /\ StillThere(t)
  <2>1. /\ rating[Key(t)] # NoRating
        /\ ratingW' = [ratingW EXCEPT ![Key(t)].hidden = req[t].flag]
        /\ ratingLock' = [ratingLock EXCEPT ![Key(t)] = t]
        /\ UNCHANGED <<users, rating, req>>
    BY <1>5 DEF WriteHidden, StillThere
  <2>2. ratingW[Key(t)] = rating[Key(t)]
    BY <1>1, <1>2, <1>5, FreeToWrite DEF LedgerInv, SafetyInv, TypeInv, Unlocked
  <2>3. /\ ratingW'[Key(t)] = [rating[Key(t)] EXCEPT !.hidden = req[t].flag]
        /\ ratingLock'[Key(t)] = t
        /\ \A k \in Keys \ {Key(t)} :
               ratingW'[k] = ratingW[k] /\ ratingLock'[k] = ratingLock[k]
    BY <1>2, <2>1, <2>2 DEF LedgerInv, SafetyInv, TypeInv, TypeOK
  <2>4. QED
    BY <1>1, <1>2, <2>1, <2>3, OneVersion
<1>6. QED
  BY <1>3, <1>4, <1>5

LEMMA WriteEventVersions ==
    ASSUME LedgerInv, NEW t \in Txns, WriteEvent(t) PROVE Versions' /\ AccountVersions'
<1>1. /\ Active(t) /\ req[t].kind = "rate"
      /\ UNCHANGED <<users, rating, ratingLock, req>>
      /\ ratingW' = [ratingW EXCEPT ![Key(t)].event = HasContent(ratingW[Key(t)])]
  BY DEF WriteEvent, Active, Statements, LedgerInv, SafetyInv, TypeInv, Requesting
<1>2. Key(t) \in Keys /\ ratingLock[Key(t)] = t /\ ratingW[Key(t)] # NoRating
  BY <1>1, Running DEF WriteEvent, LedgerInv, SafetyInv, TypeInv, Holding
<1>3. ratingW[Key(t)] \in Rows
  BY <1>2 DEF LedgerInv, SafetyInv, TypeInv, TypeOK
<1>4. /\ ratingW'[Key(t)] = [ratingW[Key(t)] EXCEPT !.event = HasContent(ratingW[Key(t)])]
      /\ \A k \in Keys \ {Key(t)} : ratingW'[k] = ratingW[k]
  BY <1>1, <1>2 DEF LedgerInv, SafetyInv, TypeInv, TypeOK
<1>5. /\ ratingW'[Key(t)].score = ratingW[Key(t)].score
      /\ ratingW'[Key(t)].text = ratingW[Key(t)].text
      /\ ratingW'[Key(t)].hidden = ratingW[Key(t)].hidden
  BY <1>3, <1>4 DEF Rows
<1>6. /\ ratingW[Key(t)].score = req[t].score
      /\ ratingW[Key(t)].text = req[t].text
      /\ rating[Key(t)] = NoRating => ratingW[Key(t)].hidden = FALSE
      /\ rating[Key(t)] # NoRating => ratingW[Key(t)].hidden = rating[Key(t)].hidden
  BY <1>1, <1>2 DEF LedgerInv, Versions
<1>7. /\ ratingW'[Key(t)].score = req[t].score
      /\ ratingW'[Key(t)].text = req[t].text
      /\ rating[Key(t)] = NoRating => ratingW'[Key(t)].hidden = FALSE
      /\ rating[Key(t)] # NoRating => ratingW'[Key(t)].hidden = rating[Key(t)].hidden
  BY <1>5, <1>6
<1>8. ratingLock'[Key(t)] = t /\ \A k \in Keys : ratingLock'[k] = ratingLock[k]
  BY <1>1, <1>2
<1>9. QED
  BY <1>1, <1>2, <1>4, <1>7, <1>8, OneVersion

\* A ban or an erasure takes the row of its user.
LEMMA OneAccount ==
    ASSUME LedgerInv, NEW t \in Txns, NEW u \in Users,
           userLock[u] = NoTxn, account[u] # "gone",
           userLock' = [userLock EXCEPT ![u] = t],
           \A v \in Users \ {u} : accountW'[v] = accountW[v],
           req[t].kind = "ban" => accountW'[u] = IF req[t].flag THEN "banned" ELSE "active",
           UNCHANGED <<account, ratings, req>>
    PROVE  Versions' /\ AccountVersions'
<1>1. userLock'[u] = t /\ \A v \in Users \ {u} : userLock'[v] = userLock[v]
  BY DEF LedgerInv, SafetyInv, TypeInv, TypeOK
<1>2. AccountVersions'
  BY <1>1 DEF LedgerInv, AccountVersions
<1>3. Versions'
  <2> SUFFICES ASSUME NEW k \in Keys, NEW s \in Txns, ratingLock[k] = s
               PROVE  Versions!(k, s)'
    BY DEF Versions, ratings
  <2>1. Versions!(k, s) /\ UNCHANGED <<rating, ratingW, req>>
    BY DEF LedgerInv, Versions, ratings
  <2>2. req[s].kind = "erase" => userLock'[k[1]] = s
    <3>1. k[1] \in Users
      BY DEF Keys
    <3>2. QED
      BY <1>1, <2>1, <3>1, RatingsAssumption
  <2>3. QED
    BY <2>1, <2>2
<1>4. QED
  BY <1>2, <1>3

LEMMA WriteBannedVersions ==
    ASSUME LedgerInv, NEW t \in Txns, WriteBanned(t) PROVE Versions' /\ AccountVersions'
<1>1. Active(t) /\ req[t].kind = "ban" /\ pc[t] = "write" /\ Blockers(t) = {}
  BY DEF WriteBanned, Active, Statements
<1>2. req[t].user \in Users
  BY <1>1, Running DEF LedgerInv, SafetyInv
<1>3. CASE ~SetsFlag(t)
  BY <1>3, QuietVersions DEF WriteBanned
<1>4. CASE SetsFlag(t) /\ account[req[t].user] = "gone"
  BY <1>4, AbortVersions DEF WriteBanned
<1>5. CASE SetsFlag(t) /\ account[req[t].user] # "gone"
  <2>1. /\ userLock[req[t].user] = NoTxn
        /\ accountW' = [accountW EXCEPT ![req[t].user] =
                           IF req[t].flag THEN "banned" ELSE "active"]
        /\ userLock' = [userLock EXCEPT ![req[t].user] = t]
        /\ UNCHANGED <<account, ratings, req>>
    BY <1>1, <1>5, FreeToWrite DEF WriteBanned, LedgerInv, SafetyInv
  <2>2. /\ accountW'[req[t].user] = IF req[t].flag THEN "banned" ELSE "active"
        /\ \A v \in Users \ {req[t].user} : accountW'[v] = accountW[v]
    BY <1>2, <2>1 DEF LedgerInv, SafetyInv, TypeInv, TypeOK
  <2>3. QED
    BY <1>2, <1>5, <2>1, <2>2, OneAccount
<1>6. QED
  BY <1>3, <1>4, <1>5

LEMMA DeleteUserVersions ==
    ASSUME LedgerInv, NEW t \in Txns, DeleteUser(t) PROVE Versions' /\ AccountVersions'
<1>1. /\ Active(t) /\ req[t].kind = "erase" /\ pc[t] = "write" /\ Blockers(t) = {}
      /\ UNCHANGED <<account, ratings, req>>
  BY DEF DeleteUser, Active, Statements
<1>2. req[t].user \in Users /\ userLock[req[t].user] = NoTxn
  BY <1>1, Running, FreeToWrite DEF LedgerInv, SafetyInv
<1>3. CASE account[req[t].user] # "gone"
  <2>1. /\ accountW' = [accountW EXCEPT ![req[t].user] = "gone"]
        /\ userLock' = [userLock EXCEPT ![req[t].user] = t]
    BY <1>3 DEF DeleteUser
  <2>2. \A v \in Users \ {req[t].user} : accountW'[v] = accountW[v]
    BY <1>2, <2>1 DEF LedgerInv, SafetyInv, TypeInv, TypeOK
  <2>3. QED
    BY <1>1, <1>2, <1>3, <2>1, <2>2, OneAccount
<1>4. CASE account[req[t].user] = "gone"
  BY <1>1, <1>4, QuietVersions DEF DeleteUser, users
<1>5. QED
  BY <1>3, <1>4

LEMMA CascadeRatingsVersions ==
    ASSUME LedgerInv, NEW t \in Txns, CascadeRatings(t) PROVE Versions' /\ AccountVersions'
<1> DEFINE doomed == {k \in Keys : k[1] = req[t].user /\ rating[k] # NoRating}
<1>1. /\ req[t].kind = "erase" /\ pc[t] = "cascade" /\ Blockers(t) = {}
      /\ UNCHANGED <<users, rating, req>>
      /\ ratingW' = [k \in Keys |-> IF k \in doomed THEN NoRating ELSE ratingW[k]]
      /\ ratingLock' = [k \in Keys |-> IF k \in doomed THEN t ELSE ratingLock[k]]
  BY DEF CascadeRatings, LedgerInv, SafetyInv, TypeInv, Requesting
<1>2. AccountVersions'
  BY <1>1 DEF LedgerInv, AccountVersions, users
<1>3. Versions'
  <2> SUFFICES ASSUME NEW k \in Keys, NEW s \in Txns, ratingLock'[k] = s
               PROVE  Versions!(k, s)'
    BY DEF Versions
  <2>1. UNCHANGED <<userLock, rating, req>>
    BY <1>1 DEF users
  <2>2. CASE k \in doomed
    <3>1. s = t /\ ratingW'[k] = NoRating
      BY <1>1, <2>2
    <3>2. userLock[req[t].user] = t
      BY <1>1, <3>1 DEF LedgerInv, Cascading
    <3>3. QED
      BY <1>1, <2>1, <2>2, <3>1, <3>2
  <2>3. CASE k \notin doomed
    <3>1. Versions!(k, s) /\ ratingLock[k] = s /\ ratingW'[k] = ratingW[k]
      BY <1>1, <2>3 DEF LedgerInv, Versions
    <3>2. QED
      BY <2>1, <3>1
  <2>4. QED
    BY <2>2, <2>3
<1>4. QED
  BY <1>2, <1>3

\* What keeps a cascade's users row held: nobody else's statement takes it.
LEMMA CascadingKept ==
    ASSUME LedgerInv, NEW t \in Txns, NEW label, Goto(t, label), UNCHANGED req,
           label = "cascade" => userLock'[req[t].user] = t,
           \A u \in Users : userLock[u] \notin {NoTxn, t} => userLock'[u] = userLock[u]
    PROVE  Cascading'
<1> SUFFICES ASSUME NEW s \in Txns, pc'[s] = "cascade" PROVE userLock'[req[s].user] = s
  BY DEF Cascading
<1>1. CASE s = t
  BY <1>1 DEF Goto, LedgerInv, SafetyInv, TypeInv, TypeOK
<1>2. CASE s # t
  <2>1. pc[s] = "cascade"
    BY <1>2 DEF Goto, LedgerInv, SafetyInv, TypeInv, TypeOK
  <2>2. userLock[req[s].user] = s /\ req[s].user \in Users
    BY <2>1, Running DEF LedgerInv, SafetyInv, Cascading, Active, Statements
  <2>3. QED
    BY <1>2, <2>2, RatingsAssumption
<1>3. QED
  BY <1>1, <1>2

LEMMA BeginCascading == ASSUME LedgerInv, NEW t \in Txns, Begin(t) PROVE Cascading'
<1>1. PICK r \in Menu : Begin(t)!(r)
  BY DEF Begin
<1>2. /\ pc'[t] \in {"load", "write", "capture"}
      /\ \A s \in Txns \ {t} : pc'[s] = pc[s] /\ req'[s] = req[s]
      /\ UNCHANGED userLock
  BY <1>1 DEF Goto, LedgerInv, SafetyInv, TypeInv, TypeOK, users
<1>3. QED
  BY <1>2 DEF LedgerInv, Cascading

LEMMA EndCascading ==
    ASSUME LedgerInv, NEW t \in Txns, Release(t), NEW label \in {"done", "failed"},
           Goto(t, label), UNCHANGED req
    PROVE  Cascading'
<1>1. \A u \in Users : userLock[u] \notin {NoTxn, t} => userLock'[u] = userLock[u]
  BY DEF Release
<1>2. QED
  BY <1>1, CascadingKept

LEMMA StatementCascading ==
    ASSUME LedgerInv, NEW t \in Txns, Statement(t) \/ Crash(t) PROVE Cascading'
<1>1. CASE Abort(t)
  BY <1>1, EndCascading DEF Abort
<1>2. CASE Commit(t)
  BY <1>2, EndCascading DEF Commit
<1>3. CASE LoadItem(t)
  BY <1>3, CascadingKept DEF LoadItem, users
<1>4. CASE FindOwnRating(t)
  BY <1>4, CascadingKept DEF FindOwnRating, users
<1>5. CASE CaptureItems(t)
  BY <1>5, CascadingKept DEF CaptureItems, users
<1>6. CASE UpsertRating(t)
  BY <1>1, <1>6, CascadingKept DEF UpsertRating, users
<1>7. CASE DeleteRating(t)
  BY <1>7, CascadingKept DEF DeleteRating, users
<1>8. CASE WriteHidden(t)
  BY <1>1, <1>8, CascadingKept DEF WriteHidden, users
<1>9. CASE WriteBanned(t)
  <2>1. AfterWrite(t) # "cascade"
    BY DEF AfterWrite
  <2>2. CASE ~SetsFlag(t)
    BY <1>9, <2>1, <2>2, CascadingKept DEF WriteBanned, users
  <2>3. CASE SetsFlag(t) /\ account[req[t].user] = "gone"
    BY <1>1, <1>9, <2>3 DEF WriteBanned
  <2>4. CASE SetsFlag(t) /\ account[req[t].user] # "gone"
    <3>1. /\ Goto(t, AfterWrite(t)) /\ UNCHANGED req
          /\ userLock' = [userLock EXCEPT ![req[t].user] = t]
      BY <1>9, <2>4 DEF WriteBanned
    <3>2. userLock[req[t].user] = NoTxn
      BY <1>9, <2>4, FreeToWrite DEF WriteBanned, LedgerInv, SafetyInv
    <3>3. \A u \in Users : userLock[u] \notin {NoTxn, t} => userLock'[u] = userLock[u]
      BY <3>1, <3>2 DEF LedgerInv, SafetyInv, TypeInv, TypeOK
    <3>4. QED
      BY <2>1, <3>1, <3>3, CascadingKept
  <2>5. QED
    BY <2>2, <2>3, <2>4
<1>10. CASE DeleteUser(t)
  <2>1. /\ Active(t) /\ req[t].kind = "erase" /\ pc[t] = "write" /\ Blockers(t) = {}
        /\ UNCHANGED req
    BY <1>10 DEF DeleteUser, Active, Statements
  <2>2. req[t].user \in Users /\ userLock[req[t].user] = NoTxn
    BY <2>1, Running, FreeToWrite DEF LedgerInv, SafetyInv
  <2>3. CASE account[req[t].user] # "gone"
    <3>1. /\ userLock' = [userLock EXCEPT ![req[t].user] = t]
          /\ Goto(t, "cascade")
      BY <1>10, <2>3 DEF DeleteUser
    <3>2. /\ userLock'[req[t].user] = t
          /\ \A u \in Users : userLock[u] \notin {NoTxn, t} => userLock'[u] = userLock[u]
      BY <2>2, <3>1 DEF LedgerInv, SafetyInv, TypeInv, TypeOK
    <3>3. QED
      BY <2>1, <3>1, <3>2, CascadingKept
  <2>4. CASE account[req[t].user] = "gone"
    <3>1. Goto(t, AfterWrite(t)) /\ UNCHANGED userLock /\ AfterWrite(t) # "cascade"
      BY <1>10, <2>4 DEF DeleteUser, AfterWrite
    <3>2. QED
      BY <2>1, <3>1, CascadingKept
  <2>5. QED
    BY <2>3, <2>4
<1>11. CASE CascadeRatings(t)
  <2>1. AfterWrite(t) # "cascade"
    BY DEF AfterWrite
  <2>2. QED
    BY <1>11, <2>1, CascadingKept DEF CascadeRatings, users
<1>12. CASE SelectAggregate(t)
  BY <1>12, CascadingKept DEF SelectAggregate, users
<1>13. CASE UpdateItem(t)
  BY <1>13, CascadingKept DEF UpdateItem, users
<1>14. CASE WriteEvent(t)
  BY <1>14, CascadingKept DEF WriteEvent, users
<1>15. CASE ResetItem(t)
  BY <1>15, CascadingKept DEF ResetItem, users
<1>16. CASE AggregateItems(t)
  BY <1>16, CascadingKept DEF AggregateItems, users
<1>17. QED
  BY <1>1, <1>2, <1>3, <1>4, <1>5, <1>6, <1>7, <1>8, <1>9, <1>10, <1>11, <1>12, <1>13,
     <1>14, <1>15, <1>16 DEF Statement, Crash, DeadlockVictim

LEMMA NextLedger == LedgerInv /\ [Next]_vars => LedgerInv'
<1> SUFFICES ASSUME LedgerInv, [Next]_vars PROVE LedgerInv'
  OBVIOUS
<1>1. SafetyInv'
  BY NextSafety DEF LedgerInv
<1>2. ASSUME NEW t \in Txns, Begin(t) \/ Statement(t) \/ Crash(t)
      PROVE  Versions' /\ AccountVersions' /\ Cascading'
  <2>1. CASE Begin(t)
    BY <2>1, BeginVersions, BeginCascading
  <2>2. CASE UNCHANGED <<users, ratings, req>> /\ (Statement(t) \/ Crash(t))
    BY <2>2, QuietVersions, StatementCascading
  <2>3. CASE Statement(t) \/ Crash(t)
    <3>1. CASE LoadItem(t) \/ FindOwnRating(t) \/ CaptureItems(t) \/ SelectAggregate(t)
      BY <2>2, <2>3, <3>1 DEF LoadItem, FindOwnRating, CaptureItems, SelectAggregate
    <3>2. CASE UpdateItem(t) \/ ResetItem(t) \/ AggregateItems(t)
      BY <2>2, <2>3, <3>2 DEF UpdateItem, ResetItem, AggregateItems
    <3>3. QED
      BY <2>3, <3>1, <3>2, StatementCascading, UpsertRatingVersions, DeleteRatingVersions,
         WriteHiddenVersions, WriteBannedVersions, DeleteUserVersions,
         CascadeRatingsVersions, WriteEventVersions, CommitVersions, AbortVersions
         DEF Statement, Crash, DeadlockVictim
  <2>4. QED
    BY <1>2, <2>1, <2>3
<1>3. CASE UNCHANGED vars
  BY <1>1, <1>3, QuietVersions DEF LedgerInv, Cascading, vars, users, ratings
<1>4. QED
  BY <1>1, <1>2, <1>3 DEF Next, LedgerInv

\* A row as the ledger sees it is a review, never the absence of one.
LEMMA ReviewFields ==
    ASSUME NEW row \in Rows
    PROVE  /\ Review(row) # NoRating
           /\ Review(row) = [score |-> row.score, text |-> row.text, hidden |-> row.hidden]
           /\ Review(row) \in Ledger!Reviews
<1>1. row # NoRating
  BY RatingsAssumption
<1>2. [score |-> row.score, text |-> row.text, hidden |-> row.hidden]
          \in [score : Scores \cup {NoScore}, text : BOOLEAN, hidden : BOOLEAN]
  BY DEF Rows
<1>3. QED
  BY <1>1, <1>2, RatingsAssumption DEF Review, Ledger!Reviews

LEMMA LedgerInitial == Init => Ledger!Init
<1> SUFFICES ASSUME Init PROVE Ledger!Init
  OBVIOUS
<1>1. rating \in [Keys -> Rows \cup {NoRating}]
  BY RatingsAssumption DEF Init
<1>2. \A k \in Keys : Review(rating[k]) \in Ledger!Reviews \cup {NoRating}
  BY <1>1, ReviewFields DEF Review
<1>3. Reviewed \in [Users \X Items -> Ledger!Reviews \cup {NoRating}]
  BY <1>2 DEF Reviewed, Keys
<1>4. ASSUME NEW k \in Keys
      PROVE  k \in Featured <=> Reviewed[k] # NoRating /\ Ledger!HasContent(Reviewed[k])
  <2>1. CASE rating[k] = NoRating
    BY <2>1 DEF Featured, Reviewed, Review
  <2>2. CASE rating[k] # NoRating
    <3>1. rating[k] \in Rows /\ (rating[k].event <=> HasContent(rating[k]))
      BY <1>1, <2>2, SafetyInit DEF SafetyInv, EventIffContent
    <3>2. Reviewed[k] = [score |-> rating[k].score, text |-> rating[k].text,
                         hidden |-> rating[k].hidden] /\ Reviewed[k] # NoRating
      BY <3>1, ReviewFields DEF Reviewed
    <3>3. Ledger!HasContent(Reviewed[k]) <=> HasContent(rating[k])
      BY <3>2 DEF Ledger!HasContent, HasContent
    <3>4. QED
      BY <2>2, <3>1, <3>2, <3>3 DEF Featured
  <2>3. QED
    BY <2>1, <2>2
<1>5. Featured = {k \in Users \X Items :
                    Reviewed[k] # NoRating /\ Ledger!HasContent(Reviewed[k])}
  BY <1>4 DEF Featured, Keys
<1>6. account \in [Users -> {"active", "banned"}] /\ audit = <<>>
  BY DEF Init
<1>7. QED
  BY <1>3, <1>5, <1>6 DEF Ledger!Init

\* What COMMIT of t makes of the rows of the four kinds of table.
LEMMA Committed ==
    ASSUME LedgerInv, NEW t \in Txns, Commit(t)
    PROVE  /\ Active(t) /\ req[t].user \in Users
           /\ account' \in [Users -> Accounts]
           /\ rating' \in [Keys -> Rows \cup {NoRating}]
           /\ \A u \in Users : account'[u] = IF userLock[u] = t THEN accountW[u] ELSE account[u]
           /\ \A k \in Keys : rating'[k] = IF ratingLock[k] = t THEN ratingW[k] ELSE rating[k]
           /\ audit' = IF req[t].kind \in {"hide", "ban"} THEN Append(audit, req[t]) ELSE audit
           /\ \A u \in Users : userLock[u] = t =>
                 u = req[t].user /\ req[t].kind \in {"ban", "erase"}
           /\ \A k \in Keys : ratingLock[k] = t =>
                 \/ req[t].kind \in {"rate", "unrate", "hide"} /\ k = Key(t)
                 \/ req[t].kind = "erase" /\ k[1] = req[t].user
<1>1. Active(t) /\ pc[t] = "commit"
  BY DEF Commit, Active, Statements
<1>2. TypeOK'
  BY CommitType DEF LedgerInv, SafetyInv, TypeInv
<1>3. \A u \in Users : userLock[u] = t =>
          u = req[t].user /\ req[t].kind \in {"ban", "erase"}
  BY DEF LedgerInv, SafetyInv, UserHolders
<1>4. ASSUME NEW k \in Keys, ratingLock[k] = t
      PROVE  \/ req[t].kind \in {"rate", "unrate", "hide"} /\ k = Key(t)
             \/ req[t].kind = "erase" /\ k[1] = req[t].user
  <2>1. RatingHolders!(k, t) /\ Versions!(k, t)
    BY DEF LedgerInv, SafetyInv, RatingHolders, Versions
  <2>2. QED
    BY <1>4, <2>1
<1>5. QED
  BY <1>1, <1>2, <1>3, <1>4, Running
     DEF LedgerInv, SafetyInv, TypeOK, Commit, AccountsAfter, RatingsAfter

\* Rows that stay leave the ledger's view of them as it was.
LEMMA SameReviews ==
    ASSUME rating' = rating
    PROVE  Reviewed' = Reviewed /\ Featured' = Featured
BY DEF Reviewed, Featured, Review

LEMMA CommitRate ==
    ASSUME LedgerInv, NEW t \in Txns, Commit(t), req[t].kind = "rate"
    PROVE  Ledger!Next
<1> DEFINE u == req[t].user
           i == req[t].item
           row == [score |-> req[t].score, text |-> req[t].text,
                   hidden |-> IF Reviewed[Key(t)] = NoRating THEN FALSE
                              ELSE Reviewed[Key(t)].hidden]
<1>1. /\ Active(t) /\ pc[t] = "commit" /\ u \in Users /\ i \in Items /\ Key(t) \in Keys
      /\ req[t].score \in Scores \cup {NoScore} /\ req[t].text \in BOOLEAN
      /\ Key(t) = <<u, i>>
  BY Committed, Running DEF Commit, Key, LedgerInv, SafetyInv
<1>2. /\ ratingLock[Key(t)] = t /\ ratingW[Key(t)] # NoRating
      /\ ratingW[Key(t)] \in Rows
  BY <1>1 DEF LedgerInv, SafetyInv, TypeInv, TypeOK, Holding
<1>3. /\ rating' \in [Keys -> Rows \cup {NoRating}]
      /\ rating \in [Keys -> Rows \cup {NoRating}]
      /\ rating'[Key(t)] = ratingW[Key(t)]
      /\ \A k \in Keys \ {Key(t)} : rating'[k] = rating[k]
      /\ account' = account /\ audit' = audit
  <2>1. account' = account
    BY Committed DEF LedgerInv, SafetyInv, TypeInv, TypeOK
  <2>2. QED
    BY <1>1, <1>2, <2>1, Committed DEF LedgerInv, SafetyInv, TypeInv, TypeOK
<1>4. /\ ratingW[Key(t)].score = req[t].score
      /\ ratingW[Key(t)].text = req[t].text
      /\ rating[Key(t)] = NoRating => ratingW[Key(t)].hidden = FALSE
      /\ rating[Key(t)] # NoRating => ratingW[Key(t)].hidden = rating[Key(t)].hidden
  BY <1>1, <1>2 DEF LedgerInv, Versions
<1>5. ratingW[Key(t)].event <=> HasContent(ratingW[Key(t)])
  BY <1>1, <1>2 DEF LedgerInv, SafetyInv, RatingHolders
<1>6. account[u] # "gone"
  <2>1. CASE rating[Key(t)] = NoRating
    BY <1>1, <1>2, <2>1 DEF LedgerInv, SafetyInv, RatingHolders, Sharing
  <2>2. CASE rating[Key(t)] # NoRating
    BY <1>1, <2>2 DEF LedgerInv, SafetyInv, ErasedUserLeavesNoRows
  <2>3. QED
    BY <2>1, <2>2
<1>7. Reviewed'[Key(t)] = row
  <2>1. Reviewed'[Key(t)] = [score |-> ratingW[Key(t)].score, text |-> ratingW[Key(t)].text,
                             hidden |-> ratingW[Key(t)].hidden]
    BY <1>1, <1>2, <1>3, ReviewFields DEF Reviewed, Review
  <2>2. CASE rating[Key(t)] = NoRating
    <3>1. Reviewed[Key(t)] = NoRating
      BY <1>1, <2>2 DEF Reviewed, Review
    <3>2. QED
      BY <1>4, <2>1, <2>2, <3>1
  <2>3. CASE rating[Key(t)] # NoRating
    <3>1. rating[Key(t)] \in Rows
      BY <1>1, <1>3, <2>3
    <3>2. Reviewed[Key(t)] # NoRating /\ Reviewed[Key(t)].hidden = rating[Key(t)].hidden
      BY <1>1, <3>1, ReviewFields DEF Reviewed
    <3>3. QED
      BY <1>4, <2>1, <2>3, <3>2
  <2>4. QED
    BY <2>2, <2>3
<1> HIDE DEF row
<1>8. Reviewed' = [Reviewed EXCEPT ![Key(t)] = row]
  BY <1>1, <1>3, <1>7 DEF Reviewed, Review
<1>9. Featured' = IF Ledger!HasContent(row) THEN Featured \cup {Key(t)} ELSE Featured \ {Key(t)}
  <2>1. Ledger!HasContent(row) <=> ratingW[Key(t)].event
    BY <1>4, <1>5 DEF row, Ledger!HasContent, HasContent
  <2>2. \A k \in Keys \ {Key(t)} : k \in Featured' <=> k \in Featured
    BY <1>3 DEF Featured
  <2>3. Key(t) \in Featured' <=> ratingW[Key(t)].event
    BY <1>1, <1>2, <1>3 DEF Featured
  <2>4. Featured \subseteq Keys /\ Featured' \subseteq Keys
    BY DEF Featured
  <2>5. QED
    BY <1>1, <2>1, <2>2, <2>3, <2>4
<1>10. Ledger!Rate(u, i, req[t].score, req[t].text)
  BY <1>1, <1>3, <1>6, <1>8, <1>9 DEF row, Ledger!Rate
<1>11. QED
  BY <1>1, <1>10 DEF Ledger!Next

LEMMA CommitUnrate ==
    ASSUME LedgerInv, NEW t \in Txns, Commit(t), req[t].kind = "unrate"
    PROVE  [Ledger!Next]_(Ledger!vars)
<1> DEFINE u == req[t].user
           i == req[t].item
<1>1. /\ Active(t) /\ u \in Users /\ i \in Items /\ Key(t) \in Keys /\ Key(t) = <<u, i>>
  BY Committed, Running DEF Key, LedgerInv, SafetyInv
<1>2. /\ \A k \in Keys \ {Key(t)} : rating'[k] = rating[k]
      /\ account' = account /\ audit' = audit
  BY <1>1, Committed DEF LedgerInv, SafetyInv, TypeInv, TypeOK
<1>3. CASE ratingLock[Key(t)] = t
  <2>1. rating[Key(t)] # NoRating /\ rating'[Key(t)] = NoRating
    <3>1. Versions!(Key(t), t)
      BY <1>1 DEF LedgerInv, Versions
    <3>2. QED
      BY <1>1, <1>3, <3>1, Committed
  <2>2. rating[Key(t)] \in Rows
    BY <1>1, <2>1 DEF LedgerInv, SafetyInv, TypeInv, TypeOK
  <2>3. Reviewed[Key(t)] # NoRating
    BY <1>1, <2>2, ReviewFields DEF Reviewed
  <2>4. Reviewed' = [Reviewed EXCEPT ![Key(t)] = NoRating]
    BY <1>1, <1>2, <2>1 DEF Reviewed, Review
  <2>5. Featured' = Featured \ {Key(t)}
    BY <1>1, <1>2, <2>1 DEF Featured
  <2>6. Ledger!Unrate(u, i)
    BY <1>1, <1>2, <2>3, <2>4, <2>5 DEF Ledger!Unrate
  <2>7. QED
    BY <1>1, <2>6 DEF Ledger!Next
<1>4. CASE ratingLock[Key(t)] # t
  <2>1. rating' = rating
    BY <1>1, <1>2, <1>4, Committed DEF LedgerInv, SafetyInv, TypeInv, TypeOK
  <2>2. QED
    BY <1>2, <2>1, SameReviews DEF Ledger!vars
<1>5. QED
  BY <1>3, <1>4

LEMMA CommitHide ==
    ASSUME LedgerInv, NEW t \in Txns, Commit(t), req[t].kind = "hide"
    PROVE  Ledger!Next
<1> DEFINE u == req[t].user
           i == req[t].item
           f == req[t].flag
<1>1. /\ Active(t) /\ u \in Users /\ i \in Items /\ f \in BOOLEAN
      /\ Key(t) \in Keys /\ Key(t) = <<u, i>> /\ req[t] \in Requests
  BY Committed, Running DEF Key, LedgerInv, SafetyInv
<1>2. req[t] = [kind |-> "hide", user |-> u, item |-> i, flag |-> f]
  BY <1>1 DEF Requests
<1>3. /\ \A k \in Keys \ {Key(t)} : rating'[k] = rating[k]
      /\ account' = account
      /\ audit' = Append(audit, [kind |-> "hide", user |-> u, item |-> i, flag |-> f])
  BY <1>1, <1>2, Committed DEF LedgerInv, SafetyInv, TypeInv, TypeOK
<1>4. /\ Featured' = Featured
      /\ \/ /\ Reviewed[<<u, i>>] # NoRating
            /\ Reviewed' = [Reviewed EXCEPT ![<<u, i>>].hidden = f]
         \/ Reviewed' = Reviewed
  <2>1. CASE ratingLock[Key(t)] = t
    <3>1. rating[Key(t)] # NoRating /\ rating'[Key(t)] = [rating[Key(t)] EXCEPT !.hidden = f]
      <4>1. Versions!(Key(t), t)
        BY <1>1 DEF LedgerInv, Versions
      <4>2. QED
        BY <1>1, <2>1, <4>1, Committed
    <3>2. rating[Key(t)] \in Rows
      BY <1>1, <3>1 DEF LedgerInv, SafetyInv, TypeInv, TypeOK
    <3>3. /\ rating'[Key(t)] \in Rows
          /\ rating'[Key(t)].event = rating[Key(t)].event
          /\ rating'[Key(t)].score = rating[Key(t)].score
          /\ rating'[Key(t)].text = rating[Key(t)].text
          /\ rating'[Key(t)].hidden = f
      BY <1>1, <3>1, <3>2 DEF Rows
    <3>4. /\ Reviewed[Key(t)] # NoRating
          /\ Reviewed[Key(t)] = [score |-> rating[Key(t)].score, text |-> rating[Key(t)].text,
                                 hidden |-> rating[Key(t)].hidden]
          /\ Reviewed'[Key(t)] = [score |-> rating[Key(t)].score, text |-> rating[Key(t)].text,
                                  hidden |-> f]
      BY <1>1, <3>2, <3>3, ReviewFields DEF Reviewed
    <3>5. Reviewed'[Key(t)] = [Reviewed[Key(t)] EXCEPT !.hidden = f]
      BY <3>4
    <3>6. Reviewed' = [Reviewed EXCEPT ![Key(t)] = [Reviewed[Key(t)] EXCEPT !.hidden = f]]
      BY <1>1, <1>3, <3>5 DEF Reviewed, Review
    <3>7. rating'[Key(t)] # NoRating
      BY <3>3, RatingsAssumption
    <3>8. Featured' = Featured
      <4>1. \A k \in Keys : k \in Featured' <=> k \in Featured
        BY <1>1, <1>3, <3>1, <3>3, <3>7 DEF Featured
      <4>2. QED
        BY <4>1 DEF Featured
    <3>9. QED
      BY <1>1, <3>4, <3>6, <3>8
  <2>2. CASE ratingLock[Key(t)] # t
    <3>1. rating' = rating
      BY <1>1, <1>3, <2>2, Committed DEF LedgerInv, SafetyInv, TypeInv, TypeOK
    <3>2. QED
      BY <3>1, SameReviews
  <2>3. QED
    BY <2>1, <2>2
<1>5. Ledger!SetHidden(u, i, f)
  BY <1>3, <1>4 DEF Ledger!SetHidden
<1>6. QED
  BY <1>1, <1>5 DEF Ledger!Next

LEMMA CommitBan ==
    ASSUME LedgerInv, NEW t \in Txns, Commit(t), req[t].kind = "ban"
    PROVE  Ledger!Next
<1> DEFINE u == req[t].user
           f == req[t].flag
<1>1. /\ Active(t) /\ u \in Users /\ f \in BOOLEAN /\ req[t] \in Requests
  BY Committed, Running DEF LedgerInv, SafetyInv
<1>2. req[t] = [kind |-> "ban", user |-> u, flag |-> f]
  BY <1>1 DEF Requests
<1>3. /\ rating' = rating
      /\ audit' = Append(audit, [kind |-> "ban", user |-> u, flag |-> f])
  <2>1. \A k \in Keys : rating'[k] = rating[k]
    BY Committed
  <2>2. rating' = rating
    BY <2>1, Committed DEF LedgerInv, SafetyInv, TypeInv, TypeOK
  <2>3. QED
    BY <1>2, <2>2, Committed
<1>4. \/ /\ account[u] # "gone"
         /\ account' = [account EXCEPT ![u] = IF f THEN "banned" ELSE "active"]
      \/ account' = account
  <2>1. CASE userLock[u] = t
    <3>1. account[u] # "gone" /\ accountW[u] = IF f THEN "banned" ELSE "active"
      BY <1>1, <2>1 DEF LedgerInv, AccountVersions
    <3>2. account' = [account EXCEPT ![u] = IF f THEN "banned" ELSE "active"]
      BY <1>1, <2>1, <3>1, Committed DEF LedgerInv, SafetyInv, TypeInv, TypeOK
    <3>3. QED
      BY <3>1, <3>2
  <2>2. CASE userLock[u] # t
    BY <1>1, <2>2, Committed DEF LedgerInv, SafetyInv, TypeInv, TypeOK
  <2>3. QED
    BY <2>1, <2>2
<1>5. Ledger!SetBanned(u, f)
  BY <1>3, <1>4, SameReviews DEF Ledger!SetBanned
<1>6. QED
  BY <1>1, <1>5 DEF Ledger!Next

LEMMA CommitErase ==
    ASSUME LedgerInv, NEW t \in Txns, Commit(t), req[t].kind = "erase"
    PROVE  [Ledger!Next]_(Ledger!vars)
<1> DEFINE u == req[t].user
<1>1. /\ Active(t) /\ pc[t] = "commit" /\ u \in Users /\ req[t] \in Requests /\ audit' = audit
  BY Committed, Running DEF LedgerInv, SafetyInv, Commit
<1>2. CASE userLock[u] = t
  <2>1. account[u] # "gone" /\ accountW[u] = "gone"
    BY <1>1, <1>2 DEF LedgerInv, SafetyInv, AccountVersions, UserHolders
  <2>2. account' = [account EXCEPT ![u] = "gone"]
    BY <1>1, <1>2, <2>1, Committed DEF LedgerInv, SafetyInv, TypeInv, TypeOK
  <2>3. ASSUME NEW k \in Keys
        PROVE  rating'[k] = IF k[1] = u THEN NoRating ELSE rating[k]
    <3>1. CASE ratingLock[k] = t
      BY <2>3, <3>1, Committed, ZenonT(40) DEF LedgerInv, Versions
    <3>2. CASE ratingLock[k] # t /\ k[1] = u
      <4>1. k[2] \in Items /\ k = <<u, k[2]>>
        BY <3>2 DEF Keys
      <4>2. rating[k] = NoRating
        BY <1>1, <1>2, <3>2, <4>1, RatingsAssumption DEF LedgerInv, SafetyInv, Cascaded
      <4>3. QED
        BY <2>3, <3>2, <4>2, Committed
    <3>3. CASE ratingLock[k] # t /\ k[1] # u
      BY <2>3, <3>3, Committed
    <3>4. QED
      BY <3>1, <3>2, <3>3
  <2>4. Reviewed' = [k \in Keys |-> IF k[1] = u THEN NoRating ELSE Reviewed[k]]
    BY <2>3 DEF Reviewed, Review
  <2>5. Featured' = {k \in Featured : k[1] # u}
    <3>1. \A k \in Keys : k \in Featured' <=> k \in Featured /\ k[1] # u
      BY <2>3 DEF Featured
    <3>2. QED
      BY <3>1 DEF Featured
  <2>6. Ledger!Erase(u)
    BY <1>1, <2>1, <2>2, <2>4, <2>5 DEF Ledger!Erase, Keys
  <2>7. QED
    BY <1>1, <2>6 DEF Ledger!Next
<1>3. CASE userLock[u] # t
  <2>1. ASSUME NEW k \in Keys PROVE ratingLock[k] # t
    <3>1. Versions!(k, t)
      BY DEF LedgerInv, Versions
    <3>2. QED
      BY <1>3, <3>1
  <2>2. rating' = rating /\ account' = account
    BY <1>3, <2>1, Committed DEF LedgerInv, SafetyInv, TypeInv, TypeOK
  <2>3. QED
    BY <1>1, <2>2, SameReviews DEF Ledger!vars
<1>4. QED
  BY <1>2, <1>3

LEMMA LedgerStep == LedgerInv /\ [Next]_vars => [Ledger!Next]_(Ledger!vars)
<1> SUFFICES ASSUME LedgerInv, [Next]_vars PROVE [Ledger!Next]_(Ledger!vars)
  OBVIOUS
<1>1. CASE UNCHANGED <<account, rating, audit>>
  BY <1>1, SameReviews DEF Ledger!vars
<1>2. ASSUME NEW t \in Txns, Commit(t)
      PROVE  [Ledger!Next]_(Ledger!vars)
  <2>1. req[t].kind \in {"rate", "unrate", "hide", "ban", "erase"}
    BY <1>2, Committed, Running DEF LedgerInv, SafetyInv
  <2>2. QED
    BY <1>2, <2>1, CommitRate, CommitUnrate, CommitHide, CommitBan, CommitErase
<1>3. ASSUME NEW t \in Txns, Begin(t) \/ Statement(t) \/ Crash(t), ~Commit(t)
      PROVE  UNCHANGED <<account, rating, audit>>
  <2>1. CASE Begin(t)
    BY <2>1 DEF Begin, users, ratings
  <2>2. CASE LoadItem(t) \/ FindOwnRating(t) \/ CaptureItems(t)
    BY <2>2 DEF LoadItem, FindOwnRating, CaptureItems, users, ratings
  <2>3. CASE UpsertRating(t) \/ DeleteRating(t) \/ WriteHidden(t)
    BY <2>3 DEF UpsertRating, DeleteRating, WriteHidden, Abort, users, ratings
  <2>4. CASE WriteBanned(t) \/ DeleteUser(t) \/ CascadeRatings(t)
    BY <2>4 DEF WriteBanned, DeleteUser, CascadeRatings, Abort, users, ratings
  <2>5. CASE SelectAggregate(t) \/ UpdateItem(t) \/ WriteEvent(t)
    BY <2>5 DEF SelectAggregate, UpdateItem, WriteEvent, users, ratings
  <2>6. CASE ResetItem(t) \/ AggregateItems(t) \/ Abort(t)
    BY <2>6 DEF ResetItem, AggregateItems, Abort, users, ratings
  <2>7. QED
    BY <1>3, <2>1, <2>2, <2>3, <2>4, <2>5, <2>6 DEF Statement, Crash, DeadlockVictim
<1>4. CASE UNCHANGED vars
  BY <1>1, <1>4 DEF vars, users, ratings
<1>5. QED
  BY <1>1, <1>2, <1>3, <1>4 DEF Next

(***************************************************************************)
(* Requests interleaved statement by statement, with their crashes and     *)
(* deadlocks, implement the ledger in which every request takes effect at  *)
(* once or not at all: what COMMIT publishes is one Rate, Unrate,          *)
(* SetHidden, SetBanned or Erase, and nothing else ever shows.             *)
(***************************************************************************)
THEOREM RequestsAreAtomic == Spec => ImplementsLedger
<1>1. Spec => [][Ledger!Next]_(Ledger!vars)
  BY LedgerInit, NextLedger, LedgerStep, PTL DEF Spec
<1>2. QED
  BY <1>1, LedgerInitial, PTL DEF Spec, ImplementsLedger, Ledger!Spec

-----------------------------------------------------------------------------
(* 4. Requests that run alone                                              *)

Single == {"rate", "unrate", "hide"}

\* An items row is held by a recompute, the one of a single item holds only that.
ItemHolders ==
    \A i \in Items, t \in Txns :
        itemLock[i] = t =>
            /\ pc[t] \in {"event", "reset", "aggregate", "commit"}
            /\ req[t].kind \in Single => i = req[t].item

\* No running request may meet one that runs alone.
Apart ==
    \A t, s \in Txns :
        solo[t] /\ Active(t) /\ s # t /\ Active(s) => ~MayMeet(req[s], req[t])

\* A recompute of one item that runs alone: the copy it loaded is current, the mean it
\* computed is that of the reviews it will publish, and the row it publishes has it.
FreshItem(t) ==
    LET i == req[t].item
    IN  /\ \/ pc[t] \in {"update", "event", "commit"}
           \/ pc[t] \in {"find", "write", "select"} /\ req[t].kind # "hide"
           => mem[t].seen = agg[i]
        /\ pc[t] \in {"update", "event", "commit"} \/ (pc[t] = "load" /\ req[t].kind = "hide") =>
              mem[t].calc = SingleAggregate(BallotSeen(t, i))
        /\ pc[t] \in {"event", "commit"} => ItemsAfter(t, agg, aggW)[i] = mem[t].calc

\* A batch that runs alone: the items it captured are those of its user's reviews, the
\* ones past the reset are its own and empty, and in the end they have what it computed.
FreshBatch(t) ==
    /\ pc[t] \in {"write", "cascade", "reset", "aggregate", "commit"} =>
          mem[t].captured = {i \in Items : rating[<<req[t].user, i>>] # NoRating}
    /\ pc[t] \in {"write", "cascade"} => mem[t].todo = mem[t].captured
    /\ pc[t] \in {"reset", "aggregate"} =>
          \A i \in mem[t].captured \ mem[t].todo : itemLock[i] = t /\ aggW[i] = NoRatings
    /\ pc[t] = "aggregate" => mem[t].todo = {}
    /\ pc[t] = "commit" =>
          \A i \in mem[t].captured :
              itemLock[i] = t /\ aggW[i] = BatchAggregate(BallotSeen(t, i))

Fresh ==
    \A t \in Txns :
        solo[t] /\ Active(t) =>
            /\ req[t].kind \in Single => FreshItem(t)
            /\ req[t].kind \in {"ban", "erase"} => FreshBatch(t)

SoloInv == SafetyInv /\ ItemHolders /\ Apart /\ Fresh

LEMMA SoloInit == Init => SoloInv
<1>1. Init => ItemHolders /\ Apart /\ Fresh
  BY RatingsAssumption DEF Init, ItemHolders, Apart, Fresh, Active, Statements
<1>2. QED
  BY <1>1, SafetyInit DEF SoloInv

\* Two requests about items meet on one item; any other two may meet somewhere.
LEMMA Meeting ==
    ASSUME NEW r \in Requests, NEW s \in Requests
    PROVE  /\ r.kind \in Single \/ r.kind \in {"ban", "erase"}
           /\ MayMeet(r, s) <=> (r.kind \in Single /\ s.kind \in Single => r.item = s.item)
<1>1. /\ r.kind \in Single => "item" \in DOMAIN r
      /\ r.kind \notin Single => "item" \notin DOMAIN r
      /\ s.kind \in Single => "item" \in DOMAIN s
      /\ s.kind \notin Single => "item" \notin DOMAIN s
  BY DEF Requests, Single
<1>2. r.kind \in Single \/ r.kind \in {"ban", "erase"}
  BY DEF Requests, Single
<1>3. QED
  BY <1>1, <1>2 DEF MayMeet

\* A running request of one item changes rows of that item, and no account.
Elsewhere(t) ==
    /\ UNCHANGED <<account, accountW, userLock, req, solo>>
    /\ \A k \in Keys \ {Key(t)} :
          rating'[k] = rating[k] /\ ratingW'[k] = ratingW[k] /\ ratingLock'[k] = ratingLock[k]
    /\ \A i \in Items \ {req[t].item} :
          agg'[i] = agg[i] /\ aggW'[i] = aggW[i] /\ itemLock'[i] = itemLock[i]
    /\ \A s \in Txns \ {t} : pc'[s] = pc[s] /\ mem'[s] = mem[s]

LEMMA EndsElsewhere ==
    ASSUME SoloInv, NEW t \in Txns, Active(t), req[t].kind \in Single,
           Abort(t) \/ Commit(t)
    PROVE  Elsewhere(t)
<1>1. /\ \A u \in Users : userLock[u] # t
      /\ \A k \in Keys \ {Key(t)} : ratingLock[k] # t
      /\ \A i \in Items \ {req[t].item} : itemLock[i] # t
  BY DEF SoloInv, SafetyInv, UserHolders, RatingHolders, ItemHolders, Single
<1>2. /\ account \in [Users -> Accounts] /\ accountW \in [Users -> Accounts]
      /\ userLock \in [Users -> Txns \cup {NoTxn}]
      /\ pc \in [Txns -> Statements \cup {"idle", "done", "failed"}]
      /\ mem \in [Txns -> Memory]
  BY DEF SoloInv, SafetyInv, TypeInv, TypeOK
<1>3. Release(t) /\ UNCHANGED <<req, solo>>
      /\ \A s \in Txns \ {t} : pc'[s] = pc[s]
  BY <1>2 DEF Abort, Commit, Goto
<1>4. /\ \A k \in Keys \ {Key(t)} : ratingLock'[k] = ratingLock[k]
      /\ \A i \in Items \ {req[t].item} : itemLock'[i] = itemLock[i]
      /\ \A s \in Txns \ {t} : mem'[s] = mem[s]
      /\ userLock' = userLock
  BY <1>1, <1>2, <1>3 DEF Release
<1>5. CASE Abort(t)
  <2>1. accountW' = accountW
    BY <1>1, <1>2, <1>5 DEF Abort, AccountsAfter
  <2>2. /\ \A k \in Keys \ {Key(t)} : ratingW'[k] = ratingW[k]
        /\ \A i \in Items \ {req[t].item} : aggW'[i] = aggW[i]
        /\ UNCHANGED <<account, rating, agg>>
    BY <1>1, <1>5 DEF Abort, RatingsAfter, ItemsAfter
  <2>3. QED
    BY <1>3, <1>4, <2>1, <2>2 DEF Elsewhere
<1>6. CASE Commit(t)
  <2>1. account' = account
    BY <1>1, <1>2, <1>6 DEF Commit, AccountsAfter
  <2>2. /\ \A k \in Keys \ {Key(t)} : rating'[k] = rating[k]
        /\ \A i \in Items \ {req[t].item} : agg'[i] = agg[i]
        /\ UNCHANGED <<accountW, ratingW, aggW>>
    BY <1>1, <1>6 DEF Commit, RatingsAfter, ItemsAfter
  <2>3. QED
    BY <1>3, <1>4, <2>1, <2>2 DEF Elsewhere
<1>7. QED
  BY <1>5, <1>6

LEMMA StatementElsewhere ==
    ASSUME SoloInv, NEW t \in Txns, Active(t), req[t].kind \in Single,
           Statement(t) \/ Crash(t)
    PROVE  Elsewhere(t)
<1>1. /\ pc \in [Txns -> Statements \cup {"idle", "done", "failed"}]
      /\ mem \in [Txns -> Memory]
      /\ ratingW \in [Keys -> Rows \cup {NoRating}]
      /\ ratingLock \in [Keys -> Txns \cup {NoTxn}]
      /\ aggW \in [Items -> Aggregates]
      /\ itemLock \in [Items -> Txns \cup {NoTxn}]
  BY DEF SoloInv, SafetyInv, TypeInv, TypeOK
<1>2. CASE Abort(t) \/ Commit(t)
  BY <1>2, EndsElsewhere
<1>3. CASE LoadItem(t) \/ FindOwnRating(t) \/ SelectAggregate(t)
  BY <1>1, <1>3 DEF LoadItem, FindOwnRating, SelectAggregate, Goto, Elsewhere, users, ratings, items
<1>4. CASE UpsertRating(t)
  BY <1>1, <1>2, <1>4 DEF UpsertRating, Goto, Elsewhere, users, items
<1>5. CASE DeleteRating(t)
  BY <1>1, <1>5 DEF DeleteRating, Goto, Elsewhere, users, items
<1>6. CASE WriteHidden(t)
  BY <1>1, <1>2, <1>6 DEF WriteHidden, Goto, Elsewhere, users, ratings, items
<1>7. CASE UpdateItem(t)
  BY <1>1, <1>7 DEF UpdateItem, Goto, Elsewhere, users, ratings
<1>8. CASE WriteEvent(t)
  BY <1>1, <1>8 DEF WriteEvent, Goto, Elsewhere, users, items
<1>9. ~CaptureItems(t) /\ ~WriteBanned(t) /\ ~DeleteUser(t) /\ ~CascadeRatings(t)
      /\ ~ResetItem(t) /\ ~AggregateItems(t)
  BY DEF CaptureItems, WriteBanned, DeleteUser, CascadeRatings, ResetItem, AggregateItems,
         SoloInv, SafetyInv, TypeInv, Requesting, Single
<1>10. QED
  BY <1>2, <1>3, <1>4, <1>5, <1>6, <1>7, <1>8, <1>9 DEF Statement, Crash, DeadlockVictim

\* Rows of other items do not matter to what a request reads about its own.
LEMMA BallotKept ==
    ASSUME NEW s \in Txns, NEW i \in Items,
           UNCHANGED <<account, accountW, userLock>>,
           \A u \in Users : LET k == <<u, i>> IN
              rating'[k] = rating[k] /\ ratingW'[k] = ratingW[k] /\ ratingLock'[k] = ratingLock[k]
    PROVE  BallotSeen(s, i)' = BallotSeen(s, i)
<1>1. AccountsAfter(s, account, accountW)' = AccountsAfter(s, account, accountW)
  BY DEF AccountsAfter
<1>2. \A u \in Users : RatingsAfter(s, rating, ratingW)'[<<u, i>>]
                         = RatingsAfter(s, rating, ratingW)[<<u, i>>]
  BY DEF RatingsAfter, Keys
<1> DEFINE a == AccountsAfter(s, account, accountW)
           r == RatingsAfter(s, rating, ratingW)
<1>3. \A u \in Users : a'[u] = a[u] /\ r'[<<u, i>>] = r[<<u, i>>]
  BY <1>1, <1>2
<1> HIDE DEF a, r
<1>4. Ballot(a', r', i) = Ballot(a, r, i)
  BY <1>3 DEF Ballot
<1>5. BallotSeen(s, i) = Ballot(a, r, i) /\ BallotSeen(s, i)' = Ballot(a', r', i)
  BY DEF BallotSeen, a, r
<1>6. QED
  BY <1>4, <1>5

FreshFor(t) ==
    /\ req[t].kind \in Single => FreshItem(t)
    /\ req[t].kind \in {"ban", "erase"} => FreshBatch(t)

\* Only Begin changes who runs alone, and it clears the flag of all it may meet.
LEMMA BeginSolo ==
    ASSUME SoloInv, NEW t \in Txns, Begin(t)
    PROVE  ItemHolders' /\ Apart' /\ Fresh'
<1>1. PICK r \in Menu : Begin(t)!(r)
  BY DEF Begin
<1>2. /\ pc[t] = "idle" /\ ~Active(t) /\ r \in Requests
      /\ req'[t] = r /\ pc'[t] \in {"load", "write", "capture"}
      /\ pc'[t] = "load" => r.kind \in {"rate", "unrate"}
      /\ pc'[t] = "write" => r.kind = "hide"
      /\ pc'[t] = "capture" => r.kind \in {"ban", "erase"}
      /\ \A s \in Txns \ {t} : pc'[s] = pc[s] /\ req'[s] = req[s] /\ mem'[s] = mem[s]
      /\ UNCHANGED <<account, accountW, userLock, rating, ratingW, ratingLock, agg, aggW, itemLock>>
      /\ solo' = [s \in Txns |->
                    IF s = t THEN \A x \in Txns : Active(x) => ~MayMeet(req[x], r)
                    ELSE solo[s] /\ ~(Active(s) /\ MayMeet(req[s], r))]
  BY <1>1, RequestFields
     DEF Goto, SoloInv, SafetyInv, TypeInv, TypeOK, users, ratings, items, Active, Statements
<1>3. \A s \in Txns \ {t} : Active(s)' <=> Active(s)
  BY <1>2 DEF Active
<1>4. ItemHolders'
  <2>1. \A i \in Items : itemLock[i] # t
    BY <1>2 DEF SoloInv, ItemHolders
  <2>2. QED
    BY <1>2, <2>1 DEF SoloInv, ItemHolders
<1>5. Apart'
  <2> SUFFICES ASSUME NEW a \in Txns, NEW b \in Txns,
                      solo'[a], Active(a)', b # a, Active(b)'
               PROVE  ~MayMeet(req'[b], req'[a])
    BY DEF Apart, MayMeet
  <2>1. CASE a = t
    <3>1. b # t /\ Active(b)
      BY <1>3, <2>1
    <3>2. ~MayMeet(req[b], r)
      BY <1>2, <2>1, <3>1
    <3>3. QED
      BY <1>2, <2>1, <3>1, <3>2
  <2>2. CASE b = t
    <3>1. a # t /\ Active(a)
      BY <1>3, <2>2
    <3>2. ~MayMeet(req[a], r) /\ req[a] \in Requests
      BY <1>2, <3>1, Running DEF SoloInv, SafetyInv
    <3>3. ~MayMeet(r, req[a])
      BY <1>2, <3>2, Meeting
    <3>4. QED
      BY <1>2, <2>2, <3>1, <3>3
  <2>3. CASE a # t /\ b # t
    BY <1>2, <1>3, <2>3 DEF SoloInv, Apart
  <2>4. QED
    BY <2>1, <2>2, <2>3
<1>6. Fresh'
  <2> SUFFICES ASSUME NEW s \in Txns, solo'[s], Active(s)'
               PROVE  FreshFor(s)'
    BY DEF Fresh, FreshFor
  <2>1. CASE s = t
    BY <1>2, <2>1 DEF FreshFor, FreshItem, FreshBatch, Single
  <2>2. CASE s # t
    <3>1. solo[s] /\ Active(s) /\ FreshFor(s)
      BY <1>2, <1>3, <2>2 DEF SoloInv, Fresh, FreshFor
    <3>2. \A i \in Items : BallotSeen(s, i)' = BallotSeen(s, i)
      BY <1>2, BallotKept
    <3>3. req[s].kind \in Single => req[s].item \in Items
      BY <3>1, Running DEF SoloInv, SafetyInv, Single
    <3>4. ItemsAfter(s, agg, aggW)' = ItemsAfter(s, agg, aggW)
      BY <1>2 DEF ItemsAfter
    <3>5. FreshItem(s) /\ req[s].kind \in Single => FreshItem(s)'
      BY <1>2, <2>2, <3>2, <3>3, <3>4 DEF FreshItem
    <3>6. FreshBatch(s) => FreshBatch(s)'
      <4>1. mem[s].captured \subseteq Items
        BY DEF SoloInv, SafetyInv, TypeInv, TypeOK, Memory
      <4>2. QED
        BY <1>2, <2>2, <3>2, <4>1 DEF FreshBatch
    <3>7. QED
      BY <1>2, <2>2, <3>1, <3>5, <3>6 DEF FreshFor
  <2>3. QED
    BY <2>1, <2>2
<1>7. QED
  BY <1>4, <1>5, <1>6

\* While t takes a statement, whoever else runs alone is not disturbed.
LEMMA OthersFresh ==
    ASSUME SoloInv, NEW t \in Txns, Active(t), Statement(t) \/ Crash(t),
           NEW s \in Txns, s # t, solo[s], Active(s)
    PROVE  FreshFor(s)'
<1>1. req[t] \in Requests /\ req[s] \in Requests /\ ~MayMeet(req[t], req[s])
  BY Running DEF SoloInv, SafetyInv, Apart
<1>2. /\ req[t].kind \in Single /\ req[s].kind \in Single /\ req[t].item # req[s].item
      /\ req[s].item \in Items
  BY <1>1, Meeting, Running DEF SoloInv, SafetyInv, Single
<1>3. Elsewhere(t)
  BY <1>2, StatementElsewhere
<1>4. /\ UNCHANGED <<account, accountW, userLock, req>>
      /\ pc'[s] = pc[s] /\ mem'[s] = mem[s]
      /\ agg'[req[s].item] = agg[req[s].item]
      /\ aggW'[req[s].item] = aggW[req[s].item]
      /\ itemLock'[req[s].item] = itemLock[req[s].item]
  BY <1>2, <1>3 DEF Elsewhere
<1>5. BallotSeen(s, req[s].item)' = BallotSeen(s, req[s].item)
  <2>1. \A u \in Users : <<u, req[s].item>> \in Keys /\ <<u, req[s].item>> # Key(t)
    BY <1>2 DEF Key, Keys
  <2>2. AccountsAfter(s, account, accountW)' = AccountsAfter(s, account, accountW)
    BY <1>4 DEF AccountsAfter
  <2>3. \A u \in Users : RatingsAfter(s, rating, ratingW)'[<<u, req[s].item>>]
                           = RatingsAfter(s, rating, ratingW)[<<u, req[s].item>>]
    BY <1>3, <2>1 DEF Elsewhere, RatingsAfter
  <2>4. QED
    BY <1>4, <2>2, <2>3 DEF BallotSeen, Ballot
<1>6. ItemsAfter(s, agg, aggW)'[req[s].item] = ItemsAfter(s, agg, aggW)[req[s].item]
  BY <1>2, <1>4 DEF ItemsAfter
<1>7. FreshItem(s)
  BY <1>2 DEF SoloInv, Fresh
<1>8. FreshItem(s)'
  BY <1>4, <1>5, <1>6, <1>7 DEF FreshItem
<1>9. QED
  BY <1>2, <1>4, <1>8 DEF FreshFor, Single

\* A transaction that has ended is not running.
LEMMA Ended ==
    ASSUME SoloInv, NEW t \in Txns, Abort(t) \/ Commit(t)
    PROVE  ~Active(t)'
<1>1. pc'[t] \in {"failed", "done"}
  BY DEF Abort, Commit, Goto, SoloInv, SafetyInv, TypeInv, TypeOK
<1>2. QED
  BY <1>1 DEF Active, Statements

\* What a statement of a request of one item does to what it knows.
LEMMA OwnItemFresh ==
    ASSUME SoloInv, NEW t \in Txns, Active(t), solo[t], Statement(t) \/ Crash(t), Active(t)',
           req[t].kind \in Single
    PROVE  FreshItem(t)'
<1> DEFINE i == req[t].item
<1>1. FreshItem(t) /\ i \in Items /\ Key(t) \in Keys
  BY Running DEF SoloInv, Fresh, SafetyInv, Single
<1>2. /\ pc \in [Txns -> Statements \cup {"idle", "done", "failed"}]
      /\ mem \in [Txns -> Memory]
      /\ ratingW \in [Keys -> Rows \cup {NoRating}]
      /\ agg \in [Items -> Aggregates] /\ aggW \in [Items -> Aggregates]
      /\ itemLock \in [Items -> Txns \cup {NoTxn}]
  BY DEF SoloInv, SafetyInv, TypeInv, TypeOK
<1>3. /\ req[t].kind = "hide" => pc[t] \notin {"find", "event", "capture"}
      /\ ~CaptureItems(t) /\ ~WriteBanned(t) /\ ~DeleteUser(t) /\ ~CascadeRatings(t)
      /\ ~ResetItem(t) /\ ~AggregateItems(t)
  BY DEF CaptureItems, WriteBanned, DeleteUser, CascadeRatings, ResetItem, AggregateItems,
         SoloInv, SafetyInv, TypeInv, Requesting, Single
<1>4. CASE LoadItem(t)
  <2>1. /\ mem' = [mem EXCEPT ![t].seen = agg[i]]
        /\ UNCHANGED <<users, ratings, items, req>>
        /\ pc[t] = "load"
        /\ pc'[t] = CASE req[t].kind = "rate" -> "write"
                      [] req[t].kind = "unrate" -> "find"
                      [] OTHER -> "update"
    BY <1>2, <1>4 DEF LoadItem, Goto
  <2>2. mem'[t].seen = agg[i] /\ mem'[t].calc = mem[t].calc
    BY <1>2, <2>1 DEF Memory
  <2>3. BallotSeen(t, i)' = BallotSeen(t, i) /\ agg' = agg
    BY <2>1 DEF BallotSeen, AccountsAfter, RatingsAfter, users, ratings, items
  <2>4. /\ pc'[t] \in {"write", "find", "update"}
        /\ pc'[t] = "update" => req[t].kind = "hide"
    BY <2>1 DEF Single
  <2>5. QED
    BY <1>1, <2>1, <2>2, <2>3, <2>4 DEF FreshItem
<1>5. CASE FindOwnRating(t)
  <2>1. /\ pc[t] = "find" /\ pc'[t] \in {"write", "failed"}
        /\ UNCHANGED <<items, req>>
        /\ mem' = mem \/ mem' = [mem EXCEPT ![t].row = rating[Key(t)].id]
    BY <1>2, <1>5 DEF FindOwnRating, Goto
  <2>2. mem'[t].seen = mem[t].seen
    BY <1>2, <2>1 DEF Memory
  <2>3. QED
    BY <1>1, <1>3, <2>1, <2>2 DEF FreshItem, items
<1>6. CASE UpsertRating(t) \/ DeleteRating(t) \/ WriteHidden(t)
  <2>1. ~Abort(t)
    BY Ended
  <2>2. /\ pc[t] = "write" /\ pc'[t] = "select"
        /\ UNCHANGED <<items, req>>
        /\ mem' = mem \/ mem' = [mem EXCEPT ![t].share = TRUE]
    BY <1>2, <1>6, <2>1 DEF UpsertRating, DeleteRating, WriteHidden, Goto
  <2>3. mem'[t].seen = mem[t].seen
    BY <1>2, <2>2 DEF Memory
  <2>4. QED
    BY <1>1, <2>2, <2>3 DEF FreshItem, items
<1>7. CASE SelectAggregate(t)
  <2>1. /\ pc[t] = "select" /\ pc'[t] = IF req[t].kind = "hide" THEN "load" ELSE "update"
        /\ UNCHANGED <<users, ratings, items, req>>
        /\ mem' = [mem EXCEPT ![t].calc = SingleAggregate(BallotSeen(t, i))]
    BY <1>2, <1>7 DEF SelectAggregate, Goto
  <2>2. mem'[t].calc = SingleAggregate(BallotSeen(t, i)) /\ mem'[t].seen = mem[t].seen
    BY <1>2, <2>1 DEF Memory
  <2>3. BallotSeen(t, i)' = BallotSeen(t, i) /\ agg' = agg
    BY <2>1 DEF BallotSeen, AccountsAfter, RatingsAfter, users, ratings, items
  <2>4. QED
    BY <1>1, <2>1, <2>2, <2>3 DEF FreshItem
<1>8. CASE UpdateItem(t)
  <2>1. /\ pc[t] = "update" /\ pc'[t] \in {"event", "commit"}
        /\ UNCHANGED <<users, ratings, agg, req, mem>>
    BY <1>2, <1>8 DEF UpdateItem, Goto
  <2>2. BallotSeen(t, i)' = BallotSeen(t, i)
    BY <2>1 DEF BallotSeen, AccountsAfter, RatingsAfter, users, ratings
  <2>3. mem[t].seen = agg[i] /\ mem[t].calc \in Aggregates /\ agg[i] \in Aggregates
    BY <1>1, <1>2, <2>1 DEF FreshItem, Memory
  <2>4. (IF itemLock'[i] = t THEN aggW'[i] ELSE agg'[i]) = mem[t].calc
    <3>1. CASE mem[t].calc = mem[t].seen
      <4>1. itemLock[i] # t
        BY <1>1, <2>1 DEF SoloInv, ItemHolders
      <4>2. QED
        BY <1>8, <2>1, <2>3, <3>1, <4>1 DEF UpdateItem
    <3>2. CASE mem[t].calc # mem[t].seen
      <4>1. aggW'[i] = [avg |-> IF mem[t].calc.avg # mem[t].seen.avg THEN mem[t].calc.avg
                               ELSE agg[i].avg,
                        count |-> IF mem[t].calc.count # mem[t].seen.count
                                  THEN mem[t].calc.count ELSE agg[i].count]
        BY <1>1, <1>2, <1>8, <3>2 DEF UpdateItem
      <4>2. aggW'[i] = [avg |-> mem[t].calc.avg, count |-> mem[t].calc.count]
        BY <2>3, <4>1
      <4>3. aggW'[i] = mem[t].calc
        BY <2>3, <4>2 DEF Aggregates
      <4>4. itemLock'[i] = t
        BY <1>1, <1>2, <1>8, <3>2 DEF UpdateItem
      <4>5. QED
        BY <4>3, <4>4
    <3>3. QED
      BY <3>1, <3>2
  <2>5. ItemsAfter(t, agg, aggW)'[i] = mem[t].calc
    BY <1>1, <2>4 DEF ItemsAfter
  <2>6. QED
    BY <1>1, <2>1, <2>2, <2>5 DEF FreshItem
<1>9. CASE WriteEvent(t)
  <2>1. /\ pc[t] = "event" /\ pc'[t] = "commit" /\ req[t].kind = "rate"
        /\ UNCHANGED <<users, rating, ratingLock, items, req>>
        /\ ratingW' = [ratingW EXCEPT ![Key(t)].event = HasContent(ratingW[Key(t)])]
        /\ mem' = [mem EXCEPT ![t].share = mem[t].share \/ InsertsEvent(t)]
    BY <1>2, <1>9 DEF WriteEvent, Goto, SoloInv, SafetyInv, TypeInv, Requesting
  <2>2. mem'[t].seen = mem[t].seen /\ mem'[t].calc = mem[t].calc
    BY <1>2, <2>1 DEF Memory
  <2>3. ratingW[Key(t)] \in Rows
    BY <1>1, <1>2, <2>1 DEF SoloInv, SafetyInv, TypeInv, Holding
  <2>4. ratingW'[Key(t)] = [ratingW[Key(t)] EXCEPT !.event = HasContent(ratingW[Key(t)])]
    BY <1>1, <1>2, <2>1
  <2>5. /\ ratingW'[Key(t)] # NoRating /\ ratingW[Key(t)] # NoRating
        /\ ratingW'[Key(t)].score = ratingW[Key(t)].score
        /\ ratingW'[Key(t)].hidden = ratingW[Key(t)].hidden
    <3>1. HasContent(ratingW[Key(t)]) \in BOOLEAN
      BY <2>3 DEF HasContent, Rows
    <3>2. ratingW'[Key(t)] \in Rows
      BY <2>3, <2>4, <3>1 DEF Rows
    <3>3. QED
      BY <2>3, <2>4, <3>2, RatingsAssumption DEF Rows
  <2>6. \A k \in Keys \ {Key(t)} : ratingW'[k] = ratingW[k]
    BY <1>1, <1>2, <2>1
  <2>7. BallotSeen(t, i)' = BallotSeen(t, i)
    <3>1. ASSUME NEW u \in Users
          PROVE  LET old == RatingsAfter(t, rating, ratingW)[<<u, i>>]
                     new == RatingsAfter(t, rating, ratingW)'[<<u, i>>]
                 IN  /\ new # NoRating <=> old # NoRating
                     /\ old # NoRating => new.hidden = old.hidden /\ new.score = old.score
      <4>1. <<u, i>> \in Keys
        BY <1>1 DEF Keys
      <4>2. CASE <<u, i>> = Key(t)
        BY <2>1, <2>5, <4>1, <4>2 DEF RatingsAfter
      <4>3. CASE <<u, i>> # Key(t)
        BY <2>1, <2>6, <4>1, <4>3 DEF RatingsAfter
      <4>4. QED
        BY <4>2, <4>3
    <3>2. AccountsAfter(t, account, accountW)' = AccountsAfter(t, account, accountW)
      BY <2>1 DEF AccountsAfter, users
    <3>3. req' = req
      BY <2>1
    <3>4. QED
      BY <3>1, <3>2, <3>3 DEF BallotSeen, Ballot
  <2>8. ItemsAfter(t, agg, aggW)' = ItemsAfter(t, agg, aggW) /\ agg' = agg
    BY <2>1 DEF ItemsAfter, items
  <2>9. QED
    BY <1>1, <2>1, <2>2, <2>7, <2>8 DEF FreshItem
<1>10. QED
  BY <1>3, <1>4, <1>5, <1>6, <1>7, <1>8, <1>9, Ended DEF Statement, Crash, DeadlockVictim

\* A ballot without a vote leaves the reset standing.
LEMMA NoVotes ==
    ASSUME NEW ballot, Voters(ballot) = {}
    PROVE  BatchAggregate(ballot) = NoRatings
<1>1. ScoreCount(ballot) = 0
  BY FS_EmptySet DEF ScoreCount
<1>2. QED
  BY <1>1 DEF BatchAggregate, MeanHalfUp, NoRatings

\* What a statement of a ban or an erasure does to what it knows.
LEMMA OwnBatchFresh ==
    ASSUME SoloInv, NEW t \in Txns, Active(t), solo[t], Statement(t) \/ Crash(t), Active(t)',
           req[t].kind \in {"ban", "erase"}
    PROVE  FreshBatch(t)'
<1> DEFINE rated == {i \in Items : rating[<<req[t].user, i>>] # NoRating}
<1>1. FreshBatch(t)
  BY DEF SoloInv, Fresh
<1>2. /\ pc \in [Txns -> Statements \cup {"idle", "done", "failed"}]
      /\ mem \in [Txns -> Memory]
      /\ aggW \in [Items -> Aggregates]
      /\ itemLock \in [Items -> Txns \cup {NoTxn}]
      /\ mem[t].captured \subseteq Items
  BY DEF SoloInv, SafetyInv, TypeInv, TypeOK, Memory
<1>3. /\ ~LoadItem(t) /\ ~FindOwnRating(t) /\ ~UpsertRating(t) /\ ~DeleteRating(t)
      /\ ~WriteHidden(t) /\ ~SelectAggregate(t) /\ ~UpdateItem(t) /\ ~WriteEvent(t)
  BY DEF LoadItem, FindOwnRating, UpsertRating, DeleteRating, WriteHidden, SelectAggregate,
         UpdateItem, WriteEvent, SoloInv, SafetyInv, TypeInv, Requesting
<1>4. CASE CaptureItems(t)
  <2>1. /\ pc'[t] = "write" /\ UNCHANGED <<rating, req>>
        /\ mem' = [mem EXCEPT ![t].captured = rated, ![t].todo = rated]
    BY <1>2, <1>4 DEF CaptureItems, Goto, ratings
  <2>2. mem'[t].captured = rated /\ mem'[t].todo = rated
    BY <1>2, <2>1 DEF Memory
  <2>3. QED
    BY <2>1, <2>2 DEF FreshBatch
<1>5. CASE WriteBanned(t) \/ DeleteUser(t) \/ CascadeRatings(t)
  <2>1. ~Abort(t)
    BY Ended
  <2>2. /\ pc[t] \in {"write", "cascade"} /\ UNCHANGED <<rating, req, mem>>
        /\ pc'[t] \in {"cascade", AfterWrite(t)}
    BY <1>2, <1>5, <2>1 DEF WriteBanned, DeleteUser, CascadeRatings, Goto, ratings
  <2>3. pc'[t] \in {"cascade", "reset"} \/ (pc'[t] = "commit" /\ mem[t].captured = {})
    BY <2>2 DEF AfterWrite
  <2>4. QED
    BY <1>1, <2>2, <2>3 DEF FreshBatch
<1>6. CASE ResetItem(t)
  <2>1. PICK i \in mem[t].todo : ResetItem(t)!(i)
    BY <1>6 DEF ResetItem
  <2>2. i \in Items
    BY <2>1, <1>2 DEF Memory
  <2>3. /\ pc[t] = "reset" /\ UNCHANGED <<rating, req>>
        /\ pc'[t] = IF mem[t].todo = {i} THEN "aggregate" ELSE "reset"
        /\ mem' = [mem EXCEPT ![t].todo = mem[t].todo \ {i}]
    BY <1>2, <2>1 DEF Goto, ratings
  <2>4. /\ aggW'[i] = NoRatings /\ itemLock'[i] = t
        /\ \A j \in Items \ {i} : aggW'[j] = aggW[j] /\ itemLock'[j] = itemLock[j]
    BY <1>2, <2>1, <2>2
  <2>5. mem'[t].captured = mem[t].captured /\ mem'[t].todo = mem[t].todo \ {i}
    BY <1>2, <2>3 DEF Memory
  <2>6. \A j \in mem'[t].captured \ mem'[t].todo : itemLock'[j] = t /\ aggW'[j] = NoRatings
    BY <1>1, <1>2, <2>3, <2>4, <2>5 DEF FreshBatch
  <2>7. QED
    BY <1>1, <2>3, <2>5, <2>6 DEF FreshBatch
<1>7. CASE AggregateItems(t)
  <2>1. /\ pc[t] = "aggregate" /\ pc'[t] = "commit"
        /\ UNCHANGED <<users, ratings, itemLock, req, mem>>
    BY <1>2, <1>7 DEF AggregateItems, Goto
  <2>2. \A i \in Items : BallotSeen(t, i)' = BallotSeen(t, i)
    BY <2>1 DEF BallotSeen, AccountsAfter, RatingsAfter, users, ratings
  <2>3. ASSUME NEW i \in mem[t].captured
        PROVE  itemLock[i] = t /\ aggW'[i] = BatchAggregate(BallotSeen(t, i))
    <3>1. i \in Items /\ itemLock[i] = t /\ aggW[i] = NoRatings
      BY <1>1, <1>2, <2>1 DEF FreshBatch
    <3>2. aggW'[i] = IF Voters(BallotSeen(t, i)) # {}
                     THEN BatchAggregate(BallotSeen(t, i)) ELSE aggW[i]
      BY <1>7, <3>1 DEF AggregateItems
    <3>3. QED
      BY <3>1, <3>2, NoVotes
  <2>4. QED
    BY <1>1, <1>2, <2>1, <2>2, <2>3 DEF FreshBatch, ratings
<1>8. QED
  BY <1>3, <1>4, <1>5, <1>6, <1>7, Ended DEF Statement, Crash, DeadlockVictim

\* A statement keeps who runs alone, and takes an items row only to write it.
LEMMA StatementSolo ==
    ASSUME SoloInv, NEW t \in Txns, Active(t), Statement(t) \/ Crash(t)
    PROVE  /\ UNCHANGED <<req, solo>>
           /\ \A s \in Txns \ {t} : pc'[s] = pc[s] /\ mem'[s] = mem[s]
<1>1. /\ pc \in [Txns -> Statements \cup {"idle", "done", "failed"}]
      /\ mem \in [Txns -> Memory]
  BY DEF SoloInv, SafetyInv, TypeInv, TypeOK
<1>2. CASE Abort(t) \/ Commit(t)
  BY <1>1, <1>2 DEF Abort, Commit, Release, Goto
<1>3. CASE LoadItem(t) \/ FindOwnRating(t) \/ CaptureItems(t) \/ SelectAggregate(t)
  BY <1>1, <1>3 DEF LoadItem, FindOwnRating, CaptureItems, SelectAggregate, Goto
<1>4. CASE UpsertRating(t) \/ DeleteRating(t) \/ WriteHidden(t)
  BY <1>1, <1>2, <1>4 DEF UpsertRating, DeleteRating, WriteHidden, Goto
<1>5. CASE WriteBanned(t) \/ DeleteUser(t) \/ CascadeRatings(t)
  BY <1>1, <1>2, <1>5 DEF WriteBanned, DeleteUser, CascadeRatings, Goto
<1>6. CASE UpdateItem(t) \/ WriteEvent(t) \/ ResetItem(t) \/ AggregateItems(t)
  BY <1>1, <1>6 DEF UpdateItem, WriteEvent, ResetItem, AggregateItems, Goto
<1>7. QED
  BY <1>2, <1>3, <1>4, <1>5, <1>6 DEF Statement, Crash, DeadlockVictim

LEMMA StatementItemHolders ==
    ASSUME SoloInv, NEW t \in Txns, Active(t), Statement(t) \/ Crash(t)
    PROVE  ItemHolders'
<1>1. /\ pc \in [Txns -> Statements \cup {"idle", "done", "failed"}]
      /\ itemLock \in [Items -> Txns \cup {NoTxn}]
  BY DEF SoloInv, SafetyInv, TypeInv, TypeOK
<1>2. UNCHANGED req /\ \A s \in Txns \ {t} : pc'[s] = pc[s]
  BY StatementSolo
<1> SUFFICES ASSUME NEW i \in Items, NEW s \in Txns, itemLock'[i] = s
             PROVE  ItemHolders!(i, s)'
  BY DEF ItemHolders
<1>3. CASE Abort(t) \/ Commit(t)
  <2>1. s # t /\ itemLock[i] = s
    BY <1>3, RatingsAssumption DEF Abort, Commit, Release
  <2>2. QED
    BY <1>2, <2>1 DEF SoloInv, ItemHolders
<1>4. CASE UNCHANGED itemLock /\ (itemLock[i] = t => pc'[t] \in {"event", "reset", "aggregate", "commit"})
  BY <1>2, <1>4 DEF SoloInv, ItemHolders
<1>5. CASE ~(Abort(t) \/ Commit(t)) /\ (Statement(t) \/ Crash(t))
  <2>1. CASE LoadItem(t) \/ FindOwnRating(t) \/ CaptureItems(t) \/ SelectAggregate(t)
    BY <1>4, <2>1 DEF LoadItem, FindOwnRating, CaptureItems, SelectAggregate, items,
                      SoloInv, ItemHolders
  <2>2. CASE UpsertRating(t) \/ DeleteRating(t) \/ WriteHidden(t)
    BY <1>4, <1>5, <2>2 DEF UpsertRating, DeleteRating, WriteHidden, items, SoloInv, ItemHolders
  <2>3. CASE WriteBanned(t) \/ DeleteUser(t) \/ CascadeRatings(t)
    BY <1>4, <1>5, <2>3 DEF WriteBanned, DeleteUser, CascadeRatings, items, SoloInv, ItemHolders
  <2>4. CASE UpdateItem(t)
    <3>1. pc'[t] \in {"event", "commit"}
      BY <1>1, <2>4 DEF UpdateItem, Goto
    <3>2. itemLock' = itemLock \/ itemLock' = [itemLock EXCEPT ![req[t].item] = t]
      BY <2>4 DEF UpdateItem
    <3>3. QED
      BY <1>1, <1>2, <3>1, <3>2 DEF SoloInv, ItemHolders
  <2>5. CASE WriteEvent(t)
    BY <1>1, <1>4, <2>5 DEF WriteEvent, Goto, items
  <2>6. CASE ResetItem(t)
    <3>1. PICK j \in mem[t].todo : ResetItem(t)!(j)
      BY <2>6 DEF ResetItem
    <3>2. /\ pc'[t] \in {"aggregate", "reset"}
          /\ itemLock' = [itemLock EXCEPT ![j] = t]
          /\ req[t].kind \notin Single
      BY <1>1, <3>1 DEF Goto, SoloInv, SafetyInv, TypeInv, Requesting, Single
    <3>3. QED
      BY <1>1, <1>2, <3>2 DEF SoloInv, ItemHolders
  <2>7. CASE AggregateItems(t)
    BY <1>1, <1>4, <2>7 DEF AggregateItems, Goto
  <2>8. QED
    BY <1>5, <2>1, <2>2, <2>3, <2>4, <2>5, <2>6, <2>7 DEF Statement, Crash, DeadlockVictim
<1>6. QED
  BY <1>3, <1>5

LEMMA NextSolo == SoloInv /\ [Next]_vars => SoloInv'
<1> SUFFICES ASSUME SoloInv, [Next]_vars PROVE SoloInv'
  OBVIOUS
<1>1. SafetyInv'
  BY NextSafety DEF SoloInv
<1>2. ASSUME NEW t \in Txns, Statement(t) \/ Crash(t)
      PROVE  ItemHolders' /\ Apart' /\ Fresh'
  <2>1. Active(t)
    BY <1>2 DEF Statement, Crash, DeadlockVictim, LoadItem, FindOwnRating, CaptureItems,
         UpsertRating, DeleteRating, WriteHidden, WriteBanned, DeleteUser, CascadeRatings,
         SelectAggregate, UpdateItem, WriteEvent, ResetItem, AggregateItems, Commit,
         Active, Statements
  <2>2. /\ UNCHANGED <<req, solo>>
        /\ \A s \in Txns \ {t} : pc'[s] = pc[s] /\ mem'[s] = mem[s]
    BY <1>2, <2>1, StatementSolo
  <2>3. \A s \in Txns : Active(s)' => Active(s)
    BY <2>1, <2>2 DEF Active
  <2>4. Apart'
    BY <2>2, <2>3 DEF SoloInv, Apart, MayMeet
  <2>5. Fresh'
    <3> SUFFICES ASSUME NEW s \in Txns, solo[s], Active(s)'
                 PROVE  FreshFor(s)'
      BY <2>2 DEF Fresh, FreshFor
    <3>1. CASE s = t
      BY <1>2, <2>1, <2>2, <3>1, OwnItemFresh, OwnBatchFresh DEF FreshFor
    <3>2. CASE s # t
      BY <1>2, <2>1, <2>3, <3>2, OthersFresh
    <3>3. QED
      BY <3>1, <3>2
  <2>6. QED
    BY <1>2, <2>1, <2>4, <2>5, StatementItemHolders
<1>3. CASE UNCHANGED vars
  <2>1. UNCHANGED <<account, accountW, userLock, rating, ratingW, ratingLock, agg, aggW,
                    itemLock, pc, req, mem, solo>>
    BY <1>3 DEF vars, users, ratings, items
  <2>2. ItemHolders' /\ Apart'
    BY <2>1 DEF SoloInv, ItemHolders, Apart, Active, MayMeet
  <2>3. Fresh'
    BY <2>1 DEF SoloInv, Fresh, FreshItem, FreshBatch, Active, BallotSeen, AccountsAfter,
                RatingsAfter, ItemsAfter
  <2>4. QED
    BY <1>1, <2>2, <2>3 DEF SoloInv
<1>4. QED
  BY <1>1, <1>2, <1>3, BeginSolo DEF Next, SoloInv

\* What COMMIT publishes is what the request, running alone, has computed.
LEMMA SoloCommit ==
    ASSUME SoloInv, NEW t \in Txns, Commit(t), solo[t], NEW i \in Touched(t)
    PROVE  agg'[i] = Recomputed(t, Ballot(account', rating', i))
<1>1. /\ Active(t) /\ pc[t] = "commit" /\ req[t] \in Requests
      /\ req[t].kind \in Single \/ req[t].kind \in {"ban", "erase"}
      /\ req[t].kind \in Single => req[t].item \in Items
  <2>1. Active(t) /\ pc[t] = "commit"
    BY DEF Commit, Active, Statements
  <2>2. QED
    BY <2>1, Running DEF SoloInv, SafetyInv, Single
<1>2. Ballot(account', rating', i) = BallotSeen(t, i)
  BY DEF Commit, BallotSeen
<1>3. CASE req[t].kind \in Single
  <2>1. i = req[t].item /\ i \in Items /\ req[t].kind \notin {"ban", "erase"}
    BY <1>1, <1>3 DEF Touched, Single
  <2>2. FreshItem(t)
    BY <1>1, <1>3 DEF SoloInv, Fresh
  <2>3. agg'[i] = SingleAggregate(BallotSeen(t, i))
    BY <1>1, <2>1, <2>2 DEF FreshItem, Commit
  <2>4. QED
    BY <1>2, <2>1, <2>3 DEF Recomputed
<1>4. CASE req[t].kind \in {"ban", "erase"}
  <2>1. FreshBatch(t)
    BY <1>1, <1>4 DEF SoloInv, Fresh
  <2>2. i \in mem[t].captured /\ i \in Items
    BY <1>1, <1>4, <2>1 DEF FreshBatch, Touched
  <2>3. agg'[i] = BatchAggregate(BallotSeen(t, i))
    BY <1>1, <2>1, <2>2 DEF FreshBatch, Commit, ItemsAfter
  <2>4. QED
    BY <1>2, <1>4, <2>3 DEF Recomputed
<1>5. QED
  BY <1>1, <1>3, <1>4

LEMMA SoloStep ==
    ASSUME SoloInv, [Next]_vars, NEW t \in Txns, pc[t] = "commit", pc'[t] = "done"
    PROVE  Commit(t)
<1>1. Active(t) /\ pc \in [Txns -> Statements \cup {"idle", "done", "failed"}]
  BY DEF Active, Statements, SoloInv, SafetyInv, TypeInv, TypeOK
<1>2. PICK s \in Txns : Begin(s) \/ Statement(s) \/ Crash(s)
  <2>1. ~UNCHANGED vars
    BY DEF vars
  <2>2. QED
    BY <2>1 DEF Next
<1>3. s = t
  <2>1. CASE Begin(s)
    BY <1>1, <2>1 DEF Begin, Goto
  <2>2. CASE Statement(s) \/ Crash(s)
    <3>1. Active(s)
      BY <2>2 DEF Statement, Crash, DeadlockVictim, LoadItem, FindOwnRating, CaptureItems,
           UpsertRating, DeleteRating, WriteHidden, WriteBanned, DeleteUser, CascadeRatings,
           SelectAggregate, UpdateItem, WriteEvent, ResetItem, AggregateItems, Commit,
           Active, Statements
    <3>2. QED
      BY <2>2, <3>1, StatementSolo
  <2>3. QED
    BY <1>2, <2>1, <2>2
<1>4. ~Abort(t) /\ ~Begin(t)
  BY <1>1 DEF Abort, Begin, Goto
<1>5. QED
  BY <1>2, <1>3, <1>4
     DEF Statement, Crash, DeadlockVictim, LoadItem, FindOwnRating, CaptureItems,
         UpsertRating, DeleteRating, WriteHidden, WriteBanned, DeleteUser, CascadeRatings,
         SelectAggregate, UpdateItem, WriteEvent, ResetItem, AggregateItems

(***************************************************************************)
(* Whatever the number of users, items and scores: a request that nothing  *)
(* overlapped leaves the aggregates of all its items equal to what its     *)
(* recompute makes of the reviews that are committed with it, even if they *)
(* had drifted before.                                                     *)
(***************************************************************************)
THEOREM LoneRequestsHeal == Spec => SoloRequestsLeaveExact
<1>1. SoloInv /\ [Next]_vars =>
         [\A t \in Txns :
             pc[t] = "commit" /\ pc'[t] = "done" /\ solo[t] =>
                 \A i \in Touched(t) :
                     agg'[i] = Recomputed(t, Ballot(account', rating', i))]_vars
  BY SoloStep, SoloCommit
<1>2. QED
  BY <1>1, SoloInit, NextSolo, PTL DEF Spec, SoloRequestsLeaveExact
=============================================================================
