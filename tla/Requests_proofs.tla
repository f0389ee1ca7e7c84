--------------------------- MODULE Requests_proofs ---------------------------
(***************************************************************************)
(* What is proved of the parts of the API holds of every behaviour of      *)
(* Requests, for any value of its constants.                               *)
(***************************************************************************)
EXTENDS Requests, FiniteSetTheorems, SequenceTheorems, TLAPS

AccountsProofs == INSTANCE Accounts_proofs WITH
    Requests <- AccountRequests, MaxRequests <- MaxAccountRequests, LastTick <- LastLogin

-----------------------------------------------------------------------------
(* Accounts. *)

LEMMA AccountsAreTheSame ==
    /\ Accounts!Init => AccountsProofs!Init
    /\ Accounts!Next => AccountsProofs!Next
    /\ UNCHANGED vars => UNCHANGED AccountsProofs!vars
    /\ AccountsProofs!SessionsAreSound => Accounts!SessionsAreSound
    /\ AccountsProofs!TypeOK /\ AccountsProofs!AuditSaysRole => Accounts!TypeOK /\ Accounts!AuditSaysRole
    /\ AccountsProofs!ObjectsAreOwned /\ AccountsProofs!AvatarsResolve
          => Accounts!ObjectsAreOwned /\ Accounts!AvatarsResolve
<1> USE DEF Accounts!tables, AccountsProofs!tables, Accounts!storage,
            AccountsProofs!storage, Accounts!history, AccountsProofs!history, Accounts!vars,
            AccountsProofs!vars, Accounts!NoAvatar, AccountsProofs!NoAvatar,
            Accounts!Foreign, AccountsProofs!Foreign, Accounts!Account,
            AccountsProofs!Account, Accounts!Session, AccountsProofs!Session, Accounts!Link,
            AccountsProofs!Link, Accounts!Idle, AccountsProofs!Idle, Accounts!Init,
            AccountsProofs!Init, Accounts!Open, AccountsProofs!Open, Accounts!Admitted,
            AccountsProofs!Admitted, Accounts!Named, AccountsProofs!Named,
            Accounts!SessionsOf, AccountsProofs!SessionsOf, Accounts!LinksOf,
            AccountsProofs!LinksOf, Accounts!Active, AccountsProofs!Active, Accounts!Goto,
            AccountsProofs!Goto, Accounts!Arrive, AccountsProofs!Arrive, Accounts!CommitOn,
            AccountsProofs!CommitOn, Accounts!Revoked, AccountsProofs!Revoked,
            Accounts!Register, AccountsProofs!Register, Accounts!InsertUserUnchecked,
            AccountsProofs!InsertUserUnchecked, Accounts!InsertUser,
            AccountsProofs!InsertUser, Accounts!Login, AccountsProofs!Login,
            Accounts!IssueSession, AccountsProofs!IssueSession, Accounts!ReadSession,
            AccountsProofs!ReadSession, Accounts!ReadOwnerBanned,
            AccountsProofs!ReadOwnerBanned, Accounts!ReadOwner, AccountsProofs!ReadOwner,
            Accounts!RotateKeeping, AccountsProofs!RotateKeeping, Accounts!Rotate,
            AccountsProofs!Rotate, Accounts!RevokeAll, AccountsProofs!RevokeAll,
            Accounts!ReadOwnSession, AccountsProofs!ReadOwnSession, Accounts!Logout,
            AccountsProofs!Logout, Accounts!AskLink, AccountsProofs!AskLink,
            Accounts!InsertLink, AccountsProofs!InsertLink, Accounts!SendMail,
            AccountsProofs!SendMail, Accounts!Valid, AccountsProofs!Valid,
            Accounts!ReadLink, AccountsProofs!ReadLink, Accounts!Consumed,
            AccountsProofs!Consumed, Accounts!ConfirmEmail, AccountsProofs!ConfirmEmail,
            Accounts!ResetPasswordAgain, AccountsProofs!ResetPasswordAgain,
            Accounts!ResetPasswordKeeping, AccountsProofs!ResetPasswordKeeping,
            Accounts!ResetPassword, AccountsProofs!ResetPassword, Accounts!Authenticate,
            AccountsProofs!Authenticate, Accounts!PutObject, AccountsProofs!PutObject,
            Accounts!Replaced, AccountsProofs!Replaced, Accounts!SaveAvatar,
            AccountsProofs!SaveAvatar, Accounts!Delete, AccountsProofs!Delete,
            Accounts!DropOldNew, AccountsProofs!DropOldNew, Accounts!DropOldNever,
            AccountsProofs!DropOldNever, Accounts!DropOld, AccountsProofs!DropOld,
            Accounts!DropFirst, AccountsProofs!DropFirst, Accounts!ClearAvatar,
            AccountsProofs!ClearAvatar, Accounts!Published, AccountsProofs!Published,
            Accounts!SaveProfile, AccountsProofs!SaveProfile,
            Accounts!Erase, AccountsProofs!Erase, Accounts!ReadTarget,
            AccountsProofs!ReadTarget, Accounts!SetRoleUnaudited,
            AccountsProofs!SetRoleUnaudited, Accounts!SetRole, AccountsProofs!SetRole,
            Accounts!SetBanned, AccountsProofs!SetBanned, Accounts!Crash,
            AccountsProofs!Crash, Accounts!Tick, AccountsProofs!Tick, Accounts!Step,
            AccountsProofs!Step, Accounts!Next, AccountsProofs!Next, Accounts!Spec,
            AccountsProofs!Spec, Accounts!TypeOK, AccountsProofs!TypeOK,
            Accounts!SessionsFollowPassword, AccountsProofs!SessionsFollowPassword,
            Accounts!Successors, AccountsProofs!Successors, Accounts!RotationIsLinear,
            AccountsProofs!RotationIsLinear, Accounts!BannedGetNoSession,
            AccountsProofs!BannedGetNoSession, Accounts!LinksAreSingleUse,
            AccountsProofs!LinksAreSingleUse, Accounts!SessionsAreSound,
            AccountsProofs!SessionsAreSound, Accounts!AuditSaysRole,
            AccountsProofs!AuditSaysRole, Accounts!Picture, AccountsProofs!Picture,
            Accounts!InHand, AccountsProofs!InHand, Accounts!ObjectsAreOwned,
            AccountsProofs!ObjectsAreOwned, Accounts!AvatarsResolve,
            AccountsProofs!AvatarsResolve, Accounts!Cardinality, AccountsProofs!Cardinality
<1>1. Accounts!Init => AccountsProofs!Init
  OBVIOUS
<1>2. Accounts!Next => AccountsProofs!Next
  OBVIOUS
<1>3. UNCHANGED vars => UNCHANGED AccountsProofs!vars
  BY DEF vars, now, accounts, sessions, links, bucket, objects, request, begun, orphans, broken
<1>4. AccountsProofs!SessionsAreSound => Accounts!SessionsAreSound
  OBVIOUS
<1>5. AccountsProofs!TypeOK /\ AccountsProofs!AuditSaysRole => Accounts!TypeOK /\ Accounts!AuditSaysRole
  OBVIOUS
<1>6. AccountsProofs!ObjectsAreOwned /\ AccountsProofs!AvatarsResolve
         => Accounts!ObjectsAreOwned /\ Accounts!AvatarsResolve
  OBVIOUS
<1>7. QED
  BY <1>1, <1>2, <1>3, <1>4, <1>5, <1>6

(***************************************************************************)
(* Whatever requests overlap: a live session follows the password, the ban *)
(* and the e-mail its account has now, a refresh token is rotated into one *)
(* session, and a mailed link is used once, save where a request committed *)
(* what another had read (auth and users services).  A behaviour of this   *)
(* part is one of Accounts, of which Accounts_proofs proves it.            *)
(***************************************************************************)
THEOREM SoundSessions == Spec => []SessionsAreSound
<1> DEFINE Here == part = "accounts"
           Starts == AccountsProofs!Init
           Steps == [AccountsProofs!Next]_AccountsProofs!vars
           Good == AccountsProofs!SessionsAreSound
<1>1. Starts /\ [][Steps]_AccountsProofs!vars => []Good
  BY AccountsProofs!SessionsStaySound, RequestsAssumption, PTL DEF AccountsProofs!Spec
<1>2. Init /\ Here => Starts
  BY AccountsAreTheSame DEF Init
<1>3. [Next]_vars /\ Here => Steps /\ Here'
  BY AccountsAreTheSame DEF Next, vars
<1>4. [Next]_vars /\ ~Here => ~Here'
  BY DEF Next, vars
<1>5. (Here => Good) => SessionsAreSound
  BY AccountsAreTheSame DEF SessionsAreSound
<1> HIDE DEF Here, Starts, Steps, Good
<1>6. QED
  BY <1>1, <1>2, <1>3, <1>4, <1>5, PTL DEF Spec

(***************************************************************************)
(* Whatever requests overlap and wherever a process dies: the last audit   *)
(* row of an account says its role unless two superadmins changed it at a  *)
(* time (admin service), the bucket holds nothing that is not an avatar,   *)
(* in the hands of a request or recorded as lost, and an avatar of ours is *)
(* served unless the request that deletes it is under way, died or was     *)
(* raced (users service).                                                  *)
(***************************************************************************)
THEOREM ConsistentAccounts == Spec => []AccountsAreConsistent
<1> DEFINE Here == part = "accounts"
           Starts == AccountsProofs!Init
           Steps == [AccountsProofs!Next]_AccountsProofs!vars
           Good == /\ AccountsProofs!TypeOK /\ AccountsProofs!AuditSaysRole
                   /\ AccountsProofs!ObjectsAreOwned /\ AccountsProofs!AvatarsResolve
<1>0. AccountsProofs!Bounds
  BY BoundsAssumption DEF AccountsProofs!Bounds
<1>1. Starts /\ [][Steps]_AccountsProofs!vars => []Good
  BY <1>0, AccountsProofs!AccountsStayConsistent, RequestsAssumption, PTL DEF
     AccountsProofs!Spec
<1>2. Init /\ Here => Starts
  BY AccountsAreTheSame DEF Init
<1>3. [Next]_vars /\ Here => Steps /\ Here'
  BY AccountsAreTheSame DEF Next, vars
<1>4. [Next]_vars /\ ~Here => ~Here'
  BY DEF Next, vars
<1>5. (Here => Good) => AccountsAreConsistent
  BY AccountsAreTheSame DEF AccountsAreConsistent
<1> HIDE DEF Here, Starts, Steps, Good
<1>6. QED
  BY <1>1, <1>2, <1>3, <1>4, <1>5, PTL DEF Spec

-----------------------------------------------------------------------------
(* Writers of the catalog: for any number of them and of administrators,   *)
(* overlapping statement by statement, the locks hold (Locking), and no    *)
(* identity of an item is lost without a record (Keyed).                   *)

Row(x) == [slug |-> x.slug, link |-> x.link, title |-> x.title, locks |-> x.locks]

\* A table is a function to rows.
Table(t) == t = [r \in DOMAIN t |-> t[r]] /\ \A r \in DOMAIN t : t[r] = Row(t[r])

Transaction(t) ==
    [step |-> t.step, id |-> t.id, slug |-> t.slug, title |-> t.title, current |-> t.current,
     row |-> t.row, locks |-> t.locks]
Edit(e) ==
    [step |-> "write", row |-> e.row, field |-> e.field, unlock |-> e.unlock, locks |-> e.locks]

Shaped ==
    /\ Table(db)
    /\ pending = [w \in Syncs |-> pending[w]] /\ \A w \in Syncs : Table(pending[w])
    /\ writer = [w \in Syncs |-> writer[w]]
    /\ \A w \in Syncs : writer[w] = Upserts!Idle \/ writer[w] = Transaction(writer[w])
    /\ edit = [a \in Admins |-> edit[a]]
    /\ \A a \in Admins : edit[a] = Upserts!Idle \/ (edit[a] = Edit(edit[a]) /\ edit[a].row \in DOMAIN db)
    /\ \A g \in granted : g = <<g[1], g[2]>> /\ g[1] \in DOMAIN db

\* A transaction has found the row that it goes on to write.
RowFound ==
    \A w \in Syncs : writer[w].step \in {"keep", "owner", "rename", "candidates", "link"} =>
                          writer[w].row \in DOMAIN Upserts!Sees(w)

\* A row is held by one transaction at a time, which changes no lock and no locked title.
Exclusive ==
    \A w, o \in Syncs : w # o => DOMAIN pending[w] \cap DOMAIN pending[o] = {}
Respected ==
    \A w \in Syncs : \A r \in DOMAIN pending[w] : r \in DOMAIN db =>
        /\ pending[w][r].locks = db[r].locks
        /\ "title" \in db[r].locks => pending[w][r].title = db[r].title

Locking == Shaped /\ RowFound /\ Exclusive /\ Respected /\ Upserts!LocksLast

LEMMA SeenRows ==
    ASSUME NEW w
    PROVE  /\ DOMAIN Upserts!Sees(w) = DOMAIN pending[w] \cup DOMAIN db
           /\ \A r \in DOMAIN Upserts!Sees(w) :
                 Upserts!Sees(w)[r] = IF r \in DOMAIN pending[w] THEN pending[w][r] ELSE db[r]
           /\ Shaped /\ w \in Syncs => Table(Upserts!Sees(w))
BY DEF Upserts!Sees, Shaped, Table

LEMMA LockingInit == Upserts!Init => Locking
<1> SUFFICES ASSUME Upserts!Init PROVE Locking
    OBVIOUS
<1>1. PICK n \in {{}, {1}} : \E ids \in [n -> {Upserts!NoId} \cup Ids], slug \in Slugs :
          db = [r \in DOMAIN ids |-> [slug |-> slug, link |-> ids[r], title |-> "old", locks |-> {}]]
    BY DEF Upserts!Init
<1>2. Table(db)
    BY <1>1 DEF Table, Row
<1>3. /\ pending = [w \in Syncs |-> [r \in {} |-> {}]]
      /\ writer = [w \in Syncs |-> Upserts!Idle] /\ edit = [a \in Admins |-> Upserts!Idle] /\ granted = {}
    BY DEF Upserts!Init
<1>4. \A w \in Syncs : DOMAIN pending[w] = {} /\ Table(pending[w])
    BY <1>3 DEF Table
<1>5. Shaped
    BY <1>2, <1>3, <1>4 DEF Shaped
<1> QED BY <1>3, <1>4, <1>5 DEF Locking, RowFound, Exclusive, Respected, Upserts!LocksLast, Upserts!Idle

-----------------------------------------------------------------------------
(* What a statement of a writer leaves as it was, and what it may write.    *)

\* Statements that only read, or only move on.
LEMMA OfReading ==
    ASSUME Locking, NEW w \in Syncs, NEW t,
           writer' = [writer EXCEPT ![w] = t],
           t = Upserts!Idle \/ t = Transaction(t),
           t.step \in {"keep", "owner", "rename", "candidates", "link"} => t.row \in DOMAIN Upserts!Sees(w),
           UNCHANGED <<db, pending, edit, granted, overlapped>>
    PROVE  Locking'
<1>1. \A o \in Syncs : writer'[o] = IF o = w THEN t ELSE writer[o]
    BY DEF Locking, Shaped
<1>2. Shaped'
    BY <1>1 DEF Locking, Shaped, Table
<1>3. \A o : Upserts!Sees(o)' = Upserts!Sees(o)
    BY DEF Upserts!Sees
<1>4. RowFound'
    BY <1>1, <1>3 DEF Locking, RowFound
<1>5. Exclusive' /\ Respected' /\ Upserts!LocksLast'
    BY DEF Locking, Exclusive, Respected, Upserts!LocksLast
<1> QED BY <1>2, <1>4, <1>5 DEF Locking

\* A statement that writes a row which nobody else holds, and leaves its locks alone.
LEMMA OfWriting ==
    ASSUME Locking, NEW w \in Syncs, NEW t, NEW r, NEW row,
           Upserts!Put(w, r, row), writer' = [writer EXCEPT ![w] = t],
           t = Transaction(t), t.row = r,
           row = Row(row),
           \A o \in Syncs \ {w} : r \notin DOMAIN pending[o],
           r \in DOMAIN Upserts!Sees(w) => /\ row.locks = Upserts!Sees(w)[r].locks
                                           /\ "title" \in row.locks => row.title = Upserts!Sees(w)[r].title,
           UNCHANGED <<db, edit, granted, overlapped>>
    PROVE  Locking'
<1>1. \A o \in Syncs : writer'[o] = IF o = w THEN t ELSE writer[o]
    BY DEF Locking, Shaped
<1>2. pending' = [pending EXCEPT ![w] = [q \in DOMAIN pending[w] \cup {r} |->
                                             IF q = r THEN row ELSE pending[w][q]]]
    BY DEF Upserts!Put
<1>3. \A o \in Syncs : pending'[o] = IF o = w
          THEN [q \in DOMAIN pending[w] \cup {r} |-> IF q = r THEN row ELSE pending[w][q]]
          ELSE pending[o]
    BY <1>2 DEF Locking, Shaped
<1>4. Shaped'
  <2>1. ASSUME NEW o \in Syncs PROVE Table(pending'[o])
    <3>1. CASE o = w
      <4> DEFINE new == [q \in DOMAIN pending[w] \cup {r} |-> IF q = r THEN row ELSE pending[w][q]]
      <4>1. \A q \in DOMAIN pending[w] : pending[w][q] = Row(pending[w][q])
          BY DEF Locking, Shaped, Table
      <4>2. \A q \in DOMAIN new : new[q] = Row(new[q])
          BY <4>1
      <4>3. new = [q \in DOMAIN new |-> new[q]]
          OBVIOUS
      <4>4. pending'[o] = new
          BY <1>3, <3>1
      <4> HIDE DEF new
      <4> QED BY <4>2, <4>3, <4>4 DEF Table
    <3>2. CASE o # w
        BY <1>3, <3>2 DEF Locking, Shaped
    <3> QED BY <3>1, <3>2
  <2>2. pending' = [o \in Syncs |-> pending'[o]]
      BY <1>2 DEF Locking, Shaped
  <2>3. writer' = [o \in Syncs |-> writer'[o]]
      BY DEF Locking, Shaped
  <2>4. \A o \in Syncs : writer'[o] = Upserts!Idle \/ writer'[o] = Transaction(writer'[o])
      BY <1>1 DEF Locking, Shaped
  <2> QED BY <2>1, <2>2, <2>3, <2>4 DEF Locking, Shaped, Table
<1>5. \A o \in Syncs : DOMAIN pending'[o] = IF o = w THEN DOMAIN pending[w] \cup {r}
                                              ELSE DOMAIN pending[o]
    BY <1>3
<1>6. \A o \in Syncs : /\ DOMAIN Upserts!Sees(o)' = DOMAIN pending'[o] \cup DOMAIN db
                       /\ DOMAIN Upserts!Sees(o) = DOMAIN pending[o] \cup DOMAIN db
    BY DEF Upserts!Sees
<1>7. RowFound'
  <2>1. \A o \in Syncs : \A q \in DOMAIN Upserts!Sees(o) : q \in DOMAIN Upserts!Sees(o)'
      BY <1>5, <1>6
  <2>2. r \in DOMAIN Upserts!Sees(w)'
      BY <1>5, <1>6
  <2>3. ASSUME NEW o \in Syncs,
               writer'[o].step \in {"keep", "owner", "rename", "candidates", "link"}
        PROVE  writer'[o].row \in DOMAIN Upserts!Sees(o)'
      BY <1>1, <2>1, <2>2, <2>3 DEF Locking, RowFound
  <2> QED BY <2>3 DEF RowFound
<1>9. Exclusive'
    BY <1>5 DEF Locking, Exclusive
<1>10. Respected'
  <2>1. ASSUME NEW o \in Syncs, NEW q \in DOMAIN pending'[o], q \in DOMAIN db
        PROVE  /\ pending'[o][q].locks = db[q].locks
               /\ "title" \in db[q].locks => pending'[o][q].title = db[q].title
    <3>1. CASE o = w /\ q = r
      <4>1. pending'[o][q] = row
          BY <1>3, <3>1
      <4>2. Upserts!Sees(w)[r] = IF r \in DOMAIN pending[w] THEN pending[w][r] ELSE db[r]
        <5>1. r \in DOMAIN db
            BY <2>1, <3>1
        <5> QED BY <5>1 DEF Upserts!Sees
      <4>3. Upserts!Sees(w)[r].locks = db[r].locks
            /\ ("title" \in db[r].locks => Upserts!Sees(w)[r].title = db[r].title)
          BY <2>1, <3>1, <4>2 DEF Locking, Respected
      <4>4. r \in DOMAIN Upserts!Sees(w)
          BY <2>1, <3>1, SeenRows
      <4> QED BY <3>1, <4>1, <4>3, <4>4
    <3>2. CASE ~(o = w /\ q = r)
      <4>1. q \in DOMAIN pending[o]
          BY <1>5, <2>1, <3>2
      <4>2. pending'[o][q] = pending[o][q]
        <5>1. CASE o = w
            BY <1>3, <3>2, <4>1, <5>1
        <5>2. CASE o # w
            BY <1>3, <5>2
        <5> QED BY <5>1, <5>2
      <4> QED BY <2>1, <4>1, <4>2 DEF Locking, Respected
    <3> QED BY <3>1, <3>2
  <2> QED BY <2>1 DEF Respected
<1>11. Upserts!LocksLast'
    BY DEF Locking, Upserts!LocksLast
<1> QED BY <1>4, <1>7, <1>9, <1>10, <1>11 DEF Locking

\* What a transaction had written is gone.
LEMMA OfRollback ==
    ASSUME Locking, NEW w \in Syncs,
           writer' = [writer EXCEPT ![w] = Upserts!Idle],
           pending' = [pending EXCEPT ![w] = [r \in {} |-> {}]],
           UNCHANGED <<db, edit, granted, overlapped>>
    PROVE  Locking'
<1>1. \A o \in Syncs : writer'[o] = IF o = w THEN Upserts!Idle ELSE writer[o]
    BY DEF Locking, Shaped
<1>2. \A o \in Syncs : pending'[o] = IF o = w THEN [r \in {} |-> {}] ELSE pending[o]
    BY DEF Locking, Shaped
<1>3. Shaped'
  <2>1. Table([r \in {} |-> {}])
      BY DEF Table
  <2>2. \A o \in Syncs : Table(pending'[o])
      BY <1>2, <2>1 DEF Locking, Shaped
  <2>3. \A o \in Syncs : writer'[o] = Upserts!Idle \/ writer'[o] = Transaction(writer'[o])
      BY <1>1 DEF Locking, Shaped
  <2>4. /\ pending' = [o \in Syncs |-> pending'[o]]
        /\ writer' = [o \in Syncs |-> writer'[o]]
      BY DEF Locking, Shaped
  <2> QED BY <2>2, <2>3, <2>4 DEF Locking, Shaped
<1>4. \A o \in Syncs : o # w => Upserts!Sees(o)' = Upserts!Sees(o)
    BY <1>2 DEF Upserts!Sees
<1>5. RowFound'
    BY <1>1, <1>4 DEF Locking, RowFound, Upserts!Idle
<1>6. Exclusive' /\ Respected' /\ Upserts!LocksLast'
    BY <1>2 DEF Locking, Exclusive, Respected, Upserts!LocksLast
<1> QED BY <1>3, <1>5, <1>6 DEF Locking

-----------------------------------------------------------------------------
(* The statements.                                                          *)

LEMMA Underway ==
    ASSUME Locking, NEW w \in Syncs, NEW s, s # "idle", writer[w].step = s
    PROVE  writer[w] = Transaction(writer[w])
BY DEF Locking, Shaped, Upserts!Idle

LEMMA OfBegin == ASSUME Locking, NEW w \in Syncs, Upserts!Begin(w) PROVE Locking'
<1>1. PICK id \in Ids, slug \in Slugs, title \in Titles :
          Upserts!Step(w, [step |-> "align", id |-> id, slug |-> slug, title |-> title, current |-> slug,
                   row |-> 0, locks |-> {}])
    BY DEF Upserts!Begin
<1> DEFINE t == [step |-> "align", id |-> id, slug |-> slug, title |-> title, current |-> slug,
                 row |-> 0, locks |-> {}]
<1>2. writer' = [writer EXCEPT ![w] = t] /\ UNCHANGED <<db, pending, edit, granted, overlapped>>
    BY <1>1 DEF Upserts!Begin, Upserts!Step
<1>3. t = Transaction(t) /\ t.step \notin {"keep", "owner", "rename", "candidates", "link"}
    BY DEF Transaction
<1> HIDE DEF t
<1> QED BY <1>2, <1>3, OfReading

LEMMA OfAlign == ASSUME Locking, NEW w \in Syncs, Upserts!Align(w) PROVE Locking'
<1> DEFINE t == writer[w]
           linked == Upserts!LinkedTo(Upserts!Sees(w), t.id)
<1>1. t = Transaction(t) /\ UNCHANGED <<db, pending, edit, granted, overlapped>>
    BY Underway DEF Upserts!Align, Upserts!Kept
<1>2. CASE linked = {}
  <2> DEFINE u == [t EXCEPT !.step = "upsert"]
  <2>1. writer' = [writer EXCEPT ![w] = u]
      BY <1>2 DEF Upserts!Align, Upserts!Step
  <2>2. u = Transaction(u) /\ u.step \notin {"keep", "owner", "rename", "candidates", "link"}
      BY <1>1 DEF Transaction
  <2> HIDE DEF u
  <2> QED BY <1>1, <2>1, <2>2, OfReading
<1>3. CASE linked # {}
  <2> DEFINE r == Upserts!Only(linked)
             row == Upserts!Sees(w)[r]
             next == IF row.slug = t.slug \/ "title" \in row.locks THEN "keep" ELSE "owner"
             u == [t EXCEPT !.current = row.slug, !.row = r, !.locks = row.locks, !.step = next]
  <2>1. writer' = [writer EXCEPT ![w] = u]
      BY <1>3 DEF Upserts!Align, Upserts!Step
  <2>2. r \in DOMAIN Upserts!Sees(w)
      BY <1>3 DEF Upserts!Only, Upserts!LinkedTo
  <2>3. u = Transaction(u) /\ u.row = r
    <3>1. u = [t EXCEPT !.current = row.slug, !.row = r, !.locks = row.locks, !.step = next]
        OBVIOUS
    <3> HIDE DEF u, t, next, row, r
    <3> QED BY <1>1, <3>1 DEF Transaction
  <2> HIDE DEF u
  <2> QED BY <1>1, <2>1, <2>2, <2>3, OfReading
<1> QED BY <1>2, <1>3

LEMMA OfKeepCurrent == ASSUME Locking, NEW w \in Syncs, Upserts!KeepCurrent(w) PROVE Locking'
<1> DEFINE u == [writer[w] EXCEPT !.slug = writer[w].current, !.step = "upsert"]
<1>1. writer[w] = Transaction(writer[w]) /\ UNCHANGED <<db, pending, edit, granted, overlapped>>
    BY Underway DEF Upserts!KeepCurrent, Upserts!Kept
<1>2. writer' = [writer EXCEPT ![w] = u]
    BY DEF Upserts!KeepCurrent, Upserts!Step
<1>3. u = Transaction(u) /\ u.step \notin {"keep", "owner", "rename", "candidates", "link"}
  <2>1. u = [writer[w] EXCEPT !.slug = writer[w].current, !.step = "upsert"]
      OBVIOUS
  <2> HIDE DEF u
  <2> QED BY <1>1, <2>1 DEF Transaction
<1> HIDE DEF u
<1> QED BY <1>1, <1>2, <1>3, OfReading

LEMMA OfReadOwner == ASSUME Locking, NEW w \in Syncs, Upserts!ReadOwner(w) PROVE Locking'
<1> DEFINE t == writer[w]
           next == IF Upserts!Named(Upserts!Sees(w), t.slug) \subseteq {t.row} THEN "rename" ELSE "keep"
           u == [t EXCEPT !.step = next]
<1>1. t = Transaction(t) /\ UNCHANGED <<db, pending, edit, granted, overlapped>>
    BY Underway DEF Upserts!ReadOwner, Upserts!Kept
<1>2. writer' = [writer EXCEPT ![w] = u]
    BY DEF Upserts!ReadOwner, Upserts!Step
<1>3. t.row \in DOMAIN Upserts!Sees(w)
    BY DEF Upserts!ReadOwner, Locking, RowFound
<1>4. u = Transaction(u) /\ u.row = t.row
    BY <1>1 DEF Transaction
<1> HIDE DEF u
<1> QED BY <1>1, <1>2, <1>3, <1>4, OfReading

LEMMA OfRename == ASSUME Locking, NEW w \in Syncs, Upserts!Rename(w) PROVE Locking'
<1> DEFINE t == writer[w]
           row == [Upserts!Sees(w)[t.row] EXCEPT !.slug = t.slug]
           u == [t EXCEPT !.step = "upsert"]
           v == [t EXCEPT !.step = "keep"]
<1>1. t = Transaction(t) /\ UNCHANGED <<db, edit, granted, overlapped>>
    BY Underway DEF Upserts!Rename, Upserts!Kept
<1>2. t.row \in DOMAIN Upserts!Sees(w)
    BY DEF Upserts!Rename, Locking, RowFound
<1>3. CASE Upserts!Put(w, t.row, row) /\ writer' = [writer EXCEPT ![w] = u]
  <2>1. u = Transaction(u) /\ u.row = t.row
      BY <1>1 DEF Transaction
  <2>2. Upserts!Sees(w)[t.row] = Row(Upserts!Sees(w)[t.row])
      BY <1>2, SeenRows DEF Locking, Table
  <2>3. row = Row(row) /\ row.locks = Upserts!Sees(w)[t.row].locks /\ row.title = Upserts!Sees(w)[t.row].title
      BY <2>2 DEF Row
  <2>4. \A o \in Syncs \ {w} : t.row \notin DOMAIN pending[o]
      BY DEF Upserts!Rename, Upserts!HeldRow
  <2> HIDE DEF u, row, t
  <2> QED BY <1>1, <1>3, <2>1, <2>3, <2>4, OfWriting
<1>4. CASE writer' = [writer EXCEPT ![w] = v] /\ UNCHANGED pending
  <2>1. v = Transaction(v) /\ v.row = t.row
      BY <1>1 DEF Transaction
  <2> HIDE DEF v
  <2> QED BY <1>1, <1>2, <1>4, <2>1, OfReading
<1> QED BY <1>3, <1>4 DEF Upserts!Rename, Upserts!Step

LEMMA OfUpsert == ASSUME Locking, NEW w \in Syncs, Upserts!Upsert(w) PROVE Locking'
<1> DEFINE t == writer[w]
           named == Upserts!Named(Upserts!Sees(w), t.slug)
           r == IF named = {} THEN Upserts!Free(Upserts!Sees(w)) ELSE Upserts!Only(named)
           new == [slug |-> t.slug, link |-> Upserts!NoId, title |-> t.title, locks |-> {}]
           old == [Upserts!Sees(w)[r] EXCEPT !.title = Upserts!NewTitle(t, Upserts!Sees(w)[r])]
           row == IF named = {} THEN new ELSE old
           u == [t EXCEPT !.row = r, !.step = "candidates"]
<1>1. t = Transaction(t) /\ UNCHANGED <<db, edit, granted, overlapped>>
    BY Underway DEF Upserts!Upsert, Upserts!Kept
<1>2. Upserts!Put(w, r, row) /\ writer' = [writer EXCEPT ![w] = u] /\ ~Upserts!HeldRow(w, r)
    BY DEF Upserts!Upsert, Upserts!Step
<1>3. u = Transaction(u) /\ u.row = r
  <2>1. u = [t EXCEPT !.row = r, !.step = "candidates"]
      OBVIOUS
  <2> HIDE DEF u, t, r
  <2> QED BY <1>1, <2>1 DEF Transaction
<1>4. \A o \in Syncs \ {w} : r \notin DOMAIN pending[o]
    BY <1>2 DEF Upserts!HeldRow
<1>5. CASE named = {}
  <2>1. r \in Upserts!FreeIds(Upserts!Sees(w))
      BY <1>5 DEF Upserts!Upsert, Upserts!Free, Upserts!Only
  <2>2. r \notin DOMAIN Upserts!Sees(w)
      BY <2>1 DEF Upserts!FreeIds
  <2>3. row = Row(row)
      BY <1>5 DEF Row
  <2> HIDE DEF u, row, r
  <2> QED BY <1>1, <1>2, <1>3, <1>4, <2>2, <2>3, OfWriting
<1>6. CASE named # {}
  <2>1. r \in DOMAIN Upserts!Sees(w)
      BY <1>6 DEF Upserts!Only, Upserts!Named
  <2>2. Upserts!Sees(w)[r] = Row(Upserts!Sees(w)[r])
      BY <2>1, SeenRows DEF Locking, Table
  <2>3. row = old
      BY <1>6
  <2>4. old = Row(old) /\ old.locks = Upserts!Sees(w)[r].locks /\ old.title = Upserts!NewTitle(t, Upserts!Sees(w)[r])
    <3> DEFINE seen == Upserts!Sees(w)[r]
               title == Upserts!NewTitle(t, seen)
    <3>1. old = [seen EXCEPT !.title = title]
        OBVIOUS
    <3>2. seen = Row(seen)
        BY <2>2
    <3>3. old = Row(old) /\ old.locks = seen.locks /\ old.title = title
      <4> HIDE DEF seen, title, old
      <4> QED BY <3>1, <3>2 DEF Row
    <3> QED BY <3>3
  <2>5. "title" \in row.locks => row.title = Upserts!Sees(w)[r].title
      BY <2>3, <2>4 DEF Upserts!NewTitle
  <2>6. row = Row(row) /\ row.locks = Upserts!Sees(w)[r].locks
      BY <2>3, <2>4
  <2> HIDE DEF u, row, r, old, t
  <2> QED BY <1>1, <1>2, <1>3, <1>4, <2>5, <2>6, OfWriting
<1> QED BY <1>5, <1>6

LEMMA OfReadCandidates == ASSUME Locking, NEW w \in Syncs, Upserts!ReadCandidates(w) PROVE Locking'
<1> DEFINE t == writer[w]
           next == IF Upserts!LinkedTo(Upserts!Sees(w), t.id) = {} THEN "link" ELSE "commit"
           u == [t EXCEPT !.step = next]
<1>1. t = Transaction(t) /\ UNCHANGED <<db, pending, edit, granted, overlapped>>
    BY Underway DEF Upserts!ReadCandidates
<1>2. writer' = [writer EXCEPT ![w] = u]
    BY DEF Upserts!ReadCandidates, Upserts!Step
<1>3. t.row \in DOMAIN Upserts!Sees(w)
    BY DEF Upserts!ReadCandidates, Locking, RowFound
<1>4. u = Transaction(u) /\ u.row = t.row
    BY <1>1 DEF Transaction
<1> HIDE DEF u
<1> QED BY <1>1, <1>2, <1>3, <1>4, OfReading

LEMMA OfLink == ASSUME Locking, NEW w \in Syncs, Upserts!Link(w) PROVE Locking'
<1> DEFINE t == writer[w]
           row == [Upserts!Sees(w)[t.row] EXCEPT !.link = t.id]
           u == [t EXCEPT !.step = "commit"]
<1>1. t = Transaction(t) /\ UNCHANGED <<db, edit, granted, overlapped>>
    BY Underway DEF Upserts!Link, Upserts!Kept
<1>2. t.row \in DOMAIN Upserts!Sees(w)
    BY DEF Upserts!Link, Locking, RowFound
<1>3. CASE Upserts!Put(w, t.row, row) /\ writer' = [writer EXCEPT ![w] = u]
  <2>1. u = Transaction(u) /\ u.row = t.row
      BY <1>1 DEF Transaction
  <2>2. Upserts!Sees(w)[t.row] = Row(Upserts!Sees(w)[t.row])
      BY <1>2, SeenRows DEF Locking, Table
  <2>3. row = Row(row) /\ row.locks = Upserts!Sees(w)[t.row].locks /\ row.title = Upserts!Sees(w)[t.row].title
      BY <2>2 DEF Row
  <2>4. \A o \in Syncs \ {w} : t.row \notin DOMAIN pending[o]
      BY DEF Upserts!Link, Upserts!HeldRow
  <2> HIDE DEF u, row, t
  <2> QED BY <1>1, <1>3, <2>1, <2>3, <2>4, OfWriting
<1>4. CASE /\ pending' = [pending EXCEPT ![w] = [r \in {} |-> {}]]
           /\ writer' = [writer EXCEPT ![w] = Upserts!Idle]
    BY <1>1, <1>4, OfRollback
<1> QED BY <1>3, <1>4 DEF Upserts!Link, Upserts!Step

\* The rows of the transaction become those of the table, with the locks they had there.
LEMMA Publishes ==
    ASSUME Locking, NEW w \in Syncs, Upserts!Commit(w)
    PROVE  /\ DOMAIN db \subseteq DOMAIN db'
           /\ \A r \in DOMAIN db :
                 /\ db'[r].locks = db[r].locks
                 /\ "title" \in db[r].locks => db'[r].title = db[r].title
<1>1. db' = Upserts!Sees(w)
    BY DEF Upserts!Commit
<1>2. DOMAIN db \subseteq DOMAIN db'
    BY <1>1, SeenRows
<1>3. \A r \in DOMAIN db : db'[r] = IF r \in DOMAIN pending[w] THEN pending[w][r] ELSE db[r]
    BY <1>1, <1>2, SeenRows
<1>4. ASSUME NEW r \in DOMAIN db
      PROVE  /\ db'[r].locks = db[r].locks
             /\ "title" \in db[r].locks => db'[r].title = db[r].title
  <2>1. CASE r \in DOMAIN pending[w]
      BY <1>3, <2>1 DEF Locking, Respected
  <2>2. CASE r \notin DOMAIN pending[w]
      BY <1>3, <2>2
  <2> QED BY <2>1, <2>2
<1> QED BY <1>2, <1>4

LEMMA OfCommit == ASSUME Locking, NEW w \in Syncs, Upserts!Commit(w) PROVE Locking'
<1>1. /\ writer' = [writer EXCEPT ![w] = Upserts!Idle]
      /\ pending' = [pending EXCEPT ![w] = [r \in {} |-> {}]]
      /\ db' = Upserts!Sees(w) /\ UNCHANGED <<edit, granted, overlapped>>
    BY DEF Upserts!Commit, Upserts!Step
<1>2. \A o \in Syncs : writer'[o] = IF o = w THEN Upserts!Idle ELSE writer[o]
    BY <1>1 DEF Locking, Shaped
<1>3. \A o \in Syncs : pending'[o] = IF o = w THEN [r \in {} |-> {}] ELSE pending[o]
    BY <1>1 DEF Locking, Shaped
<1>4. Table(db') /\ DOMAIN db \subseteq DOMAIN db'
    BY <1>1, SeenRows DEF Locking
<1>5. \A o \in Syncs : Table(pending'[o])
    BY <1>3 DEF Locking, Shaped, Table
<1>6. Shaped'
  <2>1. \A a \in Admins : edit[a] = Upserts!Idle \/ (edit[a] = Edit(edit[a]) /\ edit[a].row \in DOMAIN db')
      BY <1>4 DEF Locking, Shaped
  <2>2. \A g \in granted : g = <<g[1], g[2]>> /\ g[1] \in DOMAIN db'
      BY <1>4 DEF Locking, Shaped
  <2>3. /\ pending' = [o \in Syncs |-> pending'[o]] /\ writer' = [o \in Syncs |-> writer'[o]]
        /\ \A o \in Syncs : writer'[o] = Upserts!Idle \/ writer'[o] = Transaction(writer'[o])
      BY <1>1, <1>2 DEF Locking, Shaped
  <2>4. edit' = [a \in Admins |-> edit'[a]]
      BY <1>1 DEF Locking, Shaped
  <2> QED BY <1>1, <1>4, <1>5, <2>1, <2>2, <2>3, <2>4 DEF Shaped, Table, Edit
<1>7. RowFound'
  <2>1. ASSUME NEW o \in Syncs,
               writer'[o].step \in {"keep", "owner", "rename", "candidates", "link"}
        PROVE  writer'[o].row \in DOMAIN Upserts!Sees(o)'
    <3>1. o # w /\ writer'[o] = writer[o]
        BY <1>2, <2>1 DEF Upserts!Idle
    <3>2. writer[o].row \in DOMAIN pending[o] \cup DOMAIN db
        BY <2>1, <3>1, SeenRows DEF Locking, RowFound
    <3>3. pending'[o] = pending[o]
        BY <1>3, <3>1
    <3>4. DOMAIN Upserts!Sees(o)' = DOMAIN pending'[o] \cup DOMAIN db'
        BY DEF Upserts!Sees
    <3> QED BY <1>4, <3>1, <3>2, <3>3, <3>4
  <2> QED BY <2>1 DEF RowFound
<1>8. Exclusive'
    BY <1>3 DEF Locking, Exclusive
<1>9. Respected'
  <2>1. ASSUME NEW o \in Syncs, NEW r \in DOMAIN pending'[o], r \in DOMAIN db'
        PROVE  /\ pending'[o][r].locks = db'[r].locks
               /\ "title" \in db'[r].locks => pending'[o][r].title = db'[r].title
    <3>1. o # w /\ pending'[o] = pending[o]
        BY <1>3, <2>1
    <3>2. r \notin DOMAIN pending[w]
        BY <2>1, <3>1 DEF Locking, Exclusive
    <3>3. r \in DOMAIN Upserts!Sees(w) /\ db'[r] = Upserts!Sees(w)[r]
        BY <1>1, <2>1
    <3>4. r \in DOMAIN db /\ Upserts!Sees(w)[r] = db[r]
        BY <3>2, <3>3, SeenRows
    <3> QED BY <2>1, <3>1, <3>3, <3>4 DEF Locking, Respected
  <2> QED BY <2>1 DEF Respected
<1>10. Upserts!LocksLast'
    BY <1>1, Publishes DEF Locking, Shaped, Upserts!LocksLast
<1> QED BY <1>6, <1>7, <1>8, <1>9, <1>10 DEF Locking

-----------------------------------------------------------------------------
(* The administrators.                                                      *)

LEMMA OfReadItem == ASSUME Locking, NEW a \in Admins, Upserts!ReadItem(a) PROVE Locking'
<1>1. PICK r \in DOMAIN db, field \in Upserts!Fields, unlock \in SUBSET Upserts!Fields :
          edit' = [edit EXCEPT ![a] = [step |-> "write", row |-> r, field |-> field,
                                       unlock |-> unlock, locks |-> db[r].locks]]
    BY DEF Upserts!ReadItem
<1>2. UNCHANGED <<db, pending, writer, granted, overlapped>>
    BY DEF Upserts!ReadItem
<1> DEFINE e == [step |-> "write", row |-> r, field |-> field, unlock |-> unlock,
                 locks |-> db[r].locks]
<1>3. e = Edit(e) /\ e.row \in DOMAIN db
    BY DEF Edit
<1>4. edit' = [edit EXCEPT ![a] = e]
    BY <1>1
<1>5. Shaped'
  <2> HIDE DEF e
  <2>1. \A b \in Admins : edit'[b] = IF b = a THEN e ELSE edit[b]
      BY <1>4 DEF Locking, Shaped
  <2>2. edit' = [b \in Admins |-> edit'[b]]
      BY <1>4 DEF Locking, Shaped
  <2>3. \A b \in Admins : edit'[b] = Upserts!Idle \/ (edit'[b] = Edit(edit'[b]) /\ edit'[b].row \in DOMAIN db)
      BY <1>3, <2>1 DEF Locking, Shaped
  <2> QED BY <1>2, <2>2, <2>3 DEF Locking, Shaped, Table
<1>6. RowFound' /\ Exclusive' /\ Respected' /\ Upserts!LocksLast'
    BY <1>2 DEF Locking, RowFound, Upserts!Sees, Exclusive, Respected, Upserts!LocksLast
<1> QED BY <1>5, <1>6 DEF Locking

LEMMA OfWriteItem == ASSUME Locking, NEW a \in Admins, Upserts!WriteItem(a) PROVE Locking'
<1> DEFINE e == edit[a]
           locks == Upserts!NewLocks(e)
           title == IF e.field = "title" THEN "edited" ELSE db[e.row].title
<1>1. /\ e = Edit(e) /\ e.row \in DOMAIN db
    BY DEF Upserts!WriteItem, Locking, Shaped, Upserts!Idle
<1>2. /\ edit' = [edit EXCEPT ![a] = Upserts!Idle] /\ UNCHANGED <<pending, writer>>
      /\ \A w \in Syncs : e.row \notin DOMAIN pending[w]
      /\ granted' = (granted \cup {<<e.row, e.field>>}) \ {<<e.row, f>> : f \in e.unlock}
      /\ overlapped' = IF db[e.row].locks # e.locks THEN overlapped \cup {e.row} ELSE overlapped
      /\ db' = [db EXCEPT ![e.row].locks = locks,
                          ![e.row].title = IF e.field = "title" THEN "edited" ELSE @]
    BY DEF Upserts!WriteItem
<1>3. db[e.row] = Row(db[e.row])
    BY <1>1 DEF Locking, Shaped, Table
<1>4. /\ DOMAIN db' = DOMAIN db /\ db' = [r \in DOMAIN db' |-> db'[r]]
      /\ \A r \in DOMAIN db : r # e.row => db'[r] = db[r]
      /\ db'[e.row].locks = locks /\ db'[e.row] = Row(db'[e.row])
    BY <1>1, <1>2, <1>3 DEF Row, Locking, Shaped, Table
<1>5. Shaped'
  <2>1. Table(db')
      BY <1>4 DEF Locking, Shaped, Table
  <2>2. \A b \in Admins : edit'[b] = IF b = a THEN Upserts!Idle ELSE edit[b]
      BY <1>2 DEF Locking, Shaped
  <2>3. edit' = [b \in Admins |-> edit'[b]]
      BY <1>2 DEF Locking, Shaped
  <2>4. \A b \in Admins : edit'[b] = Upserts!Idle \/ (edit'[b] = Edit(edit'[b]) /\ edit'[b].row \in DOMAIN db')
      BY <1>4, <2>2 DEF Locking, Shaped
  <2>5. \A g \in granted' : g = <<g[1], g[2]>> /\ g[1] \in DOMAIN db'
      BY <1>1, <1>2, <1>4 DEF Locking, Shaped
  <2>6. /\ pending' = [w \in Syncs |-> pending'[w]] /\ \A w \in Syncs : Table(pending'[w])
        /\ writer' = [w \in Syncs |-> writer'[w]]
        /\ \A w \in Syncs : writer'[w] = Upserts!Idle \/ writer'[w] = Transaction(writer'[w])
      BY <1>2 DEF Locking, Shaped
  <2> QED BY <2>1, <2>3, <2>4, <2>5, <2>6 DEF Shaped
<1>6. RowFound'
    BY <1>2, <1>4 DEF Locking, RowFound, Upserts!Sees
<1>7. Exclusive' /\ Respected'
  <2>1. Exclusive'
      BY <1>2 DEF Locking, Exclusive
  <2>2. ASSUME NEW w \in Syncs, NEW r \in DOMAIN pending[w], r \in DOMAIN db
        PROVE  /\ pending[w][r].locks = db'[r].locks
               /\ "title" \in db'[r].locks => pending[w][r].title = db'[r].title
    <3>1. r # e.row
        BY <1>2
    <3> QED BY <1>4, <2>2, <3>1 DEF Locking, Respected
  <2> QED BY <1>2, <1>4, <2>1, <2>2 DEF Respected
<1>8. Upserts!LocksLast'
  <2>1. ASSUME NEW g \in granted' PROVE g[2] \in db'[g[1]].locks \/ g[1] \in overlapped'
    <3>1. \A f \in e.unlock : g # <<e.row, f>>
        BY <1>2
    <3>2. CASE g = <<e.row, e.field>>
        BY <1>4, <3>1, <3>2 DEF Upserts!NewLocks
    <3>3. CASE g \in granted /\ g[1] # e.row
      <4>1. g[1] \in DOMAIN db /\ db'[g[1]] = db[g[1]]
          BY <1>4, <3>3 DEF Locking, Shaped
      <4> QED BY <1>2, <3>3, <4>1 DEF Locking, Upserts!LocksLast
    <3>4. CASE g \in granted /\ g[1] = e.row
      <4>1. g[2] \notin e.unlock
          BY <3>1, <3>4 DEF Locking, Shaped
      <4>2. g[2] \in db[e.row].locks \/ e.row \in overlapped
          BY <3>4 DEF Locking, Upserts!LocksLast
      <4> QED BY <1>2, <1>4, <3>4, <4>1, <4>2 DEF Upserts!NewLocks
    <3> QED BY <1>2, <3>2, <3>3, <3>4
  <2> QED BY <2>1 DEF Upserts!LocksLast
<1> QED BY <1>5, <1>6, <1>7, <1>8 DEF Locking

LEMMA LockingStep == Locking /\ [Upserts!Next]_Upserts!vars => Locking' /\ Upserts!StepKeepsLockedTitles
<1> SUFFICES ASSUME Locking, [Upserts!Next]_Upserts!vars
             PROVE  Locking' /\ Upserts!StepKeepsLockedTitles
    OBVIOUS
<1>1. Upserts!StepKeepsLockedTitles
    BY Publishes DEF Upserts!StepKeepsLockedTitles
<1>2. ASSUME UNCHANGED Upserts!vars PROVE Locking'
    BY <1>2 DEF Upserts!vars, Locking, Shaped, Table, RowFound, Upserts!Sees, Exclusive,
       Respected, Upserts!LocksLast
<1>3. ASSUME NEW w \in Syncs, Upserts!Begin(w) \/ Upserts!Align(w) \/ Upserts!KeepCurrent(w) \/ Upserts!ReadOwner(w)
      PROVE  Locking'
    BY <1>3, OfBegin, OfAlign, OfKeepCurrent, OfReadOwner
<1>4. ASSUME NEW w \in Syncs, Upserts!Rename(w) \/ Upserts!Upsert(w) \/ Upserts!ReadCandidates(w) \/ Upserts!Link(w)
      PROVE  Locking'
    BY <1>4, OfRename, OfUpsert, OfReadCandidates, OfLink
<1>5. ASSUME NEW w \in Syncs, Upserts!Commit(w) PROVE Locking'
    BY <1>5, OfCommit
<1>6. ASSUME NEW w \in Syncs, Upserts!Abort(w) PROVE Locking'
    BY <1>6, OfRollback DEF Upserts!Abort, Upserts!Step
<1>7. ASSUME NEW a \in Admins, Upserts!ReadItem(a) \/ Upserts!WriteItem(a) PROVE Locking'
    BY <1>7, OfReadItem, OfWriteItem
<1> QED BY <1>1, <1>2, <1>3, <1>4, <1>5, <1>6, <1>7 DEF Upserts!Next

LEMMA UpsertsStutter == UNCHANGED vars => UNCHANGED Upserts!vars
BY DEF vars, Upserts!vars, db, pending, writer, edit, left, skips, dropped, everLinked, granted,
   overlapped

(***************************************************************************)
(* A lock an administrator set is lifted by administrators only, and the   *)
(* upsert of a sync writes no locked title, in whatever order the          *)
(* statements of writers and administrators run, save where two edits of   *)
(* one item overlapped (_locked_aware_update, edit_catalog_item).          *)
(***************************************************************************)
THEOREM LocksAreHeld == Spec => LocksHold
<1> DEFINE Here == part = "writers"
           Wanted == part = "writers" => Upserts!StepKeepsLockedTitles
<1>1. Init /\ Here => Locking
  BY LockingInit DEF Init
<1>2. [Next]_vars /\ Here => [Upserts!Next]_Upserts!vars /\ Here'
  BY UpsertsStutter DEF Next, vars
<1>3. [Next]_vars /\ Here /\ Locking => Locking' /\ Here'
  BY <1>2, LockingStep
<1>4. [Next]_vars /\ ~Here => ~Here'
  BY DEF Next, vars
<1>5. (Here => Locking) => LocksLast
  BY DEF LocksLast, Locking
<1>6. [Next]_vars /\ (Here => Locking) => [Wanted]_vars
  BY UpsertsStutter, LockingStep DEF Next
<1>7. []LocksLast /\ [][Wanted]_vars => LocksHold
  BY DEF LocksHold, TitlesStay
<1> HIDE DEF Here, Wanted
<1>8. QED
  BY <1>1, <1>3, <1>4, <1>5, <1>6, <1>7, PTL DEF Spec

LEMMA SameWritersCount == \A S : Upserts!Cardinality(S) = Cardinality(S)
BY DEF Upserts!Cardinality, Cardinality

-----------------------------------------------------------------------------
(* Slugs, ids and what was written down about them.                       *)

Differ(x, y) == x.slug # y.slug /\ (x.link = Upserts!NoId \/ x.link # y.link)
Apart(t) == \A r, q \in DOMAIN t : r # q => Differ(t[r], t[q])

\* Whoever commits next, the keys are unique.
Unique ==
    /\ Apart(db) /\ \A w \in Syncs : Apart(Upserts!Sees(w))
    /\ \A w, o \in Syncs : w # o =>
          \A r \in DOMAIN pending[w], q \in DOMAIN pending[o] : Differ(pending[w][r], pending[o][q])

Replaceable == {Upserts!NoId} \cup dropped

\* The one row of a transaction, and the link that it takes away.
Writing(w) ==
    /\ writer[w].step # "idle" => writer[w].id \in Ids
    /\ writer[w].step \in {"candidates", "link", "commit"} => DOMAIN pending[w] = {writer[w].row}
    /\ writer[w].step \in {"idle", "align", "keep", "owner", "rename"} => DOMAIN pending[w] = {}
    /\ writer[w].step = "upsert" => \A r \in DOMAIN pending[w] : pending[w][r].slug = writer[w].slug
    /\ writer[w].step = "link" => pending[w][writer[w].row].link \in Replaceable
    /\ \A r \in DOMAIN pending[w] : r \in DOMAIN db =>
          pending[w][r].link = db[r].link \/ db[r].link \in Replaceable

\* The rows without a link that are there, or that a commit brings.
Unlinked == Upserts!LinkedTo(db, Upserts!NoId)
Coming == UNION {Upserts!LinkedTo(pending[w], Upserts!NoId) : w \in {o \in Syncs : writer[o].step = "commit"}}
Counted == /\ skips \in Nat /\ IsFiniteSet(Unlinked \cup Coming)
           /\ Cardinality(Unlinked \cup Coming) =< skips

Recorded == Upserts!NoId \notin everLinked /\ Upserts!LostIdentitiesAreRecorded

Keyed == Unique /\ (\A w \in Syncs : Writing(w)) /\ Counted /\ Recorded

LEMMA UniqueByPut ==
    ASSUME Locking, Unique, NEW w \in Syncs, NEW r, NEW row, Upserts!Put(w, r, row), UNCHANGED db,
           \A q \in DOMAIN Upserts!Sees(w) : q # r => Differ(row, Upserts!Sees(w)[q]),
           \A o \in Syncs \ {w} : \A q \in DOMAIN pending[o] : Differ(row, pending[o][q])
    PROVE  Unique'
<1>1. \A o \in Syncs : pending'[o] = IF o = w
          THEN [q \in DOMAIN pending[w] \cup {r} |-> IF q = r THEN row ELSE pending[w][q]]
          ELSE pending[o]
    BY DEF Upserts!Put, Locking, Shaped
<1>2. /\ DOMAIN pending'[w] = DOMAIN pending[w] \cup {r}
      /\ \A q \in DOMAIN pending'[w] : pending'[w][q] = IF q = r THEN row ELSE pending[w][q]
    BY <1>1
<1>3. \A o \in Syncs \ {w} : Upserts!Sees(o)' = Upserts!Sees(o) /\ pending'[o] = pending[o]
    BY <1>1 DEF Upserts!Sees
<1>4. /\ DOMAIN Upserts!Sees(w)' = DOMAIN Upserts!Sees(w) \cup {r}
      /\ \A q \in DOMAIN Upserts!Sees(w)' : Upserts!Sees(w)'[q] = IF q = r THEN row ELSE Upserts!Sees(w)[q]
    BY <1>2 DEF Upserts!Sees
<1>5. Apart(Upserts!Sees(w))'
  <2>1. ASSUME NEW p \in DOMAIN Upserts!Sees(w)', NEW q \in DOMAIN Upserts!Sees(w)', p # q
        PROVE  Differ(Upserts!Sees(w)'[p], Upserts!Sees(w)'[q])
    BY <1>4, <2>1 DEF Unique, Apart, Differ
  <2> QED BY <2>1 DEF Apart
<1>6. \A o \in Syncs : Apart(Upserts!Sees(o))'
    BY <1>3, <1>5 DEF Unique, Apart
<1>7. ASSUME NEW o \in Syncs, NEW p \in Syncs, o # p,
             NEW q \in DOMAIN pending'[o], NEW s \in DOMAIN pending'[p]
      PROVE  Differ(pending'[o][q], pending'[p][s])
  <2>1. CASE o # w /\ p # w
      BY <1>3, <1>7, <2>1 DEF Unique
  <2>2. CASE o = w
    <3>1. p # w /\ pending'[p] = pending[p]
        BY <1>3, <1>7, <2>2
    <3>2. CASE q = r
        BY <1>2, <2>2, <3>1, <3>2
    <3>3. CASE q # r
        BY <1>2, <1>7, <2>2, <3>1, <3>3 DEF Unique
    <3> QED BY <3>2, <3>3
  <2>3. CASE p = w
    <3>1. o # w /\ pending'[o] = pending[o]
        BY <1>3, <1>7, <2>3
    <3>2. CASE s = r
        BY <1>2, <2>3, <3>1, <3>2 DEF Differ
    <3>3. CASE s # r
        BY <1>2, <1>7, <2>3, <3>1, <3>3 DEF Unique
    <3> QED BY <3>2, <3>3
  <2> QED BY <2>1, <2>2, <2>3
<1> QED BY <1>6, <1>7 DEF Unique

LEMMA UniqueByRollback ==
    ASSUME Locking, Unique, NEW w \in Syncs,
           pending' = [pending EXCEPT ![w] = [r \in {} |-> {}]], UNCHANGED db
    PROVE  Unique'
<1>1. /\ \A o \in Syncs : o # w => pending'[o] = pending[o]
      /\ DOMAIN pending'[w] = {}
    BY DEF Locking, Shaped
<1>2. \A o \in Syncs \ {w} : Upserts!Sees(o)' = Upserts!Sees(o)
    BY <1>1 DEF Upserts!Sees
<1>3. /\ DOMAIN Upserts!Sees(w)' = DOMAIN db
      /\ \A r \in DOMAIN db : Upserts!Sees(w)'[r] = db[r]
    BY <1>1 DEF Upserts!Sees
<1>4. \A o \in Syncs : Apart(Upserts!Sees(o))'
    BY <1>2, <1>3 DEF Unique, Apart
<1> QED BY <1>1, <1>4 DEF Unique

LEMMA UniqueByCommit ==
    ASSUME Locking, Unique, NEW w \in Syncs, Upserts!Commit(w)
    PROVE  Unique'
<1>1. /\ \A o \in Syncs : o # w => pending'[o] = pending[o]
      /\ DOMAIN pending'[w] = {} /\ db' = Upserts!Sees(w)
    BY DEF Upserts!Commit, Locking, Shaped
<1>2. Apart(db)'
    BY <1>1 DEF Unique, Apart
<1>3. ASSUME NEW o \in Syncs PROVE Apart(Upserts!Sees(o))'
  <2>1. CASE o = w
    <3>1. /\ DOMAIN Upserts!Sees(o)' = DOMAIN db'
          /\ \A r \in DOMAIN db' : Upserts!Sees(o)'[r] = db'[r]
        BY <1>1, <2>1 DEF Upserts!Sees
    <3> QED BY <1>2, <3>1 DEF Apart
  <2>2. CASE o # w
    <3>1. /\ DOMAIN Upserts!Sees(o)' = DOMAIN pending[o] \cup DOMAIN Upserts!Sees(w)
          /\ \A r \in DOMAIN Upserts!Sees(o)' :
                Upserts!Sees(o)'[r] = IF r \in DOMAIN pending[o] THEN pending[o][r] ELSE Upserts!Sees(w)[r]
        BY <1>1, <2>2 DEF Upserts!Sees
    <3>2. ASSUME NEW r \in DOMAIN pending[o], NEW q \in DOMAIN Upserts!Sees(w) \ DOMAIN pending[o]
          PROVE  Differ(pending[o][r], Upserts!Sees(w)[q])
      <4>1. CASE q \in DOMAIN pending[w]
        <5>1. Upserts!Sees(w)[q] = pending[w][q]
            BY <3>2, <4>1, SeenRows
        <5> QED BY <2>2, <4>1, <5>1 DEF Unique
      <4>2. CASE q \notin DOMAIN pending[w]
        <5>1. /\ q \in DOMAIN db /\ Upserts!Sees(w)[q] = db[q]
              /\ q \in DOMAIN Upserts!Sees(o) /\ Upserts!Sees(o)[q] = db[q]
              /\ r \in DOMAIN Upserts!Sees(o) /\ Upserts!Sees(o)[r] = pending[o][r]
            BY <3>2, <4>2, SeenRows
        <5> QED BY <3>2, <5>1 DEF Unique, Apart
      <4> QED BY <4>1, <4>2
    <3>3. ASSUME NEW r \in DOMAIN pending[o], NEW q \in DOMAIN pending[o], r # q
          PROVE  Differ(pending[o][r], pending[o][q])
        BY <3>3, SeenRows DEF Unique, Apart
    <3>4. ASSUME NEW r \in DOMAIN Upserts!Sees(o)', NEW q \in DOMAIN Upserts!Sees(o)', r # q
          PROVE  Differ(Upserts!Sees(o)'[r], Upserts!Sees(o)'[q])
      <4>1. CASE r \in DOMAIN pending[o] /\ q \in DOMAIN pending[o]
          BY <3>1, <3>3, <3>4, <4>1
      <4>2. CASE r \in DOMAIN pending[o] /\ q \notin DOMAIN pending[o]
          BY <3>1, <3>2, <4>2
      <4>3. CASE r \notin DOMAIN pending[o] /\ q \in DOMAIN pending[o]
          BY <3>1, <3>2, <4>3 DEF Differ
      <4>4. CASE r \notin DOMAIN pending[o] /\ q \notin DOMAIN pending[o]
          BY <3>1, <3>4, <4>4 DEF Unique, Apart
      <4> QED BY <4>1, <4>2, <4>3, <4>4
    <3> QED BY <3>4 DEF Apart
  <2> QED BY <2>1, <2>2
<1>4. \A o, p \in Syncs : o # p =>
          \A r \in DOMAIN pending'[o], q \in DOMAIN pending'[p] : Differ(pending'[o][r], pending'[p][q])
    BY <1>1 DEF Unique
<1> QED BY <1>2, <1>3, <1>4 DEF Unique

LEMMA UniqueByEdit ==
    ASSUME Locking, Unique, UNCHANGED pending, DOMAIN db' = DOMAIN db,
           \A r \in DOMAIN db : db'[r].slug = db[r].slug /\ db'[r].link = db[r].link
    PROVE  Unique'
<1>1. Apart(db)'
    BY DEF Unique, Apart, Differ
<1>2. ASSUME NEW o \in Syncs PROVE Apart(Upserts!Sees(o))'
  <2>1. /\ DOMAIN Upserts!Sees(o)' = DOMAIN Upserts!Sees(o)
        /\ \A r \in DOMAIN Upserts!Sees(o) : /\ Upserts!Sees(o)'[r].slug = Upserts!Sees(o)[r].slug
                                             /\ Upserts!Sees(o)'[r].link = Upserts!Sees(o)[r].link
      BY DEF Upserts!Sees
  <2> QED BY <2>1 DEF Unique, Apart, Differ
<1> QED BY <1>1, <1>2 DEF Unique

-----------------------------------------------------------------------------
LEMMA CountedLess ==
    ASSUME Counted, Unlinked' \cup Coming' \subseteq Unlinked \cup Coming, skips' = skips
    PROVE  Counted'
<1>1. /\ IsFiniteSet(Unlinked' \cup Coming')
      /\ Cardinality(Unlinked' \cup Coming') =< Cardinality(Unlinked \cup Coming)
    BY FS_Subset DEF Counted
<1>2. Cardinality(Unlinked' \cup Coming') \in Nat /\ Cardinality(Unlinked \cup Coming) \in Nat
    BY <1>1, FS_CardinalityType DEF Counted
<1> QED BY <1>1, <1>2 DEF Counted

LEMMA CountedOne ==
    ASSUME Counted, NEW r, Unlinked' \cup Coming' \subseteq (Unlinked \cup Coming) \cup {r},
           skips' = skips + 1
    PROVE  Counted'
<1> DEFINE S == Unlinked \cup Coming
           T == S \cup {r}
<1>1. IsFiniteSet(T) /\ (Cardinality(T) = Cardinality(S) \/ Cardinality(T) = Cardinality(S) + 1)
    BY FS_AddElement DEF Counted
<1>2. IsFiniteSet(Unlinked' \cup Coming') /\ Cardinality(Unlinked' \cup Coming') =< Cardinality(T)
    BY <1>1, FS_Subset
<1>3. /\ Cardinality(Unlinked' \cup Coming') \in Nat /\ Cardinality(T) \in Nat
      /\ Cardinality(S) \in Nat
    BY <1>1, <1>2, FS_CardinalityType DEF Counted
<1> HIDE DEF S, T
<1>4. Cardinality(S) =< skips /\ skips \in Nat
    BY DEF S, Counted
<1> QED BY <1>1, <1>2, <1>3, <1>4 DEF Counted

LEMMA WritingStays ==
    ASSUME NEW o \in Syncs, Writing(o), writer'[o] = writer[o], pending'[o] = pending[o],
           dropped \subseteq dropped',
           \A r \in DOMAIN pending[o] : r \in DOMAIN db' => r \in DOMAIN db /\ db'[r].link = db[r].link
    PROVE  Writing(o)'
BY DEF Writing, Replaceable

LEMMA WritingOfIdle ==
    ASSUME NEW w \in Syncs, writer'[w] = Upserts!Idle, DOMAIN pending'[w] = {}
    PROVE  Writing(w)'
BY DEF Writing, Upserts!Idle

\* What the statements of one writer leave of the others.
LEMMA OthersWrite ==
    ASSUME Locking, NEW w \in Syncs, \A o \in Syncs : Writing(o),
           \A o \in Syncs \ {w} : writer'[o] = writer[o] /\ pending'[o] = pending[o],
           dropped \subseteq dropped', UNCHANGED db, Writing(w)'
    PROVE  \A o \in Syncs : Writing(o)'
<1>1. ASSUME NEW o \in Syncs, o # w PROVE Writing(o)'
    BY <1>1, WritingStays
<1> QED BY <1>1

LEMMA RecordedStays ==
    ASSUME Recorded, UNCHANGED <<db, everLinked>>, dropped \subseteq dropped'
    PROVE  Recorded'
BY DEF Recorded, Upserts!LostIdentitiesAreRecorded, Upserts!LinkedTo

\* Nothing more is about to be committed.
LEMMA ComingLess ==
    ASSUME NEW w \in Syncs, UNCHANGED db,
           \A o \in Syncs \ {w} : writer'[o] = writer[o] /\ pending'[o] = pending[o],
           writer'[w].step = "commit" => Upserts!LinkedTo(pending'[w], Upserts!NoId) = {}
    PROVE  Unlinked' \cup Coming' \subseteq Unlinked \cup Coming
<1>1. Unlinked' = Unlinked
    BY DEF Unlinked, Upserts!LinkedTo
<1>2. ASSUME NEW r \in Coming' PROVE r \in Coming
  <2>1. PICK o \in Syncs : writer'[o].step = "commit" /\ r \in Upserts!LinkedTo(pending'[o], Upserts!NoId)
      BY <1>2 DEF Coming, Upserts!LinkedTo
  <2>2. o # w
      BY <2>1
  <2> QED BY <2>1, <2>2 DEF Coming
<1> QED BY <1>1, <1>2

\* A writer that has written nothing moves on.
LEMMA IdsByMoving ==
    ASSUME Locking, Keyed, NEW w \in Syncs, NEW t, writer' = [writer EXCEPT ![w] = t],
           writer[w].step \in {"idle", "align", "keep", "owner", "rename"},
           t.step \in {"align", "keep", "owner", "rename", "upsert"}, t.id \in Ids,
           UNCHANGED <<db, pending, skips, dropped, everLinked>>
    PROVE  Keyed'
<1>1. writer'[w] = t /\ \A o \in Syncs \ {w} : writer'[o] = writer[o]
    BY DEF Locking, Shaped
<1>2. DOMAIN pending[w] = {}
    BY DEF Keyed, Writing
<1>3. Unique'
  <2>1. \A o \in Syncs : Upserts!Sees(o)' = Upserts!Sees(o)
      BY DEF Upserts!Sees
  <2> QED BY <2>1 DEF Keyed, Unique, Apart
<1>4. Writing(w)'
    BY <1>1, <1>2 DEF Writing
<1>5. \A o \in Syncs : Writing(o)'
    BY <1>1, <1>4, OthersWrite DEF Keyed
<1>6. Counted'
    BY <1>1, ComingLess, CountedLess DEF Keyed
<1> QED BY <1>3, <1>5, <1>6, RecordedStays DEF Keyed

LEMMA IdsByBegin == ASSUME Locking, Keyed, NEW w \in Syncs, Upserts!Begin(w) PROVE Keyed'
<1>1. PICK id \in Ids, slug \in Slugs, title \in Titles :
          Upserts!Step(w, [step |-> "align", id |-> id, slug |-> slug, title |-> title, current |-> slug,
                   row |-> 0, locks |-> {}])
    BY DEF Upserts!Begin
<1> DEFINE t == [step |-> "align", id |-> id, slug |-> slug, title |-> title, current |-> slug,
                 row |-> 0, locks |-> {}]
<1>2. writer' = [writer EXCEPT ![w] = t] /\ UNCHANGED <<db, pending, skips, dropped, everLinked>>
    BY <1>1 DEF Upserts!Begin, Upserts!Step
<1>3. t.step = "align" /\ t.id \in Ids /\ writer[w].step = "idle"
    BY DEF Upserts!Begin, Upserts!Idle
<1> HIDE DEF t
<1> QED BY <1>2, <1>3, IdsByMoving

LEMMA IdsByAlign == ASSUME Locking, Keyed, NEW w \in Syncs, Upserts!Align(w) PROVE Keyed'
<1> DEFINE t == writer[w]
           linked == Upserts!LinkedTo(Upserts!Sees(w), t.id)
<1>1. /\ t = Transaction(t) /\ UNCHANGED <<db, pending, skips, dropped, everLinked>>
      /\ t.step = "align" /\ t.id \in Ids
    BY Underway DEF Upserts!Align, Upserts!Kept, Keyed, Writing
<1>2. CASE linked = {}
  <2> DEFINE u == [t EXCEPT !.step = "upsert"]
  <2>1. writer' = [writer EXCEPT ![w] = u]
      BY <1>2 DEF Upserts!Align, Upserts!Step
  <2>2. u.step = "upsert" /\ u.id \in Ids
      BY <1>1 DEF Transaction
  <2> HIDE DEF u
  <2> QED BY <1>1, <2>1, <2>2, IdsByMoving
<1>3. CASE linked # {}
  <2> DEFINE r == Upserts!Only(linked)
             row == Upserts!Sees(w)[r]
             next == IF row.slug = t.slug \/ "title" \in row.locks THEN "keep" ELSE "owner"
             u == [t EXCEPT !.current = row.slug, !.row = r, !.locks = row.locks, !.step = next]
  <2>1. writer' = [writer EXCEPT ![w] = u]
      BY <1>3 DEF Upserts!Align, Upserts!Step
  <2>2. u.step = next /\ u.id = t.id
    <3>1. u = [t EXCEPT !.current = row.slug, !.row = r, !.locks = row.locks, !.step = next]
        OBVIOUS
    <3> HIDE DEF u, t, next, row, r
    <3> QED BY <1>1, <3>1 DEF Transaction
  <2>3. next \in {"keep", "owner"}
      OBVIOUS
  <2> HIDE DEF u, next
  <2> QED BY <1>1, <2>1, <2>2, <2>3, IdsByMoving
<1> QED BY <1>2, <1>3

LEMMA IdsByKeepCurrent ==
    ASSUME Locking, Keyed, NEW w \in Syncs, Upserts!KeepCurrent(w) PROVE Keyed'
<1> DEFINE u == [writer[w] EXCEPT !.slug = writer[w].current, !.step = "upsert"]
<1>1. /\ writer[w] = Transaction(writer[w]) /\ UNCHANGED <<db, pending, skips, dropped, everLinked>>
      /\ writer[w].step = "keep" /\ writer[w].id \in Ids
    BY Underway DEF Upserts!KeepCurrent, Upserts!Kept, Keyed, Writing
<1>2. writer' = [writer EXCEPT ![w] = u]
    BY DEF Upserts!KeepCurrent, Upserts!Step
<1>3. u.step = "upsert" /\ u.id = writer[w].id
    BY <1>1 DEF Transaction
<1> HIDE DEF u
<1> QED BY <1>1, <1>2, <1>3, IdsByMoving

LEMMA IdsByReadOwner ==
    ASSUME Locking, Keyed, NEW w \in Syncs, Upserts!ReadOwner(w) PROVE Keyed'
<1> DEFINE t == writer[w]
           next == IF Upserts!Named(Upserts!Sees(w), t.slug) \subseteq {t.row} THEN "rename" ELSE "keep"
           u == [t EXCEPT !.step = next]
<1>1. /\ t = Transaction(t) /\ UNCHANGED <<db, pending, skips, dropped, everLinked>>
      /\ t.step = "owner" /\ t.id \in Ids
    BY Underway DEF Upserts!ReadOwner, Upserts!Kept, Keyed, Writing
<1>2. writer' = [writer EXCEPT ![w] = u]
    BY DEF Upserts!ReadOwner, Upserts!Step
<1>3. u.step \in {"rename", "keep"} /\ u.id = t.id
    BY <1>1 DEF Transaction
<1> HIDE DEF u
<1> QED BY <1>1, <1>2, <1>3, IdsByMoving

-----------------------------------------------------------------------------
(* The statements that write.                                               *)

\* The transaction writes its one row, with keys that nobody else is writing.
LEMMA IdsByWriting ==
    ASSUME Locking, Keyed, NEW w \in Syncs, NEW r, NEW row, NEW t,
           Upserts!Put(w, r, row), writer' = [writer EXCEPT ![w] = t],
           UNCHANGED <<db, skips, dropped, everLinked>>,
           \A q \in DOMAIN Upserts!Sees(w) : q # r => Differ(row, Upserts!Sees(w)[q]),
           \A o \in Syncs \ {w} : \A q \in DOMAIN pending[o] : Differ(row, pending[o][q]),
           DOMAIN pending[w] \subseteq {r}, t.row = r, t.id \in Ids,
           t.step \in {"upsert", "candidates", "commit"},
           t.step = "upsert" => row.slug = t.slug,
           t.step = "commit" => row.link # Upserts!NoId,
           r \in DOMAIN db => row.link = db[r].link \/ db[r].link \in Replaceable
    PROVE  Keyed'
<1>1. writer'[w] = t /\ \A o \in Syncs \ {w} : writer'[o] = writer[o]
    BY DEF Locking, Shaped
<1>2. \A o \in Syncs : pending'[o] = IF o = w
          THEN [q \in DOMAIN pending[w] \cup {r} |-> IF q = r THEN row ELSE pending[w][q]]
          ELSE pending[o]
    BY DEF Upserts!Put, Locking, Shaped
<1>3. DOMAIN pending'[w] = {r} /\ pending'[w][r] = row /\ \A o \in Syncs \ {w} : pending'[o] = pending[o]
    BY <1>2
<1>4. Unique'
    BY UniqueByPut DEF Keyed
<1>5. Writing(w)'
    BY <1>1, <1>3 DEF Writing, Replaceable
<1>6. \A o \in Syncs : Writing(o)'
    BY <1>1, <1>3, <1>5, OthersWrite DEF Keyed
<1>7. Counted'
  <2>1. t.step = "commit" => Upserts!LinkedTo(pending'[w], Upserts!NoId) = {}
      BY <1>3 DEF Upserts!LinkedTo
  <2> QED BY <1>1, <1>3, <2>1, ComingLess, CountedLess DEF Keyed
<1> QED BY <1>4, <1>6, <1>7, RecordedStays DEF Keyed

\* The keys that a row has already are taken by no other.
LEMMA KeysAsSeen ==
    ASSUME Locking, Keyed, NEW w \in Syncs, NEW r \in DOMAIN Upserts!Sees(w), ~Upserts!HeldRow(w, r)
    PROVE  /\ \A q \in DOMAIN Upserts!Sees(w) : q # r => Differ(Upserts!Sees(w)[r], Upserts!Sees(w)[q])
           /\ \A o \in Syncs \ {w} : \A q \in DOMAIN pending[o] : Differ(Upserts!Sees(w)[r], pending[o][q])
           /\ r \in DOMAIN db => Upserts!Sees(w)[r].link = db[r].link \/ db[r].link \in Replaceable
<1>1. \A q \in DOMAIN Upserts!Sees(w) : q # r => Differ(Upserts!Sees(w)[r], Upserts!Sees(w)[q])
    BY DEF Keyed, Unique, Apart
<1>2. ASSUME NEW o \in Syncs \ {w}, NEW q \in DOMAIN pending[o]
      PROVE  Differ(Upserts!Sees(w)[r], pending[o][q])
  <2>1. CASE r \in DOMAIN pending[w]
    <3>1. Upserts!Sees(w)[r] = pending[w][r]
        BY <2>1, SeenRows
    <3>2. o \in Syncs /\ o # w /\ q \in DOMAIN pending[o]
        OBVIOUS
    <3> QED BY <2>1, <3>1, <3>2 DEF Keyed, Unique
  <2>2. CASE r \notin DOMAIN pending[w]
    <3>1. r \in DOMAIN db /\ Upserts!Sees(w)[r] = db[r]
        BY <2>2, SeenRows
    <3>2. r \notin DOMAIN pending[o]
        BY DEF Upserts!HeldRow
    <3>3. /\ r \in DOMAIN Upserts!Sees(o) /\ Upserts!Sees(o)[r] = db[r]
          /\ q \in DOMAIN Upserts!Sees(o) /\ Upserts!Sees(o)[q] = pending[o][q]
        BY <3>1, <3>2, SeenRows
    <3> QED BY <1>2, <3>1, <3>2, <3>3 DEF Keyed, Unique, Apart
  <2> QED BY <2>1, <2>2
<1>3. r \in DOMAIN db => Upserts!Sees(w)[r].link = db[r].link \/ db[r].link \in Replaceable
  <2>1. Writing(w) /\ Upserts!Sees(w)[r] = IF r \in DOMAIN pending[w] THEN pending[w][r] ELSE db[r]
      BY SeenRows DEF Keyed
  <2> QED BY <2>1 DEF Writing
<1> QED BY <1>1, <1>2, <1>3

LEMMA IdsByRename == ASSUME Locking, Keyed, NEW w \in Syncs, Upserts!Rename(w) PROVE Keyed'
<1> DEFINE t == writer[w]
           old == Upserts!Sees(w)[t.row]
           row == [old EXCEPT !.slug = t.slug]
           u == [t EXCEPT !.step = "upsert"]
           v == [t EXCEPT !.step = "keep"]
<1>1. /\ t = Transaction(t) /\ UNCHANGED <<db, skips, dropped, everLinked>>
      /\ t.step = "rename" /\ t.id \in Ids /\ DOMAIN pending[w] = {}
    BY Underway DEF Upserts!Rename, Upserts!Kept, Keyed, Writing
<1>2. t.row \in DOMAIN Upserts!Sees(w) /\ ~Upserts!HeldRow(w, t.row) /\ ~Upserts!HeldSlug(w, t.slug)
    BY DEF Upserts!Rename, Locking, RowFound
<1>3. CASE Upserts!Named(Upserts!Sees(w), t.slug) \subseteq {t.row}
  <2>1. Upserts!Put(w, t.row, row) /\ writer' = [writer EXCEPT ![w] = u]
      BY <1>3 DEF Upserts!Rename, Upserts!Step
  <2>2. u.step = "upsert" /\ u.id = t.id /\ u.row = t.row /\ u.slug = t.slug
      BY <1>1 DEF Transaction
  <2>3. old = Row(old)
      BY <1>2, SeenRows DEF Locking, Table
  <2>4. row.slug = t.slug /\ row.link = old.link
      BY <2>3 DEF Row
  <2>5. ASSUME NEW q \in DOMAIN Upserts!Sees(w), q # t.row PROVE Differ(row, Upserts!Sees(w)[q])
    <3>1. Upserts!Sees(w)[q].slug # t.slug
        BY <1>3, <2>5 DEF Upserts!Named
    <3> QED BY <1>2, <2>4, <2>5, <3>1, KeysAsSeen DEF Differ
  <2>6. ASSUME NEW o \in Syncs \ {w}, NEW q \in DOMAIN pending[o] PROVE Differ(row, pending[o][q])
    <3>1. pending[o][q].slug # t.slug
        BY <1>2 DEF Upserts!HeldSlug
    <3> QED BY <1>2, <2>4, <3>1, KeysAsSeen DEF Differ
  <2>7. t.row \in DOMAIN db => row.link = db[t.row].link \/ db[t.row].link \in Replaceable
      BY <1>2, <2>4, KeysAsSeen
  <2> HIDE DEF u, row, t, old
  <2> QED BY <1>1, <2>1, <2>2, <2>4, <2>5, <2>6, <2>7, IdsByWriting
<1>4. CASE ~(Upserts!Named(Upserts!Sees(w), t.slug) \subseteq {t.row})
  <2>1. writer' = [writer EXCEPT ![w] = v] /\ UNCHANGED pending
      BY <1>4 DEF Upserts!Rename, Upserts!Step
  <2>2. v.step = "keep" /\ v.id = t.id
      BY <1>1 DEF Transaction
  <2> HIDE DEF v
  <2> QED BY <1>1, <2>1, <2>2, IdsByMoving
<1> QED BY <1>3, <1>4

LEMMA IdsByUpsert == ASSUME Locking, Keyed, NEW w \in Syncs, Upserts!Upsert(w) PROVE Keyed'
<1> DEFINE t == writer[w]
           named == Upserts!Named(Upserts!Sees(w), t.slug)
           r == IF named = {} THEN Upserts!Free(Upserts!Sees(w)) ELSE Upserts!Only(named)
           seen == Upserts!Sees(w)[r]
           new == [slug |-> t.slug, link |-> Upserts!NoId, title |-> t.title, locks |-> {}]
           old == [seen EXCEPT !.title = Upserts!NewTitle(t, seen)]
           row == IF named = {} THEN new ELSE old
           u == [t EXCEPT !.row = r, !.step = "candidates"]
<1>1. /\ t = Transaction(t) /\ UNCHANGED <<db, skips, dropped, everLinked>>
      /\ t.step = "upsert" /\ t.id \in Ids /\ ~Upserts!HeldSlug(w, t.slug)
      /\ \A q \in DOMAIN pending[w] : pending[w][q].slug = t.slug
    BY Underway DEF Upserts!Upsert, Upserts!Kept, Keyed, Writing
<1>2. Upserts!Put(w, r, row) /\ writer' = [writer EXCEPT ![w] = u] /\ ~Upserts!HeldRow(w, r)
    BY DEF Upserts!Upsert, Upserts!Step
<1>3. u.step = "candidates" /\ u.id = t.id /\ u.row = r
  <2>1. u = [t EXCEPT !.row = r, !.step = "candidates"]
      OBVIOUS
  <2> HIDE DEF u, t, r
  <2> QED BY <1>1, <2>1 DEF Transaction
<1>4. CASE named = {}
  <2>1. r \in Upserts!FreeIds(Upserts!Sees(w))
      BY <1>4 DEF Upserts!Upsert, Upserts!Free, Upserts!Only
  <2>2. r \notin DOMAIN Upserts!Sees(w) /\ r \notin DOMAIN db
      BY <2>1, SeenRows DEF Upserts!FreeIds
  <2>3. row.slug = t.slug /\ row.link = Upserts!NoId
      BY <1>4
  <2>4. \A q \in DOMAIN Upserts!Sees(w) : Differ(row, Upserts!Sees(w)[q])
      BY <1>4, <2>3 DEF Upserts!Named, Differ
  <2>5. \A o \in Syncs \ {w} : \A q \in DOMAIN pending[o] : Differ(row, pending[o][q])
      BY <1>1, <2>3 DEF Upserts!HeldSlug, Differ
  <2>6. DOMAIN pending[w] = {}
      BY <1>1, <1>4, SeenRows DEF Upserts!Named
  <2> HIDE DEF u, row, r, t
  <2> QED BY <1>1, <1>2, <1>3, <2>2, <2>4, <2>5, <2>6, IdsByWriting
<1>5. CASE named # {}
  <2>1. r \in DOMAIN Upserts!Sees(w) /\ seen.slug = t.slug
      BY <1>5 DEF Upserts!Only, Upserts!Named
  <2>2. seen = Row(seen)
      BY <2>1, SeenRows DEF Locking, Table
  <2>3. row.slug = seen.slug /\ row.link = seen.link
    <3> DEFINE title == Upserts!NewTitle(t, seen)
    <3>1. row = [seen EXCEPT !.title = title]
        BY <1>5
    <3> HIDE DEF seen, title, row
    <3> QED BY <2>2, <3>1 DEF Row
  <2>4. \A q \in DOMAIN Upserts!Sees(w) : q # r => Differ(row, Upserts!Sees(w)[q])
      BY <1>2, <2>1, <2>3, KeysAsSeen DEF Differ
  <2>5. \A o \in Syncs \ {w} : \A q \in DOMAIN pending[o] : Differ(row, pending[o][q])
      BY <1>2, <2>1, <2>3, KeysAsSeen DEF Differ
  <2>6. r \in DOMAIN db => row.link = db[r].link \/ db[r].link \in Replaceable
      BY <1>2, <2>1, <2>3, KeysAsSeen
  <2>7. DOMAIN pending[w] \subseteq {r}
    <3>1. ASSUME NEW q \in DOMAIN pending[w], q # r PROVE FALSE
      <4>1. q \in DOMAIN Upserts!Sees(w) /\ Upserts!Sees(w)[q].slug = t.slug
          BY <1>1, SeenRows
      <4> QED BY <1>2, <2>1, <3>1, <4>1, KeysAsSeen DEF Differ
    <3> QED BY <3>1
  <2> HIDE DEF u, row, r, t, seen
  <2> QED BY <1>1, <1>2, <1>3, <2>4, <2>5, <2>6, <2>7, IdsByWriting
<1> QED BY <1>4, <1>5

LEMMA IdsByReadCandidates ==
    ASSUME Locking, Keyed, Upserts!NoId \notin Ids, NEW w \in Syncs, Upserts!ReadCandidates(w)
    PROVE  Keyed'
<1> DEFINE t == writer[w]
           holder == Upserts!LinkedTo(Upserts!Sees(w), t.id)
           held == Upserts!Sees(w)[t.row].link
           next == IF holder = {} THEN "link" ELSE "commit"
           u == [t EXCEPT !.step = next]
<1>1. /\ t = Transaction(t) /\ UNCHANGED <<db, pending, everLinked>>
      /\ t.step = "candidates" /\ t.id \in Ids /\ DOMAIN pending[w] = {t.row}
    BY Underway DEF Upserts!ReadCandidates, Keyed, Writing
<1>2. writer' = [writer EXCEPT ![w] = u]
    BY DEF Upserts!ReadCandidates, Upserts!Step
<1>3. u.step = next /\ u.id = t.id /\ u.row = t.row /\ next \in {"link", "commit"}
    BY <1>1 DEF Transaction
<1>4. /\ skips' = IF holder \subseteq {t.row} THEN skips ELSE skips + 1
      /\ dropped' = IF holder = {} /\ held # Upserts!NoId THEN dropped \cup {held} ELSE dropped
    BY DEF Upserts!ReadCandidates, Upserts!CountSkip
<1>5. t.row \in DOMAIN Upserts!Sees(w) /\ Upserts!Sees(w)[t.row] = pending[w][t.row]
    BY <1>1, SeenRows
<1>6. writer'[w] = u /\ \A o \in Syncs \ {w} : writer'[o] = writer[o] /\ pending'[o] = pending[o]
    BY <1>1, <1>2 DEF Locking, Shaped
<1>7. dropped \subseteq dropped'
    BY <1>4
<1>8. Unique'
  <2>1. \A o \in Syncs : Upserts!Sees(o)' = Upserts!Sees(o)
      BY <1>1 DEF Upserts!Sees
  <2> QED BY <1>1, <2>1 DEF Keyed, Unique, Apart
<1>9. Writing(w)'
  <2>1. next = "link" => pending[w][t.row].link \in Replaceable'
      BY <1>4, <1>5 DEF Replaceable
  <2>2. \A r \in DOMAIN pending[w] : r \in DOMAIN db =>
            pending[w][r].link = db[r].link \/ db[r].link \in Replaceable'
      BY <1>7 DEF Keyed, Writing, Replaceable
  <2> HIDE DEF u, next, holder
  <2> QED BY <1>1, <1>3, <1>6, <2>1, <2>2 DEF Writing
<1>10. \A o \in Syncs : Writing(o)'
    BY <1>1, <1>6, <1>7, <1>9, OthersWrite DEF Keyed
<1>11. Counted'
  <2>1. CASE holder \subseteq {t.row}
    <3>1. next = "commit" => Upserts!LinkedTo(pending'[w], Upserts!NoId) = {}
      <4>1. CASE holder = {}
          BY <4>1
      <4>2. CASE holder # {}
        <5>1. pending[w][t.row].link = t.id
            BY <1>5, <2>1, <4>2 DEF Upserts!LinkedTo
        <5> QED BY <1>1, <5>1 DEF Upserts!LinkedTo
      <4> QED BY <4>1, <4>2
    <3>2. u.step = "commit" => Upserts!LinkedTo(pending'[w], Upserts!NoId) = {}
        BY <1>3, <3>1
    <3>3. Counted /\ skips' = skips
        BY <1>4, <2>1 DEF Keyed
    <3> HIDE DEF u, next, holder
    <3>4. Unlinked' \cup Coming' \subseteq Unlinked \cup Coming
        BY <1>1, <1>6, <3>2, ComingLess
    <3> QED BY <3>3, <3>4, CountedLess
  <2>2. CASE ~(holder \subseteq {t.row})
    <3>1. Unlinked' = Unlinked
        BY <1>1 DEF Unlinked, Upserts!LinkedTo
    <3>2. ASSUME NEW r \in Coming' PROVE r \in Coming \cup {t.row}
      <4>1. PICK o \in Syncs : writer'[o].step = "commit" /\ r \in Upserts!LinkedTo(pending'[o], Upserts!NoId)
          BY <3>2 DEF Coming, Upserts!LinkedTo
      <4>2. CASE o = w
          BY <1>1, <4>1, <4>2 DEF Upserts!LinkedTo
      <4>3. CASE o # w
          BY <1>6, <4>1, <4>3 DEF Coming
      <4> QED BY <4>2, <4>3
    <3>3. skips' = skips + 1 /\ Counted
        BY <1>4, <2>2 DEF Keyed
    <3>4. Unlinked' \cup Coming' \subseteq (Unlinked \cup Coming) \cup {t.row}
        BY <3>1, <3>2
    <3> HIDE DEF t
    <3> QED BY <3>3, <3>4, CountedOne
  <2> QED BY <2>1, <2>2
<1> QED BY <1>1, <1>7, <1>8, <1>10, <1>11, RecordedStays DEF Keyed

\* A transaction ends and nothing it wrote remains.
LEMMA IdsByRollback ==
    ASSUME Locking, Keyed, NEW w \in Syncs,
           writer' = [writer EXCEPT ![w] = Upserts!Idle],
           pending' = [pending EXCEPT ![w] = [r \in {} |-> {}]],
           UNCHANGED <<db, skips, dropped, everLinked>>
    PROVE  Keyed'
<1>1. /\ \A o \in Syncs \ {w} : writer'[o] = writer[o] /\ pending'[o] = pending[o]
      /\ writer'[w] = Upserts!Idle /\ DOMAIN pending'[w] = {}
    BY DEF Locking, Shaped
<1>2. Unique'
    BY UniqueByRollback DEF Keyed
<1>3. \A o \in Syncs : Writing(o)'
    BY <1>1, WritingOfIdle, OthersWrite DEF Keyed
<1>4. Counted'
  <2>1. Upserts!LinkedTo(pending'[w], Upserts!NoId) = {}
      BY <1>1 DEF Upserts!LinkedTo
  <2> QED BY <1>1, <2>1, ComingLess, CountedLess DEF Keyed
<1> QED BY <1>2, <1>3, <1>4, RecordedStays DEF Keyed

LEMMA IdsByLink ==
    ASSUME Locking, Keyed, Upserts!NoId \notin Ids, NEW w \in Syncs, Upserts!Link(w)
    PROVE  Keyed'
<1> DEFINE t == writer[w]
           old == Upserts!Sees(w)[t.row]
           row == [old EXCEPT !.link = t.id]
           u == [t EXCEPT !.step = "commit"]
<1>1. /\ t = Transaction(t) /\ UNCHANGED <<db, skips, dropped, everLinked>>
      /\ t.step = "link" /\ t.id \in Ids /\ DOMAIN pending[w] = {t.row}
      /\ pending[w][t.row].link \in Replaceable
    BY Underway DEF Upserts!Link, Upserts!Kept, Keyed, Writing
<1>2. /\ t.row \in DOMAIN Upserts!Sees(w) /\ ~Upserts!HeldRow(w, t.row) /\ ~Upserts!HeldLink(w, t.id)
      /\ old = pending[w][t.row]
    BY <1>1, SeenRows DEF Upserts!Link
<1>3. CASE Upserts!LinkedTo(Upserts!Sees(w), t.id) \subseteq {t.row}
  <2>1. Upserts!Put(w, t.row, row) /\ writer' = [writer EXCEPT ![w] = u]
      BY <1>3 DEF Upserts!Link, Upserts!Step
  <2>2. u.step = "commit" /\ u.id = t.id /\ u.row = t.row
      BY <1>1 DEF Transaction
  <2>3. old = Row(old)
      BY <1>2, SeenRows DEF Locking, Table
  <2>4. row.slug = old.slug /\ row.link = t.id
      BY <2>3 DEF Row
  <2>5. ASSUME NEW q \in DOMAIN Upserts!Sees(w), q # t.row PROVE Differ(row, Upserts!Sees(w)[q])
    <3>1. Upserts!Sees(w)[q].link # t.id
        BY <1>3, <2>5 DEF Upserts!LinkedTo
    <3> QED BY <1>2, <2>4, <2>5, <3>1, KeysAsSeen DEF Differ
  <2>6. ASSUME NEW o \in Syncs \ {w}, NEW q \in DOMAIN pending[o] PROVE Differ(row, pending[o][q])
    <3>1. pending[o][q].link # t.id
        BY <1>2 DEF Upserts!HeldLink
    <3> QED BY <1>2, <2>4, <3>1, KeysAsSeen DEF Differ
  <2>7. t.row \in DOMAIN db => row.link = db[t.row].link \/ db[t.row].link \in Replaceable
      BY <1>1, <1>2, KeysAsSeen
  <2>8. row.link # Upserts!NoId
      BY <1>1, <2>4
  <2> HIDE DEF u, row, t, old
  <2> QED BY <1>1, <2>1, <2>2, <2>5, <2>6, <2>7, <2>8, IdsByWriting
<1>4. CASE ~(Upserts!LinkedTo(Upserts!Sees(w), t.id) \subseteq {t.row})
    BY <1>1, <1>4, IdsByRollback DEF Upserts!Link, Upserts!Step
<1> QED BY <1>3, <1>4

LEMMA IdsByCommit == ASSUME Locking, Keyed, NEW w \in Syncs, Upserts!Commit(w) PROVE Keyed'
<1>1. /\ \A o \in Syncs \ {w} : writer'[o] = writer[o] /\ pending'[o] = pending[o]
      /\ writer'[w] = Upserts!Idle /\ DOMAIN pending'[w] = {}
      /\ db' = Upserts!Sees(w) /\ UNCHANGED <<skips, dropped>> /\ writer[w].step = "commit"
      /\ everLinked' = everLinked \cup ({Upserts!Sees(w)[r].link : r \in DOMAIN Upserts!Sees(w)} \ {Upserts!NoId})
    BY DEF Upserts!Commit, Upserts!Step, Locking, Shaped
<1>2. Unique'
    BY UniqueByCommit DEF Keyed
<1>3. ASSUME NEW o \in Syncs PROVE Writing(o)'
  <2>1. CASE o = w
      BY <1>1, <2>1, WritingOfIdle
  <2>2. CASE o # w
    <3>1. ASSUME NEW r \in DOMAIN pending[o], r \in DOMAIN db'
          PROVE  r \in DOMAIN db /\ db'[r].link = db[r].link
      <4>1. r \notin DOMAIN pending[w]
          BY <2>2, <3>1 DEF Locking, Exclusive
      <4>2. db' = Upserts!Sees(w)
          BY <1>1
      <4>3. r \in DOMAIN Upserts!Sees(w)
          BY <3>1, <4>2
      <4>4. r \in DOMAIN db /\ Upserts!Sees(w)[r] = db[r]
          BY <4>1, <4>3, SeenRows
      <4> QED BY <4>2, <4>4
    <3> QED BY <1>1, <2>2, <3>1, WritingStays DEF Keyed
  <2> QED BY <2>1, <2>2
<1>4. Counted'
  <2>1. ASSUME NEW r \in Unlinked' PROVE r \in Unlinked \cup Coming
    <3>1. r \in DOMAIN Upserts!Sees(w) /\ Upserts!Sees(w)[r].link = Upserts!NoId
        BY <1>1, <2>1 DEF Unlinked, Upserts!LinkedTo
    <3>2. CASE r \in DOMAIN pending[w]
      <4>1. r \in Upserts!LinkedTo(pending[w], Upserts!NoId)
          BY <3>1, <3>2, SeenRows DEF Upserts!LinkedTo
      <4> QED BY <1>1, <4>1 DEF Coming
    <3>3. CASE r \notin DOMAIN pending[w]
        BY <3>1, <3>3, SeenRows DEF Unlinked, Upserts!LinkedTo
    <3> QED BY <3>2, <3>3
  <2>2. ASSUME NEW r \in Coming' PROVE r \in Coming
    <3>1. PICK o \in Syncs : writer'[o].step = "commit" /\ r \in Upserts!LinkedTo(pending'[o], Upserts!NoId)
        BY <2>2 DEF Coming, Upserts!LinkedTo
    <3>2. o # w
        BY <1>1, <3>1 DEF Upserts!Idle
    <3> QED BY <1>1, <3>1, <3>2 DEF Coming
  <2> QED BY <1>1, <2>1, <2>2, CountedLess DEF Keyed
<1>5. Recorded'
  <2>1. ASSUME NEW id \in everLinked' PROVE id # Upserts!NoId /\ (Upserts!LinkedTo(db', id) # {} \/ id \in dropped)
    <3>1. CASE id \in everLinked
      <4>1. id # Upserts!NoId /\ (Upserts!LinkedTo(db, id) # {} \/ id \in dropped)
          BY <3>1 DEF Keyed, Recorded, Upserts!LostIdentitiesAreRecorded
      <4>2. ASSUME NEW r \in Upserts!LinkedTo(db, id) PROVE Upserts!LinkedTo(db', id) # {} \/ id \in dropped
        <5>1. r \in DOMAIN db /\ db[r].link = id /\ r \in DOMAIN Upserts!Sees(w)
            BY SeenRows DEF Upserts!LinkedTo
        <5>2. CASE r \in DOMAIN pending[w]
          <6>1. Upserts!Sees(w)[r] = pending[w][r]
              BY <5>1, <5>2, SeenRows
          <6>2. pending[w][r].link = id \/ id \in Replaceable
              BY <5>1, <5>2 DEF Keyed, Writing
          <6> QED BY <1>1, <4>1, <5>1, <6>1, <6>2 DEF Upserts!LinkedTo, Replaceable
        <5>3. CASE r \notin DOMAIN pending[w]
            BY <1>1, <5>1, <5>3, SeenRows DEF Upserts!LinkedTo
        <5> QED BY <5>2, <5>3
      <4> QED BY <4>1, <4>2
    <3>2. CASE id \notin everLinked
        BY <1>1, <2>1, <3>2 DEF Upserts!LinkedTo
    <3> QED BY <3>1, <3>2
  <2> QED BY <1>1, <2>1 DEF Recorded, Upserts!LostIdentitiesAreRecorded
<1> QED BY <1>2, <1>3, <1>4, <1>5 DEF Keyed

LEMMA IdsByWriteItem ==
    ASSUME Locking, Keyed, NEW a \in Admins, Upserts!WriteItem(a) PROVE Keyed'
<1> DEFINE e == edit[a]
           locks == Upserts!NewLocks(e)
           title == IF e.field = "title" THEN "edited" ELSE db[e.row].title
<1>1. e.row \in DOMAIN db
    BY DEF Upserts!WriteItem, Locking, Shaped, Upserts!Idle
<1>2. /\ UNCHANGED <<pending, writer, skips, dropped, everLinked>>
      /\ db' = [db EXCEPT ![e.row].locks = locks,
                          ![e.row].title = IF e.field = "title" THEN "edited" ELSE @]
    BY DEF Upserts!WriteItem
<1>3. db[e.row] = Row(db[e.row])
    BY <1>1 DEF Locking, Shaped, Table
<1>4. /\ DOMAIN db' = DOMAIN db
      /\ \A r \in DOMAIN db : db'[r].slug = db[r].slug /\ db'[r].link = db[r].link
    BY <1>1, <1>2, <1>3 DEF Row, Locking, Shaped, Table
<1>5. Unique'
    BY <1>2, <1>4, UniqueByEdit DEF Keyed
<1>6. \A o \in Syncs : Writing(o)'
    BY <1>2, <1>4, WritingStays DEF Keyed
<1>7. \A id : Upserts!LinkedTo(db, id)' = Upserts!LinkedTo(db, id)
    BY <1>4 DEF Upserts!LinkedTo
<1>8. Counted'
  <2>1. Unlinked' = Unlinked /\ Coming' = Coming
      BY <1>2, <1>7 DEF Unlinked, Coming, Upserts!LinkedTo
  <2> QED BY <1>2, <2>1 DEF Keyed, Counted
<1>9. Recorded'
    BY <1>2, <1>7 DEF Keyed, Recorded, Upserts!LostIdentitiesAreRecorded
<1> QED BY <1>5, <1>6, <1>8, <1>9 DEF Keyed

LEMMA IdsUnchanged ==
    ASSUME Keyed, UNCHANGED <<db, pending, writer, skips, dropped, everLinked>>
    PROVE  Keyed'
<1>1. Unique'
  <2>1. \A o \in Syncs : Upserts!Sees(o)' = Upserts!Sees(o)
      BY DEF Upserts!Sees
  <2> QED BY <2>1 DEF Keyed, Unique, Apart
<1>2. \A o \in Syncs : Writing(o)'
    BY DEF Keyed, Writing, Replaceable
<1>3. Counted' /\ Recorded'
  <2>1. Unlinked' = Unlinked /\ Coming' = Coming
      BY DEF Unlinked, Coming, Upserts!LinkedTo
  <2> QED BY <2>1 DEF Keyed, Counted, Recorded, Upserts!LostIdentitiesAreRecorded, Upserts!LinkedTo
<1> QED BY <1>1, <1>2, <1>3 DEF Keyed

LEMMA IdsInit == Upserts!Init => Keyed
<1> SUFFICES ASSUME Upserts!Init PROVE Keyed
    OBVIOUS
<1>1. PICK ids \in UNION {[n -> {Upserts!NoId} \cup Ids] : n \in {{}, {1}}}, slug \in Slugs :
          /\ db = [r \in DOMAIN ids |-> [slug |-> slug, link |-> ids[r], title |-> "old", locks |-> {}]]
          /\ skips = Cardinality(Upserts!LinkedTo(db, Upserts!NoId))
          /\ everLinked = {ids[r] : r \in DOMAIN ids} \ {Upserts!NoId}
    BY SameWritersCount DEF Upserts!Init
<1>2. PICK n \in {{}, {1}} : ids \in [n -> {Upserts!NoId} \cup Ids]
    OBVIOUS
<1>3. DOMAIN db = n /\ DOMAIN db \subseteq {1} /\ \A r \in DOMAIN db : db[r].link = ids[r]
    BY <1>1, <1>2
<1>4. \A w \in Syncs : writer[w] = Upserts!Idle /\ DOMAIN pending[w] = {}
    BY DEF Upserts!Init
<1>5. \A w \in Syncs : DOMAIN Upserts!Sees(w) \subseteq {1}
    BY <1>3, <1>4 DEF Upserts!Sees
<1>6. Unique
    BY <1>3, <1>4, <1>5 DEF Unique, Apart
<1>7. \A w \in Syncs : Writing(w)
    BY <1>4 DEF Writing, Upserts!Idle
<1>8. Counted
  <2>1. Coming = {}
      BY <1>4 DEF Coming, Upserts!Idle
  <2>2. Unlinked \cup Coming = Upserts!LinkedTo(db, Upserts!NoId) /\ Upserts!LinkedTo(db, Upserts!NoId) \subseteq {1}
      BY <1>3, <2>1 DEF Unlinked, Upserts!LinkedTo
  <2>3. IsFiniteSet(Upserts!LinkedTo(db, Upserts!NoId)) /\ Cardinality(Upserts!LinkedTo(db, Upserts!NoId)) \in Nat
      BY <2>2, FS_Singleton, FS_Subset, FS_CardinalityType
  <2>4. skips = Cardinality(Upserts!LinkedTo(db, Upserts!NoId)) /\ skips =< skips
      BY <1>1, <2>3
  <2>5. IsFiniteSet(Unlinked \cup Coming) /\ Cardinality(Unlinked \cup Coming) = skips
      BY <2>2, <2>3, <2>4
  <2> QED BY <2>3, <2>4, <2>5 DEF Counted
<1>9. Recorded
    BY <1>1, <1>3 DEF Recorded, Upserts!LostIdentitiesAreRecorded, Upserts!LinkedTo
<1> QED BY <1>6, <1>7, <1>8, <1>9 DEF Keyed

LEMMA IdsStep ==
    ASSUME Upserts!NoId \notin Ids, Locking, Keyed, [Upserts!Next]_Upserts!vars
    PROVE  Keyed'
<1>1. CASE UNCHANGED Upserts!vars
    BY <1>1, IdsUnchanged DEF Upserts!vars
<1>2. ASSUME NEW w \in Syncs, Upserts!Begin(w) \/ Upserts!Align(w) \/ Upserts!KeepCurrent(w) \/ Upserts!ReadOwner(w)
      PROVE  Keyed'
    BY <1>2, IdsByBegin, IdsByAlign, IdsByKeepCurrent, IdsByReadOwner
<1>3. ASSUME NEW w \in Syncs, Upserts!Rename(w) \/ Upserts!Upsert(w) \/ Upserts!ReadCandidates(w) \/ Upserts!Link(w)
      PROVE  Keyed'
    BY <1>3, IdsByRename, IdsByUpsert, IdsByReadCandidates, IdsByLink
<1>4. ASSUME NEW w \in Syncs, Upserts!Commit(w) \/ Upserts!Abort(w) PROVE Keyed'
    BY <1>4, IdsByCommit, IdsByRollback DEF Upserts!Abort, Upserts!Step
<1>5. ASSUME NEW a \in Admins, Upserts!ReadItem(a) \/ Upserts!WriteItem(a) PROVE Keyed'
    BY <1>5, IdsUnchanged, IdsByWriteItem DEF Upserts!ReadItem
<1> QED BY <1>1, <1>2, <1>3, <1>4, <1>5 DEF Upserts!Next

LEMMA KeyedImplies ==
    ASSUME Locking, Keyed
    PROVE  Upserts!OrphansAreCounted /\ Upserts!LostIdentitiesAreRecorded
<1>1. /\ IsFiniteSet(Unlinked) /\ Cardinality(Unlinked) \in Nat
      /\ Cardinality(Unlinked \cup Coming) \in Nat
      /\ Cardinality(Unlinked) =< Cardinality(Unlinked \cup Coming)
  <2>1. Unlinked \subseteq Unlinked \cup Coming /\ IsFiniteSet(Unlinked \cup Coming)
    BY DEF Keyed, Counted
  <2>2. IsFiniteSet(Unlinked) /\ Cardinality(Unlinked) =< Cardinality(Unlinked \cup Coming)
    BY <2>1, FS_Subset
  <2>3. QED
    BY <2>1, <2>2, FS_CardinalityType
<1>2. Cardinality(Unlinked) =< skips
  BY <1>1 DEF Keyed, Counted
<1>3. Upserts!OrphansAreCounted
  BY <1>2, SameWritersCount
     DEF Upserts!OrphansAreCounted, Unlinked, Upserts!LinkedTo, Keyed, Unique, Apart, Differ
<1>4. QED
  BY <1>3 DEF Keyed, Recorded


(***************************************************************************)
(* Whatever writers overlap, a slug or an external id leads to one row, a  *)
(* row left without its id was counted (record_link_skip) and an id that   *)
(* lost its row was recorded (record_identity_skip).                       *)
(***************************************************************************)
THEOREM IdentitiesAreKept == Spec => []IdentitiesAreAccounted
<1> DEFINE Here == part = "writers"
           Good == Locking /\ Keyed
<1>1. Upserts!NoId \notin Ids
  BY IdsAssumption DEF Upserts!NoId
<1>2. Init /\ Here => Good
  BY <1>1, LockingInit, IdsInit DEF Init
<1>3. [Next]_vars /\ Here /\ Good => Good' /\ Here'
  <2>1. [Next]_vars /\ Here => [Upserts!Next]_Upserts!vars /\ Here'
    BY UpsertsStutter DEF Next, vars
  <2>2. QED
    BY <1>1, <2>1, LockingStep, IdsStep
<1>4. [Next]_vars /\ ~Here => ~Here'
  BY DEF Next, vars
<1>5. (Here => Good) => IdentitiesAreAccounted
  BY KeyedImplies DEF IdentitiesAreAccounted
<1> HIDE DEF Here, Good
<1>6. QED
  BY <1>2, <1>3, <1>4, <1>5, PTL DEF Spec

-----------------------------------------------------------------------------
(* The community: acknowledged reports.                                     *)

LEMMA SameCount == \A S : Community!Cardinality(S) = Cardinality(S)
BY DEF Community!Cardinality, Cardinality

\* Ids are given once: a report cannot come to stand for a later review, nor for two.
Identified ==
    /\ nextReview \in Nat \ {0}
    /\ reviews \in [Users \X Items -> [id : Nat, content : BOOLEAN]]
    /\ \A e \in Users \X Items : reviews[e].id < nextReview
    /\ \A e, f \in Users \X Items :
          reviews[e].id = reviews[f].id /\ reviews[e].id # 0 => e = f

Report(r) == [reporter |-> r.reporter, review |-> r.review, status |-> r.status]

Acknowledged ==
    /\ \A r \in reports : r = Report(r)
    /\ \A a \in answered : a[2] \in Nat /\ a[2] < nextReview
    /\ \A r \in reports : r.review \in Nat /\ r.review < nextReview

Filing == Identified /\ Acknowledged /\ Community!ReportsAreKept

\* All that the invariant speaks of.
filing == <<users, reviews, nextReview, reports, audit, answered>>

LEMMA FilingUnchanged ==
    ASSUME Filing, UNCHANGED filing
    PROVE  Filing'
BY DEF Filing, Identified, Acknowledged, Report, Community!ReportsAreKept, filing,
       Community!Filed, Community!ReviewIds, Community!Audited

LEMMA FilingInit == Community!Init => Filing
<1> SUFFICES ASSUME Community!Init PROVE Filing
    OBVIOUS
<1>1. Identified
    BY DEF Community!Init, Identified, Community!NoReview
<1>2. Acknowledged /\ Community!ReportsAreKept
    BY DEF Community!Init, Acknowledged, Community!ReportsAreKept
<1> QED BY <1>1, <1>2 DEF Filing

LEMMA Existing ==
    ASSUME Identified, NEW id
    PROVE  id \in Community!ReviewIds <=> id # 0 /\ \E e \in Users \X Items : reviews[e].id = id
<1>1. DOMAIN reviews = Users \X Items
    BY DEF Identified
<1> QED BY <1>1 DEF Community!ReviewIds

LEMMA ExistingNext ==
    ASSUME Identified', NEW id
    PROVE  id \in Community!ReviewIds' <=> id # 0 /\ \E e \in Users \X Items : reviews'[e].id = id
<1>1. DOMAIN reviews' = Users \X Items
    BY DEF Identified
<1> QED BY <1>1 DEF Community!ReviewIds

LEMMA FilingByRateItem ==
    ASSUME Filing, NEW u \in Users, NEW i \in Items, NEW content \in BOOLEAN,
           Community!RateItem(u, i, content)
    PROVE  Filing'
<1> DEFINE old == reviews[<<u, i>>]
           id == IF old.id = 0 THEN nextReview ELSE old.id
<1>1. /\ reviews' = [reviews EXCEPT ![<<u, i>>] = [id |-> id, content |-> content]]
      /\ nextReview' = IF old.id = 0 THEN nextReview + 1 ELSE nextReview
      /\ UNCHANGED <<reports, audit, users, answered>>
    BY DEF Community!RateItem, Community!ghosts, Community!counters
<1>2. <<u, i>> \in Users \X Items /\ old.id \in Nat /\ old.id < nextReview /\ id \in Nat
    BY DEF Filing, Identified
<1>3. nextReview' \in Nat \ {0} /\ nextReview =< nextReview' /\ id < nextReview'
    BY <1>1, <1>2 DEF Filing, Identified
<1>4. reviews' \in [Users \X Items -> [id : Nat, content : BOOLEAN]]
    BY <1>1, <1>2 DEF Filing, Identified
<1>5. \A e \in Users \X Items : reviews'[e].id = IF e = <<u, i>> THEN id ELSE reviews[e].id
    BY <1>1, <1>2 DEF Filing, Identified
<1>6. Identified'
  <2>1. \A e \in Users \X Items : reviews'[e].id < nextReview'
      BY <1>3, <1>5 DEF Filing, Identified
  <2>2. ASSUME NEW e \in Users \X Items, NEW f \in Users \X Items,
               reviews'[e].id = reviews'[f].id, reviews'[e].id # 0
        PROVE  e = f
      BY <1>2, <1>5, <2>2 DEF Filing, Identified
  <2> QED BY <1>3, <1>4, <2>1, <2>2 DEF Identified
<1>7. Acknowledged'
    BY <1>1, <1>3 DEF Filing, Identified, Acknowledged, Report
<1>8. Community!ReportsAreKept'
  <2>1. ASSUME NEW a \in answered, a[1] \in users, a[2] \in Community!ReviewIds'
        PROVE  Community!Filed(a[1], a[2])' # {}
    <3>1. a[2] # 0 /\ \E e \in Users \X Items : reviews'[e].id = a[2]
        BY <1>6, <2>1, ExistingNext
    <3>2. a[2] \in Nat /\ a[2] < nextReview
        BY DEF Filing, Acknowledged
    <3>3. \E e \in Users \X Items : reviews[e].id = a[2]
        BY <1>2, <1>5, <3>1, <3>2 DEF Filing, Identified
    <3>4. a[2] \in Community!ReviewIds
        BY <3>1, <3>3, Existing DEF Filing
    <3> QED BY <1>1, <2>1, <3>4 DEF Filing, Community!ReportsAreKept, Community!Filed
  <2> QED BY <1>1, <2>1 DEF Filing, Community!ReportsAreKept, Community!Audited
<1> QED BY <1>6, <1>7, <1>8 DEF Filing

\* Reviews that go take exactly their own reports with them.
LEMMA FilingByRemoval ==
    ASSUME Filing,
           NEW gone \in SUBSET (Users \X Items), NEW leavers,
           reviews' = [e \in DOMAIN reviews |->
                          IF e \in gone THEN Community!NoReview ELSE reviews[e]],
           users' = users \ leavers,
           reports' = {r \in reports : r.reporter \notin leavers
                                       /\ r.review \notin {reviews[e].id : e \in gone} \ {0}},
           UNCHANGED <<nextReview, audit, answered>>
    PROVE  Filing'
<1>1. DOMAIN reviews = Users \X Items
    BY DEF Filing, Identified
<1>2. \A e \in Users \X Items : reviews'[e] = IF e \in gone THEN Community!NoReview ELSE reviews[e]
    BY <1>1
<1>3. Identified'
    BY <1>1, <1>2 DEF Filing, Identified, Community!NoReview
<1>4. Acknowledged'
    BY DEF Filing, Acknowledged, Report
<1>5. Community!ReportsAreKept'
  <2>1. ASSUME NEW a \in answered, a[1] \in users', a[2] \in Community!ReviewIds'
        PROVE  Community!Filed(a[1], a[2])' # {}
    <3>1. PICK e \in Users \X Items : reviews'[e].id = a[2]
        BY <1>3, <2>1, ExistingNext
    <3>2. a[2] # 0
        BY <1>3, <2>1, ExistingNext
    <3>3. e \notin gone /\ reviews[e].id = a[2]
        BY <1>2, <3>1, <3>2 DEF Community!NoReview
    <3>4. a[2] \in Community!ReviewIds
        BY <3>2, <3>3, Existing DEF Filing
    <3>5. a[2] \notin {reviews[f].id : f \in gone} \ {0}
        BY <3>2, <3>3 DEF Filing, Identified
    <3>6. PICK r \in reports : r.reporter = a[1] /\ r.review = a[2]
        BY <2>1, <3>4 DEF Filing, Community!ReportsAreKept, Community!Filed
    <3>7. r \in reports'
        BY <2>1, <3>5, <3>6
    <3> QED BY <3>6, <3>7 DEF Community!Filed
  <2>2. \A r \in reports' : r \in reports
      OBVIOUS
  <2> QED BY <2>1, <2>2 DEF Filing, Community!ReportsAreKept, Community!Audited
<1> QED BY <1>3, <1>4, <1>5 DEF Filing

LEMMA FilingByDeleteRating ==
    ASSUME Filing, NEW u \in Users, NEW i \in Items, Community!DeleteRating(u, i)
    PROVE  Filing'
<1> DEFINE gone == {<<u, i>>}
           nobody == {}
<1>1. gone \in SUBSET (Users \X Items) /\ DOMAIN reviews = Users \X Items
    BY DEF Filing, Identified
<1>2. reviews' = [e \in DOMAIN reviews |-> IF e \in gone THEN Community!NoReview ELSE reviews[e]]
    BY <1>1 DEF Community!DeleteRating, Filing, Identified
<1>3. reviews[<<u, i>>].id # 0 /\ {reviews[e].id : e \in gone} \ {0} = {reviews[<<u, i>>].id}
    BY DEF Community!DeleteRating
<1>4. reports' = {r \in reports : r.reporter \notin nobody
                                  /\ r.review \notin {reviews[e].id : e \in gone} \ {0}}
    BY <1>3 DEF Community!DeleteRating, Community!Cascade
<1>5. users' = users \ nobody /\ UNCHANGED <<nextReview, audit, answered>>
    BY DEF Community!DeleteRating, Community!ghosts, Community!counters
<1> HIDE DEF gone, nobody
<1> QED BY <1>1, <1>2, <1>4, <1>5, FilingByRemoval

LEMMA FilingByDeleteUser ==
    ASSUME Filing, NEW u \in Users, Community!DeleteUser(u)
    PROVE  Filing'
<1> DEFINE gone == {u} \X Items
           ids == {reviews[<<u, i>>].id : i \in Items} \ {0}
<1>1. gone \in SUBSET (Users \X Items) /\ DOMAIN reviews = Users \X Items
    BY DEF Filing, Identified
<1>2. reviews' = [e \in DOMAIN reviews |-> IF e[1] = u THEN Community!NoReview ELSE reviews[e]]
    BY DEF Community!DeleteUser
<1>3. reviews' = [e \in DOMAIN reviews |-> IF e \in gone THEN Community!NoReview ELSE reviews[e]]
  <2>1. \A e \in DOMAIN reviews : e[1] = u <=> e \in gone
      BY <1>1
  <2> QED BY <1>2, <2>1
<1>4. {reviews[e].id : e \in gone} \ {0} = ids
  <2>1. \A e \in gone : \E i \in Items : e = <<u, i>>
      OBVIOUS
  <2>2. \A i \in Items : <<u, i>> \in gone
      OBVIOUS
  <2> HIDE DEF gone
  <2>3. \A e \in gone : reviews[e].id \in {reviews[<<u, i>>].id : i \in Items}
      BY <2>1
  <2>4. \A i \in Items : reviews[<<u, i>>].id \in {reviews[e].id : e \in gone}
      BY <2>2
  <2>5. {reviews[e].id : e \in gone} = {reviews[<<u, i>>].id : i \in Items}
      BY <2>3, <2>4
  <2> QED BY <2>5
<1>5. reports' = {r \in reports : r.reporter # u /\ r.review \notin ids}
    BY DEF Community!DeleteUser
<1>6. reports' = {r \in reports : r.reporter \notin {u}
                                  /\ r.review \notin {reviews[e].id : e \in gone} \ {0}}
    BY <1>4, <1>5
<1>7. users' = users \ {u} /\ UNCHANGED <<nextReview, audit, answered>>
    BY DEF Community!DeleteUser, Community!ghosts, Community!counters
<1> HIDE DEF gone, ids
<1> QED BY <1>1, <1>3, <1>6, <1>7, FilingByRemoval

LEMMA FilingByInsertReport ==
    ASSUME Filing, NEW s \in Slots, Community!InsertReport(s)
    PROVE  Filing'
<1> DEFINE r == requests[s]
           new == [reporter |-> r.user, review |-> r.review, status |-> "open"]
<1>1. UNCHANGED <<users, reviews, nextReview, audit>>
    BY DEF Community!InsertReport, Community!social, Community!counters
<1>2. \/ UNCHANGED <<reports, answered>>
      \/ /\ r.review \in Community!ReviewIds
         /\ reports' = reports \cup {new} /\ answered' = answered \cup {<<r.user, r.review>>}
    BY DEF Community!InsertReport
<1>3. CASE UNCHANGED <<reports, answered>>
    BY <1>1, <1>3, FilingUnchanged DEF filing
<1>4. CASE /\ r.review \in Community!ReviewIds
           /\ reports' = reports \cup {new} /\ answered' = answered \cup {<<r.user, r.review>>}
  <2>1. Identified'
      BY <1>1 DEF Filing, Identified
  <2>2. r.review \in Nat /\ r.review < nextReview
      BY <1>4, Existing DEF Filing, Identified
  <2>3. Acknowledged'
      BY <1>1, <1>4, <2>2 DEF Filing, Acknowledged, Report
  <2>4. Community!ReviewIds' = Community!ReviewIds
      BY <1>1 DEF Community!ReviewIds
  <2>5. \A a \in answered' : a[1] \in users' /\ a[2] \in Community!ReviewIds'
           => Community!Filed(a[1], a[2])' # {}
    <3>1. \A a \in answered : a[1] \in users /\ a[2] \in Community!ReviewIds
             => Community!Filed(a[1], a[2]) # {}
        BY DEF Filing, Community!ReportsAreKept
    <3>2. new \in {q \in reports' : q.reporter = r.user /\ q.review = r.review}
        BY <1>4
    <3> QED BY <1>1, <1>4, <2>4, <3>1, <3>2 DEF Community!Filed
  <2>6. \A q \in reports' : q.status = "resolved" => Community!Audited(q) \in audit'
      BY <1>1, <1>4 DEF Filing, Community!ReportsAreKept, Community!Audited
  <2> QED BY <2>1, <2>3, <2>5, <2>6 DEF Filing, Community!ReportsAreKept, Community!Audited
<1> QED BY <1>2, <1>3, <1>4

LEMMA FilingBySelectExisting ==
    ASSUME Filing, NEW s \in Slots, Community!SelectExisting(s)
    PROVE  Filing'
<1> DEFINE r == requests[s]
<1>1. UNCHANGED <<users, reviews, nextReview, audit, reports>>
    BY DEF Community!SelectExisting, Community!social, Community!counters
<1>2. \/ answered' = answered
      \/ Community!Filed(r.user, r.review) # {} /\ answered' = answered \cup {<<r.user, r.review>>}
    BY DEF Community!SelectExisting
<1>3. CASE answered' = answered
    BY <1>1, <1>3, FilingUnchanged DEF filing
<1>4. CASE /\ Community!Filed(r.user, r.review) # {}
           /\ answered' = answered \cup {<<r.user, r.review>>}
  <2>1. Identified'
      BY <1>1 DEF Filing, Identified
  <2>2. r.review \in Nat /\ r.review < nextReview
      BY <1>4 DEF Filing, Acknowledged, Community!Filed
  <2>3. Acknowledged'
      BY <1>1, <1>4, <2>2 DEF Filing, Acknowledged, Report
  <2>4. Community!ReportsAreKept'
      BY <1>1, <1>4 DEF Filing, Community!ReportsAreKept, Community!Filed, Community!ReviewIds,
                        Community!Audited
  <2> QED BY <2>1, <2>3, <2>4 DEF Filing
<1> QED BY <1>2, <1>3, <1>4

LEMMA FilingByResolveReport ==
    ASSUME Filing, NEW r \in reports, Community!ResolveReport(r)
    PROVE  Filing'
<1> DEFINE done == [r EXCEPT !.status = "resolved"]
<1>1. /\ reports' = (reports \ {r}) \cup {done} /\ audit' = audit \cup {Community!Audited(r)}
      /\ UNCHANGED <<users, reviews, nextReview, answered>>
    BY DEF Community!ResolveReport, Community!social, Community!ghosts, Community!counters
<1>2. r = Report(r)
    BY DEF Filing, Acknowledged
<1>3. done = [reporter |-> r.reporter, review |-> r.review, status |-> "resolved"]
    BY <1>2 DEF Report
<1>4. Identified'
    BY <1>1 DEF Filing, Identified
<1>5. Acknowledged'
    BY <1>1, <1>3 DEF Filing, Acknowledged, Report
<1>6. Community!ReportsAreKept'
  <2>1. ASSUME NEW a \in answered, a[1] \in users, a[2] \in Community!ReviewIds
        PROVE  Community!Filed(a[1], a[2])' # {}
    <3>1. PICK q \in reports : q.reporter = a[1] /\ q.review = a[2]
        BY <2>1 DEF Filing, Community!ReportsAreKept, Community!Filed
    <3>2. CASE q = r
        BY <1>1, <1>3, <3>1, <3>2 DEF Community!Filed
    <3>3. CASE q # r
        BY <1>1, <3>1, <3>3 DEF Community!Filed
    <3> QED BY <3>2, <3>3
  <2>2. Community!ReviewIds' = Community!ReviewIds
      BY <1>1 DEF Community!ReviewIds
  <2>3. \A q \in reports' : q.status = "resolved" => Community!Audited(q) \in audit'
      BY <1>1, <1>3 DEF Filing, Community!ReportsAreKept, Community!Audited
  <2> QED BY <1>1, <2>1, <2>2, <2>3 DEF Community!ReportsAreKept, Community!Audited
<1> QED BY <1>4, <1>5, <1>6 DEF Filing

LEMMA FilingStep == Filing /\ [Community!Next]_Community!vars => Filing'
<1> SUFFICES ASSUME Filing, [Community!Next]_Community!vars PROVE Filing'
    OBVIOUS
<1>1. CASE UNCHANGED Community!vars
    BY <1>1, FilingUnchanged DEF Community!vars, filing
<1>2. ASSUME NEW s \in Slots, Community!InFlight(s) PROVE Filing'
  <2>1. CASE Community!WriteStatus(s)
      BY <2>1, FilingUnchanged DEF Community!WriteStatus, filing, Community!social,
                                   Community!ghosts, Community!counters
  <2>2. CASE Community!Fanout(s) \/ Community!FanoutFails(s)
      BY <2>2, FilingUnchanged DEF Community!Fanout, Community!FanoutFails, filing,
                                   Community!social, Community!ghosts, Community!counters
  <2>3. CASE Community!CreateNotification(s) \/ Community!NotificationFails(s)
      BY <2>3, FilingUnchanged DEF Community!CreateNotification, Community!NotificationFails,
                                   filing, Community!social, Community!ghosts,
                                   Community!counters
  <2>4. CASE Community!InsertReport(s)
      BY <2>4, FilingByInsertReport
  <2>5. CASE Community!SelectExisting(s)
      BY <2>5, FilingBySelectExisting
  <2>6. ASSUME NEW u \in Users, NEW i \in Items, NEW status, Community!ReadPrevious(s, u, i, status)
        PROVE  Filing'
      BY <2>6, FilingUnchanged DEF Community!ReadPrevious, filing, Community!social,
                                   Community!ghosts, Community!counters
  <2>7. ASSUME NEW u \in Users, NEW t \in Users, Community!FollowUser(s, u, t) PROVE Filing'
      BY <2>7, FilingUnchanged DEF Community!FollowUser, filing, Community!counters
  <2>8. ASSUME NEW u \in Users, NEW id \in Community!ReviewIds,
               Community!LikeReview(s, u, id) \/ Community!ReadReview(s, u, id)
        PROVE  Filing'
      BY <2>8, FilingUnchanged DEF Community!LikeReview, Community!ReadReview, filing,
                                   Community!social, Community!ghosts, Community!counters
  <2> QED BY <1>2, <2>1, <2>2, <2>3, <2>4, <2>5, <2>6, <2>7, <2>8 DEF Community!InFlight
<1>3. ASSUME Community!AtOnce PROVE Filing'
  <2>1. ASSUME NEW u \in Users, NEW i \in Items, Community!RemoveEntry(u, i) PROVE Filing'
      BY <2>1, FilingUnchanged DEF Community!RemoveEntry, filing, Community!ghosts,
                                   Community!counters
  <2>2. ASSUME NEW u \in Users, NEW i \in Items, Community!DeleteRating(u, i) PROVE Filing'
      BY <2>2, FilingByDeleteRating
  <2>3. ASSUME NEW u \in Users, NEW i \in Items, NEW content \in BOOLEAN,
               Community!RateItem(u, i, content)
        PROVE  Filing'
      BY <2>3, FilingByRateItem
  <2>4. ASSUME NEW u \in Users, NEW t \in Users, Community!UnfollowUser(u, t) PROVE Filing'
      BY <2>4, FilingUnchanged DEF Community!UnfollowUser, filing, Community!ghosts,
                                   Community!counters
  <2>5. ASSUME NEW u \in Users, NEW id \in Community!ReviewIds, Community!UnlikeReview(u, id)
        PROVE  Filing'
      BY <2>5, FilingUnchanged DEF Community!UnlikeReview, filing, Community!ghosts,
                                   Community!counters
  <2>6. ASSUME NEW u \in Users, Community!MarkRead(u) \/ Community!SetUserBanned(u) PROVE Filing'
      BY <2>6, FilingUnchanged DEF Community!MarkRead, Community!SetUserBanned, filing,
                                   Community!social, Community!ghosts, Community!counters
  <2>7. ASSUME NEW u \in Users, Community!DeleteUser(u) PROVE Filing'
      BY <2>7, FilingByDeleteUser
  <2>8. ASSUME NEW u \in Users, NEW n \in notifications, Community!DeleteNotification(u, n)
        PROVE  Filing'
      BY <2>8, FilingUnchanged DEF Community!DeleteNotification, filing, Community!social,
                                   Community!ghosts, Community!counters
  <2>9. ASSUME NEW id \in Community!ReviewIds, Community!SetReviewHidden(id) PROVE Filing'
      BY <2>9, FilingUnchanged DEF Community!SetReviewHidden, filing, Community!ghosts,
                                   Community!counters
  <2>10. ASSUME NEW r \in reports, Community!ResolveReport(r) PROVE Filing'
      BY <2>10, FilingByResolveReport
  <2> QED BY <1>3, <2>1, <2>2, <2>3, <2>4, <2>5, <2>6, <2>7, <2>8, <2>9, <2>10 DEF Community!AtOnce
<1> QED BY <1>1, <1>2, <1>3 DEF Community!Next

-----------------------------------------------------------------------------
(* What was announced, and who is told.                                     *)

Telling == {s \in Slots : requests[s].step = "tell"}

\* Follows and notifications are between accounts that exist.
Announcing ==
    /\ requests = [s \in Slots |-> requests[s]]
    /\ announced \in Nat /\ told \in Nat /\ lost \in Nat
    /\ announced = told + lost + Cardinality(Telling)
    /\ follows \subseteq users \X users
    /\ \A n \in notifications :
          /\ n = [id |-> n.id, to |-> n.to, by |-> n.by, type |-> n.type, read |-> n.read]
          /\ n.to \in users /\ n.by \in users

\* All that the invariant speaks of.
announcing == <<requests, announced, told, lost, follows, users, notifications>>

LEMMA AnnouncingUnchanged ==
    ASSUME Announcing, UNCHANGED announcing
    PROVE  Announcing'
BY DEF Announcing, announcing, Telling

LEMMA AnnouncingInit == Community!Init => Announcing
<1> SUFFICES ASSUME Community!Init PROVE Announcing
    OBVIOUS
<1>1. Telling = {}
    BY DEF Community!Init, Community!Idle, Telling
<1> QED BY <1>1, FS_EmptySet DEF Community!Init, Announcing

\* What a request goes on to decides whether it is about to tell.
LEMMA TellingKept ==
    ASSUME Announcing, NEW s \in Slots, NEW r, Community!Goes(s, r), requests[s].step # "tell",
           r.step # "tell"
    PROVE  Telling' = Telling /\ requests' = [t \in Slots |-> requests'[t]]
<1>1. requests' = [requests EXCEPT ![s] = r] /\ DOMAIN requests = Slots
    BY DEF Community!Goes, Announcing
<1>2. \A t \in Slots : requests'[t] = IF t = s THEN r ELSE requests[t]
    BY <1>1
<1> QED BY <1>1, <1>2 DEF Telling, Announcing

LEMMA TellingMore ==
    ASSUME Announcing, NEW s \in Slots, NEW r, Community!Goes(s, r), requests[s].step # "tell",
           r.step = "tell"
    PROVE  /\ Cardinality(Telling') = Cardinality(Telling) + 1
           /\ requests' = [t \in Slots |-> requests'[t]]
<1>1. requests' = [requests EXCEPT ![s] = r] /\ DOMAIN requests = Slots
    BY DEF Community!Goes, Announcing
<1>2. \A t \in Slots : requests'[t] = IF t = s THEN r ELSE requests[t]
    BY <1>1
<1>3. Telling' = Telling \cup {s} /\ s \notin Telling
    BY <1>2 DEF Telling
<1>4. IsFiniteSet(Telling)
    BY RequestsAssumption, FS_Subset DEF Telling
<1>5. Cardinality(Telling \cup {s}) = Cardinality(Telling) + 1
    BY <1>3, <1>4, FS_AddElement
<1> QED BY <1>1, <1>2, <1>3, <1>5

LEMMA TellingLess ==
    ASSUME Announcing, NEW s \in Slots, NEW r, Community!Goes(s, r), requests[s].step = "tell",
           r.step # "tell"
    PROVE  /\ Cardinality(Telling) = Cardinality(Telling') + 1
           /\ requests' = [t \in Slots |-> requests'[t]]
<1>1. requests' = [requests EXCEPT ![s] = r] /\ DOMAIN requests = Slots
    BY DEF Community!Goes, Announcing
<1>2. \A t \in Slots : requests'[t] = IF t = s THEN r ELSE requests[t]
    BY <1>1
<1>3. Telling = Telling' \cup {s} /\ s \notin Telling'
    BY <1>2 DEF Telling
<1>4. IsFiniteSet(Telling')
    BY RequestsAssumption, FS_Subset DEF Telling
<1>5. Cardinality(Telling' \cup {s}) = Cardinality(Telling') + 1
    BY <1>3, <1>4, FS_AddElement
<1> QED BY <1>1, <1>2, <1>3, <1>5

LEMMA TellingCounts == Announcing => Cardinality(Telling) \in Nat /\ Cardinality(Telling') \in Nat
BY RequestsAssumption, FS_Subset, FS_CardinalityType DEF Telling

\* A request that neither starts nor stops telling leaves the count alone.
LEMMA AnnouncingByOthers ==
    ASSUME Announcing, NEW s \in Slots, NEW r, Community!Goes(s, r), requests[s].step # "tell",
           r.step # "tell", UNCHANGED <<announced, told, lost, follows, users, notifications>>
    PROVE  Announcing'
<1>1. Telling' = Telling /\ requests' = [t \in Slots |-> requests'[t]]
    BY TellingKept
<1> QED BY <1>1 DEF Announcing

LEMMA AnnouncingByFanout ==
    ASSUME Announcing, NEW s \in Slots, Community!Fanout(s)
    PROVE  Announcing'
<1> DEFINE u == requests[s].user
<1>1. /\ notifications' = notifications \cup
             {Community!Note(f, u, "user_completed") : f \in {g \in users : <<g, u>> \in follows}}
      /\ requests[s].step = "fanout" /\ Community!Goes(s, Community!Idle)
      /\ UNCHANGED <<announced, told, lost, follows, users>>
    BY DEF Community!Fanout, Community!social, Community!ghosts
<1>2. Telling' = Telling /\ requests' = [t \in Slots |-> requests'[t]]
    BY <1>1, TellingKept DEF Community!Idle
<1>3. ASSUME NEW f \in users, <<f, u>> \in follows
      PROVE  LET n == Community!Note(f, u, "user_completed") IN
             /\ n = [id |-> n.id, to |-> n.to, by |-> n.by, type |-> n.type, read |-> n.read]
             /\ n.to \in users /\ n.by \in users
    BY <1>3 DEF Announcing, Community!Note
<1> HIDE DEF u
<1>4. \A n \in notifications' :
          /\ n = [id |-> n.id, to |-> n.to, by |-> n.by, type |-> n.type, read |-> n.read]
          /\ n.to \in users /\ n.by \in users
    BY <1>1, <1>3 DEF Announcing
<1> QED BY <1>1, <1>2, <1>4 DEF Announcing

LEMMA AnnouncingByFollow ==
    ASSUME Announcing, NEW s \in Slots, NEW u \in Users, NEW t \in Users,
           Community!FollowUser(s, u, t)
    PROVE  Announcing'
<1>1. /\ u \in users /\ t \in users /\ follows' = follows \cup {<<u, t>>}
      /\ requests[s] = Community!Idle
      /\ UNCHANGED <<told, lost, users, notifications>>
    BY DEF Community!FollowUser, Community!Starts
<1>2. follows' \subseteq users' \X users'
    BY <1>1 DEF Announcing
<1>3. CASE <<u, t>> \in follows
  <2>1. Community!Goes(s, Community!Idle) /\ announced' = announced
      BY <1>3 DEF Community!FollowUser, Community!Announces
  <2>2. Telling' = Telling /\ requests' = [q \in Slots |-> requests'[q]]
      BY <1>1, <2>1, TellingKept DEF Community!Idle
  <2> QED BY <1>1, <1>2, <2>1, <2>2 DEF Announcing
<1>4. CASE <<u, t>> \notin follows
  <2>1. Community!Goes(s, Community!Tell(t, u, "new_follower")) /\ announced' = announced + 1
      BY <1>4 DEF Community!FollowUser, Community!Announces
  <2>2. /\ Cardinality(Telling') = Cardinality(Telling) + 1
        /\ requests' = [q \in Slots |-> requests'[q]]
      BY <1>1, <2>1, TellingMore DEF Community!Idle, Community!Tell
  <2> QED BY <1>1, <1>2, <2>1, <2>2, TellingCounts DEF Announcing
<1> QED BY <1>3, <1>4

LEMMA AnnouncingByLike ==
    ASSUME Announcing, NEW s \in Slots, NEW u \in Users, NEW id \in Community!ReviewIds,
           Community!LikeReview(s, u, id)
    PROVE  Announcing'
<1> DEFINE owner == Community!EntryOf(id)[1]
           news == <<u, id>> \notin likes /\ owner # u
<1>1. /\ requests[s] = Community!Idle
      /\ UNCHANGED <<told, lost, users, notifications, follows>>
    BY DEF Community!LikeReview, Community!Starts
<1>2. CASE ~news
  <2>1. Community!Goes(s, Community!Idle) /\ announced' = announced
      BY <1>2 DEF Community!LikeReview, Community!Announces
  <2> QED BY <1>1, <2>1, AnnouncingByOthers DEF Community!Idle
<1>3. CASE news
  <2>1. Community!Goes(s, Community!Tell(owner, u, "review_like")) /\ announced' = announced + 1
      BY <1>3 DEF Community!LikeReview, Community!Announces
  <2>2. /\ Cardinality(Telling') = Cardinality(Telling) + 1
        /\ requests' = [q \in Slots |-> requests'[q]]
      BY <1>1, <2>1, TellingMore DEF Community!Idle, Community!Tell
  <2> QED BY <1>1, <2>1, <2>2, TellingCounts DEF Announcing
<1> QED BY <1>2, <1>3

LEMMA AnnouncingByTelling ==
    ASSUME Announcing, NEW s \in Slots,
           Community!CreateNotification(s) \/ Community!NotificationFails(s)
    PROVE  Announcing'
<1> DEFINE r == requests[s]
           note == Community!Note(r.to, r.by, r.type)
<1>1. /\ requests[s].step = "tell" /\ Community!Goes(s, Community!Idle)
      /\ UNCHANGED <<announced, follows, users>>
    BY DEF Community!CreateNotification, Community!NotificationFails, Community!social,
           Community!ghosts
<1>2. /\ Cardinality(Telling) = Cardinality(Telling') + 1
      /\ requests' = [q \in Slots |-> requests'[q]]
    BY <1>1, TellingLess DEF Community!Idle
<1>3. CASE {r.to, r.by} \subseteq users /\ notifications' = notifications \cup {note}
           /\ told' = told + 1 /\ lost' = lost
  <2>1. note = [id |-> note.id, to |-> note.to, by |-> note.by, type |-> note.type,
                read |-> note.read] /\ note.to = r.to /\ note.by = r.by
      BY DEF Community!Note
  <2> HIDE DEF note, r
  <2> QED BY <1>1, <1>2, <1>3, <2>1, TellingCounts DEF Announcing
<1>4. CASE UNCHANGED <<notifications, told>> /\ lost' = lost + 1
    BY <1>1, <1>2, <1>4, TellingCounts DEF Announcing
<1> QED BY <1>3, <1>4 DEF Community!CreateNotification, Community!NotificationFails

LEMMA AnnouncingByInbox ==
    ASSUME Announcing, NEW u \in Users,
           Community!MarkRead(u) \/ \E n \in notifications : Community!DeleteNotification(u, n)
    PROVE  Announcing'
<1>1. UNCHANGED <<requests, announced, told, lost, follows, users>>
    BY DEF Community!MarkRead, Community!DeleteNotification, Community!social, Community!ghosts
<1>2. ASSUME NEW n \in notifications'
      PROVE  /\ n = [id |-> n.id, to |-> n.to, by |-> n.by, type |-> n.type, read |-> n.read]
             /\ n.to \in users /\ n.by \in users
  <2>1. CASE n \in notifications
      BY <2>1 DEF Announcing
  <2>2. CASE Community!MarkRead(u)
    <3>1. PICK m \in notifications : n = IF m.to = u THEN [m EXCEPT !.read = TRUE] ELSE m
        BY <2>2 DEF Community!MarkRead
    <3>2. m = [id |-> m.id, to |-> m.to, by |-> m.by, type |-> m.type, read |-> m.read]
          /\ m.to \in users /\ m.by \in users
        BY DEF Announcing
    <3> QED BY <3>1, <3>2
  <2> QED BY <2>1, <2>2 DEF Community!DeleteNotification
<1> QED BY <1>1, <1>2 DEF Announcing, Telling

LEMMA AnnouncingByLeaving ==
    ASSUME Announcing, NEW u \in Users, Community!DeleteUser(u)
    PROVE  Announcing'
<1>1. /\ users' = users \ {u} /\ follows' = {f \in follows : u \notin {f[1], f[2]}}
      /\ notifications' = {n \in notifications : u \notin {n.to, n.by}}
      /\ UNCHANGED <<requests, announced, told, lost>>
    BY DEF Community!DeleteUser, Community!DropsActor, Community!ghosts
<1>2. follows' \subseteq users' \X users'
    BY <1>1 DEF Announcing
<1> QED BY <1>1, <1>2 DEF Announcing, Telling

LEMMA AnnouncingStep == Announcing /\ [Community!Next]_Community!vars => Announcing'
<1> SUFFICES ASSUME Announcing, [Community!Next]_Community!vars PROVE Announcing'
    OBVIOUS
<1> USE DEF Community!social, Community!ghosts, Community!counters
<1>1. CASE UNCHANGED Community!vars
    BY <1>1, AnnouncingUnchanged DEF Community!vars, announcing
<1>2. ASSUME NEW s \in Slots, Community!InFlight(s) PROVE Announcing'
  <2>1. CASE Community!WriteStatus(s)
    <3>1. PICK r : Community!Goes(s, r) /\ r.step # "tell"
        BY <2>1 DEF Community!WriteStatus, Community!Idle
    <3> QED BY <2>1, <3>1, AnnouncingByOthers DEF Community!WriteStatus
  <2>2. CASE Community!Fanout(s)
      BY <2>2, AnnouncingByFanout
  <2>3. CASE Community!FanoutFails(s)
      BY <2>3, AnnouncingByOthers DEF Community!FanoutFails, Community!Idle
  <2>4. CASE Community!CreateNotification(s) \/ Community!NotificationFails(s)
      BY <2>4, AnnouncingByTelling
  <2>5. CASE Community!InsertReport(s)
    <3>1. PICK r : Community!Goes(s, r) /\ r.step # "tell"
      <4>1. ASSUME Community!Goes(s, Community!Idle)
            PROVE  \E r : Community!Goes(s, r) /\ r.step # "tell"
          BY <4>1 DEF Community!Idle
      <4>2. CASE Community!Goes(s, [requests[s] EXCEPT !.step = "existing"])
        <5>1. requests[s].step = "report"
            BY <2>5 DEF Community!InsertReport
        <5>2. [requests[s] EXCEPT !.step = "existing"].step # "tell"
            BY <5>1
        <5> QED BY <4>2, <5>2
      <4> QED BY <2>5, <4>1, <4>2 DEF Community!InsertReport
    <3> QED BY <2>5, <3>1, AnnouncingByOthers DEF Community!InsertReport
  <2>6. CASE Community!SelectExisting(s)
      BY <2>6, AnnouncingByOthers DEF Community!SelectExisting, Community!Idle
  <2>7. ASSUME NEW u \in Users, NEW i \in Items, NEW status, Community!ReadPrevious(s, u, i, status)
        PROVE  Announcing'
    <3>1. PICK r : Community!Goes(s, r) /\ r.step # "tell"
        BY <2>7 DEF Community!ReadPrevious
    <3> QED BY <2>7, <3>1, AnnouncingByOthers DEF Community!ReadPrevious, Community!Starts,
              Community!Idle
  <2>8. ASSUME NEW u \in Users, NEW t \in Users, Community!FollowUser(s, u, t) PROVE Announcing'
      BY <2>8, AnnouncingByFollow
  <2>9. ASSUME NEW u \in Users, NEW id \in Community!ReviewIds,
           Community!LikeReview(s, u, id)
        PROVE  Announcing'
      BY <2>9, AnnouncingByLike
  <2>10. ASSUME NEW u \in Users, NEW id \in Community!ReviewIds, Community!ReadReview(s, u, id)
         PROVE  Announcing'
    <3>1. PICK r : Community!Goes(s, r) /\ r.step # "tell"
        BY <2>10 DEF Community!ReadReview
    <3> QED BY <2>10, <3>1, AnnouncingByOthers DEF Community!ReadReview, Community!Starts,
              Community!Idle
  <2> QED BY <1>2, <2>1, <2>2, <2>3, <2>4, <2>5, <2>6, <2>7, <2>8, <2>9, <2>10
         DEF Community!InFlight
<1>3. ASSUME Community!AtOnce PROVE Announcing'
  <2>1. ASSUME NEW u \in Users, NEW i \in Items,
               Community!RemoveEntry(u, i) \/ Community!DeleteRating(u, i)
        PROVE  Announcing'
      BY <2>1, AnnouncingUnchanged DEF Community!RemoveEntry, Community!DeleteRating, announcing
  <2>2. ASSUME NEW u \in Users, NEW i \in Items, NEW content \in BOOLEAN,
               Community!RateItem(u, i, content)
        PROVE  Announcing'
      BY <2>2, AnnouncingUnchanged DEF Community!RateItem, announcing
  <2>3. ASSUME NEW u \in Users, NEW t \in Users, Community!UnfollowUser(u, t) PROVE Announcing'
      BY <2>3 DEF Community!UnfollowUser, Announcing, Telling
  <2>4. ASSUME NEW u \in Users, NEW id \in Community!ReviewIds, Community!UnlikeReview(u, id)
        PROVE  Announcing'
      BY <2>4, AnnouncingUnchanged DEF Community!UnlikeReview, announcing
  <2>5. ASSUME NEW u \in Users, Community!SetUserBanned(u) PROVE Announcing'
      BY <2>5, AnnouncingUnchanged DEF Community!SetUserBanned, announcing
  <2>6. ASSUME NEW u \in Users,
               \/ Community!MarkRead(u)
               \/ \E n \in notifications : Community!DeleteNotification(u, n)
        PROVE  Announcing'
      BY <2>6, AnnouncingByInbox
  <2>7. ASSUME NEW u \in Users, Community!DeleteUser(u) PROVE Announcing'
      BY <2>7, AnnouncingByLeaving
  <2>8. ASSUME NEW id \in Community!ReviewIds, Community!SetReviewHidden(id) PROVE Announcing'
      BY <2>8, AnnouncingUnchanged DEF Community!SetReviewHidden, announcing
  <2>9. ASSUME NEW r \in reports, Community!ResolveReport(r) PROVE Announcing'
      BY <2>9, AnnouncingUnchanged DEF Community!ResolveReport, announcing
  <2> QED BY <1>3, <2>1, <2>2, <2>3, <2>4, <2>5, <2>6, <2>7, <2>8, <2>9 DEF Community!AtOnce
<1> QED BY <1>1, <1>2, <1>3 DEF Community!Next

LEMMA AnnouncingImplies == Announcing => Community!AnnouncedOnce /\ Community!BadgeMatchesInbox
<1> SUFFICES ASSUME Announcing PROVE Community!AnnouncedOnce /\ Community!BadgeMatchesInbox
    OBVIOUS
<1>1. Community!AnnouncedOnce
    BY SameCount DEF Announcing, Community!AnnouncedOnce, Telling
<1>2. ASSUME NEW u \in users
      PROVE  {n \in notifications : n.to = u /\ ~n.read}
                = {n \in notifications : n.to = u /\ n.by \in users /\ ~n.read}
    BY DEF Announcing
<1> QED BY <1>1, <1>2 DEF Community!BadgeMatchesInbox, Community!CountUnread, Community!ListedUnread

-----------------------------------------------------------------------------
(* The feed.                                                                *)

Event(x) == [id |-> x.id, user |-> x.user, item |-> x.item, review |-> x.review]

\* An event is of an account that exists, and a row of its own.
EventRows ==
    /\ serial \in Nat /\ IsFiniteSet(events)
    /\ \A x \in events :
          /\ x = Event(x) /\ x.id \in Nat /\ x.id < serial
          /\ x.user \in users /\ x.item \in Items
    /\ users \subseteq Users
    /\ follows \subseteq users \X users

\* The reviews with content and the events of reviews stand for each other.
EventsOfReviews ==
    /\ \A e \in Users \X Items : reviews[e].content => reviews[e].id # 0
    /\ \A e \in Users \X Items :
          reviews[e].content => \E x \in events : x.review = reviews[e].id
    /\ \A x \in events : x.review # 0 =>
          LET r == reviews[<<x.user, x.item>>] IN r.content /\ r.id = x.review
    /\ \A x, y \in events : x.review # 0 /\ x.review = y.review => x = y

CompletionsOf(E, e) == {x \in E : x.user = e[1] /\ x.item = e[2] /\ x.review = 0}

\* A request that nobody raced finds the status that it had read.
Completing ==
    /\ completions \in [Users \X Items -> Nat]
    /\ library = [e \in Users \X Items |-> library[e]]
    /\ \A e \in (users \X Items) \ raced : Cardinality(CompletionsOf(events, e)) = completions[e]
    /\ requests = [s \in Slots |-> requests[s]]
    /\ \A s \in Slots : requests[s].step = "status" =>
          requests[s].user \in Users /\ requests[s].item \in Items

Feeding == Identified /\ EventRows /\ EventsOfReviews /\ Completing

LEMMA FeedingImplies == Feeding => Community!OneEventPerCompletion /\ Community!FeedMirrorsReviews
<1> SUFFICES ASSUME Feeding PROVE Community!OneEventPerCompletion /\ Community!FeedMirrorsReviews
    OBVIOUS
<1>1. Community!OneEventPerCompletion
    BY SameCount DEF Feeding, Completing, CompletionsOf, Community!OneEventPerCompletion
<1>2. ASSUME NEW f \in follows, NEW i \in Items
      PROVE  LET r == reviews[<<f[2], i>>]
             IN  Cardinality({x \in Community!FollowingFeed(f[1]) :
                                  x.user = f[2] /\ x.item = i /\ x.review # 0})
                    = IF r.content /\ r.id \notin hidden /\ f[2] \notin banned THEN 1 ELSE 0
  <2> DEFINE r == reviews[<<f[2], i>>]
             shown == {x \in Community!FollowingFeed(f[1]) :
                           x.user = f[2] /\ x.item = i /\ x.review # 0}
  <2>1. f = <<f[1], f[2]>> /\ f[2] \in Users /\ <<f[2], i>> \in Users \X Items
      BY DEF Feeding, EventRows
  <2>2. \A x \in shown : /\ x \in events /\ r.content /\ r.id = x.review
                         /\ x.review \notin hidden /\ x.user \notin banned
      BY DEF Feeding, EventsOfReviews, Community!FollowingFeed
  <2>3. CASE r.content /\ r.id \notin hidden /\ f[2] \notin banned
    <3>1. PICK x \in events : x.review = r.id /\ r.id # 0
        BY <2>1, <2>3 DEF Feeding, EventsOfReviews
    <3>2. x.user = f[2] /\ x.item = i
      <4>1. <<x.user, x.item>> \in Users \X Items
          BY DEF Feeding, EventRows
      <4>2. reviews[<<x.user, x.item>>].id = r.id
          BY <3>1 DEF Feeding, EventsOfReviews
      <4>3. <<x.user, x.item>> = <<f[2], i>>
          BY <2>1, <3>1, <4>1, <4>2 DEF Feeding, Identified
      <4> QED BY <4>3
    <3>3. x \in shown
        BY <2>1, <2>3, <3>1, <3>2 DEF Community!FollowingFeed
    <3>4. \A y \in shown : y = x
        BY <2>2, <3>1 DEF Feeding, EventsOfReviews
    <3>5. shown = {x}
        BY <3>3, <3>4
    <3>6. Cardinality(shown) = 1
      <4> HIDE DEF shown
      <4> QED BY <3>5, FS_Singleton
    <3> QED BY <2>3, <3>6
  <2>4. CASE ~(r.content /\ r.id \notin hidden /\ f[2] \notin banned)
    <3>1. shown = {}
        BY <2>2, <2>4
    <3>2. Cardinality(shown) = 0
      <4> HIDE DEF shown
      <4> QED BY <3>1, FS_EmptySet
    <3> QED BY <2>4, <3>2
  <2> QED BY <2>3, <2>4
<1> QED BY <1>1, <1>2, SameCount DEF Community!FeedMirrorsReviews

LEMMA FeedingInit == Community!Init => Feeding
<1> SUFFICES ASSUME Community!Init PROVE Feeding
    OBVIOUS
<1>1. Identified
    BY FilingInit DEF Filing
<1>2. EventRows /\ EventsOfReviews
    BY FS_EmptySet DEF Community!Init, EventRows, EventsOfReviews, Community!NoReview
<1>3. \A e : CompletionsOf(events, e) = {}
    BY DEF Community!Init, CompletionsOf
<1>4. Completing
    BY <1>3, FS_EmptySet DEF Community!Init, Completing, Community!Idle
<1> QED BY <1>1, <1>2, <1>4 DEF Feeding

\* All that the invariant speaks of, but for the requests.
feeding == <<serial, events, users, follows, reviews, nextReview, completions, library, raced>>

\* What a request goes on to is well formed.
LEMMA FeedingByOthers ==
    ASSUME Feeding, NEW s \in Slots, NEW r, Community!Goes(s, r),
           r.step = "status" => r.user \in Users /\ r.item \in Items,
           UNCHANGED feeding
    PROVE  Feeding'
<1>1. requests' = [requests EXCEPT ![s] = r] /\ DOMAIN requests = Slots
    BY DEF Community!Goes, Feeding, Completing
<1>2. \A t \in Slots : requests'[t] = IF t = s THEN r ELSE requests[t]
    BY <1>1
<1>3. requests' = [t \in Slots |-> requests'[t]]
    BY <1>1
<1>4. Completing'
    BY <1>2, <1>3 DEF feeding, Feeding, Completing, CompletionsOf
<1>5. EventRows' /\ EventsOfReviews' /\ Identified'
    BY DEF feeding, Feeding, EventRows, EventsOfReviews, Identified
<1> QED BY <1>4, <1>5 DEF Feeding

LEMMA FeedingUnchanged ==
    ASSUME Feeding, UNCHANGED <<feeding, requests>>
    PROVE  Feeding'
BY DEF feeding, Feeding, EventRows, EventsOfReviews, Identified, Completing, CompletionsOf

LEMMA FeedingByStatus ==
    ASSUME Feeding, NEW s \in Slots, Community!WriteStatus(s)
    PROVE  Feeding'
<1> USE DEF Community!ghosts, Community!social
<1> DEFINE r == requests[s]
           e == <<r.user, r.item>>
           new == Community!IsNewCompletion(r.status, r.previous)
           completion == Community!Completed(r.user, r.item)
<1>1. r.step = "status" /\ r.user \in Users /\ r.item \in Items /\ e \in Users \X Items
    BY DEF Community!WriteStatus, Feeding, Completing
<1>2. CASE r.user \notin users
    BY <1>2, FeedingByOthers DEF Community!WriteStatus, Community!Idle, feeding
<1>3. CASE r.user \in users
  <2>1. /\ library' = [library EXCEPT ![e] = r.status]
        /\ events' = IF new THEN events \cup {completion} ELSE events
        /\ serial' = IF new THEN serial + 1 ELSE serial
        /\ raced' = IF library[e] # r.previous THEN raced \cup {e} ELSE raced
        /\ completions' = IF r.status = "completed" /\ library[e] # "completed"
                          THEN [completions EXCEPT ![e] = @ + 1] ELSE completions
        /\ UNCHANGED <<users, follows, reviews, nextReview>>
      BY <1>3 DEF Community!WriteStatus
  <2>2. PICK q : Community!Goes(s, q) /\ q.step # "status"
      BY <1>3 DEF Community!WriteStatus, Community!Idle
  <2>3. completion.id = serial /\ completion.user = r.user /\ completion.item = r.item
        /\ completion.review = 0 /\ completion = Event(completion) /\ completion \notin events
      BY DEF Community!Completed, Event, Feeding, EventRows
  <2> HIDE DEF new, completion
  <2>4. EventRows'
    <3>1. IsFiniteSet(events')
        BY <2>1, FS_AddElement DEF Feeding, EventRows
    <3> QED BY <1>1, <1>3, <2>1, <2>3, <3>1 DEF Feeding, EventRows, Event
  <2>5. EventsOfReviews'
      BY <2>1, <2>3 DEF Feeding, EventsOfReviews
  <2>6. Completing'
    <3>1. requests' = [t \in Slots |-> requests'[t]]
          /\ \A t \in Slots : requests'[t] = IF t = s THEN q ELSE requests[t]
      <4>1. requests' = [requests EXCEPT ![s] = q] /\ DOMAIN requests = Slots
          BY <2>2 DEF Community!Goes, Feeding, Completing
      <4> QED BY <4>1
    <3>2. \A t \in Slots : requests'[t].step = "status" =>
              requests'[t].user \in Users /\ requests'[t].item \in Items
        BY <2>2, <3>1 DEF Feeding, Completing
    <3>3. completions' \in [Users \X Items -> Nat]
          /\ \A f \in Users \X Items : completions'[f] =
                IF f = e /\ r.status = "completed" /\ library[e] # "completed"
                THEN completions[f] + 1 ELSE completions[f]
      <4> HIDE DEF e, r
      <4> QED BY <1>1, <2>1 DEF Feeding, Completing
    <3>4. library' = [f \in Users \X Items |-> library'[f]]
        BY <1>1, <2>1 DEF Feeding, Completing
    <3>5. ASSUME NEW f \in (users' \X Items) \ raced'
          PROVE  Cardinality(CompletionsOf(events', f)) = completions'[f]
      <4>1. f \in (users \X Items) \ raced /\ f \in Users \X Items
          BY <2>1 DEF Feeding, EventRows
      <4>2. Cardinality(CompletionsOf(events, f)) = completions[f]
          BY <4>1 DEF Feeding, Completing
      <4>3. CASE new /\ f = e
        <5>1. CompletionsOf(events', f) = CompletionsOf(events, f) \cup {completion}
            BY <2>1, <2>3, <4>3 DEF CompletionsOf
        <5>2. completion \notin CompletionsOf(events, f) /\ IsFiniteSet(CompletionsOf(events, f))
            BY <2>3, FS_Subset DEF CompletionsOf, Feeding, EventRows
        <5>3. Cardinality(CompletionsOf(events', f)) = Cardinality(CompletionsOf(events, f)) + 1
            BY <5>1, <5>2, FS_AddElement
        <5>4. library[e] = r.previous /\ r.status = "completed" /\ r.previous # "completed"
            BY <2>1, <4>3 DEF new, Community!IsNewCompletion
        <5> QED BY <3>3, <4>1, <4>2, <4>3, <5>3, <5>4
      <4>4. CASE ~(new /\ f = e)
        <5>1. CompletionsOf(events', f) = CompletionsOf(events, f)
            BY <2>1, <2>3, <4>1, <4>4 DEF CompletionsOf
        <5>2. f = e => ~(r.status = "completed" /\ library[e] # "completed")
            BY <2>1, <4>4 DEF new, Community!IsNewCompletion
        <5> QED BY <3>3, <4>1, <4>2, <5>1, <5>2
      <4> QED BY <4>3, <4>4
    <3> QED BY <3>1, <3>2, <3>3, <3>4, <3>5 DEF Completing
  <2>7. Identified'
      BY <2>1 DEF Feeding, Identified
  <2> QED BY <2>4, <2>5, <2>6, <2>7 DEF Feeding
<1> QED BY <1>2, <1>3

\* Events come and go, but none of a completion, and no request changes.
LEMMA CompletingKept ==
    ASSUME Feeding, \A f : CompletionsOf(events', f) = CompletionsOf(events, f),
           UNCHANGED <<completions, library, raced, requests, users>>
    PROVE  Completing'
BY DEF Feeding, Completing

LEMMA FeedingByRating ==
    ASSUME Feeding, NEW u \in Users, NEW i \in Items, NEW content \in BOOLEAN,
           Community!RateItem(u, i, content)
    PROVE  Feeding'
<1> USE DEF Community!ghosts, Community!social
<1> DEFINE e == <<u, i>>
           old == reviews[e]
           id == IF old.id = 0 THEN nextReview ELSE old.id
           rated == Community!Rated(u, i, id)
<1>1. /\ u \in users
      /\ reviews' = [reviews EXCEPT ![e] = [id |-> id, content |-> content]]
      /\ nextReview' = IF old.id = 0 THEN nextReview + 1 ELSE nextReview
      /\ serial' = IF content THEN serial + 1 ELSE serial
      /\ UNCHANGED <<users, follows, completions, library, raced, requests>>
    BY DEF Community!RateItem
<1>2. events' = IF content
                THEN IF \E x \in events : x.review = id THEN events ELSE events \cup {rated}
                ELSE {x \in events : x.review # id}
    BY DEF Community!RateItem, Community!AddEvent, Community!DropEvents
<1>3. e \in Users \X Items /\ old.id \in Nat /\ old.id < nextReview /\ id \in Nat \ {0}
      /\ old \in [id : Nat, content : BOOLEAN] /\ nextReview \in Nat
    BY DEF Feeding, Identified
<1>4. \A f \in Users \X Items :
          reviews'[f] = IF f = e THEN [id |-> id, content |-> content] ELSE reviews[f]
    BY <1>1, <1>3 DEF Feeding, Identified
<1>5. \A f \in Users \X Items : reviews[f].id = id => f = e
    BY <1>3 DEF Feeding, Identified
<1>6. rated.id = serial /\ rated.user = u /\ rated.item = i /\ rated.review = id
      /\ rated = Event(rated)
    BY DEF Community!Rated, Event
<1>7. \A x \in events : <<x.user, x.item>> \in Users \X Items
    BY DEF Feeding, EventRows
<1> HIDE DEF rated, id, old, e
<1>8. Identified'
  <2>1. nextReview' \in Nat \ {0} /\ nextReview =< nextReview' /\ id < nextReview'
      BY <1>1, <1>3 DEF id, Feeding, Identified
  <2>2. reviews' \in [Users \X Items -> [id : Nat, content : BOOLEAN]]
      BY <1>1, <1>3 DEF Feeding, Identified
  <2>3. \A f \in Users \X Items : reviews'[f].id < nextReview'
      BY <1>4, <2>1 DEF Feeding, Identified
  <2>4. ASSUME NEW f \in Users \X Items, NEW g \in Users \X Items,
               reviews'[f].id = reviews'[g].id, reviews'[f].id # 0
        PROVE  f = g
      BY <1>4, <1>5, <2>4 DEF Feeding, Identified
  <2> QED BY <2>1, <2>2, <2>3, <2>4 DEF Identified
<1>9. EventRows'
  <2>1. IsFiniteSet(events')
    <3>1. IsFiniteSet({x \in events : x.review # id}) /\ IsFiniteSet(events \cup {rated})
        BY FS_Subset, FS_AddElement DEF Feeding, EventRows
    <3> QED BY <1>2, <3>1 DEF Feeding, EventRows
  <2>2. \A x \in events' : x \in events \/ (x = rated /\ content)
      BY <1>2
  <2>3. serial' \in Nat /\ serial =< serial' /\ (content => serial' = serial + 1)
      BY <1>1 DEF Feeding, EventRows
  <2>4. ASSUME NEW x \in events'
        PROVE  /\ x = Event(x) /\ x.id \in Nat /\ x.id < serial'
               /\ x.user \in users /\ x.item \in Items
    <3>1. CASE x \in events
        BY <2>3, <3>1 DEF Feeding, EventRows
    <3>2. CASE x = rated /\ content
        BY <1>1, <1>6, <2>3, <3>2 DEF Feeding, EventRows
    <3> QED BY <2>2, <3>1, <3>2
  <2> QED BY <1>1, <2>1, <2>3, <2>4 DEF Feeding, EventRows
<1>10. EventsOfReviews'
  <2>1. \A x \in events : x.review # 0 =>
           reviews[<<x.user, x.item>>].content /\ reviews[<<x.user, x.item>>].id = x.review
      BY DEF Feeding, EventsOfReviews
  <2>2. \A x \in events : x.review = id => <<x.user, x.item>> = e
      BY <1>3, <1>5, <1>7, <2>1
  <2>3. \A x \in events : x.review # 0 /\ x.review # id => <<x.user, x.item>> # e
    <3> SUFFICES ASSUME NEW x \in events, x.review # 0, x.review # id, <<x.user, x.item>> = e
                 PROVE  FALSE
        OBVIOUS
    <3>1. old.id = x.review
        BY <2>1 DEF old
    <3> QED BY <3>1 DEF id
  <2>4. \A f \in Users \X Items : reviews'[f].content => reviews'[f].id # 0
      BY <1>3, <1>4 DEF Feeding, EventsOfReviews
  <2>5. ASSUME NEW f \in Users \X Items, reviews'[f].content
        PROVE  \E x \in events' : x.review = reviews'[f].id
    <3>1. CASE f = e
        BY <1>2, <1>4, <1>6, <2>5, <3>1
    <3>2. CASE f # e
      <4>1. PICK x \in events : x.review = reviews[f].id
          BY <1>4, <2>5, <3>2 DEF Feeding, EventsOfReviews
      <4>2. reviews[f].id # id
          BY <1>5, <3>2
      <4> QED BY <1>2, <1>4, <3>2, <4>1, <4>2
    <3> QED BY <3>1, <3>2
  <2>6. ASSUME NEW x \in events', x.review # 0
        PROVE  reviews'[<<x.user, x.item>>].content /\ reviews'[<<x.user, x.item>>].id = x.review
    <3>1. CASE x \in events /\ x.review # id
        BY <1>4, <1>7, <2>1, <2>3, <2>6, <3>1
    <3>2. CASE x.review = id
      <4>1. content /\ <<x.user, x.item>> = e
          BY <1>2, <1>6, <2>2, <3>2 DEF e
      <4> QED BY <1>3, <1>4, <3>2, <4>1
    <3> QED BY <1>2, <1>6, <3>1, <3>2
  <2>7. ASSUME NEW x \in events', NEW y \in events', x.review # 0, x.review = y.review
        PROVE  x = y
      BY <1>2, <1>6, <2>7 DEF Feeding, EventsOfReviews
  <2> QED BY <2>4, <2>5, <2>6, <2>7 DEF EventsOfReviews
<1>11. Completing'
  <2>1. \A f : CompletionsOf(events', f) = CompletionsOf(events, f)
      BY <1>2, <1>3, <1>6 DEF CompletionsOf
  <2> QED BY <1>1, <2>1, CompletingKept
<1> QED BY <1>8, <1>9, <1>10, <1>11 DEF Feeding

\* Reviews that go take exactly their own events with them; who leaves takes all.
LEMMA FeedingByRemoval ==
    ASSUME Feeding,
           NEW gone \in SUBSET (Users \X Items), NEW leavers,
           \A u \in leavers, i \in Items : <<u, i>> \in gone,
           reviews' = [e \in DOMAIN reviews |->
                          IF e \in gone THEN Community!NoReview ELSE reviews[e]],
           users' = users \ leavers,
           events' = {x \in events : /\ x.review \notin {reviews[e].id : e \in gone} \ {0}
                                     /\ x.user \notin leavers},
           follows' \subseteq users' \X users',
           library' = [e \in Users \X Items |-> library'[e]],
           UNCHANGED <<serial, nextReview, completions, raced, requests>>
    PROVE  Feeding'
<1>1. DOMAIN reviews = Users \X Items
    BY DEF Feeding, Identified
<1>2. \A e \in Users \X Items : reviews'[e] = IF e \in gone THEN Community!NoReview ELSE reviews[e]
    BY <1>1
<1>3. Identified'
    BY <1>1, <1>2 DEF Feeding, Identified, Community!NoReview
<1>4. EventRows'
  <2>1. IsFiniteSet(events')
      BY FS_Subset DEF Feeding, EventRows
  <2> QED BY <2>1 DEF Feeding, EventRows, Event
<1>5. \A x \in events : <<x.user, x.item>> \in Users \X Items
    BY DEF Feeding, EventRows
<1>6. \A x \in events : x.review # 0 =>
         reviews[<<x.user, x.item>>].content /\ reviews[<<x.user, x.item>>].id = x.review
    BY DEF Feeding, EventsOfReviews
<1>7. EventsOfReviews'
  <2>1. \A e \in Users \X Items : reviews'[e].content => reviews'[e].id # 0
      BY <1>2 DEF Feeding, EventsOfReviews, Community!NoReview
  <2>2. ASSUME NEW e \in Users \X Items, reviews'[e].content
        PROVE  \E x \in events' : x.review = reviews'[e].id
    <3>1. e \notin gone /\ reviews'[e] = reviews[e]
        BY <1>2, <2>2 DEF Community!NoReview
    <3>2. PICK x \in events : x.review = reviews[e].id /\ reviews[e].id # 0
        BY <2>2, <3>1 DEF Feeding, EventsOfReviews
    <3>3. <<x.user, x.item>> = e
        BY <1>5, <1>6, <3>2 DEF Feeding, Identified
    <3>4. x.item \in Items
        BY DEF Feeding, EventRows
    <3>5. x.user \notin leavers
        BY <3>1, <3>3, <3>4
    <3>6. \A f \in gone : reviews[f].id # reviews[e].id
        BY <3>1, <3>2 DEF Feeding, Identified
    <3>7. x \in events' /\ x.review = reviews'[e].id
        BY <3>1, <3>2, <3>5, <3>6
    <3> QED BY <3>7
  <2>3. ASSUME NEW x \in events', x.review # 0
        PROVE  reviews'[<<x.user, x.item>>].content /\ reviews'[<<x.user, x.item>>].id = x.review
    <3>1. x \in events /\ x.review \notin {reviews[e].id : e \in gone} \ {0}
        BY <2>3
    <3>2. reviews[<<x.user, x.item>>].content /\ reviews[<<x.user, x.item>>].id = x.review
        BY <1>6, <2>3, <3>1
    <3>3. <<x.user, x.item>> \notin gone
        BY <2>3, <3>1, <3>2
    <3>4. reviews'[<<x.user, x.item>>] = reviews[<<x.user, x.item>>]
        BY <1>2, <1>5, <3>1, <3>3
    <3> QED BY <3>2, <3>4
  <2>4. \A x, y \in events' : x.review # 0 /\ x.review = y.review => x = y
      BY DEF Feeding, EventsOfReviews
  <2> QED BY <2>1, <2>2, <2>3, <2>4 DEF EventsOfReviews
<1>8. Completing'
  <2>1. ASSUME NEW f \in (users' \X Items) \ raced'
        PROVE  Cardinality(CompletionsOf(events', f)) = completions'[f]
    <3>1. CompletionsOf(events', f) = CompletionsOf(events, f)
        BY DEF CompletionsOf
    <3> QED BY <3>1 DEF Feeding, Completing
  <2> QED BY <2>1 DEF Feeding, Completing
<1> QED BY <1>3, <1>4, <1>7, <1>8 DEF Feeding

LEMMA FeedingByDeleteRating ==
    ASSUME Feeding, NEW u \in Users, NEW i \in Items, Community!DeleteRating(u, i)
    PROVE  Feeding'
<1> USE DEF Community!ghosts, Community!counters
<1> DEFINE gone == {<<u, i>>}
           nobody == {}
<1>1. gone \in SUBSET (Users \X Items) /\ DOMAIN reviews = Users \X Items
    BY DEF Feeding, Identified
<1>2. reviews' = [e \in DOMAIN reviews |-> IF e \in gone THEN Community!NoReview ELSE reviews[e]]
    BY <1>1 DEF Community!DeleteRating, Feeding, Identified
<1>3. reviews[<<u, i>>].id # 0 /\ {reviews[e].id : e \in gone} \ {0} = {reviews[<<u, i>>].id}
    BY DEF Community!DeleteRating
<1>4. events' = {x \in events : /\ x.review \notin {reviews[e].id : e \in gone} \ {0}
                                /\ x.user \notin nobody}
    BY <1>3 DEF Community!DeleteRating, Community!Cascade, Community!DropEvents
<1>5. users' = users \ nobody /\ UNCHANGED <<serial, nextReview, completions, raced, requests>>
    BY DEF Community!DeleteRating
<1>6. follows' \subseteq users' \X users' /\ library' = [e \in Users \X Items |-> library'[e]]
    BY DEF Community!DeleteRating, Feeding, EventRows, Completing
<1>7. \A v \in nobody, j \in Items : <<v, j>> \in gone
    OBVIOUS
<1> HIDE DEF gone, nobody
<1> QED BY <1>1, <1>2, <1>4, <1>5, <1>6, <1>7, FeedingByRemoval

LEMMA FeedingByLeaving ==
    ASSUME Feeding, NEW u \in Users, Community!DeleteUser(u)
    PROVE  Feeding'
<1> USE DEF Community!ghosts, Community!counters
<1> DEFINE gone == {u} \X Items
           ids == {reviews[<<u, i>>].id : i \in Items} \ {0}
           leavers == {u}
<1>1. gone \in SUBSET (Users \X Items) /\ DOMAIN reviews = Users \X Items
    BY DEF Feeding, Identified
<1>2. reviews' = [e \in DOMAIN reviews |-> IF e \in gone THEN Community!NoReview ELSE reviews[e]]
  <2>1. \A e \in DOMAIN reviews : e[1] = u <=> e \in gone
      BY <1>1
  <2> QED BY <2>1 DEF Community!DeleteUser
<1>3. {reviews[e].id : e \in gone} \ {0} = ids
  <2>1. \A e \in gone : \E i \in Items : e = <<u, i>>
      OBVIOUS
  <2>2. \A i \in Items : <<u, i>> \in gone
      OBVIOUS
  <2> HIDE DEF gone
  <2>3. \A e \in gone : reviews[e].id \in {reviews[<<u, i>>].id : i \in Items}
      BY <2>1
  <2>4. \A i \in Items : reviews[<<u, i>>].id \in {reviews[e].id : e \in gone}
      BY <2>2
  <2>5. {reviews[e].id : e \in gone} = {reviews[<<u, i>>].id : i \in Items}
      BY <2>3, <2>4
  <2> QED BY <2>5
<1>4. events' = {x \in events : x.review \notin ids /\ x.user \notin leavers}
    BY DEF Community!DeleteUser, Community!DropEvents
<1>5. /\ users' = users \ leavers /\ follows' = {f \in follows : u \notin {f[1], f[2]}}
      /\ UNCHANGED <<serial, nextReview, completions, raced, requests>>
      /\ library' = [e \in DOMAIN library |-> IF e[1] = u THEN Community!None ELSE library[e]]
    BY DEF Community!DeleteUser
<1>6. follows' \subseteq users' \X users'
    BY <1>5 DEF Feeding, EventRows
<1>7. library' = [e \in Users \X Items |-> library'[e]]
  <2>1. DOMAIN library = Users \X Items
      BY DEF Feeding, Completing
  <2> QED BY <1>5, <2>1
<1>8. \A v \in leavers, i \in Items : <<v, i>> \in gone
    OBVIOUS
<1>9. events' = {x \in events : /\ x.review \notin {reviews[e].id : e \in gone} \ {0}
                                /\ x.user \notin leavers}
    BY <1>3, <1>4
<1> HIDE DEF gone, ids, leavers
<1> QED BY <1>1, <1>2, <1>5, <1>6, <1>7, <1>8, <1>9, FeedingByRemoval

LEMMA FeedingStep == Feeding /\ [Community!Next]_Community!vars => Feeding'
<1> SUFFICES ASSUME Feeding, [Community!Next]_Community!vars PROVE Feeding'
    OBVIOUS
<1> USE DEF Community!social, Community!ghosts, Community!counters
<1>1. CASE UNCHANGED Community!vars
    BY <1>1, FeedingUnchanged DEF Community!vars, feeding
<1>2. ASSUME NEW s \in Slots, Community!InFlight(s) PROVE Feeding'
  <2>1. CASE Community!WriteStatus(s)
      BY <2>1, FeedingByStatus
  <2>2. CASE Community!Fanout(s)
    <3>1. /\ Community!Goes(s, Community!Idle) /\ serial' = serial + 1
          /\ UNCHANGED <<events, users, follows, reviews, nextReview, completions, library, raced>>
        BY <2>2 DEF Community!Fanout
    <3>2. requests' = [requests EXCEPT ![s] = Community!Idle]
        BY <3>1 DEF Community!Goes
    <3>3. EventRows' /\ EventsOfReviews' /\ Identified'
        BY <3>1 DEF Feeding, EventRows, EventsOfReviews, Identified, Event
    <3>4. Completing'
        BY <3>1, <3>2 DEF Feeding, Completing, CompletionsOf, Community!Idle
    <3> QED BY <3>3, <3>4 DEF Feeding
  <2>3. CASE Community!FanoutFails(s)
      BY <2>3, FeedingByOthers DEF Community!FanoutFails, feeding, Community!Idle
  <2>4. CASE Community!CreateNotification(s)
    <3>1. /\ Community!Goes(s, Community!Idle) /\ serial' \in {serial, serial + 1}
          /\ UNCHANGED <<events, users, follows, reviews, nextReview, completions, library, raced>>
        BY <2>4 DEF Community!CreateNotification
    <3>2. requests' = [requests EXCEPT ![s] = Community!Idle]
        BY <3>1 DEF Community!Goes
    <3>3. EventRows' /\ EventsOfReviews' /\ Identified'
        BY <3>1 DEF Feeding, EventRows, EventsOfReviews, Identified, Event
    <3>4. Completing'
        BY <3>1, <3>2 DEF Feeding, Completing, CompletionsOf, Community!Idle
    <3> QED BY <3>3, <3>4 DEF Feeding
  <2>5. CASE Community!NotificationFails(s)
      BY <2>5, FeedingByOthers DEF Community!NotificationFails, feeding, Community!Idle
  <2>6. CASE Community!InsertReport(s) \/ Community!SelectExisting(s)
    <3> DEFINE found == [requests[s] EXCEPT !.step = "existing"]
    <3>1. /\ Community!Goes(s, Community!Idle) \/ Community!Goes(s, found)
          /\ requests[s].step \in {"report", "existing"}
        BY <2>6 DEF Community!InsertReport, Community!SelectExisting
    <3>2. found.step # "status"
        BY <3>1
    <3>3. UNCHANGED feeding
        BY <2>6 DEF Community!InsertReport, Community!SelectExisting, feeding
    <3>4. Community!Idle.step # "status"
        BY DEF Community!Idle
    <3> HIDE DEF found
    <3> QED BY <3>1, <3>2, <3>3, <3>4, FeedingByOthers
  <2>7. ASSUME NEW u \in Users, NEW i \in Items, NEW status, Community!ReadPrevious(s, u, i, status)
        PROVE  Feeding'
    <3>1. PICK r : Community!Goes(s, r) /\ r.user = u /\ r.item = i
        BY <2>7 DEF Community!ReadPrevious
    <3> QED BY <2>7, <3>1, FeedingByOthers DEF Community!ReadPrevious, feeding
  <2>8. ASSUME NEW u \in Users, NEW t \in Users, Community!FollowUser(s, u, t) PROVE Feeding'
    <3>1. PICK r : Community!Goes(s, r) /\ r.step # "status"
        BY <2>8 DEF Community!FollowUser, Community!Tell, Community!Idle
    <3>2. /\ u \in users /\ t \in users /\ follows' = follows \cup {<<u, t>>}
          /\ UNCHANGED <<serial, events, users, reviews, nextReview, completions, library, raced>>
        BY <2>8 DEF Community!FollowUser
    <3>3. requests' = [requests EXCEPT ![s] = r]
        BY <3>1 DEF Community!Goes
    <3>4. EventRows'
        BY <3>2 DEF Feeding, EventRows, Event
    <3>5. EventsOfReviews' /\ Identified'
        BY <3>2 DEF Feeding, EventsOfReviews, Identified
    <3>6. Completing'
        BY <3>1, <3>2, <3>3 DEF Feeding, Completing, CompletionsOf
    <3> QED BY <3>4, <3>5, <3>6 DEF Feeding
  <2>9. ASSUME NEW u \in Users, NEW id \in Community!ReviewIds,
           Community!LikeReview(s, u, id)
        PROVE  Feeding'
    <3>1. PICK r : Community!Goes(s, r) /\ r.step # "status"
        BY <2>9 DEF Community!LikeReview, Community!Tell, Community!Idle
    <3> QED BY <2>9, <3>1, FeedingByOthers DEF Community!LikeReview, feeding
  <2>10. ASSUME NEW u \in Users, NEW id \in Community!ReviewIds, Community!ReadReview(s, u, id)
         PROVE  Feeding'
    <3>1. PICK r : Community!Goes(s, r) /\ r.step # "status"
        BY <2>10 DEF Community!ReadReview
    <3> QED BY <2>10, <3>1, FeedingByOthers DEF Community!ReadReview, feeding
  <2> QED BY <1>2, <2>1, <2>2, <2>3, <2>4, <2>5, <2>6, <2>7, <2>8, <2>9, <2>10
         DEF Community!InFlight
<1>3. ASSUME Community!AtOnce PROVE Feeding'
  <2>1. ASSUME NEW u \in Users, NEW i \in Items, Community!RemoveEntry(u, i) PROVE Feeding'
    <3>1. /\ library' = [library EXCEPT ![<<u, i>>] = Community!None]
          /\ UNCHANGED <<serial, events, users, follows, reviews, nextReview, completions, raced,
                         requests>>
        BY <2>1 DEF Community!RemoveEntry
    <3>2. EventRows' /\ EventsOfReviews' /\ Identified'
        BY <3>1 DEF Feeding, EventRows, EventsOfReviews, Identified, Event
    <3>3. library' = [e \in Users \X Items |-> library'[e]]
        BY <3>1 DEF Feeding, Completing
    <3>4. Completing'
        BY <3>1, <3>3 DEF Feeding, Completing, CompletionsOf
    <3> QED BY <3>2, <3>4 DEF Feeding
  <2>2. ASSUME NEW u \in Users, NEW i \in Items, Community!DeleteRating(u, i) PROVE Feeding'
      BY <2>2, FeedingByDeleteRating
  <2>3. ASSUME NEW u \in Users, NEW i \in Items, NEW content \in BOOLEAN,
               Community!RateItem(u, i, content)
        PROVE  Feeding'
      BY <2>3, FeedingByRating
  <2>4. ASSUME NEW u \in Users, NEW t \in Users, Community!UnfollowUser(u, t) PROVE Feeding'
      BY <2>4 DEF Community!UnfollowUser, Feeding, EventRows, EventsOfReviews, Identified,
                  Completing,
                  CompletionsOf, Event
  <2>5. ASSUME NEW u \in Users, NEW id \in Community!ReviewIds, Community!UnlikeReview(u, id)
        PROVE  Feeding'
      BY <2>5, FeedingUnchanged DEF Community!UnlikeReview, feeding
  <2>6. ASSUME NEW u \in Users,
               \/ Community!MarkRead(u) \/ Community!SetUserBanned(u)
               \/ \E n \in notifications : Community!DeleteNotification(u, n)
        PROVE  Feeding'
      BY <2>6, FeedingUnchanged DEF Community!MarkRead, Community!SetUserBanned,
                                    Community!DeleteNotification, feeding
  <2>7. ASSUME NEW u \in Users, Community!DeleteUser(u) PROVE Feeding'
      BY <2>7, FeedingByLeaving
  <2>8. ASSUME NEW id \in Community!ReviewIds, Community!SetReviewHidden(id) PROVE Feeding'
      BY <2>8, FeedingUnchanged DEF Community!SetReviewHidden, feeding
  <2>9. ASSUME NEW r \in reports, Community!ResolveReport(r) PROVE Feeding'
      BY <2>9, FeedingUnchanged DEF Community!ResolveReport, feeding
  <2> QED BY <1>3, <2>1, <2>2, <2>3, <2>4, <2>5, <2>6, <2>7, <2>8, <2>9 DEF Community!AtOnce
<1> QED BY <1>1, <1>2, <1>3 DEF Community!Next

LEMMA CommunityStutters == UNCHANGED vars => UNCHANGED Community!vars
BY DEF vars, Community!vars, users, banned, library, reviews, hidden, events, follows, likes,
       notifications, reports, audit, requests, left, nextReview, serial, completions, raced,
       announced, told, lost, answered

(***************************************************************************)
(* A report that was acknowledged, by the INSERT or by the SELECT that     *)
(* found it, is there for as long as its reporter and its review are, and  *)
(* a resolved one has its entry in the audit log: ids of reviews are never *)
(* given twice, and rows go only with what they point to.                  *)
(***************************************************************************)
THEOREM ReportsStayFiled == Spec => []ReportsAreKept
<1> DEFINE Here == part = "community"
<1>1. Init /\ Here => Filing
  BY FilingInit DEF Init
<1>2. [Next]_vars /\ Here /\ Filing => Filing' /\ Here'
  BY FilingStep, CommunityStutters DEF Next, vars
<1>3. [Next]_vars /\ ~Here => ~Here'
  BY DEF Next, vars
<1>4. (Here => Filing) => ReportsAreKept
  BY DEF Filing, ReportsAreKept
<1> HIDE DEF Here
<1>5. QED
  BY <1>1, <1>2, <1>3, <1>4, PTL DEF Spec

(***************************************************************************)
(* However requests overlap, fail or are cut off, a follow or a like is    *)
(* announced by the one request that created it, and is told, about to be  *)
(* told or lost to a failure; the badge counts what the inbox lists.       *)
(***************************************************************************)
THEOREM NotificationsStaySound == Spec => []NotificationsAreSound
<1> DEFINE Here == part = "community"
<1>1. Init /\ Here => Announcing
  BY AnnouncingInit DEF Init
<1>2. [Next]_vars /\ Here /\ Announcing => Announcing' /\ Here'
  BY AnnouncingStep, CommunityStutters DEF Next, vars
<1>3. [Next]_vars /\ ~Here => ~Here'
  BY DEF Next, vars
<1>4. (Here => Announcing) => NotificationsAreSound
  BY AnnouncingImplies DEF NotificationsAreSound
<1> HIDE DEF Here
<1>5. QED
  BY <1>1, <1>2, <1>3, <1>4, PTL DEF Spec

(***************************************************************************)
(* The feed has one event per time an item became completed, and for a     *)
(* follower one per review with content that an author in good standing    *)
(* keeps visible, whatever was rated, emptied, hidden, deleted or banned.  *)
(***************************************************************************)
THEOREM FeedStaysConsistent == Spec => []FeedIsConsistent
<1> DEFINE Here == part = "community"
<1>1. Init /\ Here => Feeding
  BY FeedingInit DEF Init
<1>2. [Next]_vars /\ Here /\ Feeding => Feeding' /\ Here'
  BY FeedingStep, CommunityStutters DEF Next, vars
<1>3. [Next]_vars /\ ~Here => ~Here'
  BY DEF Next, vars
<1>4. (Here => Feeding) => FeedIsConsistent
  BY FeedingImplies DEF FeedIsConsistent
<1> HIDE DEF Here
<1>5. QED
  BY <1>1, <1>2, <1>3, <1>4, PTL DEF Spec

-----------------------------------------------------------------------------
(* The search: calls to the sources.                                        *)

Calls == [client : Clients, at : Nat, full : BOOLEAN]
Asking(r) == [step |-> r.step, client |-> r.client, page |-> r.page, found |-> r.found,
              whole |-> r.whole]
Served(r) == r = Asking(r) /\ (r.step # "idle" => r.client \in Clients /\ r.page \in Pages)

\* Positions of the calls for a client from t on.
Asked(c, t) == {k \in DOMAIN fanned : fanned[k].client = c /\ fanned[k].at >= t}
InSpan(c, t) == {k \in DOMAIN fanned : fanned[k].client = c /\ fanned[k].at \in t .. t + Window - 1}

\* The last m hits of a log are not older than t.
Newest(log, m, t) == m =< Len(log) /\ \A i \in Len(log) - m + 1 .. Len(log) : log[i] >= t

Timed ==
    /\ now \in Nat
    /\ fanned \in Seq(Calls) /\ \A k \in DOMAIN fanned : fanned[k].at =< now
    /\ req = [r \in Searches |-> req[r]]
    /\ \A r \in Searches : Served(req[r])

\* The log of a client knows of every call that may still count.
Logged ==
    /\ hits = [c \in Clients |-> hits[c]]
    /\ \A c \in Clients :
          /\ hits[c] \in Seq(Nat) /\ Len(hits[c]) =< Rate
          /\ \A t \in Int : t > now - Window => Newest(hits[c], Cardinality(Asked(c, t)), t)

Spaced == \A c \in Clients, t \in Int : Cardinality(InSpan(c, t)) =< Rate

Marked ==
    /\ marker \in Int /\ marker =< now + Ttl
    /\ \A k \in DOMAIN fanned : fanned[k].full => fanned[k].at + Ttl =< marker

Shielding == Timed /\ Logged /\ Spaced /\ Marked /\ Search!BurstFansOutOnce

LEMMA SameSearchCount == \A S : Search!Cardinality(S) = Cardinality(S)
BY DEF Search!Cardinality, Cardinality

LEMMA FinitelyMany ==
    ASSUME Timed, NEW c, NEW t
    PROVE  /\ DOMAIN fanned = 1 .. Len(fanned) /\ Len(fanned) \in Nat
           /\ IsFiniteSet(Asked(c, t)) /\ Cardinality(Asked(c, t)) \in Nat
           /\ IsFiniteSet(InSpan(c, t)) /\ Cardinality(InSpan(c, t)) \in Nat
<1>1. DOMAIN fanned = 1 .. Len(fanned) /\ Len(fanned) \in Nat
  BY LenProperties DEF Timed
<1>2. IsFiniteSet(DOMAIN fanned)
  BY <1>1, FS_Interval
<1>3. Asked(c, t) \subseteq DOMAIN fanned /\ InSpan(c, t) \subseteq DOMAIN fanned
  BY DEF Asked, InSpan
<1>4. IsFiniteSet(Asked(c, t)) /\ IsFiniteSet(InSpan(c, t))
  BY <1>2, <1>3, FS_Subset
<1>5. QED
  BY <1>1, <1>4, FS_CardinalityType

LEMMA CallsAre ==
    ASSUME Timed
    PROVE  \A k \in DOMAIN fanned : fanned[k] \in Calls /\ fanned[k].at \in Nat
<1>1. fanned \in [1 .. Len(fanned) -> Calls]
  BY LenProperties DEF Timed
<1>2. QED
  BY <1>1 DEF Calls

\* What is popped is the longest beginning of the log that is out of the window.
LEMMA SinceIs ==
    ASSUME NEW log \in Seq(Nat), NEW start \in Int
    PROVE  \E n \in 0 .. Len(log) :
              /\ Search!Since(log, start) \in Seq(Nat) /\ Len(Search!Since(log, start)) = Len(log) - n
              /\ \A i \in 1 .. Len(log) - n : Search!Since(log, start)[i] = log[i + n]
              /\ \A j \in 1 .. n : log[j] =< start
              /\ n < Len(log) => log[n + 1] > start
<1> DEFINE E == Search!Expired(log, start)
           n == Cardinality(E)
<1>1. Len(log) \in Nat /\ DOMAIN log = 1 .. Len(log) /\ \A i \in 1 .. Len(log) : log[i] \in Nat
  BY LenProperties, ElementOfSeq
<1>2. IsFiniteSet(1 .. Len(log)) /\ Cardinality(1 .. Len(log)) = Len(log)
  BY <1>1, FS_Interval
<1>3. E \subseteq 1 .. Len(log)
  BY <1>1 DEF Search!Expired
<1>4. IsFiniteSet(E) /\ n \in Nat /\ n =< Len(log)
  BY <1>2, <1>3, FS_Subset, FS_CardinalityType
<1>5. ASSUME NEW k \in E PROVE k =< n
  <2>1. 1 .. k \subseteq E
    BY <1>1 DEF Search!Expired
  <2>2. k \in Nat \ {0} /\ Cardinality(1 .. k) = k
    <3>1. k \in Nat \ {0}
      BY <1>1, <1>3
    <3>2. QED
      BY <3>1, FS_Interval
  <2>3. QED
    BY <1>4, <2>1, <2>2, FS_Subset
<1>6. E = 1 .. n
  <2>1. E \subseteq 1 .. n
    BY <1>1, <1>3, <1>4, <1>5
  <2>2. IsFiniteSet(1 .. n) /\ Cardinality(1 .. n) = n
    BY <1>4, FS_Interval
  <2>3. QED
    BY <2>1, <2>2, FS_Subset
<1>7. Search!Since(log, start) = SubSeq(log, n + 1, Len(log))
  BY SameSearchCount DEF Search!Since
<1> HIDE DEF n
<1>8. /\ Search!Since(log, start) \in Seq(Nat) /\ Len(Search!Since(log, start)) = Len(log) - n
      /\ \A i \in 1 .. Len(log) - n : Search!Since(log, start)[i] = log[i + n]
  <2>1. \A i \in n + 1 .. Len(log) : log[i] \in Nat
    BY <1>1, <1>4
  <2>2. /\ SubSeq(log, n + 1, Len(log)) \in Seq(Nat)
        /\ Len(SubSeq(log, n + 1, Len(log))) = IF n + 1 =< Len(log) THEN Len(log) - (n + 1) + 1 ELSE 0
        /\ \A i \in 1 .. Len(log) - (n + 1) + 1 :
              SubSeq(log, n + 1, Len(log))[i] = log[(n + 1) + i - 1]
    BY <1>1, <1>4, <2>1, SubSeqProperties
  <2>3. \A i \in 1 .. Len(log) - n : (n + 1) + i - 1 = i + n
    BY <1>1, <1>4
  <2>4. Len(log) - (n + 1) + 1 = Len(log) - n /\ (~(n + 1 =< Len(log)) => Len(log) - n = 0)
    <3>1. n \in Nat /\ n =< Len(log) /\ Len(log) \in Nat
      BY <1>1, <1>4
    <3>2. QED
      BY <3>1
  <2>5. Len(Search!Since(log, start)) = Len(log) - n
    BY <1>7, <2>2, <2>4
  <2>6. \A i \in 1 .. Len(log) - n : Search!Since(log, start)[i] = log[i + n]
    BY <1>7, <2>2, <2>3, <2>4
  <2>7. QED
    BY <1>7, <2>2, <2>5, <2>6
<1>9. \A j \in 1 .. n : log[j] =< start
  <2>1. \A j \in 1 .. n : j \in E /\ j \in 1 .. j
    BY <1>4, <1>6
  <2>2. QED
    BY <2>1 DEF Search!Expired
<1>10. ASSUME n < Len(log) PROVE log[n + 1] > start
  <2>1. n + 1 \notin E /\ n + 1 \in 1 .. Len(log)
    BY <1>4, <1>1, <1>6, <1>10
  <2>2. PICK j \in 1 .. n + 1 : ~(log[j] =< start)
    BY <1>1, <2>1 DEF Search!Expired
  <2>3. j = n + 1
    BY <1>4, <1>9, <2>2
  <2>4. QED
    BY <1>1, <2>1, <2>2, <2>3
<1>11. n \in 0 .. Len(log)
  BY <1>4, <1>1
<1>12. QED
  BY <1>8, <1>9, <1>10, <1>11

LEMMA InWindowIs ==
    ASSUME Timed, Logged, Window \in Nat \ {0}, NEW c \in Clients
    PROVE  /\ Search!InWindow(hits[c]) \in Seq(Nat) /\ Len(Search!InWindow(hits[c])) =< Len(hits[c])
           /\ Len(Search!InWindow(hits[c])) \in Nat
           /\ Len(Search!InWindow(hits[c])) > 0 => Search!InWindow(hits[c])[1] > now - Window
           /\ \A t \in Int : t > now - Window =>
                 Newest(Search!InWindow(hits[c]), Cardinality(Asked(c, t)), t)
<1> DEFINE log == hits[c]
           kept == Search!InWindow(log)
<1>1. log \in Seq(Nat) /\ Len(log) \in Nat /\ now - Window \in Int
  BY LenProperties DEF Logged, Timed
<1>2. PICK n \in 0 .. Len(log) :
         /\ kept \in Seq(Nat) /\ Len(kept) = Len(log) - n
         /\ \A i \in 1 .. Len(log) - n : kept[i] = log[i + n]
         /\ \A j \in 1 .. n : log[j] =< now - Window
         /\ n < Len(log) => log[n + 1] > now - Window
  BY <1>1, SinceIs DEF Search!InWindow
<1> HIDE DEF kept
<1>3. Len(kept) > 0 => kept[1] > now - Window
  <2> SUFFICES ASSUME Len(kept) > 0 PROVE kept[1] > now - Window
    OBVIOUS
  <2>1. 1 \in 1 .. Len(log) - n /\ n < Len(log)
    <3>1. Len(log) \in Nat /\ n \in Nat /\ Len(log) - n > 0
      BY <1>1, <1>2
    <3>2. QED
      BY <3>1
  <2>2. kept[1] = log[1 + n] /\ 1 + n = n + 1
    BY <1>1, <1>2, <2>1
  <2>3. QED
    BY <1>2, <2>1, <2>2
<1>4. ASSUME NEW t \in Int, t > now - Window PROVE Newest(kept, Cardinality(Asked(c, t)), t)
  <2> DEFINE m == Cardinality(Asked(c, t))
  <2>1. m \in Nat /\ m =< Len(log) /\ \A i \in Len(log) - m + 1 .. Len(log) : log[i] >= t
    BY <1>4, FinitelyMany DEF Logged, Newest
  <2> HIDE DEF m
  <2>2. m =< Len(kept)
    <3>1. CASE m = 0
      BY <1>1, <1>2, <3>1
    <3>2. CASE m > 0
      <4> DEFINE i == Len(log) - m + 1
      <4>1. i \in Len(log) - m + 1 .. Len(log) /\ i \in 1 .. Len(log)
        <5>1. Len(log) \in Nat /\ m \in Nat /\ m =< Len(log) /\ m > 0
          BY <1>1, <2>1, <3>2
        <5>2. QED
          BY <5>1
      <4>2. log[i] >= t /\ log[i] \in Nat
        BY <1>1, <2>1, <4>1, ElementOfSeq
      <4>3. ~(log[i] =< now - Window)
        BY <1>1, <1>4, <4>2
      <4>4. i \notin 1 .. n
        BY <1>2, <4>3
      <4>5. n < i
        <5> HIDE DEF i
        <5>1. QED
          BY <1>1, <1>2, <4>1, <4>4
      <4>6. Len(log) \in Nat /\ n \in Nat /\ m \in Nat /\ Len(kept) = Len(log) - n
        BY <1>1, <1>2, <2>1
      <4>7. QED
        BY <4>5, <4>6
    <3>3. QED
      BY <2>1, <3>1, <3>2
  <2>3. ASSUME NEW i \in Len(kept) - m + 1 .. Len(kept) PROVE kept[i] >= t
    <3>1. i \in 1 .. Len(log) - n /\ i + n \in Len(log) - m + 1 .. Len(log)
      <4>1. Len(log) \in Nat /\ n \in Nat /\ Len(kept) = Len(log) - n /\ m \in Nat /\ m =< Len(kept)
        BY <1>1, <1>2, <2>1, <2>2
      <4>2. QED
        BY <4>1
    <3>2. QED
      BY <1>2, <2>1, <3>1
  <2>4. QED
    BY <2>2, <2>3 DEF Newest, m
<1>5. Len(kept) \in Nat /\ Len(kept) =< Len(log)
  BY <1>1, <1>2
<1>6. kept \in Seq(Nat)
  BY <1>2
<1>7. QED
  BY <1>3, <1>4, <1>5, <1>6 DEF kept

-----------------------------------------------------------------------------
(* The steps.                                                               *)

\* Steps that call no source and move no clock; hits out of the window may be dropped.
LEMMA ShieldingByRest ==
    ASSUME Shielding, UNCHANGED <<now, fanned, marker>>,
           req' = [r \in Searches |-> req'[r]],
           \A r \in Searches : Served(req'[r]),
           \/ UNCHANGED hits
           \/ \E c \in Clients : hits' = [hits EXCEPT ![c] = Search!InWindow(hits[c])]
    PROVE  Shielding'
<1>1. Timed'
  BY DEF Shielding, Timed
<1>2. \A c, t : Asked(c, t)' = Asked(c, t) /\ InSpan(c, t)' = InSpan(c, t)
  BY DEF Asked, InSpan
<1>3. Logged'
  <2>1. CASE UNCHANGED hits
    BY <1>2, <2>1 DEF Shielding, Logged
  <2>2. ASSUME NEW c \in Clients, hits' = [hits EXCEPT ![c] = Search!InWindow(hits[c])] PROVE Logged'
    <3>1. \A d \in Clients : hits'[d] = IF d = c THEN Search!InWindow(hits[c]) ELSE hits[d]
      BY <2>2 DEF Shielding, Logged
    <3>2. hits' = [d \in Clients |-> hits'[d]]
      BY <2>2 DEF Shielding, Logged
    <3>3. ASSUME NEW d \in Clients
          PROVE  /\ hits'[d] \in Seq(Nat) /\ Len(hits'[d]) =< Rate
                 /\ \A t \in Int : t > now - Window => Newest(hits'[d], Cardinality(Asked(d, t)), t)
      <4>1. CASE d # c
        BY <3>1, <4>1 DEF Shielding, Logged
      <4>2. CASE d = c
        <5>1. Len(hits[c]) \in Nat /\ Len(hits[c]) =< Rate
          BY LenProperties DEF Shielding, Logged
        <5>2. /\ Search!InWindow(hits[c]) \in Seq(Nat) /\ Len(Search!InWindow(hits[c])) =< Len(hits[c])
              /\ Len(Search!InWindow(hits[c])) \in Nat
              /\ \A t \in Int : t > now - Window =>
                    Newest(Search!InWindow(hits[c]), Cardinality(Asked(c, t)), t)
          BY InWindowIs, SearchAssumption DEF Shielding
        <5>3. Len(Search!InWindow(hits[c])) =< Rate
          BY <5>1, <5>2, SearchAssumption
        <5>4. QED
          BY <3>1, <4>2, <5>2, <5>3
      <4>3. QED
        BY <4>1, <4>2
    <3>4. QED
      BY <1>2, <3>2, <3>3 DEF Logged
  <2>3. QED
    BY <2>1, <2>2
<1>4. Spaced' /\ Marked' /\ Search!BurstFansOutOnce'
  BY <1>2 DEF Shielding, Spaced, Marked, Search!BurstFansOutOnce
<1>5. QED
  BY <1>1, <1>3, <1>4 DEF Shielding

LEMMA ShieldingByTick == ASSUME Shielding, Search!Tick PROVE Shielding'
<1>1. now \in Nat /\ now' = now + 1 /\ UNCHANGED <<catalog, marker, hits, req, fanned, served, faults>>
  BY DEF Search!Tick, Shielding, Timed
<1>2. Timed'
  <2>1. \A k \in DOMAIN fanned : fanned[k].at \in Nat
    BY CallsAre DEF Shielding
  <2>2. \A k \in DOMAIN fanned : fanned[k].at =< now + 1
    BY <1>1, <2>1 DEF Shielding, Timed
  <2>3. now' \in Nat /\ fanned' = fanned /\ req' = req
    BY <1>1
  <2>4. QED
    BY <1>1, <2>2, <2>3 DEF Shielding, Timed
<1>3. \A c, t : Asked(c, t)' = Asked(c, t) /\ InSpan(c, t)' = InSpan(c, t)
  BY <1>1 DEF Asked, InSpan
<1>4. Logged'
  <2>1. \A t \in Int : t > now + 1 - Window => t > now - Window
    BY <1>1, SearchAssumption
  <2>2. \A c \in Clients, t \in Int : t > now + 1 - Window => Newest(hits[c], Cardinality(Asked(c, t)), t)
    BY <2>1 DEF Shielding, Logged
  <2>3. hits' = hits /\ now' = now + 1
    BY <1>1
  <2>4. ASSUME NEW c \in Clients, NEW t \in Int, t > now' - Window
        PROVE  Newest(hits'[c], Cardinality(Asked(c, t)'), t)
    <3>1. t > now + 1 - Window /\ hits'[c] = hits[c]
      BY <1>1, <2>3, <2>4, SearchAssumption
    <3>2. Asked(c, t)' = Asked(c, t)
      BY <1>3
    <3>3. QED
      BY <2>2, <3>1, <3>2
  <2>5. QED
    BY <2>3, <2>4 DEF Shielding, Logged, Newest
<1>5. Spaced' /\ Marked' /\ Search!BurstFansOutOnce'
  BY <1>1, <1>3, SearchAssumption DEF Shielding, Spaced, Marked, Search!BurstFansOutOnce
<1>6. QED
  BY <1>2, <1>4, <1>5 DEF Shielding

LEMMA AskedNext ==
    ASSUME Timed, NEW f, fanned' = Append(fanned, f), f \in Calls
    PROVE  /\ fanned' \in Seq(Calls) /\ Len(fanned') = Len(fanned) + 1
           /\ DOMAIN fanned' = DOMAIN fanned \cup {Len(fanned) + 1}
           /\ Len(fanned) + 1 \notin DOMAIN fanned
           /\ \A k \in DOMAIN fanned : fanned'[k] = fanned[k]
           /\ fanned'[Len(fanned) + 1] = f
           /\ \A c, t : Asked(c, t)' = IF f.client = c /\ f.at >= t
                 THEN Asked(c, t) \cup {Len(fanned) + 1} ELSE Asked(c, t)
           /\ \A c, t : InSpan(c, t)' = IF f.client = c /\ f.at \in t .. t + Window - 1
                 THEN InSpan(c, t) \cup {Len(fanned) + 1} ELSE InSpan(c, t)
<1>1. /\ fanned \in Seq(Calls) /\ Len(fanned) \in Nat /\ DOMAIN fanned = 1 .. Len(fanned)
  BY LenProperties DEF Timed
<1>2. /\ fanned' \in Seq(Calls) /\ Len(fanned') = Len(fanned) + 1
      /\ \A i \in 1 .. Len(fanned) : fanned'[i] = fanned[i]
      /\ fanned'[Len(fanned) + 1] = f
  BY <1>1, AppendProperties
<1>3. DOMAIN fanned' = 1 .. Len(fanned) + 1
  BY <1>2, LenProperties
<1>4. /\ DOMAIN fanned' = DOMAIN fanned \cup {Len(fanned) + 1}
      /\ Len(fanned) + 1 \notin DOMAIN fanned
  BY <1>1, <1>3
<1> DEFINE n == Len(fanned) + 1
<1>5. \A k \in DOMAIN fanned : fanned'[k] = fanned[k]
  BY <1>1, <1>2
<1>6. fanned'[n] = f /\ DOMAIN fanned' = DOMAIN fanned \cup {n} /\ n \notin DOMAIN fanned
  BY <1>2, <1>4
<1> HIDE DEF n
<1>7. ASSUME NEW c, NEW t
      PROVE  Asked(c, t)' = IF f.client = c /\ f.at >= t THEN Asked(c, t) \cup {n} ELSE Asked(c, t)
  BY <1>5, <1>6 DEF Asked
<1>8. ASSUME NEW c, NEW t
      PROVE  InSpan(c, t)' = IF f.client = c /\ f.at \in t .. t + Window - 1
                 THEN InSpan(c, t) \cup {n} ELSE InSpan(c, t)
  BY <1>5, <1>6 DEF InSpan
<1>9. QED
  BY <1>2, <1>4, <1>5, <1>7, <1>8 DEF n

LEMMA ShieldingByFanOut ==
    ASSUME Shielding, NEW r \in Searches, Search!FanOut(r)
    PROVE  Shielding'
<1> DEFINE c == req[r].client
           log == Search!InWindow(hits[c])
           full == req[r].page = 1 /\ ~Search!Incomplete(r)
           f == [client |-> c, at |-> now, full |-> full]
<1>1. /\ req[r].step = "decide" /\ Search!ShouldFanOut(r) /\ ~Search!Full(c)
      /\ hits' = [hits EXCEPT ![c] = Append(Search!InWindow(hits[c]), now)]
      /\ Search!Mark(r) /\ fanned' = Append(fanned, f)
      /\ req' = [req EXCEPT ![r].step = "ingest"] /\ now' = now
  BY DEF Search!FanOut, Search!Consume
<1>2. now \in Nat /\ c \in Clients /\ req[r].page \in Pages
  BY <1>1 DEF Shielding, Timed, Served
<1>3. f \in Calls /\ f.client = c /\ f.at = now /\ f.full = full
  <2>1. full \in BOOLEAN
    OBVIOUS
  <2> HIDE DEF full
  <2>2. QED
    BY <1>2, <2>1 DEF Calls
<1> HIDE DEF f
<1> DEFINE n == Len(fanned) + 1
<1>4. /\ fanned' \in Seq(Calls)
      /\ DOMAIN fanned' = DOMAIN fanned \cup {n} /\ n \notin DOMAIN fanned
      /\ \A k \in DOMAIN fanned : fanned'[k] = fanned[k]
      /\ fanned'[n] = f
      /\ \A d, t : Asked(d, t)' = IF c = d /\ now >= t THEN Asked(d, t) \cup {n} ELSE Asked(d, t)
      /\ \A d, t : InSpan(d, t)' = IF c = d /\ now \in t .. t + Window - 1
                                   THEN InSpan(d, t) \cup {n} ELSE InSpan(d, t)
  BY <1>1, <1>3, AskedNext DEF Shielding
<1>5. DOMAIN fanned = 1 .. Len(fanned) /\ Len(fanned) \in Nat
  BY FinitelyMany DEF Shielding
<1>6. Timed'
  <2>1. \A k \in DOMAIN fanned' : fanned'[k].at =< now'
    BY <1>1, <1>2, <1>3, <1>4 DEF Shielding, Timed
  <2>2. /\ req' = [q \in Searches |-> req'[q]]
        /\ \A q \in Searches : q # r => req'[q] = req[q]
        /\ req'[r] = [req[r] EXCEPT !.step = "ingest"]
    BY <1>1 DEF Shielding, Timed
  <2>3. req[r] = Asking(req[r])
    BY DEF Shielding, Timed, Served
  <2>4. req'[r] = Asking(req'[r]) /\ req'[r].client = c /\ req'[r].page = req[r].page
    BY <2>2, <2>3 DEF Asking
  <2>5. \A q \in Searches : Served(req'[q])
    <3>1. Served(req'[r])
      BY <1>2, <2>4 DEF Served
    <3>2. \A q \in Searches : q # r => Served(req'[q])
      BY <2>2 DEF Shielding, Timed
    <3>3. QED
      BY <3>1, <3>2
  <2>6. now' \in Nat /\ fanned' \in Seq(Calls)
    BY <1>1, <1>2, <1>4
  <2>7. req' = [q \in Searches |-> req'[q]]
    BY <2>2
  <2>8. QED
    BY <2>1, <2>5, <2>6, <2>7 DEF Timed
<1>7. /\ log \in Seq(Nat) /\ Len(log) \in Nat /\ Len(log) < Rate
      /\ \A t \in Int : t > now - Window => Newest(log, Cardinality(Asked(c, t)), t)
  <2>1. ~(Len(log) >= Rate)
    BY <1>1 DEF Search!Full
  <2>2. QED
    BY <1>2, <2>1, InWindowIs, SearchAssumption DEF Shielding
<1>8. /\ Append(log, now) \in Seq(Nat) /\ Len(Append(log, now)) = Len(log) + 1
      /\ \A i \in 1 .. Len(log) : Append(log, now)[i] = log[i]
      /\ Append(log, now)[Len(log) + 1] = now
  BY <1>2, <1>7, AppendProperties
<1>9. Logged'
  <2>1. \A d \in Clients : hits'[d] = IF d = c THEN Append(log, now) ELSE hits[d]
    BY <1>1 DEF Shielding, Logged
  <2>2. hits' = [d \in Clients |-> hits'[d]]
    BY <1>1 DEF Shielding, Logged
  <2>3. ASSUME NEW d \in Clients
        PROVE  /\ hits'[d] \in Seq(Nat) /\ Len(hits'[d]) =< Rate
               /\ \A t \in Int : t > now - Window => Newest(hits'[d], Cardinality(Asked(d, t)'), t)
    <3>1. CASE d # c
      <4>1. hits'[d] = hits[d] /\ \A t : Asked(d, t)' = Asked(d, t)
        BY <1>4, <2>1, <3>1
      <4>2. QED
        BY <4>1 DEF Shielding, Logged
    <3>2. CASE d = c
      <4> DEFINE next == Append(log, now)
      <4>1. hits'[d] = next
        BY <2>1, <3>2
      <4>2. Len(next) =< Rate
        BY <1>7, <1>8, SearchAssumption
      <4>3. ASSUME NEW t \in Int, t > now - Window
            PROVE  Newest(next, Cardinality(Asked(d, t)'), t)
        <5> DEFINE m == Cardinality(Asked(c, t))
        <5>1. m \in Nat /\ IsFiniteSet(Asked(c, t)) /\ n \notin Asked(c, t)
          <6>1. m \in Nat /\ IsFiniteSet(Asked(c, t))
            BY FinitelyMany DEF Shielding
          <6>2. n \notin Asked(c, t)
            BY <1>4 DEF Asked
          <6>3. QED
            BY <6>1, <6>2
        <5>2. m =< Len(log) /\ \A i \in Len(log) - m + 1 .. Len(log) : log[i] >= t
          BY <1>7, <4>3 DEF Newest
        <5>3. CASE now >= t
          <6>1. Cardinality(Asked(d, t)') = m + 1
            BY <1>4, <3>2, <5>1, <5>3, FS_AddElement
          <6> HIDE DEF m, next
          <6>2. ASSUME NEW i \in Len(next) - (m + 1) + 1 .. Len(next) PROVE next[i] >= t
            <7>1. CASE i = Len(log) + 1
              BY <1>8, <5>3, <7>1 DEF next
            <7>2. CASE i # Len(log) + 1
              <8>1. i \in Len(log) - m + 1 .. Len(log) /\ i \in 1 .. Len(log)
                BY <1>7, <1>8, <5>1, <5>2, <7>2 DEF next
              <8>2. QED
                BY <1>8, <5>2, <8>1 DEF next
            <7>3. QED
              BY <7>1, <7>2
          <6>3. m + 1 =< Len(next)
            BY <1>7, <1>8, <5>1, <5>2 DEF next
          <6>4. QED
            BY <6>1, <6>2, <6>3 DEF Newest
        <5>4. CASE ~(now >= t)
          <6>1. Asked(d, t)' = Asked(c, t)
            BY <1>4, <3>2, <5>4
          <6>2. Asked(c, t) = {}
            <7>1. \A k \in DOMAIN fanned : fanned[k].at \in Nat /\ fanned[k].at =< now
              <8>1. \A k \in DOMAIN fanned : fanned[k].at \in Nat
                BY CallsAre DEF Shielding
              <8>2. \A k \in DOMAIN fanned : fanned[k].at =< now
                BY DEF Shielding, Timed
              <8>3. QED
                BY <8>1, <8>2
            <7>2. QED
              BY <1>2, <5>4, <7>1 DEF Asked
          <6>3. Cardinality(Asked(d, t)') = 0
            BY <6>1, <6>2, FS_EmptySet
          <6> HIDE DEF next
          <6>4. Len(next) \in Nat
            BY <1>7, <1>8 DEF next
          <6>5. QED
            BY <6>3, <6>4 DEF Newest
        <5>5. QED
          BY <5>3, <5>4
      <4>4. QED
        BY <1>8, <4>1, <4>2, <4>3
    <3>3. QED
      BY <3>1, <3>2
  <2>4. QED
    BY <1>1, <2>2, <2>3 DEF Logged
<1>10. Spaced'
  <2>1. ASSUME NEW d \in Clients, NEW t \in Int PROVE Cardinality(InSpan(d, t)') =< Rate
    <3>1. CASE c = d /\ now \in t .. t + Window - 1
      <4>1. t > now - Window /\ now >= t
        BY <1>2, <3>1, SearchAssumption
      <4>2. InSpan(d, t) \subseteq Asked(c, t)
        <5>1. \A k \in DOMAIN fanned : fanned[k].at \in Nat
          BY CallsAre DEF Shielding
        <5>2. QED
          BY <3>1, <5>1 DEF InSpan, Asked
      <4>3. /\ IsFiniteSet(Asked(c, t)) /\ Cardinality(Asked(c, t)) \in Nat
            /\ IsFiniteSet(InSpan(d, t)) /\ Cardinality(InSpan(d, t)) \in Nat
        BY FinitelyMany DEF Shielding
      <4>4. Cardinality(InSpan(d, t)) =< Cardinality(Asked(c, t))
        BY <4>2, <4>3, FS_Subset
      <4>5. Cardinality(Asked(c, t)) =< Len(log)
        BY <1>7, <4>1 DEF Newest
      <4>6. InSpan(d, t)' = InSpan(d, t) \cup {n} /\ n \notin InSpan(d, t)
        <5>1. InSpan(d, t)' = InSpan(d, t) \cup {n}
          BY <1>4, <3>1
        <5>2. n \notin InSpan(d, t)
          BY <1>4 DEF InSpan
        <5>3. QED
          BY <5>1, <5>2
      <4>7. Cardinality(InSpan(d, t)') = Cardinality(InSpan(d, t)) + 1
        BY <4>3, <4>6, FS_AddElement
      <4>8. QED
        BY <1>7, <4>3, <4>4, <4>5, <4>7, SearchAssumption
    <3>2. CASE ~(c = d /\ now \in t .. t + Window - 1)
      BY <1>4, <3>2 DEF Shielding, Spaced
    <3>3. QED
      BY <3>1, <3>2
  <2>2. QED
    BY <2>1 DEF Spaced
<1>11. marker' \in Int /\ marker =< marker' /\ marker' =< now + Ttl /\ (full => marker' = now + Ttl)
  BY <1>1, <1>2, SearchAssumption DEF Search!Mark, Shielding, Marked
<1>12. \A k \in DOMAIN fanned : fanned[k].at \in Nat
  BY CallsAre DEF Shielding
<1>13. full => marker =< now
  BY <1>1, <1>2 DEF Search!ShouldFanOut, Search!CheckedRecently, Shielding, Marked
<1>14. Marked'
  <2>1. ASSUME NEW k \in DOMAIN fanned', fanned'[k].full PROVE fanned'[k].at + Ttl =< marker'
    <3>1. CASE k = n
      BY <1>2, <1>3, <1>4, <1>11, <2>1, <3>1, SearchAssumption
    <3>2. CASE k \in DOMAIN fanned
      <4>1. fanned[k].at + Ttl =< marker
        BY <1>4, <2>1, <3>2 DEF Shielding, Marked
      <4>2. QED
        BY <1>4, <1>11, <1>12, <3>2, <4>1, SearchAssumption DEF Shielding, Marked
    <3>3. QED
      BY <1>4, <3>1, <3>2
  <2>2. QED
    BY <1>1, <1>11, <2>1 DEF Marked
<1>15. Search!BurstFansOutOnce'
  <2>1. ASSUME NEW j \in DOMAIN fanned', NEW k \in DOMAIN fanned', j < k,
               fanned'[j].full, fanned'[k].full
        PROVE  fanned'[k].at - fanned'[j].at >= Ttl
    <3>1. j \in DOMAIN fanned /\ fanned'[j] = fanned[j]
      BY <1>4, <1>5, <2>1
    <3>2. CASE k \in DOMAIN fanned
      BY <1>4, <2>1, <3>1, <3>2 DEF Shielding, Search!BurstFansOutOnce
    <3>3. CASE k = n
      <4>1. fanned'[k].at = now /\ full
        BY <1>3, <1>4, <2>1, <3>3
      <4>2. fanned[j].at + Ttl =< marker
        BY <2>1, <3>1 DEF Shielding, Marked
      <4>3. QED
        BY <1>2, <1>12, <1>13, <3>1, <4>1, <4>2, SearchAssumption DEF Shielding, Marked
    <3>4. QED
      BY <1>4, <3>2, <3>3
  <2>2. QED
    BY <2>1 DEF Search!BurstFansOutOnce
<1>16. QED
  BY <1>6, <1>9, <1>10, <1>14, <1>15 DEF Shielding

LEMMA OthersMove ==
    ASSUME Shielding, NEW r \in Searches, NEW q, req' = [req EXCEPT ![r] = q], Served(q)
    PROVE  /\ req' = [o \in Searches |-> req'[o]]
           /\ \A o \in Searches : Served(req'[o])
<1>1. req' = [o \in Searches |-> req'[o]] /\ \A o \in Searches : req'[o] = IF o = r THEN q ELSE req[o]
  BY DEF Shielding, Timed
<1>2. QED
  BY <1>1 DEF Shielding, Timed

LEMMA IdleServed == Served(Search!Idle)
BY DEF Served, Search!Idle, Asking

LEMMA ShieldingByOthers ==
    ASSUME Shielding, NEW r \in Searches,
           \/ \E c \in Clients, p \in Pages : Search!Ask(r, c, p)
           \/ Search!AnswerLocally(r) \/ Search!Refuse(r) \/ Search!Ingest(r) \/ Search!Answer(r)
    PROVE  Shielding'
<1>1. ASSUME NEW c \in Clients, NEW p \in Pages, Search!Ask(r, c, p) PROVE Shielding'
  <2> DEFINE q == [Search!Idle EXCEPT !.step = "decide", !.client = c, !.page = p,
                               !.found = Search!Cardinality(Search!OnPage(p))]
  <2>1. req' = [req EXCEPT ![r] = q] /\ UNCHANGED <<now, fanned, marker, hits>>
    BY <1>1 DEF Search!Ask
  <2>2. Served(q)
    <3> DEFINE n == Search!Cardinality(Search!OnPage(p))
    <3>1. q = [Search!Idle EXCEPT !.step = "decide", !.client = c, !.page = p, !.found = n]
      OBVIOUS
    <3> HIDE DEF n, q
    <3>2. q = [step |-> "decide", client |-> c, page |-> p, found |-> n, whole |-> TRUE]
      BY <3>1 DEF Search!Idle
    <3>3. QED
      BY <3>2 DEF Served, Asking
  <2> HIDE DEF q
  <2>3. req' = [o \in Searches |-> req'[o]] /\ \A o \in Searches : Served(req'[o])
    BY <2>1, <2>2, OthersMove
  <2>4. QED
    BY <2>1, <2>3, ShieldingByRest
<1>2. ASSUME Search!AnswerLocally(r) \/ Search!Answer(r) PROVE Shielding'
  <2>1. req' = [req EXCEPT ![r] = Search!Idle] /\ UNCHANGED <<now, fanned, marker, hits>>
    BY <1>2 DEF Search!AnswerLocally, Search!Answer
  <2>2. req' = [o \in Searches |-> req'[o]] /\ \A o \in Searches : Served(req'[o])
    BY <2>1, IdleServed, OthersMove
  <2>3. QED
    BY <2>1, <2>2, ShieldingByRest
<1>3. ASSUME Search!Refuse(r) PROVE Shielding'
  <2>1. /\ req' = [req EXCEPT ![r] = Search!Idle] /\ UNCHANGED <<now, fanned, marker>>
        /\ hits' = [hits EXCEPT ![req[r].client] = Search!InWindow(hits[req[r].client])]
        /\ req[r].step = "decide"
    BY <1>3 DEF Search!Refuse
  <2>2. req[r].client \in Clients
    BY <2>1 DEF Shielding, Timed, Served
  <2>3. req' = [o \in Searches |-> req'[o]] /\ \A o \in Searches : Served(req'[o])
    BY <2>1, IdleServed, OthersMove
  <2>4. QED
    BY <2>1, <2>2, <2>3, ShieldingByRest
<1>4. ASSUME Search!Ingest(r) PROVE Shielding'
  <2>1. PICK gone \in {{}} \cup SUBSET Search!Candidates(req[r].page) :
            req' = [req EXCEPT ![r].step = "answer", ![r].whole = gone = {}]
    BY <1>4 DEF Search!Ingest
  <2> DEFINE w == gone = {}
             q == [req[r] EXCEPT !.step = "answer", !.whole = w]
  <2>2. req' = [req EXCEPT ![r] = q] /\ UNCHANGED <<now, fanned, marker, hits>>
    BY <1>4, <2>1 DEF Search!Ingest, Shielding, Timed
  <2>3. req[r] = Asking(req[r]) /\ req[r].step = "ingest"
    BY <1>4 DEF Search!Ingest, Shielding, Timed, Served
  <2>4. req[r].client \in Clients /\ req[r].page \in Pages
    BY <2>3 DEF Shielding, Timed, Served
  <2> HIDE DEF w
  <2>5. Served(q)
    <3> DEFINE t == req[r]
    <3>1. q = [t EXCEPT !.step = "answer", !.whole = w] /\ t = Asking(t)
      BY <2>3
    <3> HIDE DEF t, q
    <3>2. q = [step |-> "answer", client |-> t.client, page |-> t.page, found |-> t.found, whole |-> w]
      BY <3>1 DEF Asking
    <3>3. q = Asking(q) /\ q.client = t.client /\ q.page = t.page
      BY <3>2 DEF Asking
    <3>4. QED
      BY <2>4, <3>3 DEF Served, t
  <2> HIDE DEF q
  <2>6. req' = [o \in Searches |-> req'[o]] /\ \A o \in Searches : Served(req'[o])
    BY <2>2, <2>5, OthersMove
  <2>7. QED
    BY <2>2, <2>6, ShieldingByRest
<1>5. QED
  BY <1>1, <1>2, <1>3, <1>4

LEMMA ShieldingInit == Search!Init => Shielding
<1> SUFFICES ASSUME Search!Init PROVE Shielding
  OBVIOUS
<1>1. now = 0 /\ marker = 0 /\ hits = [c \in Clients |-> <<>>] /\ fanned = <<>>
      /\ req = [r \in Searches |-> Search!Idle]
  BY DEF Search!Init
<1>2. fanned \in Seq(Calls) /\ Len(fanned) = 0 /\ DOMAIN fanned = {}
  <2>1. fanned \in Seq(Calls) /\ Len(fanned) = 0
    BY <1>1, EmptySeq
  <2>2. DOMAIN fanned = 1 .. 0
    BY <2>1, LenProperties
  <2>3. QED
    BY <2>1, <2>2
<1>3. Timed
  <2>1. \A r \in Searches : Served(req[r])
    BY <1>1, IdleServed
  <2>2. req = [r \in Searches |-> req[r]]
    BY <1>1
  <2>3. QED
    BY <1>1, <1>2, <2>1, <2>2 DEF Timed
<1>4. \A c, t : Asked(c, t) = {} /\ InSpan(c, t) = {}
  BY <1>2 DEF Asked, InSpan
<1>5. Cardinality({}) = 0
  BY FS_EmptySet
<1>6. Logged
  <2>1. \A c \in Clients : hits[c] = <<>> /\ hits[c] \in Seq(Nat) /\ Len(hits[c]) = 0
    BY <1>1, EmptySeq
  <2>2. \A c \in Clients : \A t \in Int : Newest(hits[c], Cardinality(Asked(c, t)), t)
    <3>1. ASSUME NEW c \in Clients, NEW t \in Int PROVE Newest(hits[c], Cardinality(Asked(c, t)), t)
      <4>1. Cardinality(Asked(c, t)) = 0 /\ Len(hits[c]) = 0
        BY <1>4, <1>5, <2>1
      <4>2. QED
        BY <4>1 DEF Newest
    <3>2. QED
      BY <3>1
  <2>3. hits = [c \in Clients |-> hits[c]]
    BY <1>1
  <2>4. QED
    BY <2>1, <2>2, <2>3, SearchAssumption DEF Logged
<1>7. Spaced
  BY <1>4, <1>5, SearchAssumption DEF Spaced
<1>8. Marked /\ Search!BurstFansOutOnce
  BY <1>1, <1>2, SearchAssumption DEF Marked, Search!BurstFansOutOnce
<1>9. QED
  BY <1>3, <1>6, <1>7, <1>8 DEF Shielding

LEMMA ShieldingKept == Shielding /\ [Search!Next]_Search!vars => Shielding'
<1> SUFFICES ASSUME Shielding, [Search!Next]_Search!vars PROVE Shielding'
  OBVIOUS
<1>1. CASE UNCHANGED Search!vars
  <2>1. UNCHANGED <<now, fanned, marker, hits, req>>
    BY <1>1 DEF Search!vars
  <2>2. QED
    BY <2>1, ShieldingByRest DEF Shielding, Timed
<1>2. CASE Search!Next
  BY <1>2, ShieldingByTick, ShieldingByFanOut, ShieldingByOthers DEF Search!Next
<1>3. QED
  BY <1>1, <1>2

LEMMA Honest == Shielding => Search!RetryAfterIsHonest
<1> SUFFICES ASSUME Shielding, NEW c \in Clients, Search!Full(c)
             PROVE  LET log == Search!InWindow(hits[c])
                        back == now + Search!RetryAfter(log)
                    IN  Cardinality({k \in DOMAIN log : log[k] > back - Window}) < Rate
  BY SameSearchCount, Zenon DEF Search!RetryAfterIsHonest
<1> DEFINE log == Search!InWindow(hits[c])
           later == {k \in DOMAIN log : log[k] > (now + Search!RetryAfter(log)) - Window}
<1>1. /\ log \in Seq(Nat) /\ Len(log) =< Len(hits[c]) /\ Len(log) \in Nat
      /\ Len(log) > 0 => log[1] > now - Window
  BY InWindowIs, SearchAssumption DEF Shielding
<1>2. Len(log) >= Rate /\ Len(hits[c]) =< Rate /\ Len(hits[c]) \in Nat
  BY LenProperties DEF Search!Full, Shielding, Logged
<1> HIDE DEF log
<1>3. Len(log) = Rate /\ DOMAIN log = 1 .. Rate /\ log[1] \in Nat /\ now \in Nat
  <2>1. Len(log) = Rate
    BY <1>1, <1>2, SearchAssumption
  <2>2. 1 \in 1 .. Len(log)
    BY <2>1, SearchAssumption
  <2>3. QED
    BY <1>1, <2>1, <2>2, LenProperties, ElementOfSeq DEF Shielding, Timed
<1>4. Search!RetryAfter(log) = log[1] + Window - now
  <2> DEFINE x == log[1] + Window - now
  <2>1. x \in Int /\ x >= 1
    BY <1>1, <1>3, SearchAssumption
  <2>2. Search!RetryAfter(log) = Search!Max({1, x})
    BY DEF Search!RetryAfter
  <2> HIDE DEF x
  <2>3. Search!Max({1, x}) = x
    BY <2>1 DEF Search!Max
  <2>4. QED
    BY <2>2, <2>3 DEF x
<1>5. later \subseteq (1 .. Rate) \ {1}
  <2>1. (now + Search!RetryAfter(log)) - Window = log[1]
    BY <1>3, <1>4, SearchAssumption
  <2>2. ~(log[1] > log[1])
    BY <1>3
  <2>3. QED
    BY <1>3, <2>1, <2>2
<1>6. /\ IsFiniteSet((1 .. Rate) \ {1}) /\ Cardinality((1 .. Rate) \ {1}) = Rate - 1
  <2>1. IsFiniteSet(1 .. Rate) /\ Cardinality(1 .. Rate) = Rate /\ 1 \in 1 .. Rate
    BY FS_Interval, SearchAssumption
  <2>2. QED
    BY <2>1, FS_RemoveElement
<1>7. Cardinality(later) \in Nat /\ Cardinality(later) =< Rate - 1
  <2> DEFINE T == (1 .. Rate) \ {1}
  <2>1. later \subseteq T /\ IsFiniteSet(T) /\ Cardinality(T) = Rate - 1
    BY <1>5, <1>6
  <2> HIDE DEF later, T
  <2>2. IsFiniteSet(later) /\ Cardinality(later) =< Cardinality(T)
    BY <2>1, FS_Subset
  <2>3. QED
    BY <2>1, <2>2, FS_CardinalityType
<1>8. Cardinality(later) < Rate
  <2> HIDE DEF later
  <2>1. QED
    BY <1>7, SearchAssumption
<1>9. QED
  BY <1>8 DEF log

-----------------------------------------------------------------------------
(* The search: what is ingested.                                            *)

Whole ==
    /\ Timed
    /\ \A r \in Searches : req[r].step = "answer" /\ req[r].whole =>
          Search!Candidates(req[r].page) \subseteq catalog

LEMMA WholeKept == Shielding /\ Whole /\ [Search!Next]_Search!vars => Whole'
<1> SUFFICES ASSUME Shielding, Whole, [Search!Next]_Search!vars PROVE Whole'
  OBVIOUS
<1>1. Timed'
  BY ShieldingKept DEF Shielding
<1>2. \A r \in Searches : req[r] = Asking(req[r]) /\ req = [q \in Searches |-> req[q]]
  BY DEF Shielding, Timed, Served
<1>3. \A p : Search!Candidates(p)' = Search!Candidates(p)
  BY DEF Search!Candidates, Search!ExternalPage
<1>4. ASSUME NEW r \in Searches, NEW q, req' = [req EXCEPT ![r] = q], UNCHANGED catalog,
             q.step # "answer"
      PROVE  Whole'
  <2>1. \A o \in Searches : req'[o] = IF o = r THEN q ELSE req[o]
    BY <1>2, <1>4
  <2>2. QED
    BY <1>1, <1>3, <1>4, <2>1 DEF Whole
<1>5. ASSUME NEW r \in Searches, NEW c \in Clients, NEW p \in Pages, Search!Ask(r, c, p) PROVE Whole'
  <2> DEFINE q == [Search!Idle EXCEPT !.step = "decide", !.client = c, !.page = p,
                               !.found = Search!Cardinality(Search!OnPage(p))]
  <2>1. req' = [req EXCEPT ![r] = q] /\ UNCHANGED catalog
    BY <1>5 DEF Search!Ask
  <2>2. q.step = "decide"
    BY DEF Search!Idle
  <2> HIDE DEF q
  <2>3. QED
    BY <1>4, <2>1, <2>2
<1>6. ASSUME NEW r \in Searches, Search!AnswerLocally(r) \/ Search!Refuse(r) \/ Search!Answer(r)
      PROVE  Whole'
  <2>1. req' = [req EXCEPT ![r] = Search!Idle] /\ UNCHANGED catalog
    BY <1>6 DEF Search!AnswerLocally, Search!Refuse, Search!Answer
  <2>2. Search!Idle.step = "idle"
    BY DEF Search!Idle
  <2>3. QED
    BY <1>4, <2>1, <2>2
<1>7. ASSUME NEW r \in Searches, Search!FanOut(r) PROVE Whole'
  <2> DEFINE q == [req[r] EXCEPT !.step = "ingest"]
  <2>1. req' = [req EXCEPT ![r] = q] /\ UNCHANGED catalog
    BY <1>2, <1>7 DEF Search!FanOut
  <2>2. q.step = "ingest"
    BY <1>2 DEF Asking
  <2> HIDE DEF q
  <2>3. QED
    BY <1>4, <2>1, <2>2
<1>8. ASSUME NEW r \in Searches, Search!Ingest(r) PROVE Whole'
  <2>1. PICK gone \in {{}} \cup SUBSET Search!Candidates(req[r].page) :
            /\ catalog' = catalog \cup (Search!Candidates(req[r].page) \ gone)
            /\ req' = [req EXCEPT ![r].step = "answer", ![r].whole = gone = {}]
    BY <1>8 DEF Search!Ingest
  <2> DEFINE w == gone = {}
             q == [req[r] EXCEPT !.step = "answer", !.whole = w]
  <2>2. req' = [req EXCEPT ![r] = q]
    BY <1>2, <2>1
  <2>3. req[r] = Asking(req[r])
    BY <1>2
  <2> HIDE DEF w
  <2>4. q.page = req[r].page
    BY <2>3 DEF Asking
  <2>5. q.whole => w
    BY <2>3, Zenon DEF Asking
  <2>6. \A o \in Searches : req'[o] = IF o = r THEN q ELSE req[o]
    BY <1>2, <2>2
  <2>7. catalog \subseteq catalog' /\ (w => Search!Candidates(req[r].page) \subseteq catalog')
    BY <2>1 DEF w
  <2> HIDE DEF q
  <2>8. ASSUME NEW o \in Searches, req'[o].step = "answer", req'[o].whole
        PROVE  Search!Candidates(req'[o].page) \subseteq catalog'
    <3>1. CASE o = r
      BY <2>4, <2>5, <2>6, <2>7, <2>8, <3>1
    <3>2. CASE o # r
      BY <2>6, <2>7, <2>8, <3>2 DEF Whole
    <3>3. QED
      BY <3>1, <3>2
  <2>9. QED
    BY <1>1, <1>3, <2>8 DEF Whole
<1>9. ASSUME UNCHANGED <<req, catalog>> PROVE Whole'
  BY <1>1, <1>3, <1>9 DEF Whole
<1>10. QED
  BY <1>5, <1>6, <1>7, <1>8, <1>9 DEF Search!Next, Search!Tick, Search!vars

\* When the pages of the caller are those of the source.
LEMMA SamePages ==
    ASSUME Limit = FanoutPage, NEW p \in Pages, NEW h \in 1 .. Hits, (h - 1) \div Limit = p - 1
    PROVE  h \in Search!Candidates(p)
<1> DEFINE start == (p - 1) * Limit
<1>1. p - 1 \in Nat /\ Limit \in Nat \ {0} /\ h - 1 \in Nat /\ start \in Nat
  BY SearchAssumption
<1>2. start =< h - 1 /\ h - 1 < start + Limit
  <2>1. \A a \in Nat, l \in Nat \ {0} : (a \div l) * l =< a /\ a < (a \div l) * l + l
    OBVIOUS
  <2>2. QED
    BY <1>1, <2>1
<1>3. start \div Limit = p - 1
  <2>1. \A b \in Nat, l \in Nat \ {0} : (b * l) \div l = b
    OBVIOUS
  <2>2. QED
    BY <1>1, <2>1
<1>4. Search!ExternalPage(p) = p
  <2>1. Search!ExternalPage(p) = start \div Limit + 1
    BY DEF Search!ExternalPage
  <2> HIDE DEF start
  <2>2. start \div Limit + 1 = p
    <3>1. p \in Nat
      BY SearchAssumption
    <3>2. QED
      BY <1>3, <3>1
  <2>3. QED
    BY <2>1, <2>2
<1>5. (p - 1) * FanoutPage = start
  OBVIOUS
<1> HIDE DEF start
<1>6. h \in start + 1 .. start + 1 + FanoutPage - 1 /\ h < start + 1 + Limit
  BY <1>1, <1>2
<1>7. QED
  BY <1>4, <1>5, <1>6 DEF Search!Candidates

LEMMA ShieldingImplies ==
    Shielding => Search!SourcesAreShielded /\ Search!RetryAfterIsHonest /\ Search!BurstFansOutOnce
<1> SUFFICES ASSUME Shielding PROVE Search!SourcesAreShielded
  BY Honest DEF Shielding
<1>1. \A t \in 0 .. LastTick : t \in Int
  BY SearchAssumption
<1>2. QED
  BY <1>1, SameSearchCount DEF Search!SourcesAreShielded, Shielding, Spaced, InSpan

LEMMA WholeInit == Search!Init => Shielding /\ Whole
<1> SUFFICES ASSUME Search!Init PROVE Shielding /\ Whole
  OBVIOUS
<1>1. \A r \in Searches : req[r].step = "idle"
  BY DEF Search!Init, Search!Idle
<1>2. QED
  BY <1>1, ShieldingInit DEF Whole, Shielding

LEMMA WholeImplies == ASSUME Limit = FanoutPage PROVE Whole => Search!PageIsIngested
<1> SUFFICES ASSUME Whole, NEW r \in Searches, req[r].step = "answer", req[r].whole,
                    NEW h \in 1 .. Hits, (h - 1) \div Limit = req[r].page - 1
             PROVE  h \in catalog
  BY DEF Search!PageIsIngested
<1>1. req[r].page \in Pages /\ Search!Candidates(req[r].page) \subseteq catalog
  BY DEF Whole, Timed, Served
<1>2. QED
  BY <1>1, SamePages

LEMMA SearchStutters == UNCHANGED vars => UNCHANGED Search!vars
BY DEF vars, Search!vars, now, catalog, marker, hits, req, fanned, served, faults

(***************************************************************************)
(* However requests interleave and whatever the sizes of the pages: a      *)
(* client makes the service ask the source Rate times at most within any   *)
(* window, one that was refused finds a slot when it was told to come      *)
(* back, and first pages that are full ask once per time to live (search   *)
(* service, rate limiter, marker).                                         *)
(***************************************************************************)
THEOREM CallsAreBounded ==
    Spec => [](part = "search" =>
        Search!SourcesAreShielded /\ Search!RetryAfterIsHonest /\ Search!BurstFansOutOnce)
<1> DEFINE Here == part = "search"
           Good == Search!SourcesAreShielded /\ Search!RetryAfterIsHonest /\ Search!BurstFansOutOnce
<1>1. Init /\ Here => Shielding
  BY WholeInit DEF Init
<1>2. [Next]_vars /\ Here /\ Shielding => Shielding' /\ Here'
  BY ShieldingKept, SearchStutters DEF Next, vars
<1>3. [Next]_vars /\ ~Here => ~Here'
  BY DEF Next, vars
<1>4. Shielding => Good
  BY ShieldingImplies
<1>5. Spec => [](Here => Good)
  <2> HIDE DEF Here, Good
  <2>1. QED
    BY <1>1, <1>2, <1>3, <1>4, PTL DEF Spec
<1>6. QED
  BY <1>5

(***************************************************************************)
(* The same, and a call that lost nothing leaves the hits of its page in   *)
(* the catalog, when the pages of the caller are those of the source.      *)
(***************************************************************************)
THEOREM SourcesStayShielded ==
    ASSUME Limit = FanoutPage
    PROVE  Spec => []SourcesAreShielded
<1> DEFINE Here == part = "search"
           Safe == Shielding /\ Whole
<1>1. Init /\ Here => Safe
  BY WholeInit DEF Init
<1>2. [Next]_vars /\ Here /\ Safe => Safe' /\ Here'
  BY ShieldingKept, WholeKept, SearchStutters DEF Next, vars
<1>3. [Next]_vars /\ ~Here => ~Here'
  BY DEF Next, vars
<1>4. (Here => Safe) => SourcesAreShielded
  BY ShieldingImplies, WholeImplies DEF SourcesAreShielded
<1> HIDE DEF Here, Safe
<1>5. QED
  BY <1>1, <1>2, <1>3, <1>4, PTL DEF Spec
=============================================================================
