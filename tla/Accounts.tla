------------------------------ MODULE Accounts ------------------------------
(***************************************************************************)
(* Accounts and what they hold: refresh tokens, the single-use links sent  *)
(* by e-mail, the admin role and the avatar in object storage.  A request  *)
(* is a sequence of reads and one write transaction: every read is a step, *)
(* and so is the transaction, at the statement that decides it.  Nothing   *)
(* is locked between a read and the transaction that acts on it.           *)
(*                                                                         *)
(* History: a request is raced when another one committed on the account   *)
(* it had already read; a token is tainted when a raced request issued it, *)
(* or one of those it descends from.  broken are the objects an avatar may *)
(* outlive: the request that deletes them died or was raced, or a profile  *)
(* edit named them.                                                        *)
(***************************************************************************)
EXTENDS Integers, Sequences, FiniteSets

CONSTANTS Requests,     \* requests in flight at a time
          Names,        \* usernames
          SessionLife,  \* ticks a refresh token is valid
          LinkLife,     \* ticks a link is valid
          MaxAccounts, MaxSessions, MaxLinks, MaxObjects,  \* bounds on the rows
          MaxRequests,  \* bound on the requests in all
          LastTick      \* bound on the clock

VARIABLES now, accounts, sessions, links, bucket, objects, request, begun, orphans, broken

tables == <<accounts, sessions, links>>
storage == <<bucket, objects>>
history == <<orphans, broken>>
vars == <<now, tables, storage, request, begun, history>>

NoAvatar == 0
Foreign == -1       \* a URL that is not of our bucket

Account(name) ==
    [name |-> name, open |-> TRUE, password |-> 1, banned |-> FALSE, verified |-> FALSE,
     admin |-> FALSE, audit |-> FALSE, drifted |-> FALSE, avatar |-> NoAvatar]

Session(user, password, parent, tainted) ==
    [user |-> user, password |-> password, parent |-> parent, tainted |-> tainted,
     expires |-> now + SessionLife, revoked |-> FALSE, barred |-> accounts[user].banned]

Link(user, purpose) ==
    [user |-> user, purpose |-> purpose, expires |-> now + LinkLife, consumed |-> FALSE,
     mailed |-> FALSE, uses |-> 0]

\* key: the session or link presented, the account to act on, or the new avatar.
Idle == [step |-> "idle", user |-> 0, key |-> 0, flag |-> FALSE, previous |-> NoAvatar, raced |-> FALSE]

\* An account with a session, to which a reset link and a verification link were sent.
Init ==
    /\ now = 0
    /\ \E n \in Names, avatar \in {NoAvatar, 1} :
          /\ accounts = <<[Account(n) EXCEPT !.avatar = avatar]>>
          /\ bucket = {avatar} \ {NoAvatar} /\ objects = avatar
    /\ sessions = <<Session(1, 1, 0, FALSE)>>
    /\ links = [k \in 1 .. 2 |-> [Link(1, <<"reset", "verify">>[k]) EXCEPT !.mailed = TRUE]]
    /\ request = [q \in Requests |-> Idle] /\ begun = 0
    /\ orphans = {} /\ broken = {}

Open == {u \in DOMAIN accounts : accounts[u].open}
Admitted == {u \in Open : ~accounts[u].banned}
Named(n) == {u \in Open : accounts[u].name = n}
SessionsOf(u) == {t \in DOMAIN sessions : sessions[t].user = u}
LinksOf(u) == {k \in DOMAIN links : links[k].user = u}
Active(t) == ~sessions[t].revoked

Goto(q, r) == request' = [request EXCEPT ![q] = r]
Arrive(q, r) == /\ request[q].step = "idle" /\ begun < MaxRequests /\ begun' = begun + 1
                /\ Goto(q, r)

\* The transaction of q on account u commits and q goes on with r.
CommitOn(u, q, r) ==
    request' = [p \in Requests |->
                  IF p = q THEN r
                  ELSE IF request[p].step # "idle" /\ u \in {request[p].user, request[p].key}
                       THEN [request[p] EXCEPT !.raced = TRUE]
                       ELSE request[p]]

Revoked(u) == [t \in DOMAIN sessions |->
                 IF sessions[t].user = u THEN [sessions[t] EXCEPT !.revoked = TRUE] ELSE sessions[t]]

-----------------------------------------------------------------------------
(* Registration, login and the rotation of refresh tokens.                  *)

\* register_user: both lookups come back empty.
Register(q) ==
    /\ \E n \in Names : Named(n) = {} /\ Arrive(q, [Idle EXCEPT !.step = "insert", !.key = n])
    /\ UNCHANGED <<now, tables, storage, history>>

\* What the lookups found is what the INSERT relies on.
InsertUserUnchecked(q) ==
    /\ request[q].step = "insert" /\ Len(accounts) < MaxAccounts
    /\ accounts' = Append(accounts, Account(request[q].key))
    /\ Goto(q, Idle)
    /\ UNCHANGED <<now, sessions, links, storage, begun, history>>

\* The constraint decides between two equal registrations.
InsertUser(q) ==
    /\ request[q].step = "insert" /\ Len(accounts) < MaxAccounts
    /\ IF Named(request[q].key) = {}
       THEN accounts' = Append(accounts, Account(request[q].key))
       ELSE UNCHANGED accounts
    /\ Goto(q, Idle)
    /\ UNCHANGED <<now, sessions, links, storage, begun, history>>

\* login_user: the password is that of the row and the user is not banned.
Login(q) ==
    /\ \E u \in Admitted :
          Arrive(q, [Idle EXCEPT !.step = "issue", !.user = u, !.key = accounts[u].password])
    /\ UNCHANGED <<now, tables, storage, history>>

\* An account erased meanwhile fails the foreign key.
IssueSession(q) ==
    /\ request[q].step = "issue" /\ Len(sessions) < MaxSessions
    /\ LET r == request[q]
       IN  /\ sessions' = IF accounts[r.user].open
                          THEN Append(sessions, Session(r.user, r.key, 0, r.raced))
                          ELSE sessions
           /\ CommitOn(r.user, q, Idle)
    /\ UNCHANGED <<now, accounts, links, storage, begun, history>>

\* refresh_tokens reads the row of the token it was given.
ReadSession(q) ==
    /\ \E t \in DOMAIN sessions :
          LET u == sessions[t].user
          IN  /\ accounts[u].open
              /\ ~Active(t) \/ sessions[t].expires > now
              /\ Arrive(q, [Idle EXCEPT !.step = IF Active(t) THEN "owner" ELSE "revoke_all",
                                        !.user = u, !.key = t])
    /\ UNCHANGED <<now, tables, storage, history>>

\* Whether the owner is banned is not looked at.
ReadOwnerBanned(q) ==
    /\ request[q].step = "owner"
    /\ Goto(q, IF request[q].user \in Open THEN [request[q] EXCEPT !.step = "rotate"] ELSE Idle)
    /\ UNCHANGED <<now, tables, storage, begun, history>>

ReadOwner(q) ==
    /\ request[q].step = "owner"
    /\ Goto(q, IF request[q].user \in Admitted THEN [request[q] EXCEPT !.step = "rotate"] ELSE Idle)
    /\ UNCHANGED <<now, tables, storage, begun, history>>

\* The presented token stays valid.
RotateKeeping(q) ==
    /\ request[q].step = "rotate" /\ Len(sessions) < MaxSessions
    /\ LET r == request[q]
           old == sessions[r.key]
       IN  /\ sessions' = IF accounts[r.user].open
                          THEN Append(sessions, Session(r.user, old.password, r.key,
                                                        old.tainted \/ r.raced))
                          ELSE sessions
           /\ CommitOn(r.user, q, Idle)
    /\ UNCHANGED <<now, accounts, links, storage, begun, history>>

\* revoke_refresh_token and the new row.  If the row is gone the UPDATE fails.
Rotate(q) ==
    /\ request[q].step = "rotate" /\ Len(sessions) < MaxSessions
    /\ LET r == request[q]
           old == sessions[r.key]
       IN  /\ sessions' = IF accounts[r.user].open
                          THEN Append([sessions EXCEPT ![r.key].revoked = TRUE],
                                      Session(r.user, old.password, r.key, old.tainted \/ r.raced))
                          ELSE sessions
           /\ CommitOn(r.user, q, Idle)
    /\ UNCHANGED <<now, accounts, links, storage, begun, history>>

\* A revoked token was presented: the defence against reuse.
RevokeAll(q) ==
    /\ request[q].step = "revoke_all"
    /\ sessions' = Revoked(request[q].user)
    /\ CommitOn(request[q].user, q, Idle)
    /\ UNCHANGED <<now, accounts, links, storage, begun, history>>

\* logout_user, authenticated.  A token of somebody else is ignored.
ReadOwnSession(q) ==
    /\ \E u \in Admitted : \E t \in SessionsOf(u) :
          Active(t) /\ Arrive(q, [Idle EXCEPT !.step = "logout", !.user = u, !.key = t])
    /\ UNCHANGED <<now, tables, storage, history>>

Logout(q) ==
    /\ request[q].step = "logout"
    /\ sessions' = [sessions EXCEPT ![request[q].key].revoked = TRUE]
    /\ CommitOn(request[q].user, q, Idle)
    /\ UNCHANGED <<now, accounts, links, storage, begun, history>>

-----------------------------------------------------------------------------
(* The links sent by e-mail.                                                *)

\* request_email_verification needs a user who may log in, request_password_reset an
\* account with that address; the answer of the latter does not tell.
AskLink(q) ==
    /\ \E u \in Open, reset \in BOOLEAN :
          /\ reset \/ u \in Admitted
          /\ Arrive(q, [Idle EXCEPT !.step = "link", !.user = u, !.flag = reset])
    /\ UNCHANGED <<now, tables, storage, history>>

InsertLink(q) ==
    /\ request[q].step = "link" /\ Len(links) < MaxLinks
    /\ LET r == request[q]
       IN  IF accounts[r.user].open
           THEN /\ links' = Append(links, Link(r.user, IF r.flag THEN "reset" ELSE "verify"))
                /\ CommitOn(r.user, q, [r EXCEPT !.step = "mail", !.key = Len(links) + 1])
           ELSE UNCHANGED links /\ Goto(q, Idle)
    /\ UNCHANGED <<now, accounts, sessions, storage, begun, history>>

\* _send_email_safe: the request ends whether the provider took the mail or not.
SendMail(q) ==
    /\ request[q].step = "mail"
    /\ \E sent \in BOOLEAN : links' = [links EXCEPT ![request[q].key].mailed = sent]
    /\ Goto(q, Idle)
    /\ UNCHANGED <<now, accounts, sessions, storage, begun, history>>

\* _consume_valid_token reads the row and checks the copy.
Valid(k) == /\ links[k].mailed /\ accounts[links[k].user].open
            /\ ~links[k].consumed /\ links[k].expires > now

ReadLink(q) ==
    /\ \E k \in DOMAIN links :
          Valid(k) /\ Arrive(q, [Idle EXCEPT !.step = links[k].purpose, !.user = links[k].user,
                                             !.key = k])
    /\ UNCHANGED <<now, tables, storage, history>>

\* Only the first use by requests that met nobody is counted.
Consumed(q) ==
    [links EXCEPT ![request[q].key].consumed = TRUE,
                  ![request[q].key].uses = IF request[q].raced THEN @ ELSE @ + 1]

ConfirmEmail(q) ==
    /\ request[q].step = "verify"
    /\ LET u == request[q].user
       IN  IF accounts[u].open
           THEN /\ links' = Consumed(q) /\ accounts' = [accounts EXCEPT ![u].verified = TRUE]
                /\ CommitOn(u, q, Idle)
           ELSE UNCHANGED <<links, accounts>> /\ Goto(q, Idle)
    /\ UNCHANGED <<now, sessions, storage, begun, history>>

\* The link is not stamped.
ResetPasswordAgain(q) ==
    /\ request[q].step = "reset"
    /\ LET u == request[q].user
       IN  /\ accounts' = [accounts EXCEPT ![u].password = @ + 1]
           /\ links' = [Consumed(q) EXCEPT ![request[q].key].consumed = FALSE]
           /\ sessions' = Revoked(u)
           /\ CommitOn(u, q, Idle)
    /\ UNCHANGED <<now, storage, begun, history>>

\* The sessions of the old password go on.
ResetPasswordKeeping(q) ==
    /\ request[q].step = "reset"
    /\ LET u == request[q].user
       IN  /\ accounts' = [accounts EXCEPT ![u].password = @ + 1]
           /\ links' = Consumed(q) /\ UNCHANGED sessions
           /\ CommitOn(u, q, Idle)
    /\ UNCHANGED <<now, storage, begun, history>>

ResetPassword(q) ==
    /\ request[q].step = "reset"
    /\ LET u == request[q].user
       IN  IF accounts[u].open
           THEN /\ links' = Consumed(q)
                /\ accounts' = [accounts EXCEPT ![u].password = @ + 1]
                /\ sessions' = Revoked(u)
                /\ CommitOn(u, q, Idle)
           ELSE UNCHANGED tables /\ Goto(q, Idle)
    /\ UNCHANGED <<now, storage, begun, history>>

-----------------------------------------------------------------------------
(* Avatars, profile, erasure and roles.  get_current_user reads the row;    *)
(* previous is the avatar of that copy.                                     *)

Authenticate(q) ==
    /\ \E u \in Admitted, step \in {"put", "drop_first", "profile", "erase"} :
          /\ step = "drop_first" => accounts[u].avatar # NoAvatar
          /\ Arrive(q, [Idle EXCEPT !.step = step, !.user = u, !.previous = accounts[u].avatar])
    /\ UNCHANGED <<now, tables, storage, history>>

\* upload_avatar puts the object first, under a key of its own.
PutObject(q) ==
    /\ request[q].step = "put" /\ objects < MaxObjects
    /\ \/ /\ objects' = objects + 1 /\ bucket' = bucket \cup {objects'}
          /\ Goto(q, [request[q] EXCEPT !.step = "save", !.key = objects'])
       \/ Goto(q, Idle) /\ UNCHANGED storage
    /\ UNCHANGED <<now, tables, begun, history>>

\* What a raced write replaces is not what the request will delete.
Replaced(r) == IF r.raced THEN {accounts[r.user].avatar} \ {r.previous, NoAvatar, Foreign} ELSE {}

SaveAvatar(q) ==
    /\ request[q].step = "save"
    /\ LET r == request[q]
       IN  IF accounts[r.user].open
           THEN /\ accounts' = [accounts EXCEPT ![r.user].avatar = r.key]
                /\ orphans' = orphans \cup Replaced(r)
                /\ CommitOn(r.user, q, [r EXCEPT !.step = "drop"])
           ELSE UNCHANGED accounts /\ orphans' = orphans \cup {r.key} /\ Goto(q, Idle)
    /\ UNCHANGED <<now, sessions, links, storage, begun, broken>>

\* _delete_r2_object_best_effort: a failure of the storage is swallowed.
Delete(object) ==
    IF object \in {NoAvatar, Foreign}
    THEN UNCHANGED <<bucket, orphans>>
    ELSE \/ bucket' = bucket \ {object} /\ UNCHANGED orphans
         \/ orphans' = orphans \cup {object} /\ UNCHANGED bucket

\* The object of the avatar that was just saved is deleted.
DropOldNew(q) ==
    /\ request[q].step = "drop" /\ Delete(accounts[request[q].user].avatar) /\ Goto(q, Idle)
    /\ UNCHANGED <<now, tables, objects, begun, broken>>

\* The previous avatar is not deleted.
DropOldNever(q) ==
    /\ request[q].step = "drop" /\ Goto(q, Idle)
    /\ UNCHANGED <<now, tables, storage, begun, history>>

DropOld(q) ==
    /\ request[q].step = "drop" /\ Delete(request[q].previous) /\ Goto(q, Idle)
    /\ UNCHANGED <<now, tables, objects, begun, broken>>

\* delete_avatar deletes the object before the row forgets it.
DropFirst(q) ==
    /\ request[q].step = "drop_first"
    /\ Delete(request[q].previous) /\ Goto(q, [request[q] EXCEPT !.step = "clear"])
    /\ broken' = broken \cup IF request[q].raced THEN {request[q].previous} ELSE {}
    /\ UNCHANGED <<now, tables, objects, begun>>

ClearAvatar(q) ==
    /\ request[q].step = "clear"
    /\ LET r == request[q]
       IN  IF accounts[r.user].open
           THEN /\ accounts' = [accounts EXCEPT ![r.user].avatar = NoAvatar]
                /\ orphans' = orphans \cup Replaced(r)
                /\ CommitOn(r.user, q, Idle)
           ELSE UNCHANGED <<accounts, orphans>> /\ Goto(q, Idle)
    /\ UNCHANGED <<now, sessions, links, storage, begun, broken>>

\* The objects whose URL somebody may know: a key is random, and told once it is saved.
Published == (1 .. objects) \ {request[q].key : q \in {p \in Requests : request[p].step = "save"}}

\* update_current_user: the profile may name any picture, that of another account too, or
\* none.  What the copy holds already is not written; the object replaced stays in the bucket.
SaveProfile(q) ==
    /\ request[q].step = "profile"
    /\ LET r == request[q]
       IN  \/ /\ accounts[r.user].open
              /\ \E avatar \in ({NoAvatar, Foreign} \cup Published) \ {r.previous} :
                    /\ accounts' = [accounts EXCEPT ![r.user].avatar = avatar]
                    /\ orphans' = orphans \cup ({accounts[r.user].avatar} \ {NoAvatar, Foreign})
                    /\ broken' = broken \cup ({avatar} \ {NoAvatar, Foreign})
                    /\ CommitOn(r.user, q, Idle)
           \/ UNCHANGED <<accounts, history>> /\ Goto(q, Idle)
    /\ UNCHANGED <<now, sessions, links, storage, begun>>

\* delete_current_user; the rows that hang from the account go with it.
Erase(q) ==
    /\ request[q].step = "erase"
    /\ LET r == request[q]
       IN  IF accounts[r.user].open
           THEN /\ accounts' = [accounts EXCEPT ![r.user].open = FALSE]
                /\ orphans' = orphans \cup Replaced(r)
                /\ CommitOn(r.user, q, [r EXCEPT !.step = "drop"])
           ELSE UNCHANGED <<accounts, orphans>> /\ Goto(q, Idle)
    /\ UNCHANGED <<now, sessions, links, storage, begun, broken>>

\* set_user_admin_role: flag is the role asked for; key the target, whose row is read.
ReadTarget(q) ==
    /\ \E u \in Open, grant \in BOOLEAN :
          Arrive(q, [Idle EXCEPT !.step = IF accounts[u].admin = grant THEN "audit" ELSE "role",
                                 !.user = u, !.flag = grant])
    /\ UNCHANGED <<now, tables, storage, history>>

\* The audit row is written in a transaction of its own and lost.
SetRoleUnaudited(q) ==
    /\ request[q].step \in {"role", "audit"}
    /\ LET r == request[q]
       IN  /\ accounts' = [accounts EXCEPT ![r.user].admin = IF r.step = "role" THEN r.flag ELSE @,
                                           ![r.user].drifted = @ \/ r.raced]
           /\ CommitOn(r.user, q, Idle)
    /\ UNCHANGED <<now, sessions, links, storage, begun, history>>

\* The flag is written when the copy differs, the audit row always, in one transaction.
SetRole(q) ==
    /\ request[q].step \in {"role", "audit"}
    /\ LET r == request[q]
       IN  IF accounts[r.user].open
           THEN /\ accounts' = [accounts EXCEPT
                                  ![r.user].admin = IF r.step = "role" THEN r.flag ELSE @,
                                  ![r.user].audit = r.flag,
                                  ![r.user].drifted = @ \/ r.raced]
                /\ CommitOn(r.user, q, Idle)
           ELSE UNCHANGED accounts /\ Goto(q, Idle)
    /\ UNCHANGED <<now, sessions, links, storage, begun, history>>

SetBanned(u) ==
    /\ u \in Open
    /\ accounts' = [accounts EXCEPT ![u].banned = ~@]
    /\ request' = [q \in Requests |->
                     IF request[q].user = u THEN [request[q] EXCEPT !.raced = TRUE] ELSE request[q]]
    /\ begun < MaxRequests /\ begun' = begun + 1
    /\ UNCHANGED <<now, sessions, links, storage, history>>

\* The process or the connection is lost: what the transaction wrote is undone, what was
\* done to the bucket is not.
Crash(q) ==
    /\ request[q].step # "idle"
    /\ LET r == request[q]
       IN  /\ orphans' = orphans \cup
                           CASE r.step = "save" -> {r.key}
                             [] r.step = "drop" -> {r.previous} \ {NoAvatar, Foreign}
                             [] OTHER -> {}
           /\ broken' = broken \cup IF r.step = "clear" THEN {r.previous} ELSE {}
    /\ Goto(q, Idle)
    /\ UNCHANGED <<now, tables, storage, begun>>

Tick ==
    /\ now < LastTick /\ now' = now + 1
    /\ UNCHANGED <<tables, storage, request, begun, history>>

Step(q) ==
    \/ Register(q) \/ InsertUser(q) \/ Login(q) \/ IssueSession(q)
    \/ ReadSession(q) \/ ReadOwner(q) \/ Rotate(q) \/ RevokeAll(q)
    \/ ReadOwnSession(q) \/ Logout(q)
    \/ AskLink(q) \/ InsertLink(q) \/ SendMail(q) \/ ReadLink(q) \/ ConfirmEmail(q) \/ ResetPassword(q)
    \/ Authenticate(q) \/ PutObject(q) \/ SaveAvatar(q) \/ DropOld(q) \/ DropFirst(q)
    \/ ClearAvatar(q) \/ SaveProfile(q) \/ Erase(q) \/ ReadTarget(q) \/ SetRole(q)

Next ==
    \/ \E q \in Requests : Step(q) \/ Crash(q)
    \/ \E u \in DOMAIN accounts : SetBanned(u)
    \/ Tick

Spec == Init /\ [][Next]_vars

-----------------------------------------------------------------------------
TypeOK ==
    /\ now \in 0 .. LastTick /\ begun \in 0 .. MaxRequests /\ objects \in 0 .. MaxObjects
    /\ Len(accounts) =< MaxAccounts /\ Len(sessions) =< MaxSessions /\ Len(links) =< MaxLinks
    /\ \A u \in DOMAIN accounts : /\ accounts[u].name \in Names
                                  /\ accounts[u].avatar \in Foreign .. MaxObjects
    /\ \A u, v \in Open : accounts[u].name = accounts[v].name => u = v
    /\ \A t \in DOMAIN sessions : /\ sessions[t].user \in DOMAIN accounts
                                  /\ sessions[t].parent \in 0 .. t - 1
    /\ \A k \in DOMAIN links : links[k].user \in DOMAIN accounts
    /\ bucket \cup orphans \subseteq 1 .. MaxObjects

(***************************************************************************)
(* reset_password revokes every active session "to force a new login on    *)
(* all devices": a session that is still good was opened with the current  *)
(* password, by itself or by those it was rotated from, unless the request *)
(* that issued one of them had read the account before the reset.          *)
(***************************************************************************)
SessionsFollowPassword ==
    \A t \in DOMAIN sessions :
       Active(t) /\ accounts[sessions[t].user].open =>
           sessions[t].tainted \/ sessions[t].password = accounts[sessions[t].user].password

(***************************************************************************)
(* Rotation makes of one token one token: only overlapping refreshes can   *)
(* draw two successors from it, and of a token that has a successor none   *)
(* is valid any more.                                                      *)
(***************************************************************************)
Successors(t) == {s \in DOMAIN sessions : sessions[s].parent = t}
RotationIsLinear ==
    \A t \in DOMAIN sessions :
       /\ Cardinality({s \in Successors(t) : ~sessions[s].tainted}) =< 1
       /\ Successors(t) # {} => ~Active(t)

(***************************************************************************)
(* A session is issued to a banned account only by a request that had read *)
(* it before the ban.                                                      *)
(***************************************************************************)
BannedGetNoSession == \A t \in DOMAIN sessions : sessions[t].barred => sessions[t].tainted

(***************************************************************************)
(* AccountToken: a link is good for one use, requests that overlap apart.  *)
(***************************************************************************)
LinksAreSingleUse == \A k \in DOMAIN links : links[k].uses =< 1

\* What can be relied on about whoever presents a token or a link.
SessionsAreSound ==
    SessionsFollowPassword /\ RotationIsLinear /\ BannedGetNoSession /\ LinksAreSingleUse

(***************************************************************************)
(* The last audit row of an account says what its role is, unless two      *)
(* superadmins changed it at a time.                                       *)
(***************************************************************************)
AuditSaysRole == \A u \in DOMAIN accounts : accounts[u].drifted \/ accounts[u].audit = accounts[u].admin

Picture(u) == IF accounts[u].open THEN accounts[u].avatar ELSE NoAvatar
InHand == {request[q].key : q \in {p \in Requests : request[p].step = "save"}}
          \cup {request[q].previous : q \in {p \in Requests : request[p].step \in {"drop", "drop_first"}}}

(***************************************************************************)
(* upload_avatar: uploading again and again leaves no object behind.  What *)
(* is in the bucket is somebody's avatar or in the hands of a request;     *)
(* orphans are what the storage would not delete, what a crash or an       *)
(* overlap dropped, and what a profile edit replaced.                      *)
(***************************************************************************)
ObjectsAreOwned ==
    \A o \in bucket : o \in orphans \/ o \in InHand \/ \E u \in DOMAIN accounts : Picture(u) = o

(***************************************************************************)
(* An avatar of ours is there to be served, except while the request that  *)
(* deletes it is under way, when that request died or was raced, or once a *)
(* profile edit named the object: whoever replaces the picture deletes it  *)
(* by its URL, and does not look who else shows it.                        *)
(***************************************************************************)
AvatarsResolve ==
    \A u \in DOMAIN accounts :
       \/ Picture(u) \in bucket \cup {NoAvatar, Foreign} \cup broken
       \/ \E q \in Requests : request[q].step = "clear" /\ request[q].previous = Picture(u)
=============================================================================
