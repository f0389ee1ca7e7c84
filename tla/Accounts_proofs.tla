--------------------------- MODULE Accounts_proofs ---------------------------
(***************************************************************************)
(* Two theorems, for any number of requests that overlap, accounts,        *)
(* sessions, links and objects: sessions and links are sound               *)
(* (SessionsAreSound), and roles, avatars and the bucket are consistent    *)
(* (TypeOK, AuditSaysRole, ObjectsAreOwned, AvatarsResolve).               *)
(*                                                                         *)
(* A request that nobody raced finds at its transaction what it had read,  *)
(* because every transaction that changes what another request relies on   *)
(* marks that request: Sound says it of passwords, tokens and links,       *)
(* Stored of the copy of the avatar, Roles of the admin flag.  The lemmas  *)
(* on Sound speak of tables A (accounts), S (sessions) and L (links) and   *)
(* not of the variables, so that they apply before and after a step.       *)
(***************************************************************************)
EXTENDS Accounts, FiniteSetTheorems, SequenceTheorems, TLAPS

Any == Names \cup Int

Steps == {"idle", "insert", "issue", "owner", "rotate", "revoke_all", "logout", "link", "mail",
          "verify", "reset", "put", "save", "drop", "drop_first", "clear", "profile", "erase",
          "role", "audit"}

Accs == [name : Names, open : BOOLEAN, password : Nat, banned : BOOLEAN, verified : BOOLEAN,
         admin : BOOLEAN, audit : BOOLEAN, drifted : BOOLEAN, avatar : Any]
Sess == [user : Nat, password : Nat, parent : Nat, tainted : BOOLEAN, expires : Nat,
         revoked : BOOLEAN, barred : BOOLEAN]
Lnks == [user : Nat, purpose : {"reset", "verify"}, expires : Nat, consumed : BOOLEAN,
         mailed : BOOLEAN, uses : Nat]
Reqs == [step : Steps, user : Nat, key : Any, flag : BOOLEAN, previous : Any, raced : BOOLEAN]

-----------------------------------------------------------------------------
(* The rows.                                                                *)

Follow(A, S) ==
    \A t \in DOMAIN S :
        ~S[t].revoked /\ A[S[t].user].open => S[t].tainted \/ S[t].password = A[S[t].user].password

Linear(S) ==
    /\ \A t \in DOMAIN S : S[t].parent # 0 => S[S[t].parent].revoked
    /\ \A s, t \in DOMAIN S :
          S[s].parent # 0 /\ S[s].parent = S[t].parent /\ ~S[s].tainted /\ ~S[t].tainted => s = t

Barred(S) == \A t \in DOMAIN S : S[t].barred => S[t].tainted

SessionsOK(A, S) ==
    /\ S \in Seq(Sess)
    /\ \A t \in DOMAIN S : S[t].user \in DOMAIN A /\ S[t].parent < t
    /\ Follow(A, S) /\ Linear(S) /\ Barred(S)

LinksOK(A, L) ==
    /\ L \in Seq(Lnks)
    /\ \A k \in DOMAIN L : /\ L[k].user \in DOMAIN A
                           /\ L[k].uses =< 1 /\ (~L[k].consumed => L[k].uses = 0)

-----------------------------------------------------------------------------
(* What a request relies on: the rows it named are there, and if nobody     *)
(* raced it they still say what it read.                                    *)

Refers(r, A, S, L) ==
    /\ r.step \notin {"idle", "insert"} => r.user \in DOMAIN A
    /\ r.step = "insert" => r.key \in Names
    /\ r.step = "issue" => r.key \in Nat
    /\ r.step \in {"owner", "rotate", "logout"} => r.key \in DOMAIN S /\ S[r.key].user = r.user
    /\ r.step \in {"mail", "verify", "reset"} => r.key \in DOMAIN L /\ L[r.key].user = r.user

Fresh(r, A, S, L) ==
    /\ r.step = "issue" => A[r.user].password = r.key
    /\ r.step \in {"issue", "rotate"} => ~A[r.user].banned
    /\ r.step \in {"owner", "rotate"} => ~S[r.key].revoked
    /\ r.step \in {"verify", "reset"} => ~L[r.key].consumed

Good(r, A, S, L) == Refers(r, A, S, L) /\ (~r.raced => Fresh(r, A, S, L))

\* What a transaction on the account u may do to the rows that requests rely on.
Touches(u, A, S, L, A2, S2, L2) ==
    /\ DOMAIN A \subseteq DOMAIN A2 /\ DOMAIN S \subseteq DOMAIN S2 /\ DOMAIN L \subseteq DOMAIN L2
    /\ \A v \in DOMAIN A : v # u => A2[v].password = A[v].password /\ A2[v].banned = A[v].banned
    /\ \A t \in DOMAIN S : /\ S2[t].user = S[t].user
                           /\ S[t].user # u => S2[t].revoked = S[t].revoked
    /\ \A k \in DOMAIN L : /\ L2[k].user = L[k].user
                           /\ L[k].user # u => L2[k].consumed = L[k].consumed

Sound ==
    /\ now \in Nat /\ objects \in Nat
    /\ accounts \in Seq(Accs)
    /\ SessionsOK(accounts, sessions) /\ LinksOK(accounts, links)
    /\ request \in [Requests -> Reqs]
    /\ \A q \in Requests : Good(request[q], accounts, sessions, links)

-----------------------------------------------------------------------------
LEMMA GoodOfOthers ==
    ASSUME NEW A, NEW S, NEW L, NEW A2, NEW S2, NEW L2, NEW u, NEW r \in Reqs,
           Good(r, A, S, L), Touches(u, A, S, L, A2, S2, L2),
           r.user # u \/ r.step \in {"idle", "insert"}
    PROVE  Good(r, A2, S2, L2)
<1>1. Refers(r, A2, S2, L2)
  BY DEF Good, Refers, Touches
<1>2. ASSUME ~r.raced PROVE Fresh(r, A2, S2, L2)
  BY <1>2 DEF Good, Refers, Touches, Fresh
<1>3. QED
  BY <1>1, <1>2 DEF Good

LEMMA GoodOfRaced ==
    ASSUME NEW A, NEW S, NEW L, NEW A2, NEW S2, NEW L2, NEW u, NEW r \in Reqs,
           Good(r, A, S, L), Touches(u, A, S, L, A2, S2, L2)
    PROVE  [r EXCEPT !.raced = TRUE] \in Reqs /\ Good([r EXCEPT !.raced = TRUE], A2, S2, L2)
<1> DEFINE s == [r EXCEPT !.raced = TRUE]
<1>1. /\ s \in Reqs /\ s.step = r.step /\ s.key = r.key /\ s.user = r.user
  BY DEF Reqs
<1>2. s.raced
  BY Zenon DEF Reqs
<1>3. Refers(s, A2, S2, L2)
  BY <1>1 DEF Good, Refers, Touches
<1>4. QED
  BY <1>1, <1>2, <1>3 DEF Good

LEMMA GoodOfIdle ==
    ASSUME NEW A, NEW S, NEW L
    PROVE  Idle \in Reqs /\ Good(Idle, A, S, L)
<1>1. Idle \in Reqs /\ Idle.step = "idle"
  BY DEF Idle, Reqs, Any, Steps, NoAvatar
<1>2. QED
  BY <1>1 DEF Good, Refers, Fresh

-----------------------------------------------------------------------------
(* What the transactions do to the rows.                                    *)

\* An account is edited and keeps its password, or it is closed.
LEMMA AccountEdited ==
    ASSUME NEW A \in Seq(Accs), NEW S, NEW L, NEW u \in DOMAIN A, NEW a \in Accs,
           a.password = A[u].password, a.open => A[u].open,
           SessionsOK(A, S), LinksOK(A, L)
    PROVE  /\ [A EXCEPT ![u] = a] \in Seq(Accs)
           /\ SessionsOK([A EXCEPT ![u] = a], S) /\ LinksOK([A EXCEPT ![u] = a], L)
<1> DEFINE B == [A EXCEPT ![u] = a]
<1>1. DOMAIN A = 1 .. Len(A)
  BY LenProperties
<1>2. B \in Seq(Accs) /\ DOMAIN B = DOMAIN A
  BY <1>1, ExceptSeq
<1>3. \A v \in DOMAIN A : B[v] = IF v = u THEN a ELSE A[v]
  OBVIOUS
<1> HIDE DEF B
<1>4. Follow(B, S)
  <2>1. \A v \in DOMAIN A : B[v].password = A[v].password /\ (B[v].open => A[v].open)
    BY <1>3
  <2>2. QED
    BY <2>1 DEF SessionsOK, Follow
<1>5. QED
  BY <1>2, <1>4 DEF SessionsOK, LinksOK, B

LEMMA AccountAdded ==
    ASSUME NEW A \in Seq(Accs), NEW S, NEW L, NEW a \in Accs, SessionsOK(A, S), LinksOK(A, L)
    PROVE  /\ Append(A, a) \in Seq(Accs)
           /\ SessionsOK(Append(A, a), S) /\ LinksOK(Append(A, a), L)
           /\ \A u : Touches(u, A, S, L, Append(A, a), S, L)
<1> DEFINE B == Append(A, a)
<1>1. B \in Seq(Accs) /\ Len(A) \in Nat /\ DOMAIN A = 1 .. Len(A) /\ DOMAIN B = 1 .. Len(A) + 1
  BY AppendProperties, LenProperties
<1>2. \A v \in DOMAIN A : v \in DOMAIN B /\ B[v] = A[v]
  BY <1>1, AppendProperties
<1> HIDE DEF B
<1>3. Follow(B, S)
  BY <1>2 DEF SessionsOK, Follow
<1>4. SessionsOK(B, S) /\ LinksOK(B, L)
  BY <1>2, <1>3 DEF SessionsOK, LinksOK
<1>5. \A u : Touches(u, A, S, L, B, S, L)
  BY <1>2 DEF Touches
<1>6. QED
  BY <1>1, <1>4, <1>5 DEF B

\* A session more: of a login, or the successor of a token that is revoked by now.
LEMMA SessionAdded ==
    ASSUME NEW A, NEW S, SessionsOK(A, S), NEW s \in Sess, s.user \in DOMAIN A, s.parent =< Len(S),
           ~s.tainted => s.password = A[s.user].password \/ ~A[s.user].open,
           s.barred => s.tainted,
           s.parent # 0 => /\ S[s.parent].revoked
                           /\ ~s.tainted => \A t \in DOMAIN S : S[t].parent # s.parent
    PROVE  SessionsOK(A, Append(S, s))
<1> DEFINE T == Append(S, s)
           n == Len(S) + 1
<1>1. S \in Seq(Sess)
  BY DEF SessionsOK
<1>2. T \in Seq(Sess) /\ Len(S) \in Nat /\ DOMAIN S = 1 .. Len(S) /\ DOMAIN T = 1 .. n
  BY <1>1, AppendProperties, LenProperties
<1>3. (\A t \in DOMAIN S : T[t] = S[t]) /\ T[n] = s
  BY <1>1, <1>2, AppendProperties
<1>4. \A t \in DOMAIN T : t \in DOMAIN S \/ t = n
  BY <1>2
<1>5. s.parent \in Nat /\ \A t \in DOMAIN S : S[t].parent \in Nat /\ S[t].parent < t
  <2>1. S \in [1 .. Len(S) -> Sess]
    BY <1>1, LenProperties
  <2>2. s.parent \in Nat /\ \A t \in DOMAIN S : S[t].parent \in Nat
    BY <1>2, <2>1 DEF Sess
  <2>3. QED
    BY <2>2 DEF SessionsOK
<1> HIDE DEF T
<1>6. \A t \in DOMAIN T : T[t].user \in DOMAIN A /\ T[t].parent < t
  BY <1>2, <1>3, <1>4, <1>5 DEF SessionsOK
<1>7. Follow(A, T)
  BY <1>3, <1>4 DEF SessionsOK, Follow
<1>8. Barred(T)
  BY <1>3, <1>4 DEF SessionsOK, Barred
<1>9. Linear(T)
  <2>1. \A t \in DOMAIN S : S[t].parent # 0 => S[t].parent \in DOMAIN S
    BY <1>2, <1>5
  <2>2. s.parent # 0 => s.parent \in DOMAIN S
    BY <1>2, <1>5
  <2>3. ASSUME NEW t \in DOMAIN T, T[t].parent # 0 PROVE T[T[t].parent].revoked
    <3>1. CASE t \in DOMAIN S
      BY <1>3, <2>1, <2>3, <3>1 DEF SessionsOK, Linear
    <3>2. CASE t = n
      BY <1>3, <2>2, <2>3, <3>2
    <3>3. QED
      BY <1>4, <3>1, <3>2
  <2>4. ASSUME NEW t \in DOMAIN T, NEW v \in DOMAIN T, T[t].parent # 0, T[t].parent = T[v].parent,
               ~T[t].tainted, ~T[v].tainted
        PROVE  t = v
    BY <1>3, <1>4, <2>4 DEF SessionsOK, Linear
  <2>5. QED
    BY <2>3, <2>4 DEF Linear
<1>10. QED
  BY <1>2, <1>6, <1>7, <1>8, <1>9 DEF SessionsOK, T

\* Sessions are revoked, one or all of an account, and nothing else of them changes.
LEMMA SessionsRevoked ==
    ASSUME NEW A, NEW S, NEW T, SessionsOK(A, S), T \in Seq(Sess), DOMAIN T = DOMAIN S,
           \A t \in DOMAIN S : /\ T[t].user = S[t].user /\ T[t].password = S[t].password
                               /\ T[t].parent = S[t].parent /\ T[t].tainted = S[t].tainted
                               /\ T[t].barred = S[t].barred
                               /\ S[t].revoked => T[t].revoked
    PROVE  SessionsOK(A, T)
<1>1. S \in Seq(Sess) /\ Len(S) \in Nat /\ DOMAIN S = 1 .. Len(S)
  BY LenProperties DEF SessionsOK
<1>2. \A t \in DOMAIN S : S[t].parent \in Nat /\ S[t].parent < t
  <2>1. S \in [1 .. Len(S) -> Sess]
    BY <1>1, LenProperties
  <2>2. \A t \in DOMAIN S : S[t].parent \in Nat
    BY <1>1, <2>1 DEF Sess
  <2>3. QED
    BY <2>2 DEF SessionsOK
<1>3. \A t \in DOMAIN S : S[t].parent # 0 => S[t].parent \in DOMAIN S
  BY <1>1, <1>2
<1>4. Follow(A, T)
  BY DEF SessionsOK, Follow
<1>5. Linear(T)
  BY <1>3 DEF SessionsOK, Linear
<1>6. Barred(T)
  BY DEF SessionsOK, Barred
<1>7. QED
  BY <1>4, <1>5, <1>6 DEF SessionsOK

LEMMA LinkAdded ==
    ASSUME NEW A, NEW L, LinksOK(A, L), NEW l \in Lnks, l.user \in DOMAIN A, l.uses = 0
    PROVE  LinksOK(A, Append(L, l))
<1>1. L \in Seq(Lnks)
  BY DEF LinksOK
<1>2. /\ Append(L, l) \in Seq(Lnks) /\ Len(L) \in Nat /\ DOMAIN L = 1 .. Len(L)
      /\ DOMAIN Append(L, l) = 1 .. Len(L) + 1
  BY <1>1, AppendProperties, LenProperties
<1>3. \A k \in DOMAIN Append(L, l) : Append(L, l)[k] = l \/ (k \in DOMAIN L /\ Append(L, l)[k] = L[k])
  BY <1>1, <1>2, AppendProperties
<1>4. QED
  BY <1>2, <1>3 DEF LinksOK

LEMMA LinkChanged ==
    ASSUME NEW A, NEW L, LinksOK(A, L), NEW k \in DOMAIN L, NEW l \in Lnks,
           l.user = L[k].user, l.uses =< 1, ~l.consumed => l.uses = 0
    PROVE  LinksOK(A, [L EXCEPT ![k] = l])
<1>1. L \in Seq(Lnks) /\ DOMAIN L = 1 .. Len(L)
  BY LenProperties DEF LinksOK
<1>2. [L EXCEPT ![k] = l] \in Seq(Lnks)
  BY <1>1, ExceptSeq
<1>3. QED
  BY <1>2 DEF LinksOK

-----------------------------------------------------------------------------
(* What a step does to the requests.                                        *)

\* The account that no request is about.
Nobody == -1

TablesOK(A, S, L) == A \in Seq(Accs) /\ SessionsOK(A, S) /\ LinksOK(A, L)

LEMMA GotoStep ==
    ASSUME Sound, NEW q \in Requests, NEW r \in Reqs, Goto(q, r),
           Good(r, accounts', sessions', links'),
           Touches(Nobody, accounts, sessions, links, accounts', sessions', links'),
           TablesOK(accounts', sessions', links'), now' \in Nat, objects' \in Nat
    PROVE  Sound'
<1>1. request' = [request EXCEPT ![q] = r] /\ request \in [Requests -> Reqs]
  BY DEF Goto, Sound
<1>2. request' \in [Requests -> Reqs]
  BY <1>1
<1>3. ASSUME NEW p \in Requests PROVE Good(request'[p], accounts', sessions', links')
  <2>1. request[p] \in Reqs /\ Good(request[p], accounts, sessions, links)
    BY <1>1 DEF Sound
  <2>2. request[p].user # Nobody
    BY <2>1 DEF Reqs, Nobody
  <2>3. Good(request[p], accounts', sessions', links')
    BY <2>1, <2>2, GoodOfOthers
  <2>4. QED
    BY <1>1, <2>3
<1>4. QED
  BY <1>2, <1>3 DEF Sound, TablesOK

LEMMA CommitStep ==
    ASSUME Sound, NEW q \in Requests, NEW r \in Reqs, NEW u, CommitOn(u, q, r),
           Good(r, accounts', sessions', links'),
           Touches(u, accounts, sessions, links, accounts', sessions', links'),
           TablesOK(accounts', sessions', links'), now' \in Nat, objects' \in Nat
    PROVE  Sound'
<1>1. ASSUME NEW p \in Requests
      PROVE  request'[p] \in Reqs /\ Good(request'[p], accounts', sessions', links')
  <2>1. request[p] \in Reqs /\ Good(request[p], accounts, sessions, links)
    BY DEF Sound
  <2>2. CASE p = q
    <3>1. request'[p] = r
      BY <2>2 DEF CommitOn
    <3>2. QED
      BY <3>1
  <2>3. CASE p # q /\ request[p].step # "idle" /\ u \in {request[p].user, request[p].key}
    <3>1. request'[p] = [request[p] EXCEPT !.raced = TRUE]
      BY <2>3 DEF CommitOn
    <3>2. QED
      BY <2>1, <3>1, GoodOfRaced
  <2>4. CASE p # q /\ ~(request[p].step # "idle" /\ u \in {request[p].user, request[p].key})
    <3>1. request'[p] = request[p]
      BY <2>4 DEF CommitOn
    <3>2. request[p].user # u \/ request[p].step \in {"idle", "insert"}
      BY <2>4
    <3>3. QED
      BY <2>1, <3>1, <3>2, GoodOfOthers
  <2>5. QED
    BY <2>2, <2>3, <2>4
<1>2. request' \in [Requests -> Reqs]
  BY <1>1 DEF CommitOn
<1>3. QED
  BY <1>1, <1>2 DEF Sound, TablesOK

\* Nothing but the request itself moves on.
LEMMA ReadStep ==
    ASSUME Sound, NEW q \in Requests, NEW r \in Reqs, Goto(q, r),
           Good(r, accounts, sessions, links),
           UNCHANGED <<accounts, sessions, links, now>>, objects' \in Nat
    PROVE  Sound'
<1>1. Touches(Nobody, accounts, sessions, links, accounts', sessions', links')
  BY DEF Touches
<1>2. TablesOK(accounts', sessions', links') /\ now' \in Nat
  BY DEF TablesOK, Sound
<1>3. Good(r, accounts', sessions', links')
  OBVIOUS
<1>4. QED
  BY <1>1, <1>2, <1>3, GotoStep

\* An account is edited without its password.
LEMMA EditStep ==
    ASSUME Sound, NEW q \in Requests, NEW r \in Reqs, NEW u \in DOMAIN accounts, NEW a \in Accs,
           CommitOn(u, q, r), accounts' = [accounts EXCEPT ![u] = a],
           a.password = accounts[u].password, a.open => accounts[u].open,
           r = Idle \/ (r.step = "drop" /\ r.user \in DOMAIN accounts),
           UNCHANGED <<sessions, links, now, objects>>
    PROVE  Sound'
<1>1. TablesOK(accounts', sessions', links')
  BY AccountEdited DEF Sound, TablesOK
<1>2. Touches(u, accounts, sessions, links, accounts', sessions', links')
  BY DEF Touches
<1>3. Good(r, accounts', sessions', links')
  <2>1. r.step = "drop" /\ r.user \in DOMAIN accounts => Good(r, accounts', sessions', links')
    BY DEF Good, Refers, Fresh
  <2>2. QED
    BY <2>1, GoodOfIdle
<1>4. now' \in Nat /\ objects' \in Nat
  BY DEF Sound
<1>5. QED
  BY <1>1, <1>2, <1>3, <1>4, CommitStep

-----------------------------------------------------------------------------
(* The steps.                                                               *)

\* What is known of the request that takes a step.
LEMMA Known ==
    ASSUME Sound, NEW q \in Requests
    PROVE  /\ request \in [Requests -> Reqs] /\ request[q] \in Reqs
           /\ Refers(request[q], accounts, sessions, links)
           /\ ~request[q].raced => Fresh(request[q], accounts, sessions, links)
           /\ Len(accounts) \in Nat /\ DOMAIN accounts = 1 .. Len(accounts)
           /\ accounts \in [DOMAIN accounts -> Accs]
           /\ Len(sessions) \in Nat /\ DOMAIN sessions = 1 .. Len(sessions)
           /\ sessions \in Seq(Sess) /\ sessions \in [DOMAIN sessions -> Sess]
           /\ Len(links) \in Nat /\ DOMAIN links = 1 .. Len(links)
           /\ links \in Seq(Lnks) /\ links \in [DOMAIN links -> Lnks]
           /\ now \in Nat /\ objects \in Nat
<1>1. /\ accounts \in Seq(Accs) /\ sessions \in Seq(Sess) /\ links \in Seq(Lnks)
  BY DEF Sound, SessionsOK, LinksOK
<1>2. QED
  BY <1>1, LenProperties DEF Sound, Good

\* The reads with which requests begin.
LEMMA Arrivals ==
    ASSUME Sound, NEW q \in Requests,
           \/ Register(q) \/ Login(q) \/ ReadSession(q) \/ ReadOwnSession(q)
           \/ AskLink(q) \/ ReadLink(q) \/ Authenticate(q) \/ ReadTarget(q)
    PROVE  Sound'
<1>i. Idle \in Reqs
  BY GoodOfIdle
<1>k. /\ DOMAIN accounts \subseteq Nat /\ accounts \in [DOMAIN accounts -> Accs]
      /\ DOMAIN sessions \subseteq Nat /\ sessions \in [DOMAIN sessions -> Sess]
      /\ DOMAIN links \subseteq Nat /\ links \in [DOMAIN links -> Lnks]
  BY Known
<1>0. ASSUME NEW r \in Reqs, Goto(q, r), Good(r, accounts, sessions, links),
             UNCHANGED <<now, tables, storage>>
      PROVE  Sound'
  <2>1. UNCHANGED <<accounts, sessions, links, now>> /\ objects' \in Nat
    BY <1>0 DEF tables, storage, Sound
  <2>2. QED
    BY <1>0, <2>1, ReadStep
<1>1. CASE Register(q)
  <2>1. PICK n \in Names : Goto(q, [Idle EXCEPT !.step = "insert", !.key = n])
    BY <1>1 DEF Register, Arrive
  <2> DEFINE r == [Idle EXCEPT !.step = "insert", !.key = n]
  <2>2. r \in Reqs /\ r.step = "insert" /\ r.key \in Names
    BY <1>i DEF Reqs, Any, Steps
  <2>3. Good(r, accounts, sessions, links)
    BY <2>2 DEF Good, Refers, Fresh
  <2>4. QED
    BY <1>0, <1>1, <2>1, <2>2, <2>3 DEF Register
<1>2. CASE Login(q)
  <2>1. PICK u \in Admitted :
           Goto(q, [Idle EXCEPT !.step = "issue", !.user = u, !.key = accounts[u].password])
    BY <1>2 DEF Login, Arrive
  <2> DEFINE r == [Idle EXCEPT !.step = "issue", !.user = u, !.key = accounts[u].password]
  <2>2. u \in DOMAIN accounts /\ u \in Nat /\ accounts[u].password \in Nat \cap Any /\ ~accounts[u].banned
    BY <1>k DEF Admitted, Open, Accs, Any
  <2>3. r \in Reqs /\ r.step = "issue" /\ r.user = u /\ r.key = accounts[u].password
    BY <2>2, <1>i DEF Reqs, Steps
  <2>4. Good(r, accounts, sessions, links)
    BY <2>2, <2>3 DEF Good, Refers, Fresh
  <2>5. QED
    BY <1>0, <1>2, <2>1, <2>3, <2>4 DEF Login
<1>3. CASE ReadSession(q)
  <2>1. PICK t \in DOMAIN sessions :
           Goto(q, [Idle EXCEPT !.step = IF Active(t) THEN "owner" ELSE "revoke_all",
                                !.user = sessions[t].user, !.key = t])
    BY <1>3 DEF ReadSession, Arrive
  <2> DEFINE r == [Idle EXCEPT !.step = IF Active(t) THEN "owner" ELSE "revoke_all",
                               !.user = sessions[t].user, !.key = t]
  <2>2. sessions[t].user \in DOMAIN accounts /\ sessions[t].user \in Nat /\ t \in Any
    BY <1>k DEF Sound, SessionsOK, Sess, Any
  <2>3. /\ r \in Reqs /\ r.step \in {"owner", "revoke_all"} /\ (r.step = "owner" => Active(t))
        /\ r.user = sessions[t].user /\ r.key = t
    BY <2>2, <1>i DEF Reqs, Steps
  <2>4. Good(r, accounts, sessions, links)
    BY <2>2, <2>3 DEF Good, Refers, Fresh, Active
  <2>5. QED
    BY <1>0, <1>3, <2>1, <2>3, <2>4 DEF ReadSession
<1>4. CASE ReadOwnSession(q)
  <2>0. PICK u \in Admitted : \E t \in SessionsOf(u) :
           Goto(q, [Idle EXCEPT !.step = "logout", !.user = u, !.key = t])
    BY <1>4 DEF ReadOwnSession, Arrive
  <2>1. PICK t \in SessionsOf(u) : Goto(q, [Idle EXCEPT !.step = "logout", !.user = u, !.key = t])
    BY <2>0
  <2> DEFINE r == [Idle EXCEPT !.step = "logout", !.user = u, !.key = t]
  <2>2. u \in DOMAIN accounts /\ u \in Nat /\ t \in DOMAIN sessions /\ t \in Any /\ sessions[t].user = u
    BY <1>k DEF Admitted, Open, SessionsOf, Any
  <2>3. r \in Reqs /\ r.step = "logout" /\ r.user = u /\ r.key = t
    BY <2>2, <1>i DEF Reqs, Steps
  <2>4. Good(r, accounts, sessions, links)
    BY <2>2, <2>3 DEF Good, Refers, Fresh
  <2>5. QED
    BY <1>0, <1>4, <2>1, <2>3, <2>4 DEF ReadOwnSession
<1>5. CASE AskLink(q)
  <2>1. PICK u \in Open, reset \in BOOLEAN :
           Goto(q, [Idle EXCEPT !.step = "link", !.user = u, !.flag = reset])
    BY <1>5 DEF AskLink, Arrive
  <2> DEFINE r == [Idle EXCEPT !.step = "link", !.user = u, !.flag = reset]
  <2>2. u \in DOMAIN accounts /\ u \in Nat
    BY <1>k DEF Open
  <2>3. r \in Reqs /\ r.step = "link" /\ r.user = u
    BY <2>2, <1>i DEF Reqs, Steps
  <2>4. Good(r, accounts, sessions, links)
    BY <2>2, <2>3 DEF Good, Refers, Fresh
  <2>5. QED
    BY <1>0, <1>5, <2>1, <2>3, <2>4 DEF AskLink
<1>6. CASE ReadLink(q)
  <2>1. PICK k \in DOMAIN links :
           /\ Valid(k)
           /\ Goto(q, [Idle EXCEPT !.step = links[k].purpose, !.user = links[k].user, !.key = k])
    BY <1>6 DEF ReadLink, Arrive
  <2> DEFINE r == [Idle EXCEPT !.step = links[k].purpose, !.user = links[k].user, !.key = k]
  <2>2. /\ links[k].user \in DOMAIN accounts /\ ~links[k].consumed
        /\ links[k].user \in Nat /\ k \in Any /\ links[k].purpose \in {"reset", "verify"}
    BY <2>1, <1>k DEF Sound, LinksOK, Valid, Lnks, Any
  <2>3. r \in Reqs /\ r.step \in {"reset", "verify"} /\ r.user = links[k].user /\ r.key = k
    BY <2>2, <1>i DEF Reqs, Steps
  <2>4. Good(r, accounts, sessions, links)
    BY <2>2, <2>3 DEF Good, Refers, Fresh
  <2>5. QED
    BY <1>0, <1>6, <2>1, <2>3, <2>4 DEF ReadLink
<1>7. CASE Authenticate(q)
  <2>1. PICK u \in Admitted, step \in {"put", "drop_first", "profile", "erase"} :
           Goto(q, [Idle EXCEPT !.step = step, !.user = u, !.previous = accounts[u].avatar])
    BY <1>7 DEF Authenticate, Arrive
  <2> DEFINE r == [Idle EXCEPT !.step = step, !.user = u, !.previous = accounts[u].avatar]
  <2>2. u \in DOMAIN accounts /\ u \in Nat /\ accounts[u].avatar \in Any
    BY <1>k DEF Admitted, Open, Accs, Any
  <2>3. r \in Reqs /\ r.step = step /\ r.user = u
    BY <2>2, <1>i DEF Reqs, Steps
  <2>4. Good(r, accounts, sessions, links)
    BY <2>2, <2>3 DEF Good, Refers, Fresh
  <2>5. QED
    BY <1>0, <1>7, <2>1, <2>3, <2>4 DEF Authenticate
<1>8. CASE ReadTarget(q)
  <2>1. PICK u \in Open, grant \in BOOLEAN :
           Goto(q, [Idle EXCEPT !.step = IF accounts[u].admin = grant THEN "audit" ELSE "role",
                                !.user = u, !.flag = grant])
    BY <1>8 DEF ReadTarget, Arrive
  <2> DEFINE r == [Idle EXCEPT !.step = IF accounts[u].admin = grant THEN "audit" ELSE "role",
                               !.user = u, !.flag = grant]
  <2>2. u \in DOMAIN accounts /\ u \in Nat
    BY <1>k DEF Open
  <2>3. r \in Reqs /\ r.step \in {"audit", "role"} /\ r.user = u
    BY <2>2, <1>i DEF Reqs, Steps
  <2>4. Good(r, accounts, sessions, links)
    BY <2>2, <2>3 DEF Good, Refers, Fresh
  <2>5. QED
    BY <1>0, <1>8, <2>1, <2>3, <2>4 DEF ReadTarget
<1>9. QED
  BY <1>1, <1>2, <1>3, <1>4, <1>5, <1>6, <1>7, <1>8

\* Revoking the sessions of an account, all of them or one.
LEMMA AllRevoked ==
    ASSUME Sound, NEW u
    PROVE  /\ SessionsOK(accounts, Revoked(u))
           /\ Touches(u, accounts, sessions, links, accounts, Revoked(u), links)
           /\ DOMAIN Revoked(u) = DOMAIN sessions
           /\ \A t \in DOMAIN sessions :
                 /\ Revoked(u)[t].user = sessions[t].user
                 /\ sessions[t].user = u => Revoked(u)[t].revoked
                 /\ sessions[t].user # u => Revoked(u)[t] = sessions[t]
                 /\ Revoked(u)[t].password = sessions[t].password
                 /\ Revoked(u)[t].tainted = sessions[t].tainted
<1> DEFINE T == Revoked(u)
<1>1. /\ Len(sessions) \in Nat /\ DOMAIN sessions = 1 .. Len(sessions)
      /\ sessions \in [DOMAIN sessions -> Sess] /\ SessionsOK(accounts, sessions)
  BY LenProperties DEF Sound, SessionsOK
<1>2. ASSUME NEW t \in DOMAIN sessions
      PROVE  /\ T[t] \in Sess
             /\ T[t].user = sessions[t].user /\ T[t].password = sessions[t].password
             /\ T[t].parent = sessions[t].parent /\ T[t].tainted = sessions[t].tainted
             /\ T[t].barred = sessions[t].barred
             /\ sessions[t].user # u => T[t] = sessions[t]
             /\ sessions[t].user = u => T[t].revoked
             /\ sessions[t].revoked => T[t].revoked
  <2>1. sessions[t] \in Sess
    BY <1>1
  <2>2. CASE sessions[t].user = u
    <3>1. T[t] = [sessions[t] EXCEPT !.revoked = TRUE]
      BY <2>2 DEF Revoked
    <3>2. T[t].revoked
      BY <2>1, <3>1, Zenon DEF Sess
    <3>3. QED
      BY <2>1, <2>2, <3>1, <3>2 DEF Sess
  <2>3. CASE sessions[t].user # u
    BY <2>1, <2>3 DEF Revoked
  <2>4. QED
    BY <2>2, <2>3
<1>3. T \in [DOMAIN sessions -> Sess] /\ DOMAIN T = DOMAIN sessions
  BY <1>2 DEF Revoked
<1>4. T \in Seq(Sess)
  BY <1>1, <1>3, SeqDef
<1> HIDE DEF T
<1>5. SessionsOK(accounts, T)
  BY <1>1, <1>2, <1>3, <1>4, SessionsRevoked
<1>6. Touches(u, accounts, sessions, links, accounts, T, links)
  BY <1>2, <1>3 DEF Touches
<1>7. QED
  BY <1>2, <1>3, <1>5, <1>6 DEF T

LEMMA OneRevoked ==
    ASSUME Sound, NEW t \in DOMAIN sessions
    PROVE  LET T == [sessions EXCEPT ![t].revoked = TRUE]
           IN  /\ SessionsOK(accounts, T)
               /\ Touches(sessions[t].user, accounts, sessions, links, accounts, T, links)
               /\ DOMAIN T = DOMAIN sessions /\ T[t].revoked
               /\ \A v \in DOMAIN sessions : T[v].user = sessions[v].user /\ T[v].parent = sessions[v].parent
<1> DEFINE s == [sessions[t] EXCEPT !.revoked = TRUE]
           T == [sessions EXCEPT ![t].revoked = TRUE]
<1>1. /\ Len(sessions) \in Nat /\ DOMAIN sessions = 1 .. Len(sessions) /\ sessions \in Seq(Sess)
      /\ sessions \in [DOMAIN sessions -> Sess] /\ SessionsOK(accounts, sessions)
  BY LenProperties DEF Sound, SessionsOK
<1>2. /\ s \in Sess /\ s.user = sessions[t].user /\ s.password = sessions[t].password
      /\ s.parent = sessions[t].parent /\ s.tainted = sessions[t].tainted
      /\ s.barred = sessions[t].barred
  BY <1>1 DEF Sess
<1>3. s.revoked
  <2>1. sessions[t] \in Sess
    BY <1>1
  <2>2. QED
    BY <2>1, Zenon DEF Sess
<1>4. T = [sessions EXCEPT ![t] = s]
  OBVIOUS
<1> HIDE DEF s
<1>5. T \in Seq(Sess) /\ DOMAIN T = DOMAIN sessions
  BY <1>1, <1>2, <1>4, ExceptSeq
<1>6. \A v \in DOMAIN sessions : T[v] = IF v = t THEN s ELSE sessions[v]
  BY <1>4
<1> HIDE DEF T
<1>7. SessionsOK(accounts, T)
  BY <1>1, <1>2, <1>3, <1>5, <1>6, SessionsRevoked
<1>8. Touches(sessions[t].user, accounts, sessions, links, accounts, T, links)
  BY <1>2, <1>5, <1>6 DEF Touches
<1>9. QED
  BY <1>2, <1>3, <1>5, <1>6, <1>7, <1>8 DEF T

LEMMA SessionSteps ==
    ASSUME SessionLife \in Nat, Sound, NEW q \in Requests,
           IssueSession(q) \/ ReadOwner(q) \/ Rotate(q) \/ RevokeAll(q) \/ Logout(q)
    PROVE  Sound'
<1> DEFINE r == request[q]
<1>k. /\ r \in Reqs /\ Refers(r, accounts, sessions, links)
      /\ ~r.raced => Fresh(r, accounts, sessions, links)
      /\ accounts \in Seq(Accs) /\ accounts \in [DOMAIN accounts -> Accs]
      /\ DOMAIN accounts \subseteq Nat
      /\ Len(sessions) \in Nat /\ DOMAIN sessions = 1 .. Len(sessions)
      /\ sessions \in [DOMAIN sessions -> Sess]
      /\ now \in Nat /\ objects \in Nat
      /\ SessionsOK(accounts, sessions) /\ LinksOK(accounts, links)
  BY Known DEF Sound
<1>i. Idle \in Reqs /\ \A A, S, L : Good(Idle, A, S, L)
  BY GoodOfIdle
<1> HIDE DEF r
<1>1. CASE IssueSession(q)
  <2> DEFINE s == Session(r.user, r.key, 0, r.raced)
  <2>1. /\ r.step = "issue" /\ CommitOn(r.user, q, Idle)
        /\ sessions' = IF accounts[r.user].open THEN Append(sessions, s) ELSE sessions
        /\ UNCHANGED <<now, accounts, links, objects>>
    BY <1>1 DEF IssueSession, r, storage
  <2>2. r.user \in DOMAIN accounts /\ r.key \in Nat
    BY <1>k, <2>1 DEF Refers
  <2>3. /\ s \in Sess /\ s.user = r.user /\ s.parent = 0 /\ s.password = r.key
        /\ s.tainted = r.raced /\ s.barred = accounts[r.user].banned
    BY <1>k, <2>2 DEF Session, Sess, Accs, Reqs
  <2>4. ~s.tainted => s.password = accounts[s.user].password /\ ~s.barred
    BY <1>k, <2>1, <2>3 DEF Fresh
  <2> HIDE DEF s
  <2>5. SessionsOK(accounts, Append(sessions, s))
    BY <1>k, <2>2, <2>3, <2>4, SessionAdded
  <2>6. Touches(r.user, accounts, sessions, links, accounts, Append(sessions, s), links)
    BY <1>k, <2>3, AppendProperties DEF Touches, SessionsOK
  <2>7. Touches(r.user, accounts, sessions, links, accounts, sessions, links)
    BY DEF Touches
  <2>8. QED
    BY <1>k, <1>i, <2>1, <2>5, <2>6, <2>7, CommitStep DEF TablesOK
<1>2. CASE ReadOwner(q)
  <2> DEFINE s == IF r.user \in Admitted THEN [r EXCEPT !.step = "rotate"] ELSE Idle
  <2>1. /\ r.step = "owner" /\ Goto(q, s)
        /\ UNCHANGED <<accounts, sessions, links, now, objects>>
    BY <1>2 DEF ReadOwner, r, tables, storage
  <2>2. ASSUME r.user \in Admitted
        PROVE  [r EXCEPT !.step = "rotate"] \in Reqs /\ Good([r EXCEPT !.step = "rotate"], accounts, sessions, links)
    <3>1. /\ [r EXCEPT !.step = "rotate"] \in Reqs /\ [r EXCEPT !.step = "rotate"].step = "rotate"
          /\ [r EXCEPT !.step = "rotate"].user = r.user /\ [r EXCEPT !.step = "rotate"].key = r.key
          /\ [r EXCEPT !.step = "rotate"].raced = r.raced
      BY <1>k DEF Reqs, Steps
    <3>2. ~accounts[r.user].banned /\ r.user \in DOMAIN accounts
      BY <2>2 DEF Admitted, Open
    <3>3. QED
      BY <1>k, <2>1, <3>1, <3>2 DEF Good, Refers, Fresh
  <2>3. s \in Reqs /\ Good(s, accounts, sessions, links)
    BY <1>i, <2>2
  <2> HIDE DEF s
  <2>4. QED
    BY <1>k, <2>1, <2>3, ReadStep
<1>3. CASE Rotate(q)
  <2> DEFINE old == sessions[r.key]
             s == Session(r.user, old.password, r.key, old.tainted \/ r.raced)
             T == [sessions EXCEPT ![r.key].revoked = TRUE]
  <2>1. /\ r.step = "rotate" /\ CommitOn(r.user, q, Idle)
        /\ sessions' = IF accounts[r.user].open THEN Append(T, s) ELSE sessions
        /\ UNCHANGED <<now, accounts, links, objects>>
    BY <1>3 DEF Rotate, r, storage
  <2>2. /\ r.user \in DOMAIN accounts /\ r.key \in DOMAIN sessions /\ old.user = r.user
        /\ r.key \in Nat
    BY <1>k, <2>1 DEF Refers
  <2>3. /\ SessionsOK(accounts, T) /\ Touches(r.user, accounts, sessions, links, accounts, T, links)
        /\ DOMAIN T = DOMAIN sessions /\ T[r.key].revoked
        /\ \A v \in DOMAIN sessions : T[v].user = sessions[v].user /\ T[v].parent = sessions[v].parent
    BY <2>2, OneRevoked
  <2>o. old \in Sess /\ accounts[r.user] \in Accs
    BY <1>k, <2>2
  <2>4. /\ s \in Sess /\ s.user = r.user /\ s.parent = r.key /\ s.password = old.password
        /\ s.tainted = (old.tainted \/ r.raced) /\ s.barred = accounts[r.user].banned
    <3>1. s = [user |-> r.user, password |-> old.password, parent |-> r.key,
               tainted |-> old.tainted \/ r.raced, expires |-> now + SessionLife,
               revoked |-> FALSE, barred |-> accounts[r.user].banned]
      BY DEF Session
    <3>2. /\ r.user \in Nat /\ r.key \in Nat /\ old.password \in Nat /\ now + SessionLife \in Nat
          /\ accounts[r.user].banned \in BOOLEAN /\ (old.tainted \/ r.raced) \in BOOLEAN
      <4>1. r.user \in Nat /\ r.key \in Nat
        BY <1>k, <2>2 DEF Reqs
      <4>2. now + SessionLife \in Nat
        BY <1>k
      <4>3. old.password \in Nat /\ accounts[r.user].banned \in BOOLEAN
        BY <2>o DEF Sess, Accs
      <4>4. QED
        BY <4>1, <4>2, <4>3
    <3> HIDE DEF s
    <3>3. s \in Sess
      BY <3>1, <3>2 DEF Sess
    <3>4. QED
      BY <3>1, <3>3
  <2>5. ~r.raced => ~old.revoked /\ ~accounts[r.user].banned
    BY <1>k, <2>1 DEF Fresh
  <2>6. ASSUME ~s.tainted, accounts[s.user].open PROVE s.password = accounts[s.user].password
    <3>1. ~old.tainted /\ ~r.raced
      BY <2>4, <2>6, Zenon
    <3>2. ~old.revoked /\ accounts[old.user].open
      BY <2>2, <2>4, <2>5, <2>6, <3>1
    <3>3. old.password = accounts[old.user].password
      BY <1>k, <2>2, <3>1, <3>2 DEF SessionsOK, Follow
    <3>4. QED
      BY <2>2, <2>4, <3>3
  <2>7. s.barred => s.tainted
    BY <2>4, <2>5, Zenon
  <2>8. ASSUME ~s.tainted, NEW t \in DOMAIN sessions PROVE sessions[t].parent # r.key
    <3>1. ~old.revoked
      BY <2>4, <2>5, <2>8
    <3>2. r.key # 0
      BY <1>k, <2>2
    <3>3. QED
      BY <1>k, <3>1, <3>2 DEF SessionsOK, Linear
  <2>9. T \in Seq(Sess) /\ Len(T) = Len(sessions) /\ r.key =< Len(T)
    <3>1. T \in Seq(Sess)
      BY <2>3 DEF SessionsOK
    <3>2. Len(T) \in Nat /\ DOMAIN T = 1 .. Len(T)
      BY <3>1, LenProperties
    <3>3. QED
      BY <1>k, <2>2, <2>3, <3>1, <3>2
  <2> HIDE DEF s, T, old
  <2>10. SessionsOK(accounts, Append(T, s))
    BY <2>2, <2>3, <2>4, <2>6, <2>7, <2>8, <2>9, SessionAdded
  <2>11. Touches(r.user, accounts, sessions, links, accounts, Append(T, s), links)
    <3>1. \A t \in DOMAIN T : t \in DOMAIN Append(T, s) /\ Append(T, s)[t] = T[t]
      BY <1>k, <2>3, <2>4, <2>9, AppendProperties
    <3>2. QED
      BY <2>3, <3>1 DEF Touches
  <2>12. Touches(r.user, accounts, sessions, links, accounts, sessions, links)
    BY DEF Touches
  <2>13. QED
    BY <1>k, <1>i, <2>1, <2>10, <2>11, <2>12, CommitStep DEF TablesOK
<1>4. CASE RevokeAll(q)
  <2>1. /\ CommitOn(r.user, q, Idle) /\ sessions' = Revoked(r.user)
        /\ UNCHANGED <<now, accounts, links, objects>>
    BY <1>4 DEF RevokeAll, r, storage
  <2>2. QED
    BY <1>k, <1>i, <2>1, AllRevoked, CommitStep DEF TablesOK
<1>5. CASE Logout(q)
  <2>1. /\ r.step = "logout" /\ CommitOn(r.user, q, Idle)
        /\ sessions' = [sessions EXCEPT ![r.key].revoked = TRUE]
        /\ UNCHANGED <<now, accounts, links, objects>>
    BY <1>5 DEF Logout, r, storage
  <2>2. r.key \in DOMAIN sessions /\ sessions[r.key].user = r.user
    BY <1>k, <2>1 DEF Refers
  <2>3. /\ SessionsOK(accounts, sessions')
        /\ Touches(r.user, accounts, sessions, links, accounts, sessions', links)
    BY <2>1, <2>2, OneRevoked
  <2>4. QED
    BY <1>k, <1>i, <2>1, <2>3, CommitStep DEF TablesOK
<1>6. QED
  BY <1>1, <1>2, <1>3, <1>4, <1>5

\* The link of a request that nobody raced was not consumed, and is now.
LEMMA LinkConsumed ==
    ASSUME Sound, NEW q \in Requests, request[q].step \in {"verify", "reset"}
    PROVE  /\ LinksOK(accounts, Consumed(q)) /\ DOMAIN Consumed(q) = DOMAIN links
           /\ \A k \in DOMAIN links :
                  /\ Consumed(q)[k].user = links[k].user
                  /\ links[k].user # request[q].user =>
                       Consumed(q)[k].consumed = links[k].consumed
<1> DEFINE r == request[q]
           old == links[r.key]
           n == IF r.raced THEN old.uses ELSE old.uses + 1
           l == [old EXCEPT !.consumed = TRUE, !.uses = n]
<1>1. /\ r.key \in DOMAIN links /\ old.user = r.user /\ old \in Lnks
      /\ ~r.raced => ~old.consumed
      /\ links \in [DOMAIN links -> Lnks] /\ LinksOK(accounts, links)
  BY Known DEF Refers, Fresh, Sound
<1>n. n \in Nat /\ n =< 1
  <2>1. old.uses \in Nat /\ old.uses =< 1 /\ (~old.consumed => old.uses = 0)
    BY <1>1 DEF Lnks, LinksOK
  <2>2. QED
    BY <1>1, <2>1
<1>5. Consumed(q) = [links EXCEPT ![r.key] = l]
  BY <1>1 DEF Consumed
<1> HIDE DEF n
<1>2. l \in Lnks /\ l.user = old.user /\ l.uses = n
  BY <1>1, <1>n DEF Lnks
<1>3. l.consumed
  BY <1>1, Zenon DEF Lnks
<1>4. l.uses =< 1
  BY <1>n, <1>2
<1> HIDE DEF l, r
<1>a. LinksOK(accounts, links) /\ r.key \in DOMAIN links
  BY <1>1
<1>b. l \in Lnks /\ l.user = links[r.key].user
  BY <1>2
<1>c. ~l.consumed => l.uses = 0
  BY <1>3
<1>d. LinksOK(accounts, [links EXCEPT ![r.key] = l])
  BY <1>a, <1>b, <1>c, <1>4, LinkChanged
<1>6. LinksOK(accounts, Consumed(q))
  BY <1>5, <1>d
<1>7. QED
  BY <1>1, <1>2, <1>5, <1>6 DEF r

LEMMA LinkSteps ==
    ASSUME LinkLife \in Nat, Sound, NEW q \in Requests,
           InsertLink(q) \/ SendMail(q) \/ ConfirmEmail(q) \/ ResetPassword(q)
    PROVE  Sound'
<1> DEFINE r == request[q]
<1>k. /\ r \in Reqs /\ Refers(r, accounts, sessions, links)
      /\ accounts \in Seq(Accs) /\ accounts \in [DOMAIN accounts -> Accs]
      /\ DOMAIN accounts = 1 .. Len(accounts)
      /\ links \in Seq(Lnks) /\ Len(links) \in Nat /\ DOMAIN links = 1 .. Len(links)
      /\ links \in [DOMAIN links -> Lnks]
      /\ now \in Nat /\ objects \in Nat
      /\ SessionsOK(accounts, sessions) /\ LinksOK(accounts, links)
  BY Known DEF Sound
<1>i. Idle \in Reqs /\ \A A, S, L : Good(Idle, A, S, L)
  BY GoodOfIdle
<1>g. ASSUME Goto(q, Idle), UNCHANGED <<accounts, sessions, links, now, objects>>
      PROVE  Sound'
  BY <1>g, <1>i, <1>k, ReadStep
<1> HIDE DEF r
<1>1. CASE InsertLink(q)
  <2> DEFINE l == Link(r.user, IF r.flag THEN "reset" ELSE "verify")
             s == [r EXCEPT !.step = "mail", !.key = Len(links) + 1]
  <2>1. CASE ~accounts[r.user].open
    BY <1>1, <1>g, <2>1 DEF InsertLink, r, storage
  <2>2. CASE accounts[r.user].open
    <3>1. /\ r.step = "link" /\ links' = Append(links, l) /\ CommitOn(r.user, q, s)
          /\ UNCHANGED <<now, accounts, sessions, objects>>
      BY <1>1, <2>2 DEF InsertLink, r, storage
    <3>2. r.user \in DOMAIN accounts
      BY <1>k, <3>1 DEF Refers
    <3>3. l \in Lnks /\ l.user = r.user /\ l.uses = 0
      BY <1>k DEF Link, Lnks, Reqs
    <3>a. Len(links) + 1 \in Any
      BY <1>k DEF Any
    <3>4. /\ s \in Reqs /\ s.step = "mail" /\ s.user = r.user /\ s.key = Len(links) + 1
      BY <1>k, <3>a DEF Reqs, Steps
    <3> HIDE DEF l, s
    <3>5. LinksOK(accounts, Append(links, l))
      BY <1>k, <3>2, <3>3, LinkAdded
    <3>6. /\ \A k \in DOMAIN links : k \in DOMAIN Append(links, l) /\ Append(links, l)[k] = links[k]
          /\ Len(links) + 1 \in DOMAIN Append(links, l) /\ Append(links, l)[Len(links) + 1] = l
      BY <1>k, <3>3, AppendProperties
    <3>7. Touches(r.user, accounts, sessions, links, accounts, sessions, Append(links, l))
      BY <3>6 DEF Touches
    <3>8. Good(s, accounts, sessions, Append(links, l))
      BY <3>2, <3>3, <3>4, <3>6 DEF Good, Refers, Fresh
    <3>9. QED
      BY <1>k, <3>1, <3>4, <3>5, <3>7, <3>8, CommitStep DEF TablesOK
  <2>3. QED
    BY <2>1, <2>2
<1>2. CASE SendMail(q)
  <2>1. PICK sent \in BOOLEAN : links' = [links EXCEPT ![r.key].mailed = sent]
    BY <1>2 DEF SendMail, r
  <2>2. /\ r.step = "mail" /\ Goto(q, Idle) /\ UNCHANGED <<now, accounts, sessions, objects>>
    BY <1>2 DEF SendMail, r, storage
  <2>3. r.key \in DOMAIN links
    BY <1>k, <2>2 DEF Refers
  <2> DEFINE l == [links[r.key] EXCEPT !.mailed = sent]
  <2>4. /\ l \in Lnks /\ l.user = links[r.key].user /\ l.uses = links[r.key].uses
        /\ l.consumed = links[r.key].consumed
    BY <1>k, <2>3 DEF Lnks
  <2>5. links' = [links EXCEPT ![r.key] = l]
    BY <2>1
  <2> HIDE DEF l
  <2>6. LinksOK(accounts, links')
    BY <1>k, <2>3, <2>4, <2>5, LinkChanged DEF LinksOK
  <2>7. Touches(Nobody, accounts, sessions, links, accounts, sessions, links')
    BY <2>3, <2>4, <2>5 DEF Touches
  <2>8. QED
    BY <1>k, <1>i, <2>2, <2>6, <2>7, GotoStep DEF TablesOK
<1>3. CASE ConfirmEmail(q)
  <2>1. CASE ~accounts[r.user].open
    BY <1>3, <1>g, <2>1 DEF ConfirmEmail, r, storage
  <2>2. CASE accounts[r.user].open
    <3> DEFINE a == [accounts[r.user] EXCEPT !.verified = TRUE]
               A == [accounts EXCEPT ![r.user] = a]
    <3>1. /\ r.step = "verify" /\ links' = Consumed(q)
          /\ accounts' = A /\ CommitOn(r.user, q, Idle)
          /\ UNCHANGED <<now, sessions, objects>>
      BY <1>3, <2>2 DEF ConfirmEmail, r, storage
    <3>2. r.user \in DOMAIN accounts
      BY <1>k, <3>1 DEF Refers
    <3>3. /\ a \in Accs /\ a.password = accounts[r.user].password /\ a.open = accounts[r.user].open
          /\ DOMAIN A = DOMAIN accounts
      <4> DEFINE b == accounts[r.user]
      <4>1. b \in Accs
        BY <1>k, <3>2
      <4>2. a = [b EXCEPT !.verified = TRUE] /\ DOMAIN A = DOMAIN accounts
        OBVIOUS
      <4>3. a \in Accs /\ a.password = b.password /\ a.open = b.open
        <5> HIDE DEF a, b
        <5> QED BY <4>1, <4>2 DEF Accs
      <4> QED BY <4>2, <4>3
    <3>4. /\ LinksOK(accounts, Consumed(q)) /\ DOMAIN Consumed(q) = DOMAIN links
          /\ \A k \in DOMAIN links :
                 /\ Consumed(q)[k].user = links[k].user
                 /\ links[k].user # r.user => Consumed(q)[k].consumed = links[k].consumed
      BY <3>1, LinkConsumed DEF r
    <3>a. \A v \in DOMAIN accounts : v # r.user => A[v] = accounts[v]
      OBVIOUS
    <3>5. Touches(r.user, accounts, sessions, links, A, sessions, Consumed(q))
      <4> HIDE DEF A
      <4>1. QED
        BY <3>3, <3>4, <3>a DEF Touches
    <3> HIDE DEF a
    <3>6. A \in Seq(Accs) /\ SessionsOK(A, sessions) /\ LinksOK(A, Consumed(q))
      BY <1>k, <3>2, <3>3, <3>4, AccountEdited
    <3>7. QED
      BY <1>k, <1>i, <3>1, <3>5, <3>6, CommitStep DEF TablesOK
  <2>3. QED
    BY <2>1, <2>2
<1>4. CASE ResetPassword(q)
  <2>1. CASE ~accounts[r.user].open
    BY <1>4, <1>g, <2>1 DEF ResetPassword, r, storage, tables
  <2>2. CASE accounts[r.user].open
    <3> DEFINE a == [accounts[r.user] EXCEPT !.password = @ + 1]
               A == [accounts EXCEPT ![r.user] = a]
               T == Revoked(r.user)
    <3>1. /\ r.step = "reset" /\ links' = Consumed(q) /\ sessions' = T
          /\ accounts' = A /\ CommitOn(r.user, q, Idle)
          /\ UNCHANGED <<now, objects>>
      BY <1>4, <2>2 DEF ResetPassword, r, storage
    <3>2. r.user \in DOMAIN accounts
      BY <1>k, <3>1 DEF Refers
    <3>a. accounts[r.user] \in Accs /\ accounts[r.user].password + 1 \in Nat
      BY <1>k, <3>2 DEF Accs
    <3>3. a \in Accs /\ DOMAIN A = DOMAIN accounts
      BY <3>a DEF Accs
    <3>4. /\ LinksOK(accounts, Consumed(q)) /\ DOMAIN Consumed(q) = DOMAIN links
          /\ \A k \in DOMAIN links :
                 /\ Consumed(q)[k].user = links[k].user
                 /\ links[k].user # r.user => Consumed(q)[k].consumed = links[k].consumed
      BY <3>1, LinkConsumed DEF r
    <3>5. /\ SessionsOK(accounts, T) /\ DOMAIN T = DOMAIN sessions
          /\ \A t \in DOMAIN sessions :
                 /\ T[t].user = sessions[t].user
                 /\ sessions[t].user = r.user => T[t].revoked
                 /\ sessions[t].user # r.user => T[t] = sessions[t]
      BY AllRevoked
    <3> HIDE DEF a, T
    <3>6. A \in Seq(Accs) /\ \A v \in DOMAIN accounts : v # r.user => A[v] = accounts[v]
      BY <1>k, <3>2, <3>3, ExceptSeq
    <3> HIDE DEF A
    <3>7. Touches(r.user, accounts, sessions, links, A, T, Consumed(q))
      BY <3>3, <3>4, <3>5, <3>6 DEF Touches
    <3>8. SessionsOK(A, T)
      <4>1. Follow(A, T)
        <5>1. \A t \in DOMAIN T : ~T[t].revoked => sessions[t].user # r.user /\ T[t] = sessions[t]
          BY <3>5
        <5>2. \A t \in DOMAIN T : T[t].user \in DOMAIN accounts
          BY <3>5 DEF SessionsOK
        <5>3. QED
          BY <1>k, <3>5, <3>6, <5>1, <5>2 DEF SessionsOK, Follow
      <4>2. QED
        BY <3>3, <3>5, <4>1 DEF SessionsOK
    <3>9. LinksOK(A, Consumed(q))
      BY <3>3, <3>4 DEF LinksOK
    <3>10. QED
      BY <1>k, <1>i, <3>1, <3>6, <3>7, <3>8, <3>9, CommitStep DEF TablesOK
  <2>3. QED
    BY <2>1, <2>2
<1>5. QED
  BY <1>1, <1>2, <1>3, <1>4

LEMMA RowSteps ==
    ASSUME Sound, NEW q \in Requests,
           \/ SaveAvatar(q) \/ ClearAvatar(q) \/ SaveProfile(q) \/ Erase(q) \/ SetRole(q)
           \/ PutObject(q) \/ DropOld(q) \/ DropFirst(q) \/ Crash(q)
    PROVE  Sound'
<1> DEFINE r == request[q]
<1>k. /\ r \in Reqs /\ Refers(r, accounts, sessions, links)
      /\ accounts \in [DOMAIN accounts -> Accs]
      /\ now \in Nat /\ objects \in Nat
  BY Known DEF Sound
<1>i. Idle \in Reqs /\ \A A, S, L : Good(Idle, A, S, L)
  BY GoodOfIdle
<1>g. ASSUME Goto(q, Idle), UNCHANGED <<accounts, sessions, links, now>>, objects' \in Nat
      PROVE  Sound'
  BY <1>g, <1>i, ReadStep
<1>e. ASSUME r.step \notin {"idle", "insert"}, NEW a \in Accs,
             accounts' = [accounts EXCEPT ![r.user] = a],
             a.password = accounts[r.user].password, a.open => accounts[r.user].open,
             NEW s \in {Idle, [r EXCEPT !.step = "drop"]}, CommitOn(r.user, q, s),
             UNCHANGED <<sessions, links, now, objects>>
      PROVE  Sound'
  <2>1. r.user \in DOMAIN accounts
    BY <1>k, <1>e DEF Refers
  <2>2. s \in Reqs /\ (s = Idle \/ (s.step = "drop" /\ s.user \in DOMAIN accounts))
    BY <1>i, <1>k, <2>1 DEF Reqs, Steps
  <2> HIDE DEF r
  <2>3. QED
    BY <1>e, <2>1, <2>2, EditStep
<1> HIDE DEF r
<1>1. CASE SaveAvatar(q)
  <2>1. r.step = "save" /\ UNCHANGED <<sessions, links, now, objects>>
    BY <1>1 DEF SaveAvatar, r, storage
  <2>2. CASE ~accounts[r.user].open
    BY <1>1, <1>g, <1>k, <2>1, <2>2 DEF SaveAvatar, r
  <2>3. CASE accounts[r.user].open
    <3> DEFINE a == [accounts[r.user] EXCEPT !.avatar = r.key]
    <3>1. accounts' = [accounts EXCEPT ![r.user] = a] /\ CommitOn(r.user, q, [r EXCEPT !.step = "drop"])
      BY <1>1, <2>3 DEF SaveAvatar, r
    <3>2. accounts[r.user] \in Accs /\ r.key \in Any
      BY <1>k, <2>1 DEF Refers, Reqs
    <3>3. a \in Accs /\ a.password = accounts[r.user].password /\ a.open = accounts[r.user].open
      BY <3>2 DEF Accs
    <3> HIDE DEF a
    <3>4. QED
      BY <1>e, <2>1, <3>1, <3>3
  <2>4. QED
    BY <2>2, <2>3
<1>2. CASE ClearAvatar(q)
  <2>1. r.step = "clear" /\ UNCHANGED <<sessions, links, now, objects>>
    BY <1>2 DEF ClearAvatar, r, storage
  <2>2. CASE ~accounts[r.user].open
    BY <1>2, <1>g, <1>k, <2>1, <2>2 DEF ClearAvatar, r
  <2>3. CASE accounts[r.user].open
    <3> DEFINE a == [accounts[r.user] EXCEPT !.avatar = NoAvatar]
    <3>1. accounts' = [accounts EXCEPT ![r.user] = a] /\ CommitOn(r.user, q, Idle)
      BY <1>2, <2>3 DEF ClearAvatar, r
    <3>2. accounts[r.user] \in Accs /\ NoAvatar \in Any
      BY <1>k, <2>1 DEF Refers, NoAvatar, Any
    <3>3. a \in Accs /\ a.password = accounts[r.user].password /\ a.open = accounts[r.user].open
      BY <3>2 DEF Accs
    <3> HIDE DEF a
    <3>4. QED
      BY <1>e, <2>1, <3>1, <3>3
  <2>4. QED
    BY <2>2, <2>3
<1>3. CASE SaveProfile(q)
  <2>1. r.step = "profile" /\ UNCHANGED <<sessions, links, now, objects>>
    BY <1>3 DEF SaveProfile, r, storage
  <2>2. CASE accounts' = accounts /\ Goto(q, Idle)
    BY <1>g, <1>k, <2>1, <2>2 DEF r
  <2>3. CASE ~(accounts' = accounts /\ Goto(q, Idle))
    <3>0. PICK avatar \in ({NoAvatar, Foreign} \cup Published) \ {r.previous} :
             /\ accounts' = [accounts EXCEPT ![r.user].avatar = avatar] /\ CommitOn(r.user, q, Idle)
      BY <1>3, <2>3 DEF SaveProfile, r
    <3> DEFINE a == [accounts[r.user] EXCEPT !.avatar = avatar]
    <3>1. accounts' = [accounts EXCEPT ![r.user] = a]
      BY <3>0
    <3>2. accounts[r.user] \in Accs /\ avatar \in Any
      <4>1. Published \subseteq Int
        BY DEF Published
      <4>2. QED
        BY <1>k, <2>1, <3>0, <4>1 DEF Refers, NoAvatar, Foreign, Any
    <3>3. a \in Accs /\ a.password = accounts[r.user].password /\ a.open = accounts[r.user].open
      BY <3>2 DEF Accs
    <3> HIDE DEF a
    <3>4. QED
      BY <1>e, <2>1, <3>0, <3>1, <3>3
  <2>4. QED
    BY <2>2, <2>3
<1>4. CASE Erase(q)
  <2>1. r.step = "erase" /\ UNCHANGED <<sessions, links, now, objects>>
    BY <1>4 DEF Erase, r, storage
  <2>2. CASE ~accounts[r.user].open
    BY <1>4, <1>g, <1>k, <2>1, <2>2 DEF Erase, r
  <2>3. CASE accounts[r.user].open
    <3> DEFINE a == [accounts[r.user] EXCEPT !.open = FALSE]
    <3>1. accounts' = [accounts EXCEPT ![r.user] = a] /\ CommitOn(r.user, q, [r EXCEPT !.step = "drop"])
      BY <1>4, <2>3 DEF Erase, r
    <3>2. accounts[r.user] \in Accs
      BY <1>k, <2>1 DEF Refers
    <3>3. a \in Accs /\ a.password = accounts[r.user].password
      BY <3>2 DEF Accs
    <3> HIDE DEF a
    <3>4. QED
      BY <1>e, <2>1, <2>3, <3>1, <3>3
  <2>4. QED
    BY <2>2, <2>3
<1>5. CASE SetRole(q)
  <2>1. r.step \in {"role", "audit"} /\ UNCHANGED <<sessions, links, now, objects>>
    BY <1>5 DEF SetRole, r, storage
  <2>2. CASE ~accounts[r.user].open
    BY <1>5, <1>g, <1>k, <2>1, <2>2 DEF SetRole, r
  <2>3. CASE accounts[r.user].open
    <3> DEFINE admin == IF r.step = "role" THEN r.flag ELSE accounts[r.user].admin
               drifted == accounts[r.user].drifted \/ r.raced
               a == [accounts[r.user] EXCEPT !.admin = admin, !.audit = r.flag, !.drifted = drifted]
    <3>1. accounts' = [accounts EXCEPT ![r.user] = a] /\ CommitOn(r.user, q, Idle)
      BY <1>5, <2>3 DEF SetRole, r
    <3>2. accounts[r.user] \in Accs /\ r.flag \in BOOLEAN /\ admin \in BOOLEAN /\ drifted \in BOOLEAN
      BY <1>k, <2>1 DEF Refers, Reqs, Accs
    <3> HIDE DEF admin, drifted
    <3>3. a \in Accs /\ a.password = accounts[r.user].password /\ a.open = accounts[r.user].open
      BY <3>2 DEF Accs
    <3> HIDE DEF a
    <3>4. QED
      BY <1>e, <2>1, <3>1, <3>3
  <2>4. QED
    BY <2>2, <2>3
<1>6. CASE PutObject(q)
  <2>1. UNCHANGED <<accounts, sessions, links, now>> /\ r.step = "put" /\ objects' \in Nat
    BY <1>6, <1>k DEF PutObject, tables, storage, r
  <2>2. CASE Goto(q, Idle)
    BY <1>g, <2>1, <2>2
  <2>3. CASE objects' = objects + 1 /\ Goto(q, [r EXCEPT !.step = "save", !.key = objects'])
    <3> DEFINE s == [r EXCEPT !.step = "save", !.key = objects']
    <3>1. objects' \in Any
      BY <2>1 DEF Any
    <3>2. s \in Reqs /\ s.step = "save" /\ s.user = r.user
      BY <1>k, <3>1 DEF Reqs, Steps
    <3>3. Good(s, accounts, sessions, links)
      BY <1>k, <2>1, <3>2 DEF Good, Refers, Fresh
    <3> HIDE DEF s
    <3>4. Goto(q, s)
      BY <2>3 DEF s
    <3>5. QED
      BY <2>1, <3>2, <3>3, <3>4, ReadStep
  <2>4. QED
    BY <1>6, <2>2, <2>3 DEF PutObject, r
<1>7. CASE DropOld(q)
  BY <1>7, <1>g, <1>k DEF DropOld, tables
<1>8. CASE DropFirst(q)
  <2>1. /\ r.step = "drop_first" /\ Goto(q, [r EXCEPT !.step = "clear"])
        /\ UNCHANGED <<accounts, sessions, links, now, objects>>
    BY <1>8 DEF DropFirst, tables, r
  <2> DEFINE s == [r EXCEPT !.step = "clear"]
  <2>2. s \in Reqs /\ s.step = "clear" /\ s.user = r.user
    BY <1>k DEF Reqs, Steps
  <2>3. Good(s, accounts, sessions, links)
    BY <1>k, <2>1, <2>2 DEF Good, Refers, Fresh
  <2>4. QED
    BY <1>k, <2>1, <2>2, <2>3, ReadStep
<1>9. CASE Crash(q)
  BY <1>9, <1>g, <1>k DEF Crash, tables, storage
<1>10. QED
  BY <1>1, <1>2, <1>3, <1>4, <1>5, <1>6, <1>7, <1>8, <1>9

LEMMA InsertUserStep ==
    ASSUME Sound, NEW q \in Requests, InsertUser(q)
    PROVE  Sound'
<1> DEFINE r == request[q]
           a == Account(r.key)
<1>1. /\ r.step = "insert" /\ Goto(q, Idle) /\ UNCHANGED <<sessions, links, now, objects>>
      /\ accounts' = Append(accounts, a) \/ accounts' = accounts
  BY DEF InsertUser, storage
<1>2. /\ accounts \in Seq(Accs) /\ SessionsOK(accounts, sessions) /\ LinksOK(accounts, links)
      /\ now \in Nat /\ objects \in Nat
  BY DEF Sound
<1>3. a \in Accs
  <2>1. r.key \in Names
    BY <1>1, Known DEF Refers
  <2>2. QED
    BY <2>1 DEF Account, Accs, NoAvatar, Any
<1>4. Idle \in Reqs /\ \A A, S, L : Good(Idle, A, S, L)
  BY GoodOfIdle
<1> HIDE DEF a
<1>5. TablesOK(accounts', sessions', links')
  BY <1>1, <1>2, <1>3, AccountAdded DEF TablesOK
<1>6. Touches(Nobody, accounts, sessions, links, accounts', sessions', links')
  <2>1. CASE accounts' = accounts
    BY <1>1, <2>1 DEF Touches
  <2>2. CASE accounts' = Append(accounts, a)
    BY <1>1, <1>2, <1>3, <2>2, AccountAdded
  <2>3. QED
    BY <1>1, <2>1, <2>2
<1>7. QED
  BY <1>1, <1>2, <1>4, <1>5, <1>6, GotoStep

LEMMA BanStep ==
    ASSUME Sound, NEW u \in DOMAIN accounts, SetBanned(u)
    PROVE  Sound'
<1> DEFINE a == [accounts[u] EXCEPT !.banned = ~@]
           B == [accounts EXCEPT ![u] = a]
<1>1. /\ accounts' = B /\ UNCHANGED <<sessions, links, now, objects>>
      /\ request' = [q \in Requests |-> IF request[q].user = u
                                       THEN [request[q] EXCEPT !.raced = TRUE] ELSE request[q]]
  BY DEF SetBanned, storage
<1>2. /\ accounts \in Seq(Accs) /\ SessionsOK(accounts, sessions) /\ LinksOK(accounts, links)
      /\ now \in Nat /\ objects \in Nat
  BY DEF Sound
<1>3. accounts[u] \in Accs
  BY <1>2, LenProperties
<1>4. a \in Accs /\ a.password = accounts[u].password /\ a.open = accounts[u].open
  BY <1>3 DEF Accs
<1> HIDE DEF a
<1>5. B \in Seq(Accs) /\ SessionsOK(B, sessions) /\ LinksOK(B, links)
  BY <1>2, <1>4, AccountEdited
<1>6. Touches(u, accounts, sessions, links, B, sessions, links)
  BY DEF Touches
<1> HIDE DEF B
<1>7. ASSUME NEW p \in Requests
      PROVE  request'[p] \in Reqs /\ Good(request'[p], B, sessions, links)
  <2>1. request[p] \in Reqs /\ Good(request[p], accounts, sessions, links)
    BY DEF Sound
  <2>2. CASE request[p].user = u
    <3>1. request'[p] = [request[p] EXCEPT !.raced = TRUE]
      BY <1>1, <2>2
    <3>2. QED
      BY <1>6, <2>1, <3>1, GoodOfRaced
  <2>3. CASE request[p].user # u
    <3>1. request'[p] = request[p]
      BY <1>1, <2>3
    <3>2. QED
      BY <1>6, <2>1, <2>3, <3>1, GoodOfOthers
  <2>4. QED
    BY <2>2, <2>3
<1>8. request' \in [Requests -> Reqs]
  BY <1>1, <1>7
<1>9. QED
  BY <1>1, <1>2, <1>5, <1>7, <1>8 DEF Sound

LEMMA SoundKept ==
    ASSUME SessionLife \in Nat, LinkLife \in Nat, Sound, [Next]_vars
    PROVE  Sound'
<1>1. ASSUME NEW q \in Requests, Step(q) \/ Crash(q) PROVE Sound'
  BY <1>1, Arrivals, SessionSteps, LinkSteps, RowSteps, InsertUserStep DEF Step
<1>2. ASSUME UNCHANGED <<accounts, sessions, links, objects, request>>, now' \in Nat PROVE Sound'
  BY <1>2 DEF Sound
<1>3. CASE Tick
  <2>1. now' \in Nat
    BY <1>3 DEF Tick, Sound
  <2>2. QED
    BY <1>2, <1>3, <2>1 DEF Tick, tables, storage
<1>4. CASE UNCHANGED vars
  BY <1>2, <1>4 DEF vars, tables, storage, Sound
<1>5. QED
  BY <1>1, <1>3, <1>4, BanStep DEF Next

-----------------------------------------------------------------------------
LEMMA SoundInit ==
    ASSUME SessionLife \in Nat, LinkLife \in Nat, Init
    PROVE  Sound
<1>1. PICK n \in Names, avatar \in {NoAvatar, 1} :
         accounts = <<[Account(n) EXCEPT !.avatar = avatar]>> /\ objects = avatar
  BY DEF Init
<1> DEFINE a == [Account(n) EXCEPT !.avatar = avatar]
           s == Session(1, 1, 0, FALSE)
           l(k) == [Link(1, <<"reset", "verify">>[k]) EXCEPT !.mailed = TRUE]
<1>2. /\ now = 0 /\ sessions = <<s>> /\ links = [k \in 1 .. 2 |-> l(k)]
      /\ request = [q \in Requests |-> Idle]
  BY DEF Init
<1>3. /\ a \in Accs /\ a.open /\ a.password = 1 /\ ~a.banned
      /\ objects \in Nat
  <2>1. avatar \in Nat /\ avatar \in Any
    BY DEF NoAvatar, Any
  <2>2. Account(n) \in Accs /\ Account(n).password = 1 /\ Account(n).open /\ ~Account(n).banned
    <3>1. NoAvatar \in Any
      BY DEF NoAvatar, Any
    <3>2. Account(n) \in Accs /\ Account(n).password = 1
      BY <3>1 DEF Account, Accs
    <3>3. Account(n).open /\ ~Account(n).banned
      BY Zenon DEF Account
    <3>4. QED
      BY <3>2, <3>3
  <2>3. QED
    BY <1>1, <2>1, <2>2 DEF Accs
<1>4. accounts \in Seq(Accs) /\ DOMAIN accounts = {1} /\ accounts[1] = a
  BY <1>1, <1>3
<1>5. /\ s \in Sess /\ s.user = 1 /\ s.password = 1 /\ s.parent = 0 /\ ~s.barred
  <2>1. now + SessionLife \in Nat /\ accounts[1].banned \in BOOLEAN /\ ~accounts[1].banned
    BY <1>2, <1>3, <1>4 DEF Accs
  <2>2. /\ s \in Sess /\ s.user = 1 /\ s.password = 1 /\ s.parent = 0
        /\ s.barred = accounts[1].banned
    BY <2>1 DEF Session, Sess
  <2>3. QED
    BY <2>1, <2>2
<1>6. \A k \in 1 .. 2 : l(k) \in Lnks /\ l(k).user = 1 /\ l(k).uses = 0
  <2>1. now + LinkLife \in Nat
    BY <1>2
  <2>2. ASSUME NEW purpose \in {"reset", "verify"}
        PROVE  /\ Link(1, purpose) \in Lnks /\ Link(1, purpose).user = 1 /\ Link(1, purpose).uses = 0
    BY <2>1 DEF Link, Lnks
  <2>3. <<"reset", "verify">>[1] \in {"reset", "verify"} /\ <<"reset", "verify">>[2] \in {"reset", "verify"}
    OBVIOUS
  <2>4. \A k \in 1 .. 2 : <<"reset", "verify">>[k] \in {"reset", "verify"}
    BY <2>3
  <2>5. QED
    BY <2>2, <2>4 DEF Lnks
<1> HIDE DEF a, s, l
<1>7. SessionsOK(accounts, sessions)
  <2>1. sessions \in Seq(Sess) /\ DOMAIN sessions = {1} /\ sessions[1] = s
    BY <1>2, <1>5
  <2>2. QED
    BY <1>3, <1>4, <1>5, <2>1 DEF SessionsOK, Follow, Linear, Barred
<1>8. LinksOK(accounts, links)
  <2>1. links \in [1 .. 2 -> Lnks]
    BY <1>2, <1>6
  <2>2. links \in Seq(Lnks)
    <3>1. \A m \in Nat : \A f \in [1 .. m -> Lnks] : f \in Seq(Lnks)
      BY SeqDef
    <3>2. 2 \in Nat
      OBVIOUS
    <3>3. QED
      BY <2>1, <3>1, <3>2
  <2>3. QED
    BY <1>2, <1>4, <1>6, <2>1, <2>2 DEF LinksOK
<1>9. QED
  BY <1>2, <1>3, <1>4, <1>7, <1>8, GoodOfIdle DEF Sound

LEMMA AtMostOne ==
    ASSUME NEW T, \A s, t \in T : s = t
    PROVE  Cardinality(T) =< 1
<1>1. CASE T = {}
  BY <1>1, FS_EmptySet
<1>2. CASE T # {}
  <2>1. PICK s \in T : TRUE
    BY <1>2
  <2>2. T = {s}
    BY <2>1
  <2>3. QED
    BY <2>2, FS_Singleton
<1>3. QED
  BY <1>1, <1>2

LEMMA SoundImplies == Sound => SessionsAreSound
<1> SUFFICES ASSUME Sound PROVE SessionsAreSound
  OBVIOUS
<1>1. SessionsOK(accounts, sessions) /\ LinksOK(accounts, links)
  BY DEF Sound
<1>2. SessionsFollowPassword /\ BannedGetNoSession /\ LinksAreSingleUse
  BY <1>1 DEF SessionsFollowPassword, BannedGetNoSession, LinksAreSingleUse, Active,
              SessionsOK, LinksOK, Follow, Barred
<1>3. ASSUME NEW t \in DOMAIN sessions
      PROVE  /\ Cardinality({s \in Successors(t) : ~sessions[s].tainted}) =< 1
             /\ Successors(t) # {} => ~Active(t)
  <2>1. t # 0
    BY <1>1, LenProperties DEF SessionsOK
  <2>2. \A s, v \in {x \in Successors(t) : ~sessions[x].tainted} : s = v
    BY <1>1, <2>1 DEF Successors, SessionsOK, Linear
  <2>3. Successors(t) # {} => ~Active(t)
    BY <1>1, <2>1 DEF Successors, SessionsOK, Linear, Active
  <2>4. QED
    BY <2>2, <2>3, AtMostOne
<1>4. QED
  BY <1>2, <1>3 DEF SessionsAreSound, RotationIsLinear

(***************************************************************************)
(* Whatever requests overlap: a session that is good was opened with the   *)
(* current password by whoever had not been banned, a refresh token has    *)
(* one successor and is dead by then, and a link is used once - except by  *)
(* requests that another one overtook between their read and their write.  *)
(***************************************************************************)
THEOREM SessionsStaySound ==
    ASSUME SessionLife \in Nat, LinkLife \in Nat
    PROVE  Spec => []SessionsAreSound
<1>1. Init => Sound
  BY SoundInit
<1>2. Sound /\ [Next]_vars => Sound'
  BY SoundKept
<1>3. QED
  BY <1>1, <1>2, SoundImplies, PTL DEF Spec

-----------------------------------------------------------------------------
(* Avatars and the objects they name.                                       *)

\* The steps of requests that hold a copy of the avatar; all but one will write the row.
Rewriting == {"put", "save", "drop_first", "clear", "profile", "erase"}
Picturing == Rewriting \cup {"drop"}

\* What a request holds: a picture that is nobody else's unless a profile edit named it,
\* and the current one unless it was raced; a new object, which is nobody's yet; one that nobody shows any more; one
\* that was deleted.
Handles(r, A, B, O, X, n) ==
    /\ r.step \in Picturing =>
          /\ r.previous \in Foreign .. n
          /\ \A v \in DOMAIN A :
                r.previous > 0 /\ A[v].avatar = r.previous => v = r.user \/ r.previous \in X
    /\ r.step \in Rewriting /\ ~r.raced => A[r.user].avatar = r.previous
    /\ r.step = "save" => r.key \in B /\ \A v \in DOMAIN A : A[v].avatar # r.key
    /\ r.step = "drop" => \A v \in DOMAIN A :
          r.previous > 0 /\ A[v].open => A[v].avatar # r.previous \/ r.previous \in X
    /\ r.step = "clear" => r.previous \notin B \/ r.previous \in O

Numbered ==
    /\ bucket \subseteq 1 .. objects /\ orphans \subseteq 1 .. objects
    /\ \A u \in DOMAIN accounts : accounts[u].avatar \in Foreign .. objects
    /\ \A u, v \in DOMAIN accounts :
          accounts[u].avatar > 0 /\ accounts[u].avatar = accounts[v].avatar
              => u = v \/ accounts[u].avatar \in broken

\* A new object is in the hands of one request.
Unshared ==
    \A p, q \in Requests : request[p].step = "save" =>
        /\ request[q].step \in Picturing => request[q].previous # request[p].key
        /\ request[q].step = "save" /\ p # q => request[q].key # request[p].key

Saving(q, o) == request[q].step = "save" /\ request[q].key = o
Dropping(q, o) == request[q].step = "drop" /\ request[q].previous = o
Clearing(q, o) == request[q].step = "clear" /\ request[q].previous = o
Shown(u, o) == accounts[u].open /\ accounts[u].avatar = o

Owned ==
    \A o \in bucket : \/ o \in orphans
                      \/ \E q \in Requests : Saving(q, o) \/ Dropping(q, o)
                      \/ \E u \in DOMAIN accounts : Shown(u, o)

Served ==
    \A u \in DOMAIN accounts : accounts[u].open =>
        \/ accounts[u].avatar \in bucket \cup {NoAvatar, Foreign} \cup broken
        \/ \E q \in Requests : Clearing(q, accounts[u].avatar)

Stored ==
    /\ Numbered /\ Unshared /\ Owned /\ Served
    /\ \A q \in Requests : Handles(request[q], accounts, bucket, orphans, broken, objects)

\* The same request, which another one may have raced in between.
Same(r, s) ==
    /\ s.step = r.step /\ s.user = r.user /\ s.key = r.key /\ s.flag = r.flag
    /\ s.previous = r.previous /\ (r.raced => s.raced)

LEMMA SameAsBefore ==
    ASSUME NEW r \in Reqs
    PROVE  /\ Same(r, r)
           /\ Same(r, [r EXCEPT !.raced = TRUE]) /\ [r EXCEPT !.raced = TRUE].raced
<1> DEFINE s == [r EXCEPT !.raced = TRUE]
<1>1. /\ s.step = r.step /\ s.key = r.key /\ s.user = r.user /\ s.flag = r.flag
      /\ s.previous = r.previous
  BY DEF Reqs
<1>2. s.raced
  BY Zenon DEF Reqs
<1>3. QED
  BY <1>1, <1>2 DEF Same

LEMMA AfterGoto ==
    ASSUME Sound, NEW q \in Requests, NEW s, Goto(q, s)
    PROVE  request'[q] = s /\ \A p \in Requests \ {q} : Same(request[p], request'[p])
<1>1. request \in [Requests -> Reqs] /\ request' = [request EXCEPT ![q] = s]
  BY DEF Sound, Goto
<1>2. request'[q] = s /\ \A p \in Requests \ {q} : request'[p] = request[p] /\ request[p] \in Reqs
  BY <1>1
<1>3. QED
  BY <1>2, SameAsBefore

LEMMA AfterCommit ==
    ASSUME Sound, NEW q \in Requests, NEW s, NEW u, CommitOn(u, q, s)
    PROVE  /\ request'[q] = s
           /\ \A p \in Requests \ {q} :
                 /\ Same(request[p], request'[p])
                 /\ request[p].step # "idle" /\ request[p].user = u => request'[p].raced
<1>1. request'[q] = s
  BY DEF CommitOn
<1>2. ASSUME NEW p \in Requests \ {q}
      PROVE  /\ Same(request[p], request'[p])
             /\ request[p].step # "idle" /\ request[p].user = u => request'[p].raced
  <2>1. request[p] \in Reqs
    BY DEF Sound
  <2>2. CASE request[p].step # "idle" /\ u \in {request[p].user, request[p].key}
    <3>1. request'[p] = [request[p] EXCEPT !.raced = TRUE]
      BY <2>2 DEF CommitOn
    <3>2. QED
      BY <2>1, <3>1, SameAsBefore
  <2>3. CASE ~(request[p].step # "idle" /\ u \in {request[p].user, request[p].key})
    <3>1. request'[p] = request[p]
      BY <2>3 DEF CommitOn
    <3>2. QED
      BY <2>1, <2>3, <3>1, SameAsBefore
  <2>4. QED
    BY <2>2, <2>3
<1>3. QED
  BY <1>1, <1>2

LEMMA StillHandles ==
    ASSUME NEW r \in Reqs, NEW s, Same(r, s), NEW A, NEW B, NEW O, NEW X, NEW n \in Nat,
           NEW A2, NEW B2, NEW O2, NEW X2, NEW m \in Nat, n =< m, Handles(r, A, B, O, X, n),
           O \subseteq O2, X \subseteq X2,
           B \subseteq 1 .. n, r.step \in Picturing => r.user \in DOMAIN A,
           \A v \in DOMAIN A2 : A2[v].avatar > 0 =>
               \/ v \in DOMAIN A /\ A2[v].avatar = A[v].avatar /\ (A2[v].open => A[v].open)
               \/ /\ r.step \in Picturing => A2[v].avatar # r.previous \/ r.previous \in X2
                  /\ r.step = "save" => A2[v].avatar # r.key,
           \A v \in DOMAIN A : r.step \in Picturing /\ r.user = v =>
               A2[v].avatar = A[v].avatar \/ s.raced,
           r.step = "save" => r.key \in B2,
           r.step = "clear" => r.previous \notin B2 \/ r.previous \in B \/ r.previous \in O2
    PROVE  Handles(s, A2, B2, O2, X2, m)
<1>1. /\ s.step = r.step /\ s.user = r.user /\ s.key = r.key /\ s.previous = r.previous
      /\ r.raced => s.raced
  BY DEF Same
<1>2. r.step \in Picturing =>
          /\ r.previous \in Foreign .. m
          /\ \A v \in DOMAIN A2 :
                r.previous > 0 /\ A2[v].avatar = r.previous => v = r.user \/ r.previous \in X2
  <2>1. r.step \in Picturing => r.previous \in Foreign .. n /\ r.previous \in Foreign .. m
    BY DEF Handles, Foreign
  <2>2. QED
    BY <2>1 DEF Handles
<1>3. r.step \in Rewriting /\ ~s.raced => A2[r.user].avatar = r.previous
  BY <1>1 DEF Handles, Picturing
<1>4. r.step = "save" => \A v \in DOMAIN A2 : A2[v].avatar # r.key
  <2>1. ASSUME r.step = "save", NEW v \in DOMAIN A2, A2[v].avatar = r.key PROVE FALSE
    <3>1. r.key \in 1 .. n /\ \A w \in DOMAIN A : A[w].avatar # r.key
      BY <2>1 DEF Handles
    <3>2. A2[v].avatar > 0
      BY <2>1, <3>1
    <3>3. QED
      BY <2>1, <3>1, <3>2
  <2>2. QED
    BY <2>1
<1>5. r.step = "drop" => \A v \in DOMAIN A2 :
          r.previous > 0 /\ A2[v].open => A2[v].avatar # r.previous \/ r.previous \in X2
  BY DEF Handles, Picturing
<1>6. r.step = "clear" => r.previous \notin B2 \/ r.previous \in O2
  BY DEF Handles
<1>7. QED
  BY <1>1, <1>2, <1>3, <1>4, <1>5, <1>6 DEF Handles

\* What the invariants say of one request.
LEMMA Holding ==
    ASSUME Sound, Stored, NEW p \in Requests
    PROVE  /\ request[p] \in Reqs /\ Handles(request[p], accounts, bucket, orphans, broken, objects)
           /\ request[p].step \in Picturing => request[p].user \in DOMAIN accounts
           /\ objects \in Nat /\ bucket \subseteq 1 .. objects /\ orphans \subseteq 1 .. objects
           /\ \A v \in DOMAIN accounts : accounts[v].avatar \in Foreign .. objects
<1>1. request[p] \in Reqs /\ Refers(request[p], accounts, sessions, links) /\ objects \in Nat
  BY DEF Sound, Good
<1>2. request[p].step \in Picturing => request[p].user \in DOMAIN accounts
  BY <1>1 DEF Refers, Picturing, Rewriting
<1>3. QED
  BY <1>1, <1>2 DEF Stored, Numbered

\* What another request holds while the rows change.
LEMMA OtherHandles ==
    ASSUME Sound, Stored, NEW p \in Requests, Same(request[p], request'[p]),
           UNCHANGED <<bucket, objects>>, orphans \subseteq orphans', broken \subseteq broken',
           \A v \in DOMAIN accounts' : accounts'[v].avatar > 0 =>
               \/ /\ v \in DOMAIN accounts /\ accounts'[v].avatar = accounts[v].avatar
                  /\ (accounts'[v].open => accounts[v].open)
               \/ /\ request[p].step \in Picturing =>
                        accounts'[v].avatar # request[p].previous \/ request[p].previous \in broken'
                  /\ request[p].step = "save" => accounts'[v].avatar # request[p].key,
           \A v \in DOMAIN accounts : request[p].step \in Picturing /\ request[p].user = v =>
               accounts'[v].avatar = accounts[v].avatar \/ request'[p].raced
    PROVE  Handles(request'[p], accounts', bucket', orphans', broken', objects')
<1> DEFINE r == request[p]
           t == request'[p]
<1>1. /\ r \in Reqs /\ Handles(r, accounts, bucket, orphans, broken, objects)
      /\ r.step \in Picturing => r.user \in DOMAIN accounts
      /\ objects \in Nat /\ bucket \subseteq 1 .. objects
  BY Holding
<1>2. t.step = r.step /\ t.user = r.user /\ t.key = r.key /\ t.previous = r.previous /\ (r.raced => t.raced)
  BY DEF Same
<1>3. r.step \in Picturing =>
          /\ r.previous \in Foreign .. objects
          /\ \A v \in DOMAIN accounts' :
                r.previous > 0 /\ accounts'[v].avatar = r.previous => v = r.user \/ r.previous \in broken'
  BY <1>1 DEF Handles
<1>4. r.step \in Rewriting /\ ~t.raced => accounts'[r.user].avatar = r.previous
  BY <1>1, <1>2 DEF Handles, Picturing
<1>5. r.step = "save" => r.key \in bucket /\ \A v \in DOMAIN accounts' : accounts'[v].avatar # r.key
  <2>1. ASSUME r.step = "save", NEW v \in DOMAIN accounts', accounts'[v].avatar = r.key PROVE FALSE
    <3>1. r.key \in 1 .. objects /\ \A w \in DOMAIN accounts : accounts[w].avatar # r.key
      BY <1>1, <2>1 DEF Handles
    <3>2. accounts'[v].avatar > 0
      BY <1>1, <2>1, <3>1
    <3>3. QED
      BY <2>1, <3>1, <3>2
  <2>2. QED
    BY <1>1, <2>1 DEF Handles
<1>6. r.step = "drop" =>
          \A v \in DOMAIN accounts' :
             r.previous > 0 /\ accounts'[v].open =>
                 accounts'[v].avatar # r.previous \/ r.previous \in broken'
  BY <1>1 DEF Handles, Picturing
<1>7. r.step = "clear" => r.previous \notin bucket' \/ r.previous \in orphans'
  BY <1>1 DEF Handles
<1> HIDE DEF r, t
<1>8. Handles(t, accounts', bucket, orphans', broken', objects)
  BY <1>2, <1>3, <1>4, <1>5, <1>6, <1>7 DEF Handles
<1>9. QED
  BY <1>8 DEF t

\* A request ends, or does what is about no picture.
LEMMA LeaveStep ==
    ASSUME Sound, Stored, NEW q \in Requests, request'[q].step \notin Picturing,
           \A p \in Requests \ {q} : Same(request[p], request'[p]),
           DOMAIN accounts \subseteq DOMAIN accounts',
           \A u \in DOMAIN accounts : /\ accounts'[u].avatar = accounts[u].avatar
                                      /\ accounts'[u].open = accounts[u].open,
           \A u \in DOMAIN accounts' \ DOMAIN accounts : accounts'[u].avatar = NoAvatar,
           UNCHANGED <<bucket, objects>>, orphans \subseteq orphans', orphans' \subseteq 1 .. objects,
           broken \subseteq broken',
           \A o \in bucket : Saving(q, o) \/ Dropping(q, o) => o \in orphans',
           \A u \in DOMAIN accounts :
               Shown(u, accounts[u].avatar) /\ accounts[u].avatar > 0 /\ Clearing(q, accounts[u].avatar)
                   => accounts[u].avatar \in broken'
    PROVE  Stored'
<1>1. objects \in Nat /\ bucket \subseteq 1 .. objects /\ orphans \subseteq 1 .. objects
  BY Holding
<1>2. ASSUME NEW v \in DOMAIN accounts', accounts'[v].avatar # NoAvatar
      PROVE  /\ v \in DOMAIN accounts /\ accounts'[v].avatar = accounts[v].avatar
             /\ accounts'[v].open = accounts[v].open /\ accounts[v].avatar \in Foreign .. objects
  BY <1>2, Holding
<1>3. Numbered'
  <2>1. \A u \in DOMAIN accounts' : accounts'[u].avatar \in Foreign .. objects'
    BY <1>1, <1>2 DEF NoAvatar, Foreign
  <2>2. \A u, v \in DOMAIN accounts' :
           accounts'[u].avatar > 0 /\ accounts'[u].avatar = accounts'[v].avatar
               => u = v \/ accounts'[u].avatar \in broken'
    BY <1>2 DEF Stored, Numbered, NoAvatar
  <2>3. QED
    BY <1>1, <2>1, <2>2 DEF Numbered
<1>4. ASSUME NEW p \in Requests
      PROVE  Handles(request'[p], accounts', bucket', orphans', broken', objects')
  <2>1. CASE p = q
    BY <2>1 DEF Handles, Picturing, Rewriting
  <2>2. CASE p # q
    <3>1. Same(request[p], request'[p])
      BY <2>2
    <3>2. \A v \in DOMAIN accounts' : accounts'[v].avatar > 0 =>
             /\ v \in DOMAIN accounts /\ accounts'[v].avatar = accounts[v].avatar
             /\ (accounts'[v].open => accounts[v].open)
      BY <1>2 DEF NoAvatar
    <3>3. \A v \in DOMAIN accounts : accounts'[v].avatar = accounts[v].avatar
      OBVIOUS
    <3>4. QED
      BY <3>1, <3>2, <3>3, OtherHandles
  <2>3. QED
    BY <2>1, <2>2
<1>5. ASSUME NEW p \in Requests, request'[p].step \in Picturing
      PROVE  p # q /\ Same(request[p], request'[p])
  BY <1>5
<1>6. Unshared'
  BY <1>5 DEF Stored, Unshared, Same, Picturing, Rewriting
<1>7. Owned'
  <2>1. ASSUME NEW o \in bucket
        PROVE  \/ o \in orphans'
               \/ \E p \in Requests : Saving(p, o)' \/ Dropping(p, o)'
               \/ \E u \in DOMAIN accounts' : Shown(u, o)'
    <3>1. CASE \E p \in Requests \ {q} : Saving(p, o) \/ Dropping(p, o)
      BY <3>1 DEF Saving, Dropping, Same
    <3>2. CASE \E u \in DOMAIN accounts : Shown(u, o)
      BY <3>2 DEF Shown
    <3>3. QED
      BY <3>1, <3>2 DEF Stored, Owned
  <2>2. QED
    BY <2>1 DEF Owned
<1>8. Served'
  <2>1. ASSUME NEW u \in DOMAIN accounts', accounts'[u].open
        PROVE  \/ accounts'[u].avatar \in bucket \cup {NoAvatar, Foreign} \cup broken'
               \/ \E p \in Requests : Clearing(p, accounts[u].avatar)' /\ accounts'[u].avatar = accounts[u].avatar
    <3>1. CASE accounts'[u].avatar \in {NoAvatar, Foreign}
      BY <3>1
    <3>2. CASE accounts'[u].avatar \notin {NoAvatar, Foreign}
      <4>1. /\ u \in DOMAIN accounts /\ accounts'[u].avatar = accounts[u].avatar
            /\ accounts[u].open /\ accounts[u].avatar > 0
        BY <1>1, <1>2, <2>1, <3>2 DEF NoAvatar, Foreign
      <4>2. CASE \E p \in Requests : Clearing(p, accounts[u].avatar)
        <5>1. CASE Clearing(q, accounts[u].avatar)
          BY <4>1, <5>1 DEF Shown
        <5>2. CASE \E p \in Requests \ {q} : Clearing(p, accounts[u].avatar)
          <6>1. PICK p \in Requests \ {q} : Clearing(p, accounts[u].avatar)
            BY <5>2
          <6>2. request'[p].step = "clear" /\ request'[p].previous = accounts'[u].avatar
            BY <4>1, <6>1 DEF Clearing, Same
          <6>3. QED
            BY <4>1, <6>2 DEF Clearing
        <5>3. QED
          BY <4>2, <5>1, <5>2
      <4>3. QED
        BY <4>1, <4>2 DEF Stored, Served
    <3>3. QED
      BY <3>1, <3>2
  <2>2. QED
    BY <2>1 DEF Served, Clearing
<1>9. QED
  BY <1>3, <1>4, <1>6, <1>7, <1>8 DEF Stored

\* The row of an account gets another picture, or none, or is closed.
LEMMA WriteStep ==
    ASSUME Sound, Stored, NEW q \in Requests, NEW s \in Reqs, NEW a \in Accs,
           request[q].step \in Rewriting, CommitOn(request[q].user, q, s),
           accounts' = [accounts EXCEPT ![request[q].user] = a],
           a.open => accounts[request[q].user].open,
           UNCHANGED <<bucket, objects>>, broken \subseteq broken',
           orphans \subseteq orphans', orphans' \subseteq 1 .. objects,
           \/ a.avatar \in {NoAvatar, Foreign}
           \/ ~a.open /\ a.avatar = accounts[request[q].user].avatar
           \/ request[q].step = "save" /\ a.avatar = request[q].key
           \/ /\ a.avatar \in 1 .. objects /\ a.avatar \in broken'
              /\ \A p \in Requests : request[p].step = "save" => request[p].key # a.avatar,
           request[q].step = "save" => a.open /\ a.avatar = request[q].key,
           \/ s.step \notin Picturing
           \/ /\ s.step = "drop" /\ s.previous = request[q].previous /\ s.user = request[q].user
              /\ request[q].step = "save" \/ ~a.open,
           LET old == accounts[request[q].user].avatar
           IN  Shown(request[q].user, old) /\ old \in bucket =>
                   old \in orphans' \/ (s.step = "drop" /\ s.previous = old)
    PROVE  Stored'
<1> DEFINE r == request[q]
           u == r.user
<1>1. /\ objects \in Nat /\ bucket \subseteq 1 .. objects /\ orphans \subseteq 1 .. objects
      /\ u \in DOMAIN accounts /\ r.step \in Picturing
      /\ Handles(r, accounts, bucket, orphans, broken, objects)
  BY Holding DEF Picturing
<1>2. /\ DOMAIN accounts' = DOMAIN accounts
      /\ \A v \in DOMAIN accounts : accounts'[v] = IF v = u THEN a ELSE accounts[v]
  BY <1>1
<1>3. /\ request'[q] = s
      /\ \A p \in Requests \ {q} :
            /\ Same(request[p], request'[p])
            /\ request[p].step # "idle" /\ request[p].user = u => request'[p].raced
  BY AfterCommit
<1>4. \A v \in DOMAIN accounts : accounts[v].avatar \in Foreign .. objects
  BY Holding
<1>5. r.step = "save" => /\ r.key \in 1 .. objects /\ r.key \in bucket /\ r.key # r.previous
                         /\ \A v \in DOMAIN accounts : accounts[v].avatar # r.key
                         /\ \A p \in Requests \ {q} :
                               /\ request[p].step \in Picturing => request[p].previous # r.key
                               /\ request[p].step = "save" => request[p].key # r.key
  <2>1. r.step = "save" => /\ r.key \in bucket /\ r.key \in 1 .. objects
                           /\ \A v \in DOMAIN accounts : accounts[v].avatar # r.key
    BY <1>1 DEF Handles
  <2>2. QED
    BY <1>1, <2>1 DEF Stored, Unshared
<1> HIDE DEF r, u
<1>6. a.avatar \in Foreign .. objects
  BY <1>1, <1>4, <1>5 DEF Foreign, NoAvatar, r, u
<1>7. ASSUME NEW v \in DOMAIN accounts, v # u, a.avatar > 0
      PROVE  accounts[v].avatar # a.avatar \/ a.avatar \in broken'
  <2>1. CASE a.avatar = accounts[u].avatar
    BY <1>1, <1>7, <2>1 DEF Stored, Numbered
  <2>2. CASE r.step = "save" /\ a.avatar = r.key
    BY <1>5, <2>2
  <2>3. QED
    BY <1>7, <2>1, <2>2 DEF NoAvatar, Foreign, r, u
<1>8. Numbered'
  <2>1. \A v \in DOMAIN accounts' : accounts'[v].avatar \in Foreign .. objects
    BY <1>2, <1>4, <1>6
  <2>2. ASSUME NEW v \in DOMAIN accounts', NEW w \in DOMAIN accounts',
               accounts'[v].avatar > 0, accounts'[v].avatar = accounts'[w].avatar
        PROVE  v = w \/ accounts'[v].avatar \in broken'
    <3>1. CASE v # u /\ w # u
      BY <1>2, <2>2, <3>1 DEF Stored, Numbered
    <3>2. CASE v = u \/ w = u
      BY <1>2, <1>7, <2>2, <3>2
    <3>3. QED
      BY <3>1, <3>2
  <2>3. QED
    BY <1>1, <2>1, <2>2 DEF Numbered
<1>9. ASSUME NEW p \in Requests
      PROVE  Handles(request'[p], accounts', bucket', orphans', broken', objects')
  <2>1. CASE p # q
    <3>1. /\ Same(request[p], request'[p]) /\ request[p] \in Reqs
          /\ Handles(request[p], accounts, bucket, orphans, broken, objects)
          /\ request[p].step \in Picturing => request[p].user \in DOMAIN accounts
      BY <1>3, <2>1, Holding
    <3>2. ASSUME NEW v \in DOMAIN accounts', accounts'[v].avatar > 0
          PROVE  \/ /\ v \in DOMAIN accounts /\ accounts'[v].avatar = accounts[v].avatar
                    /\ (accounts'[v].open => accounts[v].open)
                 \/ /\ request[p].step \in Picturing =>
                          accounts'[v].avatar # request[p].previous \/ request[p].previous \in broken'
                    /\ request[p].step = "save" => accounts'[v].avatar # request[p].key
      <4>1. CASE v # u
        BY <1>2, <4>1
      <4>2. CASE v = u
        BY <1>2, <1>5, <2>1, <3>2, <4>2 DEF NoAvatar, Foreign, r, u
      <4>3. QED
        BY <4>1, <4>2
    <3>3. \A v \in DOMAIN accounts : request[p].step \in Picturing /\ request[p].user = v =>
              accounts'[v].avatar = accounts[v].avatar \/ request'[p].raced
      BY <1>2, <1>3, <2>1 DEF Picturing, Rewriting
    <3>4. QED
      BY <3>1, <3>2, <3>3, OtherHandles
  <2>2. CASE p = q /\ s.step \notin Picturing
    BY <1>3, <2>2 DEF Handles, Picturing, Rewriting
  <2>3. CASE p = q /\ s.step \in Picturing
    <3>1. /\ s.step = "drop" /\ s.previous = r.previous /\ s.user = u
          /\ r.step = "save" \/ ~a.open
      BY <2>3 DEF r, u
    <3>2. /\ r.previous \in Foreign .. objects
          /\ \A v \in DOMAIN accounts :
                r.previous > 0 /\ accounts[v].avatar = r.previous => v = u \/ r.previous \in broken
      BY <1>1 DEF Handles, u
    <3>3. \A v \in DOMAIN accounts' :
             r.previous > 0 /\ accounts'[v].avatar = r.previous => v = u \/ r.previous \in broken'
      BY <1>2, <3>2
    <3>4. \A v \in DOMAIN accounts' :
             r.previous > 0 /\ accounts'[v].open =>
                 accounts'[v].avatar # r.previous \/ r.previous \in broken'
      BY <1>2, <1>5, <3>1, <3>3 DEF r
    <3>5. QED
      BY <1>3, <2>3, <3>1, <3>2, <3>3, <3>4 DEF Handles, Rewriting
  <2>4. QED
    BY <2>1, <2>2, <2>3
<1>10. ASSUME NEW p \in Requests, request'[p].step = "save"
       PROVE  p # q /\ Same(request[p], request'[p])
  BY <1>3, <1>10 DEF Picturing, Rewriting
<1>11. Unshared'
  <2>1. ASSUME NEW p \in Requests, request'[p].step = "save", NEW w \in Requests
        PROVE  /\ request'[w].step \in Picturing => request'[w].previous # request'[p].key
               /\ request'[w].step = "save" /\ p # w => request'[w].key # request'[p].key
    <3>1. request[p].step = "save" /\ request'[p].key = request[p].key
      BY <1>10, <2>1 DEF Same
    <3>2. CASE w = q
      BY <1>1, <1>3, <3>1, <3>2 DEF Stored, Unshared, Picturing, Rewriting, r
    <3>3. CASE w # q
      <4>1. Same(request[w], request'[w])
        BY <1>3, <3>3
      <4>2. QED
        BY <3>1, <4>1 DEF Stored, Unshared, Same
    <3>4. QED
      BY <3>2, <3>3
  <2>2. QED
    BY <2>1 DEF Unshared
<1>12. Owned'
  <2>1. ASSUME NEW o \in bucket
        PROVE  \/ o \in orphans'
               \/ \E p \in Requests : Saving(p, o)' \/ Dropping(p, o)'
               \/ \E v \in DOMAIN accounts' : Shown(v, o)'
    <3>1. CASE \E p \in Requests \ {q} : Saving(p, o) \/ Dropping(p, o)
      BY <1>3, <3>1 DEF Saving, Dropping, Same
    <3>2. CASE Saving(q, o)
      <4>1. a.open /\ a.avatar = o
        BY <3>2 DEF Saving
      <4>2. \E v \in DOMAIN accounts' : accounts'[v].open /\ accounts'[v].avatar = o
        BY <1>1, <1>2, <4>1
      <4>3. QED
        BY <4>2 DEF Shown
    <3>3. ~Dropping(q, o)
      BY DEF Dropping, Rewriting
    <3>4. CASE \E v \in DOMAIN accounts : Shown(v, o)
      <4>1. PICK v \in DOMAIN accounts : Shown(v, o)
        BY <3>4
      <4>2. CASE v # u
        BY <1>2, <4>1, <4>2 DEF Shown
      <4>3. CASE v = u
        <5>1. o \in orphans' \/ (s.step = "drop" /\ s.previous = o)
          BY <4>1, <4>3 DEF Shown, u, r
        <5>2. QED
          BY <1>3, <5>1 DEF Dropping
      <4>4. QED
        BY <4>2, <4>3
    <3>5. QED
      BY <3>1, <3>2, <3>3, <3>4 DEF Stored, Owned
  <2>2. QED
    BY <2>1 DEF Owned
<1>13. Served'
  <2>1. ASSUME NEW v \in DOMAIN accounts', accounts'[v].open
        PROVE  \/ accounts'[v].avatar \in bucket \cup {NoAvatar, Foreign} \cup broken'
               \/ \E p \in Requests : request'[p].step = "clear" /\ request'[p].previous = accounts'[v].avatar
    <3>1. CASE v = u
      BY <1>2, <1>5, <2>1, <3>1 DEF r, u
    <3>2. CASE v # u /\ accounts[v].avatar > 0
      <4>1. /\ v \in DOMAIN accounts /\ accounts'[v] = accounts[v]
        BY <1>2, <3>2
      <4>2. ~Clearing(q, accounts[v].avatar) \/ accounts[v].avatar \in broken
        BY <1>1, <3>2, <4>1 DEF Clearing, Handles, u, r
      <4>3. \A p \in Requests \ {q} : Clearing(p, accounts[v].avatar) =>
               request'[p].step = "clear" /\ request'[p].previous = accounts'[v].avatar
        BY <1>3, <4>1 DEF Clearing, Same
      <4>4. QED
        BY <2>1, <4>1, <4>2, <4>3 DEF Stored, Served, Clearing
    <3>3. CASE v # u /\ ~(accounts[v].avatar > 0)
      <4>1. accounts[v].avatar \in {NoAvatar, Foreign} /\ accounts'[v] = accounts[v]
        BY <1>1, <1>2, <1>4, <3>3 DEF NoAvatar, Foreign
      <4>2. QED
        BY <4>1
    <3>4. QED
      BY <3>1, <3>2, <3>3
  <2>2. QED
    BY <2>1 DEF Served, Clearing
<1>14. QED
  BY <1>8, <1>9, <1>11, <1>12, <1>13 DEF Stored

\* A request deletes the object it replaced, or the one the row is about to forget.
LEMMA DeleteStep ==
    ASSUME Sound, Stored, NEW q \in Requests, NEW s, Goto(q, s),
           request[q].step \in {"drop", "drop_first"}, Delete(request[q].previous),
           UNCHANGED <<accounts, objects>>, broken \subseteq broken',
           IF request[q].step = "drop" THEN s.step \notin Picturing
           ELSE s = [request[q] EXCEPT !.step = "clear"]
    PROVE  Stored'
<1> DEFINE r == request[q]
           o == r.previous
<1>1. /\ objects \in Nat /\ bucket \subseteq 1 .. objects /\ orphans \subseteq 1 .. objects
      /\ r \in Reqs /\ r.user \in DOMAIN accounts /\ o \in Foreign .. objects
      /\ Handles(r, accounts, bucket, orphans, broken, objects)
      /\ \A v \in DOMAIN accounts : o > 0 /\ accounts[v].avatar = o => v = r.user \/ o \in broken
  BY Holding DEF Picturing, Rewriting, Handles
<1>2. /\ request'[q] = s /\ \A p \in Requests \ {q} : Same(request[p], request'[p])
      /\ r.step = "drop" => s.step \notin Picturing
      /\ r.step = "drop_first" => s.step = "clear" /\ s.user = r.user /\ s.key = r.key /\ s.previous = o
                                  /\ (r.raced => s.raced) /\ (s.raced => r.raced)
  <2>1. r.step = "drop_first" => s.step = "clear" /\ s.user = r.user /\ s.key = r.key /\ s.previous = o
                                 /\ s.raced = r.raced
    BY <1>1 DEF Reqs
  <2>2. QED
    BY <2>1, AfterGoto
<1>3. /\ bucket' \subseteq bucket /\ bucket \ {o} \subseteq bucket'
      /\ orphans \subseteq orphans' /\ orphans' \subseteq 1 .. objects
      /\ o \notin bucket' \/ o \in orphans'
      /\ o \notin bucket => bucket' = bucket
  <2>1. CASE o \in {NoAvatar, Foreign}
    BY <1>1, <2>1 DEF Delete, NoAvatar, Foreign
  <2>2. CASE o \notin {NoAvatar, Foreign}
    <3>1. o \in 1 .. objects
      BY <1>1, <2>2 DEF NoAvatar, Foreign
    <3>2. \/ bucket' = bucket \ {o} /\ orphans' = orphans
          \/ orphans' = orphans \cup {o} /\ bucket' = bucket
      BY <2>2 DEF Delete
    <3> HIDE DEF o
    <3>3. QED
      BY <1>1, <3>1, <3>2
  <2>3. QED
    BY <2>1, <2>2
<1>4. r.step = "drop" => \A v \in DOMAIN accounts :
          o > 0 /\ accounts[v].open => accounts[v].avatar # o \/ o \in broken
  BY <1>1 DEF Handles
<1>5. r.step = "drop_first" /\ ~r.raced => accounts[r.user].avatar = o
  BY <1>1 DEF Handles, Rewriting
<1>u. \A p \in Requests : request[p].step = "save" => request[p].key # o
  BY DEF Stored, Unshared, Picturing, Rewriting
<1> HIDE DEF r, o
<1>6. Numbered'
  BY <1>1, <1>3 DEF Stored, Numbered
<1>7. ASSUME NEW p \in Requests
      PROVE  Handles(request'[p], accounts', bucket', orphans', broken', objects')
  <2>1. CASE p # q
    <3>1. /\ Same(request[p], request'[p]) /\ request[p] \in Reqs
          /\ Handles(request[p], accounts, bucket, orphans, broken, objects)
          /\ request[p].step \in Picturing => request[p].user \in DOMAIN accounts
      BY <1>2, <2>1, Holding
    <3>2. request[p].step = "save" => request[p].key \in bucket'
      BY <1>3, <1>u, <3>1 DEF Handles
    <3>3. request[p].step = "clear" => request[p].previous \notin bucket' \/ request[p].previous \in orphans'
      BY <1>3, <3>1 DEF Handles
    <3>4. QED
      BY <1>1, <1>3, <3>1, <3>2, <3>3, StillHandles
  <2>2. CASE p = q /\ r.step = "drop"
    BY <1>2, <2>2 DEF Handles, Picturing, Rewriting
  <2>3. CASE p = q /\ r.step = "drop_first"
    BY <1>1, <1>2, <1>3, <1>5, <2>3 DEF Handles
  <2>4. QED
    BY <2>1, <2>2, <2>3 DEF r
<1>8. Unshared'
  <2>1. ASSUME NEW p \in Requests, request'[p].step = "save", NEW w \in Requests
        PROVE  /\ request'[w].step \in Picturing => request'[w].previous # request'[p].key
               /\ request'[w].step = "save" /\ p # w => request'[w].key # request'[p].key
    <3>1. request[p].step = "save" /\ request'[p].key = request[p].key
      BY <1>2, <2>1 DEF Same, Picturing, Rewriting, r
    <3>2. CASE w = q
      BY <1>2, <1>u, <3>1, <3>2 DEF Picturing, Rewriting, r
    <3>3. CASE w # q
      <4>1. Same(request[w], request'[w])
        BY <1>2, <3>3
      <4>2. QED
        BY <3>1, <4>1 DEF Stored, Unshared, Same
    <3>4. QED
      BY <3>2, <3>3
  <2>2. QED
    BY <2>1 DEF Unshared
<1>9. Owned'
  <2>1. ASSUME NEW x \in bucket'
        PROVE  \/ x \in orphans'
               \/ \E p \in Requests : Saving(p, x)' \/ Dropping(p, x)'
               \/ \E v \in DOMAIN accounts' : Shown(v, x)'
    <3>1. CASE x = o
      BY <1>3, <2>1, <3>1
    <3>2. CASE \E p \in Requests \ {q} : Saving(p, x) \/ Dropping(p, x)
      BY <1>2, <3>2 DEF Saving, Dropping, Same
    <3>3. CASE x # o /\ (Saving(q, x) \/ Dropping(q, x))
      BY <3>3 DEF Saving, Dropping, r, o
    <3>4. CASE \E v \in DOMAIN accounts : Shown(v, x)
      BY <3>4 DEF Shown
    <3>5. QED
      BY <1>3, <2>1, <3>1, <3>2, <3>3, <3>4 DEF Stored, Owned
  <2>2. QED
    BY <2>1 DEF Owned
<1>10. Served'
  <2>1. ASSUME NEW v \in DOMAIN accounts, accounts[v].open
        PROVE  \/ accounts[v].avatar \in bucket' \cup {NoAvatar, Foreign} \cup broken'
               \/ \E p \in Requests : Clearing(p, accounts[v].avatar)'
    <3>1. CASE accounts[v].avatar = o /\ r.step = "drop_first"
      BY <1>2, <3>1 DEF Clearing
    <3>2. CASE accounts[v].avatar = o /\ r.step = "drop"
      <4>1. ~(o > 0) \/ o \in broken
        BY <1>4, <2>1, <3>2
      <4>2. QED
        BY <1>1, <3>2, <4>1 DEF NoAvatar, Foreign
    <3>3. CASE accounts[v].avatar # o
      <4>1. CASE \E p \in Requests : Clearing(p, accounts[v].avatar)
        BY <1>2, <4>1 DEF Clearing, Same, r
      <4>2. QED
        BY <1>3, <2>1, <3>3, <4>1 DEF Stored, Served
    <3>4. QED
      BY <3>1, <3>2, <3>3 DEF r
  <2>2. QED
    BY <2>1 DEF Served, Clearing
<1>11. QED
  BY <1>6, <1>7, <1>8, <1>9, <1>10 DEF Stored

\* upload_avatar has put a new object.
LEMMA PutStep ==
    ASSUME Sound, Stored, NEW q \in Requests, request[q].step = "put",
           objects' = objects + 1, bucket' = bucket \cup {objects'},
           Goto(q, [request[q] EXCEPT !.step = "save", !.key = objects']),
           UNCHANGED <<accounts, orphans, broken>>
    PROVE  Stored'
<1> DEFINE r == request[q]
           s == [r EXCEPT !.step = "save", !.key = objects']
           k == objects'
<1>1. /\ objects \in Nat /\ bucket \subseteq 1 .. objects /\ orphans \subseteq 1 .. objects
      /\ r \in Reqs /\ r.user \in DOMAIN accounts
      /\ Handles(r, accounts, bucket, orphans, broken, objects)
      /\ \A v \in DOMAIN accounts : accounts[v].avatar \in Foreign .. objects
  BY Holding DEF Picturing, Rewriting
<1>2. /\ request'[q] = s /\ \A p \in Requests \ {q} : Same(request[p], request'[p])
      /\ s.step = "save" /\ s.key = k /\ s.user = r.user /\ s.previous = r.previous /\ s.raced = r.raced
  BY <1>1, AfterGoto DEF Reqs
<1>3. \A p \in Requests : /\ request[p].step \in Picturing => request[p].previous # k
                          /\ request[p].step = "save" => request[p].key # k
  <2>1. ASSUME NEW p \in Requests
        PROVE  /\ request[p].step \in Picturing => request[p].previous # k
               /\ request[p].step = "save" => request[p].key # k
    <3>1. Handles(request[p], accounts, bucket, orphans, broken, objects)
      BY Holding
    <3>2. /\ request[p].step \in Picturing => request[p].previous \in Foreign .. objects
          /\ request[p].step = "save" => request[p].key \in 1 .. objects
      BY <1>1, <3>1 DEF Handles
    <3>3. QED
      BY <1>1, <3>2 DEF Foreign
  <2>2. QED
    BY <2>1
<1> HIDE DEF s
<1>4. Numbered'
  BY <1>1 DEF Stored, Numbered, Foreign
<1>5. ASSUME NEW p \in Requests
      PROVE  Handles(request'[p], accounts', bucket', orphans', broken', objects')
  <2>1. CASE p # q
    <3>1. /\ Same(request[p], request'[p]) /\ request[p] \in Reqs
          /\ Handles(request[p], accounts, bucket, orphans, broken, objects)
          /\ request[p].step \in Picturing => request[p].user \in DOMAIN accounts
      BY <1>2, <2>1, Holding
    <3>2. /\ request[p].step = "save" => request[p].key \in bucket'
          /\ request[p].step = "clear" => request[p].previous \notin bucket' \/ request[p].previous \in orphans'
      BY <1>3, <3>1 DEF Handles, Picturing, Rewriting
    <3>3. objects' \in Nat /\ objects =< objects'
      BY <1>1
    <3> HIDE DEF k
    <3>4. QED
      BY <1>1, <3>1, <3>2, <3>3, StillHandles
  <2>2. CASE p = q
    <3>1. s.previous \in Foreign .. objects' /\ s.key \in bucket'
      BY <1>1, <1>2 DEF Handles, Picturing, Rewriting, Foreign
    <3>2. \A v \in DOMAIN accounts : accounts[v].avatar # s.key
      BY <1>1, <1>2 DEF Foreign
    <3>3. /\ \A v \in DOMAIN accounts :
                s.previous > 0 /\ accounts[v].avatar = s.previous => v = s.user \/ s.previous \in broken
          /\ ~s.raced => accounts[s.user].avatar = s.previous
      BY <1>1, <1>2 DEF Handles, Picturing, Rewriting
    <3>4. QED
      BY <1>2, <2>2, <3>1, <3>2, <3>3 DEF Handles
  <2>3. QED
    BY <2>1, <2>2
<1>6. Unshared'
  <2>1. ASSUME NEW p \in Requests, request'[p].step = "save", NEW w \in Requests
        PROVE  /\ request'[w].step \in Picturing => request'[w].previous # request'[p].key
               /\ request'[w].step = "save" /\ p # w => request'[w].key # request'[p].key
    <3>1. /\ p # q => request[p].step = "save" /\ request'[p].key = request[p].key
          /\ p = q => request'[p].key = k
          /\ request'[w].previous = request[w].previous
          /\ request'[w].step \in Picturing => request[w].step \in Picturing
          /\ w # q => request'[w].step = request[w].step /\ request'[w].key = request[w].key
          /\ w = q => request'[w].key = k
      BY <1>2, <2>1 DEF Same, Picturing, Rewriting
    <3> HIDE DEF k
    <3>2. QED
      BY <1>3, <3>1, <2>1 DEF Stored, Unshared
  <2>2. QED
    BY <2>1 DEF Unshared
<1>7. Owned'
  <2>1. ASSUME NEW x \in bucket'
        PROVE  \/ x \in orphans'
               \/ \E p \in Requests : Saving(p, x)' \/ Dropping(p, x)'
               \/ \E v \in DOMAIN accounts' : Shown(v, x)'
    <3>1. CASE x = k
      BY <1>2, <3>1 DEF Saving
    <3>2. CASE \E p \in Requests \ {q} : Saving(p, x) \/ Dropping(p, x)
      BY <1>2, <3>2 DEF Saving, Dropping, Same
    <3>3. ~Saving(q, x) /\ ~Dropping(q, x)
      BY DEF Saving, Dropping
    <3>4. CASE \E v \in DOMAIN accounts : Shown(v, x)
      BY <3>4 DEF Shown
    <3>5. QED
      BY <2>1, <3>1, <3>2, <3>3, <3>4 DEF Stored, Owned
  <2>2. QED
    BY <2>1 DEF Owned
<1>8. Served'
  <2>1. ASSUME NEW v \in DOMAIN accounts, accounts[v].open
        PROVE  \/ accounts[v].avatar \in bucket' \cup {NoAvatar, Foreign} \cup broken'
               \/ \E p \in Requests : Clearing(p, accounts[v].avatar)'
    <3>1. CASE \E p \in Requests : Clearing(p, accounts[v].avatar)
      BY <1>2, <3>1 DEF Clearing, Same
    <3>2. QED
      BY <2>1, <3>1 DEF Stored, Served
  <2>2. QED
    BY <2>1 DEF Served, Clearing
<1>9. QED
  BY <1>4, <1>5, <1>6, <1>7, <1>8 DEF Stored

\* get_current_user hands the request a copy of the avatar.
LEMMA CopyStep ==
    ASSUME Sound, Stored, NEW q \in Requests, Authenticate(q)
    PROVE  Stored'
<1>0. request[q].step = "idle"
  BY DEF Authenticate, Arrive
<1>1. PICK u \in Admitted, step \in {"put", "drop_first", "profile", "erase"} :
         Goto(q, [Idle EXCEPT !.step = step, !.user = u, !.previous = accounts[u].avatar])
  BY DEF Authenticate, Arrive
<1> DEFINE s == [Idle EXCEPT !.step = step, !.user = u, !.previous = accounts[u].avatar]
<1>2. /\ u \in DOMAIN accounts /\ request[q].step = "idle"
      /\ UNCHANGED <<accounts, bucket, objects, orphans, broken>>
      /\ request'[q] = s /\ \A p \in Requests \ {q} : Same(request[p], request'[p])
  BY <1>0, <1>1, AfterGoto DEF Admitted, Open, Authenticate, tables, storage, history
<1>3. s.step = step /\ s.user = u /\ s.previous = accounts[u].avatar
  BY DEF Idle
<1>4. /\ objects \in Nat /\ bucket \subseteq 1 .. objects /\ orphans \subseteq 1 .. objects
      /\ \A v \in DOMAIN accounts : accounts[v].avatar \in Foreign .. objects
  BY Holding
<1> HIDE DEF s
<1>5. ASSUME NEW p \in Requests
      PROVE  Handles(request'[p], accounts', bucket', orphans', broken', objects')
  <2>1. CASE p # q
    <3>1. /\ Same(request[p], request'[p]) /\ request[p] \in Reqs
          /\ Handles(request[p], accounts, bucket, orphans, broken, objects)
          /\ request[p].step \in Picturing => request[p].user \in DOMAIN accounts
      BY <1>2, <2>1, Holding
    <3>2. QED
      BY <1>2, <3>1 DEF Handles, Same
  <2>2. CASE p = q
    <3>1. \A v \in DOMAIN accounts :
             s.previous > 0 /\ accounts[v].avatar = s.previous => v = u \/ s.previous \in broken
      BY <1>2, <1>3 DEF Stored, Numbered
    <3>2. QED
      BY <1>2, <1>3, <1>4, <2>2, <3>1 DEF Handles
  <2>3. QED
    BY <2>1, <2>2
<1>6. Unshared'
  <2>1. ASSUME NEW p \in Requests, request'[p].step = "save", NEW w \in Requests
        PROVE  /\ request'[w].step \in Picturing => request'[w].previous # request'[p].key
               /\ request'[w].step = "save" /\ p # w => request'[w].key # request'[p].key
    <3>1. request[p].step = "save" /\ request'[p].key = request[p].key
      BY <1>2, <1>3, <2>1 DEF Same
    <3>2. CASE w = q
      BY <1>2, <1>3, <3>1, <3>2, Holding DEF Handles
    <3>3. CASE w # q
      <4>1. Same(request[w], request'[w])
        BY <1>2, <3>3
      <4>2. QED
        BY <3>1, <4>1 DEF Stored, Unshared, Same
    <3>4. QED
      BY <3>2, <3>3
  <2>2. QED
    BY <2>1 DEF Unshared
<1>7. Owned'
  <2>1. ASSUME NEW x \in bucket
        PROVE  \/ x \in orphans'
               \/ \E p \in Requests : Saving(p, x)' \/ Dropping(p, x)'
               \/ \E v \in DOMAIN accounts' : Shown(v, x)'
    <3>1. CASE \E p \in Requests : Saving(p, x) \/ Dropping(p, x)
      BY <1>2, <3>1 DEF Saving, Dropping, Same
    <3>2. CASE \E v \in DOMAIN accounts : Shown(v, x)
      BY <1>2, <3>2 DEF Shown
    <3>3. QED
      BY <1>2, <2>1, <3>1, <3>2 DEF Stored, Owned
  <2>2. QED
    BY <1>2, <2>1 DEF Owned
<1>8. Served'
  <2>1. ASSUME NEW v \in DOMAIN accounts, accounts[v].open
        PROVE  \/ accounts[v].avatar \in bucket' \cup {NoAvatar, Foreign} \cup broken'
               \/ \E p \in Requests : Clearing(p, accounts[v].avatar)'
    <3>1. CASE \E p \in Requests : Clearing(p, accounts[v].avatar)
      BY <1>2, <3>1 DEF Clearing, Same
    <3>2. QED
      BY <1>2, <2>1, <3>1 DEF Stored, Served
  <2>2. QED
    BY <1>2, <2>1 DEF Served, Clearing
<1>9. QED
  BY <1>2, <1>5, <1>6, <1>7, <1>8 DEF Stored, Numbered

\* The steps of requests that hold no picture.
LEMMA Elsewhere ==
    ASSUME Sound, Stored, NEW q \in Requests, NEW s, NEW u, Goto(q, s) \/ CommitOn(u, q, s),
           request[q].step \notin Picturing, s.step \notin Picturing,
           DOMAIN accounts \subseteq DOMAIN accounts',
           \A v \in DOMAIN accounts : /\ accounts'[v].avatar = accounts[v].avatar
                                      /\ accounts'[v].open = accounts[v].open,
           \A v \in DOMAIN accounts' \ DOMAIN accounts : accounts'[v].avatar = NoAvatar,
           UNCHANGED <<storage, history>>
    PROVE  Stored'
<1>1. request'[q] = s /\ \A p \in Requests \ {q} : Same(request[p], request'[p])
  BY AfterGoto, AfterCommit
<1>2. /\ UNCHANGED <<bucket, objects>> /\ orphans \subseteq orphans' /\ orphans' \subseteq 1 .. objects
      /\ broken \subseteq broken'
  BY Holding DEF storage, history
<1>3. \A o : ~Saving(q, o) /\ ~Dropping(q, o) /\ ~Clearing(q, o)
  BY DEF Saving, Dropping, Clearing, Picturing, Rewriting
<1>4. QED
  BY <1>1, <1>2, <1>3, LeaveStep

\* An account is edited and stays the same to whoever looks for its picture.
LEMMA Edited ==
    ASSUME Sound, NEW u \in DOMAIN accounts, NEW a,
           a.avatar = accounts[u].avatar, a.open = accounts[u].open,
           accounts' = [accounts EXCEPT ![u] = a]
    PROVE  /\ DOMAIN accounts' = DOMAIN accounts
           /\ \A v \in DOMAIN accounts : /\ accounts'[v].avatar = accounts[v].avatar
                                         /\ accounts'[v].open = accounts[v].open
<1>1. accounts \in [DOMAIN accounts -> Accs]
  BY LenProperties DEF Sound
<1>2. DOMAIN accounts' = DOMAIN accounts
      /\ \A v \in DOMAIN accounts : accounts'[v] = IF v = u THEN a ELSE accounts[v]
  BY <1>1
<1>3. QED
  BY <1>2

\* A request goes on without a picture, and to the audit row alone only if that is right.
Right(s) == s.step = "audit" => accounts[s.user].admin = s.flag
Moving(q) == \E s, u : (Goto(q, s) \/ CommitOn(u, q, s)) /\ s.step \notin Picturing /\ Right(s)

\* The sessions, the links and the role that is read.
LEMMA SessionMoves ==
    ASSUME Sound, NEW q \in Requests,
           \/ Register(q) \/ Login(q) \/ IssueSession(q) \/ ReadSession(q) \/ ReadOwner(q)
           \/ Rotate(q) \/ RevokeAll(q) \/ ReadOwnSession(q) \/ Logout(q)
           \/ AskLink(q) \/ InsertLink(q) \/ SendMail(q) \/ ReadLink(q) \/ ReadTarget(q)
    PROVE  /\ UNCHANGED accounts /\ UNCHANGED <<storage, history>>
           /\ request[q].step \notin Picturing /\ Moving(q)
<1>1. UNCHANGED accounts /\ UNCHANGED <<storage, history>>
  <2>1. CASE Register(q) \/ Login(q) \/ ReadSession(q) \/ ReadOwner(q) \/ ReadOwnSession(q)
    BY <2>1 DEF Register, Login, ReadSession, ReadOwner, ReadOwnSession, tables
  <2>2. CASE AskLink(q) \/ ReadLink(q) \/ ReadTarget(q)
    BY <2>2 DEF AskLink, ReadLink, ReadTarget, tables
  <2>3. CASE IssueSession(q) \/ Rotate(q) \/ RevokeAll(q) \/ Logout(q)
    BY <2>3 DEF IssueSession, Rotate, RevokeAll, Logout
  <2>4. CASE InsertLink(q) \/ SendMail(q)
    BY <2>4 DEF InsertLink, SendMail
  <2>5. QED
    BY <2>1, <2>2, <2>3, <2>4
<1>2. ASSUME NEW s, NEW u, Goto(q, s) \/ CommitOn(u, q, s),
             request[q].step \notin Picturing, s.step \notin Picturing,
             Right(s)
      PROVE  request[q].step \notin Picturing /\ Moving(q)
  BY <1>2 DEF Moving
<1>3. /\ Idle.step \notin Picturing /\ Right(Idle)
      /\ \A s : s.step \in {"insert", "issue", "logout", "link", "owner", "revoke_all", "verify",
                            "reset", "rotate", "mail"} => s.step \notin Picturing /\ Right(s)
  BY DEF Idle, Picturing, Rewriting, Right
<1>p. request[q].step \in {"idle", "insert", "issue", "owner", "rotate", "revoke_all", "logout", "link",
                           "mail"} => request[q].step \notin Picturing
  BY DEF Picturing, Rewriting
<1>4. CASE Register(q) \/ Login(q) \/ ReadOwnSession(q) \/ AskLink(q)
  <2>0. request[q].step = "idle"
    BY <1>4 DEF Register, Login, ReadOwnSession, AskLink, Arrive
  <2>1. PICK s : Goto(q, s) /\ s.step \in {"insert", "issue", "logout", "link"}
    <3>1. CASE Register(q)
      <4>1. PICK n \in Names : Goto(q, [Idle EXCEPT !.step = "insert", !.key = n])
        BY <3>1 DEF Register, Arrive
      <4>2. [Idle EXCEPT !.step = "insert", !.key = n].step = "insert"
        BY DEF Idle
      <4>3. QED
        BY <4>1, <4>2
    <3>2. CASE Login(q)
      <4>1. PICK u \in Admitted :
               Goto(q, [Idle EXCEPT !.step = "issue", !.user = u, !.key = accounts[u].password])
        BY <3>2 DEF Login, Arrive
      <4>2. [Idle EXCEPT !.step = "issue", !.user = u, !.key = accounts[u].password].step = "issue"
        BY DEF Idle
      <4>3. QED
        BY <4>1, <4>2
    <3>3. CASE ReadOwnSession(q)
      <4>0. PICK u \in Admitted : \E t \in SessionsOf(u) :
               Goto(q, [Idle EXCEPT !.step = "logout", !.user = u, !.key = t])
        BY <3>3 DEF ReadOwnSession, Arrive
      <4>1. PICK t \in SessionsOf(u) : Goto(q, [Idle EXCEPT !.step = "logout", !.user = u, !.key = t])
        BY <4>0
      <4>2. [Idle EXCEPT !.step = "logout", !.user = u, !.key = t].step = "logout"
        BY DEF Idle
      <4>3. QED
        BY <4>1, <4>2
    <3>4. CASE AskLink(q)
      <4>1. PICK u \in Open, reset \in BOOLEAN :
               Goto(q, [Idle EXCEPT !.step = "link", !.user = u, !.flag = reset])
        BY <3>4 DEF AskLink, Arrive
      <4>2. [Idle EXCEPT !.step = "link", !.user = u, !.flag = reset].step = "link"
        BY DEF Idle
      <4>3. QED
        BY <4>1, <4>2
    <3>5. QED
      BY <1>4, <3>1, <3>2, <3>3, <3>4
  <2>2. QED
    BY <1>1, <1>2, <1>3, <1>p, <2>0, <2>1
<1>5. CASE ReadSession(q)
  <2>0. request[q].step = "idle"
    BY <1>5 DEF ReadSession, Arrive
  <2>1. PICK t \in DOMAIN sessions :
           Goto(q, [Idle EXCEPT !.step = IF Active(t) THEN "owner" ELSE "revoke_all",
                                  !.user = sessions[t].user, !.key = t])
    BY <1>5 DEF ReadSession, Arrive
  <2> DEFINE s == [Idle EXCEPT !.step = IF Active(t) THEN "owner" ELSE "revoke_all",
                               !.user = sessions[t].user, !.key = t]
  <2>2. s.step \in {"owner", "revoke_all"}
    BY DEF Idle
  <2> HIDE DEF s
  <2>3. Goto(q, s)
    BY <2>1 DEF s
  <2>4. QED
    BY <1>1, <1>2, <1>3, <1>p, <2>0, <2>2, <2>3
<1>6. CASE ReadTarget(q)
  <2>0. request[q].step = "idle"
    BY <1>6 DEF ReadTarget, Arrive
  <2>1. PICK u \in Open, grant \in BOOLEAN :
           Goto(q, [Idle EXCEPT !.step = IF accounts[u].admin = grant THEN "audit" ELSE "role",
                                  !.user = u, !.flag = grant])
    BY <1>6 DEF ReadTarget, Arrive
  <2> DEFINE s == [Idle EXCEPT !.step = IF accounts[u].admin = grant THEN "audit" ELSE "role",
                               !.user = u, !.flag = grant]
  <2>2. s.step \notin Picturing /\ Right(s)
    BY DEF Idle, Right, Picturing, Rewriting
  <2> HIDE DEF s
  <2>3. Goto(q, s)
    BY <2>1 DEF s
  <2>4. QED
    BY <1>1, <1>2, <1>3, <1>p, <2>0, <2>2, <2>3
<1>7. CASE ReadLink(q)
  <2>0. request[q].step = "idle"
    BY <1>7 DEF ReadLink, Arrive
  <2>1. PICK k \in DOMAIN links :
           Goto(q, [Idle EXCEPT !.step = links[k].purpose, !.user = links[k].user, !.key = k])
    BY <1>7 DEF ReadLink, Arrive
  <2> DEFINE s == [Idle EXCEPT !.step = links[k].purpose, !.user = links[k].user, !.key = k]
  <2>2. s.step \in {"reset", "verify"}
    <3>1. links[k] \in Lnks
      BY Known
    <3>2. QED
      BY <3>1 DEF Idle, Lnks
  <2> HIDE DEF s
  <2>3. Goto(q, s)
    BY <2>1 DEF s
  <2>4. QED
    BY <1>1, <1>2, <1>3, <1>p, <2>0, <2>2, <2>3
<1>8. CASE IssueSession(q) \/ Rotate(q) \/ RevokeAll(q) \/ Logout(q) \/ SendMail(q)
  BY <1>2, <1>3, <1>8 DEF IssueSession, Rotate, RevokeAll, Logout, SendMail, Picturing, Rewriting
<1>9. CASE ReadOwner(q)
  <2> DEFINE s == [request[q] EXCEPT !.step = "rotate"]
  <2>1. s.step = "rotate" /\ request[q].step = "owner"
    BY <1>9, Known DEF ReadOwner, Reqs
  <2> HIDE DEF s
  <2>2. Goto(q, Idle) \/ Goto(q, s)
    BY <1>9 DEF ReadOwner, s
  <2>3. QED
    BY <1>1, <1>2, <1>3, <1>p, <2>1, <2>2
<1>10. CASE InsertLink(q)
  <2> DEFINE s == [request[q] EXCEPT !.step = "mail", !.key = Len(links) + 1]
  <2>1. /\ s.step = "mail"
        /\ request[q].step = "link"
    BY <1>10, Known DEF InsertLink, Reqs
  <2> HIDE DEF s
  <2>2. \/ Goto(q, Idle)
        \/ CommitOn(request[q].user, q, s)
    BY <1>10 DEF InsertLink, s
  <2>3. QED
    BY <1>1, <1>2, <1>3, <1>p, <2>1, <2>2
<1>11. QED
  BY <1>1, <1>4, <1>5, <1>6, <1>7, <1>8, <1>9, <1>10

LEMMA SessionsAside ==
    ASSUME Sound, Stored, NEW q \in Requests,
           \/ Register(q) \/ Login(q) \/ IssueSession(q) \/ ReadSession(q) \/ ReadOwner(q)
           \/ Rotate(q) \/ RevokeAll(q) \/ ReadOwnSession(q) \/ Logout(q)
           \/ AskLink(q) \/ InsertLink(q) \/ SendMail(q) \/ ReadLink(q) \/ ReadTarget(q)
    PROVE  Stored'
<1>1. /\ UNCHANGED accounts /\ UNCHANGED <<storage, history>> /\ request[q].step \notin Picturing
      /\ \E s, u : (Goto(q, s) \/ CommitOn(u, q, s)) /\ s.step \notin Picturing
  BY SessionMoves DEF Moving
<1>2. PICK s, u : (Goto(q, s) \/ CommitOn(u, q, s)) /\ s.step \notin Picturing
  BY <1>1
<1>3. QED
  BY <1>1, <1>2, Elsewhere

\* A table gets a row.
LEMMA AppendedRow ==
    ASSUME NEW T, NEW S \in Seq(T), NEW e
    PROVE  /\ Len(Append(S, e)) = Len(S) + 1
           /\ \A w \in DOMAIN S : w \in DOMAIN Append(S, e) /\ Append(S, e)[w] = S[w]
           /\ \A w \in DOMAIN Append(S, e) \ DOMAIN S : Append(S, e)[w] = e
<1>1. /\ S \in Seq(T \cup {e}) /\ Len(S) \in Nat /\ DOMAIN S = 1 .. Len(S)
  BY LenProperties, SeqDef
<1>2. QED
  BY <1>1, AppendProperties

LEMMA OneMore ==
    ASSUME NEW T, NEW S \in Seq(T), NEW e
    PROVE  \A v, w \in DOMAIN Append(S, e) \ DOMAIN S : v = w
<1>1. /\ S \in Seq(T \cup {e}) /\ Len(S) \in Nat /\ DOMAIN S = 1 .. Len(S)
  BY LenProperties, SeqDef
<1>2. DOMAIN Append(S, e) = 1 .. Len(S) + 1
  BY <1>1, AppendProperties, LenProperties
<1>3. QED
  BY <1>1, <1>2

LEMMA AccountsAside ==
    ASSUME Sound, Stored, NEW q \in Requests,
           InsertUser(q) \/ ConfirmEmail(q) \/ ResetPassword(q) \/ SetRole(q)
    PROVE  Stored'
<1> DEFINE u == request[q].user
<1>1. /\ UNCHANGED <<storage, history>> /\ request[q].step \notin Picturing /\ Idle.step \notin Picturing
      /\ request[q].step # "insert" => u \in DOMAIN accounts
  <2>1. /\ UNCHANGED <<storage, history>>
        /\ request[q].step \in {"insert", "verify", "reset", "role", "audit"}
    BY DEF InsertUser, ConfirmEmail, ResetPassword, SetRole
  <2>2. QED
    BY <2>1, Known DEF Idle, Picturing, Rewriting, Refers
<1>2. ASSUME NEW v, Goto(q, Idle) \/ CommitOn(v, q, Idle),
             DOMAIN accounts \subseteq DOMAIN accounts',
             \A w \in DOMAIN accounts : /\ accounts'[w].avatar = accounts[w].avatar
                                        /\ accounts'[w].open = accounts[w].open,
             \A w \in DOMAIN accounts' \ DOMAIN accounts : accounts'[w].avatar = NoAvatar
      PROVE  Stored'
  BY <1>1, <1>2, Elsewhere
<1>3. ASSUME NEW v, Goto(q, Idle) \/ CommitOn(v, q, Idle),
             \/ accounts' = accounts
             \/ \E a : /\ accounts' = [accounts EXCEPT ![u] = a] /\ u \in DOMAIN accounts
                       /\ a.avatar = accounts[u].avatar /\ a.open = accounts[u].open
      PROVE  Stored'
  <2>1. CASE accounts' = accounts
    BY <1>2, <1>3, <2>1
  <2>2. CASE accounts' # accounts
    <3>1. PICK a : /\ accounts' = [accounts EXCEPT ![u] = a] /\ u \in DOMAIN accounts
                   /\ a.avatar = accounts[u].avatar /\ a.open = accounts[u].open
      BY <1>3, <2>2
    <3> HIDE DEF u
    <3>2. QED
      BY <1>2, <1>3, <3>1, Edited
  <2>3. QED
    BY <2>1, <2>2
<1>4. \A v \in DOMAIN accounts : accounts[v] \in Accs
  BY Known
<1>5. CASE InsertUser(q)
  <2>1. Goto(q, Idle)
    BY <1>5 DEF InsertUser
  <2>2. CASE accounts' = Append(accounts, Account(request[q].key))
    <3>1. accounts \in Seq(Accs) /\ Account(request[q].key).avatar = NoAvatar
      BY DEF Sound, Account
    <3>2. /\ \A w \in DOMAIN accounts : w \in DOMAIN accounts' /\ accounts'[w] = accounts[w]
          /\ \A w \in DOMAIN accounts' \ DOMAIN accounts : accounts'[w] = Account(request[q].key)
      BY <2>2, <3>1, AppendedRow
    <3>3. QED
      BY <1>2, <2>1, <3>1, <3>2
  <2>3. CASE accounts' = accounts
    BY <1>3, <2>1, <2>3
  <2>4. QED
    BY <1>5, <2>2, <2>3 DEF InsertUser
<1>6. CASE ConfirmEmail(q)
  <2>1. CASE ~accounts[u].open
    BY <1>3, <1>6, <2>1 DEF ConfirmEmail
  <2>2. CASE accounts[u].open
    <3> DEFINE a == [accounts[u] EXCEPT !.verified = TRUE]
    <3>1. accounts' = [accounts EXCEPT ![u] = a] /\ CommitOn(u, q, Idle) /\ u \in DOMAIN accounts
      BY <1>1, <1>6, <2>2 DEF ConfirmEmail
    <3>2. a.avatar = accounts[u].avatar /\ a.open = accounts[u].open
      BY <1>4, <3>1 DEF Accs
    <3> HIDE DEF a, u
    <3>3. QED
      BY <1>3, <3>1, <3>2
  <2>3. QED
    BY <2>1, <2>2
<1>7. CASE ResetPassword(q)
  <2>1. CASE ~accounts[u].open
    BY <1>3, <1>7, <2>1 DEF ResetPassword, tables
  <2>2. CASE accounts[u].open
    <3> DEFINE a == [accounts[u] EXCEPT !.password = @ + 1]
    <3>1. accounts' = [accounts EXCEPT ![u] = a] /\ CommitOn(u, q, Idle) /\ u \in DOMAIN accounts
      BY <1>1, <1>7, <2>2 DEF ResetPassword
    <3>2. a.avatar = accounts[u].avatar /\ a.open = accounts[u].open
      BY <1>4, <3>1 DEF Accs
    <3> HIDE DEF a, u
    <3>3. QED
      BY <1>3, <3>1, <3>2
  <2>3. QED
    BY <2>1, <2>2
<1>8. CASE SetRole(q)
  <2>1. CASE ~accounts[u].open
    BY <1>3, <1>8, <2>1 DEF SetRole
  <2>2. CASE accounts[u].open
    <3> DEFINE admin == IF request[q].step = "role" THEN request[q].flag ELSE accounts[u].admin
               drifted == accounts[u].drifted \/ request[q].raced
               a == [accounts[u] EXCEPT !.admin = admin, !.audit = request[q].flag, !.drifted = drifted]
    <3>1. accounts' = [accounts EXCEPT ![u] = a] /\ CommitOn(u, q, Idle) /\ u \in DOMAIN accounts
      BY <1>1, <1>8, <2>2 DEF SetRole
    <3> HIDE DEF admin, drifted
    <3>2. a.avatar = accounts[u].avatar /\ a.open = accounts[u].open
      BY <1>4, <3>1 DEF Accs
    <3> HIDE DEF a, u
    <3>3. QED
      BY <1>3, <3>1, <3>2
  <2>3. QED
    BY <2>1, <2>2
<1>9. QED
  BY <1>5, <1>6, <1>7, <1>8

LEMMA BanAside ==
    ASSUME Sound, Stored, NEW u \in DOMAIN accounts, SetBanned(u)
    PROVE  /\ Stored'
           /\ \A p \in Requests : Same(request[p], request'[p])
           /\ DOMAIN accounts' = DOMAIN accounts
           /\ \A v \in DOMAIN accounts :
                  /\ accounts'[v].avatar = accounts[v].avatar /\ accounts'[v].open = accounts[v].open
                  /\ accounts'[v].name = accounts[v].name /\ accounts'[v].admin = accounts[v].admin
                  /\ accounts'[v].audit = accounts[v].audit /\ accounts'[v].drifted = accounts[v].drifted
<1> DEFINE a == [accounts[u] EXCEPT !.banned = ~@]
<1>1. accounts' = [accounts EXCEPT ![u] = a] /\ UNCHANGED <<bucket, objects, orphans, broken>>
  BY DEF SetBanned, storage, history
<1>2. /\ a.avatar = accounts[u].avatar /\ a.open = accounts[u].open /\ a.name = accounts[u].name
      /\ a.admin = accounts[u].admin /\ a.audit = accounts[u].audit /\ a.drifted = accounts[u].drifted
      /\ accounts \in [DOMAIN accounts -> Accs]
  <2>1. accounts \in [DOMAIN accounts -> Accs] /\ accounts[u] \in Accs
    BY LenProperties DEF Sound
  <2>2. a.avatar = accounts[u].avatar /\ a.open = accounts[u].open /\ a.name = accounts[u].name
    BY <2>1 DEF Accs
  <2>3. a.admin = accounts[u].admin /\ a.audit = accounts[u].audit /\ a.drifted = accounts[u].drifted
    BY <2>1 DEF Accs
  <2>4. QED
    BY <2>1, <2>2, <2>3
<1> HIDE DEF a
<1>3. /\ DOMAIN accounts' = DOMAIN accounts
      /\ \A v \in DOMAIN accounts : accounts'[v] = IF v = u THEN a ELSE accounts[v]
  BY <1>1, <1>2
<1>4. ASSUME NEW p \in Requests PROVE Same(request[p], request'[p])
  <2>1. request[p] \in Reqs
    BY DEF Sound
  <2>2. request'[p] = IF request[p].user = u THEN [request[p] EXCEPT !.raced = TRUE] ELSE request[p]
    BY DEF SetBanned
  <2>3. CASE request[p].user = u
    BY <2>1, <2>2, <2>3, SameAsBefore
  <2>4. CASE request[p].user # u
    BY <2>1, <2>2, <2>4, SameAsBefore
  <2>5. QED
    BY <2>3, <2>4
<1>5. /\ \A v \in DOMAIN accounts : accounts'[v].avatar = accounts[v].avatar /\ accounts'[v].open = accounts[v].open
      /\ \A v \in DOMAIN accounts : accounts'[v].name = accounts[v].name /\ accounts'[v].admin = accounts[v].admin
      /\ \A v \in DOMAIN accounts : accounts'[v].audit = accounts[v].audit /\ accounts'[v].drifted = accounts[v].drifted
  BY <1>2, <1>3
<1>6. Stored'
  <2>1. ASSUME NEW p \in Requests
        PROVE  Handles(request'[p], accounts', bucket', orphans', broken', objects')
    BY <1>1, <1>3, <1>4, <1>5, OtherHandles
  <2>2. Numbered' /\ Unshared'
    BY <1>1, <1>3, <1>4, <1>5 DEF Stored, Numbered, Unshared, Same
  <2>3. Owned'
    BY <1>1, <1>3, <1>4, <1>5 DEF Stored, Owned, Saving, Dropping, Shown, Same
  <2>4. Served'
    BY <1>1, <1>3, <1>4, <1>5 DEF Stored, Served, Clearing, Same
  <2>5. QED
    BY <2>1, <2>2, <2>3, <2>4 DEF Stored
<1>7. QED
  BY <1>3, <1>4, <1>5, <1>6

\* A request that ends without a write, having let go of what it held.
LEMMA GiveUp ==
    ASSUME Sound, Stored, NEW q \in Requests, Goto(q, Idle),
           UNCHANGED <<accounts, bucket, objects>>, orphans \subseteq orphans', orphans' \subseteq 1 .. objects,
           broken \subseteq broken',
           \A o \in bucket : Saving(q, o) \/ Dropping(q, o) => o \in orphans',
           request[q].step = "clear" =>
               ~accounts[request[q].user].open \/ request[q].previous \in broken'
    PROVE  Stored'
<1>1. /\ request'[q] = Idle /\ Idle.step \notin Picturing
      /\ \A p \in Requests \ {q} : Same(request[p], request'[p])
  BY AfterGoto DEF Idle, Picturing, Rewriting
<1>2. ASSUME NEW u \in DOMAIN accounts, Shown(u, accounts[u].avatar), accounts[u].avatar > 0,
             Clearing(q, accounts[u].avatar)
      PROVE  accounts[u].avatar \in broken'
  <2>1. request[q].step = "clear" /\ request[q].previous = accounts[u].avatar
    BY <1>2 DEF Clearing
  <2>2. u = request[q].user \/ request[q].previous \in broken
    BY <1>2, <2>1, Holding DEF Handles, Picturing, Rewriting
  <2>3. QED
    BY <1>2, <2>1, <2>2 DEF Shown
<1>3. QED
  BY <1>1, <1>2, LeaveStep

LEMMA PictureSteps ==
    ASSUME Sound, Stored, NEW q \in Requests,
           SaveAvatar(q) \/ ClearAvatar(q) \/ SaveProfile(q) \/ Erase(q)
    PROVE  Stored'
<1> DEFINE r == request[q]
           row == accounts[r.user]
<1>1. /\ r.step \in {"save", "clear", "profile", "erase"} /\ UNCHANGED <<bucket, objects>>
  BY DEF SaveAvatar, ClearAvatar, SaveProfile, Erase, storage
<1>2. /\ r \in Reqs /\ r.user \in DOMAIN accounts /\ Handles(r, accounts, bucket, orphans, broken, objects)
      /\ objects \in Nat /\ bucket \subseteq 1 .. objects /\ orphans \subseteq 1 .. objects
      /\ row.avatar \in Foreign .. objects /\ row \in Accs
      /\ r.previous \in Foreign .. objects /\ Idle \in Reqs /\ Idle.step \notin Picturing
      /\ ~r.raced => row.avatar = r.previous
      /\ r.step = "save" => r.key \in 1 .. objects /\ r.key \in bucket
  <2>1. r.step \in Picturing /\ r.step \in Rewriting
    BY <1>1 DEF Picturing, Rewriting
  <2>2. /\ r \in Reqs /\ r.user \in DOMAIN accounts /\ Handles(r, accounts, bucket, orphans, broken, objects)
        /\ objects \in Nat /\ bucket \subseteq 1 .. objects /\ orphans \subseteq 1 .. objects
        /\ row.avatar \in Foreign .. objects /\ row \in Accs
    BY <2>1, Holding, Known
  <2>3. Idle \in Reqs /\ Idle.step \notin Picturing
    BY GoodOfIdle DEF Idle, Picturing, Rewriting
  <2>4. QED
    BY <2>1, <2>2, <2>3 DEF Handles
<1> DEFINE s == [r EXCEPT !.step = "drop"]
<1>3. s \in Reqs /\ s.step = "drop" /\ s.previous = r.previous /\ s.user = r.user
  BY <1>2 DEF Reqs, Steps
\* What the write leaves to nobody is an orphan, or what the request will delete.
<1>4. /\ Replaced(r) \subseteq 1 .. objects
      /\ row.avatar \in bucket => row.avatar = r.previous \/ row.avatar \in Replaced(r)
  <2>1. CASE row.avatar \in bucket
    BY <1>2, <2>1 DEF Replaced, NoAvatar, Foreign
  <2>2. CASE row.avatar \notin bucket
    BY <1>2, <2>2 DEF Replaced, NoAvatar, Foreign
  <2>3. QED
    BY <2>1, <2>2
<1>u. CASE UNCHANGED <<accounts, orphans, broken>> /\ Goto(q, Idle) /\ r.step = "profile"
  BY <1>1, <1>2, <1>u, GiveUp DEF Saving, Dropping
<1>5. CASE ~row.open
  <2>1. Goto(q, Idle) /\ accounts' = accounts /\ broken' = broken
    BY <1>5 DEF SaveAvatar, ClearAvatar, SaveProfile, Erase, history
  <2>2. CASE SaveAvatar(q)
    <3>1. r.step = "save" /\ orphans' = orphans \cup {r.key}
      BY <1>5, <2>2 DEF SaveAvatar
    <3>2. QED
      BY <1>1, <1>2, <2>1, <3>1, GiveUp DEF Saving, Dropping
  <2>3. CASE ClearAvatar(q) \/ SaveProfile(q) \/ Erase(q)
    <3>1. r.step \notin {"save", "drop"} /\ orphans' = orphans
      BY <1>5, <2>3 DEF ClearAvatar, SaveProfile, Erase, history
    <3>2. QED
      BY <1>1, <1>2, <1>5, <2>1, <3>1, GiveUp DEF Saving, Dropping
  <2>4. QED
    BY <2>2, <2>3
<1>6. CASE row.open /\ SaveAvatar(q)
  <2> DEFINE a == [row EXCEPT !.avatar = r.key]
  <2>1. /\ r.step = "save" /\ accounts' = [accounts EXCEPT ![r.user] = a] /\ CommitOn(r.user, q, s)
        /\ orphans' = orphans \cup Replaced(r) /\ broken' = broken
    BY <1>6 DEF SaveAvatar
  <2>2. a \in Accs /\ a.avatar = r.key /\ a.open
    BY <1>2, <1>6 DEF Accs, Reqs
  <2> HIDE DEF a, s
  <2>3. QED
    BY <1>1, <1>2, <1>3, <1>4, <1>6, <2>1, <2>2, WriteStep DEF Rewriting
<1>7. CASE row.open /\ ClearAvatar(q)
  <2> DEFINE a == [row EXCEPT !.avatar = NoAvatar]
  <2>1. /\ r.step = "clear" /\ accounts' = [accounts EXCEPT ![r.user] = a] /\ CommitOn(r.user, q, Idle)
        /\ orphans' = orphans \cup Replaced(r) /\ broken' = broken
    BY <1>7 DEF ClearAvatar
  <2>2. a \in Accs /\ a.avatar = NoAvatar /\ a.open
    BY <1>2, <1>7 DEF Accs, Any, NoAvatar
  <2>3. row.avatar \in bucket => row.avatar \in orphans'
    BY <1>2, <1>4, <2>1 DEF Handles
  <2> HIDE DEF a, s
  <2>4. QED
    BY <1>1, <1>2, <1>4, <1>7, <2>1, <2>2, <2>3, WriteStep DEF Rewriting
<1>8. CASE row.open /\ SaveProfile(q)
  <2>0. r.step = "profile"
    BY <1>8 DEF SaveProfile
  <2>1. CASE \E avatar \in ({NoAvatar, Foreign} \cup Published) \ {r.previous} :
           /\ accounts' = [accounts EXCEPT ![r.user].avatar = avatar]
           /\ orphans' = orphans \cup ({accounts[r.user].avatar} \ {NoAvatar, Foreign})
           /\ broken' = broken \cup ({avatar} \ {NoAvatar, Foreign})
           /\ CommitOn(r.user, q, Idle)
    <3>1. PICK avatar \in ({NoAvatar, Foreign} \cup Published) \ {r.previous} :
             /\ accounts' = [accounts EXCEPT ![r.user].avatar = avatar]
             /\ orphans' = orphans \cup ({accounts[r.user].avatar} \ {NoAvatar, Foreign})
             /\ broken' = broken \cup ({avatar} \ {NoAvatar, Foreign})
             /\ CommitOn(r.user, q, Idle)
      BY <2>1
    <3> DEFINE a == [row EXCEPT !.avatar = avatar]
    <3>2. accounts' = [accounts EXCEPT ![r.user] = a]
      BY <3>1
    <3>3. /\ avatar \in {NoAvatar, Foreign} \/ avatar \in 1 .. objects
          /\ avatar \notin {NoAvatar, Foreign} =>
                \A p \in Requests : request[p].step = "save" => request[p].key # avatar
      BY <3>1 DEF Published
    <3>4. a \in Accs /\ a.avatar = avatar /\ a.open
      <4>1. avatar \in Any
        BY <1>2, <3>3 DEF Any, NoAvatar, Foreign
      <4>2. QED
        BY <1>2, <1>8, <4>1 DEF Accs
    <3>5. orphans \subseteq orphans' /\ orphans' \subseteq 1 .. objects
          /\ (row.avatar \in bucket => row.avatar \in orphans')
      BY <1>2, <3>1 DEF NoAvatar, Foreign
    <3>6. broken \subseteq broken' /\ (avatar \notin {NoAvatar, Foreign} => avatar \in broken')
      BY <3>1
    <3> HIDE DEF a, s
    <3>7. QED
      BY <1>1, <1>2, <1>8, <2>0, <3>1, <3>2, <3>3, <3>4, <3>5, <3>6, WriteStep DEF Rewriting
  <2>2. CASE UNCHANGED <<accounts, history>> /\ Goto(q, Idle)
    BY <1>u, <2>0, <2>2 DEF history
  <2>3. QED
    BY <1>8, <2>1, <2>2 DEF SaveProfile
<1>9. CASE row.open /\ Erase(q)
  <2> DEFINE a == [row EXCEPT !.open = FALSE]
  <2>1. /\ r.step = "erase" /\ accounts' = [accounts EXCEPT ![r.user] = a] /\ CommitOn(r.user, q, s)
        /\ orphans' = orphans \cup Replaced(r) /\ broken' = broken
    BY <1>9 DEF Erase
  <2>2. a \in Accs /\ a.avatar = row.avatar /\ ~a.open
    BY <1>2, <1>9 DEF Accs
  <2> HIDE DEF a, s
  <2>3. QED
    BY <1>1, <1>2, <1>3, <1>4, <1>9, <2>1, <2>2, WriteStep DEF Rewriting
<1>10. QED
  BY <1>5, <1>6, <1>7, <1>8, <1>9

LEMMA ObjectSteps ==
    ASSUME Sound, Stored, NEW q \in Requests,
           Authenticate(q) \/ PutObject(q) \/ DropOld(q) \/ DropFirst(q) \/ Crash(q)
    PROVE  Stored'
<1> DEFINE r == request[q]
<1>1. Idle.step \notin Picturing /\ objects \in Nat /\ orphans \subseteq 1 .. objects
  BY Holding DEF Idle, Picturing, Rewriting
<1>2. CASE PutObject(q)
  <2>1. /\ r.step = "put" /\ UNCHANGED <<accounts, orphans, broken>>
    BY <1>2 DEF PutObject, tables, history
  <2>2. CASE Goto(q, Idle) /\ UNCHANGED storage
    BY <1>1, <2>1, <2>2, GiveUp DEF Saving, Dropping, storage
  <2>3. CASE /\ objects' = objects + 1 /\ bucket' = bucket \cup {objects'}
             /\ Goto(q, [request[q] EXCEPT !.step = "save", !.key = objects'])
    BY <2>1, <2>3, PutStep
  <2>4. QED
    BY <1>2, <2>2, <2>3 DEF PutObject
<1>3. CASE DropOld(q)
  BY <1>1, <1>3, DeleteStep DEF DropOld, tables
<1>4. CASE DropFirst(q)
  <2>1. /\ r.step = "drop_first" /\ Delete(r.previous) /\ Goto(q, [r EXCEPT !.step = "clear"])
        /\ broken \subseteq broken' /\ UNCHANGED <<accounts, objects>>
    BY <1>4 DEF DropFirst, tables
  <2>2. QED
    BY <2>1, DeleteStep
<1>5. CASE Crash(q)
  <2>1. /\ Goto(q, Idle) /\ UNCHANGED <<accounts, bucket, objects>> /\ broken \subseteq broken'
        /\ r.step = "clear" => r.previous \in broken'
    BY <1>5 DEF Crash, tables, storage
  <2>2. /\ r.step = "save" => orphans' = orphans \cup {r.key}
        /\ r.step = "drop" => orphans' = orphans \cup ({r.previous} \ {NoAvatar, Foreign})
        /\ r.step \notin {"save", "drop"} => orphans' = orphans
    BY <1>5 DEF Crash
  <2>3. /\ r.step = "save" => r.key \in 1 .. objects
        /\ r.step = "drop" => r.previous \in Foreign .. objects
        /\ bucket \subseteq 1 .. objects
    BY Holding DEF Handles, Picturing
  <2>4. orphans \subseteq orphans' /\ orphans' \subseteq 1 .. objects
    <3>1. CASE r.step = "save"
      BY <1>1, <2>2, <2>3, <3>1
    <3>2. CASE r.step = "drop"
      <4>1. {r.previous} \ {NoAvatar, Foreign} \subseteq 1 .. objects
        BY <1>1, <2>3, <3>2 DEF NoAvatar, Foreign
      <4>2. QED
        BY <1>1, <2>2, <3>2, <4>1
    <3>3. QED
      BY <1>1, <2>2, <3>1, <3>2
  <2>5. \A o \in bucket : Saving(q, o) \/ Dropping(q, o) => o \in orphans'
    BY <1>1, <2>2, <2>3 DEF Saving, Dropping, NoAvatar, Foreign
  <2>6. QED
    BY <2>1, <2>4, <2>5, GiveUp
<1>6. QED
  BY <1>2, <1>3, <1>4, <1>5, CopyStep

LEMMA StoredKept ==
    ASSUME Sound, Stored, [Next]_vars
    PROVE  Stored'
<1>1. ASSUME NEW q \in Requests, Step(q) \/ Crash(q) PROVE Stored'
  BY <1>1, SessionsAside, AccountsAside, PictureSteps, ObjectSteps DEF Step
<1>2. CASE Tick \/ UNCHANGED vars
  <2>1. UNCHANGED <<accounts, bucket, objects, request, orphans, broken>>
    BY <1>2 DEF Tick, vars, tables, storage, history
  <2>2. QED
    BY <2>1 DEF Stored, Numbered, Unshared, Owned, Served, Saving, Dropping, Clearing, Shown
<1>3. QED
  BY <1>1, <1>2, BanAside DEF Next

LEMMA StoredInit == Init => Stored
<1> SUFFICES ASSUME Init PROVE Stored
  OBVIOUS
<1>1. PICK n \in Names, avatar \in {NoAvatar, 1} :
         /\ accounts = <<[Account(n) EXCEPT !.avatar = avatar]>> /\ objects = avatar
         /\ bucket = {avatar} \ {NoAvatar}
  BY DEF Init
<1>2. /\ orphans = {} /\ broken = {} /\ \A q \in Requests : request[q] = Idle
  BY DEF Init
<1>3. DOMAIN accounts = {1} /\ accounts[1].avatar = avatar /\ accounts[1].open
  <2> DEFINE a == [Account(n) EXCEPT !.avatar = avatar]
  <2>1. a.avatar = avatar /\ a.open = TRUE
    BY DEF Account
  <2> HIDE DEF a
  <2>2. accounts = <<a>>
    BY <1>1 DEF a
  <2>3. QED
    BY <2>1, <2>2
<1>4. Idle.step = "idle"
  BY DEF Idle
<1>5. Numbered /\ Owned /\ Served
  BY <1>1, <1>2, <1>3 DEF Numbered, Owned, Served, Shown, NoAvatar, Foreign
<1>6. Unshared /\ \A q \in Requests : Handles(request[q], accounts, bucket, orphans, broken, objects)
  BY <1>2, <1>4 DEF Unshared, Handles, Picturing, Rewriting
<1>7. QED
  BY <1>5, <1>6 DEF Stored

LEMMA StoredImplies == Stored => ObjectsAreOwned /\ AvatarsResolve
<1>1. ASSUME Stored, NEW o \in bucket
      PROVE  o \in orphans \/ o \in InHand \/ \E u \in DOMAIN accounts : Picture(u) = o
  <2>1. CASE \E u \in DOMAIN accounts : Shown(u, o)
    BY <2>1 DEF Shown, Picture
  <2>2. CASE \E q \in Requests : Saving(q, o) \/ Dropping(q, o)
    BY <2>2 DEF Saving, Dropping, InHand
  <2>3. QED
    BY <1>1, <2>1, <2>2 DEF Stored, Owned
<1>2. Stored => AvatarsResolve
  BY DEF Stored, Served, AvatarsResolve, Clearing, Picture
<1>3. QED
  BY <1>1, <1>2 DEF ObjectsAreOwned

-----------------------------------------------------------------------------
(* Roles, and the bounds.                                                   *)

\* A request that will write the audit row alone, and that nobody raced, is right to.
Roles ==
    /\ AuditSaysRole
    /\ \A q \in Requests : request[q].step = "audit" /\ ~request[q].raced =>
           accounts[request[q].user].admin = request[q].flag

SameRole(u) == /\ accounts'[u].admin = accounts[u].admin /\ accounts'[u].audit = accounts[u].audit
               /\ accounts'[u].drifted = accounts[u].drifted
SameName(u) == accounts'[u].name = accounts[u].name /\ (accounts'[u].open => accounts[u].open)

LEMMA RowEdited ==
    ASSUME Sound, NEW u \in DOMAIN accounts, NEW a, accounts' = [accounts EXCEPT ![u] = a]
    PROVE  /\ DOMAIN accounts' = DOMAIN accounts
           /\ \A v \in DOMAIN accounts : accounts'[v] = IF v = u THEN a ELSE accounts[v]
<1>1. accounts \in [DOMAIN accounts -> Accs]
  BY LenProperties DEF Sound
<1>2. QED
  BY <1>1

\* What is written of an account without its name or its role.
LEMMA RowsKept ==
    ASSUME Sound, NEW q \in Requests,
           \/ ConfirmEmail(q) \/ ResetPassword(q)
           \/ SaveAvatar(q) \/ ClearAvatar(q) \/ SaveProfile(q) \/ Erase(q)
    PROVE  /\ DOMAIN accounts' = DOMAIN accounts
           /\ \A v \in DOMAIN accounts : SameName(v) /\ SameRole(v)
           /\ \E s, u : (Goto(q, s) \/ CommitOn(u, q, s)) /\ s.step \in {"idle", "drop"}
<1> DEFINE r == request[q]
           u == r.user
           row == accounts[u]
           s == [r EXCEPT !.step = "drop"]
<1>1. r.step \in {"verify", "reset", "save", "clear", "profile", "erase"}
  BY DEF ConfirmEmail, ResetPassword, SaveAvatar, ClearAvatar, SaveProfile, Erase
<1>2. u \in DOMAIN accounts /\ row \in Accs /\ r \in Reqs
  BY <1>1, Known DEF Refers
<1>3. Idle.step = "idle" /\ s.step = "drop"
  BY <1>2 DEF Idle, Reqs
<1> HIDE DEF s
<1>4. CASE ~row.open \/ (accounts' = accounts /\ Goto(q, Idle))
  <2>1. accounts' = accounts /\ Goto(q, Idle)
    BY <1>4 DEF ConfirmEmail, ResetPassword, SaveAvatar, ClearAvatar, SaveProfile, Erase, tables
  <2>2. QED
    BY <1>3, <2>1 DEF SameName, SameRole
<1>5. ASSUME NEW a, accounts' = [accounts EXCEPT ![u] = a], a.name = row.name, a.open => row.open,
             a.admin = row.admin, a.audit = row.audit, a.drifted = row.drifted
      PROVE  /\ DOMAIN accounts' = DOMAIN accounts
             /\ \A v \in DOMAIN accounts : SameName(v) /\ SameRole(v)
  <2> HIDE DEF u
  <2>1. /\ DOMAIN accounts' = DOMAIN accounts
        /\ \A v \in DOMAIN accounts : accounts'[v] = IF v = u THEN a ELSE accounts[v]
    BY <1>2, <1>5, RowEdited
  <2>2. QED
    BY <1>5, <2>1 DEF SameName, SameRole
<1>6. CASE row.open /\ ConfirmEmail(q)
  <2> DEFINE a == [row EXCEPT !.verified = TRUE]
  <2>1. accounts' = [accounts EXCEPT ![u] = a] /\ CommitOn(u, q, Idle)
    BY <1>6 DEF ConfirmEmail
  <2>2. a.name = row.name /\ a.open = row.open /\ a.admin = row.admin /\ a.audit = row.audit
        /\ a.drifted = row.drifted
    BY <1>2 DEF Accs
  <2> HIDE DEF a
  <2>3. QED
    BY <1>3, <1>5, <2>1, <2>2
<1>7. CASE row.open /\ ResetPassword(q)
  <2> DEFINE a == [row EXCEPT !.password = @ + 1]
  <2>1. accounts' = [accounts EXCEPT ![u] = a] /\ CommitOn(u, q, Idle)
    BY <1>7 DEF ResetPassword
  <2>2. a.name = row.name /\ a.open = row.open /\ a.admin = row.admin /\ a.audit = row.audit
        /\ a.drifted = row.drifted
    BY <1>2 DEF Accs
  <2> HIDE DEF a
  <2>3. QED
    BY <1>3, <1>5, <2>1, <2>2
<1>8. CASE row.open /\ (SaveAvatar(q) \/ ClearAvatar(q) \/ SaveProfile(q))
           /\ ~(accounts' = accounts /\ Goto(q, Idle))
  <2>1. \E avatar : accounts' = [accounts EXCEPT ![u].avatar = avatar]
    BY <1>8 DEF SaveAvatar, ClearAvatar, SaveProfile
  <2>2. CommitOn(u, q, Idle) \/ CommitOn(u, q, s)
    BY <1>8 DEF SaveAvatar, ClearAvatar, SaveProfile, s
  <2>3. PICK avatar : accounts' = [accounts EXCEPT ![u].avatar = avatar]
    BY <2>1
  <2> DEFINE a == [row EXCEPT !.avatar = avatar]
  <2>4. accounts' = [accounts EXCEPT ![u] = a]
    BY <2>3
  <2>5. a.name = row.name /\ a.open = row.open /\ a.admin = row.admin /\ a.audit = row.audit
        /\ a.drifted = row.drifted
    BY <1>2 DEF Accs
  <2> HIDE DEF a
  <2>6. QED
    BY <1>3, <1>5, <2>2, <2>4, <2>5
<1>9. CASE row.open /\ Erase(q)
  <2> DEFINE a == [row EXCEPT !.open = FALSE]
  <2>1. accounts' = [accounts EXCEPT ![u] = a] /\ CommitOn(u, q, s)
    BY <1>9 DEF Erase, s
  <2>2. a.name = row.name /\ a.admin = row.admin /\ a.audit = row.audit /\ a.drifted = row.drifted
    BY <1>2 DEF Accs
  <2> HIDE DEF a
  <2>3. QED
    BY <1>3, <1>5, <1>9, <2>1, <2>2
<1>10. QED
  BY <1>4, <1>6, <1>7, <1>8, <1>9

\* Registration: a row more, of a name that nobody open has.
LEMMA RowAdded ==
    ASSUME Sound, NEW q \in Requests, InsertUser(q)
    PROVE  /\ Goto(q, Idle) /\ Idle.step = "idle"
           /\ DOMAIN accounts \subseteq DOMAIN accounts'
           /\ \A v \in DOMAIN accounts : accounts'[v] = accounts[v]
           /\ \A v \in DOMAIN accounts' \ DOMAIN accounts :
                  /\ accounts'[v] = Account(request[q].key)
                  /\ accounts'[v].name = request[q].key /\ Named(request[q].key) = {}
                  /\ accounts'[v].audit = accounts'[v].admin
           /\ \A v, w \in DOMAIN accounts' \ DOMAIN accounts : v = w
           /\ accounts' = accounts \/ Len(accounts') = Len(accounts) + 1
           /\ Len(accounts) < MaxAccounts
<1> DEFINE n == request[q].key
<1>1. /\ Goto(q, Idle) /\ Len(accounts) < MaxAccounts
      /\ \/ accounts' = accounts
         \/ Named(n) = {} /\ accounts' = Append(accounts, Account(n))
  BY DEF InsertUser
<1>2. Account(n).name = n /\ Account(n).audit = Account(n).admin /\ Idle.step = "idle"
  BY DEF Account, Idle
<1>3. CASE accounts' = accounts
  BY <1>1, <1>2, <1>3
<1>4. CASE accounts' # accounts
  <2>1. Named(n) = {} /\ accounts' = Append(accounts, Account(n))
    BY <1>1, <1>4
  <2>2. accounts \in Seq(Accs)
    BY DEF Sound
  <2>3. /\ Len(accounts') = Len(accounts) + 1
        /\ \A v \in DOMAIN accounts : v \in DOMAIN accounts' /\ accounts'[v] = accounts[v]
        /\ \A v \in DOMAIN accounts' \ DOMAIN accounts : accounts'[v] = Account(n)
    BY <2>1, <2>2, AppendedRow
  <2>4. \A v, w \in DOMAIN accounts' \ DOMAIN accounts : v = w
    BY <2>1, <2>2, OneMore
  <2>5. QED
    BY <1>1, <1>2, <2>1, <2>3, <2>4
<1>5. QED
  BY <1>3, <1>4

LEMMA RolesAside ==
    ASSUME Sound, Roles, DOMAIN accounts \subseteq DOMAIN accounts',
           \A v \in DOMAIN accounts : SameRole(v),
           \A v \in DOMAIN accounts' \ DOMAIN accounts : accounts'[v].audit = accounts'[v].admin,
           \A p \in Requests : \/ Same(request[p], request'[p])
                               \/ request'[p].step # "audit"
                               \/ accounts' = accounts /\ Right(request'[p])
    PROVE  Roles'
<1>1. AuditSaysRole'
  BY DEF Roles, AuditSaysRole, SameRole
<1>2. ASSUME NEW p \in Requests, request'[p].step = "audit", ~request'[p].raced
      PROVE  accounts'[request'[p].user].admin = request'[p].flag
  <2>1. CASE Same(request[p], request'[p])
    <3>1. /\ request[p].step = "audit" /\ ~request[p].raced /\ request'[p].user = request[p].user
          /\ request'[p].flag = request[p].flag
      BY <1>2, <2>1 DEF Same
    <3>2. request[p].user \in DOMAIN accounts
      BY <3>1, Known DEF Refers
    <3>3. QED
      BY <3>1, <3>2 DEF Roles, SameRole
  <2>2. CASE accounts' = accounts /\ Right(request'[p])
    BY <1>2, <2>2 DEF Right
  <2>3. QED
    BY <1>2, <2>1, <2>2
<1>3. QED
  BY <1>1, <1>2 DEF Roles

LEMMA RoleSet ==
    ASSUME Sound, Roles, NEW q \in Requests, SetRole(q)
    PROVE  Roles' /\ DOMAIN accounts' = DOMAIN accounts /\ \A v \in DOMAIN accounts : SameName(v)
<1> DEFINE r == request[q]
           u == r.user
           row == accounts[u]
<1>1. r.step \in {"role", "audit"}
  BY DEF SetRole
<1>2. u \in DOMAIN accounts /\ row \in Accs /\ r \in Reqs /\ Idle.step # "audit"
  BY <1>1, Known DEF Refers, Idle
<1>3. CASE ~row.open
  <2>1. accounts' = accounts /\ Goto(q, Idle)
    BY <1>3 DEF SetRole
  <2>2. \A p \in Requests : Same(request[p], request'[p]) \/ request'[p].step # "audit"
    BY <1>2, <2>1, AfterGoto
  <2>3. QED
    BY <2>1, <2>2, RolesAside DEF SameRole, SameName
<1>4. CASE row.open
  <2> DEFINE admin == IF r.step = "role" THEN r.flag ELSE row.admin
             drifted == row.drifted \/ r.raced
             a == [row EXCEPT !.admin = admin, !.audit = r.flag, !.drifted = drifted]
  <2>1. accounts' = [accounts EXCEPT ![u] = a] /\ CommitOn(u, q, Idle)
    BY <1>4 DEF SetRole
  <2>2. r.raced \/ r.flag = admin
    BY <1>1 DEF Roles
  <2>3. drifted \in BOOLEAN /\ (drifted \/ r.flag = admin)
    BY <2>2
  <2> HIDE DEF admin, drifted
  <2>4. a.name = row.name /\ a.open = row.open /\ a.admin = admin /\ a.audit = r.flag /\ a.drifted = drifted
    BY <1>2 DEF Accs
  <2>5. a.drifted \/ a.audit = a.admin
    BY <2>3, <2>4
  <2> HIDE DEF a, u
  <2>6. /\ DOMAIN accounts' = DOMAIN accounts
        /\ \A v \in DOMAIN accounts : accounts'[v] = IF v = u THEN a ELSE accounts[v]
    BY <1>2, <2>1, RowEdited
  <2>7. \A v \in DOMAIN accounts : SameName(v)
    BY <2>4, <2>6 DEF SameName
  <2>8. AuditSaysRole'
    BY <2>5, <2>6 DEF Roles, AuditSaysRole
  <2>9. ASSUME NEW p \in Requests, request'[p].step = "audit", ~request'[p].raced
        PROVE  accounts'[request'[p].user].admin = request'[p].flag
    <3>1. /\ p # q /\ Same(request[p], request'[p])
          /\ request[p].step # "idle" /\ request[p].user = u => request'[p].raced
      BY <1>2, <2>1, <2>9, AfterCommit
    <3>2. /\ request[p].step = "audit" /\ ~request[p].raced /\ request'[p].user = request[p].user
          /\ request'[p].flag = request[p].flag /\ request[p].user # u
      BY <2>9, <3>1 DEF Same
    <3>3. request[p].user \in DOMAIN accounts
      BY <3>2, Known DEF Refers
    <3>4. QED
      BY <2>6, <3>2, <3>3 DEF Roles
  <2>10. QED
    BY <2>6, <2>7, <2>8, <2>9 DEF Roles
<1>5. QED
  BY <1>3, <1>4

\* The steps that write no row of an account and hold a picture.
LEMMA ObjectMoves ==
    ASSUME Sound, NEW q \in Requests,
           Authenticate(q) \/ PutObject(q) \/ DropOld(q) \/ DropFirst(q) \/ Crash(q)
    PROVE  /\ UNCHANGED accounts
           /\ \A p \in Requests : Same(request[p], request'[p]) \/ request'[p].step # "audit"
<1> DEFINE r == request[q]
<1>1. ASSUME NEW s, Goto(q, s), s.step # "audit"
      PROVE  \A p \in Requests : Same(request[p], request'[p]) \/ request'[p].step # "audit"
  BY <1>1, AfterGoto
<1>2. Idle.step # "audit" /\ r \in Reqs
  BY Known DEF Idle
<1>3. CASE Authenticate(q)
  <2>1. PICK u \in Admitted, step \in {"put", "drop_first", "profile", "erase"} :
           Goto(q, [Idle EXCEPT !.step = step, !.user = u, !.previous = accounts[u].avatar])
    BY <1>3 DEF Authenticate, Arrive
  <2> DEFINE s == [Idle EXCEPT !.step = step, !.user = u, !.previous = accounts[u].avatar]
  <2>2. s.step # "audit"
    BY DEF Idle
  <2>3. UNCHANGED accounts
    BY <1>3 DEF Authenticate, tables
  <2> HIDE DEF s
  <2>4. Goto(q, s)
    BY <2>1 DEF s
  <2>5. QED
    BY <1>1, <2>2, <2>3, <2>4
<1>4. CASE PutObject(q)
  <2> DEFINE s == [r EXCEPT !.step = "save", !.key = objects']
  <2>1. s.step # "audit"
    BY <1>2 DEF Reqs
  <2> HIDE DEF s
  <2>2. UNCHANGED accounts /\ (Goto(q, Idle) \/ Goto(q, s))
    BY <1>4 DEF PutObject, tables, s
  <2>3. QED
    BY <1>1, <1>2, <2>1, <2>2
<1>5. CASE DropFirst(q)
  <2> DEFINE s == [r EXCEPT !.step = "clear"]
  <2>1. s.step # "audit"
    BY <1>2 DEF Reqs
  <2> HIDE DEF s
  <2>2. UNCHANGED accounts /\ Goto(q, s)
    BY <1>5 DEF DropFirst, tables, s
  <2>3. QED
    BY <1>1, <2>1, <2>2
<1>6. CASE DropOld(q) \/ Crash(q)
  <2>1. UNCHANGED accounts /\ Goto(q, Idle)
    BY <1>6 DEF DropOld, Crash, tables
  <2>2. QED
    BY <1>1, <1>2, <2>1
<1>7. QED
  BY <1>3, <1>4, <1>5, <1>6

LEMMA RolesKept ==
    ASSUME Sound, Roles, Stored, [Next]_vars
    PROVE  Roles'
<1>1. ASSUME NEW q \in Requests, Step(q) \/ Crash(q) PROVE Roles'
  <2>1. CASE \/ Register(q) \/ Login(q) \/ IssueSession(q) \/ ReadSession(q) \/ ReadOwner(q)
             \/ Rotate(q) \/ RevokeAll(q) \/ ReadOwnSession(q) \/ Logout(q)
             \/ AskLink(q) \/ InsertLink(q) \/ SendMail(q) \/ ReadLink(q) \/ ReadTarget(q)
    <3>1. UNCHANGED accounts /\ Moving(q)
      BY <2>1, SessionMoves
    <3>2. PICK s, u : (Goto(q, s) \/ CommitOn(u, q, s)) /\ Right(s)
      BY <3>1 DEF Moving
    <3>3. \A p \in Requests : Same(request[p], request'[p]) \/ Right(request'[p])
      BY <3>2, AfterGoto, AfterCommit
    <3>4. QED
      BY <3>1, <3>3, RolesAside DEF SameRole
  <2>2. CASE \/ ConfirmEmail(q) \/ ResetPassword(q)
             \/ SaveAvatar(q) \/ ClearAvatar(q) \/ SaveProfile(q) \/ Erase(q)
    <3>1. /\ DOMAIN accounts' = DOMAIN accounts /\ \A v \in DOMAIN accounts : SameRole(v)
          /\ \E s, u : (Goto(q, s) \/ CommitOn(u, q, s)) /\ s.step \in {"idle", "drop"}
      BY <2>2, RowsKept
    <3>2. PICK s, u : (Goto(q, s) \/ CommitOn(u, q, s)) /\ s.step # "audit"
      BY <3>1
    <3>3. \A p \in Requests : Same(request[p], request'[p]) \/ request'[p].step # "audit"
      BY <3>2, AfterGoto, AfterCommit
    <3>4. QED
      BY <3>1, <3>3, RolesAside
  <2>3. CASE InsertUser(q)
    <3>1. /\ Goto(q, Idle) /\ Idle.step # "audit" /\ DOMAIN accounts \subseteq DOMAIN accounts'
          /\ \A v \in DOMAIN accounts : SameRole(v)
          /\ \A v \in DOMAIN accounts' \ DOMAIN accounts : accounts'[v].audit = accounts'[v].admin
      BY <2>3, RowAdded DEF SameRole
    <3>2. \A p \in Requests : Same(request[p], request'[p]) \/ request'[p].step # "audit"
      BY <3>1, AfterGoto
    <3>3. QED
      BY <3>1, <3>2, RolesAside
  <2>4. CASE Authenticate(q) \/ PutObject(q) \/ DropOld(q) \/ DropFirst(q) \/ Crash(q)
    BY <2>4, ObjectMoves, RolesAside DEF SameRole
  <2>5. QED
    BY <1>1, <2>1, <2>2, <2>3, <2>4, RoleSet DEF Step
<1>2. ASSUME NEW u \in DOMAIN accounts, SetBanned(u) PROVE Roles'
  BY <1>2, BanAside, RolesAside DEF SameRole
<1>3. CASE Tick \/ UNCHANGED vars
  <2>1. UNCHANGED <<accounts, request>>
    BY <1>3 DEF Tick, vars, tables
  <2>2. QED
    BY <2>1 DEF Roles, AuditSaysRole
<1>4. QED
  BY <1>1, <1>2, <1>3 DEF Next

LEMMA RolesInit == Init => Roles
<1> SUFFICES ASSUME Init PROVE Roles
  OBVIOUS
<1>1. PICK n \in Names, avatar \in {NoAvatar, 1} :
         accounts = <<[Account(n) EXCEPT !.avatar = avatar]>>
  BY DEF Init
<1> DEFINE a == [Account(n) EXCEPT !.avatar = avatar]
<1>2. a.audit = a.admin
  BY DEF Account
<1> HIDE DEF a
<1>3. accounts = <<a>> /\ \A q \in Requests : request[q] = Idle
  BY <1>1 DEF a, Init
<1>4. QED
  BY <1>2, <1>3 DEF Roles, AuditSaysRole, Idle

-----------------------------------------------------------------------------
\* Room for what the initial state holds.
Bounds == /\ MaxAccounts \in Nat \ {0} /\ MaxSessions \in Nat \ {0} /\ MaxObjects \in Nat \ {0}
          /\ MaxLinks \in Nat \ {0, 1} /\ MaxRequests \in Nat /\ LastTick \in Nat

OneName == \A u, v \in Open : accounts[u].name = accounts[v].name => u = v

Bounded ==
    /\ now \in 0 .. LastTick /\ begun \in 0 .. MaxRequests /\ objects =< MaxObjects
    /\ Len(accounts) =< MaxAccounts /\ Len(sessions) =< MaxSessions /\ Len(links) =< MaxLinks
    /\ OneName

LEMMA AsLong ==
    ASSUME NEW T, NEW S \in Seq(T), NEW S2 \in Seq(T), DOMAIN S2 = DOMAIN S
    PROVE  Len(S2) = Len(S)
<1>1. Len(S) \in Nat /\ Len(S2) \in Nat /\ 1 .. Len(S2) = 1 .. Len(S)
  BY LenProperties
<1>2. QED
  BY <1>1

\* What a step does to the counters and the lengths.
Grows == /\ UNCHANGED begun \/ (begun < MaxRequests /\ begun' = begun + 1)
         /\ UNCHANGED objects \/ (objects < MaxObjects /\ objects' = objects + 1)
         /\ DOMAIN accounts' = DOMAIN accounts
               \/ (Len(accounts) < MaxAccounts /\ Len(accounts') = Len(accounts) + 1)
         /\ DOMAIN sessions' = DOMAIN sessions
               \/ (Len(sessions) < MaxSessions /\ Len(sessions') = Len(sessions) + 1)
         /\ DOMAIN links' = DOMAIN links
               \/ (Len(links) < MaxLinks /\ Len(links') = Len(links) + 1)

LEMMA GrowsWithin ==
    ASSUME Bounds, Sound, Sound', Bounded, Grows
    PROVE  /\ begun' \in 0 .. MaxRequests /\ objects' =< MaxObjects
           /\ Len(accounts') =< MaxAccounts /\ Len(sessions') =< MaxSessions /\ Len(links') =< MaxLinks
<1>1. /\ accounts \in Seq(Accs) /\ sessions \in Seq(Sess) /\ links \in Seq(Lnks) /\ objects \in Nat
      /\ accounts' \in Seq(Accs) /\ sessions' \in Seq(Sess) /\ links' \in Seq(Lnks)
  BY DEF Sound, SessionsOK, LinksOK
<1>2. Len(accounts) \in Nat /\ Len(sessions) \in Nat /\ Len(links) \in Nat
  BY <1>1, LenProperties
<1>3. begun' \in 0 .. MaxRequests /\ objects' =< MaxObjects
  BY <1>1 DEF Bounds, Bounded, Grows
<1>4. Len(accounts') =< MaxAccounts
  <2>1. CASE DOMAIN accounts' = DOMAIN accounts
    BY <1>1, <2>1, AsLong DEF Bounded
  <2>2. CASE Len(accounts) < MaxAccounts /\ Len(accounts') = Len(accounts) + 1
    BY <1>2, <2>2 DEF Bounds
  <2>3. QED
    BY <2>1, <2>2 DEF Grows
<1>5. Len(sessions') =< MaxSessions
  <2>1. CASE DOMAIN sessions' = DOMAIN sessions
    BY <1>1, <2>1, AsLong DEF Bounded
  <2>2. CASE Len(sessions) < MaxSessions /\ Len(sessions') = Len(sessions) + 1
    BY <1>2, <2>2 DEF Bounds
  <2>3. QED
    BY <2>1, <2>2 DEF Grows
<1>6. Len(links') =< MaxLinks
  <2>1. CASE DOMAIN links' = DOMAIN links
    BY <1>1, <2>1, AsLong DEF Bounded
  <2>2. CASE Len(links) < MaxLinks /\ Len(links') = Len(links) + 1
    BY <1>2, <2>2 DEF Bounds
  <2>3. QED
    BY <2>1, <2>2 DEF Grows
<1>7. QED
  BY <1>3, <1>4, <1>5, <1>6

LEMMA NamesKept ==
    ASSUME OneName, DOMAIN accounts' = DOMAIN accounts, \A v \in DOMAIN accounts : SameName(v)
    PROVE  OneName'
BY DEF OneName, SameName, Open

LEMMA GrowsBySessions ==
    ASSUME Sound, NEW q \in Requests,
           \/ Register(q) \/ Login(q) \/ IssueSession(q) \/ ReadSession(q) \/ ReadOwner(q)
           \/ Rotate(q) \/ RevokeAll(q) \/ ReadOwnSession(q) \/ Logout(q)
           \/ AskLink(q) \/ InsertLink(q) \/ SendMail(q) \/ ReadLink(q) \/ ReadTarget(q)
    PROVE  Grows /\ now' = now
<1>1. /\ sessions \in Seq(Sess) /\ links \in Seq(Lnks)
      /\ UNCHANGED accounts /\ UNCHANGED objects
  BY Known, SessionMoves DEF storage
<1>2. CASE UNCHANGED <<sessions, links, now>> /\ (UNCHANGED begun \/ (begun < MaxRequests /\ begun' = begun + 1))
  BY <1>1, <1>2 DEF Grows
<1>3. CASE Register(q) \/ Login(q) \/ ReadSession(q) \/ ReadOwnSession(q)
  BY <1>2, <1>3 DEF Register, Login, ReadSession, ReadOwnSession, Arrive, tables
<1>4. CASE AskLink(q) \/ ReadLink(q) \/ ReadTarget(q)
  BY <1>2, <1>4 DEF AskLink, ReadLink, ReadTarget, Arrive, tables
<1>5. CASE ReadOwner(q)
  BY <1>2, <1>5 DEF ReadOwner, tables
<1>6. CASE IssueSession(q)
  <2>1. /\ UNCHANGED <<links, begun, now>> /\ Len(sessions) < MaxSessions
        /\ sessions' = sessions \/ \E e : sessions' = Append(sessions, e)
    BY <1>6 DEF IssueSession
  <2>2. QED
    BY <1>1, <2>1, AppendedRow DEF Grows
<1>7. CASE Rotate(q)
  <2> DEFINE S == [sessions EXCEPT ![request[q].key].revoked = TRUE]
  <2>1. /\ UNCHANGED <<links, begun, now>> /\ Len(sessions) < MaxSessions
        /\ sessions' = sessions \/ \E e : sessions' = Append(S, e)
    BY <1>7 DEF Rotate
  <2>2. S \in Seq(Sess) /\ Len(S) = Len(sessions)
    <3>1. request[q].step = "rotate"
      BY <1>7 DEF Rotate
    <3>2. request[q].key \in DOMAIN sessions /\ sessions[request[q].key] \in Sess
      BY <3>1, Known DEF Refers
    <3>3. [sessions[request[q].key] EXCEPT !.revoked = TRUE] \in Sess
      BY <3>2 DEF Sess
    <3>4. S = [sessions EXCEPT ![request[q].key] = [sessions[request[q].key] EXCEPT !.revoked = TRUE]]
      OBVIOUS
    <3> HIDE DEF S
    <3>5. S \in Seq(Sess)
      BY <1>1, <3>2, <3>3, <3>4, ExceptSeq
    <3>6. DOMAIN S = DOMAIN sessions
      BY <3>4
    <3>7. QED
      BY <1>1, <3>5, <3>6, AsLong
  <2> HIDE DEF S
  <2>3. QED
    BY <1>1, <2>1, <2>2, AppendedRow DEF Grows
<1>8. CASE RevokeAll(q) \/ Logout(q)
  <2>1. UNCHANGED <<links, begun, now>>
    BY <1>8 DEF RevokeAll, Logout
  <2>2. DOMAIN sessions' = DOMAIN sessions
    BY <1>8 DEF RevokeAll, Logout, Revoked
  <2>3. QED
    BY <1>1, <2>1, <2>2 DEF Grows
<1>9. CASE InsertLink(q)
  <2>1. /\ UNCHANGED <<sessions, begun, now>> /\ Len(links) < MaxLinks
        /\ links' = links \/ \E e : links' = Append(links, e)
    BY <1>9 DEF InsertLink
  <2>2. QED
    BY <1>1, <2>1, AppendedRow DEF Grows
<1>10. CASE SendMail(q)
  <2>1. UNCHANGED <<sessions, begun, now>>
    BY <1>10 DEF SendMail
  <2>2. DOMAIN links' = DOMAIN links
    BY <1>10 DEF SendMail
  <2>3. QED
    BY <1>1, <2>1, <2>2 DEF Grows
<1>11. QED
  BY <1>3, <1>4, <1>5, <1>6, <1>7, <1>8, <1>9, <1>10

LEMMA GrowsByRows ==
    ASSUME Sound, NEW q \in Requests, DOMAIN accounts' = DOMAIN accounts,
           \/ ConfirmEmail(q) \/ ResetPassword(q) \/ SetRole(q)
           \/ SaveAvatar(q) \/ ClearAvatar(q) \/ SaveProfile(q) \/ Erase(q)
    PROVE  Grows /\ now' = now
<1>1. UNCHANGED <<objects, begun, now>>
  BY DEF ConfirmEmail, ResetPassword, SetRole, SaveAvatar, ClearAvatar, SaveProfile, Erase, storage
<1>2. CASE SetRole(q) \/ SaveAvatar(q) \/ ClearAvatar(q) \/ SaveProfile(q) \/ Erase(q)
  BY <1>1, <1>2 DEF Grows, SetRole, SaveAvatar, ClearAvatar, SaveProfile, Erase
<1>3. DOMAIN Consumed(q) = DOMAIN links /\ DOMAIN Revoked(request[q].user) = DOMAIN sessions
  BY DEF Consumed, Revoked
<1>4. CASE ConfirmEmail(q)
  <2>1. UNCHANGED sessions /\ (links' = links \/ links' = Consumed(q))
    BY <1>4 DEF ConfirmEmail
  <2>2. QED
    BY <1>1, <1>3, <2>1 DEF Grows
<1>5. CASE ResetPassword(q)
  <2>1. /\ links' = links \/ links' = Consumed(q)
        /\ sessions' = sessions \/ sessions' = Revoked(request[q].user)
    BY <1>5 DEF ResetPassword, tables
  <2>2. QED
    BY <1>1, <1>3, <2>1 DEF Grows
<1>6. QED
  BY <1>2, <1>4, <1>5

LEMMA BoundedKept ==
    ASSUME Bounds, Sound, Sound', Stored, Roles, Bounded, [Next]_vars
    PROVE  Bounded'
<1>1. ASSUME Grows, now' \in 0 .. LastTick, OneName' PROVE Bounded'
  BY <1>1, GrowsWithin DEF Bounded
<1>2. ASSUME DOMAIN accounts' = DOMAIN accounts, \A v \in DOMAIN accounts : SameName(v)
      PROVE  OneName'
  BY <1>2, NamesKept DEF Bounded
<1>3. UNCHANGED accounts => DOMAIN accounts' = DOMAIN accounts /\ \A v \in DOMAIN accounts : SameName(v)
  BY DEF SameName
<1>4. ASSUME NEW q \in Requests, Step(q) \/ Crash(q) PROVE Bounded'
  <2>1. CASE \/ Register(q) \/ Login(q) \/ IssueSession(q) \/ ReadSession(q) \/ ReadOwner(q)
             \/ Rotate(q) \/ RevokeAll(q) \/ ReadOwnSession(q) \/ Logout(q)
             \/ AskLink(q) \/ InsertLink(q) \/ SendMail(q) \/ ReadLink(q) \/ ReadTarget(q)
    <3>1. Grows /\ now' = now
      BY <2>1, GrowsBySessions
    <3>2. UNCHANGED accounts
      BY <2>1, SessionMoves
    <3>3. QED
      BY <1>1, <1>2, <1>3, <3>1, <3>2 DEF Bounded
  <2>2. CASE \/ ConfirmEmail(q) \/ ResetPassword(q)
             \/ SaveAvatar(q) \/ ClearAvatar(q) \/ SaveProfile(q) \/ Erase(q)
    <3>1. DOMAIN accounts' = DOMAIN accounts /\ \A v \in DOMAIN accounts : SameName(v)
      BY <2>2, RowsKept
    <3>2. Grows /\ now' = now
      BY <2>2, <3>1, GrowsByRows
    <3>3. QED
      BY <1>1, <1>2, <3>1, <3>2 DEF Bounded
  <2>3. CASE SetRole(q)
    <3>1. DOMAIN accounts' = DOMAIN accounts /\ \A v \in DOMAIN accounts : SameName(v)
      BY <2>3, RoleSet
    <3>2. Grows /\ now' = now
      BY <2>3, <3>1, GrowsByRows
    <3>3. QED
      BY <1>1, <1>2, <3>1, <3>2 DEF Bounded
  <2>4. CASE InsertUser(q)
    <3>1. UNCHANGED <<now, sessions, links, begun, objects>>
      BY <2>4 DEF InsertUser, storage
    <3>2. accounts' = accounts \/ Len(accounts') = Len(accounts) + 1
      BY <2>4, RowAdded
    <3>3. Grows
      BY <2>4, <3>1, <3>2, RowAdded DEF Grows
    <3>4. OneName'
      <4> DEFINE n == request[q].key
      <4>1. /\ DOMAIN accounts \subseteq DOMAIN accounts'
            /\ \A v \in DOMAIN accounts : accounts'[v] = accounts[v]
            /\ \A v \in DOMAIN accounts' \ DOMAIN accounts : accounts'[v].name = n /\ Named(n) = {}
            /\ \A v, w \in DOMAIN accounts' \ DOMAIN accounts : v = w
        BY <2>4, RowAdded
      <4>2. ASSUME NEW v \in DOMAIN accounts', NEW w \in DOMAIN accounts', accounts'[v].open, accounts'[w].open,
                   accounts'[v].name = accounts'[w].name
            PROVE  v = w
        <5>1. CASE v \in DOMAIN accounts /\ w \in DOMAIN accounts
          BY <4>1, <4>2, <5>1 DEF Bounded, OneName, Open
        <5>2. CASE v \notin DOMAIN accounts /\ w \in DOMAIN accounts
          <6>1. w \in Named(n)
            BY <4>1, <4>2, <5>2 DEF Named, Open
          <6>2. QED
            BY <4>1, <5>2, <6>1
        <5>3. CASE v \in DOMAIN accounts /\ w \notin DOMAIN accounts
          <6>1. v \in Named(n)
            BY <4>1, <4>2, <5>3 DEF Named, Open
          <6>2. QED
            BY <4>1, <5>3, <6>1
        <5>4. QED
          BY <4>1, <5>1, <5>2, <5>3
      <4>3. QED
        BY <4>2 DEF OneName, Open
    <3>5. QED
      BY <1>1, <3>1, <3>3, <3>4 DEF Bounded
  <2>5. CASE Authenticate(q) \/ PutObject(q) \/ DropOld(q) \/ DropFirst(q) \/ Crash(q)
    <3>1. UNCHANGED accounts
      BY <2>5, ObjectMoves
    <3>2. /\ UNCHANGED <<now, sessions, links>>
          /\ UNCHANGED begun \/ (begun < MaxRequests /\ begun' = begun + 1)
          /\ UNCHANGED objects \/ (objects < MaxObjects /\ objects' = objects + 1)
      BY <2>5 DEF Authenticate, Arrive, PutObject, DropOld, DropFirst, Crash, tables, storage
    <3>3. Grows
      BY <3>1, <3>2 DEF Grows
    <3>4. QED
      BY <1>1, <1>2, <1>3, <3>1, <3>2, <3>3 DEF Bounded
  <2>6. QED
    BY <1>4, <2>1, <2>2, <2>3, <2>4, <2>5 DEF Step
<1>5. ASSUME NEW u \in DOMAIN accounts, SetBanned(u) PROVE Bounded'
  <2>1. DOMAIN accounts' = DOMAIN accounts /\ \A v \in DOMAIN accounts : SameName(v)
    BY <1>5, BanAside DEF SameName
  <2>2. Grows /\ now' = now
    BY <1>5, <2>1 DEF SetBanned, Grows, storage
  <2>3. QED
    BY <1>1, <1>2, <2>1, <2>2 DEF Bounded
<1>6. CASE Tick
  <2>1. UNCHANGED <<accounts, sessions, links, objects, begun>> /\ now' \in 0 .. LastTick
    BY <1>6 DEF Tick, tables, storage, Bounded, Bounds
  <2>2. QED
    BY <1>1, <1>2, <1>3, <2>1 DEF Grows
<1>7. CASE UNCHANGED vars
  <2>1. UNCHANGED <<accounts, sessions, links, objects, begun, now>>
    BY <1>7 DEF vars, tables, storage
  <2>2. QED
    BY <1>1, <1>2, <1>3, <2>1 DEF Grows, Bounded
<1>8. QED
  BY <1>4, <1>5, <1>6, <1>7 DEF Next

LEMMA BoundedInit ==
    ASSUME Bounds, Init
    PROVE  Bounded
<1>1. PICK n \in Names, avatar \in {NoAvatar, 1} :
         accounts = <<[Account(n) EXCEPT !.avatar = avatar]>> /\ objects = avatar
  BY DEF Init
<1> DEFINE a == [Account(n) EXCEPT !.avatar = avatar]
<1>2. accounts = <<a>>
  BY <1>1
<1> HIDE DEF a
<1>3. Len(accounts) = 1 /\ DOMAIN accounts = {1}
  BY <1>2
<1>4. Len(sessions) = 1
  <2> DEFINE s == Session(1, 1, 0, FALSE)
  <2>1. sessions = <<s>>
    BY DEF Init
  <2> HIDE DEF s
  <2>2. QED
    BY <2>1
<1>5. Len(links) = 2
  <2>1. DOMAIN links = 1 .. 2 /\ links = [k \in 1 .. 2 |-> links[k]]
    BY DEF Init
  <2>2. QED
    BY <2>1
<1>6. now = 0 /\ begun = 0 /\ objects \in {0, 1}
  BY <1>1 DEF Init, NoAvatar
<1>7. QED
  BY <1>3, <1>4, <1>5, <1>6 DEF Bounded, Bounds, OneName, Open

LEMMA BoundedImplies ==
    ASSUME Bounds, Sound, Stored, Bounded
    PROVE  TypeOK
<1>1. now \in 0 .. LastTick /\ begun \in 0 .. MaxRequests /\ objects \in 0 .. MaxObjects
  BY DEF Bounded, Bounds, Sound
<1>2. \A u \in DOMAIN accounts : accounts[u].name \in Names /\ accounts[u].avatar \in Foreign .. MaxObjects
  <2>1. \A u \in DOMAIN accounts : accounts[u] \in Accs /\ accounts[u].avatar \in Foreign .. objects
    BY Known DEF Stored, Numbered, Sound
  <2>2. QED
    BY <1>1, <2>1 DEF Accs, Foreign, Bounds
<1>3. \A t \in DOMAIN sessions : sessions[t].user \in DOMAIN accounts /\ sessions[t].parent \in 0 .. t - 1
  <2>1. sessions \in Seq(Sess) /\ \A t \in DOMAIN sessions : sessions[t].user \in DOMAIN accounts /\ sessions[t].parent < t
    BY DEF Sound, SessionsOK
  <2>2. \A t \in DOMAIN sessions : t \in Nat /\ sessions[t] \in Sess
    BY <2>1, LenProperties
  <2>3. QED
    BY <2>1, <2>2 DEF Sess
<1>4. \A k \in DOMAIN links : links[k].user \in DOMAIN accounts
  BY DEF Sound, LinksOK
<1>5. bucket \cup orphans \subseteq 1 .. MaxObjects
  BY <1>1 DEF Stored, Numbered, Bounds
<1>6. QED
  BY <1>1, <1>2, <1>3, <1>4, <1>5 DEF TypeOK, Bounded, OneName

(***************************************************************************)
(* Whatever requests overlap and wherever a process dies, the audit log    *)
(* says what the role is, what is in the bucket is somebody's avatar or in *)
(* the hands of a request, and the avatar of an account is there to be     *)
(* served - apart from what is recorded as lost.                           *)
(***************************************************************************)
THEOREM AccountsStayConsistent ==
    ASSUME SessionLife \in Nat, LinkLife \in Nat, Bounds
    PROVE  Spec => [](TypeOK /\ AuditSaysRole /\ ObjectsAreOwned /\ AvatarsResolve)
<1> DEFINE IInv == Sound /\ Stored /\ Roles /\ Bounded
<1>1. Init => IInv
  BY SoundInit, StoredInit, RolesInit, BoundedInit
<1>2. IInv /\ [Next]_vars => IInv'
  <2> SUFFICES ASSUME IInv, [Next]_vars PROVE IInv'
    OBVIOUS
  <2>1. Sound' /\ Stored' /\ Roles'
    BY SoundKept, StoredKept, RolesKept
  <2>2. QED
    BY <2>1, BoundedKept
<1>3. IInv => TypeOK /\ AuditSaysRole /\ ObjectsAreOwned /\ AvatarsResolve
  BY BoundedImplies, StoredImplies DEF Roles
<1>4. QED
  BY <1>1, <1>2, <1>3, PTL DEF Spec
=============================================================================
