------------------------------- MODULE Search -------------------------------
(***************************************************************************)
(* GET /v1/search: a page of the local catalog, and the fan-out to the      *)
(* source behind it (search/service.py, search/repository.py), which a      *)
(* sliding window per client (core/rate_limit.py) and a marker with a time  *)
(* to live (core/cache.py) hold back.  One query, one type; requests        *)
(* interleave where the code awaits, the two singletons are only touched    *)
(* between awaits.                                                          *)
(***************************************************************************)
EXTENDS Integers, Sequences, FiniteSets, FiniteSetsExt, SequencesExt

CONSTANTS
    Hits,           \* how many results the source has for the query, numbered by its ranking
    Locally,        \* those catalogued at the start
    Limit,          \* results per page, of the request
    FanoutPage,     \* _FANOUT_PAGE_SIZE
    Pages,          \* pages that are asked for
    Ttl,            \* _FANOUT_QUERY_CACHE_TTL_SECONDS
    Rate, Window,   \* RATE_LIMIT_SEARCH_FALLBACK
    Clients, Requests,
    LastTick,       \* bound on the clock
    MaxServed,      \* bound on requests
    MaxFaults       \* bound on details that fail

VARIABLES
    now,
    catalog,        \* the hits that are catalogued
    marker,         \* when the "checked" mark of the query expires
    hits,           \* the limiter's log of each client
    req,            \* the requests
    fanned,         \* history: the fan-outs, [client, at, full]
    served, faults

vars == <<now, catalog, marker, hits, req, fanned, served, faults>>

Idle == [step |-> "idle", client |-> "", page |-> 0, found |-> 0, whole |-> TRUE]

Init ==
    /\ now = 0
    /\ catalog = Locally
    /\ marker = 0
    /\ hits = [c \in Clients |-> <<>>]
    /\ req = [r \in Requests |-> Idle]
    /\ fanned = <<>>
    /\ served = 0
    /\ faults = 0

(***************************************************************************)
(* SearchRepository.search: OFFSET and LIMIT over a fixed order.            *)
(***************************************************************************)

OnPage(p) ==
    {h \in catalog : Cardinality({g \in catalog : g < h}) \div Limit = p - 1}

(***************************************************************************)
(* InMemoryRateLimiter and InMemoryTTLCache.                                *)
(***************************************************************************)

\* popleft, as long as the oldest hit has slid out of the window.
Expired(log, start) == {k \in DOMAIN log : \A j \in 1 .. k : log[j] =< start}
Since(log, start) == SubSeq(log, Cardinality(Expired(log, start)) + 1, Len(log))

\* A hit that is about to fall out of the window counts for nothing.
InWindowLoose(log) == Since(log, now - Window + 1)

InWindow(log) == Since(log, now - Window)

RetryAfterShort(log) == Max({1, log[1] + Window - now - 1})

RetryAfter(log) == Max({1, log[1] + Window - now})

Full(c) == Len(InWindow(hits[c])) >= Rate

Consume(c) == hits' = [hits EXCEPT ![c] = Append(InWindow(@), now)]

\* get: an entry is served as long as it has not expired.
CheckedRecently == now < marker

(***************************************************************************)
(* A request.                                                               *)
(***************************************************************************)

Ask(r, c, p) ==
    /\ req[r] = Idle
    /\ served < MaxServed
    /\ served' = served + 1
    /\ req' = [req EXCEPT ![r] = [Idle EXCEPT !.step = "decide", !.client = c, !.page = p,
                                              !.found = Cardinality(OnPage(p))]]
    /\ UNCHANGED <<now, catalog, marker, hits, fanned, faults>>

Incomplete(r) == req[r].found < Limit

ShouldFanOut(r) == Incomplete(r) \/ (req[r].page = 1 /\ ~CheckedRecently)

AnswerLocally(r) ==
    /\ req[r].step = "decide"
    /\ ~ShouldFanOut(r)
    /\ req' = [req EXCEPT ![r] = Idle]
    /\ UNCHANGED <<now, catalog, marker, hits, fanned, served, faults>>

\* 429: neither the log nor the marker learns of it.
Refuse(r) ==
    /\ req[r].step = "decide"
    /\ ShouldFanOut(r)
    /\ Full(req[r].client)
    /\ hits' = [hits EXCEPT ![req[r].client] = InWindow(@)]
    /\ req' = [req EXCEPT ![r] = Idle]
    /\ UNCHANGED <<now, catalog, marker, fanned, served, faults>>

\* The query is not marked.
MarkNever(r) == UNCHANGED marker

\* The query is marked before the source is asked.
Mark(r) == IF req[r].page = 1 THEN marker' = now + Ttl ELSE UNCHANGED marker

FanOut(r) ==
    /\ req[r].step = "decide"
    /\ ShouldFanOut(r)
    /\ ~Full(req[r].client)
    /\ Consume(req[r].client)
    /\ Mark(r)
    /\ fanned' = Append(fanned, [client |-> req[r].client, at |-> now,
                                 full |-> req[r].page = 1 /\ ~Incomplete(r)])
    /\ req' = [req EXCEPT ![r].step = "ingest"]
    /\ UNCHANGED <<now, catalog, served, faults>>

ExternalPageNext(p) == ((p - 1) * Limit) \div FanoutPage + 2

ExternalPage(p) == ((p - 1) * Limit) \div FanoutPage + 1

\* results[:limit] of the external page.
Candidates(p) ==
    LET first == (ExternalPage(p) - 1) * FanoutPage + 1
    IN  {h \in 1 .. Hits : h \in first .. first + FanoutPage - 1 /\ h < first + Limit}

\* Details that fail are left out; the rest is committed together.
Ingest(r) ==
    /\ req[r].step = "ingest"
    /\ \E lost \in {{}} \cup (IF faults < MaxFaults THEN SUBSET Candidates(req[r].page) ELSE {}) :
          /\ catalog' = catalog \cup (Candidates(req[r].page) \ lost)
          /\ faults' = IF lost = {} THEN faults ELSE faults + 1
          /\ req' = [req EXCEPT ![r].step = "answer", ![r].whole = lost = {}]
    /\ UNCHANGED <<now, marker, hits, fanned, served>>

Answer(r) ==
    /\ req[r].step = "answer"
    /\ req' = [req EXCEPT ![r] = Idle]
    /\ UNCHANGED <<now, catalog, marker, hits, fanned, served, faults>>

Tick ==
    /\ now < LastTick
    /\ now' = now + 1
    /\ UNCHANGED <<catalog, marker, hits, req, fanned, served, faults>>

Next ==
    \/ \E r \in Requests :
          \/ \E c \in Clients, p \in Pages : Ask(r, c, p)
          \/ AnswerLocally(r) \/ Refuse(r) \/ FanOut(r) \/ Ingest(r) \/ Answer(r)
    \/ Tick

Spec == Init /\ [][Next]_vars

(***************************************************************************)
(* Properties.                                                              *)
(***************************************************************************)

TypeOK ==
    /\ now \in 0 .. LastTick
    /\ catalog \subseteq 1 .. Hits
    /\ \A c \in Clients : Len(hits[c]) =< Rate /\ IsSorted(hits[c], <=)
    /\ served \in 0 .. MaxServed /\ faults \in 0 .. MaxFaults

(***************************************************************************)
(* However requests interleave, no client makes the service call the        *)
(* sources more than Rate times within any Window seconds.                  *)
(***************************************************************************)
SourcesAreShielded ==
    \A c \in Clients, t \in 0 .. LastTick :
        Cardinality({k \in DOMAIN fanned :
                        fanned[k].client = c /\ fanned[k].at \in t .. t + Window - 1}) =< Rate

(***************************************************************************)
(* Retry-After is honest: a refused client that comes back when it says     *)
(* finds a free slot, unless it used it up in the meantime.                 *)
(***************************************************************************)
RetryAfterIsHonest ==
    \A c \in Clients : Full(c) =>
        LET log == InWindow(hits[c])
            back == now + RetryAfter(log)
        IN  Cardinality({k \in DOMAIN log : log[k] > back - Window}) < Rate

(***************************************************************************)
(* A burst of first pages that are full locally asks the sources once per   *)
(* time to live, also when the requests overlap.                            *)
(***************************************************************************)
BurstFansOutOnce ==
    \A j, k \in DOMAIN fanned :
        j < k /\ fanned[j].full /\ fanned[k].full => fanned[k].at - fanned[j].at >= Ttl

(***************************************************************************)
(* A fan-out that lost nothing leaves the hits of the page it was asked     *)
(* for in the catalog (search/service.py:23 ingests "only as many as will   *)
(* actually be shown to the caller").                                       *)
(***************************************************************************)
PageIsIngested ==
    \A r \in Requests :
        LET p == req[r].page IN
        req[r].step = "answer" /\ req[r].whole =>
            {h \in 1 .. Hits : (h - 1) \div Limit = p - 1} \subseteq catalog
=============================================================================
