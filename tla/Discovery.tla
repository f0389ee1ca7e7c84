----------------------------- MODULE Discovery -----------------------------
(***************************************************************************)
(* The lists that help a user find something: what is trending              *)
(* (trending/repository.py, trending/service.py), what to try next          *)
(* (recommendations/repository.py, recommendations/service.py) and what is  *)
(* like this (recommendations/similar.py, recommendations/ranking.py).      *)
(* They read and never write, so each is a function of what it reads.       *)
(***************************************************************************)
EXTENDS Integers, Sequences, FiniteSets, FiniteSetsExt, SequencesExt

First(s, n) == SubSeq(s, 1, Min({n, Len(s)}))

\* One from each list, then the next of each, as long as any has one.
RoundRobin(lists) ==
    LET longest == Max({0} \cup {Len(lists[k]) : k \in DOMAIN lists})
        round(i) == FlattenSeq([k \in DOMAIN lists |->
                        IF i =< Len(lists[k]) THEN <<lists[k][i]>> ELSE <<>>])
    IN  FlattenSeq([i \in 1 .. longest |-> round(i)])

(***************************************************************************)
(* Trending.  A ledger says what each user did to each item: when they      *)
(* rated it and last changed that, when the rating had content first and    *)
(* got its event, whether it is hidden, when they completed the item, and   *)
(* the status of their library entry with its time; 0 is never.             *)
(***************************************************************************)

\* Weights in half points.
Weight ==
    [rating_created |-> 6, status_completed |-> 4,
     want |-> 2, in_progress |-> 3, dropped |-> 1, rerated |-> 2]

Gesture(k, kind, at) == [user |-> k[1], item |-> k[2], kind |-> kind, at |-> at]

\* activity_events: what a banned user did and what is hidden do not count.
Events(ledger, banned, since) ==
    {Gesture(k, "rating_created", ledger[k].event) :
        k \in {j \in DOMAIN ledger : /\ ledger[j].event >= since /\ ~ledger[j].hidden
                                     /\ j[1] \notin banned}}
      \cup
    {Gesture(k, "status_completed", ledger[k].completed) :
        k \in {j \in DOMAIN ledger : ledger[j].completed >= since /\ j[1] \notin banned}}

\* The library entry of who completed the item in the window counts too.
IntentsAll(ledger, banned, since) ==
    {Gesture(k, ledger[k].status, ledger[k].moved) :
        k \in {j \in DOMAIN ledger :
                  /\ ledger[j].status \in {"want", "in_progress", "dropped"}
                  /\ ledger[j].moved >= since
                  /\ j[1] \notin banned}}

\* library_entries, of who has not completed the item in the window as well.
Intents(ledger, banned, since) ==
    {Gesture(k, ledger[k].status, ledger[k].moved) :
        k \in {j \in DOMAIN ledger :
                  /\ ledger[j].status \in {"want", "in_progress", "dropped"}
                  /\ ledger[j].moved >= since
                  /\ ledger[j].completed < since
                  /\ j[1] \notin banned}}

\* The author's ban is forgotten.
ReratingsOfAnyone(ledger, banned, since) ==
    {Gesture(k, "rerated", ledger[k].edited) :
        k \in {j \in DOMAIN ledger :
                  /\ ledger[j].rated > 0 /\ ~ledger[j].hidden
                  /\ ledger[j].edited >= since
                  /\ ledger[j].edited > ledger[j].rated /\ ledger[j].edited > ledger[j].event}}

\* user_ratings that are visible and were changed after they were made and had their event.
Reratings(ledger, banned, since) ==
    {Gesture(k, "rerated", ledger[k].edited) :
        k \in {j \in DOMAIN ledger :
                  /\ ledger[j].rated > 0 /\ ~ledger[j].hidden
                  /\ ledger[j].edited >= since
                  /\ ledger[j].edited > ledger[j].rated /\ ledger[j].edited > ledger[j].event
                  /\ j[1] \notin banned}}

Gestures(ledger, banned, since) ==
    Events(ledger, banned, since) \cup Intents(ledger, banned, since)
        \cup Reratings(ledger, banned, since)

\* A gesture is worth twice one that is a half-life older.
Decay(since, at) == 2 ^ (at - since)

Score(gs, i, since) ==
    MapThenSumSet(LAMBDA g : Weight[g.kind] * Decay(since, g.at), {g \in gs : g.item = i})

\* activity_scores and the two thresholds of _local_activity.
Leaders(gs, since, limit, minGestures, minUsers) ==
    LET before(i, j) == \/ Score(gs, i, since) > Score(gs, j, since)
                        \/ (Score(gs, i, since) = Score(gs, j, since) /\ i < j)
    IN  IF Cardinality(gs) < minGestures \/ Cardinality({g.user : g \in gs}) < minUsers
        THEN <<>>
        ELSE First(SetToSortSeq({g.item : g \in gs}, before), limit)

LocalActivity(ledger, banned, since, limit, minGestures, minUsers) ==
    Leaders(Gestures(ledger, banned, since), since, limit, minGestures, minUsers)

(***************************************************************************)
(* Recommendations.  A shelf holds, for each type that is asked for, the    *)
(* slugs that share a genre with the user's seeds (none without a seed of   *)
(* the type), for the seeds that have a source the items that it calls      *)
(* similar, what is popular, and what the user has rated or shelved.        *)
(* Neither query has a key that breaks ties: what shares a genre is sorted  *)
(* by the genres shared and rating_external, what is popular by             *)
(* rating_internal and rating_external.  So both are stored as ranks, sets  *)
(* of equals, and each request reads every rank in some order of its own.   *)
(***************************************************************************)

RankOf(ranks, x) == CHOOSE n \in DOMAIN ranks : x \in ranks[n]

\* ORDER BY without a unique key.
Listings(ranks) ==
    {s \in SetToSeqs(UNION ToSet(ranks)) :
        \A j, k \in DOMAIN s : j < k => RankOf(ranks, s[j]) =< RankOf(ranks, s[k])}

\* The shelf as one request may read it.
Readings(shelf) ==
    LET types == DOMAIN shelf.overlap
        orders == {f \in [types -> UNION {Listings(shelf.overlap[t]) : t \in types}] :
                      \A t \in types : f[t] \in Listings(shelf.overlap[t])}
    IN  {[shelf EXCEPT !.overlap = f, !.popular = p] : f \in orders, p \in Listings(shelf.popular)}

\* get_genre_overlap_candidates, of a reading: seen items are excluded before the LIMIT.
Overlapping(shelf, t, needed) ==
    First(SelectSeq(shelf.overlap[t], LAMBDA s : <<t, s>> \notin shelf.seen), needed)

Offered(shelf, types, needed) == UNION {ToSet(Overlapping(shelf, t, needed)) : t \in types}

\* A slug that an earlier type has taken is skipped.
LocalCandidates(shelf, needed) ==
    LET fresh(t) == SelectSeq(Overlapping(shelf, t, needed),
                        LAMBDA s : s \notin Offered(shelf, {u \in DOMAIN shelf.overlap : u < t}, needed))
    IN  [t \in DOMAIN shelf.overlap |-> [k \in DOMAIN fresh(t) |-> <<t, fresh(t)[k]>>]]

\* What the user has seen is left out of the local candidates only.
SuggestsAgain(shelf, taken, x) ==
    /\ x[2] \notin taken
    /\ x[1] \in DOMAIN shelf.overlap

\* A similar item is added when its slug is neither taken nor seen and its type is asked for.
Suggests(shelf, taken, x) ==
    /\ x[2] \notin taken \cup {k[2] : k \in shelf.seen}
    /\ x[1] \in DOMAIN shelf.overlap

\* A seed's source is only asked while the candidates fall short.
Recommend(shelf, page, limit) ==
    LET needed == page * limit
        offered == Offered(shelf, DOMAIN shelf.overlap, needed)
        add(list, x) ==
            IF Suggests(shelf, offered \cup {y[2] : y \in ToSet(list)}, x) THEN Append(list, x) ELSE list
        ask(list, similar) ==
            IF Len(list) >= needed THEN list ELSE FoldLeft(add, list, similar)
    IN  IF shelf.seeds
        THEN FoldLeft(ask, RoundRobin(LocalCandidates(shelf, needed)), shelf.similar)
        ELSE First(SelectSeq(shelf.popular, LAMBDA x : x \notin shelf.seen), needed)

(***************************************************************************)
(* Similar items.  A candidate has a type, a score and the groups, creator  *)
(* or franchise, it belongs to; candidates are numbered in the order that   *)
(* breaks ties.  A penalty of a half compounds per group already taken.     *)
(* The index may still name items that are gone, and a walk of it is         *)
(* approximate: the types are a filter on what the walk produced, and it     *)
(* may produce fewer than exist, or none.  What each of the walks of a       *)
(* request reaches is part of the question.                                  *)
(***************************************************************************)

Repeats(cs, chosen, c) ==
    MapThenSumSet(LAMBDA d : Cardinality(cs[c].groups \cap cs[d].groups), chosen)

Adjusted(cs, chosen, c) == cs[c].score * 2 ^ (2 * Len(cs) - Repeats(cs, chosen, c))

Ahead(cs, c, d) ==
    cs[c].score > cs[d].score \/ (cs[c].score = cs[d].score /\ c < d)

\* get_similar_by_vector: the closest of those that the walk reached.
Near(cs, reached, size) == First(SetToSortSeq(reached, LAMBDA c, d : Ahead(cs, c, d)), size)

\* _neighbours: one walk for the anchor's type, or one for all types and, unless that
\* finds nothing at all, one for the others.
Pool(cs, walks, type, quota, size) ==
    LET own == {c \in DOMAIN cs : cs[c].type = type}
        closest == Near(cs, walks[1], size)
    IN  IF quota = 0 THEN Near(cs, walks[1] \cap own, size)
        ELSE IF closest = <<>> THEN <<>>
        ELSE closest \o SelectSeq(Near(cs, walks[2] \ own, size), LAMBDA c : c \notin ToSet(closest))

\* diversify: the greedy choice among what remains.
Diversify(cs, pool) ==
    LET pick(list, k) ==
            LET chosen == ToSet(list)
                rest == ToSet(pool) \ chosen
                best == CHOOSE c \in rest : \A d \in rest \ {c} :
                            \/ Adjusted(cs, chosen, c) > Adjusted(cs, chosen, d)
                            \/ (Adjusted(cs, chosen, c) = Adjusted(cs, chosen, d) /\ Ahead(cs, c, d))
            IN  Append(list, best)
    IN  FoldLeft(pick, <<>>, pool)

\* The page is cut before the other types are looked for.
ApplyQuotaToPage(cs, ranked, type, limit, quota) == First(ranked, limit)

\* apply_cross_type_quota: the first of other types, then the first of all; the order stays.
ApplyQuota(cs, ranked, type, limit, quota) ==
    LET others == {k \in DOMAIN ranked : cs[ranked[k]].type # type}
        reserved == {k \in others : Cardinality({j \in others : j < k}) < Min({quota, limit})}
        rest == DOMAIN ranked \ reserved
        filled == {k \in rest : Cardinality({j \in rest : j < k}) < limit - Cardinality(reserved)}
    IN  [k \in 1 .. Cardinality(reserved \cup filled) |->
            ranked[CHOOSE p \in reserved \cup filled :
                      Cardinality({j \in reserved \cup filled : j < p}) = k - 1]]

\* get_semantic_similar: the quota is no more than the page.
SimilarTo(cs, walks, gone, type, limit, quota, multiplier) ==
    LET reserved == Min({quota, limit})
        pool == SelectSeq(Pool(cs, walks, type, reserved, limit * multiplier), LAMBDA c : c \notin gone)
    IN  ApplyQuota(cs, Diversify(cs, pool), type, limit, reserved)
=============================================================================
