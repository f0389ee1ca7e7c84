---------------------------- MODULE MCAlgorithms ----------------------------
(***************************************************************************)
(* The parts of the code that only compute: every question of a bounded    *)
(* set is put to each of them.  A behaviour chooses one kind of question   *)
(* and then asks one.                                                      *)
(***************************************************************************)
EXTENDS Integers, Sequences, FiniteSets, FiniteSetsExt, SequencesExt, TLC

CONSTANTS LastDay, MaxSpan, MaxRetention, MaxLoad, MaxCap,   \* of the feed of changes
          Raters,                                            \* of the ratings
          MaxItems,                                          \* of a type to embed
          MaxEntries                                         \* call numbers of a book

VARIABLE asked

Feed == INSTANCE ChangeFeed
Ratings == INSTANCE RatingAggregates
Quotas == INSTANCE EmbeddingQuotas WITH Types <- <<"MOVIE", "SERIES", "BOOK", "GAME">>
Discovery == INSTANCE Discovery

RoleOf == ("Writer" :> "WRITER") @@ ("Screenplay" :> "WRITER")
Credits == INSTANCE CreditRows WITH CastLimit <- 2, RoleOf <- RoleOf, NoId <- ""

\* A few rows of the tables of genres; "typo" is not a controlled slug.
ClassGenres ==
    (<<"P">> :> <<"language">>) @@ (<<"P", "S">> :> <<"literature">>)
      @@ (<<"Q", "A">> :> <<"mathematics">>) @@ (<<"H">> :> <<"typo">>)
      @@ (<<"P", "Z">> :> <<"fiction">>) @@ (<<"PZ1-4">> :> <<"fiction">>)
      @@ (<<"PZ5+">> :> <<"fiction", "childrens-young-adult">>)
Genres == INSTANCE BookGenres WITH
    ClassGenres <- ClassGenres,
    DeweyGenres <- (<<5>> :> <<"science">>) @@ (<<5, 1>> :> <<"mathematics">>),
    FormGenres <- (3 :> <<"fiction">>) @@ (4 :> <<"essays">>),
    SubjectGenres <- "Drama" :> <<"drama">>,
    Controlled <- {"language", "literature", "mathematics", "fiction", "childrens-young-adult",
                   "science", "essays", "drama"},
    MaxGenres <- 2

-----------------------------------------------------------------------------
(* The questions. *)

Plans == [kind : {"plan"}, since : {Feed!None} \cup 0 .. LastDay, until : MaxRetention - 1 .. LastDay,
          span : 1 .. MaxSpan, retention : 1 .. MaxRetention]

\* The windows of a walk start at day 0: only the loads of their days matter.
Walks == UNION {[kind : {"walk"}, end : {last}, load : [0 .. last -> 0 .. MaxLoad], cap : 1 .. MaxCap] :
                last \in 0 .. MaxSpan - 1}

\* Every ballot, in half stars from 1.0 to 5.0.
Ballots == [kind : {"ballot"}, ballot : [Raters -> {Ratings!NoScore} \cup 2 .. 10]]

Supplies == [kind : {"supply"}, cap : 0 .. 2 * MaxItems, available : [1 .. 4 -> 0 .. MaxItems]]

\* What a user may have done to an item, before the window (1) or in it (2).
Never == [rated |-> 0, event |-> 0, edited |-> 0, hidden |-> FALSE,
          completed |-> 0, status |-> "none", moved |-> 0]
Deeds ==
    {Never,
     [Never EXCEPT !.rated = 2, !.event = 2],
     [Never EXCEPT !.rated = 1, !.event = 2, !.edited = 2],
     [Never EXCEPT !.rated = 1, !.event = 1, !.edited = 2],
     [Never EXCEPT !.rated = 1, !.event = 1, !.edited = 2, !.hidden = TRUE],
     [Never EXCEPT !.status = "dropped", !.completed = 2, !.moved = 2],
     [Never EXCEPT !.status = "in_progress", !.completed = 1, !.moved = 2, !.rated = 1]}
Boards == [kind : {"board"}, ledger : [{1, 2} \X {1, 2} -> Deeds], banned : {{}, {1}}, since : {1, 2}]

\* What a query may sort out of S: ranks of equals.
Ranks(S) == UNION {{r \in [1 .. n -> SUBSET S \ {{}}] :
                        \A j, k \in 1 .. n : j # k => r[j] \cap r[k] = {}} : n \in 0 .. Cardinality(S)}
Shelves ==
    [kind : {"shelf"},
     overlap : {<<a, b>> : a \in Ranks({"w", "x", "y"}), b \in Ranks({"x", "z"})},
     similar : {<<>>, << << <<1, "w">>, <<2, "x">> >>, << <<3, "w">>, <<1, "z">> >> >>,
                << << <<2, "y">>, <<3, "v">>, <<2, "v">> >>, << <<1, "v">> >> >>},
     seen : {{}, {<<1, "x">>}, {<<2, "x">>, <<1, "y">>}},
     seeds : BOOLEAN,
     popular : {<< {<<1, "y">>}, {<<1, "w">>, <<2, "x">>} >>}]

\* What the two walks of the index reach: everything, less or nothing.
Neighbours == [kind : {"neighbours"},
               found : [1 .. 4 -> [type : {"m", "b"}, score : {2, 3}, groups : {{}, {1}}]],
               walks : {<<1 .. 4, 1 .. 4>>, <<2 .. 4, 1 .. 4>>, <<{}, 1 .. 4>>,
                         <<1 .. 4, 3 .. 4>>, <<2 .. 4, 3 .. 4>>, <<1 .. 4, {}>>}]

\* Two people who share a name, one whose name has no letters to make a slug of, and one
\* who bears the name under which a database may know the first.
Fold == ("1" :> "ana") @@ ("2" :> "ana") @@ ("3" :> "") @@ ("4" :> "bob")
Member(i, job) == [id |-> i, name |-> "n" \o i, fold |-> Fold[i], job |-> job]
Crew == {Member(i, job) : i \in DOMAIN Fold, job \in {"Writer", "Screenplay"}} \cup {Member("1", "Gaffer")}
Crews == {<<>>} \cup (Crew \X Crew)
Billed(i, fold, order) == [id |-> i, name |-> "n" \o i, fold |-> fold, order |-> order]
Item(tags, locked) == [tags |-> tags, companies |-> {}, cast |-> <<>>, locked |-> locked]
Databases ==
    [genres : {{}}, credits : {{}},
     people : {<<>>, << [slug |-> <<"name", "ana">>, link |-> "2"] >>,
               << [slug |-> <<"name", "bob">>, link |-> "1"], [slug |-> <<"name", "ana">>, link |-> ""] >>},
     items : {("x" :> Item({"g"}, TRUE)) @@ ("y" :> Item({}, FALSE))}]
Batches ==
    [kind : {"batch"}, db : Databases, genres : {{}, {"h"}},
     cast : {<<>>, << Billed("1", "ana", -1), Billed("2", "ana", 3), Billed("", "ana", 0) >>},
     crewOfX : Crews, crewOfY : Crews]

Entry(class, number) == [class |-> class, number |-> number]
Entries ==
    {Entry(<<"P", "S">>, 3), Entry(<<"P", "E">>, 1), Entry(<<"Q", "A">>, Genres!None),
     Entry(<<"H", "D">>, 2), Entry(<<"X">>, 2), Entry(<<"P", "Z">>, 4), Entry(<<"P", "Z">>, 5),
     Entry(<<"P", "Z">>, Genres!None)}
Docs == [kind : {"doc"}, lcc : UNION {[1 .. n -> Entries] : n \in 0 .. MaxEntries},
         ddc : {<<>>, << <<8, 1, 3>> >>, << <<5, 1, 9>>, <<8, 2, 4>> >>, << <<8, 0, 3>>, <<5, 2, 0>> >>},
         subjects : {<<>>, <<"Drama", "x">>}]

Kinds == {"plan", "walk", "ballot", "supply", "board", "shelf", "neighbours", "batch", "doc"}
Init == asked \in {[kind |-> k, open |-> TRUE] : k \in Kinds}

Open(k) == asked = [kind |-> k, open |-> TRUE]
Next ==
    \/ Open("plan") /\ asked' \in Plans
    \/ Open("walk") /\ asked' \in Walks
    \/ Open("ballot") /\ asked' \in Ballots
    \/ Open("supply") /\ asked' \in Supplies
    \/ Open("board") /\ asked' \in Boards
    \/ Open("shelf") /\ asked' \in Shelves
    \/ Open("neighbours") /\ asked' \in Neighbours
    \/ Open("batch") /\ asked' \in Batches
    \/ Open("doc") /\ asked' \in Docs

Spec == Init /\ [][Next]_asked

Asks(k) == asked.kind = k /\ ~Open(k)
-----------------------------------------------------------------------------
(***************************************************************************)
(* plan_change_windows is honest: every day after the one covered is       *)
(* either requested or reported, never both, nothing is requested that the *)
(* source no longer keeps, no request is longer than it may be, the        *)
(* windows leave no hole between them, and a covered day that the source   *)
(* still keeps is requested once more, for what it listed since.           *)
(***************************************************************************)
PlanAccountsForEveryDay == Asks("plan") =>
    LET p == asked
        ws == Feed!PlanWindows(p.since, p.until, p.span, p.retention)
        requested == UNION {Feed!Days(ws[k]) : k \in DOMAIN ws}
        lost == Feed!Uncovered(p.since, p.until, p.retention)
        horizon == Feed!Horizon(p.until, p.retention)
    IN  /\ p.since # Feed!None => (p.since + 1 .. p.until) \subseteq requested \cup lost
        /\ requested \cap lost = {}
        /\ \A d \in requested : d >= horizon
        /\ \A k \in DOMAIN ws : ws[k].end - ws[k].start < p.span
        /\ ws # <<>> => Feed!Tiles(ws, ws[1].start, p.until)
        /\ p.since \in horizon .. p.until => ws # <<>> /\ ws[1].start = p.since

(***************************************************************************)
(* The recursive walk loses no day and gives up only on days that are over *)
(* the cap by themselves: its windows tile the one it was given, and each  *)
(* fits or is a single day.  covered_through is exactly the stretch of     *)
(* which every page was seen.                                              *)
(***************************************************************************)
WalkGivesUpOnlyOnSaturatedDays == Asks("walk") =>
    LET w == Feed!Window(0, asked.end)
        vs == Feed!Leaves(w, asked.load, asked.cap)
        through == Feed!CoveredThrough(w, Feed!FirstTruncated(w, asked.load, asked.cap))
    IN  /\ Feed!Tiles(vs, 0, asked.end)
        /\ \A k \in DOMAIN vs : Feed!LoadOf(vs[k], asked.load) =< asked.cap \/ ~Feed!Splittable(vs[k])
        /\ Feed!WholeThrough(w, asked.load, asked.cap, through)

(***************************************************************************)
(* Two implementations of one job agree.  The batched writer leaves what   *)
(* the writer of single items leaves: genres, tags, companies and cast     *)
(* always; credits and people but for which of two homonyms of the batch   *)
(* the shared row is linked to, and but for who was overtaken.  Somebody   *)
(* the database knows under another name is overtaken when a newcomer of   *)
(* that name is ahead in the batch: the writer of single items gives the   *)
(* newcomer the row and the other one a row of the new name, the batch,    *)
(* which read all the links before, credits both to the one row.  Nothing  *)
(* else differs then but those two rows.  The batched recompute of the     *)
(* ratings stores the count and the mean of the single one, but for means  *)
(* that end in half a hundredth.                                           *)
(***************************************************************************)
TwoPathsAgree ==
    /\ Asks("batch") =>
         LET payload(i, cast, crew) ==
                [item |-> i, genres |-> asked.genres, companies |-> asked.genres,
                 people |-> Credits!MapCredits(cast, crew)]
             ps == << payload("x", asked.cast, asked.crewOfX), payload("y", <<>>, asked.crewOfY) >>
             one == FoldLeft(Credits!WriteOne, asked.db, ps)
             all == Credits!WriteBatch(asked.db, ps)
             rows == Credits!Crew(ps[1].people) \o Credits!Crew(ps[2].people)
             linked(r) == Credits!LinkedTo(asked.db.people, r.id)
             known(r) == asked.db.people[linked(r)].slug
             overtaken == {r \in ToSet(rows) :
                 /\ linked(r) # 0 /\ known(r) # r.slug
                 /\ \E k \in DOMAIN rows, j \in DOMAIN rows :
                       j < k /\ rows[k] = r /\ linked(rows[j]) = 0 /\ rows[j].slug = known(r)}
             moved == UNION {{r.slug, known(r)} : r \in overtaken}
             slugs(db) == {p.slug : p \in ToSet(db.people)} \ moved
             crew(db, i) == {c \in Credits!CreditsForItem(db, i).crew : c[1] \notin moved}
             link(db, s) == db.people[Credits!WithSlug(db.people, s)].link
             heirs(s) == {r.id : r \in {q \in ToSet(rows) : q.slug = s}}
         IN  /\ one.genres = all.genres /\ one.items = all.items
             /\ slugs(one) = slugs(all)
             /\ \A i \in {"x", "y"} : crew(one, i) = crew(all, i)
             /\ \A s \in slugs(one) : \/ link(one, s) = link(all, s)
                                      \/ {link(one, s), link(all, s)} \subseteq heirs(s)
    /\ Asks("ballot") => Ratings!AgreeButForHalves(asked.ballot)

(***************************************************************************)
(* Trending: what a banned user did leaves no trace in the list or in its  *)
(* thresholds, and of one user's gestures towards one item a rating and    *)
(* its first review, or a completion and the status before, count once.    *)
(***************************************************************************)
LeaderboardIsFair == Asks("board") =>
    LET without == [k \in DOMAIN asked.ledger |->
                        IF k[1] \in asked.banned THEN Never ELSE asked.ledger[k]]
        gs == Discovery!Gestures(asked.ledger, asked.banned, asked.since)
    IN  /\ \A m \in {1, 2} :
              Discovery!LocalActivity(asked.ledger, asked.banned, asked.since, 2, m, m)
                = Discovery!LocalActivity(without, {}, asked.since, 2, m, m)
        /\ \A g, h \in gs :
              g # h /\ g.user = h.user /\ g.item = h.item =>
                  /\ g.kind = "rerated" /\ h.kind = "rating_created" => h.at < g.at
                  /\ g.kind = "status_completed" =>
                         h.kind \notin {"want", "in_progress", "dropped"}

(***************************************************************************)
(* Recommendations: nothing is recommended that the user has seen, or of a *)
(* type that was not asked for, or twice under one slug.  While no slug is *)
(* shared by two types the second page goes on where the first ended, but  *)
(* for ties: each request lists what its queries hold for equal anew, so   *)
(* where the first page had an item the second one may count on another    *)
(* that ranks as high, and only then does it repeat or skip one.           *)
(***************************************************************************)
NothingSeenIsRecommended == Asks("shelf") =>
    LET readings == Discovery!Readings(asked)
        tied(x, y) ==
            \/ x = y
            \/ /\ asked.seeds /\ x[1] = y[1]
               /\ \E n \in DOMAIN asked.overlap[x[1]] : {x[2], y[2]} \subseteq asked.overlap[x[1]][n]
            \/ ~asked.seeds /\ \E n \in DOMAIN asked.popular : {x, y} \subseteq asked.popular[n]
    IN  \A l \in 1 .. 2 :
        LET pages == [p \in 1 .. 2 |-> {Discovery!Recommend(r, p, l) : r \in readings}]
        IN  /\ \A r \in pages[1] \cup pages[2] :
                 /\ ToSet(r) \cap asked.seen = {}
                 /\ \A k \in DOMAIN r : r[k][1] \in DOMAIN asked.overlap
                 /\ asked.seeds => \A j, k \in DOMAIN r : j # k => r[j][2] # r[k][2]
            /\ UNION ToSet(asked.overlap[1]) \cap UNION ToSet(asked.overlap[2]) = {} =>
                 \A first \in pages[1], second \in pages[2] :
                    LET shown == Discovery!First(first, l)
                        skipped == Discovery!First(second, l)
                    IN  /\ Len(shown) = Len(skipped)
                        /\ \A k \in DOMAIN shown : tied(shown[k], skipped[k])

(***************************************************************************)
(* Quotas per type.  Similar items: whatever the walks of the index reach  *)
(* and whatever of it is gone, no item comes twice, without a quota there  *)
(* is one type only, the page is as full as what was reached allows, it    *)
(* keeps its places for other types while any was reached, and it passes   *)
(* over nothing closer of its own type but for what repeats a creator or a *)
(* franchise.  Where the walk for the other types reaches them all, they   *)
(* get their places whatever the first walk misses, as long as that finds  *)
(* anything; where both reach all, nothing that exists is passed over.     *)
(* Embeddings: the split of the cap never exceeds it, no type gets more    *)
(* than another that could use more, and no capacity is wasted.            *)
(***************************************************************************)
QuotasAreFair ==
    /\ Asks("neighbours") =>
         \A quota \in 0 .. 2, limit \in {2, 3}, gone \in {{}, {1}}, multiplier \in 1 .. 2 :
            LET cs == asked.found
                r == Discovery!SimilarTo(cs, asked.walks, gone, "m", limit, quota, multiplier)
                reached == ToSet(Discovery!Pool(cs, asked.walks, "m", quota, limit * multiplier)) \ gone
                others(S) == {c \in S : cs[c].type # "m"}
                passedOver(S) == \E c \in S \ ToSet(r), d \in ToSet(r) :
                    cs[c].groups = {} /\ cs[c].type = "m" /\ cs[d].type = "m" /\ Discovery!Ahead(cs, c, d)
            IN  /\ IsInjective(r) /\ ToSet(r) \subseteq reached
                /\ quota = 0 => others(ToSet(r)) = {}
                /\ Len(r) = Min({limit, Cardinality(reached)})
                /\ Cardinality(others(ToSet(r))) >= Min({quota, limit, Cardinality(others(reached))})
                /\ ~passedOver(reached)
                /\ r # <<>> /\ gone = {} /\ asked.walks[2] = DOMAIN cs =>
                      Cardinality(others(ToSet(r))) >= Min({quota, limit, Cardinality(others(DOMAIN cs))})
                /\ gone = {} /\ asked.walks[1] = DOMAIN cs => ~passedOver(DOMAIN cs)
                /\ gone = {} /\ quota > 0 /\ asked.walks[1] = DOMAIN cs => Len(r) = limit
    /\ Asks("supply") => Quotas!QuotasAreFair(asked.cap, asked.available)

(***************************************************************************)
(* The genres of a book: a class that a minority of its editions was given *)
(* adds nothing, and the Dewey number decides only what they leave open.   *)
(***************************************************************************)
StraysAreSilent == Asks("doc") => Genres!StraysAreSilent([lcc |-> asked.lcc, ddc |-> asked.ddc, subjects |-> asked.subjects])
=============================================================================
