----------------------------- MODULE CreditRows -----------------------------
(***************************************************************************)
(* What hangs from a catalog row: genres and platforms, companies, cast and *)
(* crew.  The pages that are opened on demand and the fallback write them    *)
(* one by one (movies/, series/, books/ and games/ service and repository,   *)
(* people/repository.py); the syncs write a whole batch of items with a      *)
(* statement per table (shared/bulk_load.py).                               *)
(*                                                                         *)
(* A database is a record: genres, the slugs of the lookup table; people,    *)
(* the sequence of the person rows, each with its slug and the external id   *)
(* that links it; credits, triples of item, person and role; items, which    *)
(* hold their tags, companies, cast and whether an admin locked the genres.  *)
(***************************************************************************)
EXTENDS Integers, Sequences, FiniteSets, FiniteSetsExt, SequencesExt

CONSTANTS
    CastLimit,      \* members of the cast that are kept
    RoleOf,         \* MOVIE_CREW_JOB_ROLES: job -> role
    NoId            \* the person has no external id of this source

\* A billing order that the source does not give.
Unbilled == -1

(***************************************************************************)
(* From the source's answer to rows.  A member of the cast has an id, a      *)
(* name, what the name folds to ("" if nothing) and a billing order; a       *)
(* member of the crew a job instead.                                        *)
(***************************************************************************)

\* slug_with_external_fallback
SlugOf(m) == IF m.fold = "" THEN <<"id", m.id>> ELSE <<"name", m.fold>>

\* _tmdb_person_row: a member without an id or a name is left out.
Person(m, role, order) == [id |-> m.id, slug |-> SlugOf(m), name |-> m.name, role |-> role, order |-> order]

IsPerson(m) == m.id # NoId /\ m.name # ""

\* select_crew_credits: the jobs of a person that are one role give one credit.
CrewCredits(crew) ==
    LET chosen == SelectSeq(crew, LAMBDA m : m.job \in DOMAIN RoleOf)
        first(k) == \A j \in 1 .. (k - 1) :
                        <<chosen[j].id, RoleOf[chosen[j].job]>> # <<chosen[k].id, RoleOf[chosen[k].job]>>
    IN  [k \in DOMAIN chosen |-> [member |-> chosen[k], role |-> RoleOf[chosen[k].job], first |-> first(k)]]

\* map_movie_credits, map_series_credits
MapCredits(cast, crew) ==
    LET top == SelectSeq(SubSeq(cast, 1, Min({CastLimit, Len(cast)})), IsPerson)
        pairs == SelectSeq(CrewCredits(crew), LAMBDA p : p.first /\ IsPerson(p.member))
    IN  [k \in DOMAIN top |-> Person(top[k], "CAST", top[k].order)]
          \o [k \in DOMAIN pairs |-> Person(pairs[k].member, pairs[k].role, Unbilled)]

\* build_cast_payload: in billing order, the unbilled last, ties as they came.
CastPayload(rows) ==
    LET cast == SelectSeq(rows, LAMBDA r : r.role = "CAST")
        key(k) == <<cast[k].order = Unbilled, cast[k].order>>
        before(j, k) == \/ ~key(j)[1] /\ key(k)[1]
                        \/ key(j)[1] = key(k)[1] /\ key(j)[2] < key(k)[2]
                        \/ key(j) = key(k) /\ j < k
        places == SetToSortSeq(DOMAIN cast, before)
    IN  [n \in DOMAIN places |-> cast[places[n]].name]

Crew(rows) == SelectSeq(rows, LAMBDA r : r.role # "CAST")

(***************************************************************************)
(* One by one.                                                              *)
(***************************************************************************)

\* The row that a person of the source is linked to, and the row of a slug; 0 if none.
LinkedTo(people, id) ==
    IF \E k \in DOMAIN people : people[k].link = id
    THEN CHOOSE k \in DOMAIN people : people[k].link = id ELSE 0
WithSlug(people, slug) ==
    IF \E k \in DOMAIN people : people[k].slug = slug
    THEN CHOOSE k \in DOMAIN people : people[k].slug = slug ELSE 0

\* get_or_create_person_by_external: a homonym takes the row, and its link, over.
GetOrCreatePerson(people, r) ==
    LET k == WithSlug(people, r.slug) IN
    CASE LinkedTo(people, r.id) # 0 -> people
      [] LinkedTo(people, r.id) = 0 /\ k # 0 -> [people EXCEPT ![k].link = r.id]
      [] OTHER -> Append(people, [slug |-> r.slug, link |-> r.id])

\* upsert_credit
AddCredit(db, item, r) ==
    LET people == GetOrCreatePerson(db.people, r) IN
    [db EXCEPT !.people = people, !.credits = @ \cup {<<item, LinkedTo(people, r.id), r.role>>}]

\* The cast is replaced when there is one; the crew only grows.
PersistPeople(db, item, rows) ==
    LET payload == CastPayload(rows)
        billed == IF payload = <<>> THEN db ELSE [db EXCEPT !.items[item].cast = payload]
    IN  FoldLeft(LAMBDA d, r : AddCredit(d, item, r), billed, Crew(rows))

\* The tags are replaced when there are any and no lock holds them.
TagItem(db, item, genres) ==
    IF genres = {} \/ db.items[item].locked THEN db
    ELSE [db EXCEPT !.genres = @ \cup genres, !.items[item].tags = genres]

\* upsert_game: companies are only added.
CreditCompanies(db, item, companies) == [db EXCEPT !.items[item].companies = @ \cup companies]

WriteOne(db, p) ==
    PersistPeople(CreditCompanies(TagItem(db, p.item, p.genres), p.item, p.companies), p.item, p.people)

(***************************************************************************)
(* A batch.  The payloads are of different items (CatalogIdentity).          *)
(***************************************************************************)

\* The item's lock is not looked at.
TaggedAlways(db, ps) == {p \in ToSet(ps) : p.genres # {}}

Tagged(db, ps) == {p \in ToSet(ps) : p.genres # {} /\ ~db.items[p.item].locked}

\* _load_lookup_rows and _replace_join_rows
LoadLookups(db, ps) ==
    LET touched == Tagged(db, ps) IN
    [db EXCEPT !.genres = @ \cup UNION {p.genres : p \in touched},
               !.items = [i \in DOMAIN @ |->
                            IF \E p \in touched : p.item = i
                            THEN [@[i] EXCEPT !.tags = (CHOOSE p \in touched : p.item = i).genres]
                            ELSE @[i]]]

\* _load_entity_credits
LoadEntityCredits(db, ps) ==
    [db EXCEPT !.items = [i \in DOMAIN @ |->
        [@[i] EXCEPT !.companies = @ \cup UNION {p.companies : p \in {q \in ToSet(ps) : q.item = i}}]]]

\* Of two new people with one slug only the first is resolved.
SlugOfKeyFirst(unknown) ==
    {r \in ToSet(unknown) : \A j \in DOMAIN unknown :
        unknown[j].slug = r.slug => \E k \in 1 .. j : unknown[k].id = r.id}

\* The people to be resolved by their slug: all that no link resolves.
SlugOfKey(unknown) == ToSet(unknown)

\* _resolve_people: one row per new slug; of the ids that share a row the last links it.
ResolvePeople(people, rows) ==
    LET unknown == SelectSeq(rows, LAMBDA r : LinkedTo(people, r.id) = 0)
        firsts == SelectSeq([k \in DOMAIN unknown |-> k],
                     LAMBDA k : /\ WithSlug(people, unknown[k].slug) = 0
                                /\ \A j \in 1 .. (k - 1) : unknown[j].slug # unknown[k].slug)
        inserted == people \o [k \in DOMAIN firsts |-> [slug |-> unknown[firsts[k]].slug, link |-> NoId]]
        keys == {k \in DOMAIN unknown : /\ unknown[k] \in SlugOfKey(unknown)
                                        /\ \A j \in 1 .. (k - 1) : unknown[j].id # unknown[k].id}
        heir(s) == Max({k \in keys : unknown[k].slug = s})
    IN  [n \in DOMAIN inserted |->
            IF \E k \in keys : unknown[k].slug = inserted[n].slug
            THEN [inserted[n] EXCEPT !.link = unknown[heir(inserted[n].slug)].id]
            ELSE inserted[n]]

\* The row of a person of the batch: by the link it had, else by its slug.
Resolved(before, after, unknown, r) ==
    IF LinkedTo(before, r.id) # 0 THEN LinkedTo(before, r.id)
    ELSE IF \E u \in SlugOfKey(unknown) : u.id = r.id THEN WithSlug(after, r.slug) ELSE 0

\* _load_people_credits: a person that is not resolved costs its credit.
LoadPeopleCredits(db, ps) ==
    LET rows == FlattenSeq([n \in DOMAIN ps |-> Crew(ps[n].people)])
        unknown == SelectSeq(rows, LAMBDA r : LinkedTo(db.people, r.id) = 0)
        people == ResolvePeople(db.people, rows)
        payload(i) == CastPayload((CHOOSE p \in ToSet(ps) : p.item = i).people)
        billed == {i \in {p.item : p \in ToSet(ps)} : payload(i) # <<>>}
    IN  [db EXCEPT
            !.people = people,
            !.credits = @ \cup UNION {{<<p.item, Resolved(db.people, people, unknown, r), r.role>> :
                                  r \in {q \in ToSet(Crew(p.people)) :
                                            Resolved(db.people, people, unknown, q) # 0}} : p \in ToSet(ps)},
            !.items = [i \in DOMAIN @ |->
                          IF i \in billed THEN [@[i] EXCEPT !.cast = payload(i)] ELSE @[i]]]

WriteBatch(db, ps) == LoadPeopleCredits(LoadEntityCredits(LoadLookups(db, ps), ps), ps)

(***************************************************************************)
(* The pages.                                                               *)
(***************************************************************************)

\* get_credits_for_item: the cast as stored, then the crew with the people's slugs.
CreditsForItem(db, item) ==
    [cast |-> db.items[item].cast,
     crew |-> {<<db.people[c[2]].slug, c[3]>> : c \in {x \in db.credits : x[1] = item}}]

\* get_person_by_slug
CreditsOfPerson(db, slug) ==
    {<<c[1], c[3]>> : c \in {x \in db.credits : db.people[x[2]].slug = slug}}
=============================================================================
