-------------------------- MODULE CatalogIdentity --------------------------
(***************************************************************************)
(* What one write transaction does to a catalog table and to its links in  *)
(* external_ids: shared/identity.py realigns the slugs of linked items,    *)
(* bulk_load_items upserts by slug, and _upsert_external_ids (one item:    *)
(* upsert_external_id) links the rows.                                     *)
(*                                                                         *)
(* A catalog is the sequence of its rows in order of id.  A row carries    *)
(* its slug, the external id that links it for the source of its type      *)
(* (uq_item_source: one at most) and whether an admin locked its title.    *)
(* A payload is what the source answered: the external id, the slug its    *)
(* title and year fold to, and whether _build_record can store it.         *)
(***************************************************************************)
EXTENDS Naturals, Sequences, SequencesExt, FiniteSets

CONSTANT NoId    \* the row has no external id of this source

\* A set of positions in order, and the elements that a sequence has there.
InOrder(S) ==
    [j \in 1 .. Cardinality(S) |-> CHOOSE k \in S : Cardinality({m \in S : m < k}) = j - 1]
Picked(s, S) ==
    LET order == InOrder(S)
    IN  [j \in 1 .. Cardinality(S) |-> s[order[j]]]

\* The row (uq_external_id: one at most) linked to x, the row whose slug is s; 0 if none.
Linked(catalog, x) ==
    IF \E i \in DOMAIN catalog : catalog[i].link = x
    THEN CHOOSE i \in DOMAIN catalog : catalog[i].link = x ELSE 0
Named(catalog, s) ==
    IF \E i \in DOMAIN catalog : catalog[i].slug = s
    THEN CHOOSE i \in DOMAIN catalog : catalog[i].slug = s ELSE 0

\* Two external ids of the batch propose the slug: neither may take it.
Contested(batch, s) == \E p, q \in ToSet(batch) : p.id # q.id /\ p.slug = s /\ q.slug = s

\* Renames - a plausible bug, which nothing uses: nobody looks for an owner of the slug.
RenamesOverOwner(catalog, batch, p) ==
    LET i == Linked(catalog, p.id)
    IN  /\ i # 0
        /\ ~catalog[i].locked
        /\ ~Contested(batch, p.slug)

\* The linked item was renamed at the source and nothing keeps it from following.
Renames(catalog, batch, p) ==
    LET i == Linked(catalog, p.id)
    IN  /\ i # 0
        /\ ~catalog[i].locked
        /\ Named(catalog, p.slug) = 0
        /\ ~Contested(batch, p.slug)

\* The slug to upsert with: the identity of the payload decides which row it is.
Aligned(catalog, batch, p) ==
    LET i == Linked(catalog, p.id)
    IN  IF i # 0 /\ ~Renames(catalog, batch, p)
        THEN [p EXCEPT !.slug = catalog[i].slug] ELSE p

\* The rename UPDATE.
Renamed(catalog, batch) ==
    [i \in DOMAIN catalog |->
        IF \E p \in ToSet(batch) : Linked(catalog, p.id) = i /\ Renames(catalog, batch, p)
        THEN [catalog[i] EXCEPT !.slug = (CHOOSE p \in ToSet(batch) : p.id = catalog[i].link).slug]
        ELSE catalog[i]]

\* The payloads that are upserted.  The whole batch is realigned before the rejected
\* ones are dropped; of the others that share a slug, the last takes the first's place.
Kept(catalog, batch) ==
    LET aligned == [k \in DOMAIN batch |-> Aligned(catalog, batch, batch[k])]
        valid == {k \in DOMAIN batch : batch[k].valid}
        Sharing(k) == {m \in valid : aligned[m].slug = aligned[k].slug}
        places == {k \in valid : \A m \in Sharing(k) : k <= m}
        order == InOrder(places)
    IN  [j \in 1 .. Cardinality(places) |-> aligned[Max(Sharing(order[j]))]]

\* INSERT ... ON CONFLICT (slug) DO UPDATE: new rows for the slugs nobody has.
Upserted(catalog, kept) ==
    LET new == Picked(kept, {k \in DOMAIN kept : Named(catalog, kept[k].slug) = 0})
    IN  catalog \o [k \in DOMAIN new |-> [slug |-> new[k].slug, link |-> NoId, locked |-> FALSE]]

\* The links: an id that a row already holds stays there (first claim wins); any other
\* goes to the row of its payload and replaces the id this row had.
Relinked(catalog, kept) ==
    [i \in DOMAIN catalog |->
        IF \E p \in ToSet(kept) : p.slug = catalog[i].slug /\ Linked(catalog, p.id) = 0
        THEN [catalog[i] EXCEPT !.link = (CHOOSE p \in ToSet(kept) : p.slug = catalog[i].slug).id]
        ELSE catalog[i]]
=============================================================================
