-------------------------- MODULE CatalogWriters --------------------------
(***************************************************************************)
(* One catalog table written by transactions that overlap, statement by    *)
(* statement: the upsert of a page or a job (slug aligned to the external  *)
(* id, row upserted by slug, link upserted) and the edits of admins.  A    *)
(* statement sees what is committed and what its own transaction wrote,    *)
(* and waits for a transaction that holds the row or the key it writes.    *)
(***************************************************************************)
EXTENDS Integers, FiniteSets

CONSTANTS Writers, Admins,
          RowIds, Ids, Slugs, Titles,
          MaxWrites, MaxEdits,  \* bounds on the transactions begun
          MaxFaults             \* bound on the ones cut off (a crash, a deadlock broken)

VARIABLES db, pending, writer, edit, left, skips, dropped, everLinked, granted, overlapped

vars == <<db, pending, writer, edit, left, skips, dropped, everLinked, granted, overlapped>>

NoId == "none"
Idle == [step |-> "idle"]
Fields == {"title", "poster"}

LinkedTo(table, id) == {r \in DOMAIN table : table[r].link = id}

\* A row without a link was left by an earlier skip.
\* skips, dropped: what record_link_skip and record_identity_skip were told.  granted: locks
\* set by edits and not undone since; overlapped: rows edited by two admins at once.
Init ==
    /\ \E links \in UNION {[n -> {NoId} \cup Ids] : n \in {{}, {1}}}, slug \in Slugs :
          /\ db = [r \in DOMAIN links |-> [slug |-> slug, link |-> links[r], title |-> "old",
                                           locks |-> {}]]
          /\ skips = Cardinality(LinkedTo(db, NoId))
          /\ everLinked = {links[r] : r \in DOMAIN links} \ {NoId}
    /\ pending = [w \in Writers |-> [r \in {} |-> {}]]
    /\ writer = [w \in Writers |-> Idle] /\ edit = [a \in Admins |-> Idle]
    /\ left = [writes |-> MaxWrites, edits |-> MaxEdits, faults |-> MaxFaults]
    /\ dropped = {} /\ granted = {} /\ overlapped = {}

Sees(w) == [r \in DOMAIN pending[w] \cup DOMAIN db |->
               IF r \in DOMAIN pending[w] THEN pending[w][r] ELSE db[r]]
Named(table, slug) == {r \in DOMAIN table : table[r].slug = slug}
Only(set) == CHOOSE x \in set : TRUE

\* Others hold the row, or a key that this statement is about to write.
HeldRow(w, r) == \E o \in Writers \ {w} : r \in DOMAIN pending[o]
HeldSlug(w, slug) ==
    \E o \in Writers \ {w} : \E r \in DOMAIN pending[o] :
        pending[o][r].slug = slug \/ (r \in DOMAIN db /\ db[r].slug = slug)
HeldLink(w, id) ==
    \E o \in Writers \ {w} : \E r \in DOMAIN pending[o] :
        pending[o][r].link = id \/ (r \in DOMAIN db /\ db[r].link = id)

Put(w, r, row) ==
    pending' = [pending EXCEPT ![w] = [q \in DOMAIN @ \cup {r} |-> IF q = r THEN row ELSE @[q]]]
Step(w, rec) == writer' = [writer EXCEPT ![w] = rec]
Kept == UNCHANGED <<db, edit, left, skips, dropped, everLinked, granted, overlapped>>

-----------------------------------------------------------------------------
(* The upsert. *)

Begin(w) ==
    /\ writer[w] = Idle /\ left.writes > 0 /\ left' = [left EXCEPT !.writes = @ - 1]
    /\ \E id \in Ids, slug \in Slugs, title \in Titles :
          Step(w, [step |-> "align", id |-> id, slug |-> slug, title |-> title, current |-> slug,
                   row |-> 0, locks |-> {}])
    /\ UNCHANGED <<db, pending, edit, skips, dropped, everLinked, granted, overlapped>>

\* An id that is linked brings its row along, unless an admin locked the title.
Align(w) ==
    /\ writer[w].step = "align"
    /\ LET t == writer[w]  linked == LinkedTo(Sees(w), t.id) IN
       IF linked = {} THEN Step(w, [t EXCEPT !.step = "upsert"])
       ELSE LET r == Only(linked)  row == Sees(w)[r] IN
            Step(w, [t EXCEPT !.current = row.slug, !.row = r, !.locks = row.locks,
                       !.step = IF row.slug = t.slug \/ "title" \in row.locks THEN "keep" ELSE "owner"])
    /\ Kept /\ UNCHANGED pending

\* The slug the row had when it was read.
KeepCurrent(w) ==
    /\ writer[w].step = "keep"
    /\ Step(w, [writer[w] EXCEPT !.slug = writer[w].current, !.step = "upsert"])
    /\ Kept /\ UNCHANGED pending

\* _slug_owners: a slug that belongs to another row is not taken from it.
ReadOwner(w) ==
    /\ writer[w].step = "owner"
    /\ LET t == writer[w] IN
       Step(w, [t EXCEPT !.step = IF Named(Sees(w), t.slug) \subseteq {t.row} THEN "rename" ELSE "keep"])
    /\ Kept /\ UNCHANGED pending

\* The savepoint: the key may have been taken since it was read.
Rename(w) ==
    /\ writer[w].step = "rename"
    /\ LET t == writer[w] IN
       /\ ~HeldRow(w, t.row) /\ ~HeldSlug(w, t.slug)
       /\ IF Named(Sees(w), t.slug) \subseteq {t.row}
          THEN /\ Put(w, t.row, [Sees(w)[t.row] EXCEPT !.slug = t.slug])
               /\ Step(w, [t EXCEPT !.step = "upsert"])
          ELSE Step(w, [t EXCEPT !.step = "keep"]) /\ UNCHANGED pending
    /\ Kept

\* The lock as it was when the id was resolved.
TitleAsRead(t, row) == IF "title" \in t.locks THEN row.title ELSE t.title
\* CASE WHEN locked_fields @> ...: decided inside the UPDATE.
NewTitle(t, row) == IF "title" \in row.locks THEN row.title ELSE t.title

\* RowIds bounds the rows that may be inserted.
FreeIds(table) == {r \in RowIds : r \notin DOMAIN table
                                   /\ \A o \in Writers : r \notin DOMAIN pending[o]}
Free(table) == Only(FreeIds(table))

\* ON CONFLICT DO NOTHING and a SELECT: a row that is there is not locked.
UpsertUnlocked(w) ==
    /\ writer[w].step = "upsert"
    /\ LET t == writer[w]  named == Named(Sees(w), t.slug) IN
       /\ ~HeldSlug(w, t.slug) \/ named # {}
       /\ LET r == IF named = {} THEN Free(Sees(w)) ELSE Only(named) IN
          /\ IF named = {} THEN Put(w, r, [slug |-> t.slug, link |-> NoId, title |-> t.title, locks |-> {}])
             ELSE UNCHANGED pending
          /\ Step(w, [t EXCEPT !.row = r, !.step = "candidates"])
    /\ Kept

\* INSERT ... ON CONFLICT (slug) DO UPDATE: the row stays locked to the end of the transaction.
Upsert(w) ==
    /\ writer[w].step = "upsert"
    /\ LET t == writer[w]  named == Named(Sees(w), t.slug) IN
       /\ ~HeldSlug(w, t.slug)
       /\ named # {} \/ FreeIds(Sees(w)) # {}
       /\ LET r == IF named = {} THEN Free(Sees(w)) ELSE Only(named)
              row == IF named = {} THEN [slug |-> t.slug, link |-> NoId, title |-> t.title, locks |-> {}]
                     ELSE [Sees(w)[r] EXCEPT !.title = NewTitle(t, Sees(w)[r])]
          IN  /\ ~HeldRow(w, r) /\ Put(w, r, row)
              /\ Step(w, [t EXCEPT !.row = r, !.step = "candidates"])
    /\ Kept

\* Another row holds the id, and nothing is said.
SkipSilently(w) == skips
CountSkip(w) == skips + 1

\* The SELECT of upsert_external_id.
ReadCandidates(w) ==
    /\ writer[w].step = "candidates"
    /\ LET t == writer[w]  holder == LinkedTo(Sees(w), t.id)  held == Sees(w)[t.row].link IN
       /\ skips' = IF holder \subseteq {t.row} THEN skips ELSE CountSkip(w)
       /\ dropped' = IF holder = {} /\ held # NoId THEN dropped \cup {held} ELSE dropped
       /\ Step(w, [t EXCEPT !.step = IF holder = {} THEN "link" ELSE "commit"])
    /\ UNCHANGED <<db, pending, edit, left, everLinked, granted, overlapped>>

\* ON CONFLICT uq_item_source DO UPDATE; a conflict on uq_external_id ends the transaction.
Link(w) ==
    /\ writer[w].step = "link"
    /\ LET t == writer[w] IN
       /\ ~HeldRow(w, t.row) /\ ~HeldLink(w, t.id)
       /\ IF LinkedTo(Sees(w), t.id) \subseteq {t.row}
          THEN /\ Put(w, t.row, [Sees(w)[t.row] EXCEPT !.link = t.id])
               /\ Step(w, [t EXCEPT !.step = "commit"])
          ELSE /\ pending' = [pending EXCEPT ![w] = [r \in {} |-> {}]]
               /\ Step(w, Idle)
    /\ Kept

Commit(w) ==
    /\ writer[w].step = "commit" /\ Step(w, Idle)
    /\ db' = Sees(w) /\ pending' = [pending EXCEPT ![w] = [r \in {} |-> {}]]
    /\ everLinked' = everLinked \cup ({Sees(w)[r].link : r \in DOMAIN Sees(w)} \ {NoId})
    /\ UNCHANGED <<edit, left, skips, dropped, granted, overlapped>>

Abort(w) ==
    /\ writer[w] # Idle /\ left.faults > 0 /\ left' = [left EXCEPT !.faults = @ - 1]
    /\ Step(w, Idle) /\ pending' = [pending EXCEPT ![w] = [r \in {} |-> {}]]
    /\ UNCHANGED <<db, edit, skips, dropped, everLinked, granted, overlapped>>

-----------------------------------------------------------------------------
(* The edits of the backoffice. *)

ReadItem(a) ==
    /\ edit[a] = Idle /\ left.edits > 0 /\ left' = [left EXCEPT !.edits = @ - 1]
    /\ \E r \in DOMAIN db, field \in Fields, unlock \in SUBSET Fields :
          edit' = [edit EXCEPT ![a] = [step |-> "write", row |-> r, field |-> field,
                                       unlock |-> unlock, locks |-> db[r].locks]]
    /\ UNCHANGED <<db, pending, writer, skips, dropped, everLinked, granted, overlapped>>

\* Only the fields of this request are locked.
NewLocksOnly(e) == {e.field} \ e.unlock
\* (locked_fields as read, and the edited ones) less the ones to unlock.
NewLocks(e) == (e.locks \cup {e.field}) \ e.unlock

\* The columns are assigned and committed together, whatever they hold by then.
WriteItem(a) ==
    /\ edit[a].step = "write" /\ edit' = [edit EXCEPT ![a] = Idle]
    /\ LET e == edit[a]  locks == NewLocks(e) IN
       /\ \A w \in Writers : e.row \notin DOMAIN pending[w]
       /\ db' = [db EXCEPT ![e.row].locks = locks,
                           ![e.row].title = IF e.field = "title" THEN "edited" ELSE @]
       /\ granted' = (granted \cup {<<e.row, e.field>>}) \ {<<e.row, f>> : f \in e.unlock}
       /\ overlapped' = IF db[e.row].locks # e.locks THEN overlapped \cup {e.row} ELSE overlapped
    /\ UNCHANGED <<pending, writer, left, skips, dropped, everLinked>>

Next ==
    \/ \E w \in Writers : \/ Begin(w) \/ Align(w) \/ KeepCurrent(w) \/ ReadOwner(w) \/ Rename(w)
                          \/ Upsert(w) \/ ReadCandidates(w) \/ Link(w) \/ Commit(w) \/ Abort(w)
    \/ \E a \in Admins : ReadItem(a) \/ WriteItem(a)

Spec == Init /\ [][Next]_vars

-----------------------------------------------------------------------------
(***************************************************************************)
(* Slugs and links stay unique, and a row that is left without the id it   *)
(* was written for (two writers of one new id gave it different slugs, or  *)
(* the slug that was read as current had been renamed) is counted.         *)
(***************************************************************************)
OrphansAreCounted ==
    /\ \A r, q \in DOMAIN db : r # q => db[r].slug # db[q].slug
                                        /\ (db[r].link = NoId \/ db[r].link # db[q].link)
    /\ Cardinality({r \in DOMAIN db : db[r].link = NoId}) =< skips

(***************************************************************************)
(* An id that the catalog could resolve and no longer can (another id of   *)
(* the same slug took its row) was recorded as dropped.                    *)
(***************************************************************************)
LostIdentitiesAreRecorded ==
    \A id \in everLinked : LinkedTo(db, id) # {} \/ id \in dropped

(***************************************************************************)
(* No job or page overwrites a title that an admin has locked, though the  *)
(* lock was set after the writer had read the row.                         *)
(***************************************************************************)
StepKeepsLockedTitles ==
    (\E w \in Writers : Commit(w)) =>
        \A r \in DOMAIN db : "title" \in db[r].locks => db'[r].title = db[r].title
LockedTitlesStay == [][StepKeepsLockedTitles]_vars

(***************************************************************************)
(* A lock lasts until it is lifted, unless two edits of the row overlapped.*)
(***************************************************************************)
LocksLast ==
    \A g \in granted : g[2] \in db[g[1]].locks \/ g[1] \in overlapped

(***************************************************************************)
(* What an administrator locked is safe from the others and from the jobs. *)
(***************************************************************************)
LocksHold == []LocksLast /\ LockedTitlesStay
=============================================================================
