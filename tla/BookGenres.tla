----------------------------- MODULE BookGenres -----------------------------
(***************************************************************************)
(* The genres of a book (books/adapters/open_library.py, _derive_genres):   *)
(* what the Library of Congress numbers of its editions say, refined by the *)
(* Dewey number for literature; without them the Dewey numbers; without     *)
(* these the subjects.  A call number is a record of its class, letters, and *)
(* its number (None when it cannot be read), a Dewey number a sequence of   *)
(* digits, and the tables are functions to sequences of slugs.              *)
(***************************************************************************)
EXTENDS Integers, Sequences, FiniteSets, FiniteSetsExt, SequencesExt

CONSTANTS
    ClassGenres,        \* _LCC_CLASS_GENRES and the two halves of PZ: letters -> slugs
    DeweyGenres,        \* _DDC_PREFIX_GENRES: digits -> slugs
    FormGenres,         \* _DDC_LITERARY_FORM_GENRES: third digit -> slugs
    SubjectGenres,      \* _SUBJECT_FACET_GENRES: subject -> slugs
    Controlled,         \* _CONTROLLED_GENRES
    MaxGenres           \* _MAX_GENRES

None == -1

\* The most specific prefix that a table knows, of three, two or one places; <<>> if none.
Prefix(table, s) ==
    LET known == {n \in 1 .. Min({3, Len(s)}) : SubSeq(s, 1, n) \in DOMAIN table}
    IN  IF known = {} THEN <<>> ELSE SubSeq(s, 1, Max(known))

\* PZ1 to PZ4 and a PZ whose number cannot be read are for adults, PZ5 and above are not.
PzKey(number) == IF number # None /\ number >= 5 THEN <<"PZ5+">> ELSE <<"PZ1-4">>

LccKey(e) ==
    LET prefix == Prefix(ClassGenres, e.class)
    IN  IF prefix = <<"P", "Z">> THEN PzKey(e.number) ELSE prefix

\* The entries of a class that the table knows.
Classed(lcc) == {k \in DOMAIN lcc : LccKey(lcc[k]) # <<>>}

\* Each class that any edition was given speaks.
LccGenresOfAll(lcc) ==
    FlattenSeq([k \in DOMAIN lcc |-> IF k \in Classed(lcc) THEN ClassGenres[LccKey(lcc[k])] ELSE <<>>])

Votes(lcc, key) == Cardinality({k \in DOMAIN lcc : LccKey(lcc[k]) = key})

\* The entries of the classes that most editions were given.
Leading(lcc) ==
    {k \in Classed(lcc) :
        \A j \in Classed(lcc) : Votes(lcc, LccKey(lcc[j])) =< Votes(lcc, LccKey(lcc[k]))}

\* Only the class that most editions were given speaks, of equals the one that comes first.
LccGenres(lcc) ==
    IF Classed(lcc) = {} THEN <<>> ELSE ClassGenres[LccKey(lcc[Min(Leading(lcc))])]

\* 8xx, but not 80x, with a form that is known.
HasForm(d) == Len(d) >= 3 /\ d[1] = 8 /\ d[2] # 0 /\ d[3] \in DOMAIN FormGenres

DdcGenres(ddc) ==
    LET of(d) == CASE HasForm(d) -> FormGenres[d[3]]
                   [] ~HasForm(d) /\ d[1] = 8 -> <<"literature">>
                   [] OTHER -> LET p == Prefix(DeweyGenres, d) IN IF p = <<>> THEN <<>> ELSE DeweyGenres[p]
    IN  FlattenSeq([k \in DOMAIN ddc |-> of(ddc[k])])

\* The first form that a Dewey number gives.
LiteraryForm(ddc) ==
    LET forms == SelectSeq(ddc, HasForm) IN IF forms = <<>> THEN <<>> ELSE FormGenres[forms[1][3]]

FacetGenres(subjects) ==
    FlattenSeq([k \in DOMAIN subjects |->
                   IF subjects[k] \in DOMAIN SubjectGenres THEN SubjectGenres[subjects[k]] ELSE <<>>])

\* A source of which no slug is in the vocabulary counts as empty.
Vocabulary(slugs) == SelectSeq(slugs, LAMBDA s : s \in Controlled)

\* The form is read whatever the class says.
RefinedAlways(slugs, ddc) == Vocabulary(LiteraryForm(ddc)) \o slugs

\* The Library of Congress does not tell a novel from an essay: of literature, Dewey does.
Refined(slugs, ddc) ==
    IF "literature" \in ToSet(slugs) THEN Vocabulary(LiteraryForm(ddc)) \o slugs ELSE slugs

\* The first source that has a slug of the vocabulary speaks.
Slugs(doc) ==
    LET lcc == Vocabulary(LccGenres(doc.lcc))
        ddc == Vocabulary(DdcGenres(doc.ddc))
    IN  CASE lcc # <<>> -> Refined(lcc, doc.ddc)
          [] lcc = <<>> /\ ddc # <<>> -> ddc
          [] OTHER -> Vocabulary(FacetGenres(doc.subjects))

DeriveGenres(doc) ==
    LET slugs == Slugs(doc)
        once == SelectSeq([k \in DOMAIN slugs |-> k], LAMBDA k : \A j \in 1 .. (k - 1) : slugs[j] # slugs[k])
    IN  [n \in 1 .. Min({MaxGenres, Len(once)}) |-> slugs[once[n]]]

(***************************************************************************)
(* Properties of a doc.                                                     *)
(***************************************************************************)

(***************************************************************************)
(* A stray edition does not speak for the work: taking a call number away    *)
(* whose class fewer editions have than another changes no genre.  Nor does *)
(* the Dewey number of a book that another discipline than literature       *)
(* claims.                                                                  *)
(***************************************************************************)
StraysAreSilent(doc) ==
    LET keys == {LccKey(doc.lcc[k]) : k \in Classed(doc.lcc)} IN
    /\ \A k \in DOMAIN doc.lcc :
        (\E key \in keys : Votes(doc.lcc, key) > Votes(doc.lcc, LccKey(doc.lcc[k]))) =>
            DeriveGenres(doc) = DeriveGenres([doc EXCEPT !.lcc = RemoveAt(@, k)])
    /\ \A key \in keys :
        (/\ \A k \in Classed(doc.lcc) : LccKey(doc.lcc[k]) = key
         /\ Vocabulary(ClassGenres[key]) # <<>>
         /\ "literature" \notin ToSet(Vocabulary(ClassGenres[key]))) =>
            DeriveGenres(doc) = DeriveGenres([doc EXCEPT !.ddc = <<>>, !.subjects = <<>>])
=============================================================================
