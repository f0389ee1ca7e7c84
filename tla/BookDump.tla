----------------------------- MODULE BookDump -----------------------------
(***************************************************************************)
(* Books from the monthly Open Library dumps: four passes that leave an    *)
(* artifact each, and a load.  The seeding script runs them in a directory *)
(* of its own (0 below) and rewrites what it selects; the incremental runs *)
(* them in a directory named after the edition, writes only the works the  *)
(* catalog lacks, and then records the edition.  Each pass streams one of  *)
(* the four files of a dump, through an alias of that file's own: the      *)
(* edition is what the alias of the works says, and the other three may be *)
(* behind it or ahead of it, at the start of a run and in its middle.      *)
(***************************************************************************)
EXTENDS Integers, Sequences, FiniteSets, SequencesExt

CONSTANTS Works,
          Editions,      \* sequence of dumps: [log, editions, works, authors]
          MinLog, MinEditions,       \* thresholds of the English stream
          MinLogEs, MinEditionsEs,   \* and of the Spanish one
          MinPages,
          Unwritable,    \* works whose row the database refuses
          MaxFaults      \* bound on killed runs, broken streams and failed checks

VARIABLES alias, watermark, dirs, catalog, run, faults

vars == <<alias, watermark, dirs, catalog, run, faults>>

Files == {"log", "editions", "works", "authors"}

Seed == 0
Unread == 0
\* of: the edition that each artifact was made of, Unread before there is one.
Empty == [of |-> [file \in Files |-> Unread],
          counts |-> <<>>, selected |-> {}, records |-> <<>>, names |-> {}]
AtRest == [step |-> "idle", dir |-> Seed, force |-> FALSE]

\* alias: the edition that is published of each file.
\* catalog: the authors credited on each work that is there.
Init ==
    /\ alias = [file \in Files |-> 1] /\ watermark = 0
    /\ dirs = [d \in 0 .. Len(Editions) |-> Empty]
    /\ catalog = [w \in {} |-> {}]
    /\ run = AtRest /\ faults = 0

Publish ==
    /\ \E file \in Files : /\ alias[file] < Len(Editions)
                           /\ alias' = [alias EXCEPT ![file] = @ + 1]
    /\ UNCHANGED <<watermark, dirs, catalog, run, faults>>

-----------------------------------------------------------------------------
(* The filter. *)

\* A work under both thresholds is not worth aggregating.
Floor == IF MinLog < MinLogEs THEN MinLog ELSE MinLogEs

Shelvings(e, w) == Cardinality({k \in DOMAIN Editions[e].log : Editions[e].log[k] = w})
Counted(e) == [w \in {x \in Works : Shelvings(e, x) >= Floor} |-> Shelvings(e, w)]

\* What an edition that states no page count has; a 0 that is stated counts.
Unpaged == -1

\* What a work is told by its editions; one edition may list several works.
Aggregate(e, w) ==
    LET all == Editions[e].editions
        mine == {k \in DOMAIN all : w \in all[k].works}
    IN  [editions |-> Cardinality(mine), langs |-> UNION {all[k].langs : k \in mine},
         pages |-> [k \in {x \in mine : all[x].pages # Unpaged} |-> all[k].pages]]

\* The n-th of the page counts, in ascending order.
Nth(pages, n) ==
    CHOOSE p \in {pages[k] : k \in DOMAIN pages} :
        /\ Cardinality({k \in DOMAIN pages : pages[k] < p}) < n
        /\ Cardinality({k \in DOMAIN pages : pages[k] =< p}) >= n

\* The mean of the middle two, rounded up.
Median(pages) ==
    LET n == Cardinality(DOMAIN pages)
    IN  (Nth(pages, (n + 1) \div 2) + Nth(pages, n \div 2 + 1) + 1) \div 2

Clears(shelved, agg, minLog, minEditions) ==
    /\ shelved >= minLog /\ agg.editions >= minEditions
    /\ DOMAIN agg.pages # {} /\ Median(agg.pages) >= MinPages

\* A work in both languages is tried in both streams.
SelectsEither(shelved, agg) ==
    \/ "eng" \in agg.langs /\ Clears(shelved, agg, MinLog, MinEditions)
    \/ "spa" \in agg.langs /\ Clears(shelved, agg, MinLogEs, MinEditionsEs)

\* select_language: the English stream has the work, or no stream has.
Selects(shelved, agg) ==
    IF "eng" \in agg.langs THEN Clears(shelved, agg, MinLog, MinEditions)
    ELSE "spa" \in agg.langs /\ Clears(shelved, agg, MinLogEs, MinEditionsEs)

\* work id -> the ids of its authors.
WorkRecords(e, wanted) ==
    [w \in wanted \cap DOMAIN Editions[e].works |-> Editions[e].works[w]]

AuthorNames(e, wanted) == wanted \cap Editions[e].authors

\* The page counts with no more than half of the others on either side: one or two values.
Middle(pages) ==
    LET Half(S) == 2 * Cardinality(S) =< Cardinality(DOMAIN pages)
    IN  {pages[k] : k \in {x \in DOMAIN pages :
            /\ Half({j \in DOMAIN pages : pages[j] < pages[x]})
            /\ Half({j \in DOMAIN pages : pages[j] > pages[x]})}}

\* The works to be held by what is listed in the files that were read, whatever the passes prune.
Eligible(read) ==
    {w \in DOMAIN Editions[read.works].works :
        LET eds == Editions[read.editions].editions
            mine == {k \in DOMAIN eds : w \in eds[k].works}
            middle == Middle([k \in {x \in mine : eds[x].pages # Unpaged} |-> eds[k].pages])
            english == \E k \in mine : "eng" \in eds[k].langs
            spanish == \E k \in mine : "spa" \in eds[k].langs
        IN  /\ english \/ spanish
            /\ Shelvings(read.log, w) >= (IF english THEN MinLog ELSE MinLogEs)
            /\ Cardinality(mine) >= (IF english THEN MinEditions ELSE MinEditionsEs)
            /\ \E p, q \in middle : middle = {p, q} /\ p + q >= 2 * MinPages - 1}

-----------------------------------------------------------------------------
(* The phases. *)

Fault == faults < MaxFaults /\ faults' = faults + 1

\* The edition that is published: where the alias of the works points.
Edition == alias.works

StartIn(dir, force) ==
    /\ run.step = "idle" /\ run' = [step |-> "log", dir |-> dir, force |-> force]
    /\ UNCHANGED <<alias, watermark, dirs, catalog>>

\* The edition already recorded is not read again...
StartIncremental == Edition # watermark /\ StartIn(Edition, FALSE) /\ UNCHANGED faults

\* ... unless by hand, with --force, which the passes are not told.
Redo == StartIn(Edition, FALSE) /\ Fault

\* By hand: resumed where it was left, or with --force each pass over again.
StartSeed == (\E force \in BOOLEAN : StartIn(Seed, force)) /\ Fault

Here == dirs[run.dir]

\* An artifact appears whole or not at all; one that is there is kept, unless forced.
Phase(file, made, next) ==
    /\ run.step = file /\ run' = [run EXCEPT !.step = next]
    /\ UNCHANGED <<alias, watermark, catalog, faults>>
    /\ dirs' = IF Here.of[file] # Unread /\ ~run.force THEN dirs
               ELSE [dirs EXCEPT ![run.dir] = [made EXCEPT !.of[file] = alias[file]]]

ReadingLog == Phase("log", [Here EXCEPT !.counts = Counted(alias.log)], "editions")
EditionsPass ==
    LET Keeps(w) == \E agg \in {Aggregate(alias.editions, w)} : Selects(Here.counts[w], agg)
    IN  Phase("editions", [Here EXCEPT !.selected = {w \in DOMAIN Here.counts : Keeps(w)}], "works")
WorksPass ==
    Phase("works", [Here EXCEPT !.records = WorkRecords(alias.works, Here.selected)], "authors")
AuthorsPass ==
    LET wanted == UNION {Here.records[w] : w \in DOMAIN Here.records}
    IN  Phase("authors", [Here EXCEPT !.names = AuthorNames(alias.authors, wanted)], "load")

\* Credits are added, never taken back.
Credited(w) == (Here.records[w] \cap Here.names)
                  \cup (IF w \in DOMAIN catalog THEN catalog[w] ELSE {})

\* phase_load, batch by batch: a killed run leaves the batches it had committed.
Load ==
    /\ run.step = "load"
    /\ LET known == IF run.dir = Seed THEN {} ELSE DOMAIN catalog
           todo == (DOMAIN Here.records \cap Here.selected) \ (known \cup Unwritable)
       IN  \E written \in SUBSET todo :
              /\ \/ written = todo /\ run' = [run EXCEPT !.step = "check"] /\ UNCHANGED faults
                 \/ Fault /\ run' = AtRest
              /\ catalog' = [w \in DOMAIN catalog \cup written |->
                                IF w \in written THEN Credited(w) ELSE catalog[w]]
    /\ UNCHANGED <<alias, watermark, dirs>>

\* What is recorded is where the alias points when the pass is over.
AdvanceToAlias ==
    /\ run.step = "check" /\ run' = AtRest
    /\ run.dir # Seed /\ watermark' = Edition
    /\ UNCHANGED <<alias, dirs, catalog, faults>>

\* _edition_still_published: what the alias says now, or that it could not be asked.
StillPublished == (run.dir = Edition /\ UNCHANGED faults) \/ Fault

Advance ==
    /\ run.step = "check" /\ run.dir # Seed /\ run' = AtRest
    /\ \/ StillPublished /\ watermark' = run.dir
       \/ run.dir # Edition /\ UNCHANGED <<watermark, faults>>
    /\ UNCHANGED <<alias, dirs, catalog>>

\* The seeding script records no edition.
EndSeed ==
    /\ run.step = "check" /\ run.dir = Seed /\ run' = AtRest
    /\ UNCHANGED <<alias, watermark, dirs, catalog, faults>>

\* A stream breaks after its first line, or the runner is killed: no artifact is left half done.
Killed ==
    /\ run.step # "idle" /\ Fault /\ run' = AtRest
    /\ UNCHANGED <<alias, watermark, dirs, catalog>>

Go == StartIncremental \/ ReadingLog \/ EditionsPass \/ WorksPass \/ AuthorsPass \/ Load \/ Advance
         \/ EndSeed
Next == Go \/ Redo \/ StartSeed \/ Killed \/ Publish

\* incremental-sync.yml runs the script every day.
Fairness == WF_vars(Go)

-----------------------------------------------------------------------------
(***************************************************************************)
(* What the watermark claims: when it names the edition that is published, *)
(* all four passes over it are done, the works were read from that very    *)
(* edition, and the catalog holds every work that is eligible by the files *)
(* that were read, except the ones that cannot be written.  Nothing of a   *)
(* pass that was killed, resumed or overtaken by a new edition gets in.    *)
(* That the log and the editions are of the same month is not claimed:     *)
(* their aliases are resolved by no one.                                   *)
(***************************************************************************)
RecordedMeansDiffed ==
    watermark = Edition =>
        LET read == dirs[watermark].of
        IN  /\ \A file \in Files : read[file] # Unread
            /\ read.works = watermark
            /\ Eligible(read) \ Unwritable \subseteq DOMAIN catalog

(***************************************************************************)
(* The directory named after the published edition has the works of that   *)
(* edition, and of them exactly those that are eligible by the files that  *)
(* its passes read: no works of an older edition were resumed there, each  *)
(* artifact is made of the one before it, and a work in both languages     *)
(* comes in by the English thresholds only.                                *)
(***************************************************************************)
DirectoryHoldsItsEdition ==
    LET here == dirs[Edition]
    IN  here.of.works # Unread =>
            here.of.works = Edition /\ DOMAIN here.records = Eligible(here.of)

(***************************************************************************)
(* Every edition is recorded in the end: neither a row that is refused     *)
(* every month nor a killed run wedges the lane.                           *)
(***************************************************************************)
Diffed == watermark = Edition
EditionsGetDiffed == <>[]Diffed
=============================================================================
