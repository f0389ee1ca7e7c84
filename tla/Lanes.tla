------------------------------- MODULE Lanes -------------------------------
(***************************************************************************)
(* The jobs that fill and refresh the catalog, each against its own source *)
(* and its own tables: the release and promotion lanes of films and games, *)
(* the slices of games and books, the dump of Open Library, the credits    *)
(* that are missing, and the passes over Wikidata and the embeddings.  A   *)
(* behaviour belongs to one job; the instances rename one set of           *)
(* variables.                                                              *)
(***************************************************************************)
EXTENDS Integers, Sequences, FiniteSets

CONSTANTS \* Releases: the ids of TMDB, those that pass the gate, their years; days; bounds.
          Films, NewFilms, YearOfFilm, Years, MaxGap, Retention, LastDay, MaxFilmFaults,
          \* The same for two films at a time.
          PairOfFilms, NewInPair, YearInPair, LastPairDay, MaxPairFaults,
          \* Games: the games of IGDB, the catalogued ones, limits of a lane, bounds.
          IgdbGames, CataloguedGames, PageSize, MaxItems, Lookback, LastTick, MaxRuns, MaxEvents,
          \* Slices of games: targets, catalogued games, limits, bounds.
          GameTargets, LinkedGames, GameSlice, GameChunk, MaxAttempts, MaxGameFaults,
          MaxReclassified,
          \* Slices of books: works, people, what the source has of them, limits, a bound.
          BookIds, BookWriters, Answered, Detailed, Described, AuthorsOf, BookSlice, BookChunk,
          MaxBookFaults,
          \* The dump: works, what each edition lists, thresholds, a bound.
          Works, Editions, MinLog, MinEditions, MinLogEs, MinEditionsEs, MinPages, Unwritable,
          MaxDumpFaults,
          \* Missing credits: items, the linked ones, books, who is named, who is refused, runs
          \* that overlap, a limit, a bound.
          CreditItems, Linked, CreditBooks, PeopleNamed, Rejected, CreditRuns, CreditChunk,
          MaxCreditFaults,
          \* Wikidata: items and their types, entities and what they say, limits, a bound.
          WikidataItems, Types, TypeOfItem, LinkedFirst, Entities, Carries, Statements,
          AnchorBatch, RelationBatch, MaxWikidataFaults,
          \* Embeddings: items and their types, limits, passes that overlap, models, bounds.
          EmbeddedItems, TypeOfEmbedded, Cap, Overrides, EmbeddingBatch, Passes, Models,
          MaxEdits, MaxEmbeddingFaults

ASSUME LanesAssumption == LastDay \in Nat /\ LastPairDay \in Nat

VARIABLES part,
          v1, v2, v3, v4, v5, v6, v7, v8, v9, v10, v11, v12

\* What the parts call the variables.
faults == v1
today == v2
early == v3
catalog == v4
run == v5
tmdb == v6
targets == v7
exports == v8
mark == v9
settled == v10
skipped == v11

now == v1
events == v2
marks == v3
walk == v5
igdb == v6
runs == v8
unasked == v9
refused == v10
shifted == v11
complete == v12

stale == v2
attempts == v3
unreachable == v4
entered == v5
slice == v7
changes == v8

job == v3
overview == v4
credits == v5

alias == v2
watermark == v3
dirs == v6

unheard == v2
people == v4
sealed == v5
answered == v6

rows == v2
cursor == v3
edges == v4
pass == v5
asked == v6

text == v2
model == v3
store == v4
edits == v6

Releases == INSTANCE ReleaseLane WITH
    Ids <- Films, New <- NewFilms, YearOf <- YearOfFilm, MaxFaults <- MaxFilmFaults
Pair == INSTANCE ReleaseLane WITH
    Ids <- PairOfFilms, New <- NewInPair, YearOf <- YearInPair, LastDay <- LastPairDay,
    MaxFaults <- MaxPairFaults
Walks == INSTANCE GameLanes WITH
    Games <- IgdbGames, Catalogued <- CataloguedGames
Slices == INSTANCE GameSlices WITH
    Ids <- GameTargets, Catalogued <- LinkedGames, SliceSize <- GameSlice,
    ChunkSize <- GameChunk, MaxFaults <- MaxGameFaults, MaxChanges <- MaxReclassified
Books == INSTANCE BookSlices WITH
    Books <- BookIds, Writers <- BookWriters, SliceSize <- BookSlice, ChunkSize <- BookChunk,
    MaxFaults <- MaxBookFaults
Dump == INSTANCE BookDump WITH MaxFaults <- MaxDumpFaults
Credits == INSTANCE MissingCredits WITH
    Items <- CreditItems, ByAuthor <- CreditBooks, Names <- PeopleNamed, Runs <- CreditRuns,
    ChunkSize <- CreditChunk, MaxFaults <- MaxCreditFaults
Wikidata == INSTANCE Wikidata WITH
    Items <- WikidataItems, TypeOf <- TypeOfItem, BatchSize <- AnchorBatch,
    MaxFaults <- MaxWikidataFaults
Embeddings == INSTANCE Embeddings WITH
    Items <- EmbeddedItems, TypeOf <- TypeOfEmbedded, BatchSize <- EmbeddingBatch,
    Runs <- Passes, MaxFaults <- MaxEmbeddingFaults

\* What a dump lists: readings and editions in finite number, works of the source.
ASSUME DumpAssumption ==
    /\ Len(Editions) \in Nat \ {0}
    /\ MinLog \in Int /\ MinLogEs \in Int /\ MinEditions \in Int /\ MinEditionsEs \in Int
    /\ MinPages \in Int
    /\ \A e \in 1 .. Len(Editions) :
          LET dump == Editions[e]
          IN  /\ IsFiniteSet(DOMAIN dump.log) /\ IsFiniteSet(DOMAIN dump.editions)
              /\ DOMAIN dump.works \subseteq Works
              /\ \A k \in DOMAIN dump.editions :
                    dump.editions[k].pages \in Nat \cup {Dump!Unpaged}

\* Finitely many entities, at least one type, and limits that are numbers.
ASSUME WikidataAssumption ==
    /\ IsFiniteSet(Entities) /\ Len(Types) \in Nat \ {0}
    /\ AnchorBatch \in Nat /\ RelationBatch \in Nat /\ LinkedFirst \in Seq(WikidataItems)

\* Ids of IGDB, and the limits of a walk.
ASSUME GamesAssumption ==
    /\ IsFiniteSet(IgdbGames) /\ IgdbGames \subseteq Nat \ {0}
    /\ PageSize \in Nat \ {0} /\ MaxItems \in Nat /\ Lookback \in Nat

\* Targets with their numbers, and the sizes of a slice and of a request.
ASSUME SlicesAssumption ==
    /\ IsFiniteSet(GameTargets) /\ GameTargets \subseteq Int /\ LinkedGames \subseteq GameTargets
    /\ GameSlice \in Nat /\ GameChunk \in Nat

\* What a part does not use.
Past5 == <<v6, v7, v8, v9, v10, v11, v12>>
Past6 == <<v7, v8, v9, v10, v11, v12>>
Past8 == <<v9, v10, v11, v12>>
Past11 == <<v12>>

Zero5 ==
    /\ v6 = 0 /\ v7 = 0 /\ v8 = 0 /\ v9 = 0 /\ v10 = 0 /\ v11 = 0 /\ v12 = 0
Zero6 ==
    /\ v7 = 0 /\ v8 = 0 /\ v9 = 0 /\ v10 = 0 /\ v11 = 0 /\ v12 = 0
Zero8 ==
    /\ v9 = 0 /\ v10 = 0 /\ v11 = 0 /\ v12 = 0
Zero11 ==
    /\ v12 = 0

Init ==
    \/ part = "releases" /\ Releases!Init /\ Zero11
    \/ part = "two_releases" /\ Pair!Init /\ Zero11
    \/ part = "games" /\ Walks!Init
    \/ part = "game_slices" /\ Slices!Init /\ Zero8
    \/ part = "book_slices" /\ Books!Init /\ Zero5
    \/ part = "dump" /\ Dump!Init /\ Zero6
    \/ part = "credits" /\ Credits!Init /\ Zero6
    \/ part = "wikidata" /\ Wikidata!Init /\ Zero6
    \/ part = "embeddings" /\ Embeddings!Init /\ Zero6

Next ==
    /\ UNCHANGED part
    /\ \/ part = "releases" /\ Releases!Next /\ UNCHANGED Past11
       \/ part = "two_releases" /\ Pair!Next /\ UNCHANGED Past11
       \/ part = "games" /\ Walks!Next
       \/ part = "game_slices" /\ Slices!Next /\ UNCHANGED Past8
       \/ part = "book_slices" /\ Books!Next /\ UNCHANGED Past5
       \/ part = "dump" /\ Dump!Next /\ UNCHANGED Past6
       \/ part = "credits" /\ Credits!Next /\ UNCHANGED Past6
       \/ part = "wikidata" /\ Wikidata!Next /\ UNCHANGED Past6
       \/ part = "embeddings" /\ Embeddings!Next /\ UNCHANGED Past6

vars == <<part, v1, v2, v3, v4, v5, v6, v7, v8, v9, v10, v11, v12>>

Spec == Init /\ [][Next]_vars

-----------------------------------------------------------------------------
(***************************************************************************)
(* What an export that was processed lists is known, was refused, or was   *)
(* skipped and reported.                                                   *)
(***************************************************************************)
ReleasesAreAccounted ==
    /\ part = "releases" => Releases!ReleasesAreAccounted
    /\ part = "two_releases" => Pair!ReleasesAreAccounted

(***************************************************************************)
(* The lanes of IGDB: behind their watermarks no new game is unasked and   *)
(* no update unseen, except for what is known to escape the walk, and a    *)
(* sweep that counts as complete saw every page.  No game enters from a    *)
(* payload outside the allowlist, whenever it was reclassified.            *)
(***************************************************************************)
IgdbLanesMissNothing ==
    /\ part = "games" => /\ Walks!NewGamesAreAdmitted
                         /\ Walks!CatalogFollowsUpdates
                         /\ Walks!SweepIsWhole
    /\ part = "game_slices" => Slices!AllowlistGuardsAdmission

(***************************************************************************)
(* A watermark that names the published edition of the dump means that the *)
(* catalog has what is eligible by the files that its passes read, the     *)
(* works in that very edition, although passes are resumed, killed and     *)
(* overtaken, and the aliases of the other three files move on their own.  *)
(***************************************************************************)
RecordedMeansDiffed == part = "dump" =>
    Dump!RecordedMeansDiffed /\ Dump!DirectoryHoldsItsEdition

(***************************************************************************)
(* An item is sealed only with an answer of the source and with everybody  *)
(* whom the source names, but for those who are refused and the authors of *)
(* a book whose own request was given up on.                               *)
(***************************************************************************)
SealedMeansAnswered == part = "credits" => Credits!SealedMeansAnswered

(***************************************************************************)
(* The cursor of Wikidata stays behind the work it stands for, no relation *)
(* lacks its statement, and the two pages of a relation agree on it.  A    *)
(* stored vector is never taken for one of a text it was not made of.      *)
(***************************************************************************)
PassesAreTruthful ==
    /\ part = "wikidata" => /\ Wikidata!CursorFollowsTheWork
                            /\ Wikidata!EdgesAreGrounded
                            /\ Wikidata!PagesAgree
    /\ part = "embeddings" => Embeddings!StalenessIsVisible

(***************************************************************************)
(* A request that fails erases nothing of a book: a synopsis goes only     *)
(* when the source has none, and no credit goes at all.                    *)
(***************************************************************************)
FailuresEraseNothing == [][part = "book_slices" => Books!StepErasesNothing]_vars
=============================================================================
