# backlogg: TLA+ models, checks and proofs

backlogg is a catalogue of movies, series, books and games that people rate, review
and put on their lists. The backend is one asynchronous FastAPI process over PostgreSQL
(READ COMMITTED, no explicit locks, one session and one transaction per request),
fed by nightly jobs that hydrate the catalog from TMDB, IGDB and Open Library.

## Inventory

| Part (`backlogg/`) | State | Operations | Talks to | Hard about it | What makes it correct |
|---|---|---|---|---|---|
| ratings | `user_ratings`, aggregates on the items | rate, un-rate, recompute one or many items | feed, catalog rows | requests overlap between any two SQL statements; ORM copies go stale | a review and its event stay together; aggregates are those of the visible reviews |
| moderation | `is_hidden`, `is_banned`, `admin_actions` | hide, unhide, ban, unban | ratings | captured items go stale; batched locks | atomic, audited exactly when committed |
| accounts | `users` | register, edit, erase | everything by cascade | erasure against the user's own requests | nothing of an erased account is left |
| sessions | `refresh_tokens`, `account_tokens` | login, refresh, logout, reset | accounts | check, then act | a token is used once; a reset ends the sessions |
| feed, library, follows, notifications | `activity_events`, `library_entries`, `follows`, `notifications` | set a status, follow, like, fan-out | each other | events once per transition; side effects after the commit | a completion is announced once, no notification without its cause |
| reports | `review_reports` | report, resolve | moderation | duplicates | one report per user and review |
| admin | locked fields, roles, audit | edit an item, grant a role | catalog | read-modify-write of `locked_fields` | a locked field is never overwritten by a sync |
| catalog identity and bulk load (`shared/`) | items, `external_ids` | realign slugs, upsert, link; batch or single | every writer of the catalog | renames, homonyms, other writers | one row per slug, one row per external id |
| scheduler: seeding | `seed_targets`, `last_synced_at` | one slice of `sync_movies`, `sync_series`, `sync_games`, `sync_books` | catalog, sources | overlapping slices, partial failure, crashes, 404s | the work list empties, the rotation reaches every item, budgets are spent on answers only |
| scheduler: incremental lanes | `sync_watermarks` | new releases, promotion, changes | seeding, catalog | a watermark may only pass what was covered | nothing is skipped |
| enumeration scripts | `seed_targets` | list targets, keep their book-keeping | seeding | re-enumeration | progress is never reset |
| catalog pages, search, trending | caches | cold miss, fan-out, cached answers | identity, sources | a request writes the catalog too | same identity rule at every door |
| recommendations | embeddings, relations | rank, resume a pass | Wikidata, catalog | resumable batches | a pass ends and misses nothing |
| core | rate limits, TTL cache | check, get, set | all | window edges | never more than the limit in a window |
| adapters, metrics, e-mail, config, web frontend, migrations | - | I/O, parsing, rendering | - | - | - |

## Modules

| Module | Models | Composes |
|---|---|---|
| `RatingAggregates` | the two recomputes of an item's mean and count | |
| `Ratings` | rate, un-rate, hide, ban, erase as concurrent transactions, one action per SQL statement | `RatingAggregates` |
| `ReviewLedger` | what those requests promise about the reviews, one atomic step each | refined by `Ratings` |
| `Accounts` | registration, sessions, mailed links, avatars, roles, bans, erasure | |
| `Community` | library, follows, likes, feed, notifications, reports | |
| `CatalogWriters` | two upserts and two edits of one catalog table, statement by statement | |
| `Search` | a page of search with its fan-out, the rate limit and the marker in the cache | |
| `CatalogIdentity` | what one write transaction does to a catalog table and its links | |
| `CreditRows` | genres, companies, people and credits, by the writer of one item and by the writer of a batch | |
| `Seeding` | a slice of `sync_movies` / `sync_series`, one action per transaction or round of requests | `CatalogIdentity` |
| `GameSlices`, `BookSlices` | the nightly slices of games and of books | |
| `MissingCredits` | the job that fetches the people of items that have none | |
| `ChangeFeed` | how a range of days becomes requests to `/changes`: plan, windows, recursive walk | |
| `ChangesLane` | the changes lane of the incremental job against a source that goes on changing | `ChangeFeed` |
| `ReleaseLane` | the lane of new releases and the promotion of films and series | |
| `GameLanes` | the lanes of new and changed games and their promotion sweep | |
| `BookDump` | the passes over the Open Library dumps, by the seeding script and by the incremental | |
| `BookGenres` | the genres of a book from its call numbers and subjects | |
| `Wikidata` | the anchor pass and the relations pass | |
| `EmbeddingQuotas`, `Embeddings` | the split of the cap of vectors; the embedding pass | `Embeddings` extends `EmbeddingQuotas` |
| `Discovery` | trending, recommendations and similar items, as functions of what they read | |
| `MCRatings`, `MCSeeding`, `MCChangesLane` | instances of one module each | |
| `Requests`, checked as `MCRequests` | the handlers of the API | `Accounts`, `Community`, `CatalogWriters` and `Search` |
| `Lanes`, checked as `MCLanes` | the jobs beside the seeding | `ReleaseLane`, `GameLanes`, `GameSlices`, `BookSlices`, `BookDump`, `MissingCredits`, `Wikidata`, `Embeddings` |
| `MCAlgorithms` | `ChangeFeed`, `RatingAggregates`, `CreditRows`, `EmbeddingQuotas`, `Discovery`, `BookGenres` | |
| `Ratings_proofs`, `Accounts_proofs`, `Seeding_proofs`, `ChangesLane_proofs`, `GameLanes_proofs`, `Requests_proofs`, `Lanes_proofs`, `MCAlgorithms_proofs` | theorems and proofs | |

`MCRequests` and `MCLanes` put several components into one instance. Their components share
no state in the code either, or only state that each of them models for itself, so a
behaviour picks one `part` and stays in it: the state space is the sum of those of the parts
and not their product. The variables `v1`, `v2`, ... are lent to one part at a time, and what
a part does not use stays 0. `MCAlgorithms` asks a pure part one question per behaviour.

### Ratings

A row has a committed and a newest version (`rating`, `ratingW`); they differ only while
a transaction holds its row lock (`ratingLock`). A statement reads committed rows and its
own newest ones, which is READ COMMITTED; `Commit` publishes, `Abort` restores. The
program counter of a request names its next statement:

| Code | Actions |
|---|---|
| `rate_item` | `Begin`, `LoadItem`, `UpsertRating`, `SelectAggregate`, `UpdateItem`, `WriteEvent`, `Commit` |
| `delete_item_rating` | `Begin`, `LoadItem`, `FindOwnRating`, `DeleteRating`, `SelectAggregate`, `UpdateItem`, `Commit` |
| `set_review_hidden` | `Begin`, `WriteHidden`, `SelectAggregate`, `LoadItem`, `UpdateItem`, `Commit` |
| `set_user_banned` | `Begin`, `CaptureItems`, `WriteBanned`, `ResetItem`*, `AggregateItems`, `Commit` |
| `delete_current_user` | `Begin`, `CaptureItems`, `DeleteUser`, `CascadeRatings`, `ResetItem`*, `AggregateItems`, `Commit` |
| a lost connection or process | `Crash` |
| PostgreSQL | `Blockers` (row locks, foreign-key share locks), `DeadlockVictim` |

The ORM keeps the copy it loaded and writes only the columns that differ from it:
`UpdateItem` compares with `mem.seen`, the copy of the request, and not with the row.
Scores are half stars, means hundredths. `solo` is history: no overlapping request could
meet this one on an item.

### CatalogIdentity and Seeding

A catalog is the sequence of its rows by id, each with its slug, its link and its title
lock; `stale` is the same rows by `last_synced_at`. A write transaction realigns the
whole batch (`Renamed`, `Aligned`), drops what `_build_record` rejects and what shares a
slug (`Kept`), upserts by slug (`Upserted`) and links (`Relinked`). The realignment comes
before the validation, so a rejected payload can still rename its row, as in the code.

| Code | Actions |
|---|---|
| `_read_seed_work_list` | `ReadPending`, `ReadRotation` (two statements, two snapshots) |
| the fetch phase of a chunk | `FetchChunk`: each request raises, answers 404, or serves a payload |
| `_write_batch`, `BatchWriter` | `WriteBatch`, or `FailBatch` and the per-item route |
| `_write_items_individually` | `WriteSingle` |
| `_stamp_seed_outcomes` | `Stamp`, or the loss of the whole book-keeping |
| the process dies | `Crash` |
| the enumeration, TMDB, the admins, the item pages | `Enumerate`, `SourceMoves`, `EditCatalogItem`, `WriteElsewhere` |

One write transaction is one step here. What two of them do to each other between statements
(the savepoint of the rename, two writers of one new id) is `CatalogWriters`.
`answered` and `reportedGone` are history: what the source said.

### ChangeFeed and ChangesLane

A day is a number. A change is the day TMDB stamped it with and the entry. `stale` holds
the changes the catalog's copy of an entry does not reflect; a payload under way collects
in `late` what came after it was fetched, and writing it takes away what it reflects and
leaves `late` behind. TMDB keeps `Retention` days, answers for `Span` days at a time and
serves at most `Cap` entries of one request.

| Code | Actions or operators |
|---|---|
| `change_windows`, `split_change_window` | `ChangeWindows` (its turn: `NextWindow`), `Halves` |
| `plan_change_windows` | `PlanStart`, `Uncovered`, `PlanWindows` |
| `_walk_change_window`, `fetch_change_ids` | `Leaves`, `FirstTruncated`, `CoveredThrough` |
| `_sync_tmdb_incremental` | `Start` (reads the clock), `Crash` (the lane raised, or the process died) |
| `_incremental_changes` | `Plan`, `FetchFeed` or `FeedFails`, `WriteDetails`, `Save`, once per window |
| `_hydrate_ids` | `FetchDetails`, `WriteDetails` (`Flush`) |
| TMDB, and whoever else writes the catalog | `Tick`, `Change`, `WriteElsewhere` |

`Runs` is the set of runs that may overlap: the workflow names no `concurrency` group, so a
run dispatched by hand may meet the scheduled one. `Overnight` says whether a run may be
under way at midnight; `Sequential` excludes both at a time, because then the older payload
of one run can be written behind the watermark of the other and a change of the day before
is lost (no document speaks of that case).

`FetchFeed` is one step that meets what the walk guarantees (`WholeThrough`), and the run
`algorithms` checks the recursive walk itself against that guarantee. The chunks of
`_hydrate_ids` are merged into one fetch and one write; the rows of a write succeed or are
rejected one by one, as in `Seeding`. A 404 leaves nothing to reflect, so it clears the
entry. Rejected rows (`refused`) do not hold the watermark back: the code says so for the
diff lane (`jobs.py:1324-1326`) and does it here.

### Accounts

An account, a session and a link are rows, numbered; a request is a transaction that has
read some of them and will write. Its record holds what it read, and `raced` says that
another request changed something of the same account in between; `tainted`, `barred`,
`uses` and `drifted` are the same kind of history on rows. Time is a small counter, for the
lives of sessions and links.

| Code | Actions |
|---|---|
| `register_user` | `Register`, `InsertUser` (the constraint decides), `SendMail` |
| `login_user` | `Login`, `IssueSession` |
| `refresh_tokens` | `ReadSession`, `ReadOwner`, `Rotate` |
| `logout_user` | `ReadOwnSession`, `Logout` |
| `request_password_reset`, `reset_password`, `request_email_verification`, `confirm_email_verification` | `AskLink`, `InsertLink`, `SendMail`, `ReadLink`, `ResetPassword`, `ConfirmEmail` |
| `upload_avatar`, `delete_avatar`, `delete_current_user` | `PutObject`, `SaveAvatar`, `DropOld`, `ClearAvatar`, `DropFirst`, `Erase`: database and bucket are two systems, written in an order |
| `set_user_admin_role`, `set_user_banned` | `ReadTarget`, `SetRole`, `SetBanned` |

### Community

Requests that write in several transactions have a slot (`requests`); the others are one
step (`AtOnce`). Events and notifications are sets of rows, told apart by the number (`serial`)
that their table gave them. `WriteStatus` decides whether a completion is new from the status that
`ReadPrevious` saw; `Fanout` and `CreateNotification` run after the commit of what they
announce and can fail without it (`FanoutFails`, `NotificationFails`). `InsertReport` and
`SelectExisting` are the two statements of `create_report_if_not_exists`. `Cascade` and
`DeleteUser` are the foreign keys. `completions`, `announced`, `told`, `lost` and
`answered` are history.

### CatalogWriters

A writer sees the committed table and its own rows (`Sees`); a row or a key that another
transaction has written is waited for (`HeldRow`, `HeldSlug`, `HeldLink`).

| Code | Actions |
|---|---|
| `align_slugs_to_external_ids` | `Align`, `ReadOwner`, `Rename` (a savepoint), `KeepCurrent` |
| `upsert_movie` and its relatives, `_locked_aware_update` | `Upsert` |
| `upsert_external_id`, `record_link_skip`, `record_identity_skip` | `ReadCandidates`, `Link` |
| `get_db` | `Commit`, `Abort` |
| `edit_catalog_item` | `ReadItem`, `WriteItem` |

### Search

`Ask`, then `AnswerLocally`, `Refuse` (rate limit) or `FanOut`, `Ingest`, `Answer`. The
limiter and the cache are plain dictionaries of one process: `Consume` and `Mark` happen
between two awaits, which is why a check and its mark are in one step and a fan-out and its
ingestion are not.

### The other jobs

| Code | Module: actions |
|---|---|
| `_incremental_new_releases`, `_incremental_promotion` | `ReleaseLane`: `Start`, `Rebaseline` or `AlreadyProcessed` or `ReadDiff`, `Hydrate`, `Advance`, `Sweep`, `HydrateTarget`, `Fail` |
| `sync_games_incremental` | `GameLanes`: `Start`, `FetchPage`, `WriteNew` or `WriteUpdated`, `Advance`, `SweepPage`, `Hydrate`, `Fail` |
| `sync_games` | `GameSlices`: `Start`, `FetchChunk` or `FetchFails`, `WriteBatch`, `Stamp`, `Crash` |
| `sync_books` | `BookSlices`: `Start`, `FetchChunk` or `ChunkFails`, `Flush`, `Killed` |
| `seed_openlibrary_books`, `incremental_sync` | `BookDump`: `StartSeed`, `StartIncremental`, `Redo`, `ReadingLog`, `EditionsPass`, `WorksPass`, `AuthorsPass`, `Load`, `Advance`, `EndSeed`, `Killed` |
| `sync_missing_credits` | `MissingCredits`: `Start`, `FetchChunk`, `Write`, `Finish`, `Crash` |
| `run_anchor_pass`, `run_relations_pass` | `Wikidata`: `Start`, `ReadAnchors`, `WriteAnchors`, `ReadRelations`, `WriteRelations`, `Fail` |
| `run_embedding_pass` | `Embeddings`: `Start`, `NextType`, `ReadBatch`, `WriteBatch`, `Fail` |

What the sources and the rest of the system do meanwhile is in the same modules: `Midnight`,
`Become`, `PublishExport` (TMDB), `Publish`, `Touch`, `Vote`, `Reclassify` (IGDB), `Publish` (a
new edition of one of the four files of Open Library, behind the alias of that file),
`LinkItem`, `Edit`, `Deploy`.

### What only computes

`CreditRows` is two programs for one job: `WriteOne`, folded over the payloads, and
`WriteBatch`. `Discovery` and `BookGenres` are written as sets and sequences, each step of the
query or of the function an operator. What a query leaves open is part of the question there:
`Readings` are the orders in which equals may come, of which each request takes one, and `walks`
are what the approximate index reaches.

## Runs

| Run | Question | Result | Bounds |
|---|---|---|---|
| `ratings` | do two concurrent requests of any kind keep reviews, events and audit consistent? | holds; 348,246 states | two users, two items, two requests from the full menu, two initial tables, two scores whose mean needs rounding |
| `ratings_progress` | does every request end? | holds; 127,963 states | three requests that lock the same rows in different orders: the smallest number with a cycle of two batches and a writer |
| `ratings_drift` | do the aggregates match the visible reviews once nothing runs? | violated | two users who rate one item, which nobody has rated before |
| `requests` | do overlapping requests of accounts, community, catalog writers and search keep what they checked and then relied on? | holds; 831,755 states up to symmetry | two requests in flight in each part; up to three begun (accounts) or two with three short ones (community); two writers and two administrators; two searches of a client whose rate is two |
| `seeding` | do overlapping slices keep budgets and keys? | holds; 937,844 states | three ids, two of them homonyms, two slices, one fault, one change of the world, budget one |
| `seeding_convergence` | does the work list drain, does the rotation reach every item? | holds; 78,941 states | three ids, slices of two, one fault, one change, budget two |
| `seeding_rotation` | ... also when as many linked entries are gone as a slice has slots? | violated | two ids, slices of one, one change |
| `changes_lane` | is every change behind the watermark refreshed, reported or refused, and does every one get through in the end? | holds; 180,821 states | two entries, four days of which the source keeps two, windows of two, one entry a request, two changes, one fault, midnight at any moment |
| `changes_seam` | is what the watermark passed covered or reported? | violated | seven days of which the source keeps three, by day only |
| `lanes` | do the other jobs skip, lose or erase nothing, and get their work done in the end? | holds; 292,494 states | the constants of `Lanes.cfg`: one or two releases, three games, four books, a dump of four works whose four files each move from one edition to a second, four items without credits, two of them books and one person whom the database rejects, five items and four entities of Wikidata, two items to embed; one to three faults each |
| `game_updates` | does the walk over changed games read every page? | violated | three games, pages of one |
| `algorithms` | do the parts that only compute keep their promises for every input of a bounded set? | holds; 140,329 states | see the questions of `MCAlgorithms`: plans over nine days, walks of up to five, ballots of four, batches of two items with crews of two over four people, ledgers of two users and two items, shelves of three and two items in every order of ranks, four neighbours and six pairs of walks |

Two requests are enough for `ratings` and `requests` because every hazard listed for them is a
race of a pair; a third one only matters for lock cycles. Two scores suffice as the aggregates
are functions of the ballot, which `algorithms` covers by itself, with four users: with fewer,
no mean ends in half a hundredth. In the seeding runs one slice holds fewer targets than there
are ids, so the order of the work list, the rest of a slice and the rotation all matter;
`MaxAttempts` 2, in `seeding_convergence`, tells "retired" from "tried once". The calendars of
the changes lane are short because everything in it is a distance in days: four days of which
two are kept are a cold start, a catch-up over more than one window, and an absence longer than
the retention; two entries and a cap of one make a day saturate with the smallest number of
changes. The other lanes follow the same rule: one page more than a walk may read, one chunk
less than a slice, one edition more than the one that is recorded, one entity that two items
claim and one item that claims two. `two_releases` is the release lane with a second id of
another year, over fewer days and without faults, for the order of the sweep; faults are in
`releases`. The dump has one fault
a behaviour (a kill, a failed check, a run by hand); that several do no harm is proved
(`EditionsAreDiffedWhole`).

What each property of `requests` and `lanes` is about stands above it in `Requests` and
`Lanes`; most are the conjunction of the properties of one part, which are stated with their
reasons in the part's own module. `MCRequests` and `MCLanes` only give the constants values
and, for the lanes, the fairness.

Several of them carry an exception, and each exception is a fact about the code:

- `SessionsAreSound` excepts what a request had read before the other one committed: a login
  under way while the password is reset leaves a session of the old password alive, two
  refreshes of one token at a time both succeed.
- `AccountsAreConsistent` excepts pictures that a profile edit named. `PATCH /users/me` takes any
  URL (`users/schemas.py:18-21`), and `_extract_r2_key` looks at its prefix only: who names the
  object of another account takes it along with the next upload, deletion or erasure, and the
  other account shows a picture that is gone (`broken`).
- `RecordedMeansDiffed` speaks of the files that were read. The edition is what the alias of the
  works says (`scripts/incremental_sync.py:228`); reading log, editions and authors come through
  aliases of their own and may be of other months than the edition that is recorded, so a work
  that only the recorded month makes eligible may be left to the next edition. The works
  themselves are of that edition. A single phase run by hand (`--phase`) is not modelled.
- `SealedMeansAnswered` excepts two ways in which an item is sealed without its people:
  `get_author` answers a timeout like an unknown author, so a book whose author's request failed is
  sealed without that author (`unheard`), and people whom both writers reject are counted while
  their item is stamped (`Rejected`). Only a run that rechecks asks for such an item again, and only
  while it has nobody at all.
- `FeedIsConsistent` excepts entries of the library that two requests wrote at a time: both
  see the old status and announce one completion twice, or one sees "completed", which the
  other has just taken back, and announces nothing.
- `LocksHold` excepts items whose locked fields two administrators edited at a time: the
  second one writes back the locks it had read.
- `IdentitiesAreAccounted` says that orphans are counted, not that there are none: two writers
  that align one new id to two slugs leave a row without a link, and `record_link_skip` knows.
- `IgdbLanesMissNothing` excepts seconds and what the walk over changes loses
  (`game_updates`). A second is excepted (`unasked`) when it is the one a watermark stands at
  (`updated_at > cursor` does not ask for it again), when it lies before the lookback of the first
  run, and when a game joined it while a walk had already read a record of it: `sort created_at
  asc` leaves the order within a second open, the newcomer may take a place the walk has gone
  past, and everything behind it moves down by one. The attempt to prove the property without the
  third case led to a game that is created in the second of the last record of a page, takes its
  place in front of that record and is passed unread.
- `TwoPathsAgree` excepts means that end in half a hundredth (`ratings/repository.py:176-179`
  documents the "same semantics"; Python rounds half to even, PostgreSQL half away from zero)
  and which of two homonyms of one batch their shared row is linked to. It also excepts the two
  rows of somebody who is overtaken: a person whom the database knows as "bob" is called otherwise
  at the source by now, and ahead of them in the batch comes another one of the name "bob". The
  writer of single items gives the newcomer the row and makes a row for the other one
  (`people/repository.py:171-187`); the batch read all links before and credits both to the one row
  (`shared/bulk_load.py:766-773`, `820-823`). That contradicts `bulk_load.py:625`, "Reproduces the
  per-item semantics exactly"; the run shows it when `moved` in the property is emptied, and
  that nothing but those two rows differs then.
- `SourcesAreShielded` is checked where the page of the caller is the page that is fetched.
  With a smaller limit only the first `limit` hits of an external page are ever ingested: the
  second page of the caller maps to the same external page and to the same hits, although
  `search/service.py:30-33` reads as if paging on grew the catalog page by page.
- `QuotasAreFair` promises that the split wastes no capacity only where the cap is not below the
  number of types. Below it one unit each is all that is handed out (`OneEach`), and what empty
  types leave of the cap stays unused, although the comment
  (`recommendations/embeddings.py:160`) makes no exception. Of similar items it speaks of what
  the walks of the index reached: the filter by type comes after an approximate walk, which "can
  return fewer than `limit` rows" (`shared/item_embeddings.py:369-374`), so the page is as full
  and as mixed as what was reached allows; and if the first walk finds nothing at all the second
  one is not asked.
- `NothingSeenIsRecommended` lets pages repeat or skip an item that ties with another. Both
  queries sort without a unique key (`recommendations/repository.py:228`, `275-278`) and the
  limit grows from page to page, so equals may be cut differently; a place that page two counts
  on is then held by an item of the same rank. With a slug that two types share a page may skip
  or repeat an item without a tie, and the comparison of pages leaves those shelves out.

The four violations are disagreements of the code with its own documents:

- `ratings_drift`: `docs/schema.md:1306` promises that after every change of a review or a
  moderation action the persisted aggregates are those of the visible reviews. Two users
  who rate one item at a time each recompute from a snapshot without the other's row; the
  last UPDATE stores a mean that lacks a rating until somebody touches the item again.
- `seeding_rotation`: `docs/schema.md:852` says the rotation is what keeps the catalog
  within the 6 months TMDB allows. A linked item answered with 404 keeps its
  `last_synced_at` and stays first in the rotation; as many of them as a slice has slots
  starve all the others.
- `changes_seam`: `docs/schema.md:945-946` says that the watermark moved always means that
  the range was covered. A run covers its own day only until the hour it runs, and the next
  plan asks for that day again. If the next run comes when the source has already forgotten
  that day, the plan starts later and the uncovered stretch starts one day after the
  watermark: the rest of the day is neither requested nor reported. `slipped` records this
  and the days that fall out of the source's memory at midnight during a run;
  `EveryLossIsAccounted` holds with it.
- `game_updates`: `games/adapters/igdb.py:358-361` says of the ascending walk that games "land
  at the end instead of shifting the offsets of the pages already read". That is so for new
  games, but for one of a second that a page already reached. A game that was read and is
  changed during the walk over changes moves to the end of it, all that follows moves up by one,
  and the game at the edge of the page is never read, although the watermark passes it.

## Fairness

`Ratings!FairSpec` is weak fairness of each request's next statement: the event loop
resumes a coroutine whose query was answered, and PostgreSQL aborts a transaction of a
deadlock cycle. Nothing forces a request to arrive or to crash. `Seeding!FairSpec` is weak
fairness of each slice's steps, of which the first is the start of a slice: the nightly
workflow starts one every night, and a slice that runs ends. Faults and changes are not
fair and are bounded, so the liveness properties say what happens once the world is
quiet. `ChangesLane!FairSpec` is weak fairness of the calendar, of the start of a run (the
cron entry of `incremental-sync.yml`) and of the steps of a started run; the calendar ends at
`LastDay` and runs go on, and what is given up on the way (`GivenUp`) is excepted.

In `MCLanes` a condition stands for the jobs of all parts: `Scheduled` is weak fairness of the
job of each part, its start included, `AlsoScheduled` of the second run or of the nightly slice
where a part has one. The parts never meet, so one condition on their union is the conjunction
of one per part. The two passes of `sync_wikidata` exclude each other, so the start of each is
disabled now and then by the other; the script runs both whenever it runs, which is strong
fairness (`Anchors`, `Relations`). `games` has no liveness property and no fairness. The
embedding pass and the relations start over from the top for ever, so their properties are
that they catch up again and again (`[]<>`).

`ratings` and its relatives, `requests`, `lanes`, `algorithms` and `game_updates` may stop (all
requests have ended, bounds are reached), so deadlock is checked only for the seeding and the
changes lane.

## Proofs

Each theorem holds for every value of the constants, under the assumptions named with it.

`Ratings_proofs`, for any sets of users, items, scores and requests:

- `TypeCorrect`: `Spec => []TypeOK`. Not inductive by itself; `TypeInv` adds which kinds of
  request reach which statement (`Requesting`), that an unlocked row has no uncommitted
  version (`Unlocked`), and that a rater holds its row from the upsert on (`Holding`).
- `EventsFollowContent`: `Spec => []EventIffContent`. The strengthening says that the newest
  version of a row that is not in the hands of a rater between upsert and event already
  satisfies it.
- `RequestsAreAtomic`: `Spec => ImplementsLedger`, the refinement. `LedgerInv` says that an
  uncommitted version is the one its writer's request would publish (`Versions`,
  `AccountVersions`) and that nobody else holds the row; so `Commit` is one step of the
  ledger and every other statement, `Abort` included, is none.
- `LoneRequestsHeal`: `Spec => SoloRequestsLeaveExact`. `SoloInv` follows what a request that
  nobody overlapped has read: `Fresh` says that its capture, its ORM copy and its aggregates
  are those of the table as it stands. The property speaks of the value `Recomputed`, by the
  batch or for one item: which of the two matters as soon as eight users rate an item, a number
  no run reaches, because one rounds half up and the other half to even.
- `ErasureIsComplete`: `Spec => []ErasedUserLeavesNoRows`. The strengthening says who may
  hold a row of a user whose erasure has passed its cascade: nobody who inserts, because
  an insert holds a share lock on the user row that the erasure waits for.

`Accounts_proofs`, for any requests, names and bounds and for lifetimes that are naturals:

- `SessionsStaySound`: `Spec => []SessionsAreSound`. The invariant `Sound` adds to the four
  properties what a request under way relies on: what it read refers to rows that are there
  (`Refers`), and a request that nobody raced finds at its transaction what it had read
  (`Fresh`: the password it checked is the current one, its session is not revoked, its link is
  not used, the account is not banned). `Touches` says what a transaction on one account may do
  to the rows of the others, so each action is compared with every other request once.
- `AccountsStayConsistent`: `Spec => [](TypeOK /\ AuditSaysRole /\ ObjectsAreOwned /\
  AvatarsResolve)`, when the bounds leave room for the initial rows (`Bounds`). Beside `Sound`
  it takes `Stored`: an object is the avatar of one account at most and a new one is in the
  hands of one request, unless a profile edit named it; what is in the bucket is an open
  account's avatar, in the hands of the request that is about to save or drop it, or recorded as
  an orphan, and a request nobody raced holds the avatar its account has; `Roles`: the audit row
  an unraced change of role is about to write says what the role is; and `Bounded`: names of
  open accounts are unique and the rows stay within their bounds.

`Seeding_proofs`, for any source, any sizes and any number of overlapping slices:

- `BudgetIsSpentOnAnswers`: `Spec => []BudgetSpentOnAnswers`. The invariant counts, beside
  the attempts written down, the slices that still have an answer to write.
- `AttemptsAreBounded`: `Spec => []AttemptsBounded`. The invariant counts the slices that
  hold a target; a slice only takes one that has budget left (`SliceIsPart`: what the
  `ORDER BY ... LIMIT` returns is part of the work list, from a pigeonhole argument).
- `TypeCorrect`: `Spec => []TypeOK`, and `KeysStayUnique`: `Spec => []KeysUnique`, from one
  invariant (`Sane`). It needs the keys for the type: that the rows by age list every row once
  (`TypeOK`) rests on no two payloads of a batch ending in one row. `WriteIs` follows a batch
  through the realignment (`RenamedIs`, `AlignedIs`), the deduplication (`KeptIs`), the upsert
  (`UpsertedIs`) and the links (`RelinkedIs`), with every row and every payload apart from the
  others after each. `Aware` says that a slice that writes has one payload an id. Filtered
  sequences are written with `InOrder` and `Picked`, whose lemmas (`InOrderIs`, `PickedIs`)
  order a finite set of positions by counting.

`ChangesLane_proofs`, for any entries, calendar, span, retention and cap, and any number of
runs, changes and faults:

- `TypeCorrect`: `Spec => []TypeOK`. Needs that a plan stays between the horizon and the day
  of its run (`InOrder`) and that runs in progress are of one day (`Ahead`).
- `LossesAccounted`: `Spec => []EveryLossIsAccounted`. `Before` adds that the source still
  lists every change it keeps that some copy lacks (`Traceable`), and `Progress`: behind
  the first day a run has not requested yet every change is accounted for, and within the
  window in progress it is, or in the hands of the run, save on the day the run started.
  That last exception is why the watermark day is asked again. The run `changes_lane` has one
  run at a time; runs that overlap within a day are covered by this theorem alone.
- `CoverageOnlyGrows`: `Spec => WatermarkOnlyAdvances` when there is one run at a time; with
  two, the slower one may put the watermark back, which costs requests and no change.

`GameLanes_proofs`, for any games with positive ids, page size, cap, lookback and bounds:

- `GamesStayAccounted`: `Spec => [](NewGamesAreAdmitted /\ CatalogFollowsUpdates /\
  SweepIsWhole)`. A walk asks for page after page by offset in a listing that is sorted anew for
  each of them. `WalkReadsInOrder` says of each game that is listed now, unless a changed game has
  moved the pages (`moved`): if its place is one the walk has gone past, its reading is in hand
  or its second is excepted; if not, no reading in hand is of a later second. So what the
  watermark is moved to, the newest reading, has nothing behind it that was not read. The rest of
  `LanesInv` says that a reading is a payload of the past and one of today unless the game
  changed behind the watermark (`ReadingIsSound`), and that a sweep has made targets of whatever
  it began with and has gone past (`SweepGoesOn`).
- What a step of IGDB does to the pages is a fact about places in a sorted finite set and is
  proved of any set with keys: `RankFollowsOrder`, `OneBeforeOther` and `RankBelowSize` (places
  are a count from 0 that follows the order), `JoiningKeepsOrder` (a member that joins at or
  after the offset moves nobody before it) and `ReadingKeepsOrder` (a page continues a prefix).

`Requests_proofs`, for any constants of the four parts:

- `SoundSessions` (`[]SessionsAreSound`) and `ConsistentAccounts` (`[]AccountsAreConsistent`): a
  behaviour of `Requests` in that part is a behaviour of `Accounts` (`AccountsAreTheSame`), whose
  theorems then apply.
- `LocksAreHeld`: `Spec => LocksHold`, an invariant and an action property, for any number of
  writers and administrators. The
  invariant `Locking` says that a row is in the hands of one transaction at a time (`Exclusive`),
  that a transaction's version of a row has the locks of the committed one and its title where that
  is locked (`Respected`), and that it writes only rows it has found (`Found`). So a commit
  publishes no lock and no locked title, whatever the writer read before it waited.
- `IdentitiesAreKept`: `Spec => []IdentitiesAreAccounted`. The invariant `Keyed` has four parts:
  slugs and ids are unique, also among the rows as they
  will be whoever commits next (`Unique`); a transaction writes one row and knows which link it
  takes away (`Writing`); the rows without a link, in the table or about to be committed, are
  finitely many and no more than the skips that were counted (`Counted`); and an id that had a
  row and has none was recorded by the writer that took it (`Recorded`).
- `ReportsStayFiled`: `Spec => []ReportsAreKept`. `Identified` says that ids of reviews are
  given once and never again, `Acknowledged` that every report and every answer speaks of an
  id that was given: a report cannot come to stand for a later review, and a cascade takes the
  reports of the reviews that go and no other.
- `NotificationsStaySound`: `Spec => []NotificationsAreSound`. `Announcing` counts the requests
  that still have somebody to tell, and says that both ends of a notification exist.
- `FeedStaysConsistent`: `Spec => []FeedIsConsistent`. `Feeding` counts the events of each entry
  that was not raced, and says that a review has one event exactly when it has content.
- `CallsAreBounded` and `SourcesStayShielded` (`[]SourcesAreShielded`), of `Search`. The limiter
  keeps `Rate` moments a client and forgets those that slid out of the window, also when it
  refuses: `Logged` says that the last `m` moments of the log are those of the last `m` calls,
  for every stretch that can still count, so a client with a free slot has made fewer than
  `Rate` calls in each window that holds the present. `Marked` says that the marker outlives
  every full first page by its time to live. What a call leaves in the catalog (`Whole`) is
  proved for `Limit = FanoutPage`, which only `SourcesStayShielded` assumes; with other limits
  the pages of the caller are not those of the source (see above, `SourcesAreShielded`).

`Lanes_proofs`, for any constants of the jobs:

- `NoReleaseIsForgotten`: `Spec => []ReleasesAreAccounted`, for any ids, gap, retention and
  faults and a calendar of any length, in each of the two instances of `ReleaseLane`.
  `FilmInHand` (`PairInHand`) adds that while a run hydrates, what its export lists is accounted
  for, still on its list, or one of its requests failed, in which case the watermark stays;
  `FilmPublished`, that watermark and run name exports that were published and do not change any
  more but to go.
- `IgdbLanesAreAccounted`: `Spec => []IgdbLanesMissNothing`. A behaviour of `Lanes` in the part
  of the games is one of `GameLanes` (`GamesAreTheSame`). Of the slices, `SlicesInv` says that
  what is in a batch was let pass by the gate (`Admissible`): a pending target is in it with a
  payload of the allowlist, and whatever else is worked on has a row already, since the rows by
  age list games of the catalog only.
- `SealsAreBacked`: `Spec => []SealedMeansAnswered`, for any items, chunk size and number of
  overlapping runs of `MissingCredits`. `CreditsInHand` says that what a run is about to
  seal was answered, and that it holds the people of exactly those answers, but for the authors of
  whom nothing was heard.
- `EditionsAreDiffedWhole`: `Spec => []RecordedMeansDiffed`, for any works, editions and
  thresholds and for aliases that move by themselves. `Diffing` says that the directory of the
  published edition holds the works of that edition and no others, each artifact with the ones it
  was made of (`OfEdition`), and that a phase is reached with those of the phases before it
  (`Reached`), so a pass that has loaded the published edition has loaded what is eligible by the
  files it read.
  `ChosenAreEligible` is why aggregating only the works above the lower threshold loses none;
  `MedianClears` is why a median of pages, taken from a sorted list, clears `MinPages` exactly
  when it should.
- `FailedRequestsEraseNothing`: `Spec => FailuresEraseNothing`, an action property of the slices
  of books. `ReadInRecord` says that a row in hand was read in the record of its work and lacks
  a synopsis only where the record does.
- `PassesTellTheTruth`: `Spec => []PassesAreTruthful`. Of `Wikidata`, `Walking`: an anchor is
  the one entity that its item resolves to and no entity anchors two items of a type, through
  every upsert (`Table`, `LinkRowsKeeps`); what a pass has in hand is the next stretch of its
  walk with nothing left out (`AnchorsInHand`), and anchors as they were, which do not change
  (`RelationsInHand`). Of `Embeddings`, a vector is stored with its hash and its model in one
  statement. Liveness of both stays with TLC.

`MCAlgorithms_proofs`: of the parts that only compute. The theorems speak of `MCAlgorithms` with
any numbers in the place of its bounds; the lemmas they rest on hold of any input.

- `PlansAreHonest`: `Spec => []PlanAccountsForEveryDay`. `TableCovers` follows the windows of a
  plan: each starts the day after the last one ended, none is longer than it may be, and the last
  one ends today (`Cover`).
- `WalksLoseNoDay`: `Spec => []WalkGivesUpOnlyOnSaturatedDays`. That halving ends is proved and not
  assumed: of the windows within one there is a walk (`WalksExistTo`, `LeavesAreAWalk`), because
  both halves are shorter (`HalvesAreShorter`). `AreLeaves` says that what it leaves of a window
  tiles it and fits; `WalkIsWhole`, that everything before the first leaf that was cut is covered.
- `BoardsAreFair`: `Spec => []LeaderboardIsFair`, for any ledger of users, items and moments
  (`BannedLeaveNoTrace`, `GesturesCountOnce`).
- `SplitsAreFair`: the half of `QuotasAreFair` that is about `allocate_quotas`. `RoundsEnd`: a round
  gives something away or empties the pool, so the water-filling ends (`FillIs`). `OnTheWay` is its
  invariant: what was given and what is left make the cap, who left the pool has all it can use and
  the others are level. `OneEachIsFair` is the remainder: unless the cap is below
  the number of types one unit each uses it up, so nothing is left over that anybody could use
  (`EndIsFair` is the case without a remainder).
- `StraysStaySilent`: `Spec => []StraysAreSilent`. A call number that is taken away takes one vote
  from its own class (`VotesWithout`), so the class that leads still leads, at the same entry
  (`StrayDoesNotLead`).

`LeastNatural`, that a set of naturals has a least element, is the library's
theorem on well-founded relations for one relation; an argument by a least counterexample takes
the place of the induction that its theorems with operator parameters would give. `LinkRows` (a
batch is written row by row), the ranks in the median, and every recursive function of
`MCAlgorithms_proofs` rest on it: it shows both that the function exists and what it returns.

`RatingsAssumption`, `SeedingAssumption`, `ChangesLaneAssumption`, `RequestsAssumption` (the
lifetimes are naturals, the slots finitely many), `BoundsAssumption` (there is room for the
account, the session, the links and the avatar that `Accounts` starts with), `IdsAssumption` (a
missing id is none of the ids), `SearchAssumption` (pages, rate and window are at least 1),
`LanesAssumption` (the last days are naturals), `GamesAssumption` (the ids of IGDB are finitely
many positive numbers, a page holds at least one, cap and lookback are naturals),
`SlicesAssumption` (targets are finitely many numbers, slice and request are naturals),
`DumpAssumption` (the files of an edition are
finite, pages and thresholds are numbers) and `WikidataAssumption` (entities are finite, batches
are naturals) are evaluated by TLC in the runs. Left to TLC:

- liveness under fairness (`RequestsEnd`, `PendingDrains`, `RotationReachesEveryItem`,
  `ChangesGetThrough`, `LateBloomersEnter`, `ListsDrain`, `PassesCatchUp`), which is beyond the
  prover;
- `TwoPathsAgree` and `NothingSeenIsRecommended`, and of `QuotasAreFair` what it says of similar
  items: `CreditRows` and `Discovery` compute them with sequences that are filtered, sorted,
  flattened and folded, by operators of the libraries that the provers cannot look into
  (`SelectSeq`, `SortSeq`) or whose laws would have to be proved first. Shelves, candidates and
  batches are asked in a finite set that depends on no constant, so the run puts every one of
  them; only the ballots of `TwoPathsAgree` would gain from a proof for any number of raters.

## Not modelled

- Sources and adapters: HTTP, retries, pacing, and the mapping of payloads beyond genres, cast,
  crew and the fields that lanes decide on.
- Loading: staging tables and the coercion of values in `bulk_load`. The writers are modelled by
  what they store (`CreditRows`) and by how they overlap (`CatalogWriters`).
- Reading: the pages of the catalog, listings, counts, cursors of pages, text ranking, the
  fallback of trending, scores and vectors. They write nothing; where a property is about what
  they show (feed, inbox, credits, recommendations) the listing is an operator.
- The enumeration's first thresholds; the loop of `run_backfill`, which is the fairness of
  `Seeding`.
- Genres of an item are looked up and then inserted (`movies/repository.py:94`): two writers of
  one new genre may collide. The loser's transaction fails as a whole, which is the `Abort` of
  `CatalogWriters`.
- Crew credits of a single item are added and never removed, while its cast is replaced; this
  is in `CreditRows` (`PersistPeople`), and both writers do it.
- Metrics, logging, e-mail and configuration (no protocol), the web frontend (a client without
  shared state), migrations (their constraints enter where a handler relies on them).

## Next

1. `CatalogWriters` with the batch writer's one statement for many rows, whose order of locks
   differs from the single writer's.
2. The thresholds of the enumeration scripts, and the readers behind HTTP cache headers.
