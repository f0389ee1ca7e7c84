\* Every job with the failures, crashes and overlaps that its bounds allow.
CONSTANTS
    Films = {1}
    NewFilms = {1}
    YearOfFilm <- MCYearOfFilm
    Years = {1, 2}
    MaxGap = 1
    Retention = 2
    LastDay = 3
    MaxFilmFaults = 2
    PairOfFilms = {1, 2}
    NewInPair = {1}
    YearInPair <- MCYearInPair
    LastPairDay = 1
    MaxPairFaults = 0
    IgdbGames = {1, 2, 3}
    CataloguedGames = {1, 2}
    PageSize = 1
    MaxItems = 2
    Lookback = 1
    LastTick = 2
    MaxRuns = 2
    MaxEvents = 3
    GameTargets = {1, 2, 3}
    LinkedGames = {3}
    GameSlice = 2
    GameChunk = 1
    MaxAttempts = 2
    MaxGameFaults = 1
    MaxReclassified = 2
    BookIds = {1, 2, 3, 4}
    BookWriters = {"x", "y"}
    Answered = {1, 2, 3, 4}
    Detailed = {2, 3, 4}
    Described = {2, 4}
    AuthorsOf <- MCAuthorsOf
    BookSlice = 2
    BookChunk = 1
    MaxBookFaults = 2
    Works = {"a", "b", "c", "d"}
    Editions <- MCEditions
    MinLog = 2
    MinEditions = 2
    MinLogEs = 1
    MinEditionsEs = 1
    MinPages = 2
    Unwritable = {"d"}
    MaxDumpFaults = 1
    CreditItems = {1, 2, 3, 4}
    Linked = {1, 2, 3}
    CreditBooks = {2, 3}
    PeopleNamed <- MCPeopleNamed
    Rejected = {"y"}
    CreditRuns = {1, 2}
    CreditChunk = 2
    MaxCreditFaults = 2
    WikidataItems = {1, 2, 3, 4, 5}
    Types <- MCTypes
    TypeOfItem <- MCTypeOfItem
    LinkedFirst <- MCLinkedFirst
    Entities = {"Q1", "Q2", "Q3", "Q4"}
    Carries <- MCCarries
    Statements <- MCStatements
    AnchorBatch = 1
    RelationBatch = 2
    MaxWikidataFaults = 2
    EmbeddedItems = {1, 2}
    TypeOfEmbedded <- MCTypeOfEmbedded
    Cap = 2
    Overrides <- MCOverrides
    EmbeddingBatch = 2
    Passes = {"r1", "r2"}
    Models = {1, 2}
    MaxEdits = 1
    MaxEmbeddingFaults = 1
SPECIFICATION FairSpec
INVARIANTS
    ReleasesAreAccounted
    IgdbLanesMissNothing
    RecordedMeansDiffed
    SealedMeansAnswered
    PassesAreTruthful
PROPERTIES
    FailuresEraseNothing
    LateBloomersEnter
    ListsDrain
    PassesCatchUp
\* Some jobs have nothing left to do within their bounds.
CHECK_DEADLOCK FALSE
