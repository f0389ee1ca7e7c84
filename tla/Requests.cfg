\* Two requests of every part in flight at a time.
CONSTANTS
    r1 = r1
    r2 = r2
    u1 = u1
    u2 = u2
    AccountRequests = {r1, r2}
    Names = {ana}
    SessionLife = 2
    LinkLife = 1
    MaxAccounts = 3
    MaxSessions = 4
    MaxLinks = 3
    MaxObjects = 3
    MaxAccountRequests = 3
    LastLogin = 2
    Users = {u1, u2}
    Items = {"i"}
    Slots = {r1, r2}
    MaxRequests = 2
    MaxOthers = 3
    MaxLosses = 1
    Syncs = {r1, r2}
    Admins = {u1, u2}
    RowIds = {1, 2, 3}
    Ids = {"x", "y"}
    Slugs = {"s", "t"}
    Titles = {"T"}
    MaxWrites = 2
    MaxEdits = 2
    MaxAborts = 1
    Hits = 4
    Locally = {1, 2}
    Limit = 2
    FanoutPage = 2
    Pages = {1, 2}
    Ttl = 3
    Rate = 2
    Window = 2
    Clients = {"c"}
    Searches = {"q", "r"}
    LastTick = 4
    MaxServed = 4
    MaxFaults = 1
SPECIFICATION Spec
SYMMETRY Symmetry
INVARIANTS
    SessionsAreSound
    AccountsAreConsistent
    FeedIsConsistent
    NotificationsAreSound
    ReportsAreKept
    IdentitiesAreAccounted
    SourcesAreShielded
PROPERTIES
    LocksHold
\* The bounds on requests, rows and ticks are reached.
CHECK_DEADLOCK FALSE
