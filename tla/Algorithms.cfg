\* Plans over nine days, walks over windows of up to five, ballots of four users.
CONSTANTS
    LastDay = 8
    MaxSpan = 5
    MaxRetention = 5
    MaxLoad = 2
    MaxCap = 3
    Raters = {u1, u2, u3, u4}
    MaxItems = 4
    MaxEntries = 3
SPECIFICATION Spec
INVARIANTS
    PlanAccountsForEveryDay
    WalkGivesUpOnlyOnSaturatedDays
    TwoPathsAgree
    LeaderboardIsFair
    NothingSeenIsRecommended
    QuotasAreFair
    StraysAreSilent
\* A question that was asked is the end.
CHECK_DEADLOCK FALSE
