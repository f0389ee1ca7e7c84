\* Two entries of which the source serves one per request and day, with the lane's fairness.
CONSTANTS
    a = a
    b = b
    r1 = r1
    r2 = r2
    Runs = {r1}
    Ids = {a, b}
    Span = 2
    Retention = 2
    Cap = 1
    LastDay = 3
    Overnight = TRUE
    MaxChanges = 2
    MaxFaults = 1
SPECIFICATION FairSpec
INVARIANTS
    TypeOK
    EveryLossIsAccounted
PROPERTIES
    WatermarkOnlyAdvances
    ChangesGetThrough
