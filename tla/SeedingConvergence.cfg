\* One slice after another, with what a slice and the source may do at their worst.
CONSTANTS
    a = a
    b = b
    c = c
    s1 = s1
    s2 = s2
    s3 = s3
    NoId = NoId
    Ids = {a, b, c}
    Slugs = {s1, s2, s3}
    Rank <- MCRank
    Runs = {r1}
    SliceSize = 2
    ChunkSize = 2
    MaxAttempts = 2
    Sources <- AnySources
    Listings <- SomeListed
    MaxFaults = 1
    MaxChanges = 1
SPECIFICATION FairSpec
PROPERTIES
    PendingDrains
    RotationReachesEveryItem
