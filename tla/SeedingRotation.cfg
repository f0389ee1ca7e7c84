\* As many entries gone from the source as the slice has room for.
CONSTANTS
    a = a
    b = b
    c = c
    s1 = s1
    s2 = s2
    s3 = s3
    NoId = NoId
    Ids = {a, b}
    Slugs = {s1, s2}
    Rank <- MCRank
    Runs = {r1}
    SliceSize = 1
    ChunkSize = 1
    MaxAttempts = 2
    Sources <- DistinctSources
    Listings <- AllListed
    MaxFaults = 0
    MaxChanges = 1
SPECIFICATION FairSpec
PROPERTIES
    RotationReachesEveryItem
