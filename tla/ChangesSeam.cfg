\* A job that stays away until a watermark day has left the memory of the source.
CONSTANTS
    a = a
    b = b
    r1 = r1
    r2 = r2
    Runs = {r1}
    Ids = {a, b}
    Span = 2
    Retention = 3
    Cap = 1
    LastDay = 6
    Overnight = FALSE
    MaxChanges = 2
    MaxFaults = 2
SPECIFICATION Spec
SYMMETRY Symmetry
INVARIANTS
    MovedMeansCovered
