\* Three games, an update walk of two pages of one game.
CONSTANTS
    Games = {1, 2, 3}
    Catalogued = {}
    PageSize = 1
    MaxItems = 2
    Lookback = 1
    LastTick = 3
    MaxRuns = 2
    MaxEvents = 3
SPECIFICATION Spec
INVARIANTS
    WalkDoesNotShift
\* The bounds on runs, ticks and changes of the source are reached.
CHECK_DEADLOCK FALSE
