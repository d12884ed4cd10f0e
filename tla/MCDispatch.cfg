SPECIFICATION DispatchSpec
CONSTANTS
    Calls = {c1, c2}
    Wire <- AllNames
    LogEvery = 2
    MaxTime = 4
    MaxEnds = 3
INVARIANTS
    EveryEndAccounted
PROPERTIES
    LinesSpaced
SYMMETRY Interchangeable
