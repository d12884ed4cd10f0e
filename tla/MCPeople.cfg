SPECIFICATION PeopleSpec
CONSTANTS
    Families = {f1}
    Profiles = {p1, p2}
    Users = {u1}
    Garbage = Garbage
    Incomes = {i1, i2}
    Reqs = {r1, r2}
    MaxTime = 1
    MaxHistory = 2
    None = None
INVARIANTS
    CurrentIncomeRecorded
PROPERTIES
    LinkNeverCleared
    SavedInFull
CONSTRAINT HistoryBound
SYMMETRY Interchangeable
