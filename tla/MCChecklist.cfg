SPECIFICATION FairSpec
CONSTANTS
    f1 = f1
    f2 = f2
    h1 = h1
    t1 = t1
    t2 = t2
    Families = {f1, f2}
    Criteria = {1, 2}
    Homes = {h1}
    HomeFamily <- OneHome
    Answers = {v1}
    NoAnswer = NoAnswer
    Txns = {t1, t2}
    MaxPosition = 1
    None = None
INVARIANTS
    ContiguousPositions
    NoWaitCycle
PROPERTIES
    ImplementsAbs
    AnswersOnlyActive
    Quiesces
