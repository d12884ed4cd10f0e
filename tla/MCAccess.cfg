SPECIFICATION Spec
CONSTANTS
    u1 = u1
    u2 = u2
    t1 = t1
    t2 = t2
    Users = {u1, u2}
    Families = {f1}
    Persons = {p1}
    Homes = {h1}
    Groups = {g1}
    Tokens = {t1, t2}
    TokenUser <- MCTokenUser
    Blank = Blank
    Absent = Absent
    MaxBearers = 1
    Reqs = {r1}
INVARIANTS
    BarredCallsRefused
    StrangersLearnNothing
    MembersAreServed
SYMMETRY Interchangeable
