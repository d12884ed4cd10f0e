SPECIFICATION Spec
CONSTANTS
    Users = {u1, u2, u3}
    Families = {f1, f2}
    Codes = {c1, c2}
    Reqs = {r1, r2}
    NoFamily = NoFamily
    NoUser = NoUser
INVARIANTS
    EveryFamilyHasOwner
    MembersInvited
PROPERTIES
    RolesKept
SYMMETRY Interchangeable
