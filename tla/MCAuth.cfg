SPECIFICATION Spec
CONSTANTS
    Users = {u1, u2}
    Emails = {boot, e1}
    BootEmail = boot
    Sessions = {s1, s2, s3}
    Keys = {k1}
    Reqs = {r1, r2}
INVARIANTS
    AdminsChangedPassword
    KeyUsedOnce
PROPERTY
    BootstrapOnlyWithoutAdmin
SYMMETRY Interchangeable
