SPECIFICATION StartupSpec
CONSTANTS
    Procs = {p1, p2}
    Emails = {"boot", "other"}
    Passwords = {"temp"}
    Envs <- MCEnvs
INVARIANTS
    CallsHavePool
    PasswordsOutliveConfig
    AdminsChosePassword
    StopNeverBlocks
PROPERTY
    BootstrapLeavesAdmin
SYMMETRY Interchangeable
