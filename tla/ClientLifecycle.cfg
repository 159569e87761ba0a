SPECIFICATION Spec
CONSTANTS
    Sessions = {s1, s2}
    MaxJobs = 1
    Workers = {w1, w2}
    Main = main
    Server = FALSE
    NoThread = NoThread
    NoSession = NoSession
INVARIANTS
    RegistryFollows
SYMMETRY MCSymmetry
CHECK_DEADLOCK FALSE
