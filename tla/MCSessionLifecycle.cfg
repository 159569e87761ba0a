SPECIFICATION Spec
CONSTANTS
    Sessions = {s1, s2, s3}
    MaxJobs = 1
    Workers = {w1, w2}
    Main = main
    Server = TRUE
    NoThread = NoThread
    NoSession = NoSession
INVARIANTS
    LifeTypeOK
    NoWaitCycle
    ReleaseFindsSession
    OneOperationPerEvent
    OneAccept
PROPERTIES
    LifeSpec
SYMMETRY MCSymmetry
CHECK_DEADLOCK FALSE
