SPECIFICATION TimerSpec
CONSTANTS
    Workers = {w1, w2}
    Main = w1
    Queues = {q1}
    Jobs = {j1, j2, j3}
    NoQueue = NoQueue
    NoJob = NoJob
    Delays = {0, 1}
    MaxTick = 1
INVARIANTS
    TimerTypeOK
    OneDistributor
    ReservedOnce
    TickOrder
PROPERTIES
    EveryTimerFires
