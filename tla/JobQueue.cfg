SPECIFICATION FairSpec
CONSTANTS
    Workers = {w1, w2}
    Main = w1
    Queues = {q1, q2}
    Jobs = {j1, j2, j3}
    NoQueue = NoQueue
    NoJob = NoJob
INVARIANTS
    TypeOK
    SingleHolder
    NoLostWakeup
    CountExact
PROPERTIES
    SerialSpec
