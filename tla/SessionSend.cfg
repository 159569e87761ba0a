SPECIFICATION Spec
CONSTANTS
    Senders = {s1, s2}
    Workers = {w1, w2}
    Messages = {m1, m2, m3}
    NoThread = NoThread
    NoMessage = NoMessage
    Serial = TRUE
INVARIANTS
    TypeOK
    OneSendAtATime
    NothingStranded
    StreamExact
    QueueGuarded
PROPERTIES
    EverySendReachesTheWire
CHECK_DEADLOCK FALSE
