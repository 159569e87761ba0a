SPECIFICATION Spec
CONSTANTS
    Senders = {main, iocp}
    Workers = {iocp}
    Messages = {m1, m2}
    NoThread = NoThread
    NoMessage = NoMessage
    Serial = FALSE
INVARIANTS
    QueueGuarded
CHECK_DEADLOCK FALSE
