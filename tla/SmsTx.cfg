SPECIFICATION Spec
CONSTANTS
    Messages = {m1, m2, s1}
    Exposed = {m1, m2}
    MaxParts = 2
    TXQ_MAX_RETRIES = 3
    MaxRemovals = 2
CHECK_DEADLOCK FALSE
INVARIANTS
    TxQueueRuns
    MessagesAccountedFor
PROPERTIES
    ImplementsOutbox
    QueueDrains
