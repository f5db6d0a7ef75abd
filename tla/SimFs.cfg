SPECIFICATION Spec
CONSTANTS
    Clients = {c1, c2}
    c1 = c1
    c2 = c2
    BLOCK = 2
    Length = 3
    Records = 2
    Requests = {"bytes", "records", "info", "mismatch", "read", "write", "whole"}
    MaxRequests = 2
    MaxChanges = 1
    MaxRestarts = 1
CHECK_DEADLOCK FALSE
INVARIANTS
    OperationsAreServed
    CacheTruth
PROPERTIES
    ImplementsFiles
    EveryRequestEnds
