SPECIFICATION Spec
CONSTANTS
    Contexts = {1, 2}
    Drivers = {1, 2}
    AnyType = {1}
    Internet = {1}
    MaxCid = 3
    MaxLeaks = 1
    MaxEvents = 3
    MaxAsked = 2
    DetachShutdown = TRUE
    RemovesActivating = FALSE
CHECK_DEADLOCK FALSE
INVARIANTS
    AttachmentAgrees
    ContextsAgree
PROPERTIES
    DeactivateAllMeansAll
    Settles
