SPECIFICATION Spec

CONSTANTS
    MAX_CONFIGURE = 3
    MAX_TERMINATE = 2
    MAX_FAILURE = 1
    GUINT = 5
CHECK_DEADLOCK FALSE
INVARIANTS
    LinkIsConsistent
    OpenOnAgreement
    ReportedOnce
PROPERTIES
    NeverUpAfterShutdown
    EveryCallEnds
