SPECIFICATION Spec
CONSTANTS
    Apdus <- MCSmallApdus
    CardAnswers <- MCCardAnswers
    AtrBytes <- MCAtrBytes
    CardFaults = TRUE
    Disconnects = FALSE
    MaxCuts = 1
    MaxRestarts = 1
    MaxBuffer = 24
CHECK_DEADLOCK FALSE
INVARIANTS
    StepMatchesPhase
PROPERTIES
    ResetModemReconnects
