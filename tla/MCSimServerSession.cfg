SPECIFICATION Spec
CONSTANTS
    Apdus <- MCApdus
    CardAnswers <- MCCardAnswers
    AtrBytes <- MCAtrBytes
    CardFaults = FALSE
    Disconnects = FALSE
    MaxCuts = 0
    MaxRestarts = 0
    MaxBuffer = 1000
INVARIANTS
    Reassembly
    NeverRaises
PROPERTIES
    ImplementsSession
