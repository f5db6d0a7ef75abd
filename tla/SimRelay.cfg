SPECIFICATION Spec
CONSTANTS
    MaxChunks = 4
    ReadMax = 2
    MaxCrashes = 2
    MaxRestarts = 1
CHECK_DEADLOCK FALSE
INVARIANTS
    PipelineServesOneCall
    AnswersMatchCalls
    AnswersInOrder
PROPERTIES
    CallsReturn
    LostRequestBlocksRelay
    ImplementsLink
