SPECIFICATION Spec
CONSTANTS
    Clients = {c1}
    NoClient = NoClient
    HasSim = TRUE
    AlwaysOnline = FALSE
    EnableResults = {"ok", "inprogress", "fail"}
    DisableResults = {"ok", "inprogress", "fail"}
    ResetResults = {"inprogress"}
    HangupLosesCommands = TRUE
    MaxEnables = 2
    MaxEmergency = 1
CHECK_DEADLOCK FALSE
INVARIANTS
    StateIsBacked
    AtomsFollowState
    PoweredIsSignalled
PROPERTIES
    EveryRequestAnswered
