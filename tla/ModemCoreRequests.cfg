SPECIFICATION Spec
CONSTANTS
    Clients = {c1, c2}
    NoClient = NoClient
    HasSim = FALSE
    AlwaysOnline = FALSE
    EnableResults = {"ok", "inprogress", "fail"}
    DisableResults = {"ok", "inprogress", "fail"}
    ResetResults = {}
    HangupLosesCommands = FALSE
    MaxEnables = 2
    MaxEmergency = 1
CHECK_DEADLOCK FALSE
INVARIANTS
    PendingWillBeAnswered
    CallbacksAnswerTheirOwn
    UnregisteredIsClean
PROPERTIES
    NothingStartsInEmergency
