SPECIFICATION Spec
CONSTANTS
    Clients = {c1, c2}
    NoClient = NoClient
    HasSim = TRUE
    AlwaysOnline = FALSE
    EnableResults = {"inprogress"}
    DisableResults = {"inprogress", "ok"}
    ResetResults = {}
    HangupLosesCommands = FALSE
    MaxEnables = 1
    MaxEmergency = 0
CHECK_DEADLOCK FALSE
INVARIANTS
    LockedModemIsDown
