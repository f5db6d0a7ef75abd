SPECIFICATION Spec
CONSTANTS
    Groups = {0, 1}
    Kinds = {"listing", "prompt"}
    Wakeups = {TRUE, FALSE}
    MaxCmds = 2
    MaxSuspends = 1
    MaxLost = 1
    MaxSlips = 1
CHECK_DEADLOCK FALSE
INVARIANTS
    ChannelInvariant
    EachHearsItsOwn
PROPERTIES
    ImplementsService
    EveryCommandLeaves
