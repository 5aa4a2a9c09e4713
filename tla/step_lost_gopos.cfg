SPECIFICATION FairSpec
CONSTANTS
    u1 = u1
    Users = {u1}
    Ops = {"move", "gopos"}
    MoveSteps = {2}
    CondSteps = {}
    Positions = {2}
    Waits = {0, 1}
    Polarity = 0
    HasRef = TRUE
    StartPos = 1
    ExtraSteps = 1
    Overrun = 1
    Travel = 3
    MayStop = FALSE
    MaxCalls = 2
PROPERTY GoposReached
CHECK_DEADLOCK FALSE
