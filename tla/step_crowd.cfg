SPECIFICATION FairSpec
CONSTANTS
    u1 = u1
    u2 = u2
    Users = {u1, u2}
    Ops = {"move", "cond", "gopos", "ref", "disable"}
    MoveSteps = {2}
    CondSteps <- NoLimitOrOne
    Positions = {0, 2}
    Waits = {0, 1}
    Polarity = 0
    HasRef = TRUE
    StartPos = 1
    ExtraSteps = 1
    Overrun = 1
    Travel = 3
    MayStop = TRUE
    MaxCalls = 3
INVARIANT PositionTracks
INVARIANT NotPastSwitch
 
PROPERTY AloneIsDone
CHECK_DEADLOCK FALSE
