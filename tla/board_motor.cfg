SPECIFICATION FairSpecBoard
CONSTANTS
    s1 = s1
    Users = {m1}
    m1 = m1
    Stoppers = {s1}
    MaxTm = 1
    Second = 8
    Period = 3
    IntRange = 64
    MayStop = TRUE
    MaxCalls = 2
    RegisterOf <- Wiring
    MaxFaults = 1
 
INVARIANT StopsWithinOnePulse
INVARIANT RunsMaxTm
INVARIANT PinsSafe
 
PROPERTY PinsFollow
CHECK_DEADLOCK FALSE
