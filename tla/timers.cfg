SPECIFICATION SpecTimers
CONSTANTS
    Users = {u1}
    Functions = {f, g}
    MAXTIMERS = 3
    MaxStarts = 3
    MaxPending = 2
INVARIANT CallsItsFunction
INVARIANT RunsIffHeld
CHECK_DEADLOCK FALSE
