SPECIFICATION FairSpec
CONSTANTS
    c1 = c1
    c2 = c2
    Conns = {c1, c2}
    MaxClients = 1
    MaxFd = 2
    AliveOpen = 1
    AliveMessage = 1
    Lengths = {"long"}
    MayStop = TRUE
    MaxSends = 1
INVARIANT TypeOK
INVARIANT TableOwned
 
PROPERTY GoneIsClosed
 
CHECK_DEADLOCK FALSE
