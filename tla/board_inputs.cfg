SPECIFICATION FairSpec
CONSTANTS
    u1 = u1
    Askers = {u1}
    Channels = {0}
    Polls = 2
    MaxFaults = 1
    MaxEvents = 4
 
 
PROPERTY RequestsConverted
