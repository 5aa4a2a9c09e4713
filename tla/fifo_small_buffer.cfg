SPECIFICATION FairSpec
CONSTANTS
    r1 = r1
    w1 = w1
    a = a
    Writers = {w1}
    Readers = {r1}
    Clearers = {}
    Vals = {a}
    Lens = {2}
    MaxLens = {1}
    MaxElem = 3
    NoVal = NoVal
    NoThread = NoThread
PROPERTY LockReleased
CHECK_DEADLOCK FALSE
