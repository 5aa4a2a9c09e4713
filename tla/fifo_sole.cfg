SPECIFICATION Spec
CONSTANTS
    t = t
    a = a
    b = b
    Writers = {t}
    Readers = {t}
    Clearers = {t}
    Vals = {a, b}
    Lens = {1, 2}
    MaxLens = {1, 2}
    MaxElem = 4
    NoVal = NoVal
    NoThread = NoThread
INVARIANT TypeOK
 
 
CHECK_DEADLOCK FALSE
