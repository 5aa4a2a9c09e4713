SPECIFICATION FairSpec
CONSTANTS
    a = a
    b = b
    Points = {a, b}
    Buttons <- Table
    Capacity = 1
    MaxTouches = 2
    MaxChanges = 4
INVARIANT AnsweredInOrder
 
CHECK_DEADLOCK FALSE
