SPECIFICATION FairSpec
CONSTANTS
    BUFFER_LENGTH = 3
    MaxBytes = 3
    MaxFaults = 2
    Foreign = {0}
INVARIANT BytesInOrder
INVARIANT WritePromises
PROPERTY PipeDrains
