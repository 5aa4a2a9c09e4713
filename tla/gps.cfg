SPECIFICATION Spec
CONSTANTS
    GPSBUFLEN = 7
    Pieces <- Line
    MaxPieces = 4
    MaxCalls = 1
INVARIANT AllSentencesStored
INVARIANT ReadsGoForward
INVARIANT LettersOfPosition
CHECK_DEADLOCK FALSE
