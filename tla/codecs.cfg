SPECIFICATION SpecCodecs
CONSTANTS
    BlockLength = 8
    LengthBytes = 3
    MessageInputs <- MCMessageInputs
    TextInputs <- MCTextInputs
    Base64Inputs <- MCBase64Inputs
    Sha1Inputs <- MCSha1Inputs
    PositionInputs <- MCPositionInputs
    DateInputs <- MCDateInputs
    SensorInputs <- MCSensorInputs
    ConfigInputs <- MCConfigInputs
    LineInputs <- MCLineInputs
    CircleInputs <- MCCircleInputs
    ScreenInputs <- MCScreenInputs
    BarInputs <- MCBarInputs
INVARIANT FramesUnderstood
INVARIANT Base64Undone
INVARIANT HashedIsPadded
INVARIANT LocatorContains
INVARIANT TemperatureSteady
INVARIANT ConfigFound
INVARIANT FiguresDrawn
INVARIANT BarShown
INVARIANT DaysCounted
CHECK_DEADLOCK FALSE
