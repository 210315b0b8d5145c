CONSTANTS
    ByteMax = 1
    WordLen = 2
    NonceLen = 2
    CurveOrder = 3
    None = None
    Tasks <- MCTasks
    Levels <- MCLevels
SPECIFICATION Spec
CHECK_DEADLOCK FALSE
INVARIANTS
    TypeOK
    LevelsInclude
    L4DiffersOnlyByState
    LevelsAgree
