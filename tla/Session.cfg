SPECIFICATION Spec
CONSTANTS
    MaxAttempts = 3
    MaxKeys = 1
    MinFreq = 19
    Requests <- MCRequests
    Config <- MCConfig
INVARIANTS
    EndRestoresAllButTwo
    PatienceIsEnough
    TickIsRight
PROPERTIES
    ComesToAnEnd
    ModeIsKept
