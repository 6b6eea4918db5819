SPECIFICATION PortSpec
CONSTANTS
    Char <- MCChar
    Nul = 0
    BUFFER_SIZE = 2
    LastByte = 6
    MaxSends = 3
    Memory = 2
INVARIANTS
    RingInv
    PortInv
    NoByteForgotten
    AloneIsServed
    RepeatsAreCrowded
    SentWhileMemoryLasts
PROPERTIES
    IsFifo
    HandlerEnds
\* The cable falls silent once its bytes are sent.
CHECK_DEADLOCK FALSE
