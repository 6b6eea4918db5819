SPECIFICATION Spec
CONSTANTS
    Packets <- MCPackets
    Keys <- MCKeys
    Buttons <- MCButtons
    Height = 4
    Far = 1
INVARIANTS
    NoByteMistaken
    InStep
    AimNeedsButton
CHECK_DEADLOCK FALSE
