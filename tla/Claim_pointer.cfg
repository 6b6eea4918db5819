SPECIFICATION Spec
CONSTANTS
    Packets <- MCPackets
    Keys <- MCKeys
    Buttons <- MCButtons
    Height = 4
    Far = 1
PROPERTIES
    ClickMovesNothing
CHECK_DEADLOCK FALSE
