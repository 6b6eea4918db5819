SPECIFICATION Spec
CONSTANTS
    PowerOn <- MCNoon
    MaxTicks = 5
INVARIANTS
    RaceIsTimed
CHECK_DEADLOCK FALSE
