SPECIFICATION Spec
CONSTANTS
    PowerOn <- MCPowerOn
    MaxTicks = 5
INVARIANTS
    TimeIsAccurate
CHECK_DEADLOCK FALSE
