SPECIFICATION Spec
CONSTANTS
    Host = host
    Client = client
    Goal = 1
    LineDepth = 2
    Paced = TRUE
    LineNoise = FALSE
INVARIANTS
    OneWinner
