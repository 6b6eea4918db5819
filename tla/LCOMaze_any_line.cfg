SPECIFICATION Spec
CONSTANTS
    Host = host
    Client = client
    Goal = 1
    LineDepth = 1
    Paced = FALSE
    LineNoise = TRUE
PROPERTIES
    ClientFinishIsFinal
    QuietOutsideMatch
