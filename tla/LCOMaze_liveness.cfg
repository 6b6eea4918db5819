SPECIFICATION FairSpec
CONSTANTS
    Host = host
    Client = client
    Goal = 1
    LineDepth = 1
    Paced = TRUE
    LineNoise = FALSE
PROPERTIES
    ClientGetsIn
    RaceIsDecided
    IsMatch
