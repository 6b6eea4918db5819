SPECIFICATION Spec
CONSTANTS
    Host = host
    Client = client
    Goal = 1
    LineDepth = 3
    Paced = TRUE
    LineNoise = FALSE
INVARIANTS
    IInv
    TypeOK
    ClientIsNeverStranded
    WinnerIsAnnounced
