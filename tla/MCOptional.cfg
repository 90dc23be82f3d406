\* Three teams with a box each, in either mode, over two rounds.
SPECIFICATION Spec
CONSTANTS
    castle = castle
    N = 3
    Modes <- MCModes
    Boxes <- MCBoxes
    MaxUp = 1
    ServicePoints = 5
    UptimeSLA = 0
    MaxClock = 3
    MaxRounds = 2
    MaxHits = 2
    MaxAgents = 1
    MaxTroubles = 2
INVARIANTS
    TypeOK
    PersistsExplainPoints
    PaidOnce
    UptimeMatchesSla
PROPERTIES
    NoHitForgotten
