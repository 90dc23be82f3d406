\* Every kind of check with every option, configurations at the edges of what is accepted,
\* and three delayed boxes against the clock, a reset, pauses and a restart.
SPECIFICATION FairSpec
CONSTANTS
    Trials <- MCTrials
    MaxDelayed = 3
INVARIANTS
    TypeOK
    DueHaveJoined
    SecondCheckAgrees
    DiesOnlyOf
    UpIsEarned
    ServedIsUp
    OneVerdict
PROPERTIES
    TimetableRefinement
    DelayedLeaves
CHECK_DEADLOCK FALSE
