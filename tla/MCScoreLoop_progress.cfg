\* Progress of a round against every handler.
SPECIFICATION FairSpec
CONSTANTS
    t1 = t1
    t2 = t2
    v1 = v1
    v2 = v2
    Teams <- MCTeams
    Views <- MCOneView
    StartPaused = TRUE
    MaxTime = 2
    MaxResets = 1
    MaxPauses = 1
    MaxCrashes = 0
    MaxFailures = 1
INVARIANTS
    CacheIsCurrent
PROPERTIES
    RoundDecided
