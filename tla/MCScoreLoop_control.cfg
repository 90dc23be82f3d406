\* Three rounds against resets, pauses and a crash.
SPECIFICATION Spec
CONSTANTS
    t1 = t1
    t2 = t2
    v1 = v1
    v2 = v2
    Teams <- MCTeams
    Views <- MCNoViews
    StartPaused = FALSE
    MaxTime = 3
    MaxResets = 2
    MaxPauses = 1
    MaxCrashes = 1
    MaxFailures = 1
INVARIANTS
    TypeOK
    ResetIsolates
    WholeRounds
    SavedOrDropped
    RoundNumberAhead
