\* One team, two checks: every history of results and adjustments, with an error, a crash
\* and a reset.
SPECIFICATION Spec
CONSTANTS
    t1 = t1
    t2 = t2
    c1 = c1
    c2 = c2
    Teams <- MCOneTeam
    Checks <- MCTwoChecks
    SlaThreshold = 2
    Adjustments <- MCAdjustments
    MaxRounds = 3
    MaxAdjusts = 2
    MaxResets = 1
    MaxFailures = 2
    MaxCrashes = 1
INVARIANTS
    TypeOK
    SlaByRuns
    RecordMatchesSla
    PointsAreHistory
    AdjustedOnce
