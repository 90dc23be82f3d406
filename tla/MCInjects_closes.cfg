\* An inject of injects.conf.
SPECIFICATION Spec
CONSTANTS
    t1 = t1
    t2 = t2
    Teams <- MCOneTeam
    ConfigInjects <- MCConfigInjects
    ApiInjects <- MCNoApiInjects
    Scores = {50, 100}
    NoPasswords = FALSE
    MaxDuration = 10
    GoZero = 5
    Epoch = 20
    MaxClock = 23
    MaxInjects = 2
    MaxSubmissions = 1
    MaxReads = 0
    MaxResets = 0
    MaxFailures = 0
    MaxCrashes = 0
INVARIANTS
    OpenUntilClosed
