\* Restarts and a reset while the clock goes on.
SPECIFICATION Spec
CONSTANTS
    t1 = t1
    t2 = t2
    Teams <- MCOneTeam
    ConfigInjects <- MCConfigInjects
    ApiInjects <- MCApiInjects
    Scores = {50, 100}
    NoPasswords = FALSE
    MaxDuration = 10
    GoZero = 5
    Epoch = 20
    MaxClock = 22
    MaxInjects = 2
    MaxSubmissions = 1
    MaxReads = 0
    MaxResets = 2
    MaxFailures = 1
    MaxCrashes = 3
INVARIANTS
    StartSettles
