\* One team, two injects, one graded submission.
SPECIFICATION Spec
CONSTANTS
    t1 = t1
    t2 = t2
    Teams <- MCOneTeam
    ConfigInjects <- MCTwoInjects
    ApiInjects <- MCNoApiInjects
    Scores = {50, 100}
    NoPasswords = TRUE
    MaxDuration = 10
    GoZero = 5
    Epoch = 20
    MaxClock = 20
    MaxInjects = 2
    MaxSubmissions = 1
    MaxReads = 1
    MaxResets = 0
    MaxFailures = 0
    MaxCrashes = 0
INVARIANTS
    BestOfEachInject
