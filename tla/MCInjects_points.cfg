\* Two teams and two injects: graded submissions against rounds and a reset or a failed query.
SPECIFICATION Spec
CONSTANTS
    t1 = t1
    t2 = t2
    Teams <- MCTeams
    ConfigInjects <- MCTwoInjects
    ApiInjects <- MCNoApiInjects
    Scores = {100}
    NoPasswords = TRUE
    MaxDuration = 10
    GoZero = 5
    Epoch = 20
    MaxClock = 20
    MaxInjects = 2
    MaxSubmissions = 2
    MaxReads = 2
    MaxResets = 1
    MaxFailures = 1
    MaxCrashes = 0
SYMMETRY TeamSymmetry
CONSTRAINT OneUpset
INVARIANTS
    TypeOK
    PointsSettle
    GradeStands
