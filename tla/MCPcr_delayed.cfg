\* A request for a delayed check, processed in a round, and a restart.
SPECIFICATION Spec
CONSTANTS
    ssh = ssh
    web = web
    joe = joe
    Targets <- MCTwoTargets
    Delayed <- MCOneDelayed
    Users <- MCOneUser
    MaxSubmissions = 1
    MaxRounds = 2
    MaxEdits = 0
    MaxResets = 0
    MaxCrashes = 1
PROPERTIES
    NewPasswordsStand
