\* Two requests and one upset over two rounds, or one request and up to three over four.
SPECIFICATION Spec
CONSTANTS
    ssh = ssh
    web = web
    joe = joe
    Targets <- MCTwoTargets
    Delayed <- MCOneDelayed
    Users <- MCOneUser
    MaxSubmissions = 2
    MaxRounds = 4
    MaxEdits = 1
    MaxResets = 1
    MaxCrashes = 1
CONSTRAINT Bounded
INVARIANTS
    TypeOK
    NewPasswordWaits
    DeletedUsedOnce
PROPERTIES
    PublishedIsReplay
    ProcessedStaysProcessed
