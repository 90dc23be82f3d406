\* Two rounds, two teams with one check that may send twice: answers, timeouts and second
\* sends in every order, within a round and across the two.
SPECIFICATION FairSpec
CONSTANTS
    t1 = t1
    t2 = t2
    imap = imap
    Teams <- MCTeams
    Checks <- MCChecks
    DoubleSenders <- MCChecks
    MaxRounds = 2
INVARIANTS
    TypeOK
    NoResultLost
    BlockedSenders
PROPERTIES
    RoundRefinement
    RoundEnds
