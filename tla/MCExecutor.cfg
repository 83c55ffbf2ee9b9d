CONSTANTS
    j1 = j1
    j2 = j2
    j3 = j3
    Threads = {h1, h2}
    Connections = {k1, k2}
    Jobs = {j1, j2, j3}
    Kind <- MCKind
    Length <- MCLength
    NoJob = NoJob
    NoConnection = NoConnection

SPECIFICATION FairSpec
INVARIANTS HealedNextTime ConnectionsAreExclusive NeverStarved AnswersAreKept
PROPERTIES ImplementsDatabase EveryJobEnds
CHECK_DEADLOCK FALSE
