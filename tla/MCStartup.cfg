CONSTANTS
    MaxFaults = 5
    MaxMessages = 3

SPECIFICATION FairBootSpec
INVARIANTS NothingVanishes OneAtATime
PROPERTY Recovers
CHECK_DEADLOCK FALSE
