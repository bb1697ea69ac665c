SPECIFICATION Spec
CONSTANTS
    NB = 3
    Overs = 3
    BallsPerOver = 1
    AllOutAt = 10
    Targets = {0}
    Outcomes = {"SINGLE"}
    EnableDeadlockSim = TRUE
    MaxSpawns = 2
    MaxExtras = 0
CHECK_DEADLOCK FALSE
INVARIANTS
    TypeOK
    NoStaleDelivery
    NoLostWakeup
    NoWicketLost
PROPERTIES
    BoardIsKept
