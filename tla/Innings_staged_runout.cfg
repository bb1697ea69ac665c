SPECIFICATION FairSpec
CONSTANTS
    NB = 3
    Overs = 1
    BallsPerOver = 2
    AllOutAt = 10
    Targets = {0}
    Outcomes = {"DOT", "RUNOUT"}
    EnableDeadlockSim = TRUE
    MaxSpawns = 2
    MaxExtras = 0
CHECK_DEADLOCK FALSE
PROPERTIES
    StagedRunOutIsDetected
