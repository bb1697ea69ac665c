SPECIFICATION FairSpec
CONSTANTS
    NB = 2
    Overs = 1
    BallsPerOver = 2
    AllOutAt = 10
    Targets = {0}
    Outcomes = {"DOT", "WICKET"}
    EnableDeadlockSim = FALSE
    MaxSpawns = 1
    MaxExtras = 0
CHECK_DEADLOCK FALSE
PROPERTIES
    InningsReturns
