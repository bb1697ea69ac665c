SPECIFICATION FairSpec
CONSTANTS
    NB = 2
    Overs = 2
    BallsPerOver = 2
    AllOutAt = 10
    Targets = {0, 2}
    Outcomes = {"DOT", "SINGLE", "WIDE"}
    EnableDeadlockSim = FALSE
    MaxSpawns = 1
    MaxExtras = 1
INVARIANTS
    BallInLockstep
    RunsAreCharged
    StrikerPlays
    PitchFreeMeansPlayed
PROPERTIES
    InningsReturns
    KeepsTheBook
    PlaysTheInnings
