SPECIFICATION Spec
CONSTANTS
    Fielders = {0, 1, 6}
    Zones = {0, 5}
    Skills = {50, 100}
    Jitters <- MCJitters
    AerialPowers = {25, 65}
    GroundPowers = {10, 92}
    EnableDeadlockSim = TRUE
    LateShots <- MCLateShots
INVARIANTS
    KeeperMakesSingles
    CatchIsFair
