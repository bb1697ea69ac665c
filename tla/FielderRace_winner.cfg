SPECIFICATION Spec
CONSTANTS
    Batsmen = {b1}
    Fielders = {f1, f2}
    RaceShots = {"AERIAL"}
    OtherShots = {"BLOCK"}
    MaxOverlap = 0
INVARIANTS
    RacedBallHasWinner
