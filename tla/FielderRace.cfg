SPECIFICATION FairSpec
CONSTANTS
    Batsmen = {b1, b2}
    Fielders = {f1, f2}
    RaceShots = {"AERIAL"}
    OtherShots = {}
    MaxOverlap = 1
INVARIANTS
    TypeOK
    OneLastVoter
    RaceStartsWithHit
    LastVoterFindsVote
    ResultIsSettled
    BallDownBetweenRaces
PROPERTIES
    RaceResolves
    ShutdownDrains
