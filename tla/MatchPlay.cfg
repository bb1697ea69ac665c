SPECIFICATION Spec
CONSTANTS
    NBowlers = 5
    Quota = 4
    MaxOvers = 20
    Policies = {"RR", "PRIORITY"}
    Skill <- WorstSkill
    Speed <- WorstSpeed
    Speciality <- QueueSpeciality
    OverFigures <- QuietOrDear
    MaxConceded = 12
    Scores = {1, 2}
    MaxRuns = 2
    MaxWickets = 1
    AllOutAt = 1
CHECK_DEADLOCK FALSE
INVARIANTS
    TypeOK
    QuotaKept
    Balanced
    PhasesAgree
    ResultIsFair
PROPERTIES
    NoConsecutiveOvers
    ForcedToRepeat
    SpecialistsFirst
    PlaysTwoInnings
