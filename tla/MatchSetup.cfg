SPECIFICATION SetupSpec
CONSTANTS
    PoolSize <- ProgramPools
    ExpectedBalls <- ProgramBalls
    MaxFielders = 10
CHECK_DEADLOCK FALSE
INVARIANTS
    TeamsAreBalanced
    NobodyPickedTwice
    OwnKeeperBehindStumps
    SjfIsOptimal
    TailGoesFirst
