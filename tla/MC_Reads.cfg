CONSTANTS
    Key = {k1}
    Client = {c1}
    NoKey = NoKey
    QueueSize = 3
    ReplaySize = 0
    MaxHistories = 1
    MaxStages = 2
    MaxRestarts = 1
    User = {u1, u2}
    Shared = {u1}
    Worker = {p1, p2}
    Web = p1
    Task = {t1, t2}
    MaxUsers = 1
    None = None
SPECIFICATION FairSumSpec
CHECK_DEADLOCK FALSE
INVARIANTS
    OneEnding
    OneRebuild
PROPERTIES
    DiveEnds
    StaleHeals
