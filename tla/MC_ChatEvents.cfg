CONSTANTS
    Key = {k1, k2}
    Client = {c1, c2}
    NoKey = NoKey
    QueueSize = 2
    ReplaySize = 2
    MaxHistories = 1
    MaxEvents = 2
    FirstKey = k1
    FirstClient = c1
SPECIFICATION MCSpec
CHECK_DEADLOCK FALSE
INVARIANTS
    StreamIsWhole
PROPERTIES
    StreamEnds
