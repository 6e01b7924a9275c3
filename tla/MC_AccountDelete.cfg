CONSTANTS
    Req = {r1}
    MaxTime = 1
    MaxUser = 1
SPECIFICATION Spec
CHECK_DEADLOCK FALSE
INVARIANT
    NothingBlocksDeletion
