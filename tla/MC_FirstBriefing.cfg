CONSTANTS
    Run = {r1, r2}
    MaxDay = 2
    MaxSends = 1
    None = None
SPECIFICATION Spec
CHECK_DEADLOCK FALSE
PROPERTIES
    FirstIsNoOp
