CONSTANTS
    Sub = {s1, s2}
    NoSub = NoSub
    Handler = {h1, h2}
    MaxChanges = 5
    MaxFailures = 0
    OneLive = TRUE
SPECIFICATION FairSpec
CHECK_DEADLOCK FALSE
PROPERTIES
    PlanConverges
