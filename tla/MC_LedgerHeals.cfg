CONSTANTS
    Claim = {c1}
    Prose = {}
    FirstDay = 2
    MaxDay = 7
    Lookback = 3
    Horizon = 2
    None = None
SPECIFICATION Spec
CHECK_DEADLOCK FALSE
INVARIANTS
    MissedNightHeals
