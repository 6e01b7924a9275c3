CONSTANTS
    User = {u1, owner}
    Owner = owner
    Req = {r1, r2, r3}
    NoUser = NoUser
    Limit = 2
SPECIFICATION Spec
CHECK_DEADLOCK FALSE
INVARIANTS
    OneInFlight
