CONSTANTS
    User = {u1, owner}
    Owner = owner
    Req = {r1, r2, r3, r4}
    DiveReq = {r1, r2, r3}
    NoUser = NoUser
    Limit = 2
    max_iterations = 3
    max_cost = 3
    MaxCallCost = 1
    MaxTools = 2
    MaxPauses = 2
    Sub = {s1, s2}
    NoSub = NoSub
    Handler = {h1, h2}
    MaxChanges = 5
    MaxFailures = 2
    OneLive = FALSE
    Solo = h1
    OverlapChanges = 3
    OverlapFailures = 1
    Request = {r1, r2}
    MaxSecret = 3
    None = None
    Brokerage = {b1}
    Manual = {m1}
    Writer = {w1, w2}
SPECIFICATION FairSumSpec
CHECK_DEADLOCK FALSE
INVARIANTS
    SlotsMatch
    QuotaHeld
    RunIsSound
    BookIsLastWrite
PROPERTIES
    ImplementsGate
    SlotFreed
    RunEnds
    DivesLimited
    PlanConverges
    ProLostOnlyByEnd
    DeadSecretDropped
