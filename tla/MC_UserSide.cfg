CONSTANTS
    Msg = {1, 2}
    User = {u1}
    Worker = {w1, w2}
    Channel = {"email", "sms", "push"}
    CHANNELS = {"email", "sms"}
    Adapters = {"email", "push"}
    Dest = {d1}
    None = None
    BatchSize = 2
    MaxAttempts = 2
    Lease = 2
    BACKOFF_SECONDS <- MC_BACKOFF
    MaxAborts = 1
    LeaseHolds = TRUE
    PageUser = {u1, u2}
    Tab = {t1, t2}
    Repolls = 1
    MaxSignIns = 2
    Value = {v1, v2, v3}
    Default = v1
    MaxChanges = 3
    MaxFaults = 1
    Polls = 3
    Attempts = 1
    Sync = {s1, s2}
    Chain = {c1}
    MaxAsked = 2
    Question = {q1, q2}
    Try = {1, 2}
SPECIFICATION FairSumSpec
INVARIANTS
    WorkersDisjoint
    SendsExplained
    ShownIsOwn
    LatestShown
    AnsweredOnce
PROPERTIES
    SettledIsFinal
    ImplementsLifecycle
    ClaimableSettles
    BriefingShown
    SetupGoesOn
