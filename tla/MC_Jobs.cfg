CONSTANTS
    None = None
    Req = {q1, q2}
    MaxTime = 2
    MaxUser = 2
    Run = {q1, q2}
    DigestDays = 2
    MaxSends = 1
    Scan = {q1, q2}
    Event = {e1}
    Ticker = {k1, k2}
    AlertDays = 3
    Cooldown = 2
    Sync = {q1, q2}
    TrialRunDays = 4
    TrialDays = 2
    EndingSoon = 1
    FinalNudge = 1
    Grace = 2
    Field <- Fields
    HealthTicks = 16
    TicksPerDay = 2
    Interval = 2
    GraceTicks = 1
    DegradedFactor = 3
    OfflineFactor = 5
    MaxFailures = 4
    Claim = {c1}
    Prose = {c1}
    FirstDay = 2
    LedgerDays = 7
    Lookback = 3
    Horizon = 2
    Candidates = 4
    FinalCount = 3
    Concurrency = 2
    AdmissionCap = 2
    AnalystCost = 2
    MoversCost = 1
    CriticCost = 2
    OverviewCost = 1
SYMMETRY Symmetry
SPECIFICATION SumSpec
CHECK_DEADLOCK FALSE
INVARIANTS
    IdentitySound
    NoPayingZombie
    NoSilentFailure
    NoDoubleDigest
    AlertsOnce
    TrialRight
    HealthIsTrue
    MidweekHeals
    PicksHonest
PROPERTIES
    NoHindsight
