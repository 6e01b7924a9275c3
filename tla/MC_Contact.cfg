CONSTANTS
    Msg = {1}
    User = {u1}
    Owner = owner
    Worker = {w1}
    Channel = {"email", "sms", "push"}
    CHANNELS = {"email", "sms"}
    Adapters = {"email", "sms", "push"}
    Dest = {d1, d2, t1}
    Tokens = {t1}
    None = None
    BatchSize = 1
    MaxAttempts = 1
    Lease = 1
    BACKOFF_SECONDS <- MC_BACKOFF
    MaxAborts = 0
    LeaseHolds = TRUE
    CodeUser = {v1}
    CodeChannels = {"discord"}
    CodeDest = {d1, d2}
    NoDest = NoDest
    Req = {r1, r2}
    MAX_CHECK_ATTEMPTS = 1
    MAX_SENDS_PER_DESTINATION_PER_HOUR = 1
    MAX_SENDS_PER_USER_PER_DAY = 2
    MaxCodes = 2
SYMMETRY Symmetry
SPECIFICATION SumSpec
CHECK_DEADLOCK FALSE
INVARIANTS
    QueuedWasVerified
    OwnershipProven
    CodeLimits
