CONSTANTS
    Msg = {1, 2}
    User = {u1}
    Worker = {w1}
    Channel = {"email", "push"}
    CHANNELS = {"email"}
    Adapters = {"email", "push"}
    Dest = {d1}
    None = None
    BatchSize = 2
    MaxAttempts = 3
    Lease = 2
    BACKOFF_SECONDS <- MC_BACKOFF
    MaxAborts = 1
    LeaseHolds = FALSE
SPECIFICATION FairSpec
PROPERTIES
    DeliverableSettles
