\* A probe that raises, with another sick upstream behind it.
SPECIFICATION HCFairSpec
CONSTANTS
    BreakerEnabled = TRUE
    FailureThreshold = 1
    Cooldown = 1
    HalfOpenMaxProbes = 1
    Window = 1
    DownThreshold = 1
    DegradedThreshold = 1
    DegradedErrorPct = 20
    Request = {r1}
    VirtualModel = {"m"}
    Key = {"a", "b"}
    UpstreamName = {"a", "b"}
    NameOf <- SameName
    Pool <- PairPool
    MaxAttempts = 1
    Status = {400, 503}
    PolicyOmitted = omitted
    RetryOnStatus = omitted
    RetryOnTimeout = TRUE
    RetryOnConnectionError = FALSE
    MetricsEnabled = TRUE
    Faults = {"torn_body"}
    Interval = 1
    ProbeStatuses = {"degraded", "down"}
    BackoffBase = 1
    BackoffMax = 1
    BackoffMultiplier = 2
    FloatMax = 1000
    FailureCap = 1
    ProbeOrder <- PairOrder
PROPERTIES
    SickProbed
