\* A sick upstream in two virtual models: the entry of the second.
SPECIFICATION HCFairSpec
CONSTANTS
    BreakerEnabled = TRUE
    FailureThreshold = 1
    Cooldown = 1
    HalfOpenMaxProbes = 1
    Window = 1
    DownThreshold = 1
    DegradedThreshold = 1
    DegradedErrorPct = 20
    Request = {r1}
    VirtualModel = {"m", "n"}
    Key = {"a"}
    UpstreamName = {"a"}
    NameOf <- SameName
    Pool <- SharedPool
    MaxAttempts = 1
    Status = {429, 503}
    PolicyOmitted = omitted
    RetryOnStatus = {429}
    RetryOnTimeout = TRUE
    RetryOnConnectionError = FALSE
    MetricsEnabled = TRUE
    Faults = {}
    Interval = 2
    ProbeStatuses = {"degraded", "down"}
    BackoffBase = 1
    BackoffMax = 3
    BackoffMultiplier = 2
    FloatMax = 1000
    FailureCap = 3
    ProbeOrder <- SharedOrder
PROPERTIES
    SickProbed
