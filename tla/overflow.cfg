\* The backoff after more failures than the power of a float can hold.
SPECIFICATION HCSpec
CONSTANTS
    BreakerEnabled = TRUE
    FailureThreshold = 1
    Cooldown = 1
    HalfOpenMaxProbes = 1
    Window = 1
    DownThreshold = 1
    DegradedThreshold = 1
    DegradedErrorPct = 20
    Request = {r1}
    VirtualModel = {"m"}
    Key = {"a"}
    UpstreamName = {"a"}
    NameOf <- SameName
    Pool <- SinglePool
    MaxAttempts = 1
    Status = {400, 503}
    PolicyOmitted = omitted
    RetryOnStatus = omitted
    RetryOnTimeout = TRUE
    RetryOnConnectionError = TRUE
    MetricsEnabled = TRUE
    Faults = {}
    Interval = 2
    ProbeStatuses = {"degraded", "down"}
    BackoffBase = 1
    BackoffMax = 3
    BackoffMultiplier = 2
    FloatMax = 4
    FailureCap = 4
    ProbeOrder <- SingleOrder
PROPERTIES
    ProbePutsOffNext
