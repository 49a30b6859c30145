\* The health check beside one request at a time, two upstreams.
SPECIFICATION HCFairSpec
CONSTANTS
    BreakerEnabled = TRUE
    FailureThreshold = 1
    Cooldown = 1
    HalfOpenMaxProbes = 1
    Window = 1
    DownThreshold = 1
    DegradedThreshold = 1
    DegradedErrorPct = 20
    Request = {r1}
    VirtualModel = {"m"}
    Key = {"a", "b"}
    UpstreamName = {"a", "b"}
    NameOf <- SameName
    Pool <- PairPool
    MaxAttempts = 1
    Status = {400, 503}
    PolicyOmitted = omitted
    RetryOnStatus = omitted
    RetryOnTimeout = TRUE
    RetryOnConnectionError = FALSE
    MetricsEnabled = TRUE
    Faults = {}
    Interval = 2
    ProbeStatuses = {"degraded", "down"}
    BackoffBase = 1
    BackoffMax = 3
    BackoffMultiplier = 2
    FloatMax = 1000
    FailureCap = 3
    ProbeOrder <- PairOrder
INVARIANTS
    PoolTruthful
    WakesInTime
    SlotsHeld
PROPERTIES
    ProbePutsOffNext
    SickProbed
    OpenBreakerProbed
