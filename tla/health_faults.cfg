\* The health check with every fault, an upstream shared by two virtual models.
SPECIFICATION HCSpec
CONSTANTS
    BreakerEnabled = TRUE
    FailureThreshold = 3
    Cooldown = 1
    HalfOpenMaxProbes = 1
    Window = 1
    DownThreshold = 2
    DegradedThreshold = 2
    DegradedErrorPct = 100
    Request = {r1}
    VirtualModel = {"m", "n"}
    Key = {"a"}
    UpstreamName = {"a"}
    NameOf <- SameName
    Pool <- SharedPool
    MaxAttempts = 1
    Status = {429, 503}
    PolicyOmitted = omitted
    RetryOnStatus = {429}
    RetryOnTimeout = TRUE
    RetryOnConnectionError = FALSE
    MetricsEnabled = TRUE
    Faults = {"torn_body", "undecodable"}
    Interval = 2
    ProbeStatuses = {"degraded", "down"}
    BackoffBase = 1
    BackoffMax = 3
    BackoffMultiplier = 2
    FloatMax = 4
    FailureCap = 4
    ProbeOrder <- SharedOrder
INVARIANTS
    HCTypeOK
    OpenShownSomewhere
    BreakerConsistent
PROPERTIES
    
    ProbesKeepContract
