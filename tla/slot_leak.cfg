\* A half-open trial that ends in an exception nobody catches.
SPECIFICATION FairSpec
CONSTANTS
    BreakerEnabled = TRUE
    FailureThreshold = 1
    Cooldown = 1
    HalfOpenMaxProbes = 1
    Window = 1
    DownThreshold = 1
    DegradedThreshold = 1
    DegradedErrorPct = 70
    Request = {r1}
    VirtualModel = {"m"}
    Key = {"a"}
    UpstreamName = {"a"}
    NameOf <- SameName
    Pool <- SinglePool
    MaxAttempts = 1
    Status = {400, 503}
    PolicyOmitted = omitted
    RetryOnStatus = omitted
    RetryOnTimeout = TRUE
    RetryOnConnectionError = TRUE
    MetricsEnabled = TRUE
    Faults = {"undecodable"}
PROPERTIES
    BreakersReopen
