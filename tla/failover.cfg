\* Two requests over a weighted tier and a uniform one, with retries and every fault.
SPECIFICATION Spec
CONSTANTS
    BreakerEnabled = TRUE
    FailureThreshold = 3
    Cooldown = 1
    HalfOpenMaxProbes = 1
    Window = 1
    DownThreshold = 1
    DegradedThreshold = 1
    DegradedErrorPct = 20
    Request = {r1, r2}
    VirtualModel = {"m"}
    Key = {"a", "b"}
    UpstreamName = {"a", "b"}
    NameOf <- SameName
    Pool <- TieredPool
    MaxAttempts = 2
    Status = {400, 503}
    PolicyOmitted = omitted
    RetryOnStatus = omitted
    RetryOnTimeout = TRUE
    RetryOnConnectionError = FALSE
    MetricsEnabled = TRUE
    Faults = {"torn_body", "undecodable"}
SYMMETRY Slots
INVARIANTS
    TypeOK
    BreakerConsistent
    NoRevisit
    PriorityRespected
PROPERTIES
    CallsGated
    NothingPassedOver
    CallsRunOut
    KeepsContract
