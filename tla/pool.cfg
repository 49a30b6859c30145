\* What the pool shows and that nothing gets stuck: two requests, one upstream
\* and its fallback, two attempts on each, every answer the code foresees.
SPECIFICATION FairSpec
CONSTANTS
    BreakerEnabled = TRUE
    FailureThreshold = 2
    Cooldown = 1
    HalfOpenMaxProbes = 1
    Window = 3
    DownThreshold = 3
    DegradedThreshold = 2
    DegradedErrorPct = 70
    Request = {r1, r2}
    VirtualModel = {"m"}
    Key = {"a", "b"}
    UpstreamName = {"a", "b"}
    NameOf <- SameName
    Pool <- PairPool
    MaxAttempts = 2
    Status = {400, 503}
    PolicyOmitted = omitted
    RetryOnStatus = omitted
    RetryOnTimeout = TRUE
    RetryOnConnectionError = FALSE
    MetricsEnabled = TRUE
    Faults = {}
INVARIANTS
    PoolTruthful
    SlotsHeld
PROPERTIES
    RequestsAnswered
    BreakersReopen
