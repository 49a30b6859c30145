------------------------------ MODULE ConfigLoad ------------------------------
(***************************************************************************)
(* Loading the configuration (config.py): the checks of validate_config on *)
(* what the file says, and _build_router_config, which fills in defaults   *)
(* from the providers and clamps the numbers.  A configuration is accepted *)
(* or not; the wording of the problems is left out.                        *)
(*                                                                         *)
(* Nothing here but compares numbers, so floats are integers in units that *)
(* leave no fraction, infinity being one that is larger than the others,   *)
(* and NaN is by itself.  Text is abstracted to tokens: "" is what Python  *)
(* takes for false, Unset is None.                                         *)
(***************************************************************************)
EXTENDS Integers, Sequences

CONSTANTS
    Env,                \* the environment variables that have a value
    NaN,                \* the float that is not a number: .nan in the file
    One                 \* 1.0

ASSUME ConfigAssumption ==
    /\ NaN \notin Int
    /\ One \in Nat \ {0}

Float == Int \cup {NaN}

\* x < low, which does not hold of NaN.
Below(x, low) == x # NaN /\ low # NaN /\ x < low

Unset == "unset"
ProbeableStatuses == {"healthy", "degraded", "down"}

\* The types that the pydantic models give to what has been read.
Typed(c) ==
    /\ {"readable", "providers", "virtual_models", "max_attempts", "breaker", "observability",
        "health_check"} \subseteq DOMAIN c
    /\ c.breaker \in [failure_threshold : Int, cooldown_seconds : Float, half_open_max_probes : Int]
    /\ c.observability \in [metrics_window : Int, degraded_threshold : Int,
                           down_threshold : Int, degraded_error_pct : Float]
    /\ c.health_check \in [enabled : BOOLEAN, interval_seconds : Float, probe_max_tokens : Int,
                          probe_timeout_seconds : Float, probe_statuses : SUBSET STRING,
                          backoff_base_seconds : Float, backoff_max_seconds : Float,
                          backoff_multiplier : Float]
    /\ c.max_attempts \in Int
    /\ c.providers \in [DOMAIN c.providers -> [base_url : STRING, api_key_env : STRING]]
    /\ c.virtual_models \in [DOMAIN c.virtual_models ->
            Seq([name : STRING, provider : STRING, base_url : STRING, api_key_env : STRING,
                 model : STRING, priority : Int, weight : Int, provider_pin : SUBSET STRING])]

BreakerAccepted(c) ==
    /\ c.failure_threshold >= 1
    /\ ~Below(c.cooldown_seconds, 0)
    /\ c.half_open_max_probes >= 1

ObservabilityAccepted(c) ==
    /\ c.metrics_window >= 1
    /\ c.degraded_threshold >= 1
    /\ c.down_threshold >= 1
    /\ c.down_threshold >= c.degraded_threshold
    /\ c.degraded_error_pct # NaN /\ c.degraded_error_pct \in 0 .. 100 * One

HealthCheckLimits(c) ==
    /\ ~Below(c.interval_seconds, 5 * One)
    /\ c.probe_max_tokens >= 1
    /\ ~Below(c.probe_timeout_seconds, One)
    /\ c.probe_statuses # {} /\ c.probe_statuses \subseteq ProbeableStatuses
    /\ ~Below(c.backoff_base_seconds, One)
    /\ ~Below(c.backoff_multiplier, One)

CapAccepted(c) == ~Below(c.backoff_max_seconds, c.backoff_base_seconds)

HealthCheckAccepted(c) == HealthCheckLimits(c) /\ CapAccepted(c)

\* What the two validators, for raw and for normalized upstreams, share.
ChoiceAccepted(u) == u.priority >= 1 /\ u.weight >= 1 /\ "" \notin u.provider_pin

KeyAvailable(name) == name # "" => name \in Env
-----------------------------------------------------------------------------
\* Raw upstreams and providers, as the file has them.

Either(a, b) == IF a # "" THEN a ELSE b

BaseUrl(u, providers) ==
    Either(u.base_url, IF u.provider # "" THEN providers[u.provider].base_url ELSE "")

ApiKeyEnv(u, providers) ==
    IF u.api_key_env # Unset THEN u.api_key_env
    ELSE IF u.provider # "" THEN providers[u.provider].api_key_env ELSE ""

\* Slip: an upstream of a provider is taken to have an address.
RawUpstreamUnlocated(u, providers) ==
    /\ u.model # ""
    /\ u.provider # "" => u.provider \in DOMAIN providers
    /\ u.provider = "" => u.name # "" /\ u.base_url # ""
    /\ KeyAvailable(ApiKeyEnv(u, providers))
    /\ ChoiceAccepted(u)

RawUpstreamAccepted(u, providers) ==
    /\ u.model # ""
    /\ \/ u.provider # "" /\ u.provider \in DOMAIN providers
       \/ u.provider = "" /\ u.name # ""
    /\ BaseUrl(u, providers) # ""
    /\ KeyAvailable(ApiKeyEnv(u, providers))
    /\ ChoiceAccepted(u)

\* load_config: the file is read, typed and validated.
RawAccepted(c) ==
    /\ c.readable
    /\ BreakerAccepted(c.breaker)
    /\ ObservabilityAccepted(c.observability)
    /\ HealthCheckAccepted(c.health_check)
    /\ DOMAIN c.virtual_models # {}
    /\ \A vm \in DOMAIN c.virtual_models : LET us == c.virtual_models[vm] IN
          us # <<>> /\ \A i \in DOMAIN us : RawUpstreamAccepted(us[i], c.providers)
-----------------------------------------------------------------------------
\* Normalization.

\* max(low, x), which is low if x is NaN.
AtLeast(low, x) == IF x # NaN /\ x > low THEN x ELSE low

NormalUpstream(u, providers) ==
    [name         |-> Either(u.name, IF u.provider # "" THEN "provider:model" ELSE ""),
     base_url     |-> BaseUrl(u, providers),
     model        |-> u.model,
     api_key_env  |-> ApiKeyEnv(u, providers),
     priority     |-> AtLeast(1, u.priority),
     weight       |-> AtLeast(1, u.weight),
     provider_pin |-> u.provider_pin]

NormalBreaker(c) ==
    [failure_threshold    |-> AtLeast(1, c.failure_threshold),
     cooldown_seconds     |-> AtLeast(0, c.cooldown_seconds),
     half_open_max_probes |-> AtLeast(1, c.half_open_max_probes)]

NormalHealthCheck(c) ==
    [enabled               |-> c.enabled,
     interval_seconds      |-> AtLeast(5 * One, c.interval_seconds),
     probe_max_tokens      |-> AtLeast(1, c.probe_max_tokens),
     probe_timeout_seconds |-> AtLeast(One, c.probe_timeout_seconds),
     probe_statuses        |-> c.probe_statuses,
     backoff_base_seconds  |-> AtLeast(One, c.backoff_base_seconds),
     backoff_max_seconds   |-> AtLeast(One, c.backoff_max_seconds),
     backoff_multiplier    |-> AtLeast(One, c.backoff_multiplier)]

\* _build_router_config
Normal(c) ==
    [virtual_models |-> [vm \in DOMAIN c.virtual_models |->
                            [i \in DOMAIN c.virtual_models[vm] |->
                                NormalUpstream(c.virtual_models[vm][i], c.providers)]],
     breaker        |-> NormalBreaker(c.breaker),
     max_attempts   |-> AtLeast(1, c.max_attempts),
     observability  |-> c.observability,
     health_check   |-> NormalHealthCheck(c.health_check)]

\* _validate_normalized_config
NormalUpstreamAccepted(u) ==
    /\ u.name # "" /\ u.base_url # "" /\ u.model # ""
    /\ KeyAvailable(u.api_key_env)
    /\ ChoiceAccepted(u)

NormalUpToCap(c) ==
    /\ BreakerAccepted(c.breaker)
    /\ ObservabilityAccepted(c.observability)
    /\ HealthCheckLimits(c.health_check)
    /\ DOMAIN c.virtual_models # {}
    /\ \A vm \in DOMAIN c.virtual_models : LET us == c.virtual_models[vm] IN
          us # <<>> /\ \A i \in DOMAIN us : NormalUpstreamAccepted(us[i])

NormalAccepted(c) == NormalUpToCap(c) /\ CapAccepted(c.health_check)

\* What the other modules assume of the constants that configuration c provides
\* (BreakerAssumption, MetricsAssumption, RouterAssumption, HealthCheckAssumption),
\* but for three things: that times are finite, that percentage and multiplier are
\* whole, and CapAccepted.
MeetsAssumptions(c) ==
    /\ c.breaker \in [failure_threshold : Nat \ {0}, cooldown_seconds : Nat,
                      half_open_max_probes : Nat \ {0}]
    /\ c.observability \in [metrics_window : Nat \ {0}, degraded_threshold : Nat \ {0},
                            down_threshold : Nat, degraded_error_pct : 0 .. 100 * One]
    /\ c.observability.down_threshold >= c.observability.degraded_threshold
    /\ c.max_attempts \in Nat \ {0}
    /\ c.health_check.interval_seconds \in Nat \ {0}
    /\ c.health_check.probe_statuses \subseteq ProbeableStatuses
    /\ c.health_check.backoff_base_seconds \in Nat \ {0}
    /\ c.health_check.backoff_max_seconds \in Nat
    /\ c.health_check.backoff_multiplier \in Nat /\ c.health_check.backoff_multiplier >= One
    /\ DOMAIN c.virtual_models # {}
    /\ \A vm \in DOMAIN c.virtual_models : LET us == c.virtual_models[vm] IN
          /\ us # <<>>
          /\ \A i \in DOMAIN us : us[i].priority \in Nat \ {0} /\ us[i].weight \in Nat \ {0}
=============================================================================
