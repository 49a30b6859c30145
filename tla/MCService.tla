------------------------------ MODULE MCService ------------------------------
(***************************************************************************)
(* Constant values for TLC's run of Service.tla.                           *)
(***************************************************************************)
EXTENDS Service, TLC

\* Two events; CRLF and a comment; an unterminated last event; lines that end in
\* CR only; halves on different lines; an event inside other text; nothing.
StreamBodies ==
    {<<"head", "tail", "lf", "head", "tail", "lf">>,
     <<"head", "tail", "cr", "lf", "text", "cr", "lf">>,
     <<"text", "lf", "head", "tail">>,
     <<"head", "tail", "cr", "head", "tail">>,
     <<"head", "lf", "tail", "lf">>,
     <<"text", "head", "tail", "lf">>,
     <<>>}

Breaker(f, c, h) ==
    [failure_threshold |-> f, cooldown_seconds |-> c, half_open_max_probes |-> h]

Observability(w, degraded, down, pct) ==
    [metrics_window |-> w, degraded_threshold |-> degraded, down_threshold |-> down,
     degraded_error_pct |-> pct]

HealthCheck(enabled, interval, tokens, timeout, statuses, backoff) ==
    [enabled |-> enabled, interval_seconds |-> interval, probe_max_tokens |-> tokens,
     probe_timeout_seconds |-> timeout, probe_statuses |-> statuses,
     backoff_base_seconds |-> backoff[1], backoff_max_seconds |-> backoff[2],
     backoff_multiplier |-> backoff[3]]

Upstream(name, provider, url, env, model, priority, weight, pin) ==
    [name |-> name, provider |-> provider, base_url |-> url, api_key_env |-> env,
     model |-> model, priority |-> priority, weight |-> weight, provider_pin |-> pin]

Providers(url, env) == "p" :> [base_url |-> url, api_key_env |-> env]

Base ==
    [readable       |-> TRUE,
     providers      |-> Providers("url", "K"),
     virtual_models |-> "m" :> <<Upstream("", "p", "", Unset, "model", 1, 100, {})>>,
     max_attempts   |-> 0,
     breaker        |-> Breaker(5, 30, 1),
     observability  |-> Observability(100, 3, 5, 20 * One),
     health_check   |-> HealthCheck(FALSE, 5 * One, 1, One, {"down"}, <<One, 2 * One, One>>)]

\* Every part varied around its limits, the others as in Base.
FileVariants ==
    {Base, [Base EXCEPT !.readable = FALSE],
     [Base EXCEPT !.virtual_models = <<>>],
     [Base EXCEPT !.virtual_models = "m" :> <<>>]}

BreakerVariants ==
    {[Base EXCEPT !.breaker = Breaker(f, c, h)] : f \in {0, 1}, c \in {-1, 0, NaN}, h \in {0, 1}}

ObservabilityVariants ==
    {[Base EXCEPT !.observability = Observability(w, degraded, down, pct)] :
        w \in {0, 1}, degraded \in 0 .. 2, down \in 0 .. 2, pct \in {-1, 0, 100 * One, 100 * One + 1, NaN}}

AroundOne == {One - 1, One, One + 1, NaN}

HealthCheckVariants ==
    {[Base EXCEPT !.health_check =
          HealthCheck(TRUE, i, n, t, statuses, <<base, max, multiplier>>)] :
        i \in {5 * One - 1, 5 * One, NaN}, n \in {0, 1}, t \in {One - 1, One, NaN},
        statuses \in {{}, {"down"}, {"down", "gone"}},
        base \in AroundOne, max \in AroundOne, multiplier \in AroundOne}

UpstreamVariants ==
    {[Base EXCEPT !.providers = Providers(purl, penv),
                  !.virtual_models = "m" :> <<Upstream(name, provider, url, env, model, n, n, pin)>>] :
        purl \in {"", "url"}, penv \in {"", "K", "L"}, name \in {"", "n"},
        provider \in {"", "p", "q"}, url \in {"", "v"}, env \in {Unset, "", "K", "L"},
        model \in {"", "model"}, n \in {0, 1}, pin \in {{}, {""}}}

FileConfigs ==
    FileVariants \cup BreakerVariants \cup ObservabilityVariants \cup HealthCheckVariants
        \cup UpstreamVariants
=============================================================================
