-------------------------- MODULE UpstreamMetrics --------------------------
(***************************************************************************)
(* The health state of one (virtual model, upstream name) pair, as         *)
(* metrics.py keeps and classifies it: the count of failures in a row and  *)
(* the rolling window of the last results.  The counters that nothing in   *)
(* the program reads back (totals, errors by code, timestamps, the latest  *)
(* message) are left out.                                                  *)
(***************************************************************************)
EXTENDS Integers, Sequences, FiniteSets

CONSTANTS
    Window,             \* observability.metrics_window
    DownThreshold,      \* observability.down_threshold
    DegradedThreshold,  \* observability.degraded_threshold
    DegradedErrorPct    \* observability.degraded_error_pct, a whole percentage

\* What config.py's _validate_observability_values demands.
ASSUME MetricsAssumption ==
    /\ Window \in Nat \ {0}
    /\ DegradedThreshold \in Nat \ {0}
    /\ DownThreshold \in Nat
    /\ DownThreshold >= DegradedThreshold
    /\ DegradedErrorPct \in 0 .. 100

\* The count stops at DownThreshold: classify() tells no larger count apart.
MetricsStates ==
    [consecutive_failures : 0 .. DownThreshold, window : Seq(BOOLEAN)]

\* A pair that has no entry in the collector yet.
InitialMetrics == [consecutive_failures |-> 0, window |-> <<>>]

\* The collector has an entry, and so a snapshot lists the pair: a first attempt,
\* a torn one too, always leaves a value other than InitialMetrics behind.
Recorded(m) == m # InitialMetrics

\* deque(maxlen=Window).append(v)
Push(w, v) == IF Len(w) < Window THEN Append(w, v) ELSE Append(Tail(w), v)

OneMoreFailure(n) == IF n < DownThreshold THEN n + 1 ELSE n

RecordOk(m) == [consecutive_failures |-> 0, window |-> Push(m.window, TRUE)]

RecordError(m) ==
    [consecutive_failures |-> OneMoreFailure(m.consecutive_failures),
     window               |-> Push(m.window, FALSE)]

\* redact_text raises on an error message that is not a string: the count has
\* been bumped, the window has not been appended to.
RecordErrorTorn(m) ==
    [m EXCEPT !.consecutive_failures = OneMoreFailure(@)]

\* error_rate_pct() > degraded_error_pct
RateExceeded(w) ==
    Cardinality({i \in DOMAIN w : ~w[i]}) * 100 > DegradedErrorPct * Len(w)

Statuses == {"healthy", "degraded", "down"}

\* Slip: degraded only above the threshold.
ClassifyLate(m) ==
    CASE m.consecutive_failures >= DownThreshold -> "down"
      [] m.consecutive_failures < DownThreshold
         /\ (m.consecutive_failures > DegradedThreshold \/ RateExceeded(m.window)) -> "degraded"
      [] OTHER -> "healthy"

Classify(m) ==
    CASE m.consecutive_failures >= DownThreshold -> "down"
      [] m.consecutive_failures < DownThreshold
         /\ (m.consecutive_failures >= DegradedThreshold \/ RateExceeded(m.window)) -> "degraded"
      [] OTHER -> "healthy"
=============================================================================
