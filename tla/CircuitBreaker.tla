--------------------------- MODULE CircuitBreaker ---------------------------
(***************************************************************************)
(* The circuit breaker that richard-router keeps for every upstream        *)
(* (service.py, CircuitBreakerState and the four methods that touch it),   *)
(* as operators on one breaker record.  Router.tla owns the variable.      *)
(*                                                                         *)
(* The code stores opened_at and only ever asks whether                    *)
(* clock() - opened_at < cooldown_seconds.  The model stores the age of    *)
(* that instant instead, opened_age, and lets it stop at Cooldown: no test *)
(* in the code tells later ages apart.                                     *)
(*                                                                         *)
(* Here and in the modules above, a definition marked "Slip" is a wrong    *)
(* version of the one after it and is used by no specification: README.md  *)
(* says which property catches it.                                         *)
(***************************************************************************)
EXTENDS Integers

CONSTANTS
    BreakerEnabled,     \* failover.circuit_breaker.enabled
    FailureThreshold,   \* failover.circuit_breaker.failure_threshold
    Cooldown,           \* cooldown_seconds, in units of the model's clock
    HalfOpenMaxProbes   \* half_open_max_probes

ASSUME BreakerAssumption ==
    /\ BreakerEnabled \in BOOLEAN
    /\ FailureThreshold \in Nat \ {0}
    /\ Cooldown \in Nat
    /\ HalfOpenMaxProbes \in Nat \ {0}

NotOpen == -1           \* opened_at is None

BreakerStates ==
    [consecutive_failures : 0 .. FailureThreshold,
     opened_age           : {NotOpen} \cup 0 .. Cooldown,
     half_open_probes     : 0 .. HalfOpenMaxProbes]

InitialBreaker ==
    [consecutive_failures |-> 0, opened_age |-> NotOpen, half_open_probes |-> 0]

IsOpen(b) == b.opened_age # NotOpen

CoolingDown(b) == IsOpen(b) /\ b.opened_age < Cooldown

\* Slip: any number of half-open trials.
AllowsAnyTrial(b) == ~BreakerEnabled \/ ~CoolingDown(b)

\* The test without side effects that the failover loop uses to choose.
AllowsTraffic(b) ==
    \/ ~BreakerEnabled
    \/ ~IsOpen(b)
    \/ ~CoolingDown(b) /\ b.half_open_probes < HalfOpenMaxProbes

\* Slip: the trial is let through but not counted.
AdmitUncounted(b) == b

\* What the admission test does to the breaker once it lets a call through:
\* an open breaker past its cooldown spends a half-open slot.
Admit(b) ==
    IF BreakerEnabled /\ IsOpen(b)
    THEN [b EXCEPT !.half_open_probes = @ + 1]
    ELSE b

RecordSuccess(b) == IF BreakerEnabled THEN InitialBreaker ELSE b

\* Open from this moment on, no slot in use, n failures on the count.
Armed(n) == [consecutive_failures |-> n, opened_age |-> 0, half_open_probes |-> 0]

\* Slip: a failed trial re-arms the cooldown and keeps its slot.
RearmKeepsSlot(b) ==
    IF ~BreakerEnabled THEN b
    ELSE IF IsOpen(b) THEN [b EXCEPT !.opened_age = 0]
    ELSE IF b.consecutive_failures + 1 >= FailureThreshold THEN Armed(FailureThreshold)
    ELSE [b EXCEPT !.consecutive_failures = @ + 1]

\* A retryable failure re-arms an open breaker; a closed one opens on the
\* FailureThreshold-th failure in a row.
RecordRetryableFailure(b) ==
    IF ~BreakerEnabled THEN b
    ELSE IF IsOpen(b) \/ b.consecutive_failures + 1 >= FailureThreshold THEN Armed(FailureThreshold)
    ELSE [b EXCEPT !.consecutive_failures = @ + 1]

\* Slip: a caller error always clears the failure count.
CallerErrorClears(b) ==
    IF ~BreakerEnabled THEN b
    ELSE IF IsOpen(b) THEN Armed(0)
    ELSE [b EXCEPT !.consecutive_failures = 0]

\* Slip: a caller error re-arms the cooldown and keeps its slot.
CallerErrorKeepsSlot(b) ==
    IF ~BreakerEnabled THEN b
    ELSE IF IsOpen(b) THEN [b EXCEPT !.opened_age = 0]
    ELSE [b EXCEPT !.consecutive_failures = 0]

\* Slip: a caller error closes a half-open breaker.
CallerErrorCloses(b) == RecordSuccess(b)

\* A non-2xx answer that is not retryable leaves an open breaker open and
\* re-arms its cooldown; in a closed one it clears the failure count.
RecordNonRetryable(b) ==
    IF ~BreakerEnabled THEN b
    ELSE IF IsOpen(b) THEN Armed(b.consecutive_failures)
    ELSE [b EXCEPT !.consecutive_failures = 0]

\* One unit of time passes.
Elapse(b) == IF CoolingDown(b) THEN [b EXCEPT !.opened_age = @ + 1] ELSE b
=============================================================================
