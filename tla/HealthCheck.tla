---------------------------- MODULE HealthCheck ----------------------------
(***************************************************************************)
(* HealthCheckTask (service.py): a background task that probes the         *)
(* upstreams whose metrics look sick, beside the requests of Router.tla    *)
(* and on the same breakers and metrics.                                   *)
(*                                                                         *)
(* The code keeps next_probe_at, an instant, for every upstream it has     *)
(* probed; the model keeps how long it is until then, 0 once it has come.  *)
(* timer is what is left of the task's sleep.                              *)
(***************************************************************************)
EXTENDS Router

CONSTANTS
    Interval,           \* health_check.interval_seconds
    ProbeStatuses,      \* health_check.probe_statuses
    BackoffBase,        \* health_check.backoff_base_seconds
    BackoffMax,         \* health_check.backoff_max_seconds
    BackoffMultiplier,  \* health_check.backoff_multiplier
    FloatMax,           \* the largest power a float holds; beyond, ** raises
    FailureCap,         \* where the model stops counting failed probes
    ProbeOrder          \* all [vm, name] pairs, in the order _tick sorts them

Entries == [vm : VirtualModel, name : UpstreamName]

\* Backoff values are those _validate_health_check_values lets through.  The
\* count may stop at FailureCap once the delay has reached BackoffMax, or ** raises.
ASSUME HealthCheckAssumption ==
    /\ Interval \in Nat \ {0}
    /\ ProbeStatuses \subseteq Statuses
    /\ BackoffBase \in Nat \ {0}
    /\ BackoffMax \in Nat /\ BackoffMax >= BackoffBase
    /\ BackoffMultiplier \in Nat \ {0}
    /\ FloatMax \in Nat \ {0}
    /\ FailureCap \in Nat \ {0}
    /\ ProbeOrder \in Seq(Entries)

VARIABLES
    task,               \* the task: what it is doing, and the entries it still has to probe
    timer,              \* what is left of its sleep
    wait,               \* _next_probe_at, as the time left until then
    probe_failures      \* _probe_failures

hcVars == <<task, timer, wait, probe_failures>>
allVars == <<vars, hcVars>>

Untracked == -1         \* no entry in _next_probe_at

\* The first upstream of the pool with the entry's name, and its key.
EntryPositions(e) == {p \in DOMAIN Pool[e.vm] : NameOf[KeyAt(e.vm, p)] = e.name}
HasUpstream(e) == EntryPositions(e) # {}
KeyOfEntry(e) ==
    KeyAt(e.vm, CHOOSE p \in EntryPositions(e) : \A o \in EntryPositions(e) : p <= o)

\* The snapshot has an entry for every pair with a recorded attempt.
Sick(e) ==
    /\ Recorded(metrics[e.vm][e.name])
    /\ Classify(metrics[e.vm][e.name]) \in ProbeStatuses

\* Slip: an upstream never probed before has to wait for ever.
RipeOnceTracked(k) == wait[k] = 0

Ripe(k) == wait[k] \in {Untracked, 0}

\* Slip: the backoff is not looked at.
DueRegardless ==
    {i \in DOMAIN ProbeOrder : Sick(ProbeOrder[i]) /\ HasUpstream(ProbeOrder[i])}

\* The places in ProbeOrder that a tick that starts now will probe, in order.
Due ==
    {i \in DOMAIN ProbeOrder : LET e == ProbeOrder[i] IN
        Sick(e) /\ HasUpstream(e) /\ Ripe(KeyOfEntry(e))}

FirstPlace(todo) == CHOOSE i \in todo : \A j \in todo : i <= j
Foremost(todo) == ProbeOrder[FirstPlace(todo)]

Probed == Foremost(task.todo)
ProbedKey == KeyOfEntry(Probed)
Probing(k) == task.pc = "probing" /\ ProbedKey = k

\* How long _run sleeps after a tick.
SleepFor(w) ==
    LET times == {Interval} \cup {w[k] : k \in {k \in Key : w[k] # Untracked}} IN
    CHOOSE t \in times : \A u \in times : t <= u

Power[n \in Nat] == IF n = 0 THEN 1 ELSE BackoffMultiplier * Power[n - 1]

FailuresWith(n) == IF n < FailureCap THEN n + 1 ELSE n
Overflows(n) == Power[n - 1] > FloatMax
\* Slip: the delay is not capped.
DelayUncapped(n) == BackoffBase * Power[n - 1]

Delay(n) ==
    IF BackoffBase * Power[n - 1] < BackoffMax THEN BackoffBase * Power[n - 1] ELSE BackoffMax
-----------------------------------------------------------------------------
HCInit ==
    /\ Init
    /\ task = [pc |-> "sleeping", todo |-> {}]
    /\ timer = 0
    /\ wait = [k \in Key |-> Untracked]
    /\ probe_failures = [k \in Key |-> 0]

\* The tick is over and the task goes to sleep with next-probe times w.
Sleep(w) ==
    /\ task' = [pc |-> "sleeping", todo |-> {}]
    /\ timer' = SleepFor(w)

\* The task probes the foremost entry of todo, or sleeps if there is none.
Continue(todo, w) ==
    \/ /\ todo # {}
       /\ task' = [pc |-> "probing", todo |-> todo]
       /\ UNCHANGED timer
    \/ todo = {} /\ Sleep(w)

\* The sleep is over: the snapshot, the statuses and "now" are those of this
\* moment for the whole tick.
Wake ==
    /\ task.pc = "sleeping"
    /\ timer = 0
    /\ Continue(Due, wait)
    /\ UNCHANGED <<vars, wait, probe_failures>>

\* The rest of the tick after a probe that set the next-probe times to w.  "now" is
\* still when the tick began: nothing that was due by then can cease to be but the
\* upstream just probed, whose new time, if later than the present, is later than
\* "now" too.  Another virtual model's entry for it is then skipped.
NextEntry(w) ==
    Continue({i \in task.todo \ {FirstPlace(task.todo)} :
                KeyOfEntry(ProbeOrder[i]) = ProbedKey => w[ProbedKey] \in {Untracked, 0}}, w)

\* Slip: the sleep is worked out from the next-probe times before this probe.
AdvanceBackoffStale ==
    LET n == FailuresWith(probe_failures[ProbedKey])
        w == [wait EXCEPT ![ProbedKey] = Delay(n)] IN
    /\ probe_failures' = [probe_failures EXCEPT ![ProbedKey] = n]
    /\ \/ ~Overflows(n) /\ wait' = w /\ NextEntry(wait)
       \/ Overflows(n) /\ UNCHANGED wait /\ Sleep(wait)

\* _advance_backoff and the end of the probe.  When the power overflows, the
\* exception aborts the tick before next_probe_at is set.
AdvanceBackoff ==
    LET n == FailuresWith(probe_failures[ProbedKey])
        w == [wait EXCEPT ![ProbedKey] = Delay(n)] IN
    /\ probe_failures' = [probe_failures EXCEPT ![ProbedKey] = n]
    /\ \/ ~Overflows(n) /\ wait' = w /\ NextEntry(w)
       \/ Overflows(n) /\ UNCHANGED wait /\ Sleep(wait)

\* Slip: a success forgets the upstream instead of putting the next probe off.
ResetUntracked ==
    LET w == [wait EXCEPT ![ProbedKey] = Untracked] IN
    /\ probe_failures' = [probe_failures EXCEPT ![ProbedKey] = 0]
    /\ wait' = w
    /\ NextEntry(w)

\* _reset_backoff and the end of the probe.
ResetBackoff ==
    LET w == [wait EXCEPT ![ProbedKey] = BackoffBase] IN
    /\ probe_failures' = [probe_failures EXCEPT ![ProbedKey] = 0]
    /\ wait' = w
    /\ NextEntry(w)

\* Slip: a probe's success reaches the metrics and not the breaker.
ProbeSucceedsQuietly ==
    /\ task.pc = "probing"
    /\ RecordAttempt(Probed.vm, ProbedKey, RecordOk)
    /\ ResetBackoff
    /\ UNCHANGED <<breaker, req>>

ProbeSucceeds ==
    /\ task.pc = "probing"
    /\ breaker' = Breakers(ProbedKey, RecordSuccess)
    /\ RecordAttempt(Probed.vm, ProbedKey, RecordOk)
    /\ ResetBackoff
    /\ UNCHANGED req

\* Slip: a caller error of a probe closes the breaker like a success.
ProbeClosesOnAnswer(s) ==
    /\ task.pc = "probing"
    /\ breaker' = IF RetryableStatus(s) THEN Breakers(ProbedKey, RecordRetryableFailure)
                                        ELSE Breakers(ProbedKey, RecordSuccess)
    /\ RecordAttempt(Probed.vm, ProbedKey, RecordError)
    /\ AdvanceBackoff
    /\ UNCHANGED req

ProbeHttpError(s) ==
    /\ task.pc = "probing"
    /\ breaker' = IF RetryableStatus(s) THEN Breakers(ProbedKey, RecordRetryableFailure)
                                        ELSE Breakers(ProbedKey, RecordNonRetryable)
    /\ RecordAttempt(Probed.vm, ProbedKey, RecordError)
    /\ AdvanceBackoff
    /\ UNCHANGED req

\* A probe's transport failure reaches the breaker only if the policy retries it.
ProbeTransportFailure(counts) ==
    /\ task.pc = "probing"
    /\ breaker' = IF counts THEN Breakers(ProbedKey, RecordRetryableFailure) ELSE breaker
    /\ RecordAttempt(Probed.vm, ProbedKey, RecordError)
    /\ AdvanceBackoff
    /\ UNCHANGED req

ProbeTimeout == ProbeTransportFailure(RetryOnTimeout)
ProbeConnectionError == ProbeTransportFailure(RetryOnConnectionError)

\* An error response whose message is no string: the breaker is told, the
\* metrics update raises half-way, the backoff is left alone and the tick ends.
ProbeTornErrorBody(s) ==
    /\ "torn_body" \in Faults
    /\ MetricsEnabled
    /\ task.pc = "probing"
    /\ breaker' = IF RetryableStatus(s) THEN Breakers(ProbedKey, RecordRetryableFailure)
                                        ELSE Breakers(ProbedKey, RecordNonRetryable)
    /\ RecordAttempt(Probed.vm, ProbedKey, RecordErrorTorn)
    /\ Sleep(wait)
    /\ UNCHANGED <<req, wait, probe_failures>>

\* A response httpx cannot decode ends the tick with nothing recorded.
ProbeUndecodableBody ==
    /\ "undecodable" \in Faults
    /\ task.pc = "probing"
    /\ Sleep(wait)
    /\ UNCHANGED <<vars, wait, probe_failures>>

ProbeAnswer ==
    \/ ProbeSucceeds
    \/ \E s \in Status : ProbeHttpError(s) \/ ProbeTornErrorBody(s)
    \/ ProbeTimeout
    \/ ProbeConnectionError
    \/ ProbeUndecodableBody

Less(t) == IF t > 0 THEN t - 1 ELSE t

\* Time passes for the breakers, the sleep and the next-probe times alike.
HCTick ==
    /\ \/ \E k \in Key : CoolingDown(breaker[k]) \/ wait[k] > 0
       \/ timer > 0
    /\ breaker' = [k \in Key |-> Elapse(breaker[k])]
    /\ timer' = Less(timer)
    /\ wait' = [k \in Key |-> Less(wait[k])]
    /\ UNCHANGED <<metrics, req, task, probe_failures>>

RequestStep(r) ==
    /\ \/ \E vm \in VirtualModel : Arrive(r, vm)
       \/ UnknownModel(r)
       \/ Answer(r)
    /\ UNCHANGED hcVars

HCNext ==
    \/ \E r \in Request : RequestStep(r)
    \/ Wake
    \/ ProbeAnswer
    \/ HCTick

\* The timeouts of the calls and of the probes, the timer of the event loop.
HCFairness ==
    /\ \A r \in Request : WF_allVars(Answer(r) /\ UNCHANGED hcVars)
    /\ WF_allVars(Wake)
    /\ WF_allVars(ProbeAnswer)
    /\ WF_allVars(HCTick)

HCSpec == HCInit /\ [][HCNext]_allVars
HCFairSpec == HCSpec /\ HCFairness
-----------------------------------------------------------------------------
HCTypeOK ==
    /\ TypeOK
    /\ task \in [pc : {"sleeping", "probing"}, todo : SUBSET DOMAIN ProbeOrder]
    /\ task.pc = "probing" => task.todo # {}
    /\ timer \in 0 .. Interval
    /\ wait \in [Key -> {Untracked} \cup 0 .. BackoffMax]
    /\ probe_failures \in [Key -> 0 .. FailureCap]

\* No upstream is probed before its backoff is over, not even for a second
\* virtual model in the same tick (_tick, _advance_backoff).
BackoffRespected ==
    [][\A k \in Key :
        task'.pc = "probing" /\ task' # task /\ KeyOfEntry(Foremost(task'.todo)) = k => Ripe(k)]_allVars

\* A probe, however it ends, puts the next one of that upstream off by at least
\* the base interval, so no upstream is ever probed in a tight loop.
ProbePutsOffNext ==
    [][\A k \in Key :
        Probing(k) /\ task' # task => wait'[k] >= BackoffBase]_allVars

\* The task never sleeps past the moment at which an upstream may be probed
\* again, also right after probes that each moved one of these moments: none is
\* "held hostage to another host's long backoff tail" (_run's docstring).
WakesInTime ==
    task.pc = "sleeping" => \A k \in Key : wait[k] # Untracked => timer <= wait[k]

\* A tick that finds nothing to probe is followed by a sleep
\* (docs/specs/2026-07-20-decaying-health-check.md, D6: idle loops don't busy-spin).
NoBusySpin == task.pc = "sleeping" /\ timer = 0 /\ Due = {} => SleepFor(wait) > 0

\* What Router.tla shows of its breakers and requests, with the probe in flight
\* and the upstreams whose last probe failed.
WithProbes == INSTANCE ProbedContract WITH
    circuit <- [k \in Key |-> CircuitOf(breaker[k])],
    calls   <- [r \in Request |-> KeysAwaited(req[r])],
    outcome <- [r \in Request |-> VerdictOf(req[r])],
    probing <- IF task.pc = "probing" THEN {ProbedKey} ELSE {},
    failing <- {k \in Key : probe_failures[k] > 0}

\* With requests and probes interleaved, the circuits of the documents are
\* still kept, and no probe but a successful one closes a circuit
\* (_probe_upstream, docs/decisions/2026-07-18-half-open-requires-2xx.md).
ProbesKeepContract == WithProbes!ProbedSpec

\* The virtual models that share an upstream are so few that the failures which
\* open its breaker cannot be spread over them all without one of them reaching
\* the degraded threshold.  (With the default thresholds, 5 and 3: one or two.)
FewOwners ==
    \A k \in Key :
        /\ IsFiniteSet(EntriesOf(k))
        /\ Cardinality(EntriesOf(k)) * (DegradedThreshold - 1) < FailureThreshold

\* While a breaker is open, some virtual model shows its upstream as sick.  (That
\* all of them do is what run shared_pool refutes.)
OpenShownSomewhere ==
    \A k \in Key : IsOpen(breaker[k]) =>
        \E vm \in EntriesOf(k) : Classify(metrics[vm][NameOf[k]]) # "healthy"

\* An upstream that looks sick is probed before long, or has recovered.
SickProbed ==
    \A i \in DOMAIN ProbeOrder : LET e == ProbeOrder[i] IN
        HasUpstream(e) /\ Sick(e) ~> ~Sick(e) \/ (task.pc = "probing" /\ Probed = e)

\* An open breaker does not need client traffic to close again: the upstream
\* is probed before long.
OpenBreakerProbed == \A k \in Key : IsOpen(breaker[k]) ~> ~IsOpen(breaker[k]) \/ Probing(k)
=============================================================================
