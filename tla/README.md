# TLA+ models and proofs of richard-router

richard-router is an OpenAI-compatible router: a client asks for a *virtual
model*, the router tries the upstreams configured for it, tier by tier, under
circuit breakers, and returns the first good answer. This directory models the
part of it that is hard to test: concurrent requests and a background health
check that share breakers and metrics, streams relayed line by line, and the
start and end of the process. All paths below are relative to
`src/richard_router/` unless they start with `src/`.

## 1. The system

| Component | State | Operations | Modelled in |
|---|---|---|---|
| Circuit breaker (`service.py:61-65, 107-186`) | per client cache key (name, base_url, model): `consecutive_failures`, `opened_at`, `half_open_probes` | `_circuit_allows_traffic`, `_circuit_open_attempt`, `_record_upstream_success`, `_record_retryable_failure`, `_record_non_retryable_response` | `CircuitBreaker`; what is promised of it in `BreakerContract`, `ProbedContract` |
| Upstream metrics (`metrics.py`) | per (virtual model, upstream name): `consecutive_failures`, `_window`, totals, timestamps | `record`, `classify`, `record_attempt`, `snapshot` | `UpstreamMetrics` (health state only) |
| Failover (`service.py:330-797`, `errors.py`) | per request: position in the pool, attempts | `chat_completion`, `open_stream`, `_failover_loop`, `_failover_upstream`, `_record_*` | `Router` |
| Health check (`service.py:861-1074`) | `_next_probe_at`, `_probe_failures`, the task | `_run`, `_tick`, `_probe_upstream`, `_advance_backoff`, `_reset_backoff`; `start`, `stop` | `HealthCheck`; start and stop in `Service` |
| Stream relay (`service.py:799-848`) | line remainder, open upstream stream | `_stream_iterator`, `_rewrite_sse_chunk` | `StreamRelay`, `Service` |
| Lifecycle (`service.py:99-105, 188-192, 916-932`, `main.py:103-113`) | `_clients`, `_task`, `_stop_event` | `_client_for`, `aclose`, `start`, `stop`, `lifespan` | `Service`; what is promised of the clients in `ClientContract` |
| Configuration (`config.py`) | none after loading | `load_config`, `validate_config`, `_build_router_config`, `_validate_normalized_config` | `ConfigLoad`, `Service` |
| HTTP application, auth, `LazyApp` (`main.py:25-191`) | none after start-up | routes, API-key check, the error app | `Service`: the error app, the lifespan, the streaming reply |
| Command line (`main.py:194-339`) | none | `validate`, `status`, `serve` | no: input and output only |
| Redaction, decision log (`redaction.py`, `service.py:267-299`) | none | `redact`, `_emit_decision_log` | no, but for `redact_text` raising on a value that is no string |

How they interact. Everything runs in one asyncio event loop. A request walks
its pool in the failover loop. Before a call it asks the breaker (twice: once
to choose, without side effect, once to be admitted), then awaits the upstream;
the answer is recorded in the metrics and in the breaker, and the request
retries, moves on or replies. The health check reads a metrics snapshot, probes
what looks sick through the same HTTP clients and records the answers in the
same breakers and metrics. `/v1/pool` shows the status that the metrics give.
A request whose upstream streams hands the open stream to a generator that
outlives the failover loop. The lifespan starts the health check and, when the
server has drained its requests, stops it and closes the clients.

What is hard. Calls overlap and their answers come back in any order, so an
answer may be recorded in a breaker that has opened, re-armed or closed since
the call was made. A half-open slot taken at admission has to be given back by
every way the call can end. The breaker and the metrics are two records of the
same history with different keys. The weighted walk must end. The health check
runs on a snapshot that is old by the time its later probes start, and an
exception anywhere in a tick leaves part of the state updated. Chunks of a
stream break lines anywhere, and two notions of a line end (`splitlines`, and the
line feed at which the buffer is cut) work on the same bytes. At a shutdown a
probe may be under way on a client about to be closed, and a stream may have been
left to Python's finalizer. `PROJECT.json`
lists each hazard at its line, with the properties that cover it.

What makes each component correct.

- *Breaker*: the count and the instant agree on "open"; slots are returned;
  it blocks for a cooldown and no longer.
- *Failover*: no call past a breaker; better tiers first; nothing given up that
  could still be tried; no upstream tried too often; every request answered.
- *Metrics*: what the pool shows agrees with the breakers.
- *Health check*: everything sick is probed, at the pace of its backoff, and
  the task sleeps when there is nothing to do.
- *Stream relay*: every line delivered once, in order; no event names the
  upstream's model.
- *Lifecycle*: one task; nothing used after `aclose`; every client closed, as long
  as closing one does not raise.
- *Configuration*: what is loaded keeps every range that has been validated, but
  for a cap that is NaN.

## 2. The modules

| Module | Contents |
|---|---|
| `CircuitBreaker`, `UpstreamMetrics`, `StreamRelay`, `ConfigLoad` | operators on one record, without variables: one operator per method of the code |
| `Router` | EXTENDS the first two; owns `breaker`, `metrics`, `req` |
| `HealthCheck` | EXTENDS `Router`, so its behaviours are those of the requests and of the task interleaved |
| `BreakerContract`, `ProbedContract` | abstract: circuits as the documents describe them, without and with probes; `Router` and `HealthCheck` implement them |
| `Service` | EXTENDS `ConfigLoad` and `StreamRelay`: the life of the process, its clients and who uses them |
| `ClientContract` | abstract: clients as the documents describe them, lent to users and closed in the end; `Service` implements it |
| `MCRouter`, `MCHealthCheck`, `MCService` | the constants of TLC's runs: pools, files, streams |
| `RouterProofs`, `OrderProofs`, `ContractProofs`, `HealthCheckProofs`, `PoolProofs`, `RelayProofs`, `ServiceProofs`, `LeastElement` | the proofs |

`Service` knows nothing of breakers: which upstream a request tries and when it
gives up is any choice there, so that whatever `Router` and `HealthCheck` do with
clients is among its behaviours. A request calls each upstream once in it, a
retry being one more use of the same client.

An action is what the event loop runs without giving way: from the answer of an
upstream to the next call or to the reply. `Answer` therefore covers the
recording, the retry decision, the walk past blocked upstreams and the
admission of the next call in one step, as the code has no `await` between
them. (For a stream, reading an error body and closing it comes before the
recording; nothing shared changes in between, so the answer is taken to arrive
when it has been read.)

| Model | Code |
|---|---|
| `breaker[k]` | `_circuit_breakers`, a missing entry being `InitialBreaker` |
| `opened_age` | `clock() - opened_at`, stopping at `Cooldown` |
| `metrics[vm][n]` | `MetricsCollector._upstreams[(vm, n)]`, failure count and window; `InitialMetrics` where there is no entry yet, so that `Recorded` tells which pairs `snapshot` lists |
| `req[r].left`, `.at` | where the loops of `_failover_loop` stand: what they have yet to reach, the upstream being called |
| `req[r].failed`, `.blocked` | the list `attempts`: failures per upstream, "circuit_open" entries |
| `req[r].trial` | history only: the call in flight took a half-open slot |
| `Candidates`, `TakenOff` | list order in uniform tiers, any ready upstream (the random pick) in weighted ones |
| `Faults` | answers the code does not foresee: `"torn_body"` (a JSON error message that is no string makes `redact_text` raise inside `record`), `"undecodable"` (`httpx.DecodingError`, no `TransportError`, is caught nowhere) |
| `task`, `timer` | `HealthCheckTask._run` and the rest of its sleep |
| `wait[k]` | `_next_probe_at[k] - clock()`, 0 once it has come |
| `Wake` | the start of `_tick`: snapshot, statuses, `now` |
| `task.todo` | the places in `ProbeOrder` (the sorted snapshot) that the tick has yet to probe, the one being probed first |
| `KeepsContract`, `ProbesKeepContract` | the refinement mappings: a circuit is open as the breaker is, rests for what `Cooldown` has left, and counts the failures; a request's call is the key it awaits |
| `KeepsClients` | the refinement mapping: a request or the task has the client it uses; open and closed clients by their state; up while serving or draining, ending during `stop` and `aclose` |
| `app`, `starts` | where the process is between loading and the end of a lifespan; how often `lifespan` has been entered |
| `config` | what the file says, then what `_build_router_config` makes of it; while serving, only what the running part reads. Floats are integers in units that leave no fraction, `One` being 1.0 and `NaN` apart |
| `clients`, `pool` | every `httpx.AsyncClient` made, open or closed; `_clients` |
| `closing` | the local list `aclose` has yet to go through; empty once its frame is gone, by an exception too |
| `loop` | `HealthCheckTask._task`: none, in its sleep, in a probe (with the client used), cancelled but not yet ended |
| `job[j]` | a request being served: the client in use, the upstreams it may still call, the relay |
| `relay.remainder`, `.delivered` | the generator's buffer; what it has yielded. `.received` is history |
| pieces `"head"`, `"tail"`, `"text"`, `"lf"`, `"cr"` | the bytes of a stream: the two halves of a `data:` line with a JSON object, any other text, and the line ends. A line is rewritten when both halves stand alone on it |
| `"abandoned"` | a stream whose generator never reaches its `finally`, until Python's finalizer closes it (`Collect`) |

A definition marked "Slip" is a wrong version of its neighbour, used by no
specification. It records which mistake a property would find: replacing the
definition by its slip makes the property fail in the run named.

| Slip | for | caught by |
|---|---|---|
| `AllowsAnyTrial` | `AllowsTraffic` | `TypeOK` (failover) |
| `CallerErrorClears` | `RecordNonRetryable` | `BreakerConsistent` (failover) |
| `PassedOnly` | `TakenOff` | `NoRevisit` (failover) |
| `CalledOnly` | `TakenOff` | `PriorityRespected` (failover) |
| `FailedUncounted` | `Failed` | `RequestsAnswered` (pool) |
| `AdmitUncounted` | `Admit` | `CallsGated` (failover) |
| `ReadyIfClosed` | `Ready` | `NothingPassedOver` (failover) |
| `ClassifyLate` | `Classify` | `PoolTruthful` (pool) |
| `CallerErrorKeepsSlot` | `RecordNonRetryable` | `SlotsHeld` (pool) |
| `RearmKeepsSlot` | `RecordRetryableFailure` | `BreakersReopen` (pool) |
| `ProbeSucceedsQuietly` | `ProbeSucceeds` | `PoolTruthful` (health) |
| `ResetUntracked` | `ResetBackoff` | `ProbePutsOffNext` (health) |
| `RipeOnceTracked` | `Ripe` | `SickProbed`, `OpenBreakerProbed` (health) |
| `DelayUncapped` | `Delay` | `HCTypeOK` (health_faults) |
| `DueRegardless` | `Due` | `BackoffRespected` (health_faults) |
| `CallerErrorCloses` | `RecordNonRetryable` | `KeepsContract` (failover) |
| `ProbeClosesOnAnswer` | `ProbeHttpError` | `ProbesKeepContract` (health_faults) |
| `ProbeSucceedsQuietly` | `ProbeSucceeds` | `OpenShownSomewhere` (health_faults) |
| `CutAtEnd` | `Cut` | `ModelHidden` (service) |
| `FlushNothing` | `Flush` | `RelayFaithful` (service) |
| `RawUpstreamUnlocated` | `RawUpstreamAccepted` | `LoadedIsSound` (service) |
| `ClientAnew` | `ClientFor` | `ServiceTypeOK` (service) |
| `UsesAnew` | `Uses` | `ClientsAccounted` (service) |
| `StartupOnce` | `Startup` | `TaskFollowsLifespan` (service) |
| `StopSleepingTask` | `StopTask` | `ShutdownEnds` (service) |
| `CloseAllAtOnce` | `CloseAll` | `CallsOnOpenClients` (service) |
| `CloseAllCleared` | `CloseAll` | `QuietWhenStopped` (service) |
| `PassedOnly` | `TakenOff` | `CallsRunOut` (failover) |
| `AdvanceBackoffStale` | `AdvanceBackoff` | `WakesInTime` (health) |
| `CallerErrorKeepsSlot` | `RecordNonRetryable` | `SlotsHeld` (health) |
| `CallerErrorClears` | `RecordNonRetryable` | `BreakerConsistent` (health_faults) |
| `CutFirst` | `Cut` | `LinesPrompt` (service) |
| `StopSleepingTask` | `StopTask` | `ShutdownAdvances` (service) |
| `CloseAllAtOnce` | `CloseAll` | `KeepsClients` (service) |

## 3. What the runs check

Run one with `tlc -workers 2 -config <run>.cfg <module>`.

Runs that pass:

- **failover** (`MCRouter`). Two requests, two attempts per upstream, two
  upstreams in a weighted tier and once more, in another order, in a uniform
  tier behind it; threshold 3; both faults happen. `TypeOK`,
  `BreakerConsistent`, `NoRevisit`, `PriorityRespected`, `CallsGated`,
  `NothingPassedOver`: whatever the other request does to the breakers between
  two attempts, no call is made past one, no upstream is skipped that was open
  to it, repeated, or taken out of order. `CallsRunOut`: each call leaves a
  request fewer to make. `KeepsContract`: `Router` implements `BreakerContract`.
- **pool** (`MCRouter`). Two requests on an upstream and its fallback, two
  attempts on each, metrics with a window of three and thresholds 2 and 3.
  `PoolTruthful`: no pair that the pool lists is healthy while the breaker of its
  upstream is open. `SlotsHeld`; `RequestsAnswered`, with retries;
  `BreakersReopen`.
- **health** (`MCHealthCheck`). One request at a time and the health check on
  two upstreams. `PoolTruthful`, `ProbePutsOffNext`; `SickProbed`,
  `OpenBreakerProbed`: an open breaker needs no client to close. `WakesInTime`:
  the task never sleeps past a next-probe time. `SlotsHeld`: probes, which report
  to half-open breakers without a slot, leave none in use.
- **health_faults** (`MCHealthCheck`). Both faults, a float that overflows
  after four failures and an upstream shared by two virtual models, with a
  policy that makes 503 fatal and 429 retryable. `HCTypeOK`,
  `BackoffRespected`: a tick cut short anywhere does not lead to a probe inside
  a backoff. (The tick tests `now < next_probe_at` before each entry, `NextEntry`
  as well as `Wake`; a probe of the same key earlier in the tick is what makes an
  entry fail it.) `OpenShownSomewhere`: the pool may show the upstream healthy under
  one of its virtual models while its breaker is open (**shared_pool**), not
  under all while few virtual models share it: here two, with two failures for
  "degraded" and a breaker that opens at three. With a breaker that opens at two,
  TLC finds one failure under each and the open breaker under none.
  `BreakerConsistent`; `ProbesKeepContract`: `HealthCheck` implements
  `ProbedContract`.
- **service** (`MCService`). Some 5,900 configurations are loaded or refused;
  then a request at a time streams and fails over between two upstreams beside
  the health check, through two lifespans. `LoadedIsSound`, an action property of
  `Load`: what is loaded is in the ranges that have been checked, and would be
  accepted again unless the file's `backoff_max_seconds` was NaN. `RelayFaithful`,
  `ModelHidden`, `CallsOnOpenClients`, `TaskFollowsLifespan`. `ClientsAccounted`:
  an open client is in the pool or about to be closed, until an `aclose` raises;
  then the rest of the list is lost (`CloseOne`) and the shutdown has failed.
  `QuietWhenStopped`: after a shutdown, a failed one too, nothing runs, and after
  a clean one no client is open. `ShutdownEnds`: whatever is under way when the
  shutdown begins, it ends. `ShutdownAdvances`: each of its steps leaves less to
  do. `LinesPrompt`: what has gone out ends at a line feed and none is held back.
  An event whose line a carriage return ends is held back until a line feed or
  the end of the body. `KeepsClients`: `Service` implements `ClientContract`.

Runs that find a disagreement of the code with a document (`findings` in
`PROJECT.json` quotes both):

- **slot_leak**: a half-open trial that ends in an exception nobody catches
  keeps its slot; without the health check the upstream is gone for good.
- **trials**: a late failure resets the slot counter under a trial in flight;
  two trials then overlap.
- **shared_pool**: an upstream of two virtual models that has answered a request
  of one is listed as healthy there while the failures of the other's requests
  have opened its breaker. (A pair never recorded is not listed, and does not
  count.)
- **busy_spin**: once a recovered upstream's next-probe time is past, every
  sleep of the health check has length zero.
- **probe_raises**: a probe that raises ends each tick before the sick upstream
  behind it.
- **second_model**: an upstream of two virtual models, sick in both, is probed
  for the first only: that probe puts the shared key into backoff, in each round
  anew, before the entry of the second comes up.
- **overflow**: the backoff power overflows before it is capped, and the
  next-probe time is no longer moved.

### Bounds, and why they are enough

- *Requests*: two slots, used again and again. A late answer needs one request
  to call before, and another after, a change of the breaker; two slots give
  all such pairs, and the slots are interchangeable (`SYMMETRY Slots`, in the
  run without liveness). Of a finished request `Idle` keeps the outcome only.
- *Pools*: the four entries of `TieredPool` cover uniform and weighted tiers, a
  tier after another and an upstream listed twice. `PairPool` has one fallback.
- *Time*: `Cooldown` is 1 unit, enough to tell cooling down from half-open.
  `opened_age` stops at `Cooldown`; `wait` and `timer` count down to 0. Each is
  exact, as the code compares nothing beyond.
- *Counts*: the breaker's count cannot pass `FailureThreshold`; the metrics'
  count stops at `DownThreshold`, above which `classify` tells none apart. The
  threshold is 2 or 3 where its being reached step by step matters.
- *FailureCap* stops the count of failed probes where the delay has reached
  `BackoffMax`, or where the power overflows; *FloatMax* stands for the largest
  float, 4 in the runs about overflow and out of reach in the others.
- *Status*: one retryable and one fatal code; the classification looks at
  membership only.
- *Window* 3 with `DegradedErrorPct` 70 in **pool** makes the rate rarely enough
  to show an upstream as degraded, so the thresholds are what is tested; 100 in
  **health_faults** leaves them alone to do it.
- *Service*: one job, two keys. What two jobs share is the pool, and a second
  client for a key comes from any use, the health check's too; for more jobs
  there are the theorems. `MaxStarts` is 2: a lifespan after another is what
  `start` may get wrong. The streams of `StreamBodies` have every kind of line
  end, an event cut in two by one, and an unterminated rest, and are cut in every
  place. Each part of a configuration is varied around its limits, below, at and
  above, with the other parts as in `Base`: no check or clamp relates two parts.
  `One` is 2, so that each float limit has neighbours that are no whole numbers,
  and each float is NaN once.

### Fairness

`FairSpec` and `HCFairSpec` assume weak fairness of the answer to each call, of
the health check's steps and of time, and of nothing else: clients need not
send requests, and no answer need ever be a success. The answer is justified by
the connect, read, write and pool timeouts every httpx call has
(`service.py:68-75, 1012-1017`). They bound the wait for the next bytes, not
the whole: an upstream that trickles its body for ever is outside the
assumption. The steps of the health check are timer callbacks and resumptions
of the event loop, which runs whatever is ready; time passes by itself.
`SickProbed` does not follow from these when a probe raises (run
**probe_raises**) or when two virtual models share the upstream
(**second_model**), and `BreakersReopen` does not when an answer cannot be
decoded (**slot_leak**): the passing runs of both leave these cases out, and
the violations show why.

`ServiceFairSpec` assumes that a call ends (the timeouts again), that a stream
goes on, ends or breaks off (each wait for bytes has a read timeout; that the
bytes end is an assumption about the upstream) and that the event loop runs the
steps of the shutdown that are ready. It does not assume that the finalizer ever
runs: `ShutdownEnds` holds with streams still abandoned.

## 4. What is proved

Everything below holds for every pool, number of requests, stream, file and
value of the configuration that the `ASSUME`s allow.

| Theorem | Module | Statement |
|---|---|---|
| `TypeCorrect` | `RouterProofs` | `Spec => []TypeOK` |
| `BreakersConsistent` | `RouterProofs` | `Spec => []BreakerConsistent` |
| `NeverRevisits` | `RouterProofs` | `Spec => []NoRevisit` |
| `CallsAreGated` | `RouterProofs` | `Spec => CallsGated` |
| `NoSlotLeaks` | `RouterProofs` | without faults, `Spec => []SlotsHeld` |
| `PoolIsTruthful` | `RouterProofs` | with metrics, one owner per upstream, unique names and `DegradedThreshold <= FailureThreshold`, `Spec => []PoolTruthful` |
| `PriorityIsRespected` | `OrderProofs` | `Spec => []PriorityRespected` |
| `NothingIsPassedOver` | `OrderProofs` | `Spec => NothingPassedOver` |
| `CallsComeToAnEnd` | `OrderProofs` | `Spec => CallsRunOut` |
| `ContractKept` | `ContractProofs` | `Spec => KeepsContract`: `Router` implements `BreakerContract` |
| `HCTypeCorrect` | `HealthCheckProofs` | `HCSpec => []HCTypeOK` |
| `BackoffIsRespected` | `HealthCheckProofs` | `HCSpec => BackoffRespected` |
| `ProbesPutOff` | `HealthCheckProofs` | without faults and overflow, `HCSpec => ProbePutsOffNext` |
| `ProbesKeep` | `HealthCheckProofs` | `HCSpec => ProbesKeepContract`: `HealthCheck` implements `ProbedContract` |
| `BreakersConsistentWithProbes`, `NeverRevisitsWithProbes`, `PriorityIsRespectedWithProbes` | `HealthCheckProofs` | `HCSpec => []BreakerConsistent`, `[]NoRevisit`, `[]PriorityRespected` |
| `NothingIsPassedOverWithProbes`, `CallsAreGatedWithProbes`, `CallsComeToAnEndWithProbes` | `HealthCheckProofs` | `HCSpec => NothingPassedOver`, `CallsGated`, `CallsRunOut` |
| `NoSlotLeaksWithProbes` | `HealthCheckProofs` | without faults, `HCSpec => []SlotsHeld` |
| `TaskWakesInTime` | `HealthCheckProofs` | `HCSpec => []WakesInTime` |
| `DelayNeverShrinks` | `HealthCheckProofs` | `Delay(n) <= Delay(n + 1)` |
| `PoolIsTruthfulWithProbes` | `PoolProofs` | as `PoolIsTruthful`, `HCSpec => []PoolTruthful` |
| `OpenIsShown` | `PoolProofs` | with metrics, unique names and `FewOwners`, `HCSpec => []OpenShownSomewhere` |
| `ChunksDoNotMatter` | `RelayProofs` | two relays that have received the same text are the same |
| `ServiceTypeCorrect` | `ServiceProofs` | `ServiceSpec => []ServiceTypeOK` |
| `LoadsSoundly` | `ServiceProofs` | `ServiceSpec => LoadedIsSound` |
| `RelaysFaithfully`, `ModelStaysHidden` | `ServiceProofs` | `ServiceSpec => []RelayFaithful`, `[]ModelHidden` |
| `LinesComePromptly` | `ServiceProofs` | `ServiceSpec => []LinesPrompt` |
| `NoCallOnClosedClient`, `NoClientLost` | `ServiceProofs` | `ServiceSpec => []CallsOnOpenClients`, `[]ClientsAccounted` |
| `TaskInLifespan`, `QuietAfterStop` | `ServiceProofs` | `ServiceSpec => []TaskFollowsLifespan`, `[]QuietWhenStopped` |
| `ShutdownGetsNearer` | `ServiceProofs` | `ServiceSpec => ShutdownAdvances` |
| `ClientsKept` | `ServiceProofs` | `ServiceSpec => KeepsClients`: `Service` implements `ClientContract` |

The assumptions on constants are the ranges `config.py:225-255` validates, pools
that are not empty, and names that are a function of the key. `MetricsAssumption`
demands `DownThreshold >= DegradedThreshold`, which the configuration checks too.
They assume nothing of `retry_on_status`, which nothing validates. `LoadsSoundly` is
about the other end of the same ranges: a configuration that has been loaded, from
any file, meets these `ASSUME`s (`MeetsAssumptions`), but for three things. Times
are finite there, while `.inf` passes the validator; the backoff multiplier and the
error percentage are whole, where the code has floats; and `BackoffMax >=
BackoffBase` fails after a `backoff_max_seconds` of `.nan`. The theorems about the
router and the health check are about every other router that starts. For
`Service` the assumptions are types, finitely many keys, a name for the task that
is no request's, a `NaN` that is no integer and a positive `One`.

**Requests and breakers.** Every step of a request has one shape (`AnswerShape`,
`IdleShape`): the answer changes the breaker of the key called and the metrics
of its entry (`Records`), or nothing (`Vanishes`), and then the request either
calls an upstream still on its list that the changed breaker admits (`Calls`)
or replies (`Replies`). `MoveOnShape` and `RetryShape` show that the failover
loop does no more. The inductive invariant `Inv` strengthens the types twice.
A breaker that is not open has no slot in use and fewer failures than its
threshold (`GoodBreaker`): without this, `half_open_probes` might be at its
limit when a late failure opens the breaker, and the threshold might be passed.
And a waiting request has attempts left on the upstream it waits for, none spent
on those on its list, and waits for none of the latter (`InPlace`): without
this, the count of failures may pass `MaxAttempts`.

`NoSlotLeaks` counts: an answer frees every slot of its breaker
(`RecordGood`), a trial takes one and adds its request to `Trials`
(`SlotsContinue`). It needs `Faults = {}` exactly where `Vanishes` would drop a
request from `Trials` and leave its slot.

`PoolIsTruthful` is not inductive either: that an open breaker looks sick says
nothing of a breaker about to open. `MetricsLead` says that the metrics count at
least the failures the breaker counts, or have stopped counting. Every answer
preserves it (`RecordLeads`), as long as each breaker feeds one entry and each
entry one breaker. An open breaker has counted `FailureThreshold` failures, so
its entry has at least `DegradedThreshold` and is not healthy (`NotHealthy`).
**shared_pool** shows that the hypothesis `SoleOwners` cannot be dropped.

**The order of the walk.** `PriorityRespected` speaks of what has been called;
what makes it inductive is the list of what has not. `Waits` says that nothing on
the list comes before anything that has failed, and that in a uniform tier what
is off the list has used up its attempts or has been blocked. `Walks` is the same
between two upstreams, where the loop stands when it chooses; `MoveOnInOrder` is
the heart of the argument. It also shows what the step leaves behind
(`Proceeds`): only slots whose breaker refuses calls, from which
`NothingIsPassedOver` follows.

**The end of the walk.** `RequestsAnswered` is a liveness property and stays with
TLC, but what it rests on is proved: `CallsLeft`, the attempts left on the upstream
called and all those on the list, is a natural number that each further call of
a request makes smaller (`RetryRunsOut`, `MoveOnRunsOut`), because a list that
something is taken off is a smaller set (`FewerCalls`). In the same way
`ShutdownAdvances` is the variant behind `ShutdownEnds`: during a shutdown only
its own steps and the ends of abandoned requests are possible (`OnlyShutdown`),
and each of the former ends the task, closes a client or goes on to the next
phase.

**With probes.** `HealthCheck` extends `Router`, but a theorem about `Spec` says
nothing of `HCSpec`: a probe's answer writes to the breakers that requests are
about to read. `RouterOrProbe` splits a step of `HCSpec` into a step of `Router`,
for which the lemmas of `RouterProofs` and `OrderProofs` are used again (`HeldNext`,
`GatedNext`, `PassesNext`, `RunsOutNext`), a probe's answer, and a step that
leaves both alone. What remains is the answer: it moves no request, keeps
`GoodBreaker`, and either frees all slots of its breaker or leaves them as they
were, which is why it leaks none although it has taken none.

**The contracts.** A breaker maps to a circuit (`CircuitOf`): open or not, the
part of its cooldown left, the failures counted. `CircuitRecord` shows that the
three ways of recording an answer map to the three of the contract, and
`CircuitAdmit` that spending a half-open slot maps to no change and that what is
admitted is not at rest. Everything else is `AnswerShape` again: a step of a
request, however many upstreams it walks past, is one step of the contract.
`GoodBreaker` is needed, since the contract forgets the count of an open circuit.
For `HealthCheck` the same lemmas serve for the requests, whose steps leave the
probe alone; a probe maps to `ProbeReturns`, which may leave the circuit alone or
treat a transport failure as the policy says. That a round never comes to the
key just probed (`ProbeOver`) rests on the backoff: what was just probed has
been put off, so its second entry is not ripe.

**The health check.** `RoundDue` strengthens the types: whatever is left of a
round has an upstream and is over its backoff, on a snapshot that may be old,
because the backoff of a key changes only by its own probe, and that drops the
key from the round or ends it. For the types the delay has to be bounded, and
`Power` is a recursive function of the number of failures: that it exists and is
positive is shown by its restrictions to `0 .. n`, each got from the one before,
with a least counterexample (`LeastNat`) where one would use induction
(`PowersAgree`, `PowersExist`, `PowerProperties`). From the same facts,
`DelayNeverShrinks`. `TaskWakesInTime` says the same of the sleep as its code does
(the minimum over the table), but as an invariant: while the task sleeps nothing
else moves a next-probe time, and time takes as much off both. `ProbesPutOff` needs its two
hypotheses: **overflow** and the faults of **health_faults** break it.

**The pool status with probes.** A step records one answer in one breaker and one
entry, or nothing (`StepAccounts`), and while names are unique in a pool what it
records shows nowhere else (`AccountsEffect`). `MetricsLead` is then kept by
probes as by requests. An upstream that virtual models share has several entries,
none of which need lead. `FailuresSpread` counts instead: the failures that the
entries count, entry by entry, make a set (`FailuresOf`) that has at least as many
elements as the breaker counts failures, unless some entry has stopped counting
(`Saturated`). A failure adds one element to it (`FailureAdds`); a success that
clears one entry clears the breaker too. Were each entry of an open breaker
healthy, each would count fewer than `DegradedThreshold` failures, and all
together fewer than `FailureThreshold`: this is what `FewOwners` says,
`Cardinality(EntriesOf(k)) * (DegradedThreshold - 1) < FailureThreshold`. With the
defaults, 3 and 5, two virtual models may share an upstream. The bound is sharp:
**health_faults** with a `FailureThreshold` of 2 violates the property.

**The streams.** `RelayFaithful` does not survive a chunk by itself: the rewriting
of a concatenation is the concatenation of the rewritings only where the first
ends at a line (`RewriteConcat`). `LinesSettled` says that what has gone out is
the rewriting of *whole* lines, and that what is held back is the rest
(`FeedSettles`); at the end of the body the rest is rewritten too
(`FlushSettles`). That no event delivered names the upstream's model is then a
fact about `Rewrite` (`RewriteHides`). What is held back has no line feed in it
and what has gone out ends in one (`SettledPrompt`), which is `LinesComePromptly`;
and as a text is divided in such a way only once (`LinesEndOnce`), the state of a
relay does not depend on how the text was cut (`ChunksDoNotMatter`).

**The clients.** A client in use is in the pool, what is in the pool is open
(`UsersPooled`), and how far the shutdown has come says what is left (`Phases`):
once the pool has been emptied there is no request in flight and no task, so
nothing can put a client back. `StopTask` waits for the requests, `CloseAll` for
the task; `CloseAllAtOnce`, which does not wait, breaks `CallsOnOpenClients`.

For `ClientContract` a step of a request or of the task changes what is lent to
it alone (`LentToJob`, `LentToTask`), so that each is a `Takes`, a `GivesBack` or
no step at all: a stream that begins goes on with the client of its call, and an
abandoned one has given it back, its connection being the finalizer's business.
That no more clients are open than there are keys (`FewOpen`) comes from
`ClientsAccounted`: before the shutdown every open client is some key's.
`NoneOpen` lets the next lifespan begin without any. A shutdown that fails is
the end, of the contract's process as of the code's: the clients that are lost
stay open in both.

Only model-checked: the liveness properties (`RequestsAnswered`,
`BreakersReopen`, `SickProbed`, `OpenBreakerProbed`, `ShutdownEnds`), which are
out of reach of the provers used here.

## 5. Not modelled

- The text of messages, headers, bodies and log records; API keys and provider
  pins, beyond what the configuration checks of them; authentication, which holds
  no state; the command line, which formats what `/v1/pool` returns.
- The totals, timestamps and per-code counters of the metrics: nothing reads them
  back. `next_probe_at` in the snapshot is `wait`.
- The decision log and redaction, whose failures the code swallows, except
  `redact_text` raising inside `record`.
- The weights of a weighted tier: the pick is any upstream that is ready.
- Timeouts of different lengths: a call that times out may do so at any moment.
- A request whose task is cancelled while it waits for the head of its answer:
  the framework cancels a handler only when the server shuts down by force, and
  then the state goes with it. A client that goes away during a stream is
  `BreaksOff` or `Abandon`.
- In a configuration: wrong types (the pydantic models refuse them), where the
  file is looked for, the wording of problems. In `HealthCheck` and
  `UpstreamMetrics`: a fractional multiplier or percentage, infinite times, and
  the health check of a configuration whose cap is NaN.
- When Python finalizes an abandoned generator: `Collect` may happen at any time
  or never.
- Transport errors and statuses below 200 that the code does not tell from those
  modelled are the same action.
- The scripts, the container and the documents, the latter but for what they say
  the code does.

## 6. What is left

The order in which the project was built: `CircuitBreaker`, `UpstreamMetrics`,
`Router`, `HealthCheck`, `RouterProofs`; then `BreakerContract` and its
refinement, `StreamRelay`, `ConfigLoad`, `Service` and their proofs, and the
proofs about the order of the walk and the health check; then `ClientContract`, the
theorems about requests beside probes, and the variants.

1. What `SickProbed` and `OpenBreakerProbed` rest on, as `CallsRunOut` is what
   `RequestsAnswered` rests on: a measure of the rounds and waits that an upstream
   has before it.
2. A health check whose `backoff_max_seconds` is below its base, which is what
   the NaN that `LoadedIsSound` excepts leads to, and a fractional multiplier.
3. Should the code come to cancel requests, or to count a stream that breaks off
   as a failure, `Router`'s `Answer` needs a disjunct for each.
