------------------------------- MODULE Router -------------------------------
(***************************************************************************)
(* RichardRouter (service.py): requests for a virtual model fail over      *)
(* between the upstreams of its pool, tier by tier, under the circuit      *)
(* breakers and the health metrics that all requests share.                *)
(*                                                                         *)
(* asyncio runs one task at a time and a task gives way only at an await,  *)
(* so an action is everything a request does from one answer of an         *)
(* upstream to its next call or its reply.  chat_completion and            *)
(* open_stream run the same loop and record the same things in the same    *)
(* order; a request here is either of the two, and for a stream the        *)
(* "answer" is the response head (or the whole body of an error response). *)
(***************************************************************************)
EXTENDS CircuitBreaker, UpstreamMetrics

CONSTANTS
    Request,            \* request slots: how many requests may run at once
    VirtualModel,       \* the names of the virtual models
    Key,                \* client cache keys (name, base_url, model)
    UpstreamName,       \* names of upstreams
    NameOf,             \* [Key -> UpstreamName], the first component of a key
    Pool,               \* [VirtualModel -> sequence of [key, priority, weight]]
    MaxAttempts,        \* failover.max_attempts_per_upstream
    Status,             \* the non-2xx status codes upstreams answer with
    PolicyOmitted,      \* no set of numbers: stands for a retry_on_status that is None
    RetryOnStatus,      \* failover.retry_on_status, or PolicyOmitted
    RetryOnTimeout,     \* failover.retry_on_timeout
    RetryOnConnectionError, \* failover.retry_on_connection_error
    MetricsEnabled,     \* whether the router was given a MetricsCollector
    Faults              \* which answers the code does not foresee may come

Position == UNION {DOMAIN Pool[vm] : vm \in VirtualModel}

ASSUME RouterAssumption ==
    /\ IsFiniteSet(Request)
    /\ NameOf \in [Key -> UpstreamName]
    /\ Pool \in [VirtualModel -> Seq([key : Key, priority : Nat \ {0}, weight : Nat \ {0}])]
    /\ VirtualModel # {}
    /\ \A vm \in VirtualModel : Pool[vm] # <<>>
    /\ MaxAttempts \in Nat \ {0}
    /\ Status \subseteq 300 .. 599
    /\ RetryOnStatus = PolicyOmitted \/ RetryOnStatus \in SUBSET Int
    /\ RetryOnTimeout \in BOOLEAN
    /\ RetryOnConnectionError \in BOOLEAN
    /\ MetricsEnabled \in BOOLEAN
    /\ Faults \subseteq {"torn_body", "undecodable"}

VARIABLES
    breaker,            \* _circuit_breakers; a missing entry is InitialBreaker
    metrics,            \* MetricsCollector._upstreams, likewise
    req                 \* the locals of each request

vars == <<breaker, metrics, req>>
-----------------------------------------------------------------------------
\* The pool of a virtual model.

KeyAt(vm, p) == Pool[vm][p].key
PriorityAt(vm, p) == Pool[vm][p].priority

\* All weights of p's tier are equal: the tier is walked in list order.
Uniform(vm, p) ==
    \A q \in DOMAIN Pool[vm] :
        PriorityAt(vm, q) = PriorityAt(vm, p) => Pool[vm][q].weight = Pool[vm][p].weight

\* Position q comes before p whatever the random draw: in a better tier, or
\* earlier in the same uniform tier.
Before(vm, q, p) ==
    \/ PriorityAt(vm, q) < PriorityAt(vm, p)
    \/ PriorityAt(vm, q) = PriorityAt(vm, p) /\ Uniform(vm, p) /\ q < p
-----------------------------------------------------------------------------
\* One request.  left are the positions the loop has yet to reach; at is the
\* upstream of the current or last call; failed and blocked are the list
\* "attempts", kept as the number of failures recorded for each position and
\* the positions recorded as "circuit_open".  trial is history: the call in
\* flight spent a half-open slot.

Outcomes == {"none", "success", "http_error", "all_failed", "unknown_model",
             "timeout_failover_disabled", "connection_failover_disabled", "raised"}

Requests ==
    [pc      : {"idle", "waiting"},
     vm      : VirtualModel,
     at      : Position,
     left    : SUBSET Position,
     failed  : [Position -> 0 .. MaxAttempts],
     blocked : SUBSET Position,
     trial   : BOOLEAN,
     outcome : Outcomes]

\* A request for vm that has called no upstream yet.
FreshRequest(vm) ==
    [pc      |-> "idle",
     vm      |-> vm,
     at      |-> 1,
     left    |-> DOMAIN Pool[vm],
     failed  |-> [p \in Position |-> 0],
     blocked |-> {},
     trial   |-> FALSE,
     outcome |-> "none"]

\* A slot between two requests: of the last one only its outcome is kept.
Idle(outcome) ==
    [FreshRequest(CHOOSE vm \in VirtualModel : TRUE) EXCEPT !.outcome = outcome]

KeyOf(q) == KeyAt(q.vm, q.at)

\* Slip: the retries of an upstream are not counted.
FailedUncounted(q) == q

\* q with another failure on record for the upstream it called.
Failed(q) == [q EXCEPT !.failed[q.at] = @ + 1]

Blocked(q, P) == [q EXCEPT !.blocked = @ \cup P]
-----------------------------------------------------------------------------
\* The failover loop.

\* Request r, in state q, calls the upstream at p with breakers b.
Call(r, q, p, b) ==
    LET k == KeyAt(q.vm, p) IN
    /\ breaker' = [b EXCEPT ![k] = Admit(@)]
    /\ req' = [req EXCEPT ![r] = [q EXCEPT !.pc = "waiting",
                                           !.at = p,
                                           !.trial = Admit(b[k]) # b[k]]]

\* Slip: an upstream whose cooldown is over is still taken for blocked.
ReadyIfClosed(q, b) == {p \in q.left : ~IsOpen(b[KeyAt(q.vm, p)])}

\* The upstreams still on q's list that breakers b let through.
Ready(q, b) == {p \in q.left : AllowsTraffic(b[KeyAt(q.vm, p)])}

\* The upstreams the loop may call next: none that is ready comes before them.
Candidates(q, b) ==
    {p \in Ready(q, b) : \A o \in Ready(q, b) : ~Before(q.vm, o, p)}

\* Slip: the weighted re-pick does not drop the upstream it picked.
PassedOnly(q, p) == {o \in q.left : Before(q.vm, o, p)}

\* Slip: after each failure the walk starts again from the top.
CalledOnly(q, p) == {p}

\* What is off q's list once p is called: p, and the upstreams passed over.
TakenOff(q, p) == {p} \cup {o \in q.left : Before(q.vm, o, p)}

\* The positions of P that get a "circuit_open" entry when they are passed over.
Reported(q, P) == {p \in P : Uniform(q.vm, p)}

\* Request r, in state q, is through with an upstream (or has just arrived)
\* and moves on with breakers b.
MoveOn(r, q, b) ==
    \/ \E p \in Candidates(q, b) :
        Call(r, [Blocked(q, Reported(q, TakenOff(q, p) \ {p})) EXCEPT !.left = @ \ TakenOff(q, p)],
             p, b)
    \/ /\ Ready(q, b) = {}
       /\ breaker' = b
       /\ req' = [req EXCEPT ![r] = Idle("all_failed")]

\* Request r's call has failed in a way that lets the loop go on; q is r with
\* that failure on record and b the breakers after it.
RetryOrMoveOn(r, q, b) ==
    \/ /\ q.failed[q.at] < MaxAttempts
       /\ AllowsTraffic(b[KeyOf(q)])
       /\ Call(r, q, q.at, b)
    \/ /\ q.failed[q.at] < MaxAttempts
       /\ ~AllowsTraffic(b[KeyOf(q)])
       /\ MoveOn(r, Blocked(q, {q.at}), b)
    \/ /\ q.failed[q.at] = MaxAttempts
       /\ MoveOn(r, q, b)

Finish(r, outcome, b) ==
    /\ breaker' = b
    /\ req' = [req EXCEPT ![r] = Idle(outcome)]
-----------------------------------------------------------------------------
\* What an answer records.

RetryableByDefault(s) == s \in {408, 409, 429} \/ s \in 500 .. 599

RetryableStatus(s) ==
    IF RetryOnStatus = PolicyOmitted THEN RetryableByDefault(s) ELSE s \in RetryOnStatus

\* The breakers once Record has been applied to the one of key k.
Breakers(k, Record(_)) == [breaker EXCEPT ![k] = Record(@)]

RecordAttempt(vm, k, Record(_)) ==
    metrics' = IF MetricsEnabled
               THEN [metrics EXCEPT ![vm][NameOf[k]] = Record(@)]
               ELSE metrics
-----------------------------------------------------------------------------
Init ==
    /\ breaker = [k \in Key |-> InitialBreaker]
    /\ metrics = [vm \in VirtualModel |-> [n \in UpstreamName |-> InitialMetrics]]
    /\ req = [r \in Request |-> Idle("none")]

\* A request for virtual model vm comes in (chat_completion, open_stream).
Arrive(r, vm) ==
    /\ req[r].pc = "idle"
    /\ MoveOn(r, FreshRequest(vm), breaker)
    /\ UNCHANGED metrics

\* A request for a name that is no virtual model is answered 404 at once.
UnknownModel(r) ==
    /\ req[r].pc = "idle"
    /\ req' = [req EXCEPT ![r] = Idle("unknown_model")]
    /\ UNCHANGED <<breaker, metrics>>

\* The upstream answers 2xx.
Succeed(r) ==
    LET q == req[r] IN
    /\ q.pc = "waiting"
    /\ RecordAttempt(q.vm, KeyOf(q), RecordOk)
    /\ Finish(r, "success", Breakers(KeyOf(q), RecordSuccess))

\* The upstream answers with status s, not 2xx.
HttpError(r, s) ==
    LET q == req[r] IN
    /\ q.pc = "waiting"
    /\ RecordAttempt(q.vm, KeyOf(q), RecordError)
    /\ \/ /\ RetryableStatus(s)
          /\ RetryOrMoveOn(r, Failed(q), Breakers(KeyOf(q), RecordRetryableFailure))
       \/ /\ ~RetryableStatus(s)
          /\ Finish(r, "http_error", Breakers(KeyOf(q), RecordNonRetryable))

\* The call ends in an httpx exception.  The breaker and the metrics count it
\* whatever the policy; mayFailOver only says whether the loop goes on.
TransportFailure(r, mayFailOver, verdict) ==
    LET q == req[r]
        b == Breakers(KeyOf(q), RecordRetryableFailure) IN
    /\ q.pc = "waiting"
    /\ RecordAttempt(q.vm, KeyOf(q), RecordError)
    /\ \/ mayFailOver /\ RetryOrMoveOn(r, Failed(q), b)
       \/ ~mayFailOver /\ Finish(r, verdict, b)

Timeout(r) == TransportFailure(r, RetryOnTimeout, "timeout_failover_disabled")

ConnectionError(r) ==
    TransportFailure(r, RetryOnConnectionError, "connection_failover_disabled")

\* An error response whose message is JSON but no string: redact_text raises
\* inside the metrics update, before the breaker has been told.
TornErrorBody(r) ==
    LET q == req[r] IN
    /\ "torn_body" \in Faults
    /\ MetricsEnabled
    /\ q.pc = "waiting"
    /\ RecordAttempt(q.vm, KeyOf(q), RecordErrorTorn)
    /\ Finish(r, "raised", breaker)

\* A response httpx cannot decode: DecodingError is no TransportError, so no
\* handler of the loop catches it and nothing is recorded.
UndecodableBody(r) ==
    /\ "undecodable" \in Faults
    /\ req[r].pc = "waiting"
    /\ Finish(r, "raised", breaker)
    /\ UNCHANGED metrics

\* Time passes; the next unit only matters while some breaker cools down.
Tick ==
    /\ \E k \in Key : CoolingDown(breaker[k])
    /\ breaker' = [k \in Key |-> Elapse(breaker[k])]
    /\ UNCHANGED <<metrics, req>>

\* Whatever ends the call that r waits for.
Answer(r) ==
    \/ Succeed(r)
    \/ \E s \in Status : HttpError(r, s)
    \/ Timeout(r)
    \/ ConnectionError(r)
    \/ TornErrorBody(r)
    \/ UndecodableBody(r)

Next ==
    \/ \E r \in Request : \/ \E vm \in VirtualModel : Arrive(r, vm)
                          \/ UnknownModel(r)
                          \/ Answer(r)
    \/ Tick

\* The httpx timeouts end every call sooner or later, and time passes.
Fairness ==
    /\ \A r \in Request : WF_vars(Answer(r))
    /\ WF_vars(Tick)

Spec == Init /\ [][Next]_vars
FairSpec == Spec /\ Fairness
-----------------------------------------------------------------------------
\* Type invariant.
TypeOK ==
    /\ breaker \in [Key -> BreakerStates]
    /\ metrics \in [VirtualModel -> [UpstreamName -> MetricsStates]]
    /\ req \in [Request -> Requests]

\* A breaker is open exactly when its count has reached the threshold, and
\* only an open one has half-open slots in use: the two views the code keeps of
\* "open" (consecutive_failures, opened_at) never come apart, whatever answers
\* arrive late (service.py, _record_*).
BreakerConsistent ==
    \A k \in Key :
        /\ IsOpen(breaker[k]) <=> breaker[k].consecutive_failures = FailureThreshold
        /\ ~IsOpen(breaker[k]) => breaker[k].half_open_probes = 0

\* The trials in flight for key k.
Trials(k) == {r \in Request : req[r].pc = "waiting" /\ req[r].trial /\ KeyOf(req[r]) = k}

\* A half-open slot in use belongs to a call still in flight: no outcome of a
\* call leaves its slot taken, which would block the upstream for good
\* (service.py:126 and every path out of _failover_upstream).
SlotsHeld == \A k \in Key : breaker[k].half_open_probes <= Cardinality(Trials(k))

\* At most half_open_max_probes trial calls of an upstream are in flight.
TrialsBounded == \A k \in Key : Cardinality(Trials(k)) <= HalfOpenMaxProbes

\* The metrics entries that are fed by calls to key k.
EntriesOf(k) == {vm \in VirtualModel : \E p \in DOMAIN Pool[vm] : KeyAt(vm, p) = k}

\* Every upstream belongs to one virtual model, and no pool has two upstreams
\* of the same name: then each metrics entry follows one breaker and each
\* breaker one entry.  The configuration does not have to be like this.
SoleOwners == \A k \in Key : \A v, w \in EntriesOf(k) : v = w
UniqueNames ==
    \A vm \in VirtualModel : \A p, o \in DOMAIN Pool[vm] :
        NameOf[KeyAt(vm, p)] = NameOf[KeyAt(vm, o)] => KeyAt(vm, p) = KeyAt(vm, o)

\* /v1/pool, which lists an upstream under each virtual model that has a recorded
\* attempt for it, never shows it as healthy while its breaker is open
\* (docs/decisions/2026-07-18-half-open-requires-2xx.md, Consequences).
PoolTruthful ==
    \A k \in Key : IsOpen(breaker[k]) =>
        \A vm \in EntriesOf(k) : LET m == metrics[vm][NameOf[k]] IN
            Recorded(m) => Classify(m) # "healthy"

\* Each request tries an upstream at most MaxAttempts times and never comes
\* back to one it has left, so the weighted re-pick of _failover_loop cannot
\* go round in circles.
NoRevisit ==
    \A r \in Request : LET q == req[r] IN
        q.pc = "waiting" => /\ q.failed[q.at] < MaxAttempts
                            /\ q.at \notin q.left \cup q.blocked
                            /\ \A p \in q.left : q.failed[p] = 0 /\ p \notin q.blocked

\* The upstreams a request has tried, the one it waits for and those still on
\* its list are in order of priority, and every upstream it is through with has
\* used up its attempts or was found blocked: a breaker that another request
\* opens or closes meanwhile never makes a request go back to a better tier, or
\* give an upstream up early.  (A blocked upstream of a weighted tier leaves no
\* trace in the attempts, so the last part can only be asked of uniform tiers.)
PriorityRespected ==
    \A r \in Request : LET q == req[r] IN
        q.pc = "waiting" =>
            /\ \A p \in DOMAIN Pool[q.vm] :
                   q.failed[p] > 0 => ~Before(q.vm, q.at, p)
            /\ \A p \in q.left : ~Before(q.vm, p, q.at)
            /\ \A p \in DOMAIN Pool[q.vm] \ (q.left \cup {q.at}) :
                   Uniform(q.vm, p) => q.failed[p] = MaxAttempts \/ p \in q.blocked

\* A step that starts a call starts it on an upstream whose breaker is closed,
\* or half-open with a slot spent on this call: also a retry, and also a call
\* in the very step that opened the breaker.
GatedStep ==
    \A r \in Request :
        req'[r].pc = "waiting" /\ req'[r] # req[r] /\ BreakerEnabled =>
            LET b == breaker'[KeyOf(req'[r])] IN
            IsOpen(b) => /\ ~CoolingDown(b)
                         /\ b.half_open_probes > 0
                         /\ req'[r].trial

CallsGated == [][GatedStep]_vars

\* The upstreams a waiting request has attempts left for if its call fails.
Unspent(q) == q.left \cup {p \in {q.at} : q.failed[p] + 1 < MaxAttempts}

\* Where a step of request r leads past an upstream that has attempts left, to
\* another one or to the verdict that all have failed, that upstream is blocked.
PassesBlockedOnly(r) ==
    LET old == req[r]
        new == req'[r]
        Blocks(vm, p) == ~AllowsTraffic(breaker'[KeyAt(vm, p)]) IN
    new # old =>
        /\ old.pc = "waiting" /\ new.pc = "waiting" =>
               \A p \in Unspent(old) \ (new.left \cup {new.at}) : Blocks(old.vm, p)
        /\ old.pc = "waiting" /\ new.pc = "idle" /\ new.outcome = "all_failed" =>
               \A p \in Unspent(old) : Blocks(old.vm, p)
        /\ old.pc = "idle" /\ new.pc = "waiting" =>
               \A p \in DOMAIN Pool[new.vm] \ (new.left \cup {new.at}) : Blocks(new.vm, p)

\* A step takes a request past an upstream that has attempts left only if the
\* breaker blocks that upstream at that very moment, in weighted tiers too; so
\* a request that has called some upstream is told "all upstreams failed" only
\* when nothing that could still be tried was open to it.
NothingPassedOver == [][\A r \in Request : PassesBlockedOnly(r)]_vars

\* How many calls request q makes at most until it has its reply, the one in
\* flight included.
CallsLeft(q) == Cardinality(q.left) * MaxAttempts + (MaxAttempts - q.failed[q.at])

\* A step that makes a request call leaves it fewer calls to make.
CallsRunOutStep ==
    \A r \in Request : LET old == req[r]
                           new == req'[r] IN
        new.pc = "waiting" /\ new # old =>
            /\ old.pc = "waiting" => CallsLeft(new) < CallsLeft(old)
            /\ old.pc = "idle" => CallsLeft(new) <= Cardinality(DOMAIN Pool[new.vm]) * MaxAttempts

\* A request makes at most max_attempts_per_upstream calls for each upstream of
\* its pool, and every call it makes leaves fewer to be made: retries, blocked
\* upstreams and the re-pick of weighted tiers (_failover_loop) come to an end,
\* whatever the breakers do meanwhile.
CallsRunOut == [][CallsRunOutStep]_vars

\* The breakers of the code, seen as the circuits the documents speak of: the
\* slots of a half-open one, the pools and the attempts are out of sight.
CircuitOf(b) ==
    [open   |-> IsOpen(b),
     rest   |-> IF CoolingDown(b) THEN Cooldown - b.opened_age ELSE 0,
     streak |-> IF IsOpen(b) THEN 0 ELSE b.consecutive_failures]

KeysAwaited(q) == IF q.pc = "waiting" THEN {KeyOf(q)} ELSE {}
VerdictOf(q) == IF q.pc = "waiting" THEN "none" ELSE q.outcome

Contract == INSTANCE BreakerContract WITH
    circuit <- [k \in Key |-> CircuitOf(breaker[k])],
    calls   <- [r \in Request |-> KeysAwaited(req[r])],
    outcome <- [r \in Request |-> VerdictOf(req[r])]

\* Whatever the requests do to shared breakers, with retries, tiers and late
\* answers, each circuit opens, rests and closes as src/README.md ("Failover")
\* and the decision of 2026-07-18 say, and no request calls one at rest.
KeepsContract == Contract!ContractSpec

\* Every request is answered in the end.
RequestsAnswered == \A r \in Request : req[r].pc = "waiting" ~> req[r].pc = "idle"

\* No upstream is shut out for good: its breaker admits calls again and again.
BreakersReopen == \A k \in Key : []<>AllowsTraffic(breaker[k])
=============================================================================
