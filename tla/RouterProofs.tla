---------------------------- MODULE RouterProofs ----------------------------
(***************************************************************************)
(* Proofs about Router.tla, for every value of its constants.              *)
(*                                                                         *)
(* Every step of a request has the same shape (lemma AnswerShape): the     *)
(* answer changes the breaker of the upstream called and the metrics of    *)
(* its entry, and then the request either calls an upstream whose changed  *)
(* breaker admits it or gives its reply.  The invariants are proved from   *)
(* that shape.                                                             *)
(***************************************************************************)
EXTENDS Router, FiniteSetTheorems, SequenceTheorems, TLAPS

\* What holds of each breaker on its own.
GoodBreaker(b) ==
    /\ b \in BreakerStates
    /\ IsOpen(b) <=> b.consecutive_failures = FailureThreshold
    /\ ~IsOpen(b) => b.half_open_probes = 0
    /\ ~BreakerEnabled => ~IsOpen(b) /\ b.consecutive_failures = 0

\* The metrics count at least the failures that the breaker counts.
Leads(m, b) ==
    \/ m.consecutive_failures >= b.consecutive_failures
    \/ m.consecutive_failures = DownThreshold
-----------------------------------------------------------------------------
\* A breaker starts out good.
LEMMA InitialBreakerGood == GoodBreaker(InitialBreaker)
  BY BreakerAssumption DEF GoodBreaker, InitialBreaker, BreakerStates, IsOpen, NotOpen

\* A breaker that lets a call through has a slot left for it.
LEMMA AdmitGood ==
  ASSUME NEW b, GoodBreaker(b), AllowsTraffic(b)
  PROVE  /\ GoodBreaker(Admit(b))
         /\ Admit(b) = b \/ Admit(b).half_open_probes = b.half_open_probes + 1
         /\ Admit(b).consecutive_failures = b.consecutive_failures
  BY BreakerAssumption
     DEF GoodBreaker, Admit, AllowsTraffic, CoolingDown, BreakerStates, IsOpen, NotOpen

\* Whatever an answer records, no slot stays taken.
LEMMA RecordGood ==
  ASSUME NEW b, GoodBreaker(b)
  PROVE  /\ GoodBreaker(RecordSuccess(b)) /\ RecordSuccess(b).half_open_probes = 0
         /\ GoodBreaker(RecordRetryableFailure(b))
         /\ RecordRetryableFailure(b).half_open_probes = 0
         /\ GoodBreaker(RecordNonRetryable(b)) /\ RecordNonRetryable(b).half_open_probes = 0
<1>1. GoodBreaker(RecordSuccess(b)) /\ RecordSuccess(b).half_open_probes = 0
  BY InitialBreakerGood DEF RecordSuccess, GoodBreaker, InitialBreaker
<1>2. /\ GoodBreaker(RecordRetryableFailure(b))
      /\ RecordRetryableFailure(b).half_open_probes = 0
  <2>1. CASE ~BreakerEnabled
    BY <2>1 DEF GoodBreaker, RecordRetryableFailure
  <2>2. CASE BreakerEnabled
    BY <2>2, BreakerAssumption
       DEF GoodBreaker, RecordRetryableFailure, Armed, BreakerStates, IsOpen, NotOpen
  <2> QED
    BY <2>1, <2>2
<1>3. GoodBreaker(RecordNonRetryable(b)) /\ RecordNonRetryable(b).half_open_probes = 0
  <2>1. CASE ~BreakerEnabled
    BY <2>1 DEF GoodBreaker, RecordNonRetryable
  <2>2. CASE BreakerEnabled /\ IsOpen(b)
    <3>1. RecordNonRetryable(b) = Armed(b.consecutive_failures)
      BY <2>2 DEF RecordNonRetryable
    <3> QED
      BY <2>2, <3>1, BreakerAssumption DEF Armed, GoodBreaker, BreakerStates, IsOpen, NotOpen
  <2>3. CASE BreakerEnabled /\ ~IsOpen(b)
    <3>1. RecordNonRetryable(b) = [b EXCEPT !.consecutive_failures = 0]
      BY <2>3 DEF RecordNonRetryable
    <3> QED
      BY <2>3, <3>1, BreakerAssumption DEF GoodBreaker, BreakerStates, IsOpen, NotOpen
  <2> QED
    BY <2>1, <2>2, <2>3
<1> QED
  BY <1>1, <1>2, <1>3

\* Time leaves the count and the slots of a breaker alone.
LEMMA ElapseGood ==
  ASSUME NEW b, GoodBreaker(b)
  PROVE  /\ GoodBreaker(Elapse(b))
         /\ Elapse(b).half_open_probes = b.half_open_probes
         /\ Elapse(b).consecutive_failures = b.consecutive_failures
  BY BreakerAssumption
     DEF GoodBreaker, Elapse, CoolingDown, BreakerStates, IsOpen, NotOpen
-----------------------------------------------------------------------------
\* Appending to the rolling window gives a window.
LEMMA PushTyped ==
  ASSUME NEW w \in Seq(BOOLEAN), NEW v \in BOOLEAN
  PROVE  Push(w, v) \in Seq(BOOLEAN)
<1>1. CASE Len(w) < Window
  BY <1>1 DEF Push
<1>2. CASE ~(Len(w) < Window)
  <2>1. w # <<>>
    BY <1>2, MetricsAssumption
  <2>2. Tail(w) \in Seq(BOOLEAN)
    BY <2>1, HeadTailProperties
  <2> QED
    BY <1>2, <2>2 DEF Push
<1> QED
  BY <1>1, <1>2

\* Whatever an answer records in the metrics, they stay well-typed.
LEMMA RecordTyped ==
  ASSUME NEW m \in MetricsStates
  PROVE  /\ RecordOk(m) \in MetricsStates
         /\ RecordError(m) \in MetricsStates
         /\ RecordErrorTorn(m) \in MetricsStates
<1>1. m.window \in Seq(BOOLEAN) /\ m.consecutive_failures \in 0 .. DownThreshold
  BY DEF MetricsStates
<1>2. Push(m.window, TRUE) \in Seq(BOOLEAN) /\ Push(m.window, FALSE) \in Seq(BOOLEAN)
  BY <1>1, PushTyped
<1>3. /\ OneMoreFailure(m.consecutive_failures) \in 0 .. DownThreshold
      /\ 0 \in 0 .. DownThreshold
  BY <1>1, MetricsAssumption DEF OneMoreFailure
<1> QED
  BY <1>2, <1>3 DEF MetricsStates, RecordOk, RecordError, RecordErrorTorn

\* Each answer leaves the metrics ahead of the breaker, if they were.
LEMMA RecordLeads ==
  ASSUME NEW m \in MetricsStates, NEW b, GoodBreaker(b), Leads(m, b)
  PROVE  /\ Leads(RecordOk(m), RecordSuccess(b))
         /\ Leads(RecordError(m), RecordRetryableFailure(b))
         /\ Leads(RecordError(m), RecordNonRetryable(b))
         /\ Leads(RecordErrorTorn(m), b)
<1>1. Leads(RecordOk(m), RecordSuccess(b))
  BY BreakerAssumption
     DEF Leads, RecordOk, RecordSuccess, InitialBreaker, GoodBreaker, BreakerStates
<1>2. Leads(RecordErrorTorn(m), b)
  BY BreakerAssumption, MetricsAssumption
     DEF Leads, RecordErrorTorn, OneMoreFailure, MetricsStates, GoodBreaker, BreakerStates
<1>3. \/ RecordError(m).consecutive_failures = DownThreshold
      \/ RecordError(m).consecutive_failures > b.consecutive_failures
  BY BreakerAssumption, MetricsAssumption
     DEF Leads, RecordError, OneMoreFailure, MetricsStates, GoodBreaker, BreakerStates
<1>4. /\ RecordError(m).consecutive_failures \in Int
      /\ b.consecutive_failures \in Nat
  BY BreakerAssumption, MetricsAssumption
     DEF RecordError, OneMoreFailure, MetricsStates, GoodBreaker, BreakerStates
<1>5. \/ RecordRetryableFailure(b).consecutive_failures = b.consecutive_failures
      \/ RecordRetryableFailure(b).consecutive_failures = b.consecutive_failures + 1
  <2>1. CASE ~BreakerEnabled
    BY <2>1 DEF RecordRetryableFailure
  <2>2. CASE BreakerEnabled /\ (IsOpen(b) \/ b.consecutive_failures + 1 >= FailureThreshold)
    <3>1. RecordRetryableFailure(b) = Armed(FailureThreshold)
      BY <2>2 DEF RecordRetryableFailure
    <3> QED
      BY <2>2, <3>1, BreakerAssumption DEF Armed, GoodBreaker, BreakerStates
  <2>3. CASE BreakerEnabled /\ ~(IsOpen(b) \/ b.consecutive_failures + 1 >= FailureThreshold)
    <3>1. RecordRetryableFailure(b) = [b EXCEPT !.consecutive_failures = @ + 1]
      BY <2>3 DEF RecordRetryableFailure
    <3> QED
      BY <3>1 DEF GoodBreaker, BreakerStates
  <2> QED
    BY <2>1, <2>2, <2>3
<1>6. \/ RecordNonRetryable(b).consecutive_failures = b.consecutive_failures
      \/ RecordNonRetryable(b).consecutive_failures = 0
  <2>1. CASE BreakerEnabled /\ IsOpen(b)
    <3>1. RecordNonRetryable(b) = Armed(b.consecutive_failures)
      BY <2>1 DEF RecordNonRetryable
    <3> QED
      BY <3>1 DEF Armed
  <2>2. CASE BreakerEnabled /\ ~IsOpen(b)
    <3>1. RecordNonRetryable(b) = [b EXCEPT !.consecutive_failures = 0]
      BY <2>2 DEF RecordNonRetryable
    <3> QED
      BY <3>1 DEF GoodBreaker, BreakerStates
  <2> QED
    BY <2>1, <2>2 DEF RecordNonRetryable
<1>7. Leads(RecordError(m), RecordRetryableFailure(b))
  BY <1>3, <1>4, <1>5 DEF Leads
<1>8. Leads(RecordError(m), RecordNonRetryable(b))
  BY <1>3, <1>4, <1>6 DEF Leads
<1> QED
  BY <1>1, <1>2, <1>7, <1>8
-----------------------------------------------------------------------------
\* A request whose list agrees with its attempts: what it still has on its list
\* has not been tried.
Listed(q) ==
    /\ q \in Requests
    /\ q.left \subseteq DOMAIN Pool[q.vm]
    /\ \A p \in q.left : q.failed[p] = 0 /\ p \notin q.blocked

\* A request that waits for the upstream at q.at.
InPlace(q) ==
    /\ Listed(q)
    /\ q.at \in DOMAIN Pool[q.vm]
    /\ q.at \notin q.left \cup q.blocked
    /\ q.failed[q.at] < MaxAttempts

\* The two ways a step of request r ends, b being the breakers after what the
\* step has recorded: another call, or the reply.
Calls(r, b) ==
    \E q : /\ InPlace(q)
           /\ q.pc = "waiting"
           /\ AllowsTraffic(b[KeyOf(q)])
           /\ q.trial = (Admit(b[KeyOf(q)]) # b[KeyOf(q)])
           /\ breaker' = [b EXCEPT ![KeyOf(q)] = Admit(@)]
           /\ req' = [req EXCEPT ![r] = q]

Replies(r, b) ==
    /\ breaker' = b
    /\ \E o \in Outcomes : req' = [req EXCEPT ![r] = Idle(o)]

\* Every position of a pool holds a key.
LEMMA KeyAtTyped ==
  ASSUME NEW vm \in VirtualModel, NEW p \in DOMAIN Pool[vm]
  PROVE  KeyAt(vm, p) \in Key
<1>1. Pool[vm] \in Seq([key : Key, priority : Nat \ {0}, weight : Nat \ {0}])
  BY RouterAssumption
<1>2. p \in 1 .. Len(Pool[vm])
  BY <1>1, LenProperties
<1>3. Pool[vm][p] \in [key : Key, priority : Nat \ {0}, weight : Nat \ {0}]
  BY <1>1, <1>2, ElementOfSeq
<1> QED
  BY <1>3 DEF KeyAt

\* A request starts out well-typed, with its whole pool ahead of it.
LEMMA FreshListed ==
  ASSUME NEW vm \in VirtualModel
  PROVE  Listed(FreshRequest(vm)) /\ FreshRequest(vm).vm = vm
<1>1. DOMAIN Pool[vm] \subseteq Position
  BY DEF Position
<1>2. 1 \in DOMAIN Pool[vm]
  <2>1. Pool[vm] \in Seq([key : Key, priority : Nat \ {0}, weight : Nat \ {0}]) /\ Pool[vm] # <<>>
    BY RouterAssumption
  <2> QED
    BY <2>1, LenProperties, EmptySeq
<1>3. 0 \in 0 .. MaxAttempts
  BY RouterAssumption
<1>4. FreshRequest(vm) \in Requests
  BY <1>1, <1>2, <1>3 DEF FreshRequest, Requests, Outcomes
<1>5. /\ FreshRequest(vm).vm = vm
      /\ FreshRequest(vm).left = DOMAIN Pool[vm]
      /\ FreshRequest(vm).blocked = {}
      /\ \A p \in Position : FreshRequest(vm).failed[p] = 0
  BY DEF FreshRequest
<1> QED
  BY <1>1, <1>4, <1>5 DEF Listed

\* A slot between two requests is well-typed.
LEMMA IdleTyped ==
  ASSUME NEW o \in Outcomes
  PROVE  Idle(o) \in Requests /\ Idle(o).pc = "idle"
<1> DEFINE v == CHOOSE vm \in VirtualModel : TRUE
<1>1. v \in VirtualModel
  BY RouterAssumption
<1>2. FreshRequest(v) \in Requests
  BY <1>1, FreshListed DEF Listed
<1> QED
  BY <1>2 DEF Idle, Requests, FreshRequest

\* A request that moves on calls an upstream still on its list whose breaker
\* admits it and takes that upstream off the list, or gives up.
LEMMA MoveOnShape ==
  ASSUME NEW r \in Request, NEW q, NEW b, Listed(q), MoveOn(r, q, b)
  PROVE  Calls(r, b) \/ Replies(r, b)
<1>1. CASE Ready(q, b) = {} /\ breaker' = b /\ req' = [req EXCEPT ![r] = Idle("all_failed")]
  BY <1>1 DEF Replies, Outcomes
<1>2. ASSUME NEW p \in Candidates(q, b),
             Call(r, [Blocked(q, Reported(q, TakenOff(q, p) \ {p}))
                         EXCEPT !.left = @ \ TakenOff(q, p)], p, b)
      PROVE  Calls(r, b)
  <2> DEFINE passed == TakenOff(q, p) \ {p}
             called == [Blocked(q, Reported(q, passed)) EXCEPT !.left = @ \ TakenOff(q, p)]
             n      == [called EXCEPT !.pc = "waiting",
                                      !.at = p,
                                      !.trial = Admit(b[KeyAt(q.vm, p)]) # b[KeyAt(q.vm, p)]]
  <2>1. p \in q.left /\ AllowsTraffic(b[KeyAt(q.vm, p)])
    BY DEF Candidates, Ready
  <2>2. /\ q \in Requests
        /\ q.vm \in VirtualModel
        /\ q.left \subseteq DOMAIN Pool[q.vm]
        /\ DOMAIN Pool[q.vm] \subseteq Position
        /\ q.blocked \subseteq Position
    BY DEF Listed, Requests, Position
  <2>3. Reported(q, passed) \subseteq q.left \ {p}
    BY DEF Reported, TakenOff
  <2>4. /\ called \in Requests
        /\ called.vm = q.vm
        /\ called.failed = q.failed
        /\ called.left = q.left \ TakenOff(q, p)
        /\ called.blocked = q.blocked \cup Reported(q, passed)
    BY <2>2, <2>3 DEF Blocked, Requests
  <2>5. /\ n \in Requests
        /\ n.vm = q.vm
        /\ n.failed = q.failed
        /\ n.left = q.left \ TakenOff(q, p)
        /\ n.blocked = q.blocked \cup Reported(q, passed)
        /\ n.at = p
        /\ n.pc = "waiting"
        /\ n.trial = (Admit(b[KeyAt(q.vm, p)]) # b[KeyAt(q.vm, p)])
    BY <2>1, <2>2, <2>4 DEF Requests
  <2>6. \A o \in n.left : o \in q.left /\ o \notin Reported(q, passed)
    BY <2>5 DEF Reported
  <2>7. /\ q.failed[p] = 0 /\ p \notin q.blocked
        /\ \A o \in n.left : q.failed[o] = 0 /\ o \notin q.blocked
    BY <2>1, <2>6 DEF Listed
  <2>8. p \notin n.left /\ 0 < MaxAttempts
    BY <2>5, RouterAssumption DEF TakenOff
  <2>9. InPlace(n)
    BY <2>1, <2>2, <2>3, <2>5, <2>6, <2>7, <2>8 DEF InPlace, Listed
  <2>10. KeyOf(n) = KeyAt(q.vm, p)
    BY <2>5 DEF KeyOf
  <2>11. breaker' = [b EXCEPT ![KeyAt(q.vm, p)] = Admit(@)] /\ req' = [req EXCEPT ![r] = n]
    BY <1>2, <2>4 DEF Call
  <2> HIDE DEF n
  <2> QED
    BY <2>1, <2>5, <2>9, <2>10, <2>11 DEF Calls
<1> QED
  BY <1>1, <1>2 DEF MoveOn

\* The same after a failure of the upstream that q waited for.
LEMMA RetryShape ==
  ASSUME NEW r \in Request, NEW q, NEW b,
         Listed(q), q.at \in DOMAIN Pool[q.vm], q.at \notin q.left \cup q.blocked,
         RetryOrMoveOn(r, q, b)
  PROVE  Calls(r, b) \/ Replies(r, b)
<1>1. CASE q.failed[q.at] < MaxAttempts /\ AllowsTraffic(b[KeyOf(q)]) /\ Call(r, q, q.at, b)
  <2> DEFINE n == [q EXCEPT !.pc = "waiting",
                            !.at = q.at,
                            !.trial = Admit(b[KeyOf(q)]) # b[KeyOf(q)]]
  <2>1. /\ n \in Requests
        /\ n.vm = q.vm
        /\ n.failed = q.failed
        /\ n.left = q.left
        /\ n.blocked = q.blocked
        /\ n.at = q.at
        /\ n.pc = "waiting"
        /\ n.trial = (Admit(b[KeyOf(q)]) # b[KeyOf(q)])
    BY DEF Listed, Requests
  <2>2. InPlace(n)
    BY <1>1, <2>1 DEF InPlace, Listed
  <2>3. KeyOf(n) = KeyOf(q)
    BY <2>1 DEF KeyOf
  <2>4. breaker' = [b EXCEPT ![KeyOf(q)] = Admit(@)] /\ req' = [req EXCEPT ![r] = n]
    BY <1>1 DEF Call, KeyOf
  <2> HIDE DEF n
  <2> QED
    BY <1>1, <2>1, <2>2, <2>3, <2>4 DEF Calls
<1>2. CASE MoveOn(r, Blocked(q, {q.at}), b)
  <2> DEFINE n == Blocked(q, {q.at})
  <2>1. /\ n \in Requests
        /\ n.vm = q.vm
        /\ n.failed = q.failed
        /\ n.left = q.left
        /\ n.blocked = q.blocked \cup {q.at}
    BY DEF Blocked, Listed, Requests
  <2>2. Listed(n)
    BY <2>1 DEF Listed
  <2> QED
    BY <1>2, <2>2, MoveOnShape
<1>3. CASE MoveOn(r, q, b)
  BY <1>3, MoveOnShape
<1> QED
  BY <1>1, <1>2, <1>3 DEF RetryOrMoveOn
-----------------------------------------------------------------------------
\* What an answer to r may record: nb is the breaker of the upstream called and
\* nm the metrics of its entry, afterwards.
Records(r, nb, nm) ==
    LET k == KeyOf(req[r])
        m == metrics[req[r].vm][NameOf[k]] IN
    \/ nb = RecordSuccess(breaker[k]) /\ nm = RecordOk(m)
    \/ nb = RecordRetryableFailure(breaker[k]) /\ nm = RecordError(m)
    \/ nb = RecordNonRetryable(breaker[k]) /\ nm = RecordError(m)
    \/ Faults # {} /\ nb = breaker[k] /\ nm = RecordErrorTorn(m)

\* Step r records nb and nm, and then calls or replies.
Answers(r) ==
    \E nb, nm :
        /\ Records(r, nb, nm)
        /\ metrics' = IF MetricsEnabled
                      THEN [metrics EXCEPT ![req[r].vm][NameOf[KeyOf(req[r])]] = nm]
                      ELSE metrics
        /\ LET b == [breaker EXCEPT ![KeyOf(req[r])] = nb] IN Calls(r, b) \/ Replies(r, b)

\* An exception that records nothing.
Vanishes(r) == Faults # {} /\ UNCHANGED metrics /\ Replies(r, breaker)

\* Another failure on record leaves a request well-formed while it has
\* attempts left.
LEMMA FailedListed ==
  ASSUME NEW q, InPlace(q)
  PROVE  /\ Listed(Failed(q))
         /\ Failed(q).at \in DOMAIN Pool[Failed(q).vm]
         /\ Failed(q).at \notin Failed(q).left \cup Failed(q).blocked
<1>1. /\ q \in Requests
      /\ q.failed \in [Position -> 0 .. MaxAttempts]
      /\ q.at \in Position
      /\ q.failed[q.at] < MaxAttempts
  BY DEF InPlace, Listed, Requests
<1> DEFINE f == [q.failed EXCEPT ![q.at] = @ + 1]
<1>2. f \in [Position -> 0 .. MaxAttempts]
  BY <1>1, RouterAssumption
<1>3. Failed(q) = [q EXCEPT !.failed = f]
  BY <1>1 DEF Failed, Requests
<1>4. /\ Failed(q) \in Requests
      /\ Failed(q).vm = q.vm
      /\ Failed(q).at = q.at
      /\ Failed(q).left = q.left
      /\ Failed(q).blocked = q.blocked
      /\ Failed(q).failed = f
  BY <1>1, <1>2, <1>3 DEF Requests
<1>5. \A p \in q.left : f[p] = q.failed[p]
  BY <1>1 DEF InPlace, Listed, Requests
<1> QED
  BY <1>4, <1>5 DEF InPlace, Listed

\* Every answer to a waiting request has that shape.
LEMMA AnswerShape ==
  ASSUME NEW r \in Request, req[r].pc = "waiting" => InPlace(req[r]), Answer(r),
         breaker \in [Key -> BreakerStates]
  PROVE  req[r].pc = "waiting" /\ InPlace(req[r]) /\ (Answers(r) \/ Vanishes(r))
<1> DEFINE q == req[r]
           k == KeyOf(q)
           m == metrics[q.vm][NameOf[k]]
<1>1. req[r].pc = "waiting" /\ InPlace(req[r])
  BY DEF Answer, Succeed, HttpError, Timeout, ConnectionError, TransportFailure,
         TornErrorBody, UndecodableBody
<1>2. /\ Listed(Failed(q))
      /\ Failed(q).at \in DOMAIN Pool[Failed(q).vm]
      /\ Failed(q).at \notin Failed(q).left \cup Failed(q).blocked
  BY <1>1, FailedListed
<1>3. \A b, o : o \in Outcomes /\ Finish(r, o, b) => Replies(r, b)
  BY DEF Finish, Replies
<1>4. \A b : RetryOrMoveOn(r, Failed(q), b) => Calls(r, b) \/ Replies(r, b)
  BY <1>2, RetryShape
<1>5. CASE Succeed(r)
  <2>1. Replies(r, [breaker EXCEPT ![k] = RecordSuccess(@)])
    BY <1>5, <1>3 DEF Succeed, Breakers, Outcomes
  <2>2. metrics' = IF MetricsEnabled THEN [metrics EXCEPT ![q.vm][NameOf[k]] = RecordOk(m)]
                   ELSE metrics
    BY <1>5 DEF Succeed, RecordAttempt
  <2> QED
    BY <1>1, <2>1, <2>2 DEF Answers, Records
<1>6. CASE \E s \in Status : HttpError(r, s)
  <2>1. metrics' = IF MetricsEnabled THEN [metrics EXCEPT ![q.vm][NameOf[k]] = RecordError(m)]
                   ELSE metrics
    BY <1>6 DEF HttpError, RecordAttempt
  <2>2. CASE RetryOrMoveOn(r, Failed(q), [breaker EXCEPT ![k] = RecordRetryableFailure(@)])
    BY <1>1, <1>4, <2>1, <2>2 DEF Answers, Records
  <2>3. CASE Finish(r, "http_error", [breaker EXCEPT ![k] = RecordNonRetryable(@)])
    <3>1. Replies(r, [breaker EXCEPT ![k] = RecordNonRetryable(@)])
      BY <1>3, <2>3 DEF Outcomes
    <3> QED
      BY <1>1, <2>1, <3>1 DEF Answers, Records
  <2> QED
    BY <1>6, <2>2, <2>3 DEF HttpError, Breakers
<1>7. ASSUME NEW go, NEW verdict \in Outcomes, TransportFailure(r, go, verdict)
      PROVE  Answers(r)
  <2>1. metrics' = IF MetricsEnabled THEN [metrics EXCEPT ![q.vm][NameOf[k]] = RecordError(m)]
                   ELSE metrics
    BY <1>7 DEF TransportFailure, RecordAttempt
  <2>2. CASE RetryOrMoveOn(r, Failed(q), [breaker EXCEPT ![k] = RecordRetryableFailure(@)])
    BY <1>4, <2>1, <2>2 DEF Answers, Records
  <2>3. CASE Finish(r, verdict, [breaker EXCEPT ![k] = RecordRetryableFailure(@)])
    <3>1. Replies(r, [breaker EXCEPT ![k] = RecordRetryableFailure(@)])
      BY <1>3, <2>3
    <3> QED
      BY <2>1, <3>1 DEF Answers, Records
  <2> QED
    BY <1>7, <2>2, <2>3 DEF TransportFailure, Breakers
<1>8. CASE Timeout(r)
  BY <1>1, <1>7, <1>8 DEF Timeout, Outcomes
<1>9. CASE ConnectionError(r)
  BY <1>1, <1>7, <1>9 DEF ConnectionError, Outcomes
<1>10. CASE TornErrorBody(r)
  <2>1. Replies(r, breaker)
    BY <1>3, <1>10 DEF TornErrorBody, Outcomes
  <2>2. metrics' = IF MetricsEnabled THEN [metrics EXCEPT ![q.vm][NameOf[k]] = RecordErrorTorn(m)]
                   ELSE metrics
    BY <1>10 DEF TornErrorBody, RecordAttempt
  <2>3. Faults # {}
    BY <1>10 DEF TornErrorBody
  <2>4. breaker = [breaker EXCEPT ![k] = breaker[k]]
    OBVIOUS
  <2>5. Replies(r, [breaker EXCEPT ![k] = breaker[k]])
    BY <2>1, <2>4
  <2>6. Records(r, breaker[k], RecordErrorTorn(m))
    BY <2>3 DEF Records
  <2> QED
    BY <1>1, <2>2, <2>5, <2>6 DEF Answers
<1>11. CASE UndecodableBody(r)
  <2>1. Replies(r, breaker)
    BY <1>3, <1>11 DEF UndecodableBody, Outcomes
  <2> QED
    BY <1>1, <1>11, <2>1 DEF UndecodableBody, Vanishes
<1> QED
  BY <1>5, <1>6, <1>8, <1>9, <1>10, <1>11, <1>1 DEF Answer
-----------------------------------------------------------------------------
GoodBreakers(b) == b \in [Key -> BreakerStates] /\ \A k \in Key : GoodBreaker(b[k])

RequestsInPlace ==
    /\ req \in [Request -> Requests]
    /\ \A r \in Request : req[r].pc = "waiting" => InPlace(req[r])

MetricsTyped == metrics \in [VirtualModel -> [UpstreamName -> MetricsStates]]

\* The inductive invariant for the types, the breakers and the requests' lists.
Inv == GoodBreakers(breaker) /\ MetricsTyped /\ RequestsInPlace

\* A waiting request waits for an upstream of its own pool.
LEMMA InPlaceKey ==
  ASSUME NEW q, InPlace(q)
  PROVE  /\ q \in Requests
         /\ q.vm \in VirtualModel
         /\ KeyOf(q) \in Key
         /\ NameOf[KeyOf(q)] \in UpstreamName
<1>1. q \in Requests /\ q.vm \in VirtualModel /\ q.at \in DOMAIN Pool[q.vm]
  BY DEF InPlace, Listed, Requests
<1>2. KeyOf(q) \in Key
  BY <1>1, KeyAtTyped DEF KeyOf
<1> QED
  BY <1>1, <1>2, RouterAssumption

\* A step of the common shape preserves the invariant.
LEMMA ContinueInv ==
  ASSUME NEW r \in Request, NEW b, GoodBreakers(b), RequestsInPlace,
         Calls(r, b) \/ Replies(r, b)
  PROVE  GoodBreakers(breaker)' /\ RequestsInPlace'
<1>1. CASE Calls(r, b)
  <2>1. PICK q : /\ InPlace(q)
                 /\ q.pc = "waiting"
                 /\ AllowsTraffic(b[KeyOf(q)])
                 /\ breaker' = [b EXCEPT ![KeyOf(q)] = Admit(@)]
                 /\ req' = [req EXCEPT ![r] = q]
    BY <1>1 DEF Calls
  <2>2. q \in Requests /\ KeyOf(q) \in Key
    BY <2>1, InPlaceKey
  <2>3. GoodBreaker(Admit(b[KeyOf(q)]))
    BY <2>1, <2>2, AdmitGood DEF GoodBreakers
  <2>4. GoodBreakers(breaker)'
    BY <2>1, <2>2, <2>3 DEF GoodBreakers, GoodBreaker
  <2>5. RequestsInPlace'
    BY <2>1, <2>2 DEF RequestsInPlace, InPlace, Listed
  <2> QED
    BY <2>4, <2>5
<1>2. CASE Replies(r, b)
  <2>1. PICK o \in Outcomes : req' = [req EXCEPT ![r] = Idle(o)]
    BY <1>2 DEF Replies
  <2>2. Idle(o) \in Requests /\ Idle(o).pc = "idle"
    BY IdleTyped
  <2>3. RequestsInPlace'
    BY <2>1, <2>2 DEF RequestsInPlace, InPlace, Listed
  <2>4. GoodBreakers(breaker)'
    BY <1>2 DEF Replies, GoodBreakers
  <2> QED
    BY <2>3, <2>4
<1> QED
  BY <1>1, <1>2

\* What an answer records keeps the types and the breakers.
LEMMA RecordsInv ==
  ASSUME NEW r \in Request, Inv, InPlace(req[r]), NEW nb, NEW nm, Records(r, nb, nm)
  PROVE  /\ GoodBreakers([breaker EXCEPT ![KeyOf(req[r])] = nb])
         /\ nm \in MetricsStates
         /\ [metrics EXCEPT ![req[r].vm][NameOf[KeyOf(req[r])]] = nm]
               \in [VirtualModel -> [UpstreamName -> MetricsStates]]
<1> DEFINE k == KeyOf(req[r])
           m == metrics[req[r].vm][NameOf[k]]
<1>1. k \in Key /\ req[r].vm \in VirtualModel /\ NameOf[k] \in UpstreamName
  BY InPlaceKey
<1>2. GoodBreaker(breaker[k]) /\ m \in MetricsStates
  BY <1>1 DEF Inv, GoodBreakers, MetricsTyped
<1>3. GoodBreaker(nb)
  BY <1>2, RecordGood DEF Records
<1>4. nm \in MetricsStates
  BY <1>2, RecordTyped DEF Records
<1>5. GoodBreakers([breaker EXCEPT ![k] = nb])
  BY <1>1, <1>3 DEF Inv, GoodBreakers, GoodBreaker
<1>6. [metrics EXCEPT ![req[r].vm][NameOf[k]] = nm]
         \in [VirtualModel -> [UpstreamName -> MetricsStates]]
  BY <1>1, <1>4 DEF Inv, MetricsTyped
<1> QED
  BY <1>4, <1>5, <1>6

\* A tick keeps the breakers good.
LEMMA TickBreakers ==
  ASSUME GoodBreakers(breaker), breaker' = [k \in Key |-> Elapse(breaker[k])]
  PROVE  GoodBreakers(breaker)'
  BY ElapseGood DEF GoodBreakers, GoodBreaker

\* The steps of a request that waits for nothing.
LEMMA IdleShape ==
  ASSUME NEW r \in Request,
         (\E vm \in VirtualModel : Arrive(r, vm)) \/ UnknownModel(r)
  PROVE  /\ req[r].pc = "idle"
         /\ UNCHANGED metrics
         /\ Calls(r, breaker) \/ Replies(r, breaker)
<1>1. ASSUME NEW vm \in VirtualModel, Arrive(r, vm)
      PROVE  /\ req[r].pc = "idle"
             /\ UNCHANGED metrics
             /\ Calls(r, breaker) \/ Replies(r, breaker)
  <2>1. Listed(FreshRequest(vm))
    BY FreshListed
  <2> QED
    BY <1>1, <2>1, MoveOnShape DEF Arrive
<1>2. CASE UnknownModel(r)
  BY <1>2 DEF UnknownModel, Replies, Outcomes
<1> QED
  BY <1>1, <1>2

\* The invariant holds initially,
LEMMA InvInit == Init => Inv
<1> SUFFICES ASSUME Init PROVE Inv
  OBVIOUS
<1>1. GoodBreakers(breaker)
  BY InitialBreakerGood DEF Init, GoodBreakers, GoodBreaker
<1>2. MetricsTyped
  <2>1. InitialMetrics \in MetricsStates
    BY MetricsAssumption, EmptySeq DEF InitialMetrics, MetricsStates
  <2> QED
    BY <2>1 DEF Init, MetricsTyped
<1>3. RequestsInPlace
  BY IdleTyped DEF Init, RequestsInPlace, Outcomes
<1> QED
  BY <1>1, <1>2, <1>3 DEF Inv

\* and every step preserves it.
LEMMA InvNext == Inv /\ [Next]_vars => Inv'
<1> SUFFICES ASSUME Inv, [Next]_vars PROVE Inv'
  OBVIOUS
<1>1. ASSUME NEW r \in Request,
             (\E vm \in VirtualModel : Arrive(r, vm)) \/ UnknownModel(r)
      PROVE  Inv'
  <2>1. UNCHANGED metrics /\ (Calls(r, breaker) \/ Replies(r, breaker))
    BY <1>1, IdleShape
  <2>2. GoodBreakers(breaker)' /\ RequestsInPlace'
    BY <2>1, ContinueInv DEF Inv
  <2> QED
    BY <2>1, <2>2 DEF Inv, MetricsTyped
<1>2. ASSUME NEW r \in Request, Answer(r)
      PROVE  Inv'
  <2>1. InPlace(req[r]) /\ (Answers(r) \/ Vanishes(r))
    BY <1>2, AnswerShape DEF Inv, RequestsInPlace, GoodBreakers
  <2>2. CASE Vanishes(r)
    <3>1. GoodBreakers(breaker)' /\ RequestsInPlace'
      BY <2>2, ContinueInv DEF Inv, Vanishes
    <3> QED
      BY <2>2, <3>1 DEF Inv, Vanishes, MetricsTyped
  <2>3. CASE Answers(r)
    <3>1. PICK nb, nm :
            /\ Records(r, nb, nm)
            /\ metrics' = IF MetricsEnabled
                          THEN [metrics EXCEPT ![req[r].vm][NameOf[KeyOf(req[r])]] = nm]
                          ELSE metrics
            /\ LET b == [breaker EXCEPT ![KeyOf(req[r])] = nb] IN Calls(r, b) \/ Replies(r, b)
      BY <2>3 DEF Answers
    <3>2. /\ GoodBreakers([breaker EXCEPT ![KeyOf(req[r])] = nb])
          /\ [metrics EXCEPT ![req[r].vm][NameOf[KeyOf(req[r])]] = nm]
                \in [VirtualModel -> [UpstreamName -> MetricsStates]]
      BY <2>1, <3>1, RecordsInv
    <3>3. GoodBreakers(breaker)' /\ RequestsInPlace'
      BY <3>1, <3>2, ContinueInv DEF Inv
    <3>4. MetricsTyped'
      BY <3>1, <3>2 DEF Inv, MetricsTyped
    <3> QED
      BY <3>3, <3>4 DEF Inv
  <2> QED
    BY <2>1, <2>2, <2>3
<1>3. CASE Tick
  BY <1>3, TickBreakers DEF Tick, Inv, MetricsTyped, RequestsInPlace
<1>4. CASE UNCHANGED vars
  BY <1>4 DEF vars, Inv, GoodBreakers, MetricsTyped, RequestsInPlace
<1> QED
  BY <1>1, <1>2, <1>3, <1>4 DEF Next

\* Inv holds throughout.
THEOREM InvHolds == Spec => []Inv
  BY InvInit, InvNext, PTL DEF Spec

\* The variables keep their types whatever answers arrive, in whatever order.
THEOREM TypeCorrect == Spec => []TypeOK
<1>1. Inv => TypeOK
  BY DEF Inv, TypeOK, GoodBreakers, MetricsTyped, RequestsInPlace
<1> QED
  BY <1>1, InvHolds, PTL

\* A breaker is open exactly at the threshold, and a closed one has no slot in
\* use, whatever answers arrive late and whatever the code does not foresee.
THEOREM BreakersConsistent == Spec => []BreakerConsistent
<1>1. Inv => BreakerConsistent
  BY DEF Inv, GoodBreakers, GoodBreaker, BreakerConsistent
<1> QED
  BY <1>1, InvHolds, PTL

\* No request exceeds its attempts or returns to an upstream it has left, for
\* every pool and every mix of tiers.
THEOREM NeverRevisits == Spec => []NoRevisit
<1>1. Inv => NoRevisit
  BY DEF Inv, RequestsInPlace, InPlace, Listed, NoRevisit
<1> QED
  BY <1>1, InvHolds, PTL
-----------------------------------------------------------------------------
\* No step starts a call that the breaker does not admit (CallsGated).
LEMMA GateStep ==
  ASSUME NEW r \in Request, NEW b, GoodBreakers(b), RequestsInPlace,
         Calls(r, b) \/ Replies(r, b)
  PROVE  GatedStep
<1>1. CASE Calls(r, b)
  <2>1. PICK q : /\ InPlace(q)
                 /\ q.pc = "waiting"
                 /\ AllowsTraffic(b[KeyOf(q)])
                 /\ q.trial = (Admit(b[KeyOf(q)]) # b[KeyOf(q)])
                 /\ breaker' = [b EXCEPT ![KeyOf(q)] = Admit(@)]
                 /\ req' = [req EXCEPT ![r] = q]
    BY <1>1 DEF Calls
  <2> DEFINE k == KeyOf(q)
  <2>2. k \in Key /\ GoodBreaker(b[k]) /\ breaker'[k] = Admit(b[k])
    BY <2>1, InPlaceKey DEF GoodBreakers
  <2>3. ASSUME BreakerEnabled, IsOpen(Admit(b[k]))
        PROVE  /\ ~CoolingDown(Admit(b[k]))
               /\ Admit(b[k]).half_open_probes > 0
               /\ Admit(b[k]) # b[k]
    <3>1. IsOpen(b[k])
      BY <2>3 DEF Admit
    <3>2. ~CoolingDown(b[k])
      BY <2>1, <2>3, <3>1 DEF AllowsTraffic
    <3>3. b[k] \in BreakerStates
      BY <2>2 DEF GoodBreaker
    <3>4. Admit(b[k]) = [b[k] EXCEPT !.half_open_probes = @ + 1]
      BY <2>3, <3>1 DEF Admit
    <3>5. /\ b[k].half_open_probes \in Nat
          /\ Admit(b[k]).half_open_probes = b[k].half_open_probes + 1
          /\ Admit(b[k]).opened_age = b[k].opened_age
      BY <3>3, <3>4, BreakerAssumption DEF BreakerStates
    <3> QED
      BY <3>2, <3>5 DEF CoolingDown, IsOpen
  <2>4. \A s \in Request : s # r => req'[s] = req[s]
    BY <2>1 DEF RequestsInPlace
  <2>5. req'[r] = q
    BY <2>1 DEF RequestsInPlace
  <2> QED
    BY <2>1, <2>2, <2>3, <2>4, <2>5 DEF GatedStep
<1>2. CASE Replies(r, b)
  BY <1>2, IdleTyped DEF Replies, RequestsInPlace, GatedStep
<1> QED
  BY <1>1, <1>2

\* No step of any kind starts a call that the breaker does not admit.
LEMMA GatedNext == Inv /\ [Next]_vars => [GatedStep]_vars
<1> SUFFICES ASSUME Inv, [Next]_vars PROVE [GatedStep]_vars
  OBVIOUS
<1>1. ASSUME NEW r \in Request,
             (\E vm \in VirtualModel : Arrive(r, vm)) \/ UnknownModel(r)
      PROVE  GatedStep
  BY <1>1, IdleShape, GateStep DEF Inv
<1>2. ASSUME NEW r \in Request, Answer(r)
      PROVE  GatedStep
  <2>1. InPlace(req[r]) /\ (Answers(r) \/ Vanishes(r))
    BY <1>2, AnswerShape DEF Inv, RequestsInPlace, GoodBreakers
  <2>2. CASE Vanishes(r)
    BY <2>2, GateStep DEF Inv, Vanishes
  <2>3. CASE Answers(r)
    <3>1. PICK nb, nm :
            /\ Records(r, nb, nm)
            /\ LET b == [breaker EXCEPT ![KeyOf(req[r])] = nb] IN Calls(r, b) \/ Replies(r, b)
      BY <2>3 DEF Answers
    <3>2. GoodBreakers([breaker EXCEPT ![KeyOf(req[r])] = nb])
      BY <2>1, <3>1, RecordsInv
    <3> QED
      BY <3>1, <3>2, GateStep DEF Inv
  <2> QED
    BY <2>1, <2>2, <2>3
<1>3. CASE Tick
  BY <1>3 DEF Tick, GatedStep
<1> QED
  BY <1>1, <1>2, <1>3 DEF Next

\* A call is only ever started on a closed breaker, or on a half-open one that
\* has spent a slot on it.
THEOREM CallsAreGated == Spec => CallsGated
  BY GatedNext, InvHolds, PTL DEF Spec, CallsGated
-----------------------------------------------------------------------------
\* The slots in use once r's own trial is set aside.
HeldWithout(r, b) ==
    \A k \in Key : b[k].half_open_probes <= Cardinality(Trials(k) \ {r})

\* The trials in flight can be counted.
LEMMA TrialsFinite ==
  \A k \in Key : \A r \in Request :
      /\ IsFiniteSet(Trials(k))
      /\ IsFiniteSet(Trials(k) \ {r})
      /\ Cardinality(Trials(k) \ {r}) \in Nat
<1> TAKE k \in Key
<1> TAKE r \in Request
<1>1. Trials(k) \subseteq Request /\ Trials(k) \ {r} \subseteq Request
  BY DEF Trials
<1> QED
  BY <1>1, RouterAssumption, FS_Subset, FS_CardinalityType

\* A step of the common shape frees the slot of the call that ended and
\* takes one for each trial it starts, so the slots stay held.
LEMMA SlotsContinue ==
  ASSUME NEW r \in Request, NEW b, GoodBreakers(b), RequestsInPlace, HeldWithout(r, b),
         Calls(r, b) \/ Replies(r, b)
  PROVE  SlotsHeld'
<1> SUFFICES ASSUME NEW k \in Key
             PROVE  breaker'[k].half_open_probes <= Cardinality(Trials(k)')
  BY DEF SlotsHeld
<1> DEFINE T == Trials(k) \ {r}
<1>1. /\ IsFiniteSet(T)
      /\ Cardinality(T) \in Nat
      /\ b[k].half_open_probes <= Cardinality(T)
      /\ b[k].half_open_probes \in Nat
  <2>1. IsFiniteSet(T) /\ Cardinality(T) \in Nat
    BY TrialsFinite
  <2>2. b[k].half_open_probes \in Nat
    BY BreakerAssumption DEF GoodBreakers, BreakerStates
  <2> QED
    BY <2>1, <2>2 DEF HeldWithout
<1>2. Trials(k)' \subseteq Request /\ IsFiniteSet(Trials(k)')
  BY RouterAssumption, FS_Subset DEF Trials
<1>3. T \subseteq Trials(k)'
  <2>1. \A s \in Request : s # r => req'[s] = req[s]
    BY DEF Calls, Replies, RequestsInPlace
  <2> QED
    BY <2>1 DEF Trials, KeyOf
<1>4. Cardinality(T) <= Cardinality(Trials(k)')
  BY <1>2, <1>3, FS_Subset
<1>5. Cardinality(Trials(k)') \in Nat
  BY <1>2, FS_CardinalityType
<1>6. CASE breaker'[k] = b[k]
  BY <1>1, <1>4, <1>5, <1>6
<1>7. CASE breaker'[k] # b[k]
  <2>1. Calls(r, b)
    BY <1>7 DEF Replies
  <2>2. PICK q : /\ InPlace(q)
                 /\ q.pc = "waiting"
                 /\ AllowsTraffic(b[KeyOf(q)])
                 /\ q.trial = (Admit(b[KeyOf(q)]) # b[KeyOf(q)])
                 /\ breaker' = [b EXCEPT ![KeyOf(q)] = Admit(@)]
                 /\ req' = [req EXCEPT ![r] = q]
    BY <2>1 DEF Calls
  <2>3. KeyOf(q) = k /\ breaker'[k] = Admit(b[k]) /\ q.trial
    BY <1>7, <2>2, InPlaceKey DEF GoodBreakers
  <2>4. breaker'[k].half_open_probes = b[k].half_open_probes + 1
    BY <1>7, <2>2, <2>3, AdmitGood DEF GoodBreakers
  <2>5. r \in Trials(k)'
    BY <2>2, <2>3 DEF Trials, RequestsInPlace
  <2>6. T \cup {r} \subseteq Trials(k)'
    BY <1>3, <2>5
  <2>7. Cardinality(T \cup {r}) = Cardinality(T) + 1 /\ IsFiniteSet(T \cup {r})
    BY <1>1, FS_AddElement
  <2>8. Cardinality(T \cup {r}) <= Cardinality(Trials(k)')
    BY <1>2, <2>6, FS_Subset
  <2> QED
    BY <1>1, <1>5, <2>4, <2>7, <2>8
<1> QED
  BY <1>6, <1>7

\* At first no slot is in use.
LEMMA HeldInit == Init => SlotsHeld
<1>1. ASSUME Init, NEW k \in Key
      PROVE  breaker[k].half_open_probes <= Cardinality(Trials(k))
  <2>1. Cardinality(Trials(k)) \in Nat
    BY RouterAssumption, FS_Subset, FS_CardinalityType DEF Trials
  <2> QED
    BY <1>1, <2>1 DEF Init, InitialBreaker
<1> QED
  BY <1>1 DEF SlotsHeld

\* An answer frees every slot of its breaker and takes its request out of the
\* trials; nothing vanishes without doing the former.
LEMMA HeldNext ==
  ASSUME Faults = {}
  PROVE  Inv /\ SlotsHeld /\ [Next]_vars => SlotsHeld'
<1> SUFFICES ASSUME Inv, SlotsHeld, [Next]_vars PROVE SlotsHeld'
  OBVIOUS
<1>1. ASSUME NEW r \in Request,
             (\E vm \in VirtualModel : Arrive(r, vm)) \/ UnknownModel(r)
      PROVE  SlotsHeld'
  <2>1. req[r].pc = "idle" /\ (Calls(r, breaker) \/ Replies(r, breaker))
    BY <1>1, IdleShape
  <2>2. \A k \in Key : Trials(k) \ {r} = Trials(k)
    BY <2>1 DEF Trials
  <2>3. HeldWithout(r, breaker)
    BY <2>2 DEF HeldWithout, SlotsHeld
  <2> QED
    BY <2>1, <2>3, SlotsContinue DEF Inv
<1>2. ASSUME NEW r \in Request, Answer(r)
      PROVE  SlotsHeld'
  <2>1. req[r].pc = "waiting" /\ InPlace(req[r]) /\ Answers(r)
    BY <1>2, AnswerShape DEF Inv, RequestsInPlace, GoodBreakers, Vanishes
  <2>2. PICK nb, nm :
          /\ Records(r, nb, nm)
          /\ LET b == [breaker EXCEPT ![KeyOf(req[r])] = nb] IN Calls(r, b) \/ Replies(r, b)
    BY <2>1 DEF Answers
  <2> DEFINE b == [breaker EXCEPT ![KeyOf(req[r])] = nb]
  <2>3. GoodBreakers(b)
    BY <2>1, <2>2, RecordsInv
  <2>4. GoodBreaker(breaker[KeyOf(req[r])])
    BY <2>1, InPlaceKey DEF Inv, GoodBreakers
  <2>5. nb.half_open_probes = 0
    BY <2>2, <2>4, RecordGood DEF Records
  <2>6. ASSUME NEW k \in Key
        PROVE  b[k].half_open_probes <= Cardinality(Trials(k) \ {r})
    <3>1. CASE k = KeyOf(req[r])
      <4>1. b[k].half_open_probes = 0
        BY <2>5, <3>1 DEF Inv, GoodBreakers
      <4>2. Cardinality(Trials(k) \ {r}) \in Nat
        BY TrialsFinite
      <4> HIDE DEF b
      <4> QED
        BY <4>1, <4>2
    <3>2. CASE k # KeyOf(req[r])
      <4>1. Trials(k) \ {r} = Trials(k) /\ b[k] = breaker[k]
        BY <3>2 DEF Trials, Inv, GoodBreakers
      <4> QED
        BY <4>1 DEF SlotsHeld
    <3> QED
      BY <3>1, <3>2
  <2>7. HeldWithout(r, b)
    BY <2>6 DEF HeldWithout
  <2>8. Calls(r, b) \/ Replies(r, b)
    BY <2>2
  <2> HIDE DEF b
  <2> QED
    BY <2>3, <2>7, <2>8, SlotsContinue DEF Inv
<1>3. CASE Tick
  BY <1>3, ElapseGood DEF Tick, SlotsHeld, Trials, Inv, GoodBreakers
<1>4. CASE UNCHANGED vars
  BY <1>4 DEF vars, SlotsHeld, Trials
<1> QED
  BY <1>1, <1>2, <1>3, <1>4 DEF Next

\* If every answer is one the code foresees, a half-open slot in use always
\* belongs to a call in flight: no upstream is shut out by a slot that nobody
\* will ever give back.
THEOREM NoSlotLeaks ==
  ASSUME Faults = {}
  PROVE  Spec => []SlotsHeld
  BY HeldInit, HeldNext, InvHolds, PTL DEF Spec
-----------------------------------------------------------------------------
\* The metrics of every entry lead the breaker of the entry's upstream.
MetricsLead ==
    \A k \in Key : \A vm \in EntriesOf(k) : Leads(metrics[vm][NameOf[k]], breaker[k])

\* Metrics that count as many failures as an open breaker never look healthy.
LEMMA NotHealthy ==
  ASSUME NEW m \in MetricsStates, m.consecutive_failures >= DegradedThreshold
  PROVE  Classify(m) # "healthy"
<1>1. CASE m.consecutive_failures >= DownThreshold
  BY <1>1, MetricsAssumption DEF MetricsStates, Classify
<1>2. CASE m.consecutive_failures < DownThreshold
  BY <1>2, MetricsAssumption DEF MetricsStates, Classify
<1> QED
  BY <1>1, <1>2, MetricsAssumption DEF MetricsStates

\* A breaker changes its count only through what is recorded: calling and
\* replying leave it alone.
LEMMA ContinueCounts ==
  ASSUME NEW r \in Request, NEW b, GoodBreakers(b), Calls(r, b) \/ Replies(r, b)
  PROVE  \A k \in Key : breaker'[k].consecutive_failures = b[k].consecutive_failures
<1>1. CASE Calls(r, b)
  <2>1. PICK q : /\ InPlace(q)
                 /\ AllowsTraffic(b[KeyOf(q)])
                 /\ breaker' = [b EXCEPT ![KeyOf(q)] = Admit(@)]
    BY <1>1 DEF Calls
  <2>2. KeyOf(q) \in Key /\ GoodBreaker(b[KeyOf(q)])
    BY <2>1, InPlaceKey DEF GoodBreakers
  <2>3. Admit(b[KeyOf(q)]).consecutive_failures = b[KeyOf(q)].consecutive_failures
    BY <2>1, <2>2, AdmitGood
  <2> QED
    BY <2>1, <2>2, <2>3 DEF GoodBreakers
<1>2. CASE Replies(r, b)
  BY <1>2 DEF Replies
<1> QED
  BY <1>1, <1>2

\* Leads looks at the failure counts only.
LEMMA LeadsByCount ==
  \A m, b, c : Leads(m, b) /\ c.consecutive_failures = b.consecutive_failures => Leads(m, c)
  BY DEF Leads

\* The metrics lead the breakers initially,
LEMMA LeadInit == Init => MetricsLead
<1> SUFFICES ASSUME Init, NEW k \in Key, NEW vm \in EntriesOf(k)
             PROVE  Leads(metrics[vm][NameOf[k]], breaker[k])
  BY DEF MetricsLead
<1>1. metrics[vm][NameOf[k]] = InitialMetrics /\ breaker[k] = InitialBreaker
  BY RouterAssumption DEF Init, EntriesOf
<1> QED
  BY <1>1 DEF Leads, InitialMetrics, InitialBreaker

\* and no step lets a breaker get ahead of its metrics.
LEMMA LeadNext ==
  ASSUME MetricsEnabled, SoleOwners, UniqueNames
  PROVE  Inv /\ MetricsLead /\ [Next]_vars => MetricsLead'
<1> SUFFICES ASSUME Inv, MetricsLead, [Next]_vars PROVE MetricsLead'
  OBVIOUS
<1>1. ASSUME UNCHANGED metrics,
             \A k \in Key : breaker'[k].consecutive_failures = breaker[k].consecutive_failures
      PROVE  MetricsLead'
  BY <1>1, LeadsByCount DEF MetricsLead, EntriesOf
<1>2. ASSUME NEW r \in Request,
             (\E vm \in VirtualModel : Arrive(r, vm)) \/ UnknownModel(r)
      PROVE  MetricsLead'
  BY <1>1, <1>2, IdleShape, ContinueCounts DEF Inv
<1>3. ASSUME NEW r \in Request, Answer(r)
      PROVE  MetricsLead'
  <2>1. InPlace(req[r]) /\ (Answers(r) \/ Vanishes(r))
    BY <1>3, AnswerShape DEF Inv, RequestsInPlace, GoodBreakers
  <2>2. CASE Vanishes(r)
    BY <1>1, <2>2 DEF Vanishes, Replies
  <2>3. CASE Answers(r)
    <3> DEFINE q  == req[r]
               kq == KeyOf(q)
               m  == metrics[q.vm][NameOf[kq]]
    <3>1. PICK nb, nm :
            /\ Records(r, nb, nm)
            /\ metrics' = [metrics EXCEPT ![q.vm][NameOf[kq]] = nm]
            /\ LET b == [breaker EXCEPT ![kq] = nb] IN Calls(r, b) \/ Replies(r, b)
      BY <2>3 DEF Answers
    <3>2. kq \in Key /\ q.vm \in VirtualModel /\ NameOf[kq] \in UpstreamName
      BY <2>1, InPlaceKey
    <3>3. q.vm \in EntriesOf(kq) /\ q.at \in DOMAIN Pool[q.vm]
      BY <2>1, <3>2 DEF EntriesOf, KeyOf, InPlace
    <3>4. m \in MetricsStates /\ GoodBreaker(breaker[kq]) /\ Leads(m, breaker[kq])
      BY <3>2, <3>3 DEF Inv, MetricsTyped, GoodBreakers, MetricsLead
    <3>5. Leads(nm, nb)
      BY <3>1, <3>4, RecordLeads DEF Records
    <3>6. GoodBreakers([breaker EXCEPT ![kq] = nb])
      BY <2>1, <3>1, RecordsInv
    <3>7. \A k \in Key : breaker'[k].consecutive_failures
                            = [breaker EXCEPT ![kq] = nb][k].consecutive_failures
      BY <3>1, <3>6, ContinueCounts
    <3> SUFFICES ASSUME NEW k \in Key, NEW vm \in EntriesOf(k)
                 PROVE  Leads(metrics'[vm][NameOf[k]], breaker'[k])
      BY DEF MetricsLead, EntriesOf
    <3>8. CASE k = kq
      <4>1. vm = q.vm
        BY <3>2, <3>3, <3>8 DEF SoleOwners
      <4>2. metrics'[vm][NameOf[k]] = nm
        BY <3>1, <3>2, <3>8, <4>1 DEF Inv, MetricsTyped
      <4>3. breaker'[k].consecutive_failures = nb.consecutive_failures
        BY <3>2, <3>7, <3>8 DEF Inv, GoodBreakers
      <4> QED
        BY <3>5, <4>2, <4>3, LeadsByCount
    <3>9. CASE k # kq
      <4>1. vm \in VirtualModel /\ NameOf[k] \in UpstreamName
        BY RouterAssumption DEF EntriesOf
      <4>2. ~(vm = q.vm /\ NameOf[k] = NameOf[kq])
        <5>1. PICK p \in DOMAIN Pool[vm] : KeyAt(vm, p) = k
          BY DEF EntriesOf
        <5>2. KeyAt(q.vm, q.at) = kq
          BY DEF KeyOf
        <5> QED
          BY <3>3, <3>9, <4>1, <5>1, <5>2 DEF UniqueNames
      <4>3. metrics'[vm][NameOf[k]] = metrics[vm][NameOf[k]]
        BY <3>1, <3>2, <4>1, <4>2 DEF Inv, MetricsTyped
      <4>4. breaker'[k].consecutive_failures = breaker[k].consecutive_failures
        BY <3>7, <3>9 DEF Inv, GoodBreakers
      <4>5. Leads(metrics[vm][NameOf[k]], breaker[k])
        BY DEF MetricsLead
      <4> QED
        BY <4>3, <4>4, <4>5, LeadsByCount
    <3> QED
      BY <3>8, <3>9
  <2> QED
    BY <2>1, <2>2, <2>3
<1>4. CASE Tick
  BY <1>1, <1>4, ElapseGood DEF Tick, Inv, GoodBreakers
<1>5. CASE UNCHANGED vars
  BY <1>1, <1>5 DEF vars
<1> QED
  BY <1>2, <1>3, <1>4, <1>5 DEF Next

\* Metrics that lead show every open breaker.
LEMMA LeadIsTruthful ==
  ASSUME DegradedThreshold <= FailureThreshold, Inv, MetricsLead
  PROVE  PoolTruthful
<1> SUFFICES ASSUME NEW k \in Key, IsOpen(breaker[k]), NEW vm \in EntriesOf(k)
             PROVE  Classify(metrics[vm][NameOf[k]]) # "healthy"
  BY DEF PoolTruthful
<1> DEFINE m == metrics[vm][NameOf[k]]
<1>1. m \in MetricsStates
  BY RouterAssumption DEF Inv, MetricsTyped, EntriesOf
<1>2. breaker[k].consecutive_failures = FailureThreshold
  BY DEF Inv, GoodBreakers, GoodBreaker
<1>3. Leads(m, breaker[k])
  BY DEF MetricsLead
<1>4. m.consecutive_failures >= DegradedThreshold
  BY <1>1, <1>2, <1>3, BreakerAssumption, MetricsAssumption DEF Leads, MetricsStates
<1> QED
  BY <1>1, <1>4, NotHealthy

\* While each upstream has one entry and each entry one upstream, and the pool
\* calls an upstream degraded no later than its breaker opens, /v1/pool never
\* shows an upstream as healthy behind an open breaker - also when error bodies
\* tear the metrics update or exceptions get lost.
THEOREM PoolIsTruthful ==
  ASSUME MetricsEnabled, SoleOwners, UniqueNames, DegradedThreshold <= FailureThreshold
  PROVE  Spec => []PoolTruthful
<1>1. Inv /\ MetricsLead => PoolTruthful
  BY LeadIsTruthful
<1>2. Inv /\ MetricsLead /\ [Next]_vars => MetricsLead'
  BY LeadNext
<1> QED
  BY <1>1, <1>2, LeadInit, InvHolds, PTL DEF Spec
=============================================================================
