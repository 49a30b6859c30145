--------------------------- MODULE ContractProofs ---------------------------
(***************************************************************************)
(* Router.tla implements BreakerContract.tla, for every value of the       *)
(* constants: each step of a request maps to a step of the contract, or to *)
(* a stutter.                                                              *)
(***************************************************************************)
EXTENDS RouterProofs

\* A breaker starts out as a closed circuit.
LEMMA CircuitInitial == CircuitOf(InitialBreaker) = Contract!Closed(0)
  BY DEF CircuitOf, InitialBreaker, IsOpen, CoolingDown, NotOpen, Contract!Closed

\* Letting a call through changes only the slots, which the contract does not
\* see; and what is let through is not at rest.
LEMMA CircuitAdmit ==
  ASSUME NEW b, GoodBreaker(b), AllowsTraffic(b)
  PROVE  CircuitOf(Admit(b)) = CircuitOf(b) /\ CircuitOf(b).rest = 0
  BY BreakerAssumption
     DEF CircuitOf, Admit, AllowsTraffic, CoolingDown, IsOpen, NotOpen, GoodBreaker, BreakerStates

\* Each answer changes the circuit as the contract says,
LEMMA CircuitRecord ==
  ASSUME NEW b, GoodBreaker(b), BreakerEnabled
  PROVE  /\ CircuitOf(RecordSuccess(b)) = Contract!Closed(0)
         /\ CircuitOf(RecordRetryableFailure(b)) = Contract!AfterFailure(CircuitOf(b))
         /\ CircuitOf(RecordNonRetryable(b)) = Contract!AfterCallerError(CircuitOf(b))
<1> USE BreakerAssumption DEF IsOpen, NotOpen, CoolingDown, BreakerStates
<1>1. CircuitOf(RecordSuccess(b)) = Contract!Closed(0)
  BY CircuitInitial DEF RecordSuccess
<1>2. ASSUME NEW n PROVE CircuitOf(Armed(n)) = Contract!Opened
  <2>1. Armed(n).opened_age = 0
    BY DEF Armed
  <2>2. IsOpen(Armed(n)) /\ (CoolingDown(Armed(n)) <=> 0 < Cooldown)
    BY <2>1
  <2>3. (IF 0 < Cooldown THEN Cooldown - 0 ELSE 0) = Cooldown
    OBVIOUS
  <2> QED
    BY <2>1, <2>2, <2>3 DEF CircuitOf, Contract!Opened
<1>3. CircuitOf(RecordRetryableFailure(b)) = Contract!AfterFailure(CircuitOf(b))
  <2>1. CASE IsOpen(b) \/ b.consecutive_failures + 1 >= FailureThreshold
    BY <1>2, <2>1 DEF RecordRetryableFailure, Contract!AfterFailure, CircuitOf
  <2>2. CASE ~(IsOpen(b) \/ b.consecutive_failures + 1 >= FailureThreshold)
    BY <2>2 DEF RecordRetryableFailure, Contract!AfterFailure, Contract!Closed, CircuitOf, GoodBreaker
  <2> QED
    BY <2>1, <2>2
<1>4. CircuitOf(RecordNonRetryable(b)) = Contract!AfterCallerError(CircuitOf(b))
  <2>1. CASE IsOpen(b)
    BY <1>2, <2>1 DEF RecordNonRetryable, Contract!AfterCallerError, CircuitOf
  <2>2. CASE ~IsOpen(b)
    BY <2>2 DEF RecordNonRetryable, Contract!AfterCallerError, Contract!Closed, CircuitOf, GoodBreaker
  <2> QED
    BY <2>1, <2>2
<1> QED
  BY <1>1, <1>3, <1>4

\* and disabled breakers change at no answer.
LEMMA DisabledUnchanged ==
  ASSUME NEW b, ~BreakerEnabled
  PROVE  /\ RecordSuccess(b) = b
         /\ RecordRetryableFailure(b) = b
         /\ RecordNonRetryable(b) = b
  BY DEF RecordSuccess, RecordRetryableFailure, RecordNonRetryable

\* Time lets a circuit rest.
LEMMA CircuitElapse ==
  ASSUME NEW b, GoodBreaker(b)
  PROVE  CircuitOf(Elapse(b)) = Contract!Rested(CircuitOf(b))
  BY BreakerAssumption
     DEF CircuitOf, Elapse, CoolingDown, IsOpen, NotOpen, GoodBreaker, BreakerStates, Contract!Rested
-----------------------------------------------------------------------------
\* All circuits of breakers b, as the refinement mapping has them.
Circuits(b) == [k \in Key |-> CircuitOf(b[k])]

\* A step of request r that leaves breakers b and gives one of the verdicts.
GivesOneOf(r, b, verdicts) ==
    /\ breaker' = b
    /\ \E o \in verdicts : req' = [req EXCEPT ![r] = Idle(o)]

\* Changing the breaker of one key changes the circuit of that key.
LEMMA OneCircuit ==
  ASSUME NEW k \in Key, NEW nb, GoodBreakers(breaker)
  PROVE  Circuits([breaker EXCEPT ![k] = nb]) = [Circuits(breaker) EXCEPT ![k] = CircuitOf(nb)]
  BY DEF Circuits, GoodBreakers

\* A step that calls is a call of the contract.
LEMMA CallsMap ==
  ASSUME NEW r \in Request, RequestsInPlace, NEW b, GoodBreakers(b), Calls(r, b)
  PROVE  Circuits(breaker)' = Circuits(b) /\ Contract!CallsNext(r)
<1>1. PICK q : /\ InPlace(q)
               /\ q.pc = "waiting"
               /\ AllowsTraffic(b[KeyOf(q)])
               /\ breaker' = [b EXCEPT ![KeyOf(q)] = Admit(@)]
               /\ req' = [req EXCEPT ![r] = q]
  BY DEF Calls
<1> DEFINE k == KeyOf(q)
<1>2. k \in Key
  BY <1>1, InPlaceKey
<1>3. CircuitOf(Admit(b[k])) = CircuitOf(b[k]) /\ CircuitOf(b[k]).rest = 0
  BY <1>1, <1>2, CircuitAdmit DEF GoodBreakers
<1>4. \A j \in Key : CircuitOf(breaker'[j]) = CircuitOf(b[j])
  BY <1>1, <1>2, <1>3 DEF GoodBreakers
<1>5. Circuits(breaker)' = Circuits(b)
  BY <1>4 DEF Circuits
<1>6. \A s \in Request : req'[s] = IF s = r THEN q ELSE req[s]
  BY <1>1 DEF RequestsInPlace
<1>7. KeysAwaited(q) = {k} /\ VerdictOf(q) = "none"
  BY <1>1 DEF KeysAwaited, VerdictOf
<1>8. /\ [s \in Request |-> KeysAwaited(req[s])]' =
             [[s \in Request |-> KeysAwaited(req[s])] EXCEPT ![r] = {k}]
      /\ [s \in Request |-> VerdictOf(req[s])]' =
             [[s \in Request |-> VerdictOf(req[s])] EXCEPT ![r] = "none"]
  BY <1>6, <1>7
<1>9. [j \in Key |-> CircuitOf(breaker[j])]'[k].rest = 0
  BY <1>2, <1>3, <1>4
<1> QED
  BY <1>2, <1>5, <1>8, <1>9 DEF Contract!CallsNext

\* A step that gives a verdict ends the request of the contract with it.
LEMMA EndsMap ==
  ASSUME NEW r \in Request, RequestsInPlace, NEW b, NEW verdicts,
         GivesOneOf(r, b, verdicts)
  PROVE  Circuits(breaker)' = Circuits(b) /\ Contract!Ends(r, verdicts)
<1>1. PICK o \in verdicts : req' = [req EXCEPT ![r] = Idle(o)]
  BY DEF GivesOneOf
<1>2. Idle(o).pc = "idle" /\ Idle(o).outcome = o
  BY DEF Idle, FreshRequest
<1>3. \A s \in Request : req'[s] = IF s = r THEN Idle(o) ELSE req[s]
  BY <1>1 DEF RequestsInPlace
<1>4. KeysAwaited(Idle(o)) = {} /\ VerdictOf(Idle(o)) = o
  BY <1>2 DEF KeysAwaited, VerdictOf
<1>5. /\ [s \in Request |-> KeysAwaited(req[s])]' =
             [[s \in Request |-> KeysAwaited(req[s])] EXCEPT ![r] = {}]
      /\ [s \in Request |-> VerdictOf(req[s])]' =
             [[s \in Request |-> VerdictOf(req[s])] EXCEPT ![r] = o]
  BY <1>3, <1>4
<1>6. Circuits(breaker)' = Circuits(b)
  BY DEF GivesOneOf, Circuits
<1> QED
  BY <1>1, <1>5, <1>6 DEF Contract!Ends

\* A step of the loop that gives a verdict says that all upstreams failed.
LEMMA LoopVerdict ==
  ASSUME NEW r \in Request, RequestsInPlace, NEW q \in Requests, NEW b,
         MoveOn(r, q, b) \/ RetryOrMoveOn(r, q, b),
         Replies(r, b)
  PROVE  GivesOneOf(r, b, {"all_failed"})
<1>1. req'[r].pc = "idle"
  BY IdleTyped DEF Replies, RequestsInPlace
<1>2. ASSUME NEW c, NEW p, "pc" \in DOMAIN c, Call(r, c, p, b) PROVE FALSE
  <2>1. req'[r].pc = "waiting"
    BY <1>2 DEF Call, RequestsInPlace
  <2> QED
    BY <1>1, <2>1
<1>3. "pc" \in DOMAIN q
  BY DEF Requests
<1>4. \A P, Q : /\ "pc" \in DOMAIN Blocked(q, P)
                /\ "pc" \in DOMAIN [Blocked(q, P) EXCEPT !.left = Q]
  BY <1>3 DEF Blocked
<1>5. ASSUME NEW c, "pc" \in DOMAIN c, MoveOn(r, c, b)
      PROVE  GivesOneOf(r, b, {"all_failed"})
  <2>1. \A P, Q : "pc" \in DOMAIN [Blocked(c, P) EXCEPT !.left = Q]
    BY <1>5 DEF Blocked
  <2> QED
    BY <1>2, <1>5, <2>1 DEF MoveOn, GivesOneOf
<1> QED
  BY <1>2, <1>3, <1>4, <1>5 DEF RetryOrMoveOn

\* The steps of a slot between two requests begin one in the contract.
LEMMA IdleMaps ==
  ASSUME Inv, NEW r \in Request, (\E vm \in VirtualModel : Arrive(r, vm)) \/ UnknownModel(r)
  PROVE  Contract!Begins(r)
<1>1. RequestsInPlace /\ GoodBreakers(breaker)
  BY DEF Inv
<1>2. req[r].pc = "idle" /\ (Calls(r, breaker) \/ Replies(r, breaker))
  BY IdleShape
<1>3. [s \in Request |-> KeysAwaited(req[s])][r] = {}
  BY <1>2 DEF KeysAwaited
<1>4. Calls(r, breaker) \/ GivesOneOf(r, breaker, {"all_failed", "unknown_model"})
  <2>1. CASE UnknownModel(r)
    BY <2>1 DEF UnknownModel, GivesOneOf
  <2>2. ASSUME NEW vm \in VirtualModel, Arrive(r, vm), Replies(r, breaker)
        PROVE  GivesOneOf(r, breaker, {"all_failed"})
    <3>1. FreshRequest(vm) \in Requests
      BY FreshListed DEF Listed
    <3> QED
      BY <1>1, <2>2, <3>1, LoopVerdict DEF Arrive
  <2> QED
    BY <1>2, <2>1, <2>2 DEF GivesOneOf
<1>5. Circuits(breaker)' = Circuits(breaker)
  BY <1>1, <1>4, CallsMap, EndsMap
<1>6. Contract!CallsNext(r) \/ Contract!Ends(r, {"all_failed", "unknown_model"})
  BY <1>1, <1>4, CallsMap, EndsMap
<1> QED
  BY <1>3, <1>5, <1>6 DEF Contract!Begins, Circuits

\* What an answer records is what the contract lets the circuit become.
LEMMA RecordsMap ==
  ASSUME NEW k \in Key, GoodBreakers(breaker), NEW nb,
         Circuits(breaker)' = Circuits([breaker EXCEPT ![k] = nb])
  PROVE  /\ nb = RecordSuccess(breaker[k]) => Contract!Becomes(k, Contract!Closed(0))
         /\ nb = RecordRetryableFailure(breaker[k])
               => Contract!Becomes(k, Contract!AfterFailure(Circuits(breaker)[k]))
         /\ nb = RecordNonRetryable(breaker[k])
               => Contract!Becomes(k, Contract!AfterCallerError(Circuits(breaker)[k]))
<1>1. Circuits(breaker)' = [Circuits(breaker) EXCEPT ![k] = CircuitOf(nb)]
  BY OneCircuit
<1>2. Circuits(breaker)[k] = CircuitOf(breaker[k]) /\ GoodBreaker(breaker[k])
  BY DEF Circuits, GoodBreakers
<1>3. CASE BreakerEnabled
  BY <1>1, <1>2, <1>3, CircuitRecord DEF Contract!Becomes, Circuits
<1>4. CASE ~BreakerEnabled
  <2>1. nb \in {RecordSuccess(breaker[k]), RecordRetryableFailure(breaker[k]),
                RecordNonRetryable(breaker[k])} => nb = breaker[k]
    BY <1>4, DisabledUnchanged
  <2>2. nb = breaker[k] => Circuits(breaker)' = Circuits(breaker)
    BY <1>1, <1>2 DEF Circuits
  <2> QED
    BY <1>4, <2>1, <2>2 DEF Contract!Becomes, Circuits
<1> QED
  BY <1>3, <1>4

\* Every answer ends the call in the contract too.
LEMMA AnswerMaps ==
  ASSUME Inv, NEW r \in Request, Answer(r)
  PROVE  \E k \in Key : KeysAwaited(req[r]) = {k} /\ Contract!Returns(r, k)
<1> DEFINE q == req[r]
           k == KeyOf(q)
<1>1. RequestsInPlace /\ GoodBreakers(breaker)
  BY DEF Inv
<1>2. q.pc = "waiting" /\ InPlace(q)
  BY <1>1, AnswerShape DEF RequestsInPlace, GoodBreakers
<1>3. k \in Key /\ KeysAwaited(q) = {k} /\ GoodBreaker(breaker[k])
  BY <1>1, <1>2, InPlaceKey DEF KeysAwaited, GoodBreakers
<1>4. ASSUME NEW nb, GoodBreaker(nb)
      PROVE  GoodBreakers([breaker EXCEPT ![k] = nb])
  BY <1>1, <1>3, <1>4 DEF GoodBreakers, GoodBreaker
<1>5. CASE Succeed(r)
  <2> DEFINE b == [breaker EXCEPT ![k] = RecordSuccess(@)]
  <2>1. GivesOneOf(r, b, {"success"})
    BY <1>5 DEF Succeed, Finish, GivesOneOf, Breakers
  <2>2. Circuits(breaker)' = Circuits(b) /\ Contract!Ends(r, {"success"})
    BY <1>1, <2>1, EndsMap
  <2>3. Contract!Becomes(k, Contract!Closed(0))
    BY <1>1, <1>3, <2>2, RecordsMap
  <2> QED
    BY <1>3, <2>2, <2>3 DEF Contract!Returns, Contract!AnsweredOk
<1>6. ASSUME NEW verdicts,
             LET b == [breaker EXCEPT ![k] = RecordRetryableFailure(@)] IN
             Calls(r, b) \/ GivesOneOf(r, b, verdicts),
             verdicts \subseteq {"all_failed", "timeout_failover_disabled",
                                 "connection_failover_disabled"}
      PROVE  Contract!FailsOver(r, k)
  <2> DEFINE b == [breaker EXCEPT ![k] = RecordRetryableFailure(@)]
  <2>1. GoodBreakers(b)
    BY <1>3, <1>4, RecordGood
  <2>2. /\ Circuits(breaker)' = Circuits(b)
        /\ Contract!CallsNext(r) \/ Contract!Ends(r, verdicts)
    BY <1>1, <1>6, <2>1, CallsMap, EndsMap
  <2>3. Contract!Becomes(k, Contract!AfterFailure(Circuits(breaker)[k]))
    BY <1>1, <1>3, <2>2, RecordsMap
  <2>4. Contract!Ends(r, verdicts) =>
          Contract!Ends(r, {"all_failed", "timeout_failover_disabled",
                            "connection_failover_disabled"})
    BY <1>6 DEF Contract!Ends
  <2> QED
    BY <2>2, <2>3, <2>4 DEF Contract!FailsOver, Circuits
<1>7. ASSUME NEW b, RetryOrMoveOn(r, Failed(q), b)
      PROVE  Calls(r, b) \/ GivesOneOf(r, b, {"all_failed"})
  <2>1. /\ Listed(Failed(q))
        /\ Failed(q).at \in DOMAIN Pool[Failed(q).vm]
        /\ Failed(q).at \notin Failed(q).left \cup Failed(q).blocked
    BY <1>2, FailedListed
  <2>2. Calls(r, b) \/ Replies(r, b)
    BY <1>7, <2>1, RetryShape
  <2>3. Failed(q) \in Requests
    BY <2>1 DEF Listed
  <2> QED
    BY <1>1, <1>7, <2>2, <2>3, LoopVerdict
<1>8. CASE \E s \in Status : HttpError(r, s)
  <2>1. CASE RetryOrMoveOn(r, Failed(q), [breaker EXCEPT ![k] = RecordRetryableFailure(@)])
    <3>1. Contract!FailsOver(r, k)
      BY <1>6, <1>7, <2>1
    <3> QED
      BY <1>3, <3>1 DEF Contract!Returns
  <2>2. CASE Finish(r, "http_error", [breaker EXCEPT ![k] = RecordNonRetryable(@)])
    <3> DEFINE b == [breaker EXCEPT ![k] = RecordNonRetryable(@)]
    <3>1. GivesOneOf(r, b, {"http_error"})
      BY <2>2 DEF Finish, GivesOneOf
    <3>2. Circuits(breaker)' = Circuits(b) /\ Contract!Ends(r, {"http_error"})
      BY <1>1, <3>1, EndsMap
    <3>3. Contract!Becomes(k, Contract!AfterCallerError(Circuits(breaker)[k]))
      BY <1>1, <1>3, <3>2, RecordsMap
    <3> QED
      BY <1>3, <3>2, <3>3 DEF Contract!Returns, Contract!AnsweredCallerError, Circuits
  <2> QED
    BY <1>8, <2>1, <2>2 DEF HttpError, Breakers
<1>9. ASSUME NEW go, NEW verdict \in {"timeout_failover_disabled", "connection_failover_disabled"},
             TransportFailure(r, go, verdict)
      PROVE  Contract!FailsOver(r, k)
  <2>1. CASE RetryOrMoveOn(r, Failed(q), [breaker EXCEPT ![k] = RecordRetryableFailure(@)])
    BY <1>6, <1>7, <2>1
  <2>2. CASE Finish(r, verdict, [breaker EXCEPT ![k] = RecordRetryableFailure(@)])
    <3>1. GivesOneOf(r, [breaker EXCEPT ![k] = RecordRetryableFailure(@)], {verdict})
      BY <2>2 DEF Finish, GivesOneOf
    <3> QED
      BY <1>6, <3>1
  <2> QED
    BY <1>9, <2>1, <2>2 DEF TransportFailure, Breakers
<1>10. CASE Timeout(r) \/ ConnectionError(r)
  <2>1. Contract!FailsOver(r, k)
    BY <1>9, <1>10 DEF Timeout, ConnectionError
  <2> QED
    BY <1>3, <2>1 DEF Contract!Returns
<1>11. CASE TornErrorBody(r) \/ UndecodableBody(r)
  <2>1. GivesOneOf(r, breaker, {"raised"})
    BY <1>11 DEF TornErrorBody, UndecodableBody, Finish, GivesOneOf
  <2>2. Circuits(breaker)' = Circuits(breaker) /\ Contract!Ends(r, {"raised"})
    BY <1>1, <2>1, EndsMap
  <2> QED
    BY <1>3, <2>2 DEF Contract!Returns, Contract!Breaks, Circuits
<1> QED
  BY <1>5, <1>8, <1>10, <1>11 DEF Answer

\* Every step of the router is a step of the contract or leaves it alone.
LEMMA StepMaps == Inv /\ [Next]_vars => [Contract!ContractNext]_(Contract!contractVars)
<1> SUFFICES ASSUME Inv, [Next]_vars
             PROVE  [Contract!ContractNext]_(Contract!contractVars)
  OBVIOUS
<1>1. ASSUME NEW r \in Request, (\E vm \in VirtualModel : Arrive(r, vm)) \/ UnknownModel(r)
      PROVE  Contract!ContractNext
  BY <1>1, IdleMaps DEF Contract!ContractNext
<1>2. ASSUME NEW r \in Request, Answer(r)
      PROVE  Contract!ContractNext
  BY <1>2, AnswerMaps DEF Contract!ContractNext
<1>3. CASE Tick
  <2>1. \A k \in Key : CircuitOf(breaker'[k]) = Contract!Rested(CircuitOf(breaker[k]))
    BY <1>3, CircuitElapse DEF Tick, Inv, GoodBreakers
  <2>2. Contract!Rests
    BY <1>3, <2>1 DEF Tick, Contract!Rests
  <2> QED
    BY <2>2 DEF Contract!ContractNext
<1>4. CASE UNCHANGED vars
  BY <1>4 DEF vars, Contract!contractVars
<1> QED
  BY <1>1, <1>2, <1>3, <1>4 DEF Next

\* For every pool, policy and number of requests, the router keeps the promises
\* that the documents make of its circuit breakers.
THEOREM ContractKept == Spec => KeepsContract
<1>1. Init => Contract!ContractInit
  <2> SUFFICES ASSUME Init PROVE Contract!ContractInit
    OBVIOUS
  <2>1. \A k \in Key : CircuitOf(breaker[k]) = Contract!Closed(0)
    BY CircuitInitial DEF Init
  <2>2. Idle("none").pc = "idle" /\ Idle("none").outcome = "none"
    BY DEF Idle, FreshRequest
  <2>3. \A r \in Request : KeysAwaited(req[r]) = {} /\ VerdictOf(req[r]) = "none"
    BY <2>2 DEF Init, KeysAwaited, VerdictOf
  <2> QED
    BY <2>1, <2>3 DEF Contract!ContractInit
<1> QED
  BY <1>1, StepMaps, InvHolds, PTL DEF Spec, KeepsContract, Contract!ContractSpec
=============================================================================
