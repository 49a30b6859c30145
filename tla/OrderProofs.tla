----------------------------- MODULE OrderProofs -----------------------------
(***************************************************************************)
(* Proofs about the order in which the failover loop of Router.tla goes    *)
(* through a pool, for every pool: whatever the breakers do meanwhile, it  *)
(* respects the priorities and passes over nothing that is open to it.     *)
(***************************************************************************)
EXTENDS RouterProofs

\* A request between two upstreams: nothing on its list comes before what it
\* has tried, and what is off the list has had its turn.
Walks(q) ==
    /\ Listed(q)
    /\ \A p \in DOMAIN Pool[q.vm] : \A o \in q.left : q.failed[p] > 0 => ~Before(q.vm, o, p)
    /\ \A p \in DOMAIN Pool[q.vm] \ q.left :
           Uniform(q.vm, p) => q.failed[p] = MaxAttempts \/ p \in q.blocked

\* A request that waits for an upstream.
Waits(q) ==
    /\ InPlace(q)
    /\ \A p \in DOMAIN Pool[q.vm] :
           q.failed[p] > 0 => /\ ~Before(q.vm, q.at, p)
                              /\ \A o \in q.left : ~Before(q.vm, o, p)
    /\ \A p \in q.left : ~Before(q.vm, p, q.at)
    /\ \A p \in DOMAIN Pool[q.vm] \ (q.left \cup {q.at}) :
           Uniform(q.vm, p) => q.failed[p] = MaxAttempts \/ p \in q.blocked

\* A slot of breakers b that refuses calls.
Refuses(b, vm, p) == ~AllowsTraffic(b[KeyAt(vm, p)])

InOrder == \A r \in Request : req[r].pc = "waiting" => Waits(req[r])

\* r ends up waiting for an upstream or with a verdict, b being the breakers
\* after what it has recorded; what it gives up of P refuses calls.
Proceeds(r, vm, b, P) ==
    \/ \E q : /\ Waits(q)
              /\ q.pc = "waiting" /\ q.vm = vm
              /\ req' = [req EXCEPT ![r] = q]
              /\ \A p \in P \ (q.left \cup {q.at}) : Refuses(breaker', vm, p)
    \/ /\ req' = [req EXCEPT ![r] = Idle("all_failed")]
       /\ \A p \in P : Refuses(breaker', vm, p)

\* A request starts out with its whole pool ahead of it.
LEMMA FreshWalks ==
  ASSUME NEW vm \in VirtualModel
  PROVE  Walks(FreshRequest(vm)) /\ FreshRequest(vm).vm = vm /\ FreshRequest(vm).left = DOMAIN Pool[vm]
<1>1. Listed(FreshRequest(vm)) /\ FreshRequest(vm).vm = vm
  BY FreshListed
<1>2. /\ FreshRequest(vm).left = DOMAIN Pool[vm]
      /\ \A p \in DOMAIN Pool[vm] : FreshRequest(vm).failed[p] = 0
  BY DEF FreshRequest, Position
<1> QED
  BY <1>1, <1>2 DEF Walks

\* A request that moves on calls an upstream before which nothing on its list
\* comes, and passes over upstreams that refuse calls.
LEMMA MoveOnInOrder ==
  ASSUME NEW r \in Request, NEW q, NEW b, Walks(q), MoveOn(r, q, b),
         b \in [Key -> BreakerStates],
         NEW P, P \subseteq DOMAIN Pool[q.vm], \A p \in P \ q.left : Refuses(b, q.vm, p)
  PROVE  Proceeds(r, q.vm, b, P)
<1>1. /\ q \in Requests /\ q.vm \in VirtualModel /\ q.left \subseteq DOMAIN Pool[q.vm]
      /\ DOMAIN Pool[q.vm] \subseteq Position /\ q.blocked \subseteq Position
  BY DEF Walks, Listed, Requests, Position
<1>2. CASE Ready(q, b) = {} /\ breaker' = b /\ req' = [req EXCEPT ![r] = Idle("all_failed")]
  <2>1. \A p \in q.left : Refuses(b, q.vm, p)
    BY <1>2 DEF Ready, Refuses
  <2>2. \A p \in P : Refuses(breaker', q.vm, p)
    BY <1>2, <2>1
  <2> QED
    BY <1>2, <2>2 DEF Proceeds
<1>3. ASSUME NEW p \in Candidates(q, b),
             Call(r, [Blocked(q, Reported(q, TakenOff(q, p) \ {p}))
                         EXCEPT !.left = @ \ TakenOff(q, p)], p, b)
      PROVE  Proceeds(r, q.vm, b, P)
  <2> DEFINE passed == TakenOff(q, p) \ {p}
             k      == KeyAt(q.vm, p)
             called == [Blocked(q, Reported(q, passed)) EXCEPT !.left = @ \ TakenOff(q, p)]
             n      == [called EXCEPT !.pc = "waiting",
                                      !.at = p,
                                      !.trial = Admit(b[k]) # b[k]]
  <2>1. /\ p \in q.left /\ AllowsTraffic(b[k])
        /\ \A o \in q.left : Before(q.vm, o, p) => Refuses(b, q.vm, o)
    BY DEF Candidates, Ready, Refuses
  <2>2. Reported(q, passed) \subseteq q.left \ {p}
    BY DEF Reported, TakenOff
  <2>3. /\ called \in Requests
        /\ called.vm = q.vm
        /\ called.failed = q.failed
        /\ called.left = q.left \ TakenOff(q, p)
        /\ called.blocked = q.blocked \cup Reported(q, passed)
    BY <1>1, <2>2 DEF Blocked, Requests
  <2>4. /\ n \in Requests
        /\ n.vm = q.vm
        /\ n.failed = q.failed
        /\ n.left = q.left \ TakenOff(q, p)
        /\ n.blocked = q.blocked \cup Reported(q, passed)
        /\ n.at = p
        /\ n.pc = "waiting"
    BY <1>1, <2>1, <2>3 DEF Requests
  <2>5. breaker' = [b EXCEPT ![k] = Admit(@)] /\ req' = [req EXCEPT ![r] = n]
    BY <1>3, <2>3 DEF Call
  <2> HIDE DEF n, called
  <2>6. InPlace(n)
    <3>1. \A o \in n.left : o \in q.left /\ o \notin Reported(q, passed)
      BY <2>4 DEF Reported
    <3>2. /\ q.failed[p] = 0 /\ p \notin q.blocked
          /\ \A o \in n.left : q.failed[o] = 0 /\ o \notin q.blocked
      BY <2>1, <3>1 DEF Walks, Listed
    <3>3. p \notin n.left /\ 0 < MaxAttempts
      BY <2>4, RouterAssumption DEF TakenOff
    <3> QED
      BY <1>1, <2>1, <2>2, <2>4, <3>1, <3>2, <3>3 DEF InPlace, Listed
  <2>7. \A o \in DOMAIN Pool[n.vm] :
            n.failed[o] > 0 => /\ ~Before(n.vm, n.at, o)
                               /\ \A l \in n.left : ~Before(n.vm, l, o)
    BY <2>1, <2>4 DEF Walks
  <2>8. \A o \in n.left : ~Before(n.vm, o, n.at)
    BY <2>4 DEF TakenOff
  <2>9. ASSUME NEW o \in DOMAIN Pool[n.vm] \ (n.left \cup {n.at}), Uniform(n.vm, o)
        PROVE  n.failed[o] = MaxAttempts \/ o \in n.blocked
    <3>1. CASE o \in q.left
      <4>1. o \in passed
        BY <2>4, <2>9, <3>1
      <4> QED
        BY <2>4, <2>9, <4>1 DEF Reported
    <3>2. CASE o \notin q.left
      BY <2>4, <2>9, <3>2 DEF Walks
    <3> QED
      BY <3>1, <3>2
  <2>10. Waits(n)
    BY <2>6, <2>7, <2>8, <2>9 DEF Waits
  <2>11. ASSUME NEW o \in P \ (n.left \cup {n.at}) PROVE Refuses(breaker', q.vm, o)
    <3>1. Refuses(b, q.vm, o)
      <4>1. CASE o \in q.left
        BY <2>1, <2>4, <2>11, <4>1 DEF TakenOff
      <4> QED
        BY <2>11, <4>1
    <3>2. KeyAt(q.vm, o) # k
      BY <2>1, <3>1 DEF Refuses
    <3>3. breaker'[KeyAt(q.vm, o)] = b[KeyAt(q.vm, o)]
      BY <1>1, <2>5, <2>11, <3>2, KeyAtTyped
    <3> QED
      BY <3>1, <3>3 DEF Refuses
  <2> QED
    BY <2>4, <2>5, <2>10, <2>11 DEF Proceeds
<1> QED
  BY <1>2, <1>3 DEF MoveOn
\* No upstream comes before itself.
LEMMA NotBeforeItself ==
  ASSUME NEW vm \in VirtualModel, NEW p \in DOMAIN Pool[vm]
  PROVE  ~Before(vm, p, p)
<1>1. Pool[vm] \in Seq([key : Key, priority : Nat \ {0}, weight : Nat \ {0}])
  BY RouterAssumption
<1>2. p \in 1 .. Len(Pool[vm])
  BY <1>1, LenProperties
<1>3. Pool[vm][p] \in [key : Key, priority : Nat \ {0}, weight : Nat \ {0}]
  BY <1>1, <1>2, ElementOfSeq
<1>4. p \in Nat /\ PriorityAt(vm, p) \in Nat
  BY <1>2, <1>3 DEF PriorityAt
<1> QED
  BY <1>4 DEF Before

\* A request whose call fails calls again or moves on in order.
LEMMA RetryInOrder ==
  ASSUME NEW r \in Request, NEW q, NEW b, Waits(q), RetryOrMoveOn(r, Failed(q), b),
         b \in [Key -> BreakerStates]
  PROVE  Proceeds(r, q.vm, b, Unspent(q))
<1> DEFINE f == Failed(q)
<1>1. /\ InPlace(q)
      /\ q \in Requests /\ q.vm \in VirtualModel
      /\ q.at \in DOMAIN Pool[q.vm] /\ q.left \subseteq DOMAIN Pool[q.vm]
      /\ DOMAIN Pool[q.vm] \subseteq Position
      /\ q.failed \in [Position -> 0 .. MaxAttempts]
  BY DEF Waits, InPlace, Listed, Requests, Position
<1>2. /\ Listed(f) /\ f \in Requests
      /\ f.at \notin f.left \cup f.blocked
  BY <1>1, FailedListed DEF Listed
<1>3. /\ f.vm = q.vm /\ f.at = q.at /\ f.left = q.left /\ f.blocked = q.blocked
      /\ f.failed = [q.failed EXCEPT ![q.at] = @ + 1]
  BY <1>1 DEF Failed, Requests
<1>4. /\ f.failed[q.at] = q.failed[q.at] + 1
      /\ \A p \in DOMAIN Pool[q.vm] : p # q.at => f.failed[p] = q.failed[p]
      /\ KeyOf(f) = KeyAt(q.vm, q.at)
  BY <1>1, <1>3 DEF KeyOf
<1>5. Unspent(q) \subseteq DOMAIN Pool[q.vm]
  BY <1>1 DEF Unspent
<1>6. \A p \in DOMAIN Pool[q.vm] : f.failed[p] > 0 =>
          /\ ~Before(q.vm, q.at, p)
          /\ \A o \in q.left : ~Before(q.vm, o, p)
  BY <1>1, <1>4, NotBeforeItself DEF Waits
<1> HIDE DEF f
<1>7. CASE f.failed[f.at] < MaxAttempts /\ AllowsTraffic(b[KeyOf(f)]) /\ Call(r, f, f.at, b)
  <2> DEFINE t == Admit(b[KeyOf(f)]) # b[KeyOf(f)]
             n == [f EXCEPT !.pc = "waiting", !.at = f.at, !.trial = t]
  <2>1. /\ n \in Requests
        /\ n.vm = q.vm /\ n.at = q.at /\ n.left = q.left /\ n.blocked = q.blocked
        /\ n.failed = f.failed
        /\ n.pc = "waiting"
    BY <1>2, <1>3 DEF Requests
  <2>2. req' = [req EXCEPT ![r] = n]
    BY <1>7 DEF Call, KeyOf
  <2> HIDE DEF n
  <2>3. InPlace(n)
    BY <1>1, <1>2, <1>3, <1>7, <2>1 DEF InPlace, Listed
  <2>4. Waits(n)
    BY <1>4, <1>6, <2>1, <2>3 DEF Waits
  <2>5. Unspent(q) \ (n.left \cup {n.at}) = {}
    BY <2>1 DEF Unspent
  <2> QED
    BY <2>1, <2>2, <2>4, <2>5 DEF Proceeds
<1>8. CASE f.failed[f.at] < MaxAttempts /\ ~AllowsTraffic(b[KeyOf(f)])
           /\ MoveOn(r, Blocked(f, {f.at}), b)
  <2> DEFINE n == Blocked(f, {f.at})
  <2>1. /\ n \in Requests
        /\ n.vm = q.vm /\ n.left = q.left /\ n.blocked = q.blocked \cup {q.at}
        /\ n.failed = f.failed
    BY <1>1, <1>2, <1>3 DEF Blocked, Requests
  <2>2. MoveOn(r, n, b)
    BY <1>8
  <2> HIDE DEF n
  <2>3. Listed(n)
    BY <1>2, <1>3, <2>1 DEF Listed
  <2>4. Walks(n)
    BY <1>4, <1>6, <2>1, <2>3 DEF Waits, Walks
  <2>5. \A p \in Unspent(q) \ n.left : Refuses(b, q.vm, p)
    BY <1>4, <1>8, <2>1 DEF Unspent, Refuses
  <2> QED
    BY <1>5, <2>1, <2>2, <2>4, <2>5, MoveOnInOrder
<1>9. CASE f.failed[f.at] = MaxAttempts /\ MoveOn(r, f, b)
  <2>1. Walks(f)
    BY <1>2, <1>3, <1>4, <1>6, <1>9 DEF Waits, Walks
  <2>2. Unspent(q) \ f.left = {}
    BY <1>3, <1>4, <1>9, RouterAssumption DEF Unspent
  <2> QED
    BY <1>3, <1>5, <1>9, <2>1, <2>2, MoveOnInOrder
<1> QED
  BY <1>7, <1>8, <1>9 DEF RetryOrMoveOn, f
-----------------------------------------------------------------------------
\* Every step of a request: it proceeds through its pool, or it replies with a
\* verdict other than "all_failed".
Verdict(r) ==
    \E o \in Outcomes \ {"all_failed"} : req' = [req EXCEPT ![r] = Idle(o)]

\* What an answer records changes breakers into breakers.
LEMMA BreakersTyped ==
  ASSUME Inv, NEW r \in Request, InPlace(req[r])
  PROVE  /\ Breakers(KeyOf(req[r]), RecordSuccess) \in [Key -> BreakerStates]
         /\ Breakers(KeyOf(req[r]), RecordRetryableFailure) \in [Key -> BreakerStates]
<1>1. KeyOf(req[r]) \in Key
  BY InPlaceKey
<1>2. breaker \in [Key -> BreakerStates] /\ GoodBreaker(breaker[KeyOf(req[r])])
  BY <1>1 DEF Inv, GoodBreakers
<1>3. /\ RecordSuccess(breaker[KeyOf(req[r])]) \in BreakerStates
      /\ RecordRetryableFailure(breaker[KeyOf(req[r])]) \in BreakerStates
  BY <1>2, RecordGood DEF GoodBreaker
<1> QED
  BY <1>1, <1>2, <1>3 DEF Breakers

\* A step of a waiting request.
LEMMA AnswerInOrder ==
  ASSUME Inv, NEW r \in Request, InOrder, Answer(r)
  PROVE  /\ req[r].pc = "waiting"
         /\ Waits(req[r])
         /\ \/ \E b : Proceeds(r, req[r].vm, b, Unspent(req[r]))
            \/ Verdict(r)
<1>1. req[r].pc = "waiting"
  BY DEF Answer, Succeed, HttpError, Timeout, ConnectionError, TransportFailure,
         TornErrorBody, UndecodableBody
<1>2. Waits(req[r]) /\ InPlace(req[r])
  BY <1>1 DEF InOrder, Waits
<1> DEFINE b == Breakers(KeyOf(req[r]), RecordRetryableFailure)
<1>3. b \in [Key -> BreakerStates]
  BY <1>2, BreakersTyped
<1>4. CASE RetryOrMoveOn(r, Failed(req[r]), b)
  BY <1>1, <1>2, <1>3, <1>4, RetryInOrder
<1>5. CASE \E o \in Outcomes \ {"all_failed"} : \E a : Finish(r, o, a)
  BY <1>1, <1>2, <1>5 DEF Finish, Verdict
<1>6. RetryOrMoveOn(r, Failed(req[r]), b) \/ \E o \in Outcomes \ {"all_failed"} : \E a : Finish(r, o, a)
  <2>1. CASE Succeed(r)
    BY <2>1 DEF Succeed, Outcomes
  <2>2. CASE \E s \in Status : HttpError(r, s)
    BY <2>2 DEF HttpError, Outcomes
  <2>3. CASE Timeout(r)
    BY <2>3 DEF Timeout, TransportFailure, Outcomes
  <2>4. CASE ConnectionError(r)
    BY <2>4 DEF ConnectionError, TransportFailure, Outcomes
  <2>5. CASE TornErrorBody(r)
    BY <2>5 DEF TornErrorBody, Outcomes
  <2>6. CASE UndecodableBody(r)
    BY <2>6 DEF UndecodableBody, Outcomes
  <2> QED
    BY <2>1, <2>2, <2>3, <2>4, <2>5, <2>6 DEF Answer
<1> QED
  BY <1>4, <1>5, <1>6

\* A step of a request slot that waits for nothing.
LEMMA IdleInOrder ==
  ASSUME Inv, NEW r \in Request,
         (\E vm \in VirtualModel : Arrive(r, vm)) \/ UnknownModel(r)
  PROVE  /\ req[r].pc = "idle"
         /\ \/ \E vm \in VirtualModel : \E b : Proceeds(r, vm, b, DOMAIN Pool[vm])
            \/ Verdict(r)
<1>1. ASSUME NEW vm \in VirtualModel, Arrive(r, vm)
      PROVE  req[r].pc = "idle" /\ Proceeds(r, vm, breaker, DOMAIN Pool[vm])
  <2>1. MoveOn(r, FreshRequest(vm), breaker)
    BY <1>1 DEF Arrive
  <2>2. breaker \in [Key -> BreakerStates]
    BY DEF Inv, GoodBreakers
  <2>3. /\ Walks(FreshRequest(vm)) /\ FreshRequest(vm).vm = vm
        /\ FreshRequest(vm).left = DOMAIN Pool[vm]
    BY FreshWalks
  <2>4. Proceeds(r, vm, breaker, DOMAIN Pool[vm])
    BY <2>1, <2>2, <2>3, MoveOnInOrder
  <2> QED
    BY <1>1, <2>4 DEF Arrive
<1>2. CASE UnknownModel(r)
  BY <1>2 DEF UnknownModel, Verdict, Outcomes
<1> QED
  BY <1>1, <1>2
-----------------------------------------------------------------------------
\* No request waits at the start,
LEMMA InOrderInit == Init => InOrder
  BY IdleTyped DEF Init, InOrder, Outcomes

\* and every step leaves the waiting requests in order.
LEMMA InOrderNext == Inv /\ InOrder /\ [Next]_vars => InOrder'
<1> SUFFICES ASSUME Inv, InOrder, [Next]_vars PROVE InOrder'
  OBVIOUS
<1>1. req \in [Request -> Requests]
  BY DEF Inv, RequestsInPlace
<1>2. ASSUME NEW r \in Request, NEW vm, NEW b, NEW P, Proceeds(r, vm, b, P)
      PROVE  InOrder'
  <2>1. \E q : req' = [req EXCEPT ![r] = q] /\ (q.pc = "waiting" => Waits(q))
    BY <1>2, IdleTyped DEF Proceeds, Outcomes
  <2> QED
    BY <1>1, <2>1 DEF InOrder, Waits, InPlace, Listed
<1>3. ASSUME NEW r \in Request, Verdict(r)
      PROVE  InOrder'
  BY <1>1, <1>3, IdleTyped DEF Verdict, InOrder, Waits, InPlace, Listed
<1>4. CASE UNCHANGED req
  BY <1>4 DEF InOrder, Waits, InPlace, Listed
<1>5. CASE \E r \in Request : (\E vm \in VirtualModel : Arrive(r, vm)) \/ UnknownModel(r)
  BY <1>2, <1>3, <1>5, IdleInOrder
<1>6. CASE \E r \in Request : Answer(r)
  BY <1>2, <1>3, <1>6, AnswerInOrder
<1> QED
  BY <1>4, <1>5, <1>6 DEF Next, Tick, vars

\* The upstreams a request has tried, the one it waits for and those ahead of it
\* are in order of priority, whatever other requests do to the breakers.
THEOREM PriorityIsRespected == Spec => []PriorityRespected
<1>1. InOrder => PriorityRespected
  BY DEF InOrder, Waits, PriorityRespected
<1> QED
  BY <1>1, InOrderInit, InOrderNext, InvHolds, PTL DEF Spec

\* No step makes a request give up an upstream that is open to it.
LEMMA PassesNext ==
  Inv /\ InOrder /\ [Next]_vars => [\A r \in Request : PassesBlockedOnly(r)]_vars
<1> SUFFICES ASSUME Inv, InOrder, Next, NEW s \in Request PROVE PassesBlockedOnly(s)
  OBVIOUS
<1>1. req \in [Request -> Requests]
  BY DEF Inv, RequestsInPlace
<1>2. CASE req'[s] = req[s]
  BY <1>2 DEF PassesBlockedOnly, Refuses
<1>3. ASSUME NEW r \in Request, r # s, NEW q, req' = [req EXCEPT ![r] = q]
      PROVE  PassesBlockedOnly(s)
  BY <1>1, <1>2, <1>3
<1>4. ASSUME Verdict(s)
      PROVE  PassesBlockedOnly(s)
  <2>1. PICK o \in Outcomes \ {"all_failed"} : req' = [req EXCEPT ![s] = Idle(o)]
    BY <1>4 DEF Verdict
  <2>2. req'[s] = Idle(o) /\ Idle(o).pc = "idle" /\ Idle(o).outcome = o
    BY <1>1, <2>1, IdleTyped DEF Idle, FreshRequest
  <2> QED
    BY <2>2 DEF PassesBlockedOnly, Refuses
<1>5. ASSUME req[s].pc = "waiting", NEW b, Proceeds(s, req[s].vm, b, Unspent(req[s]))
      PROVE  PassesBlockedOnly(s)
  <2>1. CASE \E q : /\ q.pc = "waiting"
                    /\ req' = [req EXCEPT ![s] = q]
                    /\ \A p \in Unspent(req[s]) \ (q.left \cup {q.at}) :
                           Refuses(breaker', req[s].vm, p)
    <3>1. PICK q : /\ q.pc = "waiting"
                   /\ req' = [req EXCEPT ![s] = q]
                   /\ \A p \in Unspent(req[s]) \ (q.left \cup {q.at}) :
                          Refuses(breaker', req[s].vm, p)
      BY <2>1
    <3>2. req'[s] = q
      BY <1>1, <3>1
    <3>3. \A p \in Unspent(req[s]) \ (req'[s].left \cup {req'[s].at}) :
              Refuses(breaker', req[s].vm, p)
      BY <3>1, <3>2
    <3>4. req[s].pc = "waiting" /\ req'[s].pc = "waiting"
      BY <1>5, <3>1, <3>2
    <3> QED
      BY <3>3, <3>4 DEF PassesBlockedOnly, Refuses
  <2>2. CASE /\ req' = [req EXCEPT ![s] = Idle("all_failed")]
             /\ \A p \in Unspent(req[s]) : Refuses(breaker', req[s].vm, p)
    <3>1. req'[s].pc = "idle"
      BY <1>1, <2>2, IdleTyped DEF Outcomes
    <3> QED
      BY <1>5, <2>2, <3>1 DEF PassesBlockedOnly, Refuses
  <2> QED
    BY <1>5, <2>1, <2>2 DEF Proceeds
<1>6. ASSUME req[s].pc = "idle", NEW vm, NEW b, Proceeds(s, vm, b, DOMAIN Pool[vm])
      PROVE  PassesBlockedOnly(s)
  <2>1. CASE \E q : /\ q.pc = "waiting" /\ q.vm = vm
                    /\ req' = [req EXCEPT ![s] = q]
                    /\ \A p \in DOMAIN Pool[vm] \ (q.left \cup {q.at}) : Refuses(breaker', vm, p)
    BY <1>1, <1>6, <2>1 DEF PassesBlockedOnly, Refuses
  <2>2. CASE req' = [req EXCEPT ![s] = Idle("all_failed")]
    <3>1. req'[s].pc = "idle"
      BY <1>1, <2>2, IdleTyped DEF Outcomes
    <3> QED
      BY <1>6, <3>1 DEF PassesBlockedOnly, Refuses
  <2> QED
    BY <1>6, <2>1, <2>2 DEF Proceeds
<1>7. ASSUME NEW r \in Request, r # s, NEW vm, NEW b, NEW P,
             Proceeds(r, vm, b, P) \/ Verdict(r)
      PROVE  PassesBlockedOnly(s)
  <2>1. \E q : req' = [req EXCEPT ![r] = q]
    BY <1>7 DEF Proceeds, Verdict
  <2> QED
    BY <1>3, <1>7, <2>1
<1>8. CASE \E r \in Request : (\E vm \in VirtualModel : Arrive(r, vm)) \/ UnknownModel(r)
  BY <1>4, <1>6, <1>7, <1>8, IdleInOrder
<1>9. CASE \E r \in Request : Answer(r)
  BY <1>4, <1>5, <1>7, <1>9, AnswerInOrder
<1>10. CASE Tick
  BY <1>2, <1>10 DEF Tick
<1> QED
  BY <1>8, <1>9, <1>10 DEF Next

\* A step takes a request past an upstream with attempts left only if that
\* upstream's breaker refuses calls at that moment.
THEOREM NothingIsPassedOver == Spec => NothingPassedOver
  BY PassesNext, InOrderInit, InOrderNext, InvHolds, PTL DEF Spec, NothingPassedOver
-----------------------------------------------------------------------------
\* How many calls a request still makes.

\* A pool is finite, and what is taken off a list makes it shorter.
LEMMA ListSize ==
  ASSUME NEW vm \in VirtualModel, NEW L, L \subseteq DOMAIN Pool[vm]
  PROVE  /\ IsFiniteSet(L) /\ Cardinality(L) \in Nat
         /\ \A M : M \subseteq L /\ M # L => Cardinality(M) \in Nat /\ Cardinality(M) + 1 <= Cardinality(L)
<1>1. Pool[vm] \in Seq([key : Key, priority : Nat \ {0}, weight : Nat \ {0}])
  BY RouterAssumption
<1>2. DOMAIN Pool[vm] = 1 .. Len(Pool[vm]) /\ Len(Pool[vm]) \in Nat
  BY <1>1, LenProperties
<1>3. IsFiniteSet(DOMAIN Pool[vm])
  BY <1>2, FS_Interval
<1>4. IsFiniteSet(L) /\ Cardinality(L) \in Nat
  BY <1>3, FS_Subset, FS_CardinalityType
<1>5. ASSUME NEW M, M \subseteq L, M # L
      PROVE  Cardinality(M) \in Nat /\ Cardinality(M) + 1 <= Cardinality(L)
  <2>1. Cardinality(M) \in Nat /\ Cardinality(M) < Cardinality(L)
    BY <1>4, <1>5, FS_Subset, FS_CardinalityType
  <2> QED
    BY <1>4, <2>1
<1> QED
  BY <1>4, <1>5

\* One upstream fewer is MaxAttempts calls fewer.
LEMMA FewerCalls ==
  ASSUME NEW c \in Nat, NEW d \in Nat, c + 1 <= d
  PROVE  /\ c * MaxAttempts \in Nat /\ d * MaxAttempts \in Nat
         /\ c * MaxAttempts + MaxAttempts <= d * MaxAttempts
<1>1. MaxAttempts \in Nat
  BY RouterAssumption
<1>2. PICK e \in Nat : d = c + 1 + e
  <2>1. d - (c + 1) \in Nat /\ d = c + 1 + (d - (c + 1))
    OBVIOUS
  <2> QED
    BY <2>1
<1>3. e * MaxAttempts \in Nat /\ c * MaxAttempts \in Nat /\ d * MaxAttempts \in Nat
  BY <1>1
<1>4. d * MaxAttempts = c * MaxAttempts + MaxAttempts + e * MaxAttempts
  BY <1>1, <1>2
<1> QED
  BY <1>1, <1>3, <1>4

\* r ends up waiting, with at most n calls left, or with its reply.
RunsOutBy(r, vm, n) ==
    \/ \E q : /\ q.pc = "waiting" /\ q.vm = vm
              /\ CallsLeft(q) \in 0 .. n
              /\ req' = [req EXCEPT ![r] = q]
    \/ \E o \in Outcomes : req' = [req EXCEPT ![r] = Idle(o)]

\* A request that moves on has at most the upstreams on its list to call.
LEMMA MoveOnRunsOut ==
  ASSUME NEW r \in Request, NEW q, NEW b, Listed(q), MoveOn(r, q, b)
  PROVE  RunsOutBy(r, q.vm, Cardinality(q.left) * MaxAttempts)
<1>1. /\ q \in Requests /\ q.vm \in VirtualModel /\ q.left \subseteq DOMAIN Pool[q.vm]
      /\ DOMAIN Pool[q.vm] \subseteq Position /\ q.blocked \subseteq Position
  BY DEF Listed, Requests, Position
<1>2. CASE req' = [req EXCEPT ![r] = Idle("all_failed")]
  BY <1>2 DEF RunsOutBy, Outcomes
<1>3. ASSUME NEW p \in Candidates(q, b),
             Call(r, [Blocked(q, Reported(q, TakenOff(q, p) \ {p}))
                         EXCEPT !.left = @ \ TakenOff(q, p)], p, b)
      PROVE  RunsOutBy(r, q.vm, Cardinality(q.left) * MaxAttempts)
  <2> DEFINE blocked == q.blocked \cup Reported(q, TakenOff(q, p) \ {p})
             t == Admit(b[KeyAt(q.vm, p)]) # b[KeyAt(q.vm, p)]
             called == [Blocked(q, Reported(q, TakenOff(q, p) \ {p})) EXCEPT !.left = @ \ TakenOff(q, p)]
             n == [called EXCEPT !.pc = "waiting", !.at = p, !.trial = t]
  <2>1. p \in q.left /\ q.failed[p] = 0
    BY DEF Candidates, Ready, Listed
  <2>2. called = [q EXCEPT !.blocked = blocked, !.left = q.left \ TakenOff(q, p)]
    BY <1>1 DEF Blocked, Requests
  <2>3. /\ n.pc = "waiting" /\ n.vm = q.vm /\ n.at = p
        /\ n.failed = q.failed
        /\ n.left = q.left \ TakenOff(q, p)
        /\ called.vm = q.vm
    BY <1>1, <2>2 DEF Requests
  <2>4. req' = [req EXCEPT ![r] = n]
    BY <1>3, <2>3 DEF Call
  <2> HIDE DEF n, called
  <2>5. n.left \subseteq q.left /\ n.left # q.left
    BY <2>1, <2>3 DEF TakenOff
  <2>6. Cardinality(n.left) \in Nat /\ Cardinality(q.left) \in Nat
        /\ Cardinality(n.left) + 1 <= Cardinality(q.left)
    BY <1>1, <2>5, ListSize
  <2>7. CallsLeft(n) = Cardinality(n.left) * MaxAttempts + MaxAttempts
    <3>1. Cardinality(n.left) * MaxAttempts \in Nat /\ MaxAttempts \in Nat
      BY <2>6, RouterAssumption
    <3>2. n.failed[n.at] = 0
      BY <2>1, <2>3
    <3> QED
      BY <3>1, <3>2 DEF CallsLeft
  <2>8. CallsLeft(n) \in 0 .. Cardinality(q.left) * MaxAttempts
    <3> DEFINE x == Cardinality(n.left) * MaxAttempts
               y == Cardinality(q.left) * MaxAttempts
    <3>1. x \in Nat /\ y \in Nat /\ x + MaxAttempts <= y
      BY <2>6, FewerCalls
    <3>2. CallsLeft(n) = x + MaxAttempts
      BY <2>7
    <3> HIDE DEF x, y
    <3>3. CallsLeft(n) \in 0 .. y
      BY <3>1, <3>2, RouterAssumption
    <3> QED
      BY <3>3 DEF y
  <2> QED
    BY <2>3, <2>4, <2>8 DEF RunsOutBy
<1> QED
  BY <1>2, <1>3 DEF MoveOn

\* A failed call leaves the request with fewer to make.
LEMMA RetryRunsOut ==
  ASSUME NEW r \in Request, NEW q, NEW b, InPlace(q), RetryOrMoveOn(r, Failed(q), b)
  PROVE  CallsLeft(q) \in Nat /\ \E n \in Nat : n < CallsLeft(q) /\ RunsOutBy(r, q.vm, n)
<1> DEFINE f == Failed(q)
           c == Cardinality(q.left) * MaxAttempts
<1>1. /\ q \in Requests /\ q.vm \in VirtualModel /\ q.left \subseteq DOMAIN Pool[q.vm]
      /\ q.at \in Position /\ q.failed \in [Position -> 0 .. MaxAttempts]
      /\ q.failed[q.at] < MaxAttempts /\ q.blocked \subseteq Position
  BY DEF InPlace, Listed, Requests
<1>2. Listed(f) /\ f.at \notin f.left
  BY FailedListed
<1>3. /\ f \in Requests
      /\ f.vm = q.vm /\ f.at = q.at /\ f.left = q.left /\ f.blocked = q.blocked
      /\ f.failed = [q.failed EXCEPT ![q.at] = @ + 1]
  BY <1>1, <1>2 DEF Failed, Requests, Listed
<1>4. f.failed[f.at] = q.failed[q.at] + 1
  BY <1>1, <1>3
<1>5. Cardinality(q.left) \in Nat /\ MaxAttempts \in Nat /\ q.failed[q.at] \in Nat
  BY <1>1, ListSize, RouterAssumption
<1>6. c \in Nat
  BY <1>5
<1>7. CallsLeft(q) = c + (MaxAttempts - q.failed[q.at])
  BY DEF CallsLeft
<1> HIDE DEF f, c
<1>8. CallsLeft(q) \in Nat /\ c < CallsLeft(q)
  BY <1>1, <1>5, <1>6, <1>7
<1>9. CASE Call(r, f, f.at, b)
  <2> DEFINE t == Admit(b[KeyAt(f.vm, f.at)]) # b[KeyAt(f.vm, f.at)]
             n == [f EXCEPT !.pc = "waiting", !.at = f.at, !.trial = t]
             m == c + (MaxAttempts - (q.failed[q.at] + 1))
  <2>1. /\ n.pc = "waiting" /\ n.vm = q.vm /\ n.at = q.at /\ n.left = q.left
        /\ n.failed = f.failed
    BY <1>3 DEF Requests
  <2>2. req' = [req EXCEPT ![r] = n]
    BY <1>9 DEF Call
  <2> HIDE DEF n
  <2>3. CallsLeft(n) = m
    BY <1>3, <1>4, <2>1 DEF CallsLeft, c
  <2>4. m \in Nat /\ m < CallsLeft(q)
    BY <1>1, <1>5, <1>6, <1>7
  <2> HIDE DEF m
  <2>5. CallsLeft(n) \in 0 .. m
    BY <2>3, <2>4
  <2>6. RunsOutBy(r, q.vm, m)
    BY <2>1, <2>2, <2>5 DEF RunsOutBy
  <2> QED
    BY <1>8, <2>4, <2>6
<1>10. CASE MoveOn(r, f, b)
  <2>1. RunsOutBy(r, q.vm, c)
    BY <1>2, <1>3, <1>10, MoveOnRunsOut DEF c
  <2> QED
    BY <1>6, <1>8, <2>1
<1>11. CASE MoveOn(r, Blocked(f, {f.at}), b)
  <2> DEFINE n == Blocked(f, {f.at})
  <2>1. /\ n \in Requests
        /\ n.vm = q.vm /\ n.left = q.left /\ n.blocked = q.blocked \cup {q.at}
        /\ n.failed = f.failed
    BY <1>1, <1>3 DEF Blocked, Requests
  <2> HIDE DEF n
  <2>2. Listed(n)
    BY <1>2, <1>3, <2>1 DEF Listed
  <2>3. RunsOutBy(r, q.vm, c)
    BY <1>11, <2>1, <2>2, MoveOnRunsOut DEF c, n
  <2> QED
    BY <1>6, <1>8, <2>3
<1> QED
  BY <1>9, <1>10, <1>11 DEF RetryOrMoveOn, f

\* A step of a waiting request, and of a slot that waits for nothing.
LEMMA AnswerRunsOut ==
  ASSUME NEW r \in Request, InPlace(req[r]), Answer(r)
  PROVE  /\ req[r].pc = "waiting"
         /\ \/ \E n \in Nat : CallsLeft(req[r]) \in Nat /\ n < CallsLeft(req[r]) /\ RunsOutBy(r, req[r].vm, n)
            \/ \E o \in Outcomes : req' = [req EXCEPT ![r] = Idle(o)]
<1>1. req[r].pc = "waiting"
  BY DEF Answer, Succeed, HttpError, Timeout, ConnectionError, TransportFailure,
         TornErrorBody, UndecodableBody
<1>2. \/ RetryOrMoveOn(r, Failed(req[r]), Breakers(KeyOf(req[r]), RecordRetryableFailure))
      \/ \E o \in Outcomes : \E a : Finish(r, o, a)
  <2>1. CASE Succeed(r)
    BY <2>1 DEF Succeed, Outcomes
  <2>2. CASE \E s \in Status : HttpError(r, s)
    BY <2>2 DEF HttpError, Outcomes
  <2>3. CASE Timeout(r)
    BY <2>3 DEF Timeout, TransportFailure, Outcomes
  <2>4. CASE ConnectionError(r)
    BY <2>4 DEF ConnectionError, TransportFailure, Outcomes
  <2>5. CASE TornErrorBody(r)
    BY <2>5 DEF TornErrorBody, Outcomes
  <2>6. CASE UndecodableBody(r)
    BY <2>6 DEF UndecodableBody, Outcomes
  <2> QED
    BY <2>1, <2>2, <2>3, <2>4, <2>5, <2>6 DEF Answer
<1> QED
  BY <1>1, <1>2, RetryRunsOut DEF Finish

\* A request that begins has no more calls to make than its pool and the retries
\* allow.
LEMMA IdleRunsOut ==
  ASSUME NEW r \in Request, (\E vm \in VirtualModel : Arrive(r, vm)) \/ UnknownModel(r)
  PROVE  /\ req[r].pc = "idle"
         /\ \E vm \in VirtualModel : RunsOutBy(r, vm, Cardinality(DOMAIN Pool[vm]) * MaxAttempts)
<1>1. ASSUME NEW vm \in VirtualModel, Arrive(r, vm)
      PROVE  \E v \in VirtualModel : RunsOutBy(r, v, Cardinality(DOMAIN Pool[v]) * MaxAttempts)
  <2>1. Listed(FreshRequest(vm)) /\ FreshRequest(vm).vm = vm /\ FreshRequest(vm).left = DOMAIN Pool[vm]
    BY FreshWalks, FreshListed
  <2>2. MoveOn(r, FreshRequest(vm), breaker)
    BY <1>1 DEF Arrive
  <2> QED
    BY <2>1, <2>2, MoveOnRunsOut
<1>2. ASSUME UnknownModel(r)
      PROVE  \E v \in VirtualModel : RunsOutBy(r, v, Cardinality(DOMAIN Pool[v]) * MaxAttempts)
  <2>1. \E o \in Outcomes : req' = [req EXCEPT ![r] = Idle(o)]
    BY <1>2 DEF UnknownModel, Outcomes
  <2>2. \A v \in VirtualModel : RunsOutBy(r, v, Cardinality(DOMAIN Pool[v]) * MaxAttempts)
    BY <2>1 DEF RunsOutBy
  <2> QED
    BY <2>2, RouterAssumption
<1>3. req[r].pc = "idle"
  BY DEF Arrive, UnknownModel
<1> QED
  BY <1>1, <1>2, <1>3

\* Every call of a request leaves it fewer to make, from a number fixed by its pool.
LEMMA RunsOutNext == Inv /\ [Next]_vars => [CallsRunOutStep]_vars
<1> SUFFICES ASSUME Inv, Next, NEW s \in Request, req'[s] # req[s], req'[s].pc = "waiting"
             PROVE  /\ req[s].pc = "waiting" => CallsLeft(req'[s]) < CallsLeft(req[s])
                    /\ req[s].pc = "idle" =>
                           CallsLeft(req'[s]) <= Cardinality(DOMAIN Pool[req'[s].vm]) * MaxAttempts
  BY DEF CallsRunOutStep
<1>1. req \in [Request -> Requests]
  BY DEF Inv, RequestsInPlace
<1>2. ASSUME NEW r \in Request, NEW vm, NEW n, RunsOutBy(r, vm, n)
      PROVE  r = s /\ req'[s].vm = vm /\ CallsLeft(req'[s]) \in 0 .. n
  <2>1. CASE \E q : /\ q.pc = "waiting" /\ q.vm = vm
                    /\ CallsLeft(q) \in 0 .. n
                    /\ req' = [req EXCEPT ![r] = q]
    BY <1>1, <2>1
  <2>2. CASE \E o \in Outcomes : req' = [req EXCEPT ![r] = Idle(o)]
    BY <1>1, <2>2, IdleTyped
  <2> QED
    BY <1>2, <2>1, <2>2 DEF RunsOutBy
<1>3. CASE \E r \in Request : (\E vm \in VirtualModel : Arrive(r, vm)) \/ UnknownModel(r)
  <2>1. PICK r \in Request : (\E vm \in VirtualModel : Arrive(r, vm)) \/ UnknownModel(r)
    BY <1>3
  <2> QED
    BY <1>2, <2>1, IdleRunsOut
<1>4. CASE \E r \in Request : Answer(r)
  <2>1. PICK r \in Request : Answer(r)
    BY <1>4
  <2>2. req[r].pc = "waiting"
    BY <2>1 DEF Answer, Succeed, HttpError, Timeout, ConnectionError, TransportFailure,
                TornErrorBody, UndecodableBody
  <2>3. InPlace(req[r])
    BY <2>2 DEF Inv, RequestsInPlace
  <2>4. CASE \E o \in Outcomes : req' = [req EXCEPT ![r] = Idle(o)]
    BY <1>1, <2>4, IdleTyped
  <2>5. CASE \E n \in Nat : CallsLeft(req[r]) \in Nat /\ n < CallsLeft(req[r]) /\ RunsOutBy(r, req[r].vm, n)
    <3>1. PICK n \in Nat : CallsLeft(req[r]) \in Nat /\ n < CallsLeft(req[r]) /\ RunsOutBy(r, req[r].vm, n)
      BY <2>5
    <3>2. r = s /\ CallsLeft(req'[s]) \in 0 .. n
      BY <1>2, <3>1
    <3> QED
      BY <2>2, <3>1, <3>2
  <2> QED
    BY <2>1, <2>3, <2>4, <2>5, AnswerRunsOut
<1>5. CASE Tick
  BY <1>5 DEF Tick
<1> QED
  BY <1>3, <1>4, <1>5 DEF Next

\* Every step of a request leaves it fewer calls to make, whatever others do to the
\* breakers: no request goes on for ever.
THEOREM CallsComeToAnEnd == Spec => CallsRunOut
  BY RunsOutNext, InvHolds, PTL DEF Spec, CallsRunOut
=============================================================================
