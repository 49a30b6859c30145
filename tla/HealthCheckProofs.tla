-------------------------- MODULE HealthCheckProofs --------------------------
(***************************************************************************)
(* Proofs about HealthCheck.tla, for every value of its constants: the     *)
(* background task beside any number of requests, with any backoff curve.  *)
(***************************************************************************)
EXTENDS HealthCheck, ContractProofs, OrderProofs, LeastElement

Tasks == [pc : {"sleeping", "probing"}, todo : SUBSET DOMAIN ProbeOrder]
WaitTimes == [Key -> {Untracked} \cup 0 .. BackoffMax]

TaskTyped ==
    /\ task \in Tasks
    /\ task.pc = "probing" => task.todo # {}
    /\ timer \in 0 .. Interval
    /\ wait \in WaitTimes
    /\ probe_failures \in [Key -> 0 .. FailureCap]

\* Whatever is left of a round has an upstream, and its backoff is over.
RoundDue ==
    task.pc = "probing" =>
        \A i \in task.todo : HasUpstream(ProbeOrder[i]) /\ Ripe(KeyOfEntry(ProbeOrder[i]))

\* The inductive invariant for the health check.
HCInv == Inv /\ TaskTyped /\ RoundDue
-----------------------------------------------------------------------------
\* The backoff curve.  Power is defined by recursion; that there is such a
\* function follows from its restrictions to 0 .. n, which exist and agree.

\* f is the curve up to n.
PowerUpTo(n, f) ==
    /\ f \in [0 .. n -> Nat \ {0}]
    /\ \A i \in 0 .. n : f[i] = IF i = 0 THEN 1 ELSE BackoffMultiplier * f[i - 1]

\* Two restrictions of the curve agree where both are defined.
LEMMA PowersAgree ==
  ASSUME NEW n \in Nat, NEW f, PowerUpTo(n, f), NEW m \in Nat, NEW g, PowerUpTo(m, g)
  PROVE  \A i \in 0 .. n : i \in 0 .. m => f[i] = g[i]
<1> DEFINE T == {i \in 0 .. n : i \in 0 .. m /\ f[i] # g[i]}
<1> SUFFICES ASSUME T # {} PROVE FALSE
  OBVIOUS
<1>1. T \subseteq Nat
  OBVIOUS
<1>2. PICK i \in T : \A j \in T : i <= j
  <2> HIDE DEF T
  <2> QED
    BY <1>1, LeastNat
<1>3. i # 0
  BY <1>2 DEF PowerUpTo
<1>4. i - 1 \in 0 .. n /\ i - 1 \in 0 .. m /\ ~(i <= i - 1)
  BY <1>2, <1>3
<1>5. f[i - 1] = g[i - 1]
  BY <1>2, <1>4
<1> QED
  BY <1>2, <1>3, <1>5 DEF PowerUpTo

\* The curve can be drawn up to any point.
LEMMA PowersExist == \A n \in Nat : \E f : PowerUpTo(n, f)
<1> DEFINE T == {n \in Nat : ~ \E f : PowerUpTo(n, f)}
<1> SUFFICES ASSUME T # {} PROVE FALSE
  OBVIOUS
<1>1. PICK n \in T : \A j \in T : n <= j
  <2>1. T \subseteq Nat
    OBVIOUS
  <2> HIDE DEF T
  <2> QED
    BY <2>1, LeastNat
<1>2. n # 0
  <2>1. PowerUpTo(0, [i \in 0 .. 0 |-> 1])
    BY DEF PowerUpTo
  <2> QED
    BY <1>1, <2>1
<1>3. n - 1 \in Nat /\ n - 1 \notin T
  BY <1>1, <1>2
<1>4. PICK f : PowerUpTo(n - 1, f)
  BY <1>3
<1> DEFINE g == [i \in 0 .. n |-> IF i < n THEN f[i] ELSE BackoffMultiplier * f[n - 1]]
<1>5. \A i \in 0 .. n : i < n => i \in 0 .. n - 1 /\ f[i] \in Nat \ {0}
  BY <1>1, <1>3, <1>4 DEF PowerUpTo
<1>6. BackoffMultiplier * f[n - 1] \in Nat \ {0}
  <2>1. f[n - 1] \in Nat \ {0} /\ BackoffMultiplier \in Nat \ {0}
    BY <1>3, <1>4, HealthCheckAssumption DEF PowerUpTo
  <2> QED
    BY <2>1
<1>7. PowerUpTo(n, g)
  <2>1. g \in [0 .. n -> Nat \ {0}]
    BY <1>5, <1>6
  <2>2. ASSUME NEW i \in 0 .. n
        PROVE  g[i] = IF i = 0 THEN 1 ELSE BackoffMultiplier * g[i - 1]
    <3>1. CASE i = n
      <4>1. g[i] = BackoffMultiplier * f[n - 1] /\ g[i - 1] = f[n - 1]
        BY <1>1, <1>2, <3>1
      <4> QED
        BY <1>2, <3>1, <4>1
    <3>2. CASE i # n
      <4>1. i < n /\ i \in 0 .. n - 1 /\ g[i] = f[i]
        BY <1>1, <3>2
      <4>2. i # 0 => i - 1 \in 0 .. n /\ g[i - 1] = f[i - 1]
        BY <1>1, <4>1
      <4> QED
        BY <1>4, <4>1, <4>2 DEF PowerUpTo
    <3> QED
      BY <3>1, <3>2
  <2> QED
    BY <2>1, <2>2 DEF PowerUpTo
<1> QED
  BY <1>1, <1>7

\* So the recursion defines Power, and no power is less than one.
LEMMA PowerProperties ==
  /\ Power = [n \in Nat |-> IF n = 0 THEN 1 ELSE BackoffMultiplier * Power[n - 1]]
  /\ \A n \in Nat : Power[n] \in Nat \ {0}
<1> DEFINE Curve(n) == CHOOSE f : PowerUpTo(n, f)
           F == [n \in Nat |-> Curve(n)[n]]
<1>1. \A n \in Nat : PowerUpTo(n, Curve(n))
  BY PowersExist
<1> HIDE DEF Curve
<1>2. ASSUME NEW n \in Nat
      PROVE  /\ F[n] = IF n = 0 THEN 1 ELSE BackoffMultiplier * F[n - 1]
             /\ F[n] \in Nat \ {0}
  <2>1. PowerUpTo(n, Curve(n))
    BY <1>1
  <2>2. n # 0 => /\ n - 1 \in Nat
                 /\ PowerUpTo(n - 1, Curve(n - 1))
                 /\ n - 1 \in 0 .. n /\ n - 1 \in 0 .. n - 1
    BY <1>1
  <2>3. n # 0 => Curve(n)[n - 1] = Curve(n - 1)[n - 1]
    BY <2>1, <2>2, PowersAgree
  <2> QED
    BY <2>1, <2>2, <2>3 DEF PowerUpTo
<1>3. F = [n \in Nat |-> IF n = 0 THEN 1 ELSE BackoffMultiplier * F[n - 1]]
  BY <1>2
<1> DEFINE Solves(f) == f = [n \in Nat |-> IF n = 0 THEN 1 ELSE BackoffMultiplier * f[n - 1]]
<1>4. Power = CHOOSE f : Solves(f)
  BY DEF Power
<1>5. Solves(F)
  BY <1>3
<1>6. Solves(Power)
  <2> HIDE DEF F, Solves
  <2> QED
    BY <1>4, <1>5
<1>7. \A n \in Nat : Power[n] = IF n = 0 THEN 1 ELSE BackoffMultiplier * Power[n - 1]
  BY <1>6
<1>8. \A n \in Nat : Power[n] \in Nat \ {0}
  <2> DEFINE T == {n \in Nat : Power[n] \notin Nat \ {0}}
  <2> SUFFICES ASSUME T # {} PROVE FALSE
    OBVIOUS
  <2>1. T \subseteq Nat
    OBVIOUS
  <2>2. PICK n \in T : \A j \in T : n <= j
    <3> HIDE DEF T
    <3> QED
      BY <2>1, LeastNat
  <2>3. n # 0
    BY <1>7, <2>2
  <2>4. n - 1 \in Nat /\ ~(n <= n - 1)
    BY <2>2, <2>3
  <2>5. Power[n - 1] \in Nat \ {0} /\ BackoffMultiplier \in Nat \ {0}
    BY <2>2, <2>4, HealthCheckAssumption
  <2>6. BackoffMultiplier * Power[n - 1] \in Nat \ {0}
    BY <2>5
  <2> QED
    BY <1>7, <2>2, <2>3, <2>6
<1> QED
  BY <1>6, <1>8

\* Every delay lies between the base interval and the cap.
LEMMA DelayBounded ==
  ASSUME NEW n \in Nat \ {0}
  PROVE  Delay(n) \in BackoffBase .. BackoffMax
<1>1. Power[n - 1] \in Nat \ {0}
  BY PowerProperties
<1>2. BackoffBase \in Nat \ {0} /\ BackoffMax \in Nat /\ BackoffMax >= BackoffBase
  BY HealthCheckAssumption
<1> DEFINE p == Power[n - 1]
<1>3. p \in Nat \ {0}
  BY <1>1
<1>4. BackoffBase * p \in Nat /\ BackoffBase * p >= BackoffBase
  <2> HIDE DEF p
  <2> QED
    BY <1>2, <1>3
<1> QED
  BY <1>2, <1>4 DEF Delay

\* The more probes have failed, the longer the delay, up to the cap
\* (docs/specs/2026-07-20-decaying-health-check.md): never a shorter one.
THEOREM DelayNeverShrinks ==
  ASSUME NEW n \in Nat \ {0}
  PROVE  Delay(n) <= Delay(n + 1)
<1> DEFINE p == Power[n - 1]
           q == Power[n]
<1>1. n - 1 \in Nat /\ n \in Nat /\ n # 0 /\ (n + 1) - 1 = n
  OBVIOUS
<1>2. p \in Nat \ {0} /\ q \in Nat \ {0}
  BY <1>1, PowerProperties
<1>3. q = BackoffMultiplier * p
  BY <1>1, PowerProperties
<1>4. BackoffBase \in Nat \ {0} /\ BackoffMax \in Nat /\ BackoffMultiplier \in Nat \ {0}
  BY HealthCheckAssumption
<1>5. /\ Delay(n) = IF BackoffBase * p < BackoffMax THEN BackoffBase * p ELSE BackoffMax
      /\ Delay(n + 1) = IF BackoffBase * q < BackoffMax THEN BackoffBase * q ELSE BackoffMax
  BY <1>1 DEF Delay
<1> HIDE DEF p, q
<1>6. p <= q
  BY <1>2, <1>3, <1>4
<1>7. PICK d \in Nat : q = p + d
  <2>1. q - p \in Nat /\ q = p + (q - p)
    BY <1>2, <1>6
  <2> QED
    BY <2>1
<1> DEFINE x == BackoffBase * p
           y == BackoffBase * d
<1>8. x \in Nat /\ y \in Nat
  BY <1>2, <1>4, <1>7
<1>9. BackoffBase * q = x + y
  BY <1>2, <1>4, <1>7
<1> HIDE DEF x, y
<1>10. Delay(n) = IF x < BackoffMax THEN x ELSE BackoffMax
  BY <1>5 DEF x
<1> QED
  BY <1>4, <1>5, <1>8, <1>9, <1>10
-----------------------------------------------------------------------------
\* The entries of ProbeOrder, and the upstreams they stand for.

\* Every place of ProbeOrder holds an entry.
LEMMA OrderTyped ==
  ASSUME NEW i \in DOMAIN ProbeOrder
  PROVE  ProbeOrder[i] \in Entries /\ i \in Nat
<1>1. ProbeOrder \in Seq(Entries)
  BY HealthCheckAssumption
<1>2. i \in 1 .. Len(ProbeOrder)
  BY <1>1, LenProperties
<1> QED
  BY <1>1, <1>2, ElementOfSeq

\* An entry with an upstream stands for the key of one.
LEMMA EntryKey ==
  ASSUME NEW e \in Entries, HasUpstream(e)
  PROVE  /\ KeyOfEntry(e) \in Key
         /\ e.vm \in EntriesOf(KeyOfEntry(e))
         /\ NameOf[KeyOfEntry(e)] = e.name
         /\ e.vm \in VirtualModel
         /\ e.name \in UpstreamName
<1> DEFINE P == EntryPositions(e)
<1>1. e.vm \in VirtualModel /\ e.name \in UpstreamName
  BY DEF Entries
<1>2. P \subseteq DOMAIN Pool[e.vm] /\ P # {}
  BY DEF EntryPositions, HasUpstream
<1>3. P \subseteq Nat
  <2>1. Pool[e.vm] \in Seq([key : Key, priority : Nat \ {0}, weight : Nat \ {0}])
    BY <1>1, RouterAssumption
  <2> QED
    BY <1>2, <2>1, LenProperties
<1>4. \E p \in P : \A o \in P : p <= o
  <2> HIDE DEF P
  <2> QED
    BY <1>2, <1>3, LeastNat
<1>5. PICK p \in P : KeyOfEntry(e) = KeyAt(e.vm, p)
  BY <1>4 DEF KeyOfEntry
<1>6. p \in DOMAIN Pool[e.vm] /\ NameOf[KeyAt(e.vm, p)] = e.name
  BY <1>5 DEF EntryPositions
<1>7. e.vm \in EntriesOf(KeyOfEntry(e))
  BY <1>1, <1>5, <1>6 DEF EntriesOf
<1> QED
  BY <1>1, <1>5, <1>6, <1>7, KeyAtTyped

\* The foremost place of a set is one of its places.
LEMMA ForemostIn ==
  ASSUME NEW todo, todo \subseteq DOMAIN ProbeOrder, todo # {}
  PROVE  \E i \in todo : Foremost(todo) = ProbeOrder[i]
<1>1. todo \subseteq Nat
  BY OrderTyped
<1>2. \E i \in todo : \A j \in todo : i <= j
  BY <1>1, LeastNat
<1> QED
  BY <1>2 DEF Foremost, FirstPlace

\* The task sleeps no longer than the interval.
LEMMA SleepTyped ==
  ASSUME NEW w \in WaitTimes
  PROVE  SleepFor(w) \in 0 .. Interval
<1> DEFINE times == {Interval} \cup {w[k] : k \in {k \in Key : w[k] # Untracked}}
<1>1. times \subseteq Nat
  BY HealthCheckAssumption DEF WaitTimes
<1>2. Interval \in times
  OBVIOUS
<1>3. SleepFor(w) = CHOOSE t \in times : \A u \in times : t <= u
  BY DEF SleepFor
<1> HIDE DEF times
<1>4. \E t \in times : \A u \in times : t <= u
  BY <1>1, <1>2, LeastNat
<1>5. SleepFor(w) \in times /\ SleepFor(w) <= Interval
  BY <1>2, <1>3, <1>4
<1>6. Interval \in Nat /\ SleepFor(w) \in Nat
  BY <1>1, <1>5, HealthCheckAssumption
<1> QED
  BY <1>5, <1>6
-----------------------------------------------------------------------------
\* The rounds of the task.

\* However a round goes on, the task keeps its type.
LEMMA ContinueTyped ==
  ASSUME NEW todo, todo \subseteq DOMAIN ProbeOrder, NEW w \in WaitTimes,
         timer \in 0 .. Interval, Continue(todo, w)
  PROVE  /\ task' \in Tasks /\ timer' \in 0 .. Interval
         /\ \/ task'.pc = "sleeping"
            \/ task'.pc = "probing" /\ task'.todo = todo /\ todo # {}
<1>1. CASE todo # {} /\ task' = [pc |-> "probing", todo |-> todo] /\ UNCHANGED timer
  BY <1>1 DEF Tasks
<1>2. CASE Sleep(w)
  BY <1>2, SleepTyped DEF Sleep, Tasks
<1> QED
  BY <1>1, <1>2 DEF Continue

\* The probe of key k is over: the next-probe time of no other key has changed,
\* and the round is over or goes on with the entries of other keys.
RoundGoesOn(k) ==
    /\ \A j \in Key \ {k} : wait'[j] = wait[j]
    /\ \/ task'.pc = "sleeping"
       \/ /\ task'.pc = "probing" /\ task'.todo # {}
          /\ task'.todo = {i \in task.todo : KeyOfEntry(ProbeOrder[i]) # k}

\* The upstream being probed.
LEMMA ProbedTyped ==
  ASSUME HCInv, task.pc = "probing"
  PROVE  /\ Probed \in Entries /\ HasUpstream(Probed)
         /\ ProbedKey \in Key
         /\ Ripe(ProbedKey)
         /\ NameOf[ProbedKey] \in UpstreamName /\ Probed.vm \in VirtualModel
<1>1. PICK i \in task.todo : Probed = ProbeOrder[i]
  BY ForemostIn DEF HCInv, TaskTyped, Tasks, Probed
<1>2. i \in DOMAIN ProbeOrder
  BY <1>1 DEF HCInv, TaskTyped, Tasks
<1>3. Probed \in Entries /\ HasUpstream(Probed) /\ Ripe(ProbedKey)
  BY <1>1, <1>2, OrderTyped DEF HCInv, RoundDue, ProbedKey
<1> QED
  BY <1>3, EntryKey DEF ProbedKey

\* The count after another failed probe.
LEMMA FailuresTyped ==
  ASSUME NEW n \in 0 .. FailureCap
  PROVE  FailuresWith(n) \in 1 .. FailureCap
  BY HealthCheckAssumption DEF FailuresWith

\* When a probe has put its upstream off, the tick goes on with the others.
LEMMA RestOfTick ==
  ASSUME NEW w, w[ProbedKey] \notin {Untracked, 0}, NextEntry(w)
  PROVE  Continue({i \in task.todo : KeyOfEntry(ProbeOrder[i]) # ProbedKey}, w)
<1>1. {i \in task.todo \ {FirstPlace(task.todo)} :
         KeyOfEntry(ProbeOrder[i]) = ProbedKey => w[ProbedKey] \in {Untracked, 0}}
      = {i \in task.todo : KeyOfEntry(ProbeOrder[i]) # ProbedKey}
  BY DEF Probed, ProbedKey, Foremost
<1> QED
  BY <1>1 DEF NextEntry

\* A probe that has failed.
LEMMA AdvanceEffect ==
  ASSUME HCInv, task.pc = "probing", AdvanceBackoff
  PROVE  /\ TaskTyped' /\ RoundGoesOn(ProbedKey)
         /\ \E n \in 1 .. FailureCap :
               /\ probe_failures' = [probe_failures EXCEPT ![ProbedKey] = n]
               /\ Overflows(n) \/ wait'[ProbedKey] \in BackoffBase .. BackoffMax
<1> DEFINE k == ProbedKey
           n == FailuresWith(probe_failures[k])
           w == [wait EXCEPT ![k] = Delay(n)]
           rest == {i \in task.todo : KeyOfEntry(ProbeOrder[i]) # k}
<1>1. /\ k \in Key /\ n \in 1 .. FailureCap
      /\ wait \in WaitTimes /\ timer \in 0 .. Interval
      /\ rest \subseteq DOMAIN ProbeOrder
  BY ProbedTyped, FailuresTyped DEF HCInv, TaskTyped, Tasks
<1>2. Delay(n) \in BackoffBase .. BackoffMax
  <2>1. n \in Nat \ {0}
    BY <1>1, HealthCheckAssumption
  <2> HIDE DEF n
  <2> QED
    BY <2>1, DelayBounded
<1>3. w \in WaitTimes
  BY <1>1, <1>2, HealthCheckAssumption DEF WaitTimes
<1>4. /\ probe_failures' = [probe_failures EXCEPT ![k] = n]
      /\ probe_failures' \in [Key -> 0 .. FailureCap]
  BY <1>1 DEF AdvanceBackoff, HCInv, TaskTyped
<1>5. CASE ~Overflows(n) /\ wait' = w /\ Continue(rest, w)
  <2>1. /\ task' \in Tasks /\ timer' \in 0 .. Interval
        /\ \/ task'.pc = "sleeping"
           \/ task'.pc = "probing" /\ task'.todo = rest /\ rest # {}
    BY <1>1, <1>3, <1>5, ContinueTyped
  <2>2. wait'[k] = Delay(n) /\ \A j \in Key \ {k} : wait'[j] = wait[j]
    BY <1>1, <1>5 DEF WaitTimes
  <2> QED
    BY <1>1, <1>2, <1>3, <1>4, <1>5, <2>1, <2>2 DEF TaskTyped, RoundGoesOn
<1>6. CASE Overflows(n) /\ UNCHANGED wait /\ Sleep(wait)
  <2>1. task' \in Tasks /\ task'.pc = "sleeping" /\ timer' \in 0 .. Interval
    BY <1>1, <1>6, SleepTyped DEF Sleep, Tasks
  <2> QED
    BY <1>1, <1>4, <1>6, <2>1 DEF TaskTyped, RoundGoesOn
<1>7. w[k] \notin {Untracked, 0}
  BY <1>1, <1>2, HealthCheckAssumption DEF WaitTimes, Untracked
<1> QED
  BY <1>5, <1>6, <1>7, RestOfTick DEF AdvanceBackoff

\* A probe that has succeeded.
LEMMA ResetEffect ==
  ASSUME HCInv, task.pc = "probing", ResetBackoff
  PROVE  /\ TaskTyped' /\ RoundGoesOn(ProbedKey)
         /\ probe_failures' = [probe_failures EXCEPT ![ProbedKey] = 0]
         /\ wait'[ProbedKey] = BackoffBase
<1> DEFINE k == ProbedKey
           w == [wait EXCEPT ![k] = BackoffBase]
           rest == {i \in task.todo : KeyOfEntry(ProbeOrder[i]) # k}
<1>1. /\ k \in Key
      /\ wait \in WaitTimes /\ timer \in 0 .. Interval
      /\ rest \subseteq DOMAIN ProbeOrder
  BY ProbedTyped DEF HCInv, TaskTyped, Tasks
<1>2. w \in WaitTimes
  BY <1>1, HealthCheckAssumption DEF WaitTimes
<1>3. /\ probe_failures' = [probe_failures EXCEPT ![k] = 0]
      /\ probe_failures' \in [Key -> 0 .. FailureCap]
  BY <1>1, HealthCheckAssumption DEF ResetBackoff, HCInv, TaskTyped
<1>4. wait' = w /\ Continue(rest, w)
  <2>1. w[k] \notin {Untracked, 0}
    BY <1>1, HealthCheckAssumption DEF WaitTimes, Untracked
  <2> QED
    BY <2>1, RestOfTick DEF ResetBackoff
<1>5. /\ task' \in Tasks /\ timer' \in 0 .. Interval
      /\ \/ task'.pc = "sleeping"
         \/ task'.pc = "probing" /\ task'.todo = rest /\ rest # {}
  BY <1>1, <1>2, <1>4, ContinueTyped
<1>6. wait'[k] = BackoffBase /\ \A j \in Key \ {k} : wait'[j] = wait[j]
  BY <1>1, <1>4 DEF WaitTimes
<1> QED
  BY <1>1, <1>2, <1>3, <1>4, <1>5, <1>6 DEF TaskTyped, RoundGoesOn

\* A probe that ends the round and puts nothing off.
BreaksOff == Sleep(wait) /\ UNCHANGED <<wait, probe_failures>>

\* It ends with a typed, sleeping task.
LEMMA BreakEffect ==
  ASSUME HCInv, BreaksOff
  PROVE  TaskTyped' /\ task'.pc = "sleeping" /\ RoundGoesOn(ProbedKey)
<1>1. task' \in Tasks /\ task'.pc = "sleeping" /\ timer' \in 0 .. Interval
  BY SleepTyped DEF BreaksOff, Sleep, Tasks, HCInv, TaskTyped
<1> QED
  BY <1>1 DEF BreaksOff, TaskTyped, RoundGoesOn, HCInv
-----------------------------------------------------------------------------
\* What a probe may leave of the breaker it reports to, if it does not succeed.
AfterProbeFailure(b) == {b, RecordRetryableFailure(b), RecordNonRetryable(b)}

\* Whatever a probe records keeps the metrics typed.
LEMMA ProbeMetrics ==
  ASSUME HCInv, task.pc = "probing",
         \/ RecordAttempt(Probed.vm, ProbedKey, RecordOk)
         \/ RecordAttempt(Probed.vm, ProbedKey, RecordError)
         \/ RecordAttempt(Probed.vm, ProbedKey, RecordErrorTorn)
  PROVE  MetricsTyped'
<1> DEFINE m == metrics[Probed.vm][NameOf[ProbedKey]]
<1>1. /\ NameOf[ProbedKey] \in UpstreamName /\ Probed.vm \in VirtualModel
      /\ metrics \in [VirtualModel -> [UpstreamName -> MetricsStates]]
  BY ProbedTyped DEF HCInv, Inv, MetricsTyped
<1>2. m \in MetricsStates
  BY <1>1
<1>3. \E nm \in MetricsStates :
          metrics' = IF MetricsEnabled
                     THEN [metrics EXCEPT ![Probed.vm][NameOf[ProbedKey]] = nm]
                     ELSE metrics
  BY <1>2, RecordTyped DEF RecordAttempt
<1> QED
  BY <1>1, <1>3 DEF MetricsTyped

\* Every probe succeeds, fails and is followed by the backoff, or breaks the
\* round off.
LEMMA ProbeShape ==
  ASSUME HCInv, ProbeAnswer
  PROVE  /\ task.pc = "probing"
         /\ UNCHANGED req
         /\ MetricsTyped'
         /\ \/ /\ breaker' = [breaker EXCEPT ![ProbedKey] = RecordSuccess(@)]
               /\ ResetBackoff
            \/ /\ \E nb \in AfterProbeFailure(breaker[ProbedKey]) :
                      breaker' = [breaker EXCEPT ![ProbedKey] = nb]
               /\ AdvanceBackoff \/ (Faults # {} /\ BreaksOff)
<1> DEFINE k == ProbedKey
           Fails == \E nb \in AfterProbeFailure(breaker[k]) : breaker' = [breaker EXCEPT ![k] = nb]
<1>1. CASE ProbeSucceeds
  <2>1. task.pc = "probing" /\ MetricsTyped'
    BY <1>1, ProbeMetrics DEF ProbeSucceeds
  <2> QED
    BY <1>1, <2>1 DEF ProbeSucceeds, Breakers
<1>2. breaker' = breaker => Fails
  <2>1. breaker = [breaker EXCEPT ![k] = breaker[k]]
    BY DEF HCInv, Inv, GoodBreakers
  <2> QED
    BY <2>1 DEF AfterProbeFailure
<1>3. ASSUME NEW s,
             breaker' = IF RetryableStatus(s) THEN Breakers(k, RecordRetryableFailure)
                                              ELSE Breakers(k, RecordNonRetryable)
      PROVE  Fails
  BY <1>3 DEF Breakers, AfterProbeFailure
<1>4. ASSUME NEW s \in Status, ProbeHttpError(s)
      PROVE  task.pc = "probing" /\ UNCHANGED req /\ MetricsTyped' /\ Fails /\ AdvanceBackoff
  BY <1>3, <1>4, ProbeMetrics DEF ProbeHttpError
<1>5. ASSUME NEW counts, ProbeTransportFailure(counts)
      PROVE  task.pc = "probing" /\ UNCHANGED req /\ MetricsTyped' /\ Fails /\ AdvanceBackoff
  <2>1. task.pc = "probing" /\ UNCHANGED req /\ MetricsTyped' /\ AdvanceBackoff
    BY <1>5, ProbeMetrics DEF ProbeTransportFailure
  <2>2. breaker' = Breakers(k, RecordRetryableFailure) => Fails
    BY DEF Breakers, AfterProbeFailure
  <2> QED
    BY <1>2, <1>5, <2>1, <2>2 DEF ProbeTransportFailure
<1>6. ASSUME NEW s \in Status, ProbeTornErrorBody(s)
      PROVE  /\ task.pc = "probing" /\ UNCHANGED req /\ MetricsTyped' /\ Fails
             /\ Faults # {} /\ BreaksOff
  BY <1>3, <1>6, ProbeMetrics DEF ProbeTornErrorBody, BreaksOff
<1>7. CASE ProbeUndecodableBody
  BY <1>2, <1>7 DEF ProbeUndecodableBody, BreaksOff, vars, HCInv, Inv, MetricsTyped
<1> HIDE DEF Fails
<1>8. \/ ProbeSucceeds \/ ProbeUndecodableBody
      \/ \E s \in Status : ProbeHttpError(s) \/ ProbeTornErrorBody(s)
      \/ \E counts : ProbeTransportFailure(counts)
  BY DEF ProbeAnswer, ProbeTimeout, ProbeConnectionError
<1> QED
  BY <1>1, <1>4, <1>5, <1>6, <1>7, <1>8 DEF Fails

\* What a probe leaves behind.
LEMMA ProbeEffect ==
  ASSUME HCInv, ProbeAnswer
  PROVE  /\ task.pc = "probing" /\ ProbedKey \in Key
         /\ Inv' /\ TaskTyped' /\ RoundGoesOn(ProbedKey)
<1>1. task.pc = "probing" /\ ProbedKey \in Key
  BY ProbeShape, ProbedTyped
<1>2. GoodBreaker(breaker[ProbedKey])
  BY <1>1 DEF HCInv, Inv, GoodBreakers
<1>3. \E nb : GoodBreaker(nb) /\ breaker' = [breaker EXCEPT ![ProbedKey] = nb]
  BY <1>2, RecordGood, ProbeShape DEF AfterProbeFailure
<1>4. GoodBreakers(breaker)'
  BY <1>1, <1>3 DEF HCInv, Inv, GoodBreakers, GoodBreaker
<1>5. MetricsTyped' /\ RequestsInPlace'
  BY ProbeShape DEF HCInv, Inv, RequestsInPlace, InPlace, Listed
<1>6. TaskTyped' /\ RoundGoesOn(ProbedKey)
  BY <1>1, ProbeShape, AdvanceEffect, ResetEffect, BreakEffect
<1> QED
  BY <1>1, <1>4, <1>5, <1>6 DEF Inv
-----------------------------------------------------------------------------
\* The task sleeps at the start, with nothing tracked,
LEMMA HCInvInit == HCInit => HCInv
<1> SUFFICES ASSUME HCInit PROVE HCInv
  OBVIOUS
<1>1. Inv
  BY InvInit DEF HCInit
<1>2. TaskTyped
  BY HealthCheckAssumption DEF HCInit, TaskTyped, Tasks, WaitTimes
<1>3. RoundDue
  BY DEF HCInit, RoundDue
<1> QED
  BY <1>1, <1>2, <1>3 DEF HCInv

\* the entries that a round starts with are due,
LEMMA WakeInv ==
  ASSUME HCInv, Wake
  PROVE  /\ HCInv'
         /\ task.pc = "sleeping"
         /\ task'.pc = "probing" => task'.todo = Due /\ Due # {}
<1>1. Due \subseteq DOMAIN ProbeOrder /\ wait \in WaitTimes /\ timer \in 0 .. Interval
  BY DEF Due, HCInv, TaskTyped
<1>2. /\ task' \in Tasks /\ timer' \in 0 .. Interval
      /\ \/ task'.pc = "sleeping"
         \/ task'.pc = "probing" /\ task'.todo = Due /\ Due # {}
  BY <1>1, ContinueTyped DEF Wake
<1>3. TaskTyped'
  BY <1>2 DEF Wake, HCInv, TaskTyped
<1>4. \A i \in Due : HasUpstream(ProbeOrder[i]) /\ Ripe(KeyOfEntry(ProbeOrder[i]))
  BY DEF Due
<1>5. RoundDue'
  BY <1>2, <1>4 DEF Wake, RoundDue, Ripe
<1>6. Inv'
  BY DEF Wake, vars, HCInv, Inv, GoodBreakers, MetricsTyped, RequestsInPlace, InPlace, Listed
<1> QED
  BY <1>2, <1>3, <1>5, <1>6 DEF HCInv, Wake

\* what is left after a probe still is, and so it stays while time passes.
LEMMA HCInvNext == HCInv /\ [HCNext]_allVars => HCInv'
<1> SUFFICES ASSUME HCInv, [HCNext]_allVars PROVE HCInv'
  OBVIOUS
<1>1. ASSUME UNCHANGED hcVars
      PROVE  TaskTyped' /\ RoundDue'
  BY <1>1 DEF hcVars, HCInv, TaskTyped, RoundDue, Ripe
<1>2. ASSUME NEW r \in Request, RequestStep(r)
      PROVE  HCInv'
  <2>1. [Next]_vars
    BY <1>2 DEF RequestStep, Next
  <2> QED
    BY <1>1, <1>2, <2>1, InvNext DEF RequestStep, HCInv
<1>3. CASE ProbeAnswer
  <2>1. /\ task.pc = "probing" /\ Inv' /\ TaskTyped' /\ RoundGoesOn(ProbedKey)
    BY <1>3, ProbeEffect
  <2>2. ASSUME task'.pc = "probing", NEW i \in task'.todo
        PROVE  HasUpstream(ProbeOrder[i]) /\ Ripe(KeyOfEntry(ProbeOrder[i]))'
    <3>1. i \in task.todo /\ KeyOfEntry(ProbeOrder[i]) # ProbedKey
      BY <2>1, <2>2 DEF RoundGoesOn
    <3>2. HasUpstream(ProbeOrder[i]) /\ Ripe(KeyOfEntry(ProbeOrder[i]))
      BY <2>1, <3>1 DEF HCInv, RoundDue
    <3>3. KeyOfEntry(ProbeOrder[i]) \in Key
      BY <3>1, <3>2, OrderTyped, EntryKey DEF HCInv, TaskTyped, Tasks
    <3>4. wait'[KeyOfEntry(ProbeOrder[i])] = wait[KeyOfEntry(ProbeOrder[i])]
      BY <2>1, <3>1, <3>3 DEF RoundGoesOn
    <3> QED
      BY <3>2, <3>4 DEF Ripe
  <2>3. RoundDue'
    BY <2>2 DEF RoundDue
  <2> QED
    BY <2>1, <2>3 DEF HCInv
<1>4. CASE HCTick
  <2>1. GoodBreakers(breaker)'
    BY <1>4, TickBreakers DEF HCTick, HCInv, Inv
  <2>2. MetricsTyped' /\ RequestsInPlace'
    BY <1>4 DEF HCTick, HCInv, Inv, MetricsTyped, RequestsInPlace, InPlace, Listed
  <2>3. \A t \in 0 .. Interval : Less(t) \in 0 .. Interval
    BY HealthCheckAssumption DEF Less
  <2>4. \A t \in {Untracked} \cup 0 .. BackoffMax :
            /\ Less(t) \in {Untracked} \cup 0 .. BackoffMax
            /\ t \in {Untracked, 0} => Less(t) = t
    BY HealthCheckAssumption DEF Less, Untracked
  <2>5. TaskTyped'
    BY <1>4, <2>3, <2>4 DEF HCTick, HCInv, TaskTyped, WaitTimes
  <2>6. ASSUME NEW k \in Key, Ripe(k)
        PROVE  Ripe(k)'
    BY <1>4, <2>4, <2>6 DEF HCTick, HCInv, TaskTyped, WaitTimes, Ripe
  <2>7. \A i \in task.todo : HasUpstream(ProbeOrder[i]) => KeyOfEntry(ProbeOrder[i]) \in Key
    BY OrderTyped, EntryKey DEF HCInv, TaskTyped, Tasks
  <2>8. RoundDue'
    BY <1>4, <2>6, <2>7 DEF HCTick, HCInv, RoundDue
  <2> QED
    BY <2>1, <2>2, <2>5, <2>8 DEF HCInv, Inv
<1>5. CASE UNCHANGED allVars
  <2>1. [Next]_vars /\ UNCHANGED hcVars
    BY <1>5 DEF allVars
  <2> QED
    BY <1>1, <2>1, InvNext DEF HCInv
<1> QED
  BY <1>2, <1>3, <1>4, <1>5, WakeInv DEF HCNext

\* HCInv holds throughout.
THEOREM HCInvHolds == HCSpec => []HCInv
  BY HCInvInit, HCInvNext, PTL DEF HCSpec

\* All variables keep their types, with the task and the requests interleaved
\* and whatever their calls end in; no next-probe time exceeds the cap.
THEOREM HCTypeCorrect == HCSpec => []HCTypeOK
<1>1. HCInv => HCTypeOK
  <2>1. Inv => TypeOK
    BY DEF Inv, TypeOK, GoodBreakers, MetricsTyped, RequestsInPlace
  <2> QED
    BY <2>1 DEF HCInv, HCTypeOK, TaskTyped, Tasks, WaitTimes
<1> QED
  BY <1>1, HCInvHolds, PTL
-----------------------------------------------------------------------------
\* What the requests are promised, with probes beside them.

\* To the router, every step but the answer to a probe is one of its own: also
\* time that passes for the task alone.
LEMMA RouterOrProbe ==
  ASSUME HCInv, [HCNext]_allVars
  PROVE  [Next]_vars \/ ProbeAnswer
<1>1. CASE HCTick
  <2>1. CASE \E k \in Key : CoolingDown(breaker[k])
    BY <1>1, <2>1 DEF HCTick, Next, Tick
  <2>2. CASE ~ \E k \in Key : CoolingDown(breaker[k])
    BY <1>1, <2>2 DEF HCTick, vars, Elapse, HCInv, Inv, GoodBreakers
  <2> QED
    BY <2>1, <2>2
<1>2. CASE Wake \/ UNCHANGED allVars
  BY <1>2 DEF Wake, allVars, vars
<1>3. CASE \E r \in Request : RequestStep(r)
  BY <1>3 DEF RequestStep, Next
<1> QED
  BY <1>1, <1>2, <1>3 DEF HCNext

\* A breaker is open exactly at the threshold, whichever of requests and probes
\* the answers come to, and in whatever order.
THEOREM BreakersConsistentWithProbes == HCSpec => []BreakerConsistent
<1>1. HCInv => BreakerConsistent
  BY DEF HCInv, Inv, GoodBreakers, GoodBreaker, BreakerConsistent
<1> QED
  BY <1>1, HCInvHolds, PTL

\* A probe that opens or closes a breaker under a request does not make it exceed
\* its attempts or come back to an upstream it has left,
THEOREM NeverRevisitsWithProbes == HCSpec => []NoRevisit
<1>1. HCInv => NoRevisit
  BY DEF HCInv, Inv, RequestsInPlace, InPlace, Listed, NoRevisit
<1> QED
  BY <1>1, HCInvHolds, PTL

\* The lists and walks of requests stay in order while probes change the breakers.
LEMMA InOrderWithProbes == HCSpec => []InOrder
<1>1. HCInit => InOrder
  BY InOrderInit DEF HCInit
<1>2. HCInv /\ InOrder /\ [HCNext]_allVars => InOrder'
  <2>1. HCInv /\ InOrder /\ ProbeAnswer => InOrder'
    BY ProbeShape DEF InOrder, Waits
  <2> QED
    BY <2>1, InOrderNext, RouterOrProbe DEF HCInv
<1> QED
  BY <1>1, <1>2, HCInvHolds, PTL DEF HCSpec

\* does not upset the order of its walk,
THEOREM PriorityIsRespectedWithProbes == HCSpec => []PriorityRespected
<1>1. InOrder => PriorityRespected
  BY DEF InOrder, Waits, PriorityRespected
<1> QED
  BY <1>1, InOrderWithProbes, PTL

\* does not make it skip an upstream that is open to it,
THEOREM NothingIsPassedOverWithProbes == HCSpec => NothingPassedOver
<1>1. HCInv /\ InOrder /\ [HCNext]_allVars => [\A r \in Request : PassesBlockedOnly(r)]_vars
  <2>1. HCInv /\ ProbeAnswer => \A r \in Request : PassesBlockedOnly(r)
    BY ProbeShape DEF PassesBlockedOnly
  <2> QED
    BY <2>1, PassesNext, RouterOrProbe DEF HCInv
<1> QED
  BY <1>1, HCInvHolds, InOrderWithProbes, PTL DEF HCSpec, NothingPassedOver

\* and does not let it past a breaker; probes themselves ask no breaker.
THEOREM CallsAreGatedWithProbes == HCSpec => CallsGated
<1>1. HCInv /\ [HCNext]_allVars => [GatedStep]_vars
  <2>1. HCInv /\ ProbeAnswer => GatedStep
    BY ProbeShape DEF GatedStep
  <2> QED
    BY <2>1, GatedNext, RouterOrProbe DEF HCInv
<1> QED
  BY <1>1, HCInvHolds, PTL DEF HCSpec, CallsGated

\* Nor does it give a request calls it had used up.
THEOREM CallsComeToAnEndWithProbes == HCSpec => CallsRunOut
<1>1. HCInv /\ [HCNext]_allVars => [CallsRunOutStep]_vars
  <2>1. HCInv /\ ProbeAnswer => CallsRunOutStep
    BY ProbeShape DEF CallsRunOutStep
  <2> QED
    BY <2>1, RunsOutNext, RouterOrProbe DEF HCInv
<1> QED
  BY <1>1, HCInvHolds, PTL DEF HCSpec, CallsRunOut

\* A probe reports to a half-open breaker without having taken a slot; still no
\* slot is left in use that belongs to no request's trial.
THEOREM NoSlotLeaksWithProbes ==
  ASSUME Faults = {}
  PROVE  HCSpec => []SlotsHeld
<1>1. HCInv /\ SlotsHeld /\ ProbeAnswer => SlotsHeld'
  <2> SUFFICES ASSUME HCInv, SlotsHeld, ProbeAnswer, NEW k \in Key
               PROVE  breaker'[k].half_open_probes <= Cardinality(Trials(k))
    BY ProbeShape DEF SlotsHeld, Trials
  <2>1. ProbedKey \in Key /\ GoodBreaker(breaker[ProbedKey])
    BY ProbeShape, ProbedTyped DEF HCInv, Inv, GoodBreakers
  <2>2. \A nb \in {RecordSuccess(breaker[ProbedKey])} \cup AfterProbeFailure(breaker[ProbedKey]) :
            nb = breaker[ProbedKey] \/ nb.half_open_probes = 0
    BY <2>1, RecordGood DEF AfterProbeFailure
  <2>3. \/ breaker'[k] = breaker[k]
        \/ breaker'[k].half_open_probes = 0
    BY <2>1, <2>2, ProbeShape DEF HCInv, Inv, GoodBreakers
  <2>4. Cardinality(Trials(k)) \in Nat
    BY RouterAssumption, FS_Subset, FS_CardinalityType DEF Trials
  <2> QED
    BY <2>3, <2>4 DEF SlotsHeld
<1>2. HCInv /\ SlotsHeld /\ [HCNext]_allVars => SlotsHeld'
  BY <1>1, HeldNext, RouterOrProbe DEF HCInv
<1>3. HCInit => SlotsHeld
  BY HeldInit DEF HCInit
<1> QED
  BY <1>2, <1>3, HCInvHolds, PTL DEF HCSpec
-----------------------------------------------------------------------------
\* The task changes when it wakes and when a probe ends, and only then.
LEMMA TaskSteps ==
  ASSUME HCInv, [HCNext]_allVars, task' # task
  PROVE  Wake \/ ProbeAnswer
  BY DEF HCNext, RequestStep, HCTick, hcVars, allVars

\* The sleep of the task ends before the next probe of any upstream.
LEMMA SleepsNoLonger ==
  ASSUME NEW w \in WaitTimes, NEW k \in Key, w[k] # Untracked
  PROVE  SleepFor(w) <= w[k]
<1> DEFINE times == {Interval} \cup {w[j] : j \in {j \in Key : w[j] # Untracked}}
<1>1. times \subseteq Nat
  BY HealthCheckAssumption DEF WaitTimes
<1>2. w[k] \in times
  OBVIOUS
<1>3. SleepFor(w) = CHOOSE t \in times : \A u \in times : t <= u
  BY DEF SleepFor
<1> HIDE DEF times
<1>4. \E t \in times : \A u \in times : t <= u
  BY <1>1, <1>2, LeastNat
<1> QED
  BY <1>2, <1>3, <1>4

\* A step that puts the task to sleep works with the next-probe times it leaves.
LEMMA SleepsByNewTimes ==
  ASSUME HCInv, Wake \/ ProbeAnswer, task'.pc = "sleeping"
  PROVE  timer' = SleepFor(wait')
<1>1. CASE Wake
  BY <1>1 DEF Wake, Continue, Sleep
<1>2. CASE ProbeAnswer
  <2>1. ResetBackoff \/ AdvanceBackoff \/ BreaksOff
    BY <1>2, ProbeShape
  <2>2. ASSUME NEW w, wait' = w, NextEntry(w) \/ Sleep(w)
        PROVE  timer' = SleepFor(wait')
    BY <2>2 DEF NextEntry, Continue, Sleep
  <2>3. CASE ResetBackoff
    BY <2>2, <2>3 DEF ResetBackoff
  <2>4. CASE AdvanceBackoff
    BY <2>2, <2>4 DEF AdvanceBackoff
  <2>5. CASE BreaksOff
    BY <2>2, <2>5 DEF BreaksOff
  <2> QED
    BY <2>1, <2>3, <2>4, <2>5
<1> QED
  BY <1>1, <1>2

\* However probes and rounds end, the task is awake when an upstream it has probed
\* may be probed again.
THEOREM TaskWakesInTime == HCSpec => []WakesInTime
<1>1. HCInit => WakesInTime
  BY DEF HCInit, WakesInTime
<1>2. ASSUME HCInv, HCInv', WakesInTime, [HCNext]_allVars
      PROVE  WakesInTime'
  <2>1. CASE Wake \/ ProbeAnswer
    <3>1. wait' \in WaitTimes
      BY <1>2 DEF HCInv, TaskTyped
    <3> QED
      BY <2>1, <3>1, <1>2, SleepsByNewTimes, SleepsNoLonger DEF WakesInTime
  <2>2. CASE HCTick
    <3> SUFFICES ASSUME task.pc = "sleeping", NEW k \in Key, wait'[k] # Untracked
                 PROVE  timer' <= wait'[k]
      BY <2>2 DEF HCTick, WakesInTime
    <3>1. timer \in Nat /\ wait[k] \in {Untracked} \cup Nat
      BY <1>2, HealthCheckAssumption DEF HCInv, TaskTyped, WaitTimes
    <3>2. timer' = Less(timer) /\ wait'[k] = Less(wait[k])
      BY <2>2 DEF HCTick
    <3>3. wait[k] # Untracked
      BY <3>2 DEF Less, Untracked
    <3>4. timer <= wait[k]
      BY <1>2, <3>3 DEF WakesInTime
    <3> QED
      BY <3>1, <3>2, <3>3, <3>4 DEF Less
  <2>3. CASE UNCHANGED hcVars
    BY <1>2, <2>3 DEF hcVars, WakesInTime
  <2> QED
    BY <1>2, <2>1, <2>2, <2>3 DEF HCNext, RequestStep, allVars
<1> QED
  BY <1>1, <1>2, HCInvHolds, PTL DEF HCSpec

\* No upstream is probed before its backoff is over, for any curve, any number
\* of virtual models that share it, and whatever aborts the rounds.
THEOREM BackoffIsRespected == HCSpec => BackoffRespected
<1> DEFINE Respects ==
        \A k \in Key :
            task'.pc = "probing" /\ task' # task /\ KeyOfEntry(Foremost(task'.todo)) = k => Ripe(k)
<1>1. HCInv /\ [HCNext]_allVars => Respects
  <2> SUFFICES ASSUME HCInv, [HCNext]_allVars, task'.pc = "probing", task' # task
               PROVE  Ripe(KeyOfEntry(Foremost(task'.todo)))
    OBVIOUS
  <2>1. CASE Wake
    <3>1. task'.todo = Due /\ Due # {} /\ Due \subseteq DOMAIN ProbeOrder
      BY <2>1, WakeInv DEF Due
    <3>2. \E i \in Due : Foremost(Due) = ProbeOrder[i]
      BY <3>1, ForemostIn
    <3> QED
      BY <3>1, <3>2 DEF Due
  <2>2. CASE ProbeAnswer
    <3>1. /\ task.pc = "probing"
          /\ task'.todo \subseteq task.todo /\ task'.todo # {}
      BY <2>2, ProbeEffect DEF RoundGoesOn
    <3>2. task'.todo \subseteq DOMAIN ProbeOrder
      BY <3>1 DEF HCInv, TaskTyped, Tasks
    <3>3. \E i \in task'.todo : Foremost(task'.todo) = ProbeOrder[i]
      BY <3>1, <3>2, ForemostIn
    <3> QED
      BY <3>1, <3>3 DEF HCInv, RoundDue
  <2> QED
    BY <2>1, <2>2, TaskSteps
<1>2. HCInv /\ [HCNext]_allVars => [Respects]_allVars
  BY <1>1
<1> QED
  BY <1>2, HCInvHolds, PTL DEF HCSpec, BackoffRespected

\* As long as no exception cuts a round short, every probe puts the next one of
\* its upstream off by at least the base interval.  (Run overflow shows what
\* happens otherwise.)
THEOREM ProbesPutOff ==
  ASSUME Faults = {}, \A n \in 1 .. FailureCap : ~Overflows(n)
  PROVE  HCSpec => ProbePutsOffNext
<1> DEFINE PutsOff == \A k \in Key : Probing(k) /\ task' # task => wait'[k] >= BackoffBase
<1>1. HCInv /\ [HCNext]_allVars => PutsOff
  <2> SUFFICES ASSUME HCInv, [HCNext]_allVars, task.pc = "probing", task' # task
               PROVE  wait'[ProbedKey] >= BackoffBase
    BY DEF Probing
  <2>1. ProbeAnswer
    BY TaskSteps DEF Wake
  <2>2. ResetBackoff \/ AdvanceBackoff
    BY <2>1, ProbeShape
  <2>3. BackoffBase \in Nat /\ BackoffMax \in Nat
    BY HealthCheckAssumption
  <2>4. CASE ResetBackoff
    BY <2>3, <2>4, ResetEffect
  <2>5. CASE AdvanceBackoff
    <3>1. wait'[ProbedKey] \in BackoffBase .. BackoffMax
      BY <2>5, AdvanceEffect
    <3> QED
      BY <2>3, <3>1
  <2> QED
    BY <2>2, <2>4, <2>5
<1>2. HCInv /\ [HCNext]_allVars => [PutsOff]_allVars
  BY <1>1
<1> QED
  BY <1>2, HCInvHolds, PTL DEF HCSpec, ProbePutsOffNext
-----------------------------------------------------------------------------
\* The contract with probes.  WithProbes repeats Contract for the same mapping.

\* A step of the router is one of the contract with probes too.
LEMMA RouterStepMaps ==
  ASSUME HCInv, NEW r \in Request, RequestStep(r)
  PROVE  WithProbes!ContractNext
<1>1. CASE (\E vm \in VirtualModel : Arrive(r, vm)) \/ UnknownModel(r)
  <2>1. Contract!Begins(r)
    BY <1>1, IdleMaps DEF HCInv
  <2>2. WithProbes!Begins(r)
    BY <2>1 DEF Contract!Begins, WithProbes!Begins, Contract!CallsNext, WithProbes!CallsNext,
                Contract!Ends, WithProbes!Ends
  <2> QED
    BY <2>2 DEF WithProbes!ContractNext
<1>2. CASE Answer(r)
  <2>1. PICK k \in Key : KeysAwaited(req[r]) = {k} /\ Contract!Returns(r, k)
    BY <1>2, AnswerMaps DEF HCInv
  <2>2. WithProbes!Returns(r, k)
    BY <2>1 DEF Contract!Returns, WithProbes!Returns,
                Contract!AnsweredOk, WithProbes!AnsweredOk,
                Contract!AnsweredCallerError, WithProbes!AnsweredCallerError,
                Contract!FailsOver, WithProbes!FailsOver, Contract!Breaks, WithProbes!Breaks,
                Contract!CallsNext, WithProbes!CallsNext, Contract!Ends, WithProbes!Ends,
                Contract!Becomes, WithProbes!Becomes, Contract!Closed, WithProbes!Closed,
                Contract!AfterFailure, WithProbes!AfterFailure,
                Contract!AfterCallerError, WithProbes!AfterCallerError,
                Contract!Opened, WithProbes!Opened
  <2> QED
    BY <2>1, <2>2 DEF WithProbes!ContractNext
<1> QED
  BY <1>1, <1>2 DEF RequestStep

\* The key under probe, as the refinement mapping has it.
KeysProbed == IF task.pc = "probing" THEN {ProbedKey} ELSE {}
FailingKeys == {k \in Key : probe_failures[k] > 0}

\* What a round goes on with is another key.
LEMMA ProbeOverMaps ==
  ASSUME HCInv, NEW k \in Key, task.pc = "probing", TaskTyped', RoundGoesOn(k)
  PROVE  WithProbes!ProbeOver(k)
<1>1. CASE task'.pc = "sleeping"
  BY <1>1 DEF WithProbes!ProbeOver
<1>2. CASE /\ task'.pc = "probing" /\ task'.todo # {}
           /\ task'.todo = {i \in task.todo : KeyOfEntry(ProbeOrder[i]) # k}
  <2>1. task'.todo \subseteq DOMAIN ProbeOrder
    BY DEF TaskTyped, Tasks
  <2>2. PICK i \in task'.todo : Foremost(task'.todo) = ProbeOrder[i]
    BY <1>2, <2>1, ForemostIn
  <2>3. KeyOfEntry(ProbeOrder[i]) \in Key \ {k}
    BY <1>2, <2>1, <2>2, OrderTyped, EntryKey DEF HCInv, RoundDue
  <2>4. ProbedKey' = KeyOfEntry(ProbeOrder[i])
    BY <2>2 DEF ProbedKey, Probed
  <2> QED
    BY <1>2, <2>3, <2>4 DEF WithProbes!ProbeOver
<1> QED
  BY <1>1, <1>2 DEF RoundGoesOn

\* A probe is over in the contract too.
LEMMA ProbeMaps ==
  ASSUME HCInv, ProbeAnswer
  PROVE  \E k \in Key : KeysProbed = {k} /\ WithProbes!ProbeReturns(k)
<1>0. PICK k \in Key : k = ProbedKey
  BY ProbeEffect
<1> DEFINE b == breaker[k]
<1>1. /\ task.pc = "probing" /\ KeysProbed = {k}
      /\ TaskTyped' /\ RoundGoesOn(k)
      /\ GoodBreakers(breaker)
  <2>1. task.pc = "probing" /\ TaskTyped' /\ RoundGoesOn(ProbedKey)
    BY ProbeEffect
  <2> QED
    BY <1>0, <2>1 DEF KeysProbed, HCInv, Inv, RoundGoesOn
<1>2. WithProbes!ProbeOver(k)
  BY <1>1, ProbeOverMaps
<1>3. UNCHANGED <<[r \in Request |-> KeysAwaited(req[r])], [r \in Request |-> VerdictOf(req[r])]>>
  BY ProbeShape
<1>4. probe_failures \in [Key -> 0 .. FailureCap]
  BY DEF HCInv, TaskTyped
<1>5. ASSUME NEW nb, breaker' = [breaker EXCEPT ![k] = nb]
      PROVE  /\ nb = RecordSuccess(b) => WithProbes!Becomes(k, WithProbes!Closed(0))
             /\ nb \in AfterProbeFailure(b) => WithProbes!CountsAgainst(k)
  <2>1. Circuits(breaker)' = Circuits([breaker EXCEPT ![k] = nb])
    BY <1>5 DEF Circuits
  <2>2. /\ nb = RecordSuccess(b) => Contract!Becomes(k, Contract!Closed(0))
        /\ nb = RecordRetryableFailure(b)
              => Contract!Becomes(k, Contract!AfterFailure(Circuits(breaker)[k]))
        /\ nb = RecordNonRetryable(b)
              => Contract!Becomes(k, Contract!AfterCallerError(Circuits(breaker)[k]))
    BY <1>1, <2>1, RecordsMap
  <2>3. nb = b => UNCHANGED Circuits(breaker)
    BY <1>1, <1>5 DEF Circuits, GoodBreakers
  <2> QED
    BY <2>2, <2>3
       DEF AfterProbeFailure, Circuits, WithProbes!CountsAgainst,
           Contract!Becomes, WithProbes!Becomes, Contract!Closed, WithProbes!Closed,
           Contract!AfterFailure, WithProbes!AfterFailure,
           Contract!AfterCallerError, WithProbes!AfterCallerError,
           Contract!Opened, WithProbes!Opened
<1>6. CASE breaker' = [breaker EXCEPT ![k] = RecordSuccess(@)] /\ ResetBackoff
  <2>1. probe_failures' = [probe_failures EXCEPT ![k] = 0]
    BY <1>0, <1>1, <1>6, ResetEffect
  <2>2. FailingKeys' = FailingKeys \ {k}
    BY <1>1, <1>4, <2>1 DEF FailingKeys
  <2>3. WithProbes!ProbedOk(k)
    BY <1>5, <1>6, <2>2 DEF WithProbes!ProbedOk, FailingKeys
  <2> QED
    BY <1>1, <1>2, <1>3, <2>3 DEF WithProbes!ProbeReturns
<1>7. CASE /\ \E nb \in AfterProbeFailure(b) : breaker' = [breaker EXCEPT ![k] = nb]
           /\ AdvanceBackoff
  <2>1. \E n \in 1 .. FailureCap : probe_failures' = [probe_failures EXCEPT ![k] = n]
    BY <1>0, <1>1, <1>7, AdvanceEffect
  <2>2. FailingKeys' = FailingKeys \cup {k}
    BY <1>1, <1>4, <2>1 DEF FailingKeys
  <2>3. WithProbes!ProbedFailure(k)
    BY <1>5, <1>7, <2>2 DEF WithProbes!ProbedFailure, FailingKeys
  <2> QED
    BY <1>1, <1>2, <1>3, <2>3 DEF WithProbes!ProbeReturns
<1>8. CASE /\ \E nb \in AfterProbeFailure(b) : breaker' = [breaker EXCEPT ![k] = nb]
           /\ BreaksOff
  <2>1. task'.pc = "sleeping"
    BY <1>8, BreakEffect
  <2>2. WithProbes!ProbedBreakage(k)
    BY <1>5, <1>8, <2>1 DEF WithProbes!ProbedBreakage, BreaksOff
  <2> QED
    BY <1>1, <1>2, <1>3, <2>2 DEF WithProbes!ProbeReturns
<1> QED
  BY <1>0, <1>6, <1>7, <1>8, ProbeShape

\* A round starts in the contract when the task wakes and finds an upstream due.
LEMMA WakeMaps ==
  ASSUME HCInv, Wake
  PROVE  WithProbes!StartsRound \/ UNCHANGED WithProbes!probedVars
<1>1. /\ task.pc = "sleeping"
      /\ UNCHANGED vars /\ UNCHANGED probe_failures
      /\ task' \in Tasks
      /\ task'.pc = "probing" => task'.todo = Due /\ Due # {}
  BY WakeInv DEF Wake, HCInv, TaskTyped
<1>2. UNCHANGED <<WithProbes!contractVars, FailingKeys>>
  BY <1>1 DEF vars, WithProbes!contractVars, FailingKeys
<1>3. CASE task'.pc = "sleeping"
  <2>1. KeysProbed' = KeysProbed
    BY <1>1, <1>3 DEF KeysProbed
  <2> QED
    BY <1>2, <2>1 DEF WithProbes!probedVars, KeysProbed, FailingKeys
<1>4. CASE task'.pc = "probing"
  <2>1. Due \subseteq DOMAIN ProbeOrder
    BY DEF Due
  <2>2. PICK i \in Due : Foremost(Due) = ProbeOrder[i]
    BY <1>1, <1>4, <2>1, ForemostIn
  <2>3. KeyOfEntry(ProbeOrder[i]) \in Key
    BY <2>2, OrderTyped, EntryKey DEF Due
  <2>4. KeysProbed' = {KeyOfEntry(ProbeOrder[i])}
    BY <1>1, <1>4, <2>2 DEF KeysProbed, ProbedKey, Probed
  <2>5. KeysProbed = {}
    BY <1>1 DEF KeysProbed
  <2> QED
    BY <1>2, <2>3, <2>4, <2>5 DEF WithProbes!StartsRound, KeysProbed, FailingKeys
<1> QED
  BY <1>1, <1>3, <1>4 DEF Tasks

\* With probes and requests interleaved, for every pool, policy, backoff curve
\* and set of faults, the circuits keep the contract.
THEOREM ProbesKeep == HCSpec => ProbesKeepContract
<1>1. HCInit => WithProbes!ProbedInit
  <2> SUFFICES ASSUME HCInit PROVE WithProbes!ProbedInit
    OBVIOUS
  <2>1. \A k \in Key : CircuitOf(breaker[k]) = Contract!Closed(0)
    BY CircuitInitial DEF HCInit, Init
  <2>2. Idle("none").pc = "idle" /\ Idle("none").outcome = "none"
    BY DEF Idle, FreshRequest
  <2>3. \A r \in Request : KeysAwaited(req[r]) = {} /\ VerdictOf(req[r]) = "none"
    BY <2>2 DEF HCInit, Init, KeysAwaited, VerdictOf
  <2>4. WithProbes!ContractInit
    BY <2>1, <2>3 DEF WithProbes!ContractInit, WithProbes!Closed, Contract!Closed
  <2>5. KeysProbed = {} /\ FailingKeys = {}
    BY DEF HCInit, KeysProbed, FailingKeys
  <2> QED
    BY <2>4, <2>5 DEF WithProbes!ProbedInit, KeysProbed, FailingKeys
<1>2. HCInv /\ [HCNext]_allVars => [WithProbes!ProbedNext]_(WithProbes!probedVars)
  <2> SUFFICES ASSUME HCInv, [HCNext]_allVars
               PROVE  WithProbes!ProbedNext \/ UNCHANGED WithProbes!probedVars
    OBVIOUS
  <2>1. ASSUME UNCHANGED <<task, probe_failures>>
        PROVE  UNCHANGED <<KeysProbed, FailingKeys>>
    BY <2>1 DEF KeysProbed, ProbedKey, Probed, FailingKeys
  <2>2. ASSUME NEW r \in Request, RequestStep(r)
        PROVE  WithProbes!ProbedNext
    <3>1. UNCHANGED <<KeysProbed, FailingKeys>>
      BY <2>1, <2>2 DEF RequestStep, hcVars
    <3> QED
      BY <2>2, <3>1, RouterStepMaps DEF WithProbes!ProbedNext, KeysProbed, FailingKeys
  <2>3. CASE Wake
    BY <2>3, WakeMaps DEF WithProbes!ProbedNext
  <2>4. CASE ProbeAnswer
    <3>1. PICK k \in Key : KeysProbed = {k} /\ WithProbes!ProbeReturns(k)
      BY <2>4, ProbeMaps
    <3>2. k \in IF task.pc = "probing" THEN {ProbedKey} ELSE {}
      BY <3>1 DEF KeysProbed
    <3> QED
      BY <3>1, <3>2 DEF WithProbes!ProbedNext
  <2>5. CASE HCTick
    <3>1. UNCHANGED <<KeysProbed, FailingKeys>>
      BY <2>1, <2>5 DEF HCTick
    <3>2. \A k \in Key : CircuitOf(breaker'[k]) = WithProbes!Rested(CircuitOf(breaker[k]))
      BY <2>5, CircuitElapse
         DEF HCTick, HCInv, Inv, GoodBreakers, Contract!Rested, WithProbes!Rested
    <3>3. WithProbes!Rests
      BY <2>5, <3>2 DEF HCTick, WithProbes!Rests
    <3> QED
      BY <3>1, <3>3 DEF WithProbes!ProbedNext, WithProbes!ContractNext, KeysProbed, FailingKeys
  <2>6. CASE UNCHANGED allVars
    <3>1. UNCHANGED <<KeysProbed, FailingKeys>>
      BY <2>1, <2>6 DEF allVars, hcVars
    <3> QED
      BY <2>6, <3>1
         DEF allVars, vars, WithProbes!probedVars, WithProbes!contractVars, KeysProbed, FailingKeys
  <2> QED
    BY <2>2, <2>3, <2>4, <2>5, <2>6 DEF HCNext
<1> QED
  BY <1>1, <1>2, HCInvHolds, PTL DEF HCSpec, ProbesKeepContract, WithProbes!ProbedSpec
=============================================================================
