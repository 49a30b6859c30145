----------------------------- MODULE PoolProofs -----------------------------
(***************************************************************************)
(* Proofs about what /v1/pool shows of an upstream with an open breaker,   *)
(* with requests and probes recording in the same breakers and metrics.    *)
(***************************************************************************)
EXTENDS HealthCheckProofs

\* What the answer of a request or a probe may leave of the breaker of k and of
\* the entry of k under vm.
Counted(k, vm, nb, nm) ==
    LET m == metrics[vm][NameOf[k]] IN
    \/ nb = RecordSuccess(breaker[k]) /\ nm = RecordOk(m)
    \/ nb \in AfterProbeFailure(breaker[k]) /\ nm \in {RecordError(m), RecordErrorTorn(m)}

\* The breakers count what they count in b.
CountAs(b) == \A j \in Key : breaker'[j].consecutive_failures = b[j].consecutive_failures

\* A step that records nothing,
Silent == UNCHANGED metrics /\ CountAs(breaker)

\* one that leaves nb and nm of the breaker and the entry,
Leaves(k, vm, nb, nm) ==
    /\ metrics' = [metrics EXCEPT ![vm][NameOf[k]] = nm]
    /\ CountAs([breaker EXCEPT ![k] = nb])

\* and one that records an answer of k under vm.
Accounts(k, vm) ==
    /\ k \in Key
    /\ vm \in EntriesOf(k)
    /\ \E nb, nm : Counted(k, vm, nb, nm) /\ Leaves(k, vm, nb, nm)
-----------------------------------------------------------------------------
\* The answer to a request is recorded in one breaker and one entry, or nowhere.
LEMMA RequestAccounts ==
  ASSUME MetricsEnabled, Inv, NEW r \in Request, Answer(r)
  PROVE  Silent \/ \E k, vm : Accounts(k, vm)
<1> DEFINE q == req[r]
           k == KeyOf(q)
<1>1. InPlace(q) /\ (Answers(r) \/ Vanishes(r))
  BY AnswerShape DEF Inv, RequestsInPlace, GoodBreakers
<1>2. CASE Vanishes(r)
  BY <1>2 DEF Vanishes, Replies, Silent, CountAs
<1>3. CASE Answers(r)
  <2>1. PICK nb, nm :
          /\ Records(r, nb, nm)
          /\ metrics' = [metrics EXCEPT ![q.vm][NameOf[k]] = nm]
          /\ LET b == [breaker EXCEPT ![k] = nb] IN Calls(r, b) \/ Replies(r, b)
    BY <1>3 DEF Answers
  <2>2. k \in Key /\ q.vm \in EntriesOf(k)
    BY <1>1, InPlaceKey DEF EntriesOf, KeyOf, InPlace
  <2>3. GoodBreakers([breaker EXCEPT ![k] = nb])
    BY <1>1, <2>1, RecordsInv
  <2>4. CountAs([breaker EXCEPT ![k] = nb])
    BY <2>1, <2>3, ContinueCounts DEF CountAs
  <2>5. Counted(k, q.vm, nb, nm)
    BY <2>1 DEF Records, Counted, AfterProbeFailure
  <2> QED
    BY <2>1, <2>2, <2>4, <2>5 DEF Accounts, Leaves
<1> QED
  BY <1>1, <1>2, <1>3

\* So is the answer to a probe.
LEMMA ProbeAccounts ==
  ASSUME MetricsEnabled, HCInv, ProbeAnswer
  PROVE  Silent \/ \E k, vm : Accounts(k, vm)
<1> DEFINE k == ProbedKey
           vm == Probed.vm
           m == metrics[vm][NameOf[k]]
<1>1. task.pc = "probing"
  BY ProbeShape
<1>2. k \in Key /\ Probed \in Entries /\ HasUpstream(Probed)
  BY <1>1, ProbedTyped
<1>3. vm \in EntriesOf(k)
  BY <1>2, EntryKey DEF ProbedKey
<1>4. breaker \in [Key -> BreakerStates]
  BY DEF HCInv, Inv, GoodBreakers
<1>5. ASSUME NEW nb, NEW nm, Counted(k, vm, nb, nm),
             metrics' = [metrics EXCEPT ![vm][NameOf[k]] = nm],
             breaker' = [breaker EXCEPT ![k] = nb]
      PROVE  Accounts(k, vm)
  BY <1>2, <1>3, <1>5 DEF Accounts, Leaves, CountAs
<1>6. CASE ProbeSucceeds
  <2>1. Counted(k, vm, RecordSuccess(breaker[k]), RecordOk(m))
    BY DEF Counted
  <2>2. metrics' = [metrics EXCEPT ![vm][NameOf[k]] = RecordOk(m)]
    BY <1>6 DEF ProbeSucceeds, RecordAttempt
  <2>3. breaker' = [breaker EXCEPT ![k] = RecordSuccess(breaker[k])]
    BY <1>6 DEF ProbeSucceeds, Breakers
  <2> HIDE DEF k, vm, m
  <2> QED
    BY <1>5, <2>1, <2>2, <2>3
<1>7. ASSUME \E nb \in AfterProbeFailure(breaker[k]) : breaker' = [breaker EXCEPT ![k] = nb],
             RecordAttempt(vm, k, RecordError) \/ RecordAttempt(vm, k, RecordErrorTorn)
      PROVE  Accounts(k, vm)
  <2>1. PICK nb \in AfterProbeFailure(breaker[k]) : breaker' = [breaker EXCEPT ![k] = nb]
    BY <1>7
  <2>2. PICK nm \in {RecordError(m), RecordErrorTorn(m)} :
            metrics' = [metrics EXCEPT ![vm][NameOf[k]] = nm]
    BY <1>7 DEF RecordAttempt
  <2>3. Counted(k, vm, nb, nm)
    BY <2>1, <2>2 DEF Counted
  <2> HIDE DEF k, vm, m
  <2> QED
    BY <1>5, <2>1, <2>2, <2>3
<1>8. ASSUME NEW s,
             breaker' = IF RetryableStatus(s) THEN Breakers(k, RecordRetryableFailure)
                                              ELSE Breakers(k, RecordNonRetryable)
      PROVE  \E nb \in AfterProbeFailure(breaker[k]) : breaker' = [breaker EXCEPT ![k] = nb]
  BY <1>8 DEF Breakers, AfterProbeFailure
<1>9. ASSUME NEW counts, ProbeTransportFailure(counts)
      PROVE  \E nb \in AfterProbeFailure(breaker[k]) : breaker' = [breaker EXCEPT ![k] = nb]
  <2>1. breaker = [breaker EXCEPT ![k] = breaker[k]]
    BY <1>4
  <2>2. breaker' = Breakers(k, RecordRetryableFailure) \/ breaker' = breaker
    BY <1>9 DEF ProbeTransportFailure
  <2> QED
    BY <2>1, <2>2 DEF Breakers, AfterProbeFailure
<1>10. ASSUME NEW s \in Status, ProbeHttpError(s) \/ ProbeTornErrorBody(s)
       PROVE  Accounts(k, vm)
  <2>1. RecordAttempt(vm, k, RecordError) \/ RecordAttempt(vm, k, RecordErrorTorn)
    BY <1>10 DEF ProbeHttpError, ProbeTornErrorBody
  <2>2. breaker' = IF RetryableStatus(s) THEN Breakers(k, RecordRetryableFailure)
                                         ELSE Breakers(k, RecordNonRetryable)
    BY <1>10 DEF ProbeHttpError, ProbeTornErrorBody
  <2> QED
    BY <1>7, <1>8, <2>1, <2>2
<1>11. ASSUME NEW counts, ProbeTransportFailure(counts)
       PROVE  Accounts(k, vm)
  BY <1>7, <1>9, <1>11 DEF ProbeTransportFailure
<1>12. CASE ProbeUndecodableBody
  BY <1>12 DEF ProbeUndecodableBody, vars, Silent, CountAs
<1> QED
  BY <1>6, <1>10, <1>11, <1>12 DEF ProbeAnswer, ProbeTimeout, ProbeConnectionError

\* And nothing else is recorded.
LEMMA StepAccounts ==
  ASSUME MetricsEnabled, HCInv, [HCNext]_allVars
  PROVE  Silent \/ \E k, vm : Accounts(k, vm)
<1>1. ASSUME NEW r \in Request,
             (\E vm \in VirtualModel : Arrive(r, vm)) \/ UnknownModel(r)
      PROVE  Silent
  BY <1>1, IdleShape, ContinueCounts DEF HCInv, Inv, Silent, CountAs
<1>2. CASE HCTick
  BY <1>2, ElapseGood DEF HCTick, HCInv, Inv, GoodBreakers, Silent, CountAs
<1>3. CASE UNCHANGED vars
  BY <1>3 DEF vars, Silent, CountAs
<1> QED
  BY <1>1, <1>2, <1>3, RequestAccounts, ProbeAccounts
     DEF HCNext, RequestStep, Wake, HCInv, allVars
-----------------------------------------------------------------------------
\* While names are unique within a pool, what is recorded of k under vm shows
\* nowhere else.
LEMMA AccountsEffect ==
  ASSUME UniqueNames, Inv, NEW k \in Key, NEW vm \in EntriesOf(k), NEW nb, NEW nm,
         Leaves(k, vm, nb, nm)
  PROVE  /\ metrics'[vm][NameOf[k]] = nm
         /\ breaker'[k].consecutive_failures = nb.consecutive_failures
         /\ \A j \in Key : j # k =>
                breaker'[j].consecutive_failures = breaker[j].consecutive_failures
         /\ \A j \in Key : \A v \in EntriesOf(j) : j # k \/ v # vm =>
                metrics'[v][NameOf[j]] = metrics[v][NameOf[j]]
<1>1. vm \in VirtualModel /\ NameOf[k] \in UpstreamName
  BY RouterAssumption DEF EntriesOf
<1>2. metrics'[vm][NameOf[k]] = nm
  BY <1>1 DEF Inv, MetricsTyped, Leaves
<1>3. breaker'[k].consecutive_failures = nb.consecutive_failures
  BY DEF Inv, GoodBreakers, CountAs, Leaves
<1>4. \A j \in Key : j # k => breaker'[j].consecutive_failures = breaker[j].consecutive_failures
  BY DEF Inv, GoodBreakers, CountAs, Leaves
<1>5. ASSUME NEW j \in Key, NEW v \in EntriesOf(j), j # k \/ v # vm
      PROVE  metrics'[v][NameOf[j]] = metrics[v][NameOf[j]]
  <2>1. v \in VirtualModel /\ NameOf[j] \in UpstreamName
    BY RouterAssumption DEF EntriesOf
  <2>2. ~(v = vm /\ NameOf[j] = NameOf[k])
    <3>1. PICK p \in DOMAIN Pool[v] : KeyAt(v, p) = j
      BY DEF EntriesOf
    <3>2. PICK o \in DOMAIN Pool[vm] : KeyAt(vm, o) = k
      BY DEF EntriesOf
    <3> QED
      BY <1>1, <1>5, <3>1, <3>2 DEF UniqueNames
  <2> QED
    BY <1>1, <2>1, <2>2 DEF Inv, MetricsTyped, Leaves
<1> QED
  BY <1>2, <1>3, <1>4, <1>5

\* A failure raises the count of the entry and leaves it ahead of the breaker,
\* if it was.
LEMMA CountedFailure ==
  ASSUME NEW m \in MetricsStates, NEW b, GoodBreaker(b),
         NEW nb \in AfterProbeFailure(b), NEW nm \in {RecordError(m), RecordErrorTorn(m)}
  PROVE  /\ nm.consecutive_failures > 0
         /\ Leads(m, b) => Leads(nm, nb)
<1>1. /\ nm.consecutive_failures = OneMoreFailure(m.consecutive_failures)
      /\ nm.consecutive_failures = RecordError(m).consecutive_failures
      /\ nm.consecutive_failures = RecordErrorTorn(m).consecutive_failures
  <2>1. RecordError(m).consecutive_failures = OneMoreFailure(m.consecutive_failures)
    BY DEF RecordError
  <2>2. RecordErrorTorn(m).consecutive_failures = OneMoreFailure(m.consecutive_failures)
    BY DEF RecordErrorTorn, MetricsStates
  <2> QED
    BY <2>1, <2>2
<1>2. nm.consecutive_failures > 0
  BY <1>1, MetricsAssumption DEF OneMoreFailure, MetricsStates
<1>3. \A x, y, c : Leads(x, c) /\ y.consecutive_failures = x.consecutive_failures => Leads(y, c)
  BY DEF Leads
<1>4. ASSUME Leads(m, b) PROVE Leads(nm, nb)
  BY <1>1, <1>3, <1>4, RecordLeads DEF AfterProbeFailure
<1> QED
  BY <1>2, <1>4

\* A success clears both counts.
LEMMA CountedSuccess ==
  ASSUME NEW b, GoodBreaker(b)
  PROVE  RecordSuccess(b).consecutive_failures = 0
BY DEF RecordSuccess, InitialBreaker, GoodBreaker
-----------------------------------------------------------------------------
\* No probe lets a breaker get ahead of its metrics either.
LEMMA ProbesLead ==
  ASSUME MetricsEnabled, SoleOwners, UniqueNames
  PROVE  HCInv /\ MetricsLead /\ [HCNext]_allVars => MetricsLead'
<1> SUFFICES ASSUME HCInv, MetricsLead, [HCNext]_allVars,
                    NEW j \in Key, NEW v \in EntriesOf(j)
             PROVE  Leads(metrics'[v][NameOf[j]], breaker'[j])
  BY DEF MetricsLead, EntriesOf
<1>1. Leads(metrics[v][NameOf[j]], breaker[j])
  BY DEF MetricsLead
<1>2. CASE Silent
  BY <1>1, <1>2, LeadsByCount DEF Silent, CountAs
<1>3. ASSUME NEW k, NEW vm, Accounts(k, vm)
      PROVE  Leads(metrics'[v][NameOf[j]], breaker'[j])
  <2> DEFINE m == metrics[vm][NameOf[k]]
  <2>1. PICK nb, nm : Counted(k, vm, nb, nm) /\ Leaves(k, vm, nb, nm)
    BY <1>3 DEF Accounts
  <2>2. k \in Key /\ vm \in EntriesOf(k)
    BY <1>3 DEF Accounts
  <2>3. /\ metrics'[vm][NameOf[k]] = nm
        /\ breaker'[k].consecutive_failures = nb.consecutive_failures
        /\ j # k => breaker'[j].consecutive_failures = breaker[j].consecutive_failures
        /\ j # k => metrics'[v][NameOf[j]] = metrics[v][NameOf[j]]
    BY <2>1, <2>2, AccountsEffect DEF HCInv
  <2>4. CASE j # k
    BY <1>1, <2>3, <2>4, LeadsByCount
  <2>5. CASE j = k
    <3>1. v = vm
      BY <2>2, <2>5 DEF SoleOwners
    <3>2. m \in MetricsStates /\ GoodBreaker(breaker[k]) /\ Leads(m, breaker[k])
      BY <1>1, <2>2, <2>5, <3>1, RouterAssumption
         DEF HCInv, Inv, MetricsTyped, GoodBreakers, EntriesOf
    <3>3. Leads(nm, nb)
      BY <2>1, <3>2, CountedFailure, RecordLeads DEF Counted
    <3> QED
      BY <2>3, <2>5, <3>1, <3>3, LeadsByCount
  <2> QED
    BY <2>4, <2>5
<1> QED
  BY <1>2, <1>3, StepAccounts

\* With requests and probes on the same breakers and metrics, /v1/pool never
\* shows an upstream as healthy behind an open breaker, under the hypotheses of
\* PoolIsTruthful: also when a probe's transport failure does not count for the
\* breaker, or a tick is cut short.
THEOREM PoolIsTruthfulWithProbes ==
  ASSUME MetricsEnabled, SoleOwners, UniqueNames, DegradedThreshold <= FailureThreshold
  PROVE  HCSpec => []PoolTruthful
<1>1. HCInv /\ MetricsLead => PoolTruthful
  BY LeadIsTruthful DEF HCInv
<1>2. HCInv /\ MetricsLead /\ [HCNext]_allVars => MetricsLead'
  BY ProbesLead
<1>3. HCInit => MetricsLead
  BY LeadInit DEF HCInit
<1> QED
  BY <1>1, <1>2, <1>3, HCInvHolds, PTL DEF HCSpec
-----------------------------------------------------------------------------
\* The failures in a row that the entries of k count, entry by entry, as a set:
\* their number is the sum of the counts.
FailuresOf(k) ==
    {f \in EntriesOf(k) \X (1 .. DownThreshold) :
        f[2] <= metrics[f[1]][NameOf[k]].consecutive_failures}

\* Some entry of k has counted as far as it ever will.
Saturated(k) ==
    \E vm \in EntriesOf(k) : metrics[vm][NameOf[k]].consecutive_failures = DownThreshold

\* Between them, the entries of an upstream count the failures of its breaker.
FailuresSpread ==
    \A k \in Key :
        Saturated(k) \/ breaker[k].consecutive_failures <= Cardinality(FailuresOf(k))

\* An upstream has finitely many entries, and these count finitely many failures.
LEMMA FailuresFinite ==
  ASSUME FewOwners, NEW k \in Key
  PROVE  /\ IsFiniteSet(FailuresOf(k)) /\ Cardinality(FailuresOf(k)) \in Nat
         /\ Cardinality(FailuresOf(k)') \in Nat
<1>1. IsFiniteSet(EntriesOf(k)) /\ IsFiniteSet(1 .. DownThreshold)
  BY FS_Interval, MetricsAssumption DEF FewOwners
<1>2. IsFiniteSet(EntriesOf(k) \X (1 .. DownThreshold))
  BY <1>1, FS_Product
<1>3. ASSUME NEW F \in SUBSET (EntriesOf(k) \X (1 .. DownThreshold))
      PROVE  IsFiniteSet(F) /\ Cardinality(F) \in Nat
  BY <1>2, FS_Subset, FS_CardinalityType
<1>4. FailuresOf(k) \in SUBSET (EntriesOf(k) \X (1 .. DownThreshold))
  BY DEF FailuresOf
<1>5. FailuresOf(k)' \in SUBSET (EntriesOf(k) \X (1 .. DownThreshold))
  BY DEF FailuresOf, EntriesOf
<1> QED
  BY <1>3, <1>4, <1>5

\* A failure counts for one at most, in the breaker and in the entry.
LEMMA OneFailure ==
  ASSUME NEW m \in MetricsStates, NEW b, GoodBreaker(b),
         NEW nb \in AfterProbeFailure(b), NEW nm \in {RecordError(m), RecordErrorTorn(m)}
  PROVE  /\ nb.consecutive_failures <= b.consecutive_failures + 1
         /\ nm.consecutive_failures = OneMoreFailure(m.consecutive_failures)
<1>1. nb.consecutive_failures <= b.consecutive_failures + 1
  <2>1. /\ b.consecutive_failures \in 0 .. FailureThreshold
        /\ IsOpen(b) => b.consecutive_failures = FailureThreshold
    BY DEF GoodBreaker, BreakerStates
  <2>2. RecordRetryableFailure(b).consecutive_failures <= b.consecutive_failures + 1
    BY <2>1, BreakerAssumption DEF RecordRetryableFailure, Armed, GoodBreaker, BreakerStates
  <2>3. RecordNonRetryable(b).consecutive_failures <= b.consecutive_failures + 1
    BY <2>1, BreakerAssumption DEF RecordNonRetryable, Armed, GoodBreaker, BreakerStates
  <2> QED
    BY <2>1, <2>2, <2>3 DEF AfterProbeFailure
<1>2. nm.consecutive_failures = OneMoreFailure(m.consecutive_failures)
  <2>1. RecordError(m).consecutive_failures = OneMoreFailure(m.consecutive_failures)
    BY DEF RecordError
  <2>2. RecordErrorTorn(m).consecutive_failures = OneMoreFailure(m.consecutive_failures)
    BY DEF RecordErrorTorn, MetricsStates
  <2> QED
    BY <2>1, <2>2
<1> QED
  BY <1>1, <1>2

\* It is one more failure in the set, unless the entry has stopped counting.
LEMMA FailureAdds ==
  ASSUME FewOwners, NEW k \in Key, NEW vm \in EntriesOf(k), NEW n \in 0 .. DownThreshold,
         metrics[vm][NameOf[k]].consecutive_failures = n, n < DownThreshold,
         metrics'[vm][NameOf[k]].consecutive_failures = n + 1,
         \A v \in EntriesOf(k) : v # vm => metrics'[v][NameOf[k]] = metrics[v][NameOf[k]]
  PROVE  Cardinality(FailuresOf(k)') = Cardinality(FailuresOf(k)) + 1
<1>1. n + 1 \in 1 .. DownThreshold
  BY MetricsAssumption
<1>2. <<vm, n + 1>> \notin FailuresOf(k)
  BY <1>1 DEF FailuresOf
<1>3. FailuresOf(k)' = FailuresOf(k) \cup {<<vm, n + 1>>}
  <2>1. EntriesOf(k)' = EntriesOf(k)
    BY DEF EntriesOf
  <2>2. ASSUME NEW v \in EntriesOf(k), NEW i \in 1 .. DownThreshold
        PROVE  i <= metrics'[v][NameOf[k]].consecutive_failures
                 <=> i <= metrics[v][NameOf[k]].consecutive_failures \/ <<v, i>> = <<vm, n + 1>>
    BY <1>1, <2>2, MetricsAssumption
  <2> QED
    BY <1>1, <2>1, <2>2 DEF FailuresOf
<1> QED
  BY <1>2, <1>3, FailuresFinite, FS_AddElement

\* What changes an entry of k counts in the set as it does in the breaker; a
\* success may take failures out of the set, but then the breaker counts none.
LEMMA FailuresStaySpread ==
  ASSUME MetricsEnabled, UniqueNames, FewOwners
  PROVE  HCInv /\ FailuresSpread /\ [HCNext]_allVars => FailuresSpread'
<1> SUFFICES ASSUME HCInv, FailuresSpread, [HCNext]_allVars, NEW j \in Key
             PROVE  \/ Saturated(j)'
                    \/ breaker'[j].consecutive_failures <= Cardinality(FailuresOf(j)')
  BY DEF FailuresSpread
<1>1. ASSUME \A v \in EntriesOf(j) : metrics'[v][NameOf[j]] = metrics[v][NameOf[j]],
             breaker'[j].consecutive_failures = breaker[j].consecutive_failures
      PROVE  \/ Saturated(j)'
             \/ breaker'[j].consecutive_failures <= Cardinality(FailuresOf(j)')
  <2>1. FailuresOf(j)' = FailuresOf(j)
    BY <1>1 DEF FailuresOf, EntriesOf
  <2>2. Saturated(j) => Saturated(j)'
    BY <1>1 DEF Saturated, EntriesOf
  <2> QED
    BY <1>1, <2>1, <2>2 DEF FailuresSpread
<1>2. CASE Silent
  BY <1>1, <1>2 DEF Silent, CountAs
<1>3. ASSUME NEW k, NEW vm, Accounts(k, vm)
      PROVE  \/ Saturated(j)'
             \/ breaker'[j].consecutive_failures <= Cardinality(FailuresOf(j)')
  <2> DEFINE m == metrics[vm][NameOf[k]]
  <2>1. PICK nb, nm : Counted(k, vm, nb, nm) /\ Leaves(k, vm, nb, nm)
    BY <1>3 DEF Accounts
  <2>2. k \in Key /\ vm \in EntriesOf(k)
    BY <1>3 DEF Accounts
  <2>3. /\ metrics'[vm][NameOf[k]] = nm
        /\ breaker'[k].consecutive_failures = nb.consecutive_failures
        /\ j # k => breaker'[j].consecutive_failures = breaker[j].consecutive_failures
        /\ \A v \in EntriesOf(j) : j # k \/ v # vm =>
               metrics'[v][NameOf[j]] = metrics[v][NameOf[j]]
    BY <2>1, <2>2, AccountsEffect DEF HCInv
  <2>4. CASE j # k
    BY <1>1, <2>3, <2>4
  <2>5. ASSUME j = k, nb = RecordSuccess(breaker[k])
        PROVE  breaker'[j].consecutive_failures <= Cardinality(FailuresOf(j)')
    <3>1. breaker'[j].consecutive_failures = 0
      BY <2>2, <2>3, <2>5, CountedSuccess DEF HCInv, Inv, GoodBreakers
    <3>2. Cardinality(FailuresOf(j)') \in Nat
      BY FailuresFinite
    <3> QED
      BY <3>1, <3>2
  <2>6. ASSUME j = k, nb \in AfterProbeFailure(breaker[k]), nm \in {RecordError(m), RecordErrorTorn(m)}
        PROVE  \/ Saturated(j)'
               \/ breaker'[j].consecutive_failures <= Cardinality(FailuresOf(j)')
    <3>1. m \in MetricsStates /\ GoodBreaker(breaker[k])
      BY <2>2, RouterAssumption DEF HCInv, Inv, MetricsTyped, GoodBreakers, EntriesOf
    <3>2. /\ nb.consecutive_failures <= breaker[k].consecutive_failures + 1
          /\ nm.consecutive_failures = OneMoreFailure(m.consecutive_failures)
      BY <2>6, <3>1, OneFailure
    <3>3. m.consecutive_failures \in 0 .. DownThreshold
      BY <3>1 DEF MetricsStates
    <3>4. CASE m.consecutive_failures = DownThreshold
      <4>1. metrics'[vm][NameOf[k]].consecutive_failures = DownThreshold
        BY <2>3, <3>2, <3>4, MetricsAssumption DEF OneMoreFailure
      <4> QED
        BY <2>2, <2>6, <4>1 DEF Saturated, EntriesOf
    <3>5. CASE m.consecutive_failures < DownThreshold
      <4>1. Cardinality(FailuresOf(k)') = Cardinality(FailuresOf(k)) + 1
        BY <2>2, <2>3, <2>6, <3>2, <3>3, <3>5, FailureAdds DEF OneMoreFailure
      <4>2. CASE Saturated(k)
        <5>1. PICK v \in EntriesOf(k) : metrics[v][NameOf[k]].consecutive_failures = DownThreshold
          BY <4>2 DEF Saturated
        <5>2. metrics'[v][NameOf[k]] = metrics[v][NameOf[k]]
          BY <2>3, <2>6, <3>5, <5>1, MetricsAssumption
        <5> QED
          BY <2>6, <5>1, <5>2 DEF Saturated, EntriesOf
      <4>3. CASE breaker[k].consecutive_failures <= Cardinality(FailuresOf(k))
        <5>1. Cardinality(FailuresOf(k)) \in Nat
          BY <2>2, FailuresFinite
        <5>2. nb.consecutive_failures \in Int /\ breaker[k].consecutive_failures \in Int
          BY <2>6, <3>1, RecordGood DEF AfterProbeFailure, GoodBreaker, BreakerStates
        <5> QED
          BY <2>3, <2>6, <3>2, <4>1, <4>3, <5>1, <5>2
      <4> QED
        BY <2>2, <4>2, <4>3 DEF FailuresSpread
    <3> QED
      BY <3>3, <3>4, <3>5, MetricsAssumption
  <2>7. \/ nb = RecordSuccess(breaker[k])
        \/ nb \in AfterProbeFailure(breaker[k]) /\ nm \in {RecordError(m), RecordErrorTorn(m)}
    BY <2>1 DEF Counted
  <2> HIDE DEF m
  <2> QED
    BY <2>4, <2>5, <2>6, <2>7
<1> QED
  BY <1>2, <1>3, StepAccounts

\* Also of an upstream that several virtual models share, an open breaker shows
\* under one of them, while they are few for the two thresholds: the failures of
\* the breaker are as many as those of its entries.
THEOREM OpenIsShown ==
  ASSUME MetricsEnabled, UniqueNames, FewOwners
  PROVE  HCSpec => []OpenShownSomewhere
<1>1. HCInv /\ FailuresSpread => OpenShownSomewhere
  <2> SUFFICES ASSUME HCInv, FailuresSpread, NEW k \in Key, IsOpen(breaker[k]),
                      \A vm \in EntriesOf(k) : Classify(metrics[vm][NameOf[k]]) = "healthy"
               PROVE  FALSE
    BY DEF OpenShownSomewhere
  <2>1. breaker[k].consecutive_failures = FailureThreshold
    BY DEF HCInv, Inv, GoodBreakers, GoodBreaker
  <2>2. ASSUME NEW vm \in EntriesOf(k)
        PROVE  metrics[vm][NameOf[k]].consecutive_failures \in 0 .. DegradedThreshold - 1
    <3>1. metrics[vm][NameOf[k]] \in MetricsStates
      BY RouterAssumption DEF HCInv, Inv, MetricsTyped, EntriesOf
    <3> QED
      BY <3>1, NotHealthy, MetricsAssumption DEF MetricsStates
  <2>3. ~Saturated(k)
    BY <2>2, MetricsAssumption DEF Saturated
  <2> DEFINE low == EntriesOf(k) \X (1 .. DegradedThreshold - 1)
  <2>4. FailuresOf(k) \in SUBSET low
    BY <2>2, MetricsAssumption DEF FailuresOf
  <2>5. /\ IsFiniteSet(low)
        /\ Cardinality(low) = Cardinality(EntriesOf(k)) * (DegradedThreshold - 1)
    <3>1. /\ IsFiniteSet(1 .. DegradedThreshold - 1)
          /\ Cardinality(1 .. DegradedThreshold - 1) = DegradedThreshold - 1
      BY FS_Interval, MetricsAssumption
    <3> QED
      BY <3>1, FS_Product DEF FewOwners
  <2>6. Cardinality(FailuresOf(k)) <= Cardinality(low)
    <3> HIDE DEF low
    <3> QED
      BY <2>4, <2>5, FS_Subset
  <2>7. Cardinality(low) < FailureThreshold
    BY <2>5 DEF FewOwners
  <2>8. Cardinality(FailuresOf(k)) \in Nat /\ Cardinality(low) \in Nat
    BY <2>5, FailuresFinite, FS_CardinalityType
  <2> HIDE DEF low
  <2> QED
    BY <2>1, <2>3, <2>6, <2>7, <2>8, BreakerAssumption DEF FailuresSpread
<1>2. HCInv /\ FailuresSpread /\ [HCNext]_allVars => FailuresSpread'
  BY FailuresStaySpread
<1>3. HCInit => FailuresSpread
  <2> SUFFICES ASSUME HCInit, NEW k \in Key
               PROVE  breaker[k].consecutive_failures <= Cardinality(FailuresOf(k))
    BY DEF FailuresSpread
  <2>1. breaker[k].consecutive_failures = 0
    BY DEF HCInit, Init, InitialBreaker
  <2> QED
    BY <2>1, FailuresFinite
<1> QED
  BY <1>1, <1>2, <1>3, HCInvHolds, PTL DEF HCSpec
=============================================================================
