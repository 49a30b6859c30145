---------------------------- MODULE ServiceProofs ----------------------------
(***************************************************************************)
(* Proofs about Service.tla: the configuration that is loaded, the streams *)
(* that are relayed and the clients in use, for any number of requests,    *)
(* clients, streams and lifespans.                                         *)
(***************************************************************************)
EXTENDS Service, RelayProofs, FiniteSetTheorems

Pooled(c) == c # NoClient /\ \E k \in Key : pool[k] = c

JobStates ==
    [pc : {"idle", "calling", "relaying", "delivered", "abandoned"},
     client : {NoClient} \cup DOMAIN clients,
     left : SUBSET Key,
     relay : Relays]

Settled(q) == IF q.pc = "delivered" THEN AllSettled(q.relay) ELSE LinesSettled(q.relay)

\* Each stream has gone out up to its last line, or as a whole.
StreamsSettled == \A j \in Job : Settled(job[j])

\* What is in use is in the pool, and what is in the pool is open.
UsersPooled ==
    /\ \A j \in Job : InFlight(j) => app \in {"serving", "draining"} /\ Pooled(job[j].client)
    /\ loop.client # NoClient => Pooled(loop.client)
    /\ \A k \in Key : pool[k] # NoClient => clients[pool[k]] = "open"

\* How far the shutdown has come.
Phases ==
    /\ app \notin {"serving", "draining", "stopping"} => pool = EmptyPool
    /\ closing # {} => app = "closing"
    /\ \A c \in closing : clients[c] = "open"
    /\ loop.pc = "cancelled" => app = "stopping"
    /\ loop.pc = "none" => loop = NoLoop

ServiceInv ==
    /\ ServiceTypeOK
    /\ StreamsSettled
    /\ UsersPooled
    /\ Phases
    /\ ClientsAccounted
    /\ TaskFollowsLifespan
-----------------------------------------------------------------------------
\* Taking a client from the pool, or putting a new one there, keeps the clients
\* in order and takes none from those who use them.
LEMMA UsesGood ==
  ASSUME ServiceTypeOK, UsersPooled, ClientsAccounted, NEW k \in Key, Uses(k),
         UNCHANGED <<app, closing>>
  PROVE  /\ clients' \in Seq({"open", "closed"})
         /\ DOMAIN clients \subseteq DOMAIN clients'
         /\ pool' \in [Key -> {NoClient} \cup DOMAIN clients']
         /\ ClientFor(k) \in DOMAIN clients' /\ ClientFor(k) # NoClient /\ pool'[k] = ClientFor(k)
         /\ \A c : Pooled(c) => Pooled(c)'
         /\ \A i \in Key : pool'[i] # NoClient => clients'[pool'[i]] = "open"
         /\ ClientsAccounted'
<1>1. /\ clients \in Seq({"open", "closed"}) /\ Len(clients) \in Nat /\ DOMAIN clients = 1 .. Len(clients)
      /\ pool \in [Key -> {NoClient} \cup DOMAIN clients]
  BY LenProperties DEF ServiceTypeOK
<1>2. CASE pool[k] = NoClient
  <2>1. clients' = Append(clients, "open") /\ pool' = [pool EXCEPT ![k] = Len(clients) + 1]
        /\ ClientFor(k) = Len(clients) + 1
    BY <1>2 DEF Uses, ClientFor
  <2>2. /\ clients' \in Seq({"open", "closed"}) /\ Len(clients') = Len(clients) + 1
        /\ DOMAIN clients' = 1 .. Len(clients) + 1
        /\ \A c \in 1 .. Len(clients) : clients'[c] = clients[c]
        /\ clients'[Len(clients) + 1] = "open"
    BY <1>1, <2>1
  <2>3. /\ pool'[k] = Len(clients) + 1 /\ \A i \in Key \ {k} : pool'[i] = pool[i]
        /\ pool' \in [Key -> {NoClient} \cup DOMAIN clients']
    BY <1>1, <2>1, <2>2
  <2>4. Len(clients) + 1 # NoClient /\ ClientFor(k) \in DOMAIN clients' /\ ClientFor(k) # NoClient /\ pool'[k] = ClientFor(k)
    BY <1>1, <2>1, <2>2, <2>3 DEF NoClient, Pooled
  <2>5. \A c : Pooled(c) => Pooled(c)'
    BY <1>2, <2>3 DEF Pooled
  <2>6. \A i \in Key : pool'[i] # NoClient => clients'[pool'[i]] = "open"
    BY <1>1, <2>2, <2>3 DEF UsersPooled
  <2>7. ClientsAccounted'
    <3> SUFFICES ASSUME NEW c \in 1 .. Len(clients) + 1, clients'[c] = "open"
                 PROVE  (\E i \in Key : pool'[i] = c) \/ c \in closing \/ app = "failed"
      BY <2>2 DEF ClientsAccounted
    <3>1. CASE c = Len(clients) + 1
      BY <2>3, <3>1
    <3>2. CASE c # Len(clients) + 1
      <4>1. c \in 1 .. Len(clients) /\ clients[c] = "open"
        BY <1>1, <2>2, <3>2
      <4>2. c \in closing \/ Pooled(c) \/ app = "failed"
        BY <1>1, <4>1 DEF ClientsAccounted, Pooled, NoClient
      <4> QED
        BY <4>2, <2>5 DEF Pooled
    <3> QED
      BY <3>1, <3>2
  <2> QED
    BY <1>1, <2>2, <2>3, <2>4, <2>5, <2>6, <2>7
<1>3. CASE pool[k] # NoClient
  <2>1. clients' = clients /\ pool' = pool /\ ClientFor(k) = pool[k]
    BY <1>1, <1>3 DEF Uses, ClientFor
  <2>2. pool[k] \in DOMAIN clients
    BY <1>1, <1>3
  <2>3. \A c : Pooled(c) => Pooled(c)'
    BY <2>1 DEF Pooled
  <2>4. \A i \in Key : pool'[i] # NoClient => clients'[pool'[i]] = "open"
    BY <2>1 DEF UsersPooled
  <2>5. ClientsAccounted'
    BY <2>1 DEF ClientsAccounted
  <2> QED
    BY <1>1, <1>3, <2>1, <2>2, <2>3, <2>4, <2>5
<1> QED
  BY <1>2, <1>3
\* A step of a request that takes no client keeps the invariant, as long as the
\* request does not go back to a call.
LEMMA JobStepOnlyKeeps ==
  ASSUME ServiceInv, NEW j \in Job, NEW new \in JobStates, JobStepOnly(j, new), Settled(new),
         new.pc \in {"calling", "relaying"} => InFlight(j) /\ new.client = job[j].client
  PROVE  ServiceInv'
<1>1. /\ job' = [job EXCEPT ![j] = new]
      /\ UNCHANGED <<app, config, starts, closing, loop, clients, pool>>
  BY DEF JobStepOnly, JobStep
<1>2. /\ job \in [Job -> JobStates]
      /\ job' \in [Job -> JobStates]
      /\ job'[j] = new /\ \A i \in Job \ {j} : job'[i] = job[i]
  BY <1>1 DEF ServiceInv, ServiceTypeOK, JobStates
<1>3. ServiceTypeOK'
  BY <1>1, <1>2 DEF ServiceInv, ServiceTypeOK, JobStates
<1>4. StreamsSettled'
  BY <1>2 DEF ServiceInv, StreamsSettled
<1>5. UsersPooled'
  <2>1. \A i \in Job : InFlight(i)' => InFlight(i) /\ job'[i].client = job[i].client
    BY <1>2 DEF InFlight
  <2> QED
    BY <1>1, <2>1 DEF ServiceInv, UsersPooled, Pooled
<1> QED
  BY <1>1, <1>3, <1>4, <1>5
     DEF ServiceInv, Phases, ClientsAccounted, TaskFollowsLifespan

\* So does calling an upstream, while requests are served.
LEMMA CallsKeep ==
  ASSUME ServiceInv, NEW j \in Job, NEW k \in Key, NEW left \in SUBSET Key,
         Calls(j, k, left), app \in {"serving", "draining"}
  PROVE  ServiceInv'
<1> DEFINE new == [pc |-> "calling", client |-> ClientFor(k), left |-> left, relay |-> EmptyRelay]
<1>1. /\ job' = [job EXCEPT ![j] = new]
      /\ UNCHANGED <<app, config, starts, closing, loop>>
      /\ Uses(k)
  BY DEF Calls, JobStep
<1>2. /\ clients' \in Seq({"open", "closed"})
      /\ DOMAIN clients \subseteq DOMAIN clients'
      /\ pool' \in [Key -> {NoClient} \cup DOMAIN clients']
      /\ ClientFor(k) \in DOMAIN clients' /\ ClientFor(k) # NoClient /\ pool'[k] = ClientFor(k)
      /\ \A c : Pooled(c) => Pooled(c)'
      /\ \A i \in Key : pool'[i] # NoClient => clients'[pool'[i]] = "open"
      /\ ClientsAccounted'
  BY <1>1, UsesGood DEF ServiceInv
<1>3. EmptyRelay \in Relays /\ LinesSettled(EmptyRelay)
  BY EmptySettled DEF LinesSettled
<1>4. new \in JobStates' /\ Settled(new) /\ new.client = ClientFor(k)
  BY <1>2, <1>3 DEF JobStates, Settled
<1> HIDE DEF new
<1>5. job \in [Job -> JobStates]
  BY DEF ServiceInv, ServiceTypeOK, JobStates
<1>6. job \in [Job -> JobStates']
  BY <1>2, <1>5 DEF JobStates
<1>7. /\ job' \in [Job -> JobStates']
      /\ job'[j] = new /\ \A i \in Job \ {j} : job'[i] = job[i]
  BY <1>1, <1>4, <1>6
<1>8. ServiceTypeOK'
  BY <1>1, <1>2, <1>7 DEF ServiceInv, ServiceTypeOK, JobStates
<1>9. StreamsSettled'
  BY <1>4, <1>7 DEF ServiceInv, StreamsSettled
<1>10. UsersPooled'
  <2>1. \A i \in Job \ {j} : InFlight(i)' => Pooled(job[i].client)'
    <3> SUFFICES ASSUME NEW i \in Job \ {j}, InFlight(i)'
                 PROVE  Pooled(job[i].client)'
      OBVIOUS
    <3>1. job'[i] = job[i] /\ InFlight(i)
      BY <1>7 DEF InFlight
    <3>2. Pooled(job[i].client)
      BY <3>1 DEF ServiceInv, UsersPooled
    <3> QED
      BY <1>2, <3>1, <3>2 DEF Pooled
  <2>2. Pooled(job[j].client)'
    BY <1>2, <1>4, <1>7 DEF Pooled
  <2>3. (loop.client # NoClient => Pooled(loop.client))'
    <3>1. loop.client # NoClient => Pooled(loop.client)
      BY DEF ServiceInv, UsersPooled
    <3> QED
      BY <1>1, <1>2, <3>1 DEF Pooled
  <2> QED
    BY <1>1, <1>2, <2>1, <2>2, <2>3 DEF UsersPooled
<1>11. Phases'
  BY <1>1 DEF ServiceInv, Phases
<1>12. TaskFollowsLifespan'
  BY <1>1 DEF ServiceInv, TaskFollowsLifespan
<1> QED
  BY <1>2, <1>8, <1>9, <1>10, <1>11, <1>12 DEF ServiceInv
\* What a request is left with when it ends is settled.
LEMMA IdleGood ==
  ASSUME ServiceInv, NEW j \in Job
  PROVE  /\ job[j] \in JobStates /\ job[j].relay \in Relays /\ Settled(job[j])
         /\ IdleJob \in JobStates /\ Settled(IdleJob) /\ IdleJob.pc = "idle"
<1>1. job[j] \in JobStates /\ Settled(job[j])
  BY DEF ServiceInv, ServiceTypeOK, JobStates, StreamsSettled
<1>2. EmptyRelay \in Relays /\ LinesSettled(EmptyRelay)
  BY EmptySettled DEF LinesSettled
<1> QED
  BY <1>1, <1>2 DEF IdleJob, JobStates, Settled

\* Each step of a request keeps the invariant.
LEMMA JobKeeps ==
  ASSUME ServiceInv, NEW j \in Job,
         (\E k \in Key : Arrive(j, k)) \/ CallEnds(j) \/ StreamGoesOn(j) \/ Collect(j)
  PROVE  ServiceInv'
<1> DEFINE q == job[j]
<1>1. /\ q \in JobStates /\ q.relay \in Relays /\ Settled(q)
      /\ IdleJob \in JobStates /\ Settled(IdleJob) /\ IdleJob.pc = "idle"
  BY IdleGood
<1>2. InFlight(j) => app \in {"serving", "draining"}
  BY DEF ServiceInv, UsersPooled
<1>3. ASSUME NEW k \in Key, Arrive(j, k) PROVE ServiceInv'
  BY <1>3, CallsKeep DEF Arrive
<1>4. ASSUME NEW k \in Key, FailsOver(j, k) PROVE ServiceInv'
  <2>1. q.left \ {k} \in SUBSET Key /\ app \in {"serving", "draining"}
    BY <1>1, <1>2, <1>4 DEF FailsOver, InFlight, JobStates
  <2> QED
    BY <1>4, <2>1, CallsKeep DEF FailsOver
<1>5. CASE Answered(j) \/ BreaksOff(j) \/ Collect(j)
  <2>1. JobStepOnly(j, IdleJob)
    BY <1>5 DEF Answered, BreaksOff, Collect
  <2> QED
    BY <1>1, <2>1, JobStepOnlyKeeps
<1>6. CASE StreamBegins(j)
  <2> DEFINE new == [q EXCEPT !.pc = "relaying"]
  <2>1. /\ new \in JobStates /\ Settled(new) /\ InFlight(j) /\ new.client = q.client
    BY <1>1, <1>6 DEF StreamBegins, JobStates, Settled, InFlight
  <2>2. JobStepOnly(j, new)
    BY <1>6 DEF StreamBegins
  <2> HIDE DEF new
  <2> QED
    BY <2>1, <2>2, JobStepOnlyKeeps
<1>7. CASE Abandon(j)
  <2> DEFINE new == [IdleJob EXCEPT !.pc = "abandoned", !.client = q.client]
  <2>1. /\ new \in JobStates /\ Settled(new) /\ new.pc = "abandoned"
    BY <1>1 DEF IdleJob, JobStates, Settled
  <2>2. JobStepOnly(j, new)
    BY <1>7 DEF Abandon
  <2> HIDE DEF new
  <2> QED
    BY <2>1, <2>2, JobStepOnlyKeeps
<1>8. CASE Chunk(j)
  <2> DEFINE r == q.relay
  <2>1. PICK body \in Bodies :
            \E n \in Len(r.received) + 1 .. Len(body) :
               JobStepOnly(j, [q EXCEPT !.relay = Feed(r, SubSeq(body, Len(r.received) + 1, n))])
    BY <1>8 DEF Chunk
  <2>2. PICK n \in Len(r.received) + 1 .. Len(body) :
           JobStepOnly(j, [q EXCEPT !.relay = Feed(r, SubSeq(body, Len(r.received) + 1, n))])
    BY <2>1
  <2>3. r.received \in Seq(Pieces) /\ Len(r.received) \in Nat
    BY <1>1, LenProperties DEF Relays
  <2>4. \A i \in 1 .. Len(body) : body[i] \in Pieces
    BY ServiceAssumption, ElementOfSeq
  <2>5. Len(body) \in Nat
    BY ServiceAssumption, LenProperties
  <2> DEFINE chunk == SubSeq(body, Len(r.received) + 1, n)
             new   == [q EXCEPT !.relay = Feed(r, chunk)]
  <2>6. chunk \in Seq(Pieces)
    BY <2>3, <2>4, <2>5, SubSeqProperties
  <2> HIDE DEF chunk
  <2>7. q.pc = "relaying" /\ LinesSettled(r)
    BY <1>1, <1>8 DEF Chunk, Settled
  <2>8. LinesSettled(Feed(r, chunk)) /\ Feed(r, chunk) \in Relays
    BY <2>6, <2>7, FeedSettles DEF LinesSettled
  <2>9. new \in JobStates /\ Settled(new) /\ InFlight(j) /\ new.client = q.client
    BY <1>1, <2>7, <2>8 DEF JobStates, Settled, InFlight
  <2>10. JobStepOnly(j, new)
    BY <2>2 DEF chunk
  <2> HIDE DEF new
  <2> QED
    BY <2>9, <2>10, JobStepOnlyKeeps
<1>9. CASE BodyEnds(j)
  <2> DEFINE new == [q EXCEPT !.pc = "delivered", !.relay = Flush(@)]
  <2>1. AllSettled(Flush(q.relay)) /\ Flush(q.relay) \in Relays
    BY <1>1, <1>9, FlushSettles DEF BodyEnds, Settled, AllSettled
  <2>2. new \in JobStates /\ new.pc = "delivered" /\ new.relay = Flush(q.relay)
    BY <1>1, <2>1 DEF JobStates
  <2>3. JobStepOnly(j, new)
    BY <1>9 DEF BodyEnds
  <2> HIDE DEF new
  <2> QED
    BY <2>1, <2>2, <2>3, JobStepOnlyKeeps DEF Settled
<1> QED
  BY <1>3, <1>4, <1>5, <1>6, <1>7, <1>8, <1>9 DEF CallEnds, StreamGoesOn
\* A step that touches no request, client or pool leaves what they are.
LEMMA LoopKeeps ==
  ASSUME ServiceInv, (\E k \in Key : LoopProbes(k)) \/ LoopAnswer \/ LoopCancelled
  PROVE  ServiceInv'
<1>1. ASSUME NEW k \in Key, LoopProbes(k) PROVE ServiceInv'
  <2>1. /\ loop.pc = "sleeping" /\ loop' = [pc |-> "probing", client |-> ClientFor(k)]
        /\ UNCHANGED <<app, config, starts, closing, job>>
        /\ Uses(k)
    BY <1>1 DEF LoopProbes
  <2>2. /\ clients' \in Seq({"open", "closed"})
        /\ DOMAIN clients \subseteq DOMAIN clients'
        /\ pool' \in [Key -> {NoClient} \cup DOMAIN clients']
        /\ ClientFor(k) \in DOMAIN clients' /\ ClientFor(k) # NoClient /\ pool'[k] = ClientFor(k)
        /\ \A c : Pooled(c) => Pooled(c)'
        /\ \A i \in Key : pool'[i] # NoClient => clients'[pool'[i]] = "open"
        /\ ClientsAccounted'
    BY <2>1, UsesGood DEF ServiceInv
  <2>3. job \in [Job -> JobStates]
    BY DEF ServiceInv, ServiceTypeOK, JobStates
  <2>4. job' \in [Job -> JobStates']
    BY <2>1, <2>2, <2>3 DEF JobStates
  <2>5. ServiceTypeOK'
    BY <2>1, <2>2, <2>4 DEF ServiceInv, ServiceTypeOK, JobStates
  <2>6. UsersPooled'
    <3>1. \A j \in Job : InFlight(j)' => InFlight(j) /\ job'[j] = job[j]
      BY <2>1 DEF InFlight
    <3>2. \A j \in Job : InFlight(j)' => Pooled(job[j].client)'
      <4> SUFFICES ASSUME NEW j \in Job, InFlight(j)' PROVE Pooled(job[j].client)'
        OBVIOUS
      <4>1. Pooled(job[j].client)
        BY <3>1 DEF ServiceInv, UsersPooled
      <4> QED
        BY <2>1, <2>2, <4>1 DEF Pooled
    <3>3. (loop.client # NoClient => Pooled(loop.client))'
      BY <2>1, <2>2 DEF Pooled
    <3> QED
      BY <2>1, <2>2, <3>1, <3>2, <3>3 DEF ServiceInv, UsersPooled
  <2>7. app \in {"serving", "draining"} /\ config.health_check.enabled
    BY <2>1 DEF ServiceInv, TaskFollowsLifespan
  <2>8. Phases' /\ StreamsSettled' /\ TaskFollowsLifespan'
    BY <2>1, <2>7 DEF ServiceInv, Phases, StreamsSettled, TaskFollowsLifespan
  <2> QED
    BY <2>2, <2>5, <2>6, <2>8 DEF ServiceInv
<1>2. CASE LoopAnswer
  BY <1>2
     DEF LoopAnswer, ServiceInv, ServiceTypeOK, StreamsSettled, UsersPooled, Phases,
         ClientsAccounted, TaskFollowsLifespan, InFlight, Pooled, NoClient
<1>3. CASE LoopCancelled
  BY <1>3
     DEF LoopCancelled, ServiceInv, ServiceTypeOK, StreamsSettled, UsersPooled, Phases,
         ClientsAccounted, TaskFollowsLifespan, InFlight, Pooled, NoClient, NoLoop
<1> QED
  BY <1>1, <1>2, <1>3

\* Nothing is closed that is in use, and nothing is lost.
LEMMA LifeKeeps ==
  ASSUME ServiceInv,
         Load \/ Startup \/ Drain \/ StopTask \/ CloseAll \/ CloseOne \/ CloseDone
  PROVE  ServiceInv'
<1>1. CASE Load
  BY <1>1
     DEF Load, ServiceInv, ServiceTypeOK, StreamsSettled, UsersPooled, Phases,
         ClientsAccounted, TaskFollowsLifespan, InFlight, Pooled
<1>2. CASE Startup
  <2>1. config'.health_check.enabled = config.health_check.enabled
    BY <1>2 DEF Startup, Running
  <2>2. loop.pc = "none"
    BY <1>2 DEF Startup, ServiceInv, ServiceTypeOK, TaskFollowsLifespan, Phases
  <2>3. /\ ~config.health_check.enabled => loop' = loop
        /\ config.health_check.enabled => loop' = [pc |-> "sleeping", client |-> NoClient]
    BY <1>2, <2>2 DEF Startup
  <2>4. starts' \in 0 .. MaxStarts
    BY <1>2, ServiceAssumption DEF Startup, ServiceInv, ServiceTypeOK
  <2>5. app' = "serving" /\ UNCHANGED <<clients, pool, closing, job>> /\ app \in {"loaded", "stopped"}
    BY <1>2 DEF Startup
  <2>6. ServiceTypeOK'
    BY <2>3, <2>4, <2>5 DEF ServiceInv, ServiceTypeOK
  <2>7. UsersPooled' /\ Phases' /\ ClientsAccounted' /\ StreamsSettled'
    BY <2>2, <2>3, <2>5
       DEF ServiceInv, UsersPooled, Phases, ClientsAccounted, StreamsSettled, InFlight, Pooled, NoLoop
  <2>8. TaskFollowsLifespan'
    BY <2>1, <2>2, <2>3, <2>5 DEF TaskFollowsLifespan
  <2> QED
    BY <2>6, <2>7, <2>8 DEF ServiceInv
<1>3. CASE Drain
  BY <1>3
     DEF Drain, ServiceInv, ServiceTypeOK, StreamsSettled, UsersPooled, Phases,
         ClientsAccounted, TaskFollowsLifespan, InFlight, Pooled
<1>4. CASE StopTask
  BY <1>4
     DEF StopTask, ServiceInv, ServiceTypeOK, StreamsSettled, UsersPooled, Phases,
         ClientsAccounted, TaskFollowsLifespan, InFlight, Pooled, NoLoop
<1>5. CASE CloseAll
  BY <1>5
     DEF CloseAll, ServiceInv, ServiceTypeOK, StreamsSettled, UsersPooled, Phases,
         ClientsAccounted, TaskFollowsLifespan, InFlight, Pooled, NoLoop, EmptyPool, NoClient
<1>6. CASE CloseOne
  BY <1>6
     DEF CloseOne, ServiceInv, ServiceTypeOK, StreamsSettled, UsersPooled, Phases,
         ClientsAccounted, TaskFollowsLifespan, InFlight, Pooled, NoLoop, EmptyPool, NoClient
<1>7. CASE CloseDone
  BY <1>7
     DEF CloseDone, ServiceInv, ServiceTypeOK, StreamsSettled, UsersPooled, Phases,
         ClientsAccounted, TaskFollowsLifespan, InFlight, Pooled
<1> QED
  BY <1>1, <1>2, <1>3, <1>4, <1>5, <1>6, <1>7

\* The invariant holds at the start,
LEMMA InitGood == ServiceInit => ServiceInv
<1> SUFFICES ASSUME ServiceInit PROVE ServiceInv
  OBVIOUS
<1>1. EmptyRelay \in Relays /\ LinesSettled(EmptyRelay)
  BY EmptySettled DEF LinesSettled
<1>2. clients = <<>> /\ clients \in Seq({"open", "closed"}) /\ DOMAIN clients = {}
  BY DEF ServiceInit
<1>3. ServiceTypeOK
  BY <1>1, <1>2, ServiceAssumption DEF ServiceInit, ServiceTypeOK, EmptyPool, NoLoop, IdleJob
<1>4. StreamsSettled
  BY <1>1 DEF ServiceInit, StreamsSettled, Settled, IdleJob
<1> QED
  BY <1>2, <1>3, <1>4
     DEF ServiceInit, ServiceInv, UsersPooled, Phases, ClientsAccounted, TaskFollowsLifespan,
         InFlight, IdleJob, NoLoop, EmptyPool

\* and every step keeps it.
LEMMA StepKeeps == ServiceInv /\ [ServiceNext]_serviceVars => ServiceInv'
<1> SUFFICES ASSUME ServiceInv, [ServiceNext]_serviceVars PROVE ServiceInv'
  OBVIOUS
<1>1. CASE ServiceNext
  BY <1>1, JobKeeps, LoopKeeps, LifeKeeps DEF ServiceNext, Shutdown
<1>2. CASE UNCHANGED serviceVars
  BY <1>2
     DEF serviceVars, ServiceInv, ServiceTypeOK, StreamsSettled, UsersPooled, Phases,
         ClientsAccounted, TaskFollowsLifespan, InFlight, Pooled
<1> QED
  BY <1>1, <1>2
\* so it always holds.
LEMMA ServiceInvHolds == ServiceSpec => []ServiceInv
BY InitGood, StepKeeps, PTL DEF ServiceSpec
-----------------------------------------------------------------------------
\* Every variable of the running process has its type.
THEOREM ServiceTypeCorrect == ServiceSpec => []ServiceTypeOK
<1>1. ServiceInv => ServiceTypeOK
  BY DEF ServiceInv
<1> QED
  BY <1>1, ServiceInvHolds, PTL

\* However a stream is cut into chunks, its client gets all of it, in order, each
\* event rewritten once.
THEOREM RelaysFaithfully == ServiceSpec => []RelayFaithful
<1>1. ServiceInv => RelayFaithful
  <2> SUFFICES ASSUME ServiceInv, NEW j \in Job
               PROVE  LET r == job[j].relay IN
                        /\ r.delivered \o Rewrite(r.remainder) = Rewrite(r.received)
                        /\ job[j].pc = "delivered" => r.remainder = <<>>
    BY DEF RelayFaithful
  <2>1. Settled(job[j])
    BY DEF ServiceInv, StreamsSettled
  <2>2. LinesSettled(job[j].relay) \/ AllSettled(job[j].relay)
    BY <2>1 DEF Settled
  <2>3. job[j].pc = "delivered" => job[j].relay.remainder = <<>>
    BY <2>1 DEF Settled, AllSettled
  <2> QED
    BY <2>2, <2>3, SettledFaithful
<1> QED
  BY <1>1, ServiceInvHolds, PTL

\* However a stream is cut into chunks, its client has what came up to the last line
\* feed, and nothing after it, until the stream ends.
THEOREM LinesComePromptly == ServiceSpec => []LinesPrompt
<1>1. ServiceInv => LinesPrompt
  <2> SUFFICES ASSUME ServiceInv, NEW j \in Job, job[j].pc = "relaying"
               PROVE  LET r == job[j].relay
                          n == Len(r.delivered) IN
                        /\ n # 0 => r.received[n] = "lf"
                        /\ \A i \in n + 1 .. Len(r.received) : r.received[i] # "lf"
    BY DEF LinesPrompt
  <2>1. LinesSettled(job[j].relay)
    BY DEF ServiceInv, StreamsSettled, Settled
  <2> QED
    BY <2>1, SettledPrompt
<1> QED
  BY <1>1, ServiceInvHolds, PTL

\* However a stream is cut into chunks, no event that a client gets names the
\* upstream's model.
THEOREM ModelStaysHidden == ServiceSpec => []ModelHidden
<1>1. ServiceInv => ModelHidden
  <2> SUFFICES ASSUME ServiceInv, NEW j \in Job
               PROVE  \A i \in DOMAIN job[j].relay.delivered : ~EventAt(job[j].relay.delivered, i)
    BY DEF ModelHidden
  <2>1. LinesSettled(job[j].relay) \/ AllSettled(job[j].relay)
    BY DEF ServiceInv, StreamsSettled, Settled
  <2> QED
    BY <2>1, SettledFaithful
<1> QED
  BY <1>1, ServiceInvHolds, PTL

\* Nothing is ever under way on a client that has been closed.
THEOREM NoCallOnClosedClient == ServiceSpec => []CallsOnOpenClients
<1>1. ServiceInv => CallsOnOpenClients
  <2> SUFFICES ASSUME ServiceInv PROVE CallsOnOpenClients
    OBVIOUS
  <2>1. \A c : Pooled(c) => clients[c] = "open"
    BY DEF ServiceInv, UsersPooled, Pooled
  <2> QED
    BY <2>1 DEF ServiceInv, UsersPooled, CallsOnOpenClients
<1> QED
  BY <1>1, ServiceInvHolds, PTL

\* Until a client.aclose() raises, every open client is in the pool or in the list
\* of those about to be closed.
THEOREM NoClientLost == ServiceSpec => []ClientsAccounted
<1>1. ServiceInv => ClientsAccounted
  BY DEF ServiceInv
<1> QED
  BY <1>1, ServiceInvHolds, PTL

\* The health check's task lives as long as the lifespan.
THEOREM TaskInLifespan == ServiceSpec => []TaskFollowsLifespan
<1>1. ServiceInv => TaskFollowsLifespan
  BY DEF ServiceInv
<1> QED
  BY <1>1, ServiceInvHolds, PTL

\* Where no lifespan is in progress and nothing is left to close, nothing is open.
LEMMA NoneOpen ==
  ASSUME ServiceInv, app \notin {"serving", "draining", "stopping", "failed"}, closing = {}
  PROVE  ClientsThatAre("open") = {}
<1> SUFFICES ASSUME NEW c \in DOMAIN clients PROVE clients[c] # "open"
  BY DEF ClientsThatAre
<1>1. clients \in Seq({"open", "closed"})
  BY DEF ServiceInv, ServiceTypeOK
<1>2. c \in 1 .. Len(clients) /\ clients[c] \in {"open", "closed"}
  BY <1>1
<1>3. c # NoClient
  BY <1>2 DEF NoClient
<1>4. pool = EmptyPool
  BY DEF ServiceInv, Phases
<1>5. c \notin closing /\ \A k \in Key : pool[k] # c
  BY <1>3, <1>4 DEF EmptyPool
<1> QED
  BY <1>5 DEF ServiceInv, ClientsAccounted

\* A shutdown leaves no request and no task behind, and no open client either
\* unless an exception has ended it.
THEOREM QuietAfterStop == ServiceSpec => []QuietWhenStopped
<1>1. ServiceInv => QuietWhenStopped
  <2> SUFFICES ASSUME ServiceInv, app \in {"stopped", "failed"}
               PROVE  /\ \A j \in Job : ~InFlight(j)
                      /\ loop = NoLoop
                      /\ app = "stopped" => ClientsThatAre("open") = {}
    BY DEF QuietWhenStopped
  <2>1. \A j \in Job : ~InFlight(j)
    BY DEF ServiceInv, UsersPooled
  <2>2. loop = NoLoop
    <3>1. loop.pc \in {"none", "sleeping", "probing", "cancelled"}
      BY DEF ServiceInv, ServiceTypeOK
    <3>2. loop.pc \notin {"sleeping", "probing"}
      BY DEF ServiceInv, TaskFollowsLifespan
    <3> QED
      BY <3>1, <3>2 DEF ServiceInv, Phases
  <2>3. app = "stopped" => ClientsThatAre("open") = {}
    <3>1. closing = {}
      BY DEF ServiceInv, Phases
    <3> QED
      BY <3>1, NoneOpen
  <2> QED
    BY <2>1, <2>2, <2>3
<1> QED
  BY <1>1, ServiceInvHolds, PTL
-----------------------------------------------------------------------------
\* The work of a shutdown.

OpenClients == ClientsThatAre("open")

\* There are finitely many clients.
LEMMA ClientsFinite ==
  ASSUME ServiceTypeOK
  PROVE  IsFiniteSet(OpenClients) /\ Cardinality(OpenClients) \in Nat
<1>1. Len(clients) \in Nat /\ DOMAIN clients = 1 .. Len(clients)
  BY LenProperties DEF ServiceTypeOK
<1>2. IsFiniteSet(DOMAIN clients)
  BY <1>1, FS_Interval
<1> QED
  BY <1>2, FS_Subset, FS_CardinalityType DEF OpenClients, ClientsThatAre

\* Closing a client leaves one fewer to close.
LEMMA OneFewerOpen ==
  ASSUME ServiceInv, CloseOne
  PROVE  /\ Cardinality(OpenClients') \in Nat
         /\ Cardinality(OpenClients') + 1 = Cardinality(OpenClients)
<1>1. PICK c \in closing : clients' = [clients EXCEPT ![c] = "closed"]
  BY DEF CloseOne
<1>2. c \in OpenClients
  BY DEF ServiceInv, ServiceTypeOK, Phases, OpenClients, ClientsThatAre
<1>3. OpenClients' = OpenClients \ {c}
  BY <1>1, <1>2 DEF OpenClients, ClientsThatAre
<1>4. IsFiniteSet(OpenClients) /\ Cardinality(OpenClients) \in Nat
  BY ClientsFinite DEF ServiceInv
<1>5. /\ IsFiniteSet(OpenClients \ {c})
      /\ Cardinality(OpenClients \ {c}) = Cardinality(OpenClients) - 1
  BY <1>2, <1>4, FS_RemoveElement
<1>6. Cardinality(OpenClients \ {c}) \in Nat
  BY <1>5, FS_CardinalityType
<1>7. Cardinality(OpenClients') = Cardinality(OpenClients \ {c})
  BY <1>3
<1> QED
  BY <1>4, <1>5, <1>6, <1>7

\* While a shutdown goes on, only its own steps and the ends of abandoned requests
\* are possible.
LEMMA OnlyShutdown ==
  ASSUME ServiceInv, app \in {"stopping", "closing"}, ServiceNext
  PROVE  LoopCancelled \/ CloseAll \/ CloseOne \/ CloseDone \/ \E j \in Job : Collect(j)
<1>1. \A j \in Job : ~InFlight(j)
  BY DEF ServiceInv, UsersPooled
<1>2. loop.pc \notin {"sleeping", "probing"}
  BY DEF ServiceInv, TaskFollowsLifespan
<1>3. ~ (Load \/ Startup \/ Drain \/ StopTask \/ \E j \in Job : \E k \in Key : Arrive(j, k))
  BY DEF Load, Startup, Drain, StopTask, Arrive
<1>4. ASSUME NEW j \in Job PROVE ~ (CallEnds(j) \/ StreamGoesOn(j))
  BY <1>1 DEF InFlight, CallEnds, StreamGoesOn, FailsOver, Answered, StreamBegins, Abandon,
              Chunk, BodyEnds, BreaksOff
<1>5. ~ (LoopAnswer \/ \E k \in Key : LoopProbes(k))
  BY <1>2 DEF LoopAnswer, LoopProbes
<1> QED
  BY <1>3, <1>4, <1>5 DEF ServiceNext, Shutdown

\* A shutdown gets nearer to its end with each of its steps, and nothing else that
\* can happen takes it further away, for any number of clients and requests.
THEOREM ShutdownGetsNearer == ServiceSpec => ShutdownAdvances
<1> DEFINE Advances == (app \in {"stopping", "closing"}) => ShutdownStep
<1>1. ServiceInv /\ [ServiceNext]_serviceVars => [Advances]_serviceVars
  <2> SUFFICES ASSUME ServiceInv, ServiceNext, app \in {"stopping", "closing"}
               PROVE  ShutdownStep
    OBVIOUS
  <2>1. ShutdownWork = (IF loop.pc = "none" THEN 0 ELSE 1) + Cardinality(OpenClients)
                          + (IF app = "stopping" THEN 2 ELSE 1)
    BY DEF ShutdownWork, OpenClients, ClientsThatAre
  <2>2. ShutdownWork' = (IF loop'.pc = "none" THEN 0 ELSE 1) + Cardinality(OpenClients')
                          + (CASE app' = "stopping" -> 2 [] app' = "closing" -> 1 [] OTHER -> 0)
    BY DEF ShutdownWork, OpenClients, ClientsThatAre
  <2>3. Cardinality(OpenClients) \in Nat
    BY ClientsFinite DEF ServiceInv
  <2>4. clients' = clients => Cardinality(OpenClients') = Cardinality(OpenClients)
    BY DEF OpenClients, ClientsThatAre
  <2>5. CASE LoopCancelled
    <3>1. loop.pc = "cancelled" /\ loop'.pc = "none" /\ clients' = clients /\ app' = app
      BY <2>5 DEF LoopCancelled, NoLoop
    <3> QED
      BY <2>1, <2>2, <2>3, <2>4, <3>1 DEF ShutdownStep
  <2>6. CASE CloseAll
    <3>1. app = "stopping" /\ app' = "closing" /\ loop' = loop /\ clients' = clients
      BY <2>6 DEF CloseAll
    <3> QED
      BY <2>1, <2>2, <2>3, <2>4, <3>1 DEF ShutdownStep
  <2>7. CASE CloseOne
    <3>1. app = "closing" /\ app' \in {"closing", "failed"} /\ loop' = loop
      BY <2>7 DEF CloseOne
    <3>2. /\ Cardinality(OpenClients') \in Nat
          /\ Cardinality(OpenClients') + 1 = Cardinality(OpenClients)
      BY <2>7, OneFewerOpen
    <3> QED
      BY <2>1, <2>2, <2>3, <3>1, <3>2 DEF ShutdownStep
  <2>8. CASE CloseDone
    <3>1. app = "closing" /\ app' = "stopped" /\ loop' = loop /\ clients' = clients
      BY <2>8 DEF CloseDone
    <3> QED
      BY <2>1, <2>2, <2>3, <2>4, <3>1 DEF ShutdownStep
  <2>9. ASSUME NEW j \in Job, Collect(j)
        PROVE  ShutdownStep
    <3>1. /\ job' = [job EXCEPT ![j] = IdleJob] /\ job[j].pc = "abandoned"
          /\ UNCHANGED <<app, config, starts, clients, pool, closing, loop>>
      BY <2>9 DEF Collect, JobStepOnly, JobStep
    <3>2. \A i \in Job : job'[i] # job[i] => i = j
      BY <3>1 DEF ServiceInv, ServiceTypeOK
    <3> QED
      BY <3>1, <3>2 DEF ShutdownStep
  <2> QED
    BY <2>5, <2>6, <2>7, <2>8, <2>9, OnlyShutdown
<1> QED
  BY <1>1, ServiceInvHolds, PTL DEF ServiceSpec, ShutdownAdvances
-----------------------------------------------------------------------------
\* An upstream that is accepted as the file has it is accepted as normalized.
LEMMA NormalUpstreamGood ==
  ASSUME NEW u, NEW providers, u.priority \in Int, u.weight \in Int,
         RawUpstreamAccepted(u, providers)
  PROVE  /\ NormalUpstreamAccepted(NormalUpstream(u, providers))
         /\ NormalUpstream(u, providers).priority \in Nat \ {0}
         /\ NormalUpstream(u, providers).weight \in Nat \ {0}
<1>1. /\ AtLeast(1, u.priority) \in Nat \ {0}
      /\ AtLeast(1, u.weight) \in Nat \ {0}
  BY DEF AtLeast
<1>2. u.provider = "" => u.name # ""
  BY DEF RawUpstreamAccepted
<1>3. Either(u.name, IF u.provider # "" THEN "provider:model" ELSE "") # ""
  BY <1>2 DEF Either
<1>4. /\ NormalUpstream(u, providers).priority \in Nat \ {0}
      /\ NormalUpstream(u, providers).weight \in Nat \ {0}
  BY <1>1 DEF NormalUpstream
<1>5. \A m \in Nat \ {0} : m >= 1
  OBVIOUS
<1> QED
  BY <1>1, <1>3, <1>4, <1>5
     DEF RawUpstreamAccepted, NormalUpstreamAccepted, NormalUpstream, ChoiceAccepted

\* A float that is clamped is a number, and one that was accepted stays what it is.
LEMMA ClampedFloat ==
  ASSUME NEW x \in Float, NEW low \in Int
  PROVE  /\ AtLeast(low, x) \in Int /\ AtLeast(low, x) >= low
         /\ ~Below(AtLeast(low, x), low)
         /\ x # NaN /\ ~Below(x, low) => AtLeast(low, x) = x
  BY ConfigAssumption DEF AtLeast, Below, Float

\* A file that is accepted makes a configuration that is accepted, but for the cap
\* of the backoff if that is NaN.
LEMMA NormalGood ==
  ASSUME NEW c, Typed(c), RawAccepted(c)
  PROVE  /\ NormalUpToCap(Normal(c)) /\ MeetsAssumptions(Normal(c))
         /\ c.health_check.backoff_max_seconds # NaN => NormalAccepted(Normal(c))
<1> DEFINE b == c.breaker
           h == c.health_check
           n == Normal(c)
<1>1. /\ BreakerAccepted(n.breaker)
      /\ n.breaker \in [failure_threshold : Nat \ {0}, cooldown_seconds : Nat,
                        half_open_max_probes : Nat \ {0}]
  <2>1. b.failure_threshold \in Int /\ b.cooldown_seconds \in Float /\ b.half_open_max_probes \in Int
    BY DEF Typed
  <2>2. AtLeast(0, b.cooldown_seconds) \in Nat /\ ~Below(AtLeast(0, b.cooldown_seconds), 0)
    BY <2>1, ClampedFloat
  <2>3. \A i \in Int : AtLeast(1, i) \in Nat \ {0} /\ AtLeast(1, i) >= 1
    BY ClampedFloat DEF Float
  <2>4. n.breaker = [failure_threshold    |-> AtLeast(1, b.failure_threshold),
                     cooldown_seconds     |-> AtLeast(0, b.cooldown_seconds),
                     half_open_max_probes |-> AtLeast(1, b.half_open_max_probes)]
    BY DEF Normal, NormalBreaker
  <2> QED
    BY <2>1, <2>2, <2>3, <2>4 DEF BreakerAccepted
<1>2. /\ HealthCheckLimits(n.health_check)
      /\ n.health_check.interval_seconds \in Nat \ {0}
      /\ n.health_check.backoff_base_seconds \in Nat \ {0}
      /\ n.health_check.backoff_max_seconds \in Nat
      /\ n.health_check.backoff_multiplier \in Nat /\ n.health_check.backoff_multiplier >= One
      /\ h.backoff_max_seconds # NaN => CapAccepted(n.health_check)
  <2>1. /\ h \in [enabled : BOOLEAN, interval_seconds : Float, probe_max_tokens : Int,
                  probe_timeout_seconds : Float, probe_statuses : SUBSET STRING,
                  backoff_base_seconds : Float, backoff_max_seconds : Float,
                  backoff_multiplier : Float]
        /\ HealthCheckLimits(h) /\ CapAccepted(h)
    BY DEF Typed, RawAccepted, HealthCheckAccepted
  <2>2. One \in Nat \ {0} /\ 5 * One \in Nat \ {0} /\ One \in Int /\ 5 * One \in Int
    BY ConfigAssumption
  <2>3. n.health_check = [enabled               |-> h.enabled,
                          interval_seconds      |-> AtLeast(5 * One, h.interval_seconds),
                          probe_max_tokens      |-> AtLeast(1, h.probe_max_tokens),
                          probe_timeout_seconds |-> AtLeast(One, h.probe_timeout_seconds),
                          probe_statuses        |-> h.probe_statuses,
                          backoff_base_seconds  |-> AtLeast(One, h.backoff_base_seconds),
                          backoff_max_seconds   |-> AtLeast(One, h.backoff_max_seconds),
                          backoff_multiplier    |-> AtLeast(One, h.backoff_multiplier)]
    BY DEF Normal, NormalHealthCheck
  <2> HIDE DEF n
  <2>4. AtLeast(1, h.probe_max_tokens) >= 1
    <3>1. h.probe_max_tokens \in Float
      BY <2>1 DEF Float
    <3> QED
      BY <3>1, ClampedFloat
  <2>5. \A x \in Float : /\ AtLeast(One, x) \in Nat \ {0} /\ AtLeast(One, x) >= One
                          /\ ~Below(AtLeast(One, x), One)
    <3> TAKE x \in Float
    <3>1. AtLeast(One, x) \in Int /\ AtLeast(One, x) >= One /\ ~Below(AtLeast(One, x), One)
      BY <2>2, ClampedFloat
    <3> QED
      BY <2>2, <3>1
  <2>6. AtLeast(5 * One, h.interval_seconds) \in Nat \ {0}
        /\ ~Below(AtLeast(5 * One, h.interval_seconds), 5 * One)
    <3>1. /\ AtLeast(5 * One, h.interval_seconds) \in Int
          /\ AtLeast(5 * One, h.interval_seconds) >= 5 * One
          /\ ~Below(AtLeast(5 * One, h.interval_seconds), 5 * One)
      BY <2>1, <2>2, ClampedFloat
    <3> QED
      BY <2>2, <3>1
  <2>7. HealthCheckLimits(n.health_check)
    BY <2>1, <2>3, <2>4, <2>5, <2>6 DEF HealthCheckLimits
  <2>8. ASSUME h.backoff_max_seconds # NaN
        PROVE  CapAccepted(n.health_check)
    <3> DEFINE base == h.backoff_base_seconds
               cap  == h.backoff_max_seconds
    <3>1. base \in Float /\ cap \in Float /\ ~Below(base, One) /\ ~Below(cap, base)
      BY <2>1 DEF HealthCheckLimits, CapAccepted
    <3> HIDE DEF base, cap
    <3>2. ~Below(AtLeast(One, cap), AtLeast(One, base))
      BY <2>2, <2>8, <3>1, ConfigAssumption DEF AtLeast, Below, Float, cap
    <3> QED
      BY <2>3, <3>2 DEF CapAccepted, base, cap
  <2> QED
    BY <2>1, <2>3, <2>5, <2>6, <2>7, <2>8
<1>3. n.max_attempts \in Nat \ {0}
  <2>1. c.max_attempts \in Int
    BY DEF Typed
  <2> QED
    BY <2>1 DEF Normal, AtLeast
<1>4. ASSUME NEW vm \in DOMAIN c.virtual_models
      PROVE  /\ n.virtual_models[vm] # <<>>
             /\ \A i \in DOMAIN n.virtual_models[vm] :
                    /\ NormalUpstreamAccepted(n.virtual_models[vm][i])
                    /\ n.virtual_models[vm][i].priority \in Nat \ {0}
                    /\ n.virtual_models[vm][i].weight \in Nat \ {0}
  <2> DEFINE us == c.virtual_models[vm]
  <2>1. /\ us # <<>> /\ \A i \in DOMAIN us : RawUpstreamAccepted(us[i], c.providers)
    BY <1>4 DEF RawAccepted
  <2> DEFINE Raw == [name : STRING, provider : STRING, base_url : STRING, api_key_env : STRING,
                    model : STRING, priority : Int, weight : Int, provider_pin : SUBSET STRING]
  <2>2. us \in Seq(Raw)
    BY <1>4 DEF Typed
  <2>3. n.virtual_models[vm] = [i \in DOMAIN us |-> NormalUpstream(us[i], c.providers)]
    BY <1>4 DEF Normal
  <2>4. \A i \in DOMAIN us : us[i].priority \in Int /\ us[i].weight \in Int
    <3>1. \A i \in DOMAIN us : us[i] \in Raw
      BY <2>2, ElementOfSeq, LenProperties
    <3> QED
      BY <3>1
  <2>5. \A i \in DOMAIN us : LET u == NormalUpstream(us[i], c.providers) IN
            /\ NormalUpstreamAccepted(u)
            /\ u.priority \in Nat \ {0} /\ u.weight \in Nat \ {0}
    BY <2>1, <2>4, NormalUpstreamGood
  <2>6. n.virtual_models[vm] # <<>>
    <3>1. DOMAIN us # {}
      BY <2>1, <2>2
    <3> QED
      BY <2>3, <3>1
  <2> QED
    BY <2>3, <2>5, <2>6
<1>5. ObservabilityAccepted(n.observability) /\ DOMAIN n.virtual_models = DOMAIN c.virtual_models
      /\ DOMAIN c.virtual_models # {}
  BY DEF Normal, RawAccepted
<1>6. /\ n.observability \in [metrics_window : Nat \ {0}, degraded_threshold : Nat \ {0},
                              down_threshold : Nat, degraded_error_pct : 0 .. 100 * One]
      /\ n.observability.down_threshold >= n.observability.degraded_threshold
  <2>1. n.observability = c.observability
    BY DEF Normal
  <2>2. c.observability \in [metrics_window : Int, degraded_threshold : Int,
                            down_threshold : Int, degraded_error_pct : Float]
    BY DEF Typed
  <2> QED
    BY <1>5, <2>1, <2>2 DEF ObservabilityAccepted
<1> HIDE DEF n
<1>7. NormalUpToCap(n)
  BY <1>1, <1>2, <1>4, <1>5 DEF NormalUpToCap
<1>8. MeetsAssumptions(n)
  BY <1>1, <1>2, <1>3, <1>4, <1>5, <1>6 DEF MeetsAssumptions, HealthCheckLimits
<1> QED
  BY <1>2, <1>7, <1>8 DEF n, NormalAccepted

\* Loading the file is the only step of a process that has not loaded it, and none
\* comes back to that.
LEMMA OnlyLoadLoads ==
  ASSUME [ServiceNext]_serviceVars
  PROVE  Load \/ UNCHANGED <<app, config>> \/ app' \notin {"unloaded", "loaded"}
  BY DEF ServiceNext, serviceVars, Startup, Drain, Arrive, CallEnds, StreamGoesOn, Shutdown,
         Calls, FailsOver, Answered, StreamBegins, Abandon, Chunk, BodyEnds, BreaksOff, Collect,
         JobStep, JobStepOnly, LoopProbes, LoopAnswer, LoopCancelled, StopTask, CloseAll,
         CloseOne, CloseDone

\* What is loaded would be accepted again, and what the other modules assume holds of
\* it, whatever numbers the file has, NaN among them; a cap of the backoff that is NaN
\* is the one exception, and only the cap's own check then fails.
THEOREM LoadsSoundly == ServiceSpec => LoadedIsSound
<1> DEFINE FileTyped == app = "unloaded" => Typed(config)
<1>1. ServiceInit => FileTyped
  BY ServiceAssumption DEF ServiceInit
<1>2. FileTyped /\ [ServiceNext]_serviceVars => FileTyped'
  BY OnlyLoadLoads DEF Load
<1>3. FileTyped /\ [ServiceNext]_serviceVars => [SoundLoad]_serviceVars
  <2> SUFFICES ASSUME FileTyped, ServiceNext, app = "unloaded", app' = "loaded"
               PROVE  /\ NormalUpToCap(config') /\ MeetsAssumptions(config')
                      /\ config.health_check.backoff_max_seconds # NaN => NormalAccepted(config')
    BY DEF SoundLoad
  <2>1. Load
    BY OnlyLoadLoads
  <2>2. RawAccepted(config) /\ config' = Normal(config) /\ Typed(config)
    BY <2>1 DEF Load
  <2> QED
    BY <2>2, NormalGood
<1> HIDE DEF FileTyped
<1> QED
  BY <1>1, <1>2, <1>3, PTL DEF ServiceSpec, LoadedIsSound
-----------------------------------------------------------------------------
\* The contract of the clients (ClientContract).

Lendings == [u \in Job \cup {Task} |-> Lent(u)]

\* No more clients are open than there are keys, until a shutdown sets them aside.
LEMMA FewOpen ==
  ASSUME ServiceTypeOK, ClientsAccounted, closing = {}, app # "failed"
  PROVE  Cardinality(ClientsThatAre("open")) <= Cardinality(Key)
<1> DEFINE K == {k \in Key : pool[k] # NoClient}
           P == {pool[k] : k \in K}
           f == [k \in K |-> pool[k]]
           O == ClientsThatAre("open")
<1>1. f \in Surjection(K, P)
  BY DEF Surjection
<1>2. IsFiniteSet(Key) /\ K \in SUBSET Key
  BY ServiceAssumption
<1> HIDE DEF K
<1>3. IsFiniteSet(K) /\ Cardinality(K) <= Cardinality(Key)
  BY <1>2, FS_Subset
<1> HIDE DEF f
<1>4. IsFiniteSet(P) /\ Cardinality(P) <= Cardinality(K)
  <2> HIDE DEF P
  <2> QED
    BY <1>1, <1>3, FS_Surjection
<1>5. O \in SUBSET P
  <2> SUFFICES ASSUME NEW c \in O PROVE c \in P
    OBVIOUS
  <2>1. c \in DOMAIN clients /\ clients[c] = "open"
    BY DEF ClientsThatAre
  <2>2. c # NoClient
    <3>1. DOMAIN clients = 1 .. Len(clients) /\ Len(clients) \in Nat
      BY LenProperties DEF ServiceTypeOK
    <3> QED
      BY <2>1, <3>1 DEF NoClient
  <2>3. \E k \in Key : pool[k] = c
    BY <2>1 DEF ClientsAccounted
  <2> QED
    BY <2>2, <2>3 DEF K
<1> HIDE DEF P, O
<1>6. IsFiniteSet(O) /\ Cardinality(O) <= Cardinality(P)
  BY <1>4, <1>5, FS_Subset
<1>7. /\ Cardinality(O) \in Nat /\ Cardinality(P) \in Nat
      /\ Cardinality(K) \in Nat /\ Cardinality(Key) \in Nat
  BY <1>2, <1>3, <1>4, <1>6, FS_CardinalityType
<1> QED
  BY <1>3, <1>4, <1>6, <1>7 DEF O

\* A step of one request changes what is lent to that request only,
LEMMA LentToJob ==
  ASSUME ServiceInv, NEW j \in Job, NEW new, job' = [job EXCEPT ![j] = new], UNCHANGED loop
  PROVE  LET c == IF new.pc \in {"calling", "relaying"} THEN new.client ELSE NoClient IN
         /\ Lendings' = [Lendings EXCEPT ![j] = c]
         /\ Lendings[j] = Lent(j)
         /\ Lent(j) = IF InFlight(j) THEN job[j].client ELSE NoClient
<1> DEFINE c == IF new.pc \in {"calling", "relaying"} THEN new.client ELSE NoClient
<1>1. job \in [Job -> JobStates] /\ j # Task /\ Task \notin Job
  BY ServiceAssumption DEF ServiceInv, ServiceTypeOK, JobStates
<1>2. job'[j] = new /\ \A i \in Job \ {j} : job'[i] = job[i]
  BY <1>1
<1>3. Lent(j)' = c /\ \A u \in (Job \cup {Task}) \ {j} : Lent(u)' = Lent(u)
  <2>1. Lent(j)' = c
    BY <1>1, <1>2 DEF Lent, InFlight
  <2>2. Lent(Task)' = Lent(Task)
    BY DEF Lent
  <2>3. \A i \in Job \ {j} : Lent(i)' = Lent(i)
    BY <1>1, <1>2 DEF Lent, InFlight
  <2> QED
    BY <2>1, <2>2, <2>3
<1>4. Lent(j) = IF InFlight(j) THEN job[j].client ELSE NoClient
  BY <1>1 DEF Lent
<1> HIDE DEF c
<1>5. Lendings' = [u \in Job \cup {Task} |-> Lent(u)']
  BY DEF Lendings
<1>6. Lendings' = [Lendings EXCEPT ![j] = c]
  BY <1>3, <1>5 DEF Lendings
<1> QED
  BY <1>4, <1>6 DEF c, Lendings

\* and a step of the task what is lent to it.
LEMMA LentToTask ==
  ASSUME ServiceInv, UNCHANGED job
  PROVE  /\ Lendings' = [Lendings EXCEPT ![Task] = loop'.client]
         /\ Lendings[Task] = loop.client
<1>1. \A j \in Job : Lent(j)' = Lent(j)
  BY ServiceAssumption DEF Lent, InFlight
<1>2. Lent(Task)' = loop'.client /\ Lent(Task) = loop.client
  BY DEF Lent
<1>3. Lendings' = [u \in Job \cup {Task} |-> Lent(u)']
  BY DEF Lendings
<1> QED
  BY <1>1, <1>2, <1>3 DEF Lendings

\* From stop() on nothing is lent but to the task.
LEMMA NothingLent ==
  ASSUME ServiceInv, app \notin {"serving", "draining"}
  PROVE  /\ \A j \in Job : Lendings[j] = NoClient
         /\ loop.pc = "none" => \A u \in Job \cup {Task} : Lendings[u] = NoClient
<1>1. \A j \in Job : Lendings[j] = NoClient
  BY ServiceAssumption DEF ServiceInv, UsersPooled, Lendings, Lent
<1>2. loop.pc = "none" => Lendings[Task] = NoClient
  BY DEF ServiceInv, Phases, NoLoop, Lendings, Lent
<1> QED
  BY <1>1, <1>2

\* To use a client of the pool, or to put a new one there, is to take it.
LEMMA UsesTakes ==
  ASSUME ServiceInv, ServiceTypeOK', app \in {"serving", "draining"}, NEW k \in Key, Uses(k),
         UNCHANGED <<app, closing>>, NEW u \in Job \cup {Task},
         Lendings' = [Lendings EXCEPT ![u] = ClientFor(k)]
  PROVE  Lending!Takes(u)
<1>1. /\ \A i \in Key : pool'[i] # NoClient => clients'[pool'[i]] = "open"
      /\ ClientFor(k) \in DOMAIN clients' /\ ClientFor(k) # NoClient /\ pool'[k] = ClientFor(k)
      /\ ClientsAccounted'
  BY UsesGood DEF ServiceInv
<1>2. closing = {} /\ closing' = {}
  BY DEF ServiceInv, Phases
<1>3. /\ clients \in Seq({"open", "closed"}) /\ Len(clients) \in Nat /\ DOMAIN clients = 1 .. Len(clients)
      /\ pool \in [Key -> {NoClient} \cup DOMAIN clients]
  BY LenProperties DEF ServiceInv, ServiceTypeOK
<1>4. /\ ClientsThatAre("open")' = ClientsThatAre("open") \cup {ClientFor(k)}
      /\ ClientsThatAre("closed")' = ClientsThatAre("closed")
      /\ ClientFor(k) \notin ClientsThatAre("closed")
  <2>1. CASE pool[k] = NoClient
    <3>1. clients' = Append(clients, "open") /\ ClientFor(k) = Len(clients) + 1
      BY <2>1 DEF Uses, ClientFor
    <3>2. /\ DOMAIN clients' = 1 .. Len(clients) + 1
          /\ \A c \in 1 .. Len(clients) : clients'[c] = clients[c]
          /\ clients'[Len(clients) + 1] = "open"
      BY <1>3, <3>1
    <3>3. Len(clients) + 1 \notin 1 .. Len(clients)
          /\ 1 .. Len(clients) + 1 = (1 .. Len(clients)) \cup {Len(clients) + 1}
      BY <1>3
    <3> QED
      BY <1>3, <3>1, <3>2, <3>3 DEF ClientsThatAre
  <2>2. CASE pool[k] # NoClient
    <3>1. clients' = clients /\ ClientFor(k) = pool[k]
      BY <2>2 DEF Uses, ClientFor
    <3>2. pool[k] \in DOMAIN clients /\ clients[pool[k]] = "open"
      BY <1>3, <2>2 DEF ServiceInv, UsersPooled
    <3> QED
      BY <3>1, <3>2 DEF ClientsThatAre
  <2> QED
    BY <2>1, <2>2
<1>5. Cardinality(ClientsThatAre("open")') <= Cardinality(Key)
  <2>1. (ServiceTypeOK /\ ClientsAccounted /\ closing = {} /\ app # "failed"
            => Cardinality(ClientsThatAre("open")) <= Cardinality(Key))'
    BY FewOpen, PTL
  <2> QED
    BY <1>1, <1>2, <2>1
<1>6. PhaseOf(app) = "up" /\ PhaseOf(app') = PhaseOf(app)
  BY DEF PhaseOf
<1>7. ClientFor(k) \in ClientsThatAre("open")'
  BY <1>4
<1>8. Lending!Cardinality(ClientsThatAre("open")') <= Cardinality(Key)
  BY <1>5 DEF Lending!Cardinality, Cardinality
<1> QED
  BY <1>1, <1>4, <1>6, <1>7, <1>8 DEF Lending!Takes, Lendings
\* Each step of a request is one of the contract, or none.
LEMMA JobLends ==
  ASSUME ServiceInv, ServiceTypeOK', NEW j \in Job,
         (\E k \in Key : Arrive(j, k)) \/ CallEnds(j) \/ StreamGoesOn(j) \/ Collect(j)
  PROVE  Lending!Takes(j) \/ Lending!GivesBack(j) \/ UNCHANGED Lending!clientVars
<1> DEFINE q == job[j]
<1>1. ASSUME NEW new, new.pc \notin {"calling", "relaying"}, JobStepOnly(j, new)
      PROVE  Lending!GivesBack(j) \/ UNCHANGED Lending!clientVars
  <2>1. job' = [job EXCEPT ![j] = new] /\ UNCHANGED <<app, config, starts, closing, loop, clients, pool>>
    BY <1>1 DEF JobStepOnly, JobStep
  <2>2. Lendings' = [Lendings EXCEPT ![j] = NoClient]
    BY <1>1, <2>1, LentToJob
  <2>3. UNCHANGED <<PhaseOf(app), ClientsThatAre("open"), ClientsThatAre("closed")>>
    BY <2>1 DEF ClientsThatAre
  <2>4. CASE Lendings[j] = NoClient
    <3>1. Lendings' = Lendings
      BY <2>2, <2>4 DEF Lendings
    <3> QED
      BY <2>3, <3>1 DEF Lending!clientVars, Lendings
  <2>5. CASE Lendings[j] # NoClient
    BY <2>2, <2>3, <2>5 DEF Lending!GivesBack, Lendings
  <2> QED
    BY <2>4, <2>5
<1>2. ASSUME NEW new, new.pc \in {"calling", "relaying"}, InFlight(j), new.client = q.client,
             JobStepOnly(j, new)
      PROVE  UNCHANGED Lending!clientVars
  <2>1. job' = [job EXCEPT ![j] = new] /\ UNCHANGED <<app, config, starts, closing, loop, clients, pool>>
    BY <1>2 DEF JobStepOnly, JobStep
  <2>2. Lendings' = [Lendings EXCEPT ![j] = Lendings[j]]
    BY <1>2, <2>1, LentToJob
  <2>3. Lendings' = Lendings
    BY <2>2 DEF Lendings
  <2> QED
    BY <2>1, <2>3 DEF Lending!clientVars, Lendings, ClientsThatAre
<1>3. ASSUME NEW k \in Key, NEW left, Calls(j, k, left), app \in {"serving", "draining"}
      PROVE  Lending!Takes(j)
  <2> DEFINE new == [pc |-> "calling", client |-> ClientFor(k), left |-> left, relay |-> EmptyRelay]
  <2>1. /\ job' = [job EXCEPT ![j] = new] /\ Uses(k)
        /\ UNCHANGED <<app, closing, loop>>
    BY <1>3 DEF Calls, JobStep
  <2>2. new.pc = "calling" /\ new.client = ClientFor(k)
    OBVIOUS
  <2> HIDE DEF new
  <2>3. Lendings' = [Lendings EXCEPT ![j] = ClientFor(k)]
    BY <2>1, <2>2, LentToJob
  <2> QED
    BY <1>3, <2>1, <2>3, UsesTakes
<1>4. InFlight(j) => app \in {"serving", "draining"}
  BY DEF ServiceInv, UsersPooled
<1>5. q \in JobStates
  BY DEF ServiceInv, ServiceTypeOK, JobStates
<1>6. ASSUME NEW k \in Key, Arrive(j, k) PROVE Lending!Takes(j)
  BY <1>3, <1>6 DEF Arrive
<1>7. ASSUME NEW k \in Key, FailsOver(j, k) PROVE Lending!Takes(j)
  BY <1>3, <1>4, <1>7 DEF FailsOver, InFlight
<1>8. CASE Answered(j) \/ BreaksOff(j) \/ Collect(j)
  <2>1. JobStepOnly(j, IdleJob) /\ IdleJob.pc = "idle"
    BY <1>8 DEF Answered, BreaksOff, Collect, IdleJob
  <2> QED
    BY <1>1, <2>1
<1>9. CASE Abandon(j)
  <2> DEFINE new == [IdleJob EXCEPT !.pc = "abandoned", !.client = q.client]
  <2>1. JobStepOnly(j, new) /\ new.pc = "abandoned"
    BY <1>9 DEF Abandon, IdleJob
  <2> HIDE DEF new
  <2> QED
    BY <1>1, <2>1
<1>10. CASE BodyEnds(j)
  <2> DEFINE new == [q EXCEPT !.pc = "delivered", !.relay = Flush(@)]
  <2>1. JobStepOnly(j, new) /\ new.pc = "delivered"
    BY <1>5, <1>10 DEF BodyEnds, JobStates
  <2> HIDE DEF new
  <2> QED
    BY <1>1, <2>1
<1>11. CASE StreamBegins(j)
  <2> DEFINE new == [q EXCEPT !.pc = "relaying"]
  <2>1. JobStepOnly(j, new) /\ new.pc = "relaying" /\ new.client = q.client /\ InFlight(j)
    BY <1>5, <1>11 DEF StreamBegins, InFlight, JobStates
  <2> HIDE DEF new
  <2> QED
    BY <1>2, <2>1
<1>12. CASE Chunk(j)
  <2>1. PICK s : JobStepOnly(j, [q EXCEPT !.relay = Feed(q.relay, s)])
    BY <1>12 DEF Chunk
  <2> DEFINE new == [q EXCEPT !.relay = Feed(q.relay, s)]
  <2>2. JobStepOnly(j, new) /\ new.pc = "relaying" /\ new.client = q.client /\ InFlight(j)
    BY <1>5, <1>12, <2>1 DEF Chunk, InFlight, JobStates
  <2> HIDE DEF new
  <2> QED
    BY <1>2, <2>2
<1> QED
  BY <1>6, <1>7, <1>8, <1>9, <1>10, <1>11, <1>12 DEF CallEnds, StreamGoesOn

\* So is each step of the task,
LEMMA LoopLends ==
  ASSUME ServiceInv, ServiceTypeOK', (\E k \in Key : LoopProbes(k)) \/ LoopAnswer \/ LoopCancelled
  PROVE  Lending!Takes(Task) \/ Lending!GivesBack(Task) \/ UNCHANGED Lending!clientVars
<1>1. ASSUME NEW k \in Key, LoopProbes(k) PROVE Lending!Takes(Task)
  <2>1. /\ Uses(k) /\ loop.pc = "sleeping" /\ loop'.client = ClientFor(k)
        /\ UNCHANGED <<app, closing, job>>
    BY <1>1 DEF LoopProbes
  <2>2. app \in {"serving", "draining"}
    BY <2>1 DEF ServiceInv, TaskFollowsLifespan
  <2>3. Lendings' = [Lendings EXCEPT ![Task] = ClientFor(k)]
    BY <2>1, LentToTask
  <2> QED
    BY <2>1, <2>2, <2>3, UsesTakes
<1>2. CASE LoopAnswer \/ LoopCancelled
  <2>1. loop'.client = NoClient /\ UNCHANGED <<app, clients, job>>
    BY <1>2 DEF LoopAnswer, LoopCancelled, NoLoop
  <2>2. Lendings' = [Lendings EXCEPT ![Task] = NoClient]
    BY <2>1, LentToTask
  <2>3. UNCHANGED <<PhaseOf(app), ClientsThatAre("open"), ClientsThatAre("closed")>>
    BY <2>1 DEF ClientsThatAre
  <2>4. CASE Lendings[Task] = NoClient
    <3>1. Lendings' = Lendings
      BY <2>2, <2>4 DEF Lendings
    <3> QED
      BY <2>3, <3>1 DEF Lending!clientVars, Lendings
  <2>5. CASE Lendings[Task] # NoClient
    BY <2>2, <2>3, <2>5 DEF Lending!GivesBack, Lendings
  <2> QED
    BY <2>4, <2>5
<1> QED
  BY <1>1, <1>2

\* and each of the lifespan.
LEMMA LifeLends ==
  ASSUME ServiceInv, Load \/ Startup \/ Drain \/ StopTask \/ CloseAll \/ CloseOne \/ CloseDone
  PROVE  [Lending!ClientsNext]_(Lending!clientVars)
<1>1. CASE Load \/ Drain \/ CloseAll
  <2>1. UNCHANGED <<PhaseOf(app), clients, loop, job>>
    BY <1>1 DEF Load, Drain, CloseAll, PhaseOf
  <2>2. UNCHANGED <<ClientsThatAre("open"), ClientsThatAre("closed"), Lendings>>
    BY <2>1 DEF ClientsThatAre, Lendings, Lent, InFlight
  <2> QED
    BY <2>1, <2>2 DEF Lending!clientVars, Lendings
<1>2. CASE Startup
  <2>1. app \in {"loaded", "stopped"} /\ app' = "serving" /\ UNCHANGED <<clients, job>>
        /\ loop.pc = "none" /\ loop.client = NoClient /\ loop'.client = NoClient
    BY <1>2 DEF Startup, ServiceInv, ServiceTypeOK, TaskFollowsLifespan, Phases, NoLoop
  <2>2. ClientsThatAre("open") = {}
    <3>1. closing = {}
      BY <2>1 DEF ServiceInv, Phases
    <3> QED
      BY <2>1, <3>1, NoneOpen
  <2>3. Lendings' = Lendings
    BY <2>1, LentToTask DEF Lendings
  <2>4. Lending!Starts
    BY <2>1, <2>2, <2>3 DEF Lending!Starts, PhaseOf, ClientsThatAre, Lendings
  <2> QED
    BY <2>4 DEF Lending!ClientsNext
<1>3. CASE StopTask
  <2>1. app = "draining" /\ app' = "stopping" /\ UNCHANGED <<clients, job>>
        /\ loop'.client = loop.client /\ \A j \in Job : ~InFlight(j)
    BY <1>3 DEF StopTask, ServiceInv, ServiceTypeOK
  <2>2. Lendings' = Lendings
    BY <2>1, LentToTask DEF Lendings
  <2>3. \A j \in Job : Lendings[j] = NoClient
    BY <2>1, ServiceAssumption DEF Lendings, Lent
  <2>4. Lending!Ends
    BY <2>1, <2>2, <2>3 DEF Lending!Ends, PhaseOf, ClientsThatAre, Lendings
  <2> QED
    BY <2>4 DEF Lending!ClientsNext
<1>4. CASE CloseOne
  <2>1. PICK c \in closing : clients' = [clients EXCEPT ![c] = "closed"]
    BY <1>4 DEF CloseOne
  <2>2. app = "closing" /\ app' \in {"closing", "failed"} /\ UNCHANGED <<loop, job>>
    BY <1>4 DEF CloseOne
  <2>3. c \in DOMAIN clients /\ clients[c] = "open"
    BY DEF ServiceInv, ServiceTypeOK, Phases
  <2>4. /\ ClientsThatAre("open")' = ClientsThatAre("open") \ {c}
        /\ ClientsThatAre("closed")' = ClientsThatAre("closed") \cup {c}
        /\ c \in ClientsThatAre("open")
    BY <2>1, <2>3 DEF ClientsThatAre
  <2>5. \A u \in Job \cup {Task} : Lendings[u] = NoClient
    <3>1. loop.pc = "none"
      BY <2>2 DEF ServiceInv, ServiceTypeOK, TaskFollowsLifespan, Phases
    <3> QED
      BY <2>2, <3>1, NothingLent
  <2>6. Lendings' = Lendings
    BY <2>2 DEF Lendings, Lent, InFlight
  <2>7. Lending!Closes(c)
    BY <2>2, <2>4, <2>5, <2>6 DEF Lending!Closes, PhaseOf, Lendings
  <2> QED
    BY <2>4, <2>7 DEF Lending!ClientsNext
<1>5. CASE CloseDone
  <2>1. app = "closing" /\ closing = {} /\ app' = "stopped" /\ UNCHANGED <<clients, loop, job>>
    BY <1>5 DEF CloseDone
  <2>2. ClientsThatAre("open") = {}
    BY <2>1, NoneOpen
  <2>3. \A u \in Job \cup {Task} : Lendings[u] = NoClient
    <3>1. loop.pc = "none"
      BY <2>1 DEF ServiceInv, ServiceTypeOK, TaskFollowsLifespan, Phases
    <3> QED
      BY <2>1, <3>1, NothingLent
  <2>4. Lendings' = Lendings
    BY <2>1 DEF Lendings, Lent, InFlight
  <2>5. Lending!Stops
    BY <2>1, <2>2, <2>3, <2>4 DEF Lending!Stops, PhaseOf, ClientsThatAre, Lendings
  <2> QED
    BY <2>5 DEF Lending!ClientsNext
<1> QED
  BY <1>1, <1>2, <1>3, <1>4, <1>5

\* For any number of requests, keys, streams and lifespans, and whatever is under
\* way when one ends, the clients are lent and closed as the contract says.
THEOREM ClientsKept == ServiceSpec => KeepsClients
<1>1. ServiceInit => Lending!ClientsInit
  <2> SUFFICES ASSUME ServiceInit PROVE Lending!ClientsInit
    OBVIOUS
  <2>1. clients = <<>> /\ loop.client = NoClient /\ \A j \in Job : ~InFlight(j)
    BY DEF ServiceInit, NoLoop, InFlight, IdleJob
  <2>2. Lendings = [u \in Job \cup {Task} |-> NoClient]
    BY <2>1 DEF Lendings, Lent
  <2>3. ClientsThatAre("open") = {} /\ ClientsThatAre("closed") = {}
    BY <2>1 DEF ClientsThatAre
  <2>4. PhaseOf(app) = "down"
    BY DEF ServiceInit, PhaseOf
  <2> QED
    BY <2>2, <2>3, <2>4 DEF Lending!ClientsInit, Lendings
<1>2. ServiceInv /\ ServiceInv' /\ [ServiceNext]_serviceVars => [Lending!ClientsNext]_(Lending!clientVars)
  <2> SUFFICES ASSUME ServiceInv, ServiceInv', [ServiceNext]_serviceVars
               PROVE  [Lending!ClientsNext]_(Lending!clientVars)
    OBVIOUS
  <2>1. ServiceTypeOK'
    BY DEF ServiceInv
  <2>2. CASE \E j \in Job : \/ \E k \in Key : Arrive(j, k)
                            \/ CallEnds(j) \/ StreamGoesOn(j) \/ Collect(j)
    <3>1. PICK j \in Job : \/ \E k \in Key : Arrive(j, k)
                           \/ CallEnds(j) \/ StreamGoesOn(j) \/ Collect(j)
      BY <2>2
    <3>2. Lending!Takes(j) \/ Lending!GivesBack(j) \/ UNCHANGED Lending!clientVars
      BY <2>1, <3>1, JobLends
    <3> QED
      BY <3>2 DEF Lending!ClientsNext
  <2>3. CASE (\E k \in Key : LoopProbes(k)) \/ LoopAnswer \/ LoopCancelled
    <3>1. Lending!Takes(Task) \/ Lending!GivesBack(Task) \/ UNCHANGED Lending!clientVars
      BY <2>1, <2>3, LoopLends
    <3> QED
      BY <3>1 DEF Lending!ClientsNext
  <2>4. CASE Load \/ Startup \/ Drain \/ StopTask \/ CloseAll \/ CloseOne \/ CloseDone
    BY <2>4, LifeLends
  <2>5. CASE UNCHANGED serviceVars
    <3>1. UNCHANGED <<app, ClientsThatAre("open"), ClientsThatAre("closed"), Lendings>>
      BY <2>5 DEF serviceVars, ClientsThatAre, Lendings, Lent, InFlight
    <3> QED
      BY <3>1 DEF Lending!clientVars, Lendings
  <2> QED
    BY <2>2, <2>3, <2>4, <2>5 DEF ServiceNext, Shutdown
<1> QED
  BY <1>1, <1>2, ServiceInvHolds, PTL DEF ServiceSpec, KeepsClients, Lending!ClientsSpec
=============================================================================
