------------------------------- MODULE Service -------------------------------
(***************************************************************************)
(* The life of the router process: loading the configuration (main.py),    *)
(* the lifespan of the application, the pool of HTTP clients and who uses  *)
(* them.  Requests (here: jobs) and the health check appear as far as they *)
(* use clients and relay streams; which upstream they choose and what they *)
(* record is the business of Router.tla and HealthCheck.tla.               *)
(***************************************************************************)
EXTENDS ConfigLoad, StreamRelay, FiniteSets

CONSTANTS
    Job,                \* slots for requests being served
    Task,               \* the health check, among those who use clients
    Key,                \* client cache keys
    Configs,            \* what the configuration file may say
    Bodies,             \* the event streams the upstreams send
    MaxStarts           \* bound: how often the lifespan is entered

ASSUME ServiceAssumption ==
    /\ \A c \in Configs : Typed(c)
    /\ Bodies \subseteq Seq(Pieces \ {"ours"})
    /\ MaxStarts \in Nat
    /\ IsFiniteSet(Key)
    /\ Task \notin Job

VARIABLES
    app,                \* where the process is
    config,             \* the file, then what was made of it
    starts,             \* how often the lifespan has been entered
    clients,            \* every client ever made, in order: open or closed
    pool,               \* _clients: positions in clients
    closing,            \* the list in aclose: the clients it has yet to close
    loop,               \* the health check's task
    job                 \* the requests being served

serviceVars == <<app, config, starts, clients, pool, closing, loop, job>>

NoClient == 0
EmptyPool == [k \in Key |-> NoClient]
NoLoop == [pc |-> "none", client |-> NoClient]
IdleJob == [pc |-> "idle", client |-> NoClient, left |-> {}, relay |-> EmptyRelay]

InFlight(j) == job[j].pc \in {"calling", "relaying"}

\* All that the running part reads of the configuration.
Running(c) == [health_check |-> [enabled |-> c.health_check.enabled]]
-----------------------------------------------------------------------------
\* Clients.

\* Slip: the pool is not looked at.
ClientAnew(k) == Len(clients) + 1

ClientFor(k) == IF pool[k] = NoClient THEN Len(clients) + 1 ELSE pool[k]

\* Slip: a client is made for every use.
UsesAnew(k) ==
    /\ clients' = IF pool[k] = NoClient THEN Append(clients, "open") ELSE clients
    /\ UNCHANGED pool

\* _client_for
Uses(k) ==
    /\ clients' = IF pool[k] = NoClient THEN Append(clients, "open") ELSE clients
    /\ pool' = [pool EXCEPT ![k] = ClientFor(k)]
-----------------------------------------------------------------------------
ServiceInit ==
    /\ app = "unloaded"
    /\ config \in Configs
    /\ starts = 0
    /\ clients = <<>>
    /\ pool = EmptyPool
    /\ closing = {}
    /\ loop = NoLoop
    /\ job = [j \in Job |-> IdleJob]

\* A configuration that is not accepted makes LazyApp serve the error (503) and
\* the command line give up.
Load ==
    /\ app = "unloaded"
    /\ \/ RawAccepted(config) /\ app' = "loaded" /\ config' = Normal(config)
       \/ ~RawAccepted(config) /\ app' \in {"error", "exited"} /\ UNCHANGED config
    /\ UNCHANGED <<starts, clients, pool, closing, loop, job>>

\* Slip: start() takes a task that has ended for one that is alive.
StartupOnce ==
    /\ app \in {"loaded", "stopped"}
    /\ starts < MaxStarts
    /\ app' = "serving"
    /\ starts' = starts + 1
    /\ config' = Running(config)
    /\ loop' = IF config.health_check.enabled /\ starts = 0
                 THEN [pc |-> "sleeping", client |-> NoClient] ELSE loop
    /\ UNCHANGED <<clients, pool, closing, job>>

\* The lifespan is entered.  start() leaves a task that is alive alone.
Startup ==
    /\ app \in {"loaded", "stopped"}
    /\ starts < MaxStarts
    /\ app' = "serving"
    /\ starts' = starts + 1
    /\ config' = Running(config)
    /\ loop' = IF config.health_check.enabled /\ loop.pc = "none"
                 THEN [pc |-> "sleeping", client |-> NoClient] ELSE loop
    /\ UNCHANGED <<clients, pool, closing, job>>

\* The server takes no more requests.
Drain ==
    /\ app = "serving"
    /\ app' = "draining"
    /\ UNCHANGED <<config, starts, clients, pool, closing, loop, job>>
-----------------------------------------------------------------------------
\* Requests.

JobStep(j, new) ==
    /\ job' = [job EXCEPT ![j] = new]
    /\ UNCHANGED <<app, config, starts, closing, loop>>

JobStepOnly(j, new) == JobStep(j, new) /\ UNCHANGED <<clients, pool>>

\* The job calls upstream k.  (An upstream is called once per request here:
\* Router.tla has the retries.)
Calls(j, k, left) ==
    /\ Uses(k)
    /\ JobStep(j, [pc |-> "calling", client |-> ClientFor(k), left |-> left, relay |-> EmptyRelay])

Arrive(j, k) ==
    /\ app = "serving"
    /\ job[j].pc \in {"idle", "delivered"}
    /\ Calls(j, k, Key \ {k})

FailsOver(j, k) ==
    /\ job[j].pc = "calling"
    /\ k \in job[j].left
    /\ Calls(j, k, job[j].left \ {k})

\* The reply is no stream, or the last upstream has failed.
Answered(j) ==
    /\ job[j].pc = "calling"
    /\ JobStepOnly(j, IdleJob)

StreamBegins(j) ==
    /\ job[j].pc = "calling"
    /\ JobStepOnly(j, [job[j] EXCEPT !.pc = "relaying"])

\* Bytes arrive, cut off anywhere.
Chunk(j) ==
    /\ job[j].pc = "relaying"
    /\ LET r == job[j].relay IN
       \E body \in Bodies :
          /\ Len(r.received) < Len(body)
          /\ r.received = SubSeq(body, 1, Len(r.received))
          /\ \E n \in Len(r.received) + 1 .. Len(body) :
                JobStepOnly(j, [job[j] EXCEPT !.relay =
                                    Feed(r, SubSeq(body, Len(r.received) + 1, n))])

BodyEnds(j) ==
    /\ job[j].pc = "relaying"
    /\ job[j].relay.received \in Bodies
    /\ JobStepOnly(j, [job[j] EXCEPT !.pc = "delivered", !.relay = Flush(@)])

\* The upstream breaks off, or the client is gone while the upstream is awaited:
\* the finally clause closes the stream.
BreaksOff(j) ==
    /\ job[j].pc = "relaying"
    /\ JobStepOnly(j, IdleJob)

\* The request ends without the generator's finally clause: the generator has not
\* been started, or is suspended at its yield, or aread has raised.
Abandon(j) ==
    /\ InFlight(j)
    /\ JobStepOnly(j, [IdleJob EXCEPT !.pc = "abandoned", !.client = job[j].client])

\* The stream is closed once Python finalizes its generator.
Collect(j) ==
    /\ job[j].pc = "abandoned"
    /\ JobStepOnly(j, IdleJob)
-----------------------------------------------------------------------------
\* The health check's task.

LoopProbes(k) ==
    /\ loop.pc = "sleeping"
    /\ Uses(k)
    /\ loop' = [pc |-> "probing", client |-> ClientFor(k)]
    /\ UNCHANGED <<app, config, starts, closing, job>>

LoopAnswer ==
    /\ loop.pc = "probing"
    /\ loop' = [pc |-> "sleeping", client |-> NoClient]
    /\ UNCHANGED <<app, config, starts, clients, pool, closing, job>>

\* CancelledError reaches the task, in its sleep or its probe, and ends it.
LoopCancelled ==
    /\ loop.pc = "cancelled"
    /\ loop' = NoLoop
    /\ UNCHANGED <<app, config, starts, clients, pool, closing, job>>
-----------------------------------------------------------------------------
\* The end of the lifespan: stop(), then aclose().

\* Slip: only a task that sleeps is woken up and ended.
StopSleepingTask ==
    /\ app = "draining"
    /\ \A j \in Job : ~InFlight(j)
    /\ app' = "stopping"
    /\ loop' = IF loop.pc = "sleeping" THEN [loop EXCEPT !.pc = "cancelled"] ELSE loop
    /\ UNCHANGED <<config, starts, clients, pool, closing, job>>

StopTask ==
    /\ app = "draining"
    /\ \A j \in Job : ~InFlight(j)
    /\ app' = "stopping"
    /\ loop' = IF loop.pc = "none" THEN loop ELSE [loop EXCEPT !.pc = "cancelled"]
    /\ UNCHANGED <<config, starts, clients, pool, closing, job>>

\* Slip: stop() does not wait for the task it has cancelled.
CloseAllAtOnce ==
    /\ app = "stopping"
    /\ app' = "closing"
    /\ closing' = {pool[k] : k \in Key} \ {NoClient}
    /\ pool' = EmptyPool
    /\ UNCHANGED <<config, starts, clients, loop, job>>

\* Slip: the pool is emptied before it is read.
CloseAllCleared ==
    /\ app = "stopping"
    /\ loop.pc = "none"
    /\ app' = "closing"
    /\ closing' = {}
    /\ pool' = EmptyPool
    /\ UNCHANGED <<config, starts, clients, loop, job>>

\* aclose, up to its first await.
CloseAll ==
    /\ app = "stopping"
    /\ loop.pc = "none"
    /\ app' = "closing"
    /\ closing' = {pool[k] : k \in Key} \ {NoClient}
    /\ pool' = EmptyPool
    /\ UNCHANGED <<config, starts, clients, loop, job>>

\* One client.aclose(), in an order that matters to nothing here: the client is
\* closed first, whatever becomes of its connections.  An exception ends the
\* shutdown, and the list of the others, a local of aclose, is gone.
CloseOne ==
    /\ app = "closing"
    /\ \E c \in closing :
          /\ clients' = [clients EXCEPT ![c] = "closed"]
          /\ \/ app' = "closing" /\ closing' = closing \ {c}
             \/ app' = "failed" /\ closing' = {}
    /\ UNCHANGED <<config, starts, pool, loop, job>>

CloseDone ==
    /\ app = "closing"
    /\ closing = {}
    /\ app' = "stopped"
    /\ UNCHANGED <<config, starts, clients, pool, closing, loop, job>>
-----------------------------------------------------------------------------
CallEnds(j) == (\E k \in Key : FailsOver(j, k)) \/ Answered(j) \/ StreamBegins(j) \/ Abandon(j)
StreamGoesOn(j) == Chunk(j) \/ BodyEnds(j) \/ BreaksOff(j)
Shutdown == StopTask \/ LoopCancelled \/ CloseAll \/ CloseOne \/ CloseDone

ServiceNext ==
    \/ Load \/ Startup \/ Drain
    \/ \E j \in Job : \/ \E k \in Key : Arrive(j, k)
                      \/ CallEnds(j)
                      \/ StreamGoesOn(j)
                      \/ Collect(j)
    \/ \E k \in Key : LoopProbes(k)
    \/ LoopAnswer
    \/ Shutdown

\* The timeouts of the calls; upstreams whose streams end; the event loop, which
\* runs what is ready.
ServiceFairness ==
    /\ \A j \in Job : WF_serviceVars(CallEnds(j)) /\ WF_serviceVars(StreamGoesOn(j))
    /\ WF_serviceVars(Shutdown)

ServiceSpec == ServiceInit /\ [][ServiceNext]_serviceVars
ServiceFairSpec == ServiceSpec /\ ServiceFairness
-----------------------------------------------------------------------------
ServiceTypeOK ==
    /\ app \in {"unloaded", "error", "exited", "loaded", "serving", "draining",
                 "stopping", "closing", "stopped", "failed"}
    /\ starts \in 0 .. MaxStarts
    /\ clients \in Seq({"open", "closed"})
    /\ pool \in [Key -> {NoClient} \cup DOMAIN clients]
    /\ closing \subseteq DOMAIN clients
    /\ loop \in [pc : {"none", "sleeping", "probing", "cancelled"},
                 client : {NoClient} \cup DOMAIN clients]
    /\ job \in [Job -> [pc : {"idle", "calling", "relaying", "delivered", "abandoned"},
                        client : {NoClient} \cup DOMAIN clients,
                        left : SUBSET Key,
                        relay : Relays]]

\* A step that loads the file leaves a configuration that would be accepted again,
\* providers resolved and all, and in which the other modules' assumptions hold; only
\* a cap of the backoff that is NaN in the file may end up below the base.
SoundLoad ==
    app = "unloaded" /\ app' = "loaded" =>
        /\ NormalUpToCap(config') /\ MeetsAssumptions(config')
        /\ config.health_check.backoff_max_seconds # NaN => NormalAccepted(config')

\* No default and no clamp of _build_router_config undoes what validate_config has
\* checked, and no NaN that passes validate_config, all of whose comparisons with it
\* are false, gets past the clamps; but a NaN for backoff_max_seconds becomes 1.0,
\* which may be less than the base.
LoadedIsSound == [][SoundLoad]_serviceVars

\* Chunks arrive cut anywhere; still, what the client has got and what is held
\* back make up what the upstream has sent, each whole event rewritten once, and
\* at the end nothing is held back (_stream_iterator).
RelayFaithful ==
    \A j \in Job : LET r == job[j].relay IN
        /\ r.delivered \o Rewrite(r.remainder) = Rewrite(r.received)
        /\ job[j].pc = "delivered" => r.remainder = <<>>

\* While a stream is relayed, its client has got what the upstream has sent up to
\* its last line feed, and nothing after it, wherever the chunks were cut: an event
\* that a line feed ends never waits for the next chunk, and none comes out in
\* pieces.  One that a carriage return alone ends is held back until a line feed or
\* the end of the stream (_stream_iterator).
LinesPrompt ==
    \A j \in Job : LET r == job[j].relay
                      n == Len(r.delivered) IN
        job[j].pc = "relaying" =>
            /\ n # 0 => r.received[n] = "lf"
            /\ \A i \in n + 1 .. Len(r.received) : r.received[i] # "lf"

\* The client never sees an event that names the upstream's model
\* (src/README.md:202-203).
ModelHidden ==
    \A j \in Job : LET d == job[j].relay.delivered IN
        \A i \in DOMAIN d : ~EventAt(d, i)

\* The clients in a state.
ClientsThatAre(state) == {c \in DOMAIN clients : clients[c] = state}

\* No call, stream or probe is ever under way on a client that has been closed
\* (lifespan, stop, aclose).
CallsOnOpenClients ==
    /\ \A j \in Job : InFlight(j) => clients[job[j].client] = "open"
    /\ loop.client # NoClient => clients[loop.client] = "open"

\* The one who has to close an open client can find it, in the pool or in the list
\* of aclose, unless a client.aclose() has raised: then the clients it left open
\* are lost, and nothing will close them (_client_for, aclose).
ClientsAccounted ==
    \A c \in DOMAIN clients : clients[c] = "open" =>
        (\E k \in Key : pool[k] = c) \/ c \in closing \/ app = "failed"

\* After a shutdown no request and no task is left, so a client that an exception
\* has left open is at least in nobody's hands; without an exception no client is
\* left open either (lifespan).
QuietWhenStopped ==
    /\ app \in {"stopped", "failed"} => loop = NoLoop /\ \A j \in Job : ~InFlight(j)
    /\ app = "stopped" => ClientsThatAre("open") = {}

\* The task of an enabled health check is alive while the application serves, and
\* at no other time, also when the lifespan is entered again (start, stop).
TaskFollowsLifespan ==
    loop.pc \in {"sleeping", "probing"} <=>
        app \in {"serving", "draining"} /\ config.health_check.enabled

\* What a shutdown still has to do: the task to end, the clients to close, and two
\* steps of its own.
ShutdownWork ==
    (IF loop.pc = "none" THEN 0 ELSE 1)
        + Cardinality(ClientsThatAre("open"))
        + (CASE app = "stopping" -> 2 [] app = "closing" -> 1 [] OTHER -> 0)

ShutdownStep ==
    \/ ShutdownWork' < ShutdownWork
    \/ /\ UNCHANGED <<app, config, starts, clients, pool, closing, loop>>
       /\ \A j \in Job : job'[j] # job[j] => job[j].pc = "abandoned"

\* From stop() on, nothing gives a shutdown more to do: no client is made, the task
\* does not go on, and whatever happens but the end of an abandoned request takes
\* something off its work.
ShutdownAdvances ==
    [][(app \in {"stopping", "closing"}) => ShutdownStep]_serviceVars

PhaseOf(a) ==
    CASE a \in {"serving", "draining"} -> "up"
      [] a \in {"stopping", "closing"} -> "ending"
      [] a = "failed"                  -> "failed"
      [] OTHER                         -> "down"

Lent(u) ==
    IF u = Task THEN loop.client
    ELSE IF InFlight(u) THEN job[u].client ELSE NoClient

Lending == INSTANCE ClientContract WITH
    User     <- Job \cup {Task},
    Awaited  <- Job,
    Capacity <- Cardinality(Key),
    None     <- NoClient,
    phase    <- PhaseOf(app),
    open     <- ClientsThatAre("open"),
    closed   <- ClientsThatAre("closed"),
    lent     <- [u \in Job \cup {Task} |-> Lent(u)]

\* Requests and the health check share clients through a pool, and streams outlive
\* the request that opened them; still a client serves until the shutdown and not
\* after, each is closed when nobody has one, and a lifespan begins without any
\* (_client_for, stop, aclose).
KeepsClients == Lending!ClientsSpec

\* A shutdown comes to its end, whatever was under way when it began.
ShutdownEnds == app = "draining" ~> app \in {"stopped", "failed"}
=============================================================================
