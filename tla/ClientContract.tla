---------------------------- MODULE ClientContract ----------------------------
(***************************************************************************)
(* What the documents say of the router's HTTP clients: one is kept per    *)
(* key (docs/specs/2026-07-15-extract-failover-logic.md:70), requests and  *)
(* probes share them (docs/specs/2026-07-17-background-health-check.md:    *)
(* 121) and the end of the lifespan closes them (docs/status/              *)
(* 2026-07-08-richard-router-uplift-status.md:32).  There is no pool here, *)
(* no task and no stream.  Service.tla implements this.                    *)
(*                                                                         *)
(* Clients are lent to users while the application is up, never more of    *)
(* them than there are keys.  They are closed once it is ending and nobody *)
(* has one, one after the other; a closed client is not lent again.  Only  *)
(* when all are closed does the application go down, and only then up      *)
(* again; if closing one raises, the others stay open and that is the end. *)
(***************************************************************************)
EXTENDS FiniteSets, Integers

CONSTANTS
    User,
    Awaited,            \* the users whose work the end of the application waits for
    Capacity,           \* as many clients may be open
    None                \* no client

VARIABLES
    phase,              \* "down", "up", "ending" or "failed"
    open, closed,       \* the clients made so far
    lent                \* for each user the client it has, or None

clientVars == <<phase, open, closed, lent>>

ClientsInit ==
    /\ phase = "down"
    /\ open = {}
    /\ closed = {}
    /\ lent = [u \in User |-> None]

Starts ==
    /\ phase = "down"
    /\ open = {}
    /\ phase' = "up"
    /\ UNCHANGED <<open, closed, lent>>

\* u takes a client, open or new, in place of the one it has, if any.
Takes(u) ==
    /\ phase = "up"
    /\ \E c \in open' \ (closed \cup {None}) :
          /\ open' = open \cup {c}
          /\ lent' = [lent EXCEPT ![u] = c]
    /\ Cardinality(open') <= Capacity
    /\ UNCHANGED <<phase, closed>>

GivesBack(u) ==
    /\ lent[u] # None
    /\ lent' = [lent EXCEPT ![u] = None]
    /\ UNCHANGED <<phase, open, closed>>

\* The application ends.  Whoever is not awaited is left to give back what it has.
Ends ==
    /\ phase = "up"
    /\ \A u \in Awaited : lent[u] = None
    /\ phase' = "ending"
    /\ UNCHANGED <<open, closed, lent>>

Closes(c) ==
    /\ phase = "ending"
    /\ \A u \in User : lent[u] = None
    /\ open' = open \ {c}
    /\ closed' = closed \cup {c}
    /\ phase' \in {"ending", "failed"}
    /\ UNCHANGED lent

Stops ==
    /\ phase = "ending"
    /\ open = {}
    /\ \A u \in User : lent[u] = None
    /\ phase' = "down"
    /\ UNCHANGED <<open, closed, lent>>
-----------------------------------------------------------------------------
ClientsNext ==
    \/ Starts \/ Ends \/ Stops
    \/ \E u \in User : Takes(u) \/ GivesBack(u)
    \/ \E c \in open : Closes(c)

ClientsSpec == ClientsInit /\ [][ClientsNext]_clientVars
=============================================================================
