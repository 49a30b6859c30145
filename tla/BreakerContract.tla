--------------------------- MODULE BreakerContract ---------------------------
(***************************************************************************)
(* What richard-router promises of its circuit breakers, as README.md and  *)
(* the decision "Half-open circuit requires a 2xx to close" state it,      *)
(* without the loops, tiers, retries and half-open slots of the code.      *)
(*                                                                         *)
(* A circuit opens on the FailureThreshold-th failure in a row, rests for  *)
(* Cooldown and then lets trials through.  Only a 2xx closes it, every     *)
(* other answer makes it rest again; a caller error counts for nothing     *)
(* while it is closed.  A request never calls an upstream at rest, and it  *)
(* fails over after a failure only.  Router.tla implements this.  The      *)
(* bound on trials that README.md speaks of is TrialsBounded in Router.tla *)
(* and no part of the contract: the code does not keep it.                 *)
(***************************************************************************)
EXTENDS Integers

CONSTANTS Request, Key, BreakerEnabled, FailureThreshold, Cooldown

VARIABLES
    circuit,            \* for each key: is it open, for how long it rests, failures in a row
    calls,              \* the keys each request is waiting for: one or none
    outcome             \* how the last request of each slot ended

contractVars == <<circuit, calls, outcome>>

Closed(n) == [open |-> FALSE, rest |-> 0, streak |-> n]
Opened == [open |-> TRUE, rest |-> Cooldown, streak |-> 0]

AfterFailure(c) ==
    IF c.open \/ c.streak + 1 >= FailureThreshold THEN Opened ELSE Closed(c.streak + 1)

AfterCallerError(c) == IF c.open THEN Opened ELSE Closed(0)

Rested(c) == IF c.rest > 0 THEN [c EXCEPT !.rest = @ - 1] ELSE c
-----------------------------------------------------------------------------
ContractInit ==
    /\ circuit = [k \in Key |-> Closed(0)]
    /\ calls = [r \in Request |-> {}]
    /\ outcome = [r \in Request |-> "none"]

\* Circuit k becomes c, unless the breakers are disabled.
Becomes(k, c) ==
    circuit' = IF BreakerEnabled THEN [circuit EXCEPT ![k] = c] ELSE circuit

\* r calls an upstream that is not at rest.
CallsNext(r) ==
    /\ \E k \in Key : /\ circuit'[k].rest = 0
                      /\ calls' = [calls EXCEPT ![r] = {k}]
    /\ outcome' = [outcome EXCEPT ![r] = "none"]

Ends(r, verdicts) ==
    /\ calls' = [calls EXCEPT ![r] = {}]
    /\ \E o \in verdicts : outcome' = [outcome EXCEPT ![r] = o]

Begins(r) ==
    /\ calls[r] = {}
    /\ UNCHANGED circuit
    /\ CallsNext(r) \/ Ends(r, {"all_failed", "unknown_model"})

AnsweredOk(r, k) ==
    /\ Becomes(k, Closed(0))
    /\ Ends(r, {"success"})

AnsweredCallerError(r, k) ==
    /\ Becomes(k, AfterCallerError(circuit[k]))
    /\ Ends(r, {"http_error"})

FailsOver(r, k) ==
    /\ Becomes(k, AfterFailure(circuit[k]))
    /\ \/ CallsNext(r)
       \/ Ends(r, {"all_failed", "timeout_failover_disabled", "connection_failover_disabled"})

\* The call ends in a way the router does not foresee, and counts for nothing.
Breaks(r) == Ends(r, {"raised"}) /\ UNCHANGED circuit

Returns(r, k) ==
    \/ AnsweredOk(r, k)
    \/ AnsweredCallerError(r, k)
    \/ FailsOver(r, k)
    \/ Breaks(r)

Rests ==
    /\ circuit' = [k \in Key |-> Rested(circuit[k])]
    /\ UNCHANGED <<calls, outcome>>

ContractNext ==
    \/ \E r \in Request : Begins(r) \/ \E k \in calls[r] : Returns(r, k)
    \/ Rests

ContractSpec == ContractInit /\ [][ContractNext]_contractVars
=============================================================================
