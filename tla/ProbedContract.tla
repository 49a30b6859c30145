---------------------------- MODULE ProbedContract ----------------------------
(***************************************************************************)
(* The contract of the circuit breakers once the health check probes the   *)
(* upstreams too.  A probe is not held back by a circuit at rest, but its  *)
(* answer counts as a request's does: only a 2xx closes a circuit ("The    *)
(* same rule applies to both real request traffic and the background       *)
(* HealthCheckTask probe", decision of 2026-07-18).  HealthCheck.tla       *)
(* implements this.                                                        *)
(***************************************************************************)
EXTENDS BreakerContract

VARIABLES
    probing,            \* the key whose probe is in flight: one or none
    failing             \* the keys whose last probe failed

probedVars == <<contractVars, probing, failing>>

ProbedInit == ContractInit /\ probing = {} /\ failing = {}

StartsRound ==
    /\ probing = {}
    /\ \E k \in Key : probing' = {k}
    /\ UNCHANGED <<contractVars, failing>>

\* Another upstream comes next, or the round of probes is over.
ProbeOver(k) == probing' \in {{}} \cup {{j} : j \in Key \ {k}}

ProbedOk(k) ==
    /\ Becomes(k, Closed(0))
    /\ failing' = failing \ {k}

\* A transport failure need not count for the circuit: the policy decides.
CountsAgainst(k) ==
    \/ Becomes(k, AfterFailure(circuit[k]))
    \/ Becomes(k, AfterCallerError(circuit[k]))
    \/ UNCHANGED circuit

ProbedFailure(k) == CountsAgainst(k) /\ failing' = failing \cup {k}
ProbedBreakage(k) == CountsAgainst(k) /\ UNCHANGED failing /\ probing' = {}

ProbeReturns(k) ==
    /\ ProbedOk(k) \/ ProbedFailure(k) \/ ProbedBreakage(k)
    /\ ProbeOver(k)
    /\ UNCHANGED <<calls, outcome>>

ProbedNext ==
    \/ ContractNext /\ UNCHANGED <<probing, failing>>
    \/ StartsRound
    \/ \E k \in probing : ProbeReturns(k)

ProbedSpec == ProbedInit /\ [][ProbedNext]_probedVars
=============================================================================
