--------------------------- MODULE MCHealthCheck ---------------------------
(***************************************************************************)
(* Constant values for TLC's runs of HealthCheck.tla.                      *)
(***************************************************************************)
EXTENDS HealthCheck, TLC

Entry(k, priority, weight) == [key |-> k, priority |-> priority, weight |-> weight]

SameName == [k \in Key |-> k]

SinglePool == "m" :> <<Entry("a", 1, 100)>>
SingleOrder == <<[vm |-> "m", name |-> "a"]>>

PairPool == "m" :> <<Entry("a", 1, 100), Entry("b", 2, 100)>>
PairOrder == <<[vm |-> "m", name |-> "a"], [vm |-> "m", name |-> "b"]>>

\* An upstream that is the only one of two virtual models.
SharedPool == "m" :> <<Entry("a", 1, 100)>> @@ "n" :> <<Entry("a", 1, 100)>>
SharedOrder == <<[vm |-> "m", name |-> "a"], [vm |-> "n", name |-> "a"]>>
=============================================================================
