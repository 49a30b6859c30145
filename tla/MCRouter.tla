------------------------------ MODULE MCRouter ------------------------------
(***************************************************************************)
(* Constant values for TLC's runs of Router.tla.                           *)
(***************************************************************************)
EXTENDS Router, TLC

Entry(k, priority, weight) == [key |-> k, priority |-> priority, weight |-> weight]

SameName == [k \in Key |-> k]

\* One virtual model: a weighted tier, then a uniform one with the same upstreams
\* as a last resort, in another order.
TieredPool == "m" :> <<Entry("a", 1, 70), Entry("b", 1, 30), Entry("b", 2, 100), Entry("a", 2, 100)>>

\* One virtual model with a fallback.
PairPool == "m" :> <<Entry("a", 1, 100), Entry("b", 2, 100)>>

SinglePool == "m" :> <<Entry("a", 1, 100)>>

\* An upstream that is the only one of two virtual models.
SharedPool == "m" :> <<Entry("a", 1, 100)>> @@ "n" :> <<Entry("a", 1, 100)>>

Slots == Permutations(Request)
=============================================================================
