----------------------------- MODULE MCPipeline -----------------------------
(***************************************************************************)
(* A source, two Dummies side by side and a postboy that uses the items    *)
(* up: an SPMC binding followed by an MPSC binding.                        *)
(***************************************************************************)
EXTENDS Pipeline

CONSTANTS range, dummy1, dummy2, null, q1, q2

MCPostboys == {range, dummy1, dummy2, null}
MCQueues == {q1, q2}

MCIn ==
  [p \in MCPostboys |->
     CASE p = range -> NoQueue [] p \in {dummy1, dummy2} -> q1 [] p = null -> q2]

MCOut ==
  [p \in MCPostboys |->
     CASE p = range -> q1 [] p \in {dummy1, dummy2} -> q2 [] p = null -> NoQueue]

MCLimit == [p \in MCPostboys |-> 2]

\* What the theorem about the order of items asks of the graph holds of this one.
ASSUME RouteAssumption == RoutesJoinOnlyAtTheEnd
=============================================================================
