--------------------------- MODULE MCReplicaPlans ---------------------------
(* Bounded instances of ReplicaPlans.                                       *)
EXTENDS ReplicaPlans

(* Operators submit a plan and call any verb in any order.                  *)
ByHand == [modes |-> {"add", "move"}, byHand |-> TRUE, drained |-> {}, losable |-> {},
           aborts |-> TRUE]

(* The cluster works alone: a store is drained, lost, or both, and the plan *)
(* may be aborted.                                                          *)
Alone == [modes |-> {}, byHand |-> FALSE, drained |-> {1}, losable |-> {1}, aborts |-> TRUE]

(* A store is drained, and then the store its replica went to.              *)
TwoDrains == [modes |-> {}, byHand |-> FALSE, drained |-> {1, 4}, losable |-> {},
              aborts |-> FALSE]

MCScenarios == {ByHand, Alone}
DrainScenarios == {TwoDrains}
============================================================================
