----------------------------- MODULE MCPlanRun ------------------------------
(***************************************************************************)
(* A small instance of PlanRun for TLC.  DownPlan is every acyclic set of  *)
(* dependencies in which steps depend on lower orders, and CyclicPlan a    *)
(* loop with a step outside it.  The first two steps are the same fault.   *)
(***************************************************************************)
EXTENDS PlanRun

FourSteps  == 1 .. 4
DownPlan   == {g \in ValidPlans : \A s \in Steps : \A d \in g[s] : d < s}
CyclicPlan == {[s \in Steps |-> IF s = 1 THEN {} ELSE IF s = 2 THEN {4} ELSE {s - 1}]}
SomePlans  == DownPlan \cup CyclicPlan
TwoKeys    == {"k", "l"}
SharedKey  == [s \in Steps |-> IF s <= 2 THEN "k" ELSE "l"]
Mixed      == [s \in Steps |-> IF s = 3 THEN "node" ELSE "namespace"]
=============================================================================
