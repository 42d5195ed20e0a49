--------------------------- MODULE PlanRunProofs ----------------------------
(***************************************************************************)
(* Machine-checked proofs about PlanRun, for every number of steps, every  *)
(* set of dependencies and every budget.                                   *)
(***************************************************************************)
EXTENDS PlanRun, FiniteSetTheorems, TLAPS

USE StepsAssumption, KeyAssumption, BudgetAssumption

(***************************************************************************)
(* What PlanLayers maintains.                                              *)
(***************************************************************************)
\* The count of a step without a layer is that of its dependencies without one.
Counted ==
    \A s \in Unlayered : indeg[s] = Cardinality(deps[s] \cap Unlayered)

\* What a step depends on is in an earlier layer.
Earlier ==
    \A s \in Steps :
        /\ layerOf[s] <= depth
        /\ layerOf[s] > 0 => \A d \in deps[s] : layerOf[d] > 0 /\ layerOf[d] < layerOf[s]

\* No step waits longer than it must.
NoLater ==
    \A s \in Steps :
        /\ layerOf[s] > 1 => \E d \in deps[s] : layerOf[d] = layerOf[s] - 1
        /\ layerOf[s] = 0 /\ depth > 0 => \E d \in deps[s] : layerOf[d] \in {0, depth}

\* What the end of PlanLayers says about the plan.
Concluded ==
    /\ phase \in {"running", "done"} => Unlayered = {}
    /\ phase = "rejected" =>
        Unlayered # {} /\ \A s \in Unlayered : deps[s] \cap Unlayered # {}

LayerInv == PTypeOK /\ Counted /\ Earlier /\ NoLater /\ Concluded

\* Set difference and intersection as the counts of PlanLayers use them.
LEMMA CountRemoved ==
    ASSUME NEW D \in SUBSET Steps, NEW U \in SUBSET Steps, NEW R \in SUBSET U
    PROVE  /\ Cardinality(D \cap (U \ R)) = Cardinality(D \cap U) - Cardinality(D \cap R)
           /\ Cardinality(D \cap (U \ R)) \in Nat
<1> DEFINE S == D \cap U
<1>1. S \in SUBSET Steps /\ S \cap R = D \cap R /\ S \ R = D \cap (U \ R)
  OBVIOUS
<1>2. IsFiniteSet(S)
  BY <1>1, FS_Subset
<1>3. IsFiniteSet(S \ R) /\ Cardinality(S \ R) = Cardinality(S) - Cardinality(S \cap R)
  BY <1>2, FS_Difference
<1>4. Cardinality(S \ R) \in Nat
  BY <1>3, FS_CardinalityType
<1> QED
  BY <1>1, <1>3, <1>4

\* A set of steps has a natural number of members, none only when it is empty.
LEMMA CountOf ==
    ASSUME NEW D \in SUBSET Steps
    PROVE  IsFiniteSet(D) /\ Cardinality(D) \in Nat /\ (Cardinality(D) = 0 <=> D = {})
<1>1. IsFiniteSet(D)
  BY FS_Subset
<1> QED
  BY <1>1, FS_CardinalityType, FS_EmptySet

\* A plan as the generator hands it on.
Fresh ==
    /\ deps \in Plans
    /\ indeg = [s \in Steps |-> Cardinality(deps[s])]
    /\ layerOf = [s \in Steps |-> 0]
    /\ depth = 0
    /\ phase = "layering"
    /\ at = 0 /\ queue = {} /\ scheduled = 0
    /\ step = [s \in Steps |-> "new"]
    /\ refusals \in [Keys -> Nat]
    /\ plans \in Nat

\* A fresh plan has no layers and counts every dependency.
LEMMA FreshPlan == Fresh => LayerInv
<1> SUFFICES ASSUME Fresh PROVE LayerInv
  OBVIOUS
<1>1. deps \in [Steps -> SUBSET Steps] /\ Unlayered = Steps
  BY PlansAssumption DEF ValidPlans, Fresh, Unlayered
<1>2. \A s \in Steps : deps[s] \in SUBSET Steps
  BY <1>1
<1>3. \A s \in Steps : deps[s] \cap Unlayered = deps[s] /\ Cardinality(deps[s]) \in Nat
  BY <1>1, <1>2, CountOf
<1>4. PTypeOK
  BY <1>1, <1>3 DEF Fresh, PTypeOK, StepState
<1>5. Counted
  BY <1>1, <1>3 DEF Fresh, Counted
<1>6. Earlier /\ NoLater /\ Concluded
  BY <1>1 DEF Fresh, Earlier, NoLater, Concluded
<1> QED
  BY <1>4, <1>5, <1>6 DEF LayerInv

\* Taking a layer: the steps whose count is zero are those with no dependency
\* outside the layers so far.
LEMMA TakeLayerStep == LayerInv /\ TakeLayer => LayerInv'
<1> SUFFICES ASSUME LayerInv, TakeLayer PROVE LayerInv'
  OBVIOUS
<1>0. PTypeOK /\ Counted /\ Earlier /\ NoLater /\ deps' = deps /\ depth' = depth + 1 /\ phase' = "layering"
  BY DEF LayerInv, TakeLayer
<1>1. Ready \in SUBSET Unlayered /\ Unlayered \in SUBSET Steps
  BY DEF Ready, Unlayered
<1>2. Unlayered' = Unlayered \ Ready
  BY <1>0 DEF TakeLayer, Unlayered, Ready, PTypeOK
<1>3. \A s \in Unlayered : (s \in Ready <=> deps[s] \cap Unlayered = {})
  <2> SUFFICES ASSUME NEW s \in Unlayered PROVE s \in Ready <=> deps[s] \cap Unlayered = {}
    OBVIOUS
  <2>1. deps[s] \cap Unlayered \in SUBSET Steps
    BY <1>1
  <2> QED
    BY <1>0, <2>1, CountOf DEF Counted, Ready
<1>4. \A s \in Unlayered :
        /\ indeg'[s] = Cardinality(deps[s] \cap Unlayered')
        /\ indeg'[s] \in Nat
  <2> SUFFICES ASSUME NEW s \in Unlayered
               PROVE  /\ indeg'[s] = Cardinality(deps[s] \cap Unlayered')
                      /\ indeg'[s] \in Nat
    OBVIOUS
  <2>1. indeg'[s] = indeg[s] - Cardinality(deps[s] \cap Ready)
    BY <1>1 DEF TakeLayer
  <2>2. indeg[s] = Cardinality(deps[s] \cap Unlayered)
    BY <1>0 DEF Counted
  <2>3. deps[s] \in SUBSET Steps
    BY <1>0, <1>1 DEF PTypeOK
  <2>4. /\ Cardinality(deps[s] \cap (Unlayered \ Ready)) =
              Cardinality(deps[s] \cap Unlayered) - Cardinality(deps[s] \cap Ready)
        /\ Cardinality(deps[s] \cap (Unlayered \ Ready)) \in Nat
    BY <1>1, <2>3, CountRemoved
  <2> QED
    BY <1>2, <2>1, <2>2, <2>4
<1>5. PTypeOK'
  <2>1. indeg' \in [Steps -> Nat]
    BY <1>0, <1>4 DEF TakeLayer, PTypeOK
  <2>2. layerOf' \in [Steps -> Nat]
    BY <1>0 DEF TakeLayer, PTypeOK
  <2> QED
    BY <1>0, <2>1, <2>2 DEF TakeLayer, PTypeOK, runVars
<1>6. Counted'
  BY <1>0, <1>2, <1>4 DEF Counted
<1>7. Earlier'
  <2>1. \A s \in Steps : layerOf'[s] = IF s \in Ready THEN depth + 1 ELSE layerOf[s]
    BY DEF TakeLayer
  <2>2. \A s \in Ready : \A d \in deps[s] : d \notin Unlayered /\ d \in Steps
    BY <1>0, <1>1, <1>3 DEF PTypeOK
  <2> QED
    BY <1>0, <1>1, <2>1, <2>2 DEF Earlier, Unlayered, PTypeOK
<1>8. NoLater'
  <2> SUFFICES ASSUME NEW s \in Steps
               PROVE  /\ layerOf'[s] > 1 => \E d \in deps[s] : layerOf'[d] = layerOf'[s] - 1
                      /\ layerOf'[s] = 0 => \E d \in deps[s] : layerOf'[d] \in {0, depth + 1}
    BY <1>0 DEF NoLater
  <2>1. \A t \in Steps : layerOf'[t] = IF t \in Ready THEN depth + 1 ELSE layerOf[t]
    BY DEF TakeLayer
  <2>2. deps[s] \in SUBSET Steps /\ depth \in Nat /\ layerOf \in [Steps -> Nat]
    BY <1>0 DEF PTypeOK
  <2>3. CASE s \in Ready
    <3>1. deps[s] \cap Unlayered = {}
      BY <1>1, <1>3, <2>3
    <3>2. depth > 0 => \E d \in deps[s] : layerOf[d] = depth /\ d \notin Ready
      BY <1>0, <1>1, <2>2, <2>3, <3>1 DEF NoLater, Unlayered
    <3>3. layerOf'[s] = depth + 1
      BY <2>1, <2>3
    <3>4. ASSUME depth > 0 PROVE \E d \in deps[s] : layerOf'[d] = depth
      BY <2>1, <2>2, <3>2, <3>4
    <3> QED
      BY <2>2, <3>3, <3>4
  <2>4. CASE s \notin Ready /\ s \in Unlayered
    <3>1. PICK d \in deps[s] : d \in Unlayered
      BY <1>3, <2>4
    <3> QED
      BY <2>1, <2>2, <2>4, <3>1 DEF Unlayered
  <2>5. CASE s \notin Unlayered
    <3>1. layerOf[s] > 0 /\ s \notin Ready
      BY <1>1, <2>2, <2>5 DEF Unlayered
    <3>2. \A d \in deps[s] : layerOf[d] > 0
      BY <1>0, <3>1 DEF Earlier
    <3>3. \A d \in deps[s] : d \in Steps /\ layerOf[d] # 0
      BY <2>2, <3>2
    <3>4. \A d \in deps[s] : d \notin Ready
      BY <1>1, <3>3 DEF Unlayered
    <3>5. layerOf'[s] = layerOf[s] /\ \A d \in deps[s] : layerOf'[d] = layerOf[d]
      BY <2>1, <3>1, <3>3, <3>4
    <3>6. layerOf[s] > 1 => \E d \in deps[s] : layerOf[d] = layerOf[s] - 1
      BY <1>0 DEF NoLater
    <3> QED
      BY <2>2, <3>1, <3>5, <3>6
  <2> QED
    BY <2>3, <2>4, <2>5
<1>9. Concluded'
  BY <1>0 DEF Concluded
<1> QED
  BY <1>5, <1>6, <1>7, <1>8, <1>9 DEF LayerInv

\* Giving up: every step left over waits for another of them.
LEMMA HasCycleStep == LayerInv /\ HasCycle => LayerInv'
<1> SUFFICES ASSUME LayerInv, HasCycle PROVE LayerInv'
  OBVIOUS
<1>1. \A s \in Unlayered : deps[s] \cap Unlayered # {}
  <2> SUFFICES ASSUME NEW s \in Unlayered, deps[s] \cap Unlayered = {} PROVE FALSE
    OBVIOUS
  <2>1. indeg[s] = 0
    BY FS_EmptySet DEF LayerInv, Counted
  <2> QED
    BY <2>1 DEF HasCycle, Ready
<1>2. Unlayered' = Unlayered /\ deps' = deps
  BY DEF HasCycle, Unlayered, planVars
<1> QED
  BY <1>1, <1>2 DEF LayerInv, PTypeOK, Counted, Earlier, NoLater, Concluded, HasCycle,
                   planVars, runVars

\* The steps that leave the layers of a plan alone.
KeepsLayers ==
    /\ UNCHANGED planVars
    /\ phase' = phase \/ (phase = "running" /\ phase' = "done")

LEMMA LayersKept == LayerInv /\ KeepsLayers /\ PTypeOK' => LayerInv'
<1> SUFFICES ASSUME LayerInv, KeepsLayers, PTypeOK' PROVE LayerInv'
  OBVIOUS
<1>1. Unlayered' = Unlayered
  BY DEF KeepsLayers, Unlayered, planVars
<1> QED
  BY <1>1 DEF LayerInv, KeepsLayers, Counted, Earlier, NoLater, Concluded, planVars

RunsOrIdles ==
    \/ NextLayer \/ PlanEnds \/ UNCHANGED pvars
    \/ \E s \in Steps : SkipSevere(s) \/ SkipExhausted(s) \/ Launch(s) \/ OneStep(s)
    \/ \E k \in Keys : Forgotten(k)

\* One entry of a function of naturals counts up, or down from above zero.
LEMMA EntryCounts ==
    ASSUME NEW f \in [Keys -> Nat], NEW k \in Keys
    PROVE  /\ [f EXCEPT ![k] = @ + 1] \in [Keys -> Nat]
           /\ f[k] > 0 => [f EXCEPT ![k] = @ - 1] \in [Keys -> Nat]
           /\ [f EXCEPT ![k] = 0] \in [Keys -> Nat]
  OBVIOUS

\* A step of a plan goes from one state to another.
LEMMA StepTyped ==
    ASSUME NEW s \in Steps, NEW to \in StepState, step \in [Steps -> StepState],
           step' = [step EXCEPT ![s] = to]
    PROVE  step' \in [Steps -> StepState]
  OBVIOUS

\* The rest of executePlan leaves the layers alone and keeps the types.
LEMMA RunKeepsLayers == PTypeOK /\ RunsOrIdles => KeepsLayers /\ PTypeOK'
<1> SUFFICES ASSUME PTypeOK, RunsOrIdles PROVE KeepsLayers /\ PTypeOK'
  OBVIOUS
<1>0. /\ at \in Nat /\ scheduled \in Nat /\ queue \in SUBSET Steps
      /\ step \in [Steps -> StepState] /\ refusals \in [Keys -> Nat]
  BY DEF PTypeOK
<1>a. at + 1 \in Nat /\ scheduled + 1 \in Nat
  BY <1>0
<1>b. {"severity", "exhausted", "launched", "submitting", "applied", "refused",
       "over budget", "repeated"} \subseteq StepState
  BY DEF StepState, Skipped, InFlight, Finished
<1>1. CASE NextLayer
  <2>1. at' = at + 1 /\ queue' \in SUBSET Steps
    BY <1>1, Zenon DEF NextLayer
  <2>2. at' \in Nat
    BY <1>a, <2>1, Zenon
  <2>3. UNCHANGED <<phase, deps, indeg, layerOf, depth, scheduled, step, refusals, plans>>
    BY <1>1 DEF NextLayer, planVars
  <2> QED
    BY <2>1, <2>2, <2>3, Zenon DEF PTypeOK, KeepsLayers, planVars
<1>2. CASE PlanEnds
  BY <1>2 DEF PlanEnds, PTypeOK, KeepsLayers, planVars, runVars
<1>3. ASSUME NEW s \in Steps, SkipSevere(s) \/ SkipExhausted(s) \/ Launch(s)
      PROVE  KeepsLayers /\ PTypeOK'
  <2>1. PICK to \in {"severity", "exhausted", "launched"} : Considers(s, to)
    BY <1>3, Zenon DEF SkipSevere, SkipExhausted, Launch
  <2>2. scheduled' = scheduled \/ scheduled' = scheduled + 1
    BY <1>3, Zenon DEF SkipSevere, SkipExhausted, Launch
  <2>3. scheduled' \in Nat
    BY <1>0, <1>a, <2>2, Zenon
  <2>4. queue' \in SUBSET Steps /\ step' = [step EXCEPT ![s] = to]
    BY <1>0, <2>1 DEF Considers
  <2>5. step' \in [Steps -> StepState]
    BY <1>0, <1>b, <2>4, StepTyped
  <2>6. UNCHANGED <<phase, deps, indeg, layerOf, depth, at, refusals, plans>>
    BY <2>1 DEF Considers, planVars
  <2> QED
    BY <2>3, <2>4, <2>5, <2>6, Zenon DEF PTypeOK, KeepsLayers, planVars
<1>4. ASSUME NEW s \in Steps, OneStep(s) PROVE KeepsLayers /\ PTypeOK'
  <2>1. PICK from \in StepState, to \in StepState : StepGoes(s, from, to)
    BY <1>4, <1>b DEF OneStep, Submit, SkipRepeated, Applied, Refused, OverBudget
  <2>2. step' \in [Steps -> StepState]
    BY <1>0, <2>1, StepTyped DEF StepGoes
  <2>3. Key[s] \in Keys
    OBVIOUS
  <2>4. \/ refusals' = refusals
        \/ refusals' = [refusals EXCEPT ![Key[s]] = 0]
        \/ refusals' = [refusals EXCEPT ![Key[s]] = @ + 1]
    BY <1>4, Zenon DEF OneStep, Submit, SkipRepeated, Applied, Refused, OverBudget
  <2>5. refusals' \in [Keys -> Nat]
    BY <1>0, <2>3, <2>4, EntryCounts
  <2>6. UNCHANGED <<phase, deps, indeg, layerOf, depth, at, queue, scheduled, plans>>
    BY <2>1 DEF StepGoes, planVars
  <2> QED
    BY <2>2, <2>5, <2>6, Zenon DEF PTypeOK, KeepsLayers, planVars
<1>5. ASSUME NEW k \in Keys, Forgotten(k) PROVE KeepsLayers /\ PTypeOK'
  <2>1. refusals' \in [Keys -> Nat]
    BY <1>0, <1>5, EntryCounts DEF Forgotten
  <2>2. UNCHANGED <<phase, deps, indeg, layerOf, depth, at, queue, scheduled, step, plans>>
    BY <1>5 DEF Forgotten, planVars, runVars
  <2> QED
    BY <2>1, <2>2, Zenon DEF PTypeOK, KeepsLayers, planVars
<1>6. CASE UNCHANGED pvars
  BY <1>6 DEF pvars, PTypeOK, KeepsLayers, planVars, runVars
<1> QED
  BY <1>1, <1>2, <1>3, <1>4, <1>5, <1>6 DEF RunsOrIdles

\* A new plan starts fresh; only the refusals stay.
LEMMA NewPlanFresh == PTypeOK /\ NewPlan => Fresh'
  BY PlansAssumption DEF ValidPlans, PTypeOK, NewPlan, Fresh

LEMMA LayerStep == LayerInv /\ [PNext]_pvars => LayerInv'
<1> SUFFICES ASSUME LayerInv, [PNext]_pvars PROVE LayerInv'
  OBVIOUS
<1>0. PTypeOK
  BY DEF LayerInv
<1>1. CASE TakeLayer
  BY <1>1, TakeLayerStep
<1>2. CASE HasCycle
  BY <1>2, HasCycleStep
<1>3. CASE AllLayered
  <2>1. Unlayered' = Unlayered
    BY <1>3 DEF AllLayered, Unlayered, planVars
  <2> QED
    BY <1>3, <2>1 DEF AllLayered, LayerInv, PTypeOK, Counted, Earlier, NoLater, Concluded,
                      planVars, runVars
<1>4. CASE NewPlan
  <2>1. Fresh'
    BY <1>0, <1>4, NewPlanFresh
  <2>2. Fresh' => LayerInv'
    BY FreshPlan, PTL
  <2> QED
    BY <2>1, <2>2
<1>5. CASE RunsOrIdles
  BY <1>0, <1>5, RunKeepsLayers, LayersKept
<1> QED
  BY <1>1, <1>2, <1>3, <1>4, <1>5 DEF PNext, Walk, RunsOrIdles

LEMMA InitFresh == PInit => Fresh
  BY DEF PInit, SeedRefusals, Fresh

LEMMA LayerInvAlways == PSpec => []LayerInv
  BY InitFresh, FreshPlan, LayerStep, PTL DEF PSpec

\* The variables of a plan keep their types: in particular no count of
\* PlanLayers goes below zero.
THEOREM PlanTypes == PSpec => []PTypeOK
<1>1. LayerInv => PTypeOK
  BY DEF LayerInv
<1> QED
  BY <1>1, LayerInvAlways, PTL

\* PlanLayers finds the earliest layer of every step, and rejects only plans
\* with a dependency cycle, whatever the dependencies.
THEOREM LayeringAlwaysCorrect == PSpec => []LayeringCorrect
<1>1. LayerInv => LayeringCorrect
  <2> SUFFICES ASSUME LayerInv PROVE LayeringCorrect
    OBVIOUS
  <2>1. ASSUME phase = "running", NEW s \in Steps
        PROVE  /\ layerOf[s] > 0
               /\ \A d \in deps[s] : layerOf[d] < layerOf[s]
               /\ layerOf[s] > 1 => \E d \in deps[s] : layerOf[d] = layerOf[s] - 1
    <3>1. layerOf[s] > 0
      BY <2>1 DEF LayerInv, Concluded, Unlayered, PTypeOK
    <3> QED
      BY <2>1, <3>1 DEF LayerInv, Earlier, NoLater
  <2>2. ASSUME phase = "rejected"
        PROVE  \E loop \in SUBSET Steps : loop # {} /\ \A s \in loop : deps[s] \cap loop # {}
    <3>1. Unlayered \in SUBSET Steps
      BY DEF Unlayered
    <3> QED
      BY <2>2, <3>1 DEF LayerInv, Concluded
  <2> QED
    BY <2>1, <2>2 DEF LayeringCorrect
<1> QED
  BY <1>1, LayerInvAlways, PTL

(***************************************************************************)
(* What executePlan maintains.                                             *)
(***************************************************************************)
Started == {s \in Steps : step[s] \in InFlight \cup Finished}

\* A plan that is still being layered, or was rejected, has not been touched.
Untouched ==
    phase \in {"layering", "rejected"} =>
        at = 0 /\ queue = {} /\ scheduled = 0 /\ \A s \in Steps : step[s] = "new"

\* The layers behind have been looked at, those ahead have not, and what is
\* under way belongs to the layer in hand: the barrier of wg.Wait.
Barrier ==
    phase \in {"running", "done"} =>
        \A s \in Steps :
            /\ layerOf[s] > at => step[s] = "new"
            /\ s \in queue => layerOf[s] = at /\ step[s] = "new"
            /\ layerOf[s] <= at /\ s \notin queue => step[s] # "new"
            /\ step[s] \in InFlight => layerOf[s] = at

\* scheduled is the number of steps that were started.
ScheduledCounts == scheduled = Cardinality(Started) /\ scheduled <= MaxCycle

RunInv == LayerInv /\ Untouched /\ Barrier /\ ScheduledCounts

LEMMA MaxCycleType == MaxCycle \in Nat
  BY CountOf DEF MaxCycle

\* A fresh plan has nothing started.
LEMMA FreshRun == Fresh => RunInv
<1> SUFFICES ASSUME Fresh PROVE RunInv
  OBVIOUS
<1>1. Untouched /\ Barrier
  BY DEF Fresh, Untouched, Barrier
<1>2. Started = {}
  BY DEF Fresh, Started, InFlight, Finished
<1>3. ScheduledCounts
  BY <1>2, MaxCycleType, FS_EmptySet DEF Fresh, ScheduledCounts
<1> QED
  BY <1>1, <1>3, FreshPlan DEF RunInv

\* Where no step changes and the walk stays where it is, only the phase matters.
LEMMA WalkStays ==
    ASSUME RunInv, LayerInv', UNCHANGED <<runVars, layerOf>>,
           phase' \in {"running", "done"}, phase \in {"running", "done"}
    PROVE  RunInv'
<1>1. Started' = Started
  BY DEF Started, runVars
<1> QED
  BY <1>1 DEF RunInv, Untouched, Barrier, ScheduledCounts, runVars

\* What a step of the walk does to the step it looks at.
LEMMA ConsidersStep ==
    ASSUME RunInv, LayerInv', NEW s \in Steps, NEW to \in StepState \ {"new"}, Considers(s, to),
           IF to \in InFlight \cup Finished
           THEN scheduled < MaxCycle /\ scheduled' = scheduled + 1
           ELSE scheduled' = scheduled
    PROVE  RunInv'
<1>0. /\ phase = "running" /\ phase' = phase /\ s \in queue /\ queue' = queue \ {s}
      /\ layerOf' = layerOf /\ at' = at
      /\ step' = [step EXCEPT ![s] = to] /\ step \in [Steps -> StepState]
      /\ scheduled \in Nat /\ at \in Nat /\ layerOf \in [Steps -> Nat]
  BY DEF Considers, planVars, RunInv, LayerInv, PTypeOK
<1>1. layerOf[s] = at /\ step[s] = "new"
  BY <1>0 DEF RunInv, Barrier
<1>2. step'[s] = to /\ \A t \in Steps \ {s} : step'[t] = step[t]
  BY <1>0
<1>3. Untouched'
  BY <1>0 DEF Untouched
<1>4. Barrier'
  <2> SUFFICES ASSUME NEW t \in Steps
               PROVE  /\ layerOf[t] > at => step'[t] = "new"
                      /\ t \in queue' => layerOf[t] = at /\ step'[t] = "new"
                      /\ layerOf[t] <= at /\ t \notin queue' => step'[t] # "new"
                      /\ step'[t] \in InFlight => layerOf[t] = at
    BY <1>0 DEF Barrier
  <2>1. CASE t = s
    BY <1>0, <1>1, <1>2, <2>1
  <2>2. CASE t # s
    BY <1>0, <1>2, <2>2 DEF RunInv, Barrier
  <2> QED
    BY <2>1, <2>2
<1>5. ScheduledCounts'
  <2>1. s \notin Started /\ Started \in SUBSET Steps
    BY <1>1 DEF Started, InFlight, Finished
  <2>2. IsFiniteSet(Started) /\ Cardinality(Started) \in Nat
    BY <2>1, CountOf
  <2>3. scheduled = Cardinality(Started) /\ scheduled <= MaxCycle
    BY DEF RunInv, ScheduledCounts
  <2>4. CASE to \in InFlight \cup Finished
    <3>1. Started' = Started \cup {s}
      BY <1>2, <2>4 DEF Started
    <3>2. Cardinality(Started') = Cardinality(Started) + 1
      BY <2>1, <2>2, <3>1, FS_AddElement
    <3> QED
      BY <1>0, <2>3, <2>4, <3>2, MaxCycleType DEF ScheduledCounts, MaxCycle
  <2>5. CASE to \notin InFlight \cup Finished
    <3>1. Started' = Started
      BY <1>2, <2>1, <2>5 DEF Started
    <3> QED
      BY <2>3, <2>5, <3>1 DEF ScheduledCounts, MaxCycle
  <2> QED
    BY <2>4, <2>5
<1> QED
  BY <1>3, <1>4, <1>5 DEF RunInv

\* What a step's goroutine does: it was started, and stays started.
LEMMA GoesStep ==
    ASSUME RunInv, LayerInv', NEW s \in Steps, NEW from \in InFlight,
           NEW to \in InFlight \cup Finished, StepGoes(s, from, to)
    PROVE  RunInv'
<1>0. /\ phase' = phase /\ queue' = queue /\ layerOf' = layerOf /\ at' = at
      /\ scheduled' = scheduled /\ step[s] = from
      /\ step' = [step EXCEPT ![s] = to] /\ step \in [Steps -> StepState]
  BY DEF StepGoes, planVars, RunInv, LayerInv, PTypeOK
<1>1. step'[s] = to /\ \A t \in Steps \ {s} : step'[t] = step[t]
  BY <1>0
<1>2. from # "new" /\ to # "new"
  BY DEF InFlight, Finished
<1>3. Untouched'
  BY <1>0, <1>2 DEF RunInv, Untouched
<1>4. Barrier'
  <2> SUFFICES ASSUME phase \in {"running", "done"}, NEW t \in Steps
               PROVE  /\ layerOf[t] > at => step'[t] = "new"
                      /\ t \in queue => layerOf[t] = at /\ step'[t] = "new"
                      /\ layerOf[t] <= at /\ t \notin queue => step'[t] # "new"
                      /\ step'[t] \in InFlight => layerOf[t] = at
    BY <1>0 DEF Barrier
  <2>1. CASE t = s
    BY <1>0, <1>1, <1>2, <2>1 DEF RunInv, Barrier
  <2>2. CASE t # s
    BY <1>1, <2>2 DEF RunInv, Barrier
  <2> QED
    BY <2>1, <2>2
<1>5. Started' = Started
  BY <1>0, <1>1 DEF Started
<1>6. ScheduledCounts'
  BY <1>0, <1>5 DEF RunInv, ScheduledCounts, MaxCycle
<1> QED
  BY <1>3, <1>4, <1>6 DEF RunInv

\* The next layer is taken when nothing of the last is left or under way.
LEMMA NextLayerStep == RunInv /\ LayerInv' /\ NextLayer => RunInv'
<1> SUFFICES ASSUME RunInv, LayerInv', NextLayer PROVE RunInv'
  OBVIOUS
<1>0. /\ phase = "running" /\ phase' = phase /\ queue = {} /\ at' = at + 1
      /\ queue' = {s \in Steps : layerOf[s] = at + 1}
      /\ layerOf' = layerOf /\ step' = step /\ scheduled' = scheduled
  BY DEF NextLayer, planVars
<1>1. at \in Nat /\ layerOf \in [Steps -> Nat]
  BY DEF RunInv, LayerInv, PTypeOK
<1>2. \A s \in Steps : step[s] \notin InFlight
  BY DEF NextLayer, Flying
<1>3. Untouched'
  BY <1>0 DEF Untouched
<1>4. Barrier'
  <2> SUFFICES ASSUME NEW s \in Steps
               PROVE  /\ layerOf[s] > at + 1 => step[s] = "new"
                      /\ layerOf[s] = at + 1 => step[s] = "new"
                      /\ layerOf[s] <= at + 1 /\ layerOf[s] # at + 1 => step[s] # "new"
                      /\ step[s] \notin InFlight
    BY <1>0, <1>1 DEF Barrier
  <2> QED
    BY <1>0, <1>1, <1>2 DEF RunInv, Barrier
<1>5. Started' = Started
  BY <1>0 DEF Started
<1>6. ScheduledCounts'
  BY <1>0, <1>5 DEF RunInv, ScheduledCounts, MaxCycle
<1> QED
  BY <1>3, <1>4, <1>6 DEF RunInv

LEMMA RunStepKept == RunInv /\ [PNext]_pvars => RunInv'
<1> SUFFICES ASSUME RunInv, [PNext]_pvars PROVE RunInv'
  OBVIOUS
<1>0. LayerInv /\ LayerInv'
  BY LayerStep DEF RunInv
<1>1. CASE TakeLayer \/ HasCycle
  <2>1. UNCHANGED runVars /\ phase' \in {"layering", "rejected"} /\ phase = "layering"
    BY <1>1 DEF TakeLayer, HasCycle
  <2>2. Started' = Started
    BY <2>1 DEF Started, runVars
  <2>3. ScheduledCounts'
    BY <2>1, <2>2 DEF RunInv, ScheduledCounts, MaxCycle, runVars
  <2>4. Untouched' /\ Barrier'
    BY <2>1 DEF RunInv, Untouched, Barrier, runVars
  <2> QED
    BY <1>0, <2>3, <2>4 DEF RunInv
<1>2. CASE AllLayered
  <2>1. UNCHANGED runVars /\ layerOf' = layerOf /\ phase' = "running" /\ phase = "layering"
    BY <1>2 DEF AllLayered, planVars
  <2>2. Started' = Started
    BY <2>1 DEF Started, runVars
  <2>3. ScheduledCounts'
    BY <2>1, <2>2 DEF RunInv, ScheduledCounts, MaxCycle, runVars
  <2>4. \A s \in Steps : layerOf[s] # 0 /\ layerOf[s] \in Nat
    BY <1>2 DEF AllLayered, Unlayered, RunInv, LayerInv, PTypeOK
  <2>5. at = 0 /\ queue = {} /\ \A s \in Steps : step[s] = "new"
    BY <2>1 DEF RunInv, Untouched
  <2>6. Untouched' /\ Barrier'
    BY <2>1, <2>4, <2>5 DEF Untouched, Barrier, runVars, InFlight
  <2> QED
    BY <1>0, <2>3, <2>6 DEF RunInv
<1>3. CASE NextLayer
  BY <1>0, <1>3, NextLayerStep
<1>4. CASE PlanEnds
  BY <1>0, <1>4, WalkStays DEF PlanEnds, planVars
<1>5. ASSUME NEW s \in Steps, SkipSevere(s) \/ SkipExhausted(s) \/ Launch(s) PROVE RunInv'
  <2>1. {"severity", "exhausted"} \subseteq StepState \ ({"new"} \cup InFlight \cup Finished)
    BY DEF StepState, Skipped, InFlight, Finished
  <2>2. "launched" \in InFlight /\ "launched" \in StepState \ {"new"}
    BY DEF StepState, InFlight
  <2>3. CASE SkipSevere(s)
    BY <1>0, <2>1, <2>3, ConsidersStep DEF SkipSevere
  <2>4. CASE SkipExhausted(s)
    BY <1>0, <2>1, <2>4, ConsidersStep DEF SkipExhausted
  <2>5. CASE Launch(s)
    BY <1>0, <2>2, <2>5, ConsidersStep DEF Launch
  <2> QED
    BY <1>5, <2>3, <2>4, <2>5
<1>6. ASSUME NEW s \in Steps, OneStep(s) PROVE RunInv'
  <2>1. PICK from \in InFlight, to \in InFlight \cup Finished : StepGoes(s, from, to)
    BY <1>6 DEF OneStep, Submit, SkipRepeated, Applied, Refused, OverBudget, InFlight, Finished
  <2> QED
    BY <1>0, <2>1, GoesStep
<1>7. CASE UNCHANGED pvars \/ \E k \in Keys : Forgotten(k)
  <2>1. UNCHANGED <<phase, runVars, layerOf>>
    BY <1>7 DEF Forgotten, pvars, planVars
  <2>2. Started' = Started
    BY <2>1 DEF Started, runVars
  <2> QED
    BY <1>0, <2>1, <2>2 DEF RunInv, Untouched, Barrier, ScheduledCounts, MaxCycle, runVars
<1>8. CASE NewPlan
  <2>1. Fresh'
    BY <1>0, <1>8, NewPlanFresh DEF LayerInv
  <2>2. Fresh' => RunInv'
    BY FreshRun, PTL
  <2> QED
    BY <2>1, <2>2
<1> QED
  BY <1>1, <1>2, <1>3, <1>4, <1>5, <1>6, <1>7, <1>8 DEF PNext, Walk

LEMMA RunInvAlways == PSpec => []RunInv
  BY InitFresh, FreshRun, RunStepKept, PTL DEF PSpec

\* However the goroutines of a layer are scheduled, a step is started only
\* when everything it depends on has finished or was skipped.
THEOREM DependenciesAlwaysFirst == PSpec => []DependenciesFirst
<1>1. RunInv => DependenciesFirst
  <2> SUFFICES ASSUME RunInv, NEW s \in Steps, step[s] \in InFlight \cup Finished,
                      NEW d \in deps[s]
               PROVE  step[d] \notin {"new"} \cup InFlight
    BY DEF DependenciesFirst
  <2>1. d \in Steps /\ layerOf \in [Steps -> Nat] /\ at \in Nat
    BY DEF RunInv, LayerInv, PTypeOK
  <2>2. step[s] # "new"
    BY DEF InFlight, Finished
  <2>3. phase \in {"running", "done"}
    BY <2>2 DEF RunInv, LayerInv, PTypeOK, Untouched
  <2>4. layerOf[s] # 0
    BY <2>3 DEF RunInv, LayerInv, Concluded, Unlayered
  <2>5. layerOf[d] < layerOf[s]
    BY <2>1, <2>4 DEF RunInv, LayerInv, Earlier
  <2>6. layerOf[s] <= at
    BY <2>1, <2>2, <2>3 DEF RunInv, Barrier
  <2>7. layerOf[d] <= at /\ layerOf[d] # at
    BY <2>1, <2>5, <2>6
  <2> QED
    BY <2>1, <2>3, <2>7 DEF RunInv, Barrier
<1> QED
  BY <1>1, RunInvAlways, PTL

\* No plan starts more steps than the cycle's budget allows, whatever the
\* budget and the number of steps.
THEOREM CycleBudgetAlways == PSpec => []CycleBudget
<1>1. RunInv => CycleBudget
  BY DEF RunInv, ScheduledCounts, Started, CycleBudget
<1> QED
  BY <1>1, RunInvAlways, PTL

(***************************************************************************)
(* What the count of refusals maintains.  Several copies of a step may     *)
(* pass the check before the first of them is refused: as many as the      *)
(* semaphore admits.                                                       *)
(***************************************************************************)
Submitting(k) == {s \in Steps : step[s] = "submitting" /\ Key[s] = k}

Admitted == Cardinality(Flying) <= MaxConc

\* A restart may seed a key with any number of refusals: the bound holds while
\* some copy of the step is with the executor.
Foreseen ==
    \A k \in Keys :
        Submitting(k) # {} =>
            refusals[k] + Cardinality(Submitting(k)) <= RefusalLimit - 1 + MaxConc

RefusalInv == PTypeOK /\ Admitted /\ Foreseen

LEMMA MaxConcType == MaxConc \in Nat
  BY DEF MaxConc

\* Both sets are finite, and what is submitted is under way.
LEMMA SubmittingCounts ==
    ASSUME NEW k
    PROVE  /\ IsFiniteSet(Flying) /\ Cardinality(Flying) \in Nat
           /\ IsFiniteSet(Submitting(k)) /\ Cardinality(Submitting(k)) \in Nat
           /\ Cardinality(Submitting(k)) <= Cardinality(Flying)
<1>1. Flying \in SUBSET Steps /\ Submitting(k) \in SUBSET Flying /\ Submitting(k) \in SUBSET Steps
  BY DEF Flying, Submitting, InFlight
<1>2. IsFiniteSet(Flying)
  BY <1>1, CountOf
<1> QED
  BY <1>1, <1>2, CountOf, FS_Subset

LEMMA FreshRefusals == Fresh => RefusalInv
<1> SUFFICES ASSUME Fresh PROVE RefusalInv
  OBVIOUS
<1>1. PTypeOK
  BY FreshPlan DEF LayerInv
<1>2. Flying = {} /\ \A k \in Keys : Submitting(k) = {}
  BY DEF Fresh, Flying, Submitting, InFlight
<1> QED
  BY <1>1, <1>2, FS_EmptySet, MaxConcType DEF RefusalInv, Admitted, Foreseen

\* Steps that touch neither what is under way nor the refusals.
LEMMA RefusalsStay ==
    ASSUME RefusalInv, PTypeOK', refusals' = refusals, Flying' = Flying,
           \A k \in Keys : Submitting(k)' = Submitting(k)
    PROVE  RefusalInv'
  BY DEF RefusalInv, Admitted, Foreseen, MaxConc

\* The walk skips a step, or starts one when the semaphore has a slot.
LEMMA ConsidersRefusals ==
    ASSUME RefusalInv, PTypeOK', NEW s \in Steps, NEW to \in {"severity", "exhausted", "launched"},
           Considers(s, to), to = "launched" => Cardinality(Flying) < MaxConc,
           step[s] = "new"
    PROVE  RefusalInv'
<1>0. step' = [step EXCEPT ![s] = to] /\ refusals' = refusals /\ step \in [Steps -> StepState]
  BY DEF Considers, RefusalInv, PTypeOK
<1>1. step'[s] = to /\ \A t \in Steps \ {s} : step'[t] = step[t]
  BY <1>0
<1>2. \A k \in Keys : Submitting(k)' = Submitting(k)
  BY <1>1 DEF Submitting
<1>3. CASE to = "launched"
  <2>1. Flying' = Flying \cup {s} /\ s \notin Flying
    BY <1>1, <1>3 DEF Flying, InFlight
  <2>2. IsFiniteSet(Flying) /\ Cardinality(Flying) \in Nat
    BY SubmittingCounts
  <2>3. Cardinality(Flying') = Cardinality(Flying) + 1
    BY <2>1, <2>2, FS_AddElement
  <2>4. Admitted'
    BY <1>3, <2>2, <2>3, MaxConcType DEF Admitted, MaxConc
  <2> QED
    BY <1>0, <1>2, <2>4 DEF RefusalInv, Foreseen, MaxConc
<1>4. CASE to # "launched"
  <2>1. Flying' = Flying
    BY <1>1, <1>4 DEF Flying, InFlight
  <2> QED
    BY <1>0, <1>2, <2>1, RefusalsStay
<1> QED
  BY <1>3, <1>4

\* A goroutine passes the check: every copy that has is under way.
LEMMA SubmitRefusals ==
    ASSUME RefusalInv, PTypeOK', NEW s \in Steps, Submit(s)
    PROVE  RefusalInv'
<1>0. /\ step' = [step EXCEPT ![s] = "submitting"] /\ step[s] = "launched"
      /\ refusals' = refusals /\ step \in [Steps -> StepState] /\ refusals \in [Keys -> Nat]
      /\ refusals[Key[s]] < RefusalLimit
  BY DEF Submit, MaySubmit, StepGoes, RefusalInv, PTypeOK
<1>1. step'[s] = "submitting" /\ \A t \in Steps \ {s} : step'[t] = step[t]
  BY <1>0
<1>2. Flying' = Flying
  BY <1>0, <1>1 DEF Flying, InFlight
<1>3. Admitted'
  BY <1>2 DEF RefusalInv, Admitted, MaxConc
<1>4. Foreseen'
  <2> SUFFICES ASSUME NEW k \in Keys, Submitting(k)' # {}
               PROVE  refusals[k] + Cardinality(Submitting(k)') <= RefusalLimit - 1 + MaxConc
    BY <1>0 DEF Foreseen, MaxConc
  <2>0. Submitting(k)' # {}
    OBVIOUS
  <2>1. CASE k = Key[s]
    <3>0. Submitting(k)' \in SUBSET Flying
      BY <1>2 DEF Submitting, Flying, InFlight
    <3>1. /\ Cardinality(Flying) \in Nat /\ Cardinality(Submitting(k)') \in Nat
          /\ Cardinality(Submitting(k)') <= Cardinality(Flying)
      BY <3>0, SubmittingCounts, FS_Subset, FS_CardinalityType
    <3>2. refusals[k] \in Nat /\ refusals[k] < RefusalLimit
      BY <1>0, <2>1
    <3> QED
      BY <3>1, <3>2, MaxConcType DEF RefusalInv, Admitted
  <2>2. CASE k # Key[s]
    <3>1. Submitting(k)' = Submitting(k)
      BY <1>1, <2>2 DEF Submitting
    <3> QED
      BY <2>0, <3>1 DEF RefusalInv, Foreseen
  <2> QED
    BY <2>1, <2>2
<1> QED
  BY <1>3, <1>4 DEF RefusalInv

\* A goroutine ends: its slot is free, and one refusal takes the place of one
\* submission at the most.
LEMMA EndRefusals ==
    ASSUME RefusalInv, PTypeOK', NEW s \in Steps,
           NEW to \in Finished,
           \/ /\ StepGoes(s, "submitting", to)
              /\ \/ refusals' = refusals
                 \/ refusals' = [refusals EXCEPT ![Key[s]] = 0]
                 \/ refusals' = [refusals EXCEPT ![Key[s]] = @ + 1]
           \/ StepGoes(s, "launched", to) /\ refusals' = refusals
    PROVE  RefusalInv'
<1>0. /\ step' = [step EXCEPT ![s] = to] /\ step \in [Steps -> StepState]
      /\ refusals \in [Keys -> Nat] /\ refusals' \in [Keys -> Nat] /\ Key[s] \in Keys
  BY DEF StepGoes, RefusalInv, PTypeOK
<1>1. step'[s] = to /\ to \notin InFlight /\ \A t \in Steps \ {s} : step'[t] = step[t]
  BY <1>0 DEF InFlight, Finished
<1>2. Flying' \in SUBSET Flying
  BY <1>1 DEF Flying
<1>3. Cardinality(Flying') <= Cardinality(Flying) /\ Cardinality(Flying') \in Nat
  BY <1>2, SubmittingCounts, FS_Subset, FS_CardinalityType
<1>4. Admitted'
  BY <1>3, SubmittingCounts, MaxConcType DEF RefusalInv, Admitted, MaxConc
<1>5. Foreseen'
  <2> SUFFICES ASSUME NEW k \in Keys, Submitting(k)' # {}
               PROVE  refusals'[k] + Cardinality(Submitting(k)') <= RefusalLimit - 1 + MaxConc
    BY DEF Foreseen, MaxConc
  <2>2. /\ IsFiniteSet(Submitting(k)) /\ Cardinality(Submitting(k)) \in Nat
        /\ refusals[k] \in Nat /\ refusals'[k] \in Nat
    BY <1>0, SubmittingCounts
  <2>3. Submitting(k)' \in SUBSET Submitting(k)
    BY <1>1 DEF Submitting, InFlight
  <2>1. refusals[k] + Cardinality(Submitting(k)) <= RefusalLimit - 1 + MaxConc
    BY <2>3 DEF RefusalInv, Foreseen
  <2>4. Cardinality(Submitting(k)') <= Cardinality(Submitting(k)) /\ Cardinality(Submitting(k)') \in Nat
    BY <2>2, <2>3, FS_Subset, FS_CardinalityType
  <2>5. CASE refusals'[k] <= refusals[k]
    BY <2>1, <2>2, <2>4, <2>5, MaxConcType
  <2>6. CASE refusals'[k] > refusals[k]
    <3>1. refusals' = [refusals EXCEPT ![Key[s]] = @ + 1] /\ step[s] = "submitting" /\ k = Key[s]
      BY <1>0, <2>2, <2>6 DEF StepGoes
    <3>2. refusals'[k] = refusals[k] + 1
      BY <1>0, <3>1
    <3>3. s \in Submitting(k) /\ Submitting(k)' = Submitting(k) \ {s}
      BY <1>1, <3>1 DEF Submitting, InFlight
    <3>4. Cardinality(Submitting(k)') = Cardinality(Submitting(k)) - 1
      BY <2>2, <3>3, FS_RemoveElement, ZenonT(30)
    <3> QED
      BY <2>1, <2>2, <3>2, <3>4, MaxConcType
  <2> QED
    BY <2>2, <2>5, <2>6
<1> QED
  BY <1>4, <1>5 DEF RefusalInv

LEMMA RefusalStepKept == RunInv /\ RefusalInv /\ [PNext]_pvars => RefusalInv'
<1> SUFFICES ASSUME RunInv, RefusalInv, [PNext]_pvars PROVE RefusalInv'
  OBVIOUS
<1>0. PTypeOK /\ PTypeOK'
  BY LayerStep DEF RunInv, LayerInv
<1>1. CASE TakeLayer \/ HasCycle \/ AllLayered \/ NextLayer \/ PlanEnds \/ UNCHANGED pvars
  <2>1. step' = step /\ refusals' = refusals
    BY <1>1 DEF TakeLayer, HasCycle, AllLayered, NextLayer, PlanEnds, pvars, runVars
  <2>2. Flying' = Flying /\ \A k \in Keys : Submitting(k)' = Submitting(k)
    BY <2>1 DEF Flying, Submitting
  <2> QED
    BY <1>0, <2>1, <2>2, RefusalsStay
<1>2. ASSUME NEW s \in Steps, SkipSevere(s) \/ SkipExhausted(s) \/ Launch(s) PROVE RefusalInv'
  <2>1. PICK to \in {"severity", "exhausted", "launched"} :
            Considers(s, to) /\ (to = "launched" => Cardinality(Flying) < MaxConc)
    BY <1>2, Zenon DEF SkipSevere, SkipExhausted, Launch
  <2>2. step[s] = "new"
    BY <2>1 DEF Considers, RunInv, Barrier
  <2> QED
    BY <1>0, <2>1, <2>2, ConsidersRefusals
<1>3. ASSUME NEW s \in Steps, OneStep(s) PROVE RefusalInv'
  <2>1. CASE Submit(s)
    BY <1>0, <2>1, SubmitRefusals
  <2>2. CASE SkipRepeated(s)
    BY <1>0, <2>2, EndRefusals DEF SkipRepeated, Finished
  <2>3. CASE Applied(s)
    BY <1>0, <2>3, EndRefusals DEF Applied, Finished
  <2>4. CASE Refused(s)
    BY <1>0, <2>4, EndRefusals DEF Refused, Finished
  <2>5. CASE OverBudget(s)
    BY <1>0, <2>5, EndRefusals DEF OverBudget, Finished
  <2> QED
    BY <1>3, <2>1, <2>2, <2>3, <2>4, <2>5 DEF OneStep
<1>4. ASSUME NEW j \in Keys, Forgotten(j) PROVE RefusalInv'
  <2>1. /\ step' = step /\ refusals \in [Keys -> Nat]
        /\ refusals' = [refusals EXCEPT ![j] = @ - 1]
    BY <1>0, <1>4 DEF Forgotten, runVars, PTypeOK
  <2>2. Flying' = Flying /\ \A k \in Keys : Submitting(k)' = Submitting(k)
    BY <2>1 DEF Flying, Submitting
  <2>3. \A k \in Keys : refusals'[k] \in Int /\ refusals'[k] <= refusals[k] /\ refusals[k] \in Nat
    BY <2>1
  <2>4. Foreseen'
    <3> SUFFICES ASSUME NEW k \in Keys, Submitting(k) # {}
                 PROVE  refusals'[k] + Cardinality(Submitting(k)) <= RefusalLimit - 1 + MaxConc
      BY <2>2 DEF Foreseen, MaxConc
    <3>1. refusals[k] + Cardinality(Submitting(k)) <= RefusalLimit - 1 + MaxConc
      BY DEF RefusalInv, Foreseen
    <3> QED
      BY <2>3, <3>1, SubmittingCounts, MaxConcType
  <2> QED
    BY <1>0, <2>2, <2>4 DEF RefusalInv, Admitted, MaxConc
<1>5. CASE NewPlan
  <2>1. Fresh'
    BY <1>0, <1>5, NewPlanFresh
  <2>2. Fresh' => RefusalInv'
    BY FreshRefusals, PTL
  <2> QED
    BY <2>1, <2>2
<1> QED
  BY <1>1, <1>2, <1>3, <1>4, <1>5 DEF PNext, Walk

\* The refusals of a key never outrun the limit by more than the concurrency
\* of a layer, whatever the limits, the number of steps that share the key and
\* the refusals a restart seeded.
THEOREM RefusalsAlwaysBounded == PSpec => RefusalsBounded
<1>1. PInit => RefusalInv
  BY InitFresh, FreshRefusals
<1>2. RefusalInv /\ [PNext]_pvars => [RefusalStep]_pvars
  <2> SUFFICES ASSUME RefusalInv, PNext, NEW k \in Keys, refusals'[k] > refusals[k]
               PROVE  refusals'[k] < RefusalLimit + MaxConc
    BY DEF RefusalStep
  <2>0. refusals \in [Keys -> Nat] /\ step \in [Steps -> StepState]
    BY DEF RefusalInv, PTypeOK
  <2>1. refusals'[k] # refusals[k] /\ refusals'[k] # 0 /\ refusals'[k] # refusals[k] - 1
    BY <2>0
  <2>2. PICK s \in Steps : Refused(s)
    <3>1. ASSUME NEW s \in Steps, OneStep(s), ~ Refused(s) PROVE FALSE
      BY <2>0, <2>1, <3>1 DEF OneStep, Submit, SkipRepeated, Applied, OverBudget
    <3>2. ASSUME NEW j \in Keys, Forgotten(j) PROVE FALSE
      BY <2>0, <2>1, <3>2 DEF Forgotten
    <3>3. ASSUME Walk PROVE FALSE
      BY <2>1, <3>3 DEF Walk, TakeLayer, HasCycle, AllLayered, NextLayer, PlanEnds,
                        SkipSevere, SkipExhausted, Launch, Considers
    <3>4. ASSUME NewPlan PROVE FALSE
      BY <2>1, <3>4 DEF NewPlan
    <3> QED
      BY <3>1, <3>2, <3>3, <3>4 DEF PNext
  <2>3. /\ refusals' = [refusals EXCEPT ![Key[s]] = @ + 1]
        /\ step[s] = "submitting" /\ Key[s] \in Keys
    BY <2>2 DEF Refused, StepGoes
  <2>4. k = Key[s] /\ refusals'[k] = refusals[k] + 1
    BY <2>0, <2>1, <2>3
  <2>5. s \in Submitting(k)
    BY <2>3, <2>4 DEF Submitting
  <2>6. Cardinality(Submitting(k)) \in Nat /\ Cardinality(Submitting(k)) # 0
    BY <2>5, SubmittingCounts, FS_EmptySet
  <2>7. refusals[k] + Cardinality(Submitting(k)) <= RefusalLimit - 1 + MaxConc
    BY <2>5 DEF RefusalInv, Foreseen
  <2>8. refusals[k] \in Nat
    BY <2>0
  <2> QED
    BY <2>4, <2>6, <2>7, <2>8, MaxConcType
<1> QED
  BY <1>1, <1>2, RunInvAlways, RefusalStepKept, PTL DEF PSpec, RefusalsBounded
=============================================================================
