------------------------------ MODULE PlanRun -------------------------------
(***************************************************************************)
(* One autonomous attack plan after another: the layering of a plan's      *)
(* steps by their dependencies (planner.validateStepDAG and PlanLayers)    *)
(* and the execution of the layers under the cycle's budgets               *)
(* (Loop.executePlan), with the count of refusals the loop keeps from one  *)
(* plan to the next.  The steps of a layer run concurrently.               *)
(***************************************************************************)
EXTENDS Integers, FiniteSets

CONSTANTS
    Steps,                \* PlanStep.Order of the steps of every plan
    Keys,                 \* what stepKey tells apart
    Plans,                \* the dependencies the generated plans may have
    Key,                  \* stepKey of each step
    Tier,                 \* BlastRadiusTier of each step
    MaxSeverityPerCycle,  \* Budget.MaxSeverityPerCycle, "" = no cap
    MaxFaultsPerCycle,    \* Budget.MaxFaultsPerCycle, 0 = no cap
    MaxConcurrentFaults,  \* Budget.MaxConcurrentFaults, 0 = one at a time
    RefusalLimit,         \* repeatedRefusalLimit
    MaxSeeded,            \* bound on the refusals of a key that seedRefusals finds
    MaxPlans              \* bound on the number of plans

Tiers == {"namespace", "node", "external", "other"}

ASSUME StepsAssumption == Steps \subseteq Nat /\ IsFiniteSet(Steps)
\* What the generator hands on: distinct orders, no unknown dependency and no
\* step that depends on itself.  A cycle is still possible.
ValidPlans == {g \in [Steps -> SUBSET Steps] : \A s \in Steps : s \notin g[s]}

ASSUME PlansAssumption == Plans \subseteq ValidPlans
ASSUME KeyAssumption == Key \in [Steps -> Keys]
ASSUME TierAssumption == Tier \in [Steps -> Tiers] /\ MaxSeverityPerCycle \in Tiers \cup {""}
ASSUME BudgetAssumption ==
    /\ MaxFaultsPerCycle \in Nat
    /\ MaxConcurrentFaults \in Nat
    /\ RefusalLimit \in Nat \ {0}
    /\ MaxSeeded \in Nat
    /\ MaxPlans \in Nat

VARIABLES
    phase,      \* layering the plan, running it, or finished with it
    deps,       \* PlanStep.DependsOn of each step
    indeg,      \* the dependencies of each step not yet in a layer
    layerOf,    \* the layer of each step, 0 while it has none
    depth,      \* how many layers there are so far
    at,         \* the layer executePlan is in
    queue,      \* the steps of that layer it has still to look at
    scheduled,  \* how many steps it has started in this plan
    step,       \* what has become of each step
    refusals,   \* Loop.refusals: how many recent ones each key has
    plans

planVars == <<deps, indeg, layerOf, depth>>
runVars  == <<at, queue, scheduled, step>>
pvars    == <<phase, planVars, runVars, refusals, plans>>

Skipped   == {"severity", "exhausted"}
InFlight  == {"launched", "submitting"}
Finished  == {"applied", "refused", "over budget", "repeated"}
StepState == {"new"} \cup Skipped \cup InFlight \cup Finished

MaxCycle == IF MaxFaultsPerCycle > 0 THEN MaxFaultsPerCycle ELSE Cardinality(Steps)
MaxConc  == IF MaxConcurrentFaults > 0 THEN MaxConcurrentFaults ELSE 1

\* Type invariant: the dependency counts of PlanLayers stay natural numbers.
PTypeOK ==
    /\ phase \in {"layering", "running", "done", "rejected"}
    /\ deps \in [Steps -> SUBSET Steps]
    /\ indeg \in [Steps -> Nat]
    /\ layerOf \in [Steps -> Nat]
    /\ depth \in Nat
    /\ at \in Nat
    /\ queue \in SUBSET Steps
    /\ scheduled \in Nat
    /\ step \in [Steps -> StepState]
    /\ refusals \in [Keys -> Nat]
    /\ plans \in Nat

\* seedRefusals: a restarted controller counts the refusals its history was
\* seeded with, those of faults submitted by hand included.
SeedRefusals == refusals \in [Keys -> 0 .. MaxSeeded]

PInit ==
    /\ phase = "layering"
    /\ deps \in Plans
    /\ indeg = [s \in Steps |-> Cardinality(deps[s])]
    /\ layerOf = [s \in Steps |-> 0]
    /\ depth = 0
    /\ at = 0
    /\ queue = {}
    /\ scheduled = 0
    /\ step = [s \in Steps |-> "new"]
    /\ SeedRefusals
    /\ plans = 1

(***************************************************************************)
(* PlanLayers.                                                             *)
(***************************************************************************)
Unlayered == {s \in Steps : layerOf[s] = 0}

\* Mutant: a step with one dependency open is let into the layer.
AlmostReady == {s \in Unlayered : indeg[s] <= 1}

Ready == {s \in Unlayered : indeg[s] = 0}

TakeLayer ==
    /\ phase = "layering"
    /\ Ready # {}
    /\ layerOf' = [s \in Steps |-> IF s \in Ready THEN depth + 1 ELSE layerOf[s]]
    /\ indeg' = [s \in Steps |-> IF s \in Unlayered
                                 THEN indeg[s] - Cardinality(deps[s] \cap Ready) ELSE indeg[s]]
    /\ depth' = depth + 1
    /\ UNCHANGED <<phase, deps, runVars, refusals, plans>>

\* "plan contains a dependency cycle": the generator asks again, and the loop
\* does not see the plan.
HasCycle ==
    /\ phase = "layering"
    /\ Unlayered # {}
    /\ Ready = {}
    /\ phase' = "rejected"
    /\ UNCHANGED <<planVars, runVars, refusals, plans>>

AllLayered ==
    /\ phase = "layering"
    /\ Unlayered = {}
    /\ phase' = "running"
    /\ UNCHANGED <<planVars, runVars, refusals, plans>>

(***************************************************************************)
(* executePlan: the goroutine that walks the layers.                       *)
(***************************************************************************)
Flying == {s \in Steps : step[s] \in InFlight}

\* Mutant: the next layer does not wait for the steps of the last.
NextLayerAtOnce ==
    /\ phase = "running"
    /\ queue = {}
    /\ at < depth /\ scheduled < MaxCycle
    /\ at' = at + 1
    /\ queue' = {s \in Steps : layerOf[s] = at + 1}
    /\ UNCHANGED <<phase, planVars, scheduled, step, refusals, plans>>

\* wg.Wait has returned, and there is a layer left and budget for it.
NextLayer ==
    /\ phase = "running"
    /\ queue = {} /\ Flying = {}
    /\ at < depth /\ scheduled < MaxCycle
    /\ at' = at + 1
    /\ queue' = {s \in Steps : layerOf[s] = at + 1}
    /\ UNCHANGED <<phase, planVars, scheduled, step, refusals, plans>>

\* Mutant: a spent cycle budget does not end the walk.
PlanEndsAtLastLayer ==
    /\ phase = "running"
    /\ queue = {} /\ Flying = {}
    /\ at >= depth
    /\ phase' = "done"
    /\ UNCHANGED <<planVars, runVars, refusals, plans>>

PlanEnds ==
    /\ phase = "running"
    /\ queue = {} /\ Flying = {}
    /\ at >= depth \/ scheduled >= MaxCycle
    /\ phase' = "done"
    /\ UNCHANGED <<planVars, runVars, refusals, plans>>

\* A layer is sorted, so its steps are looked at in order.
Considers(s, next) ==
    /\ phase = "running"
    /\ s \in queue
    /\ \A t \in queue : s <= t
    /\ queue' = queue \ {s}
    /\ step' = [step EXCEPT ![s] = next]
    /\ UNCHANGED <<phase, planVars, at, refusals, plans>>

TierOrdinal(t) ==
    CASE t = "namespace" -> 1 [] t = "node" -> 2 [] t = "external" -> 3 [] OTHER -> 0

\* A tier or a cap that is not known exceeds everything.
TierExceeds(have, max) ==
    \/ TierOrdinal(have) = 0
    \/ TierOrdinal(max) = 0
    \/ TierOrdinal(have) > TierOrdinal(max)

TooSevere(s) == MaxSeverityPerCycle # "" /\ TierExceeds(Tier[s], MaxSeverityPerCycle)

SkipSevere(s) ==
    /\ TooSevere(s)
    /\ Considers(s, "severity")
    /\ UNCHANGED scheduled

SkipExhausted(s) ==
    /\ ~ TooSevere(s)
    /\ scheduled >= MaxCycle
    /\ Considers(s, "exhausted")
    /\ UNCHANGED scheduled

\* Mutant: what is started is not counted against the cycle.
LaunchUncounted(s) ==
    /\ ~ TooSevere(s)
    /\ scheduled < MaxCycle
    /\ Cardinality(Flying) < MaxConc
    /\ Considers(s, "launched")
    /\ UNCHANGED scheduled

\* scheduled++, then a slot of the semaphore, then the step's own goroutine.
Launch(s) ==
    /\ ~ TooSevere(s)
    /\ scheduled < MaxCycle
    /\ Cardinality(Flying) < MaxConc
    /\ Considers(s, "launched")
    /\ scheduled' = scheduled + 1

(***************************************************************************)
(* executePlan: the goroutine of one step.                                 *)
(***************************************************************************)
StepGoes(s, from, to) ==
    /\ step[s] = from
    /\ step' = [step EXCEPT ![s] = to]
    /\ UNCHANGED <<phase, planVars, at, queue, scheduled, plans>>

\* Mutant: one refusal too many.
MayStillSubmit(s) == refusals[Key[s]] <= RefusalLimit

MaySubmit(s) == refusals[Key[s]] < RefusalLimit

Submit(s) ==
    /\ MaySubmit(s)
    /\ StepGoes(s, "launched", "submitting")
    /\ UNCHANGED refusals

SkipRepeated(s) ==
    /\ ~ MaySubmit(s)
    /\ StepGoes(s, "launched", "repeated")
    /\ UNCHANGED refusals

\* Executor.Apply returns, and noteOutcome takes note: a step that ran is
\* forgiven, a refusal counts, a budget refusal does not.
Applied(s) ==
    /\ StepGoes(s, "submitting", "applied")
    /\ refusals' = [refusals EXCEPT ![Key[s]] = 0]

Refused(s) ==
    /\ StepGoes(s, "submitting", "refused")
    /\ refusals' = [refusals EXCEPT ![Key[s]] = @ + 1]

OverBudget(s) ==
    /\ StepGoes(s, "submitting", "over budget")
    /\ UNCHANGED refusals

(***************************************************************************)
(* Between plans.                                                          *)
(***************************************************************************)
\* The window moves past the oldest refusal of a key.
Forgotten(k) ==
    /\ refusals[k] > 0
    /\ refusals' = [refusals EXCEPT ![k] = @ - 1]
    /\ UNCHANGED <<phase, planVars, runVars, plans>>

NewPlan ==
    /\ phase \in {"done", "rejected"}
    /\ plans < MaxPlans
    /\ plans' = plans + 1
    /\ phase' = "layering"
    /\ deps' \in Plans
    /\ indeg' = [s \in Steps |-> Cardinality(deps'[s])]
    /\ layerOf' = [s \in Steps |-> 0]
    /\ depth' = 0
    /\ at' = 0
    /\ queue' = {}
    /\ scheduled' = 0
    /\ step' = [s \in Steps |-> "new"]
    /\ UNCHANGED refusals

Walk ==
    \/ TakeLayer \/ HasCycle \/ AllLayered \/ NextLayer \/ PlanEnds
    \/ \E s \in Steps : SkipSevere(s) \/ SkipExhausted(s) \/ Launch(s)

OneStep(s) == Submit(s) \/ SkipRepeated(s) \/ Applied(s) \/ Refused(s) \/ OverBudget(s)

PNext ==
    \/ Walk
    \/ \E s \in Steps : OneStep(s)
    \/ \E k \in Keys : Forgotten(k)
    \/ NewPlan

PSpec == PInit /\ [][PNext]_pvars

\* The loop's goroutine and every step's run; Apply returns.
PFairness == WF_pvars(Walk) /\ \A s \in Steps : WF_pvars(OneStep(s))

PFairSpec == PSpec /\ PFairness

(***************************************************************************)
(* Properties.                                                             *)
(***************************************************************************)
\* PlanLayers puts every step as early as its dependencies allow and no
\* earlier, and gives up on exactly the plans that contain a cycle.
LayeringCorrect ==
    /\ phase = "running" =>
        \A s \in Steps :
            /\ layerOf[s] > 0
            /\ \A d \in deps[s] : layerOf[d] < layerOf[s]
            /\ layerOf[s] > 1 => \E d \in deps[s] : layerOf[d] = layerOf[s] - 1
    /\ phase = "rejected" =>
        \E loop \in SUBSET Steps : loop # {} /\ \A s \in loop : deps[s] \cap loop # {}

\* A step is started only when nothing it depends on is still to be started
\* or still under way, in whatever order the goroutines of a layer run.
DependenciesFirst ==
    \A s \in Steps :
        step[s] \in InFlight \cup Finished =>
            \A d \in deps[s] : step[d] \notin {"new"} \cup InFlight

\* A cycle submits at most --max-faults-per-cycle steps of its plan.
CycleBudget ==
    Cardinality({s \in Steps : step[s] \in InFlight \cup Finished}) <= MaxCycle

\* "The executor is not asked the same question hundreds of times": no refusal
\* takes a key past the limit by more than the copies of the step that passed
\* the check before the first of them was refused, whatever a restart seeded.
RefusalStep ==
    \A k \in Keys : refusals'[k] > refusals[k] => refusals'[k] < RefusalLimit + MaxConc

\* The refusal limit holds at every step.
RefusalsBounded == [][RefusalStep]_pvars

\* Every plan that is being run is finished with.
PlanTerminates == phase = "running" ~> phase # "running"
=============================================================================
