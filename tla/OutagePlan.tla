----------------------------- MODULE OutagePlan -----------------------------
(***************************************************************************)
(* Which pods a ZoneOutage or NodeOutage takes down.  The manifest names a *)
(* place, not pods: the driver reads nodes, pods, workloads and exclusions *)
(* and makes one PodChaos per workload found there, whose selector is the  *)
(* workload's own.  Another workload's pods may carry the same labels, and *)
(* the cluster moves between two reads, and between the check made before  *)
(* the apply and the apply.                                                *)
(***************************************************************************)
EXTENDS Integers, FiniteSets

CONSTANTS
    OWorkload,  \* Deployments, StatefulSets and DaemonSets of the arena
    OPod,       \* its pods
    Bare,       \* the owner of a pod that no workload controls
    MaxMoves,   \* bound on the pods rescheduled during a call
    MaxMarks    \* bound on the edits of the exclusion annotation

ASSUME OutageAssumption == Bare \notin OWorkload /\ MaxMoves \in Nat /\ MaxMarks \in Nat

VARIABLES
    owner,          \* of each pod
    matches,        \* the pods each workload's selector matches
    there,          \* the live pods in the zone or on the node
    marks,          \* the workloads the namespace excludes
    named,          \* the workloads the targets name; none means all
    ostep,
    onCtx,          \* the exclusions the executor read
    listed,         \* the pods there, as read
    plan,           \* outagePlan: the workloads, and the pods it says are affected
    hit,            \* the pods the created members' selectors found
    moves, marking,
    markedAllAlong  \* workloads excluded at every moment of the call

Cluster == <<owner, matches, named>>
Moving == <<there, marks, moves, marking, markedAllAlong>>
ovars == <<Cluster, Moving, ostep, onCtx, listed, plan, hit>>

NoPlan == [workloads |-> {}, excluded |-> {}, affected |-> {}]

\* Selectors: each finds its own workload's pods, and maybe those of another.
OInit ==
    /\ owner \in [OPod -> OWorkload \cup {Bare}]
    /\ matches \in [OWorkload -> SUBSET OPod]
    /\ \A w \in OWorkload, p \in OPod : owner[p] = w => p \in matches[w]
    /\ there \in SUBSET OPod
    /\ marks \in SUBSET OWorkload /\ named \in SUBSET OWorkload
    /\ ostep = "exclusions"
    /\ onCtx = {} /\ listed = {} /\ plan = NoPlan /\ hit = {}
    /\ moves = 0 /\ marking = 0 /\ markedAllAlong = marks

\* The executor's read of the annotation, which travels with the call.
ReadExclusions ==
    /\ ostep = "exclusions"
    /\ onCtx' = marks /\ ostep' = "check"
    /\ UNCHANGED <<Cluster, Moving, listed, plan, hit>>

(***************************************************************************)
(* planOutage, once for CheckTargets and once for Apply.                   *)
(***************************************************************************)
\* Nodes, pods and workloads are listed first; pods on their way out are not live.
ListPlace ==
    /\ ostep \in {"check", "apply"}
    /\ listed' = there
    /\ ostep' = IF ostep = "check" THEN "checkPlan" ELSE "applyPlan"
    /\ UNCHANGED <<Cluster, Moving, onCtx, plan, hit>>

owns(w, p) == owner[p] = w /\ p \in matches[w]
Present == {w \in OWorkload : \E p \in listed : owns(w, p)}

\* Mutant: the workload is judged by its own pods alone.
TakesExcluded(ws, out) == FALSE

\* A member's selector that also finds a pod of an excluded workload there.
ReachesExcluded(ws, out) ==
    \E w \in ws, x \in out, p \in listed : p \in matches[w] /\ owns(x, p)

Affected(ws) == listed \cap UNION {matches[w] : w \in ws}

planOutage(excluded) ==
    LET out == Present \cap excluded
        ws  == (Present \ out) \cap (IF named = {} THEN OWorkload ELSE named)
    IN  [workloads |-> ws, excluded |-> out,
         affected |-> IF ReachesExcluded(ws, out) THEN {} ELSE Affected(ws)]

\* The executor's list and the annotation as it is now.
excludedWorkloads == onCtx \cup marks

Refuses(p) == p.workloads = {} \/ p.affected = {}

CheckTargets ==
    /\ ostep = "checkPlan"
    /\ ostep' = IF Refuses(planOutage(excludedWorkloads)) THEN "refused" ELSE "apply"
    /\ UNCHANGED <<Cluster, Moving, onCtx, listed, plan, hit>>

\* A read that fails is no answer: the check lets it pass, the apply fails.
ReadFails ==
    /\ ostep \in {"check", "checkPlan", "apply", "applyPlan"}
    /\ ostep' = IF ostep \in {"check", "checkPlan"} THEN "apply" ELSE "refused"
    /\ UNCHANGED <<Cluster, Moving, onCtx, listed, plan, hit>>

PlanApply ==
    /\ ostep = "applyPlan"
    /\ LET p == planOutage(excludedWorkloads)
       IN  IF Refuses(p) THEN ostep' = "refused" /\ plan' = plan
           ELSE ostep' = "create" /\ plan' = p
    /\ UNCHANGED <<Cluster, Moving, onCtx, listed, hit>>

\* memberSpec: the workload's selector, in the place.  The engine looks for the
\* pods when it is given the member.
CreateMembers ==
    /\ ostep = "create"
    /\ hit' = there \cap UNION {matches[w] : w \in plan.workloads}
    /\ ostep' = "applied"
    /\ UNCHANGED <<Cluster, Moving, onCtx, listed, plan>>

(***************************************************************************)
(* The cluster (external).                                                 *)
(***************************************************************************)
InCall == ostep \notin {"applied", "refused"}

\* A pod comes to the place or leaves it.
MovePod(p) ==
    /\ InCall /\ moves < MaxMoves /\ moves' = moves + 1
    /\ there' = IF p \in there THEN there \ {p} ELSE there \cup {p}
    /\ UNCHANGED <<Cluster, marks, marking, markedAllAlong, ostep, onCtx, listed, plan, hit>>

Mark(w) ==
    /\ InCall /\ marking < MaxMarks /\ marking' = marking + 1
    /\ marks' = IF w \in marks THEN marks \ {w} ELSE marks \cup {w}
    /\ markedAllAlong' = markedAllAlong \cap marks'
    /\ UNCHANGED <<Cluster, there, moves, ostep, onCtx, listed, plan, hit>>

ONext ==
    \/ ReadExclusions \/ ListPlace \/ CheckTargets \/ ReadFails \/ PlanApply \/ CreateMembers
    \/ \E p \in OPod : MovePod(p)
    \/ \E w \in OWorkload : Mark(w)

OSpec == OInit /\ [][ONext]_ovars

\* Type invariant: a plan never lists as doomed a workload it found excluded.
OTypeOK ==
    /\ ostep \in {"exclusions", "check", "checkPlan", "apply", "applyPlan", "create", "applied", "refused"}
    /\ listed \subseteq OPod /\ hit \subseteq OPod /\ plan.affected \subseteq listed
    /\ onCtx \subseteq OWorkload /\ markedAllAlong \subseteq marks
    /\ plan.workloads \cap plan.excluded = {} /\ plan.workloads \cap onCtx = {}
    /\ (ostep \in {"create", "applied"}) <=> (plan.workloads # {})

\* An applied outage takes down no pod that was in the place when the pods were
\* listed and is of a workload excluded all through the call or when the call
\* began, even one that merely carries a doomed workload's labels.
OutageSpares ==
    ostep = "applied" =>
        \A p \in hit \cap listed : owner[p] \notin markedAllAlong \cup onCtx

\* The pods the audit record calls affected are the pods the members find, where
\* no pod moved: the record is of what the selectors reach, not of what the
\* workloads own.
OutageTold == ostep = "applied" /\ moves = 0 => plan.affected = hit

\* An applied outage takes the pods its plan told of, and none of an excluded workload.
OutageAsPlanned == OTypeOK /\ OutageSpares /\ OutageTold
=============================================================================
