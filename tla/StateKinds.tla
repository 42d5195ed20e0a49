----------------------------- MODULE StateKinds -----------------------------
(***************************************************************************)
(* The declarative-state faults.  A builder of pkg/driver/kubestate turns  *)
(* a spec into a bundle of objects, or refuses it; the cluster (kubelet,   *)
(* scheduler, the controllers that write status) moves the bundle towards  *)
(* its failure; and the gate pkg/catalog keeps for the kind, a sequence of *)
(* assertions polled in order, decides when the fault has landed and a     *)
(* subject may be asked about it.  Each assertion is true of the moment it *)
(* was polled, and the cluster does not stand still between two of them.   *)
(***************************************************************************)
EXTENDS Integers, Sequences, FiniteSets, SequencesExt

CONSTANTS
    MaxReplicas,    \* bound on spec.replicas
    Built           \* the pairs <<kind built, kind whose gate is asked>>

Kinds == {"ImageUnresolvable", "ContainerExitLoop", "MemoryLimitSqueeze", "Unschedulable", "NoOp",
          "JobFailure", "SelectorDrift", "BackendCrashLoop", "UnboundClaim", "DependencyStall",
          "PDBGridlock", "RolloutStuck", "CertExpiry"}

ASSUME KindsAssumption == MaxReplicas \in Nat \ {0} /\ Built \subseteq Kinds \X Kinds

KubeStateCrashLoopRestarts == 5
ExecutorCeiling == 900     \* seconds a lease may last at most
PendingDwellCeiling == 600
DwellPolls == 2            \* polls a dwell stands for
maxBackoffLimit == 6
minProgressDeadline == 30
maxProgressDeadline == 600

(***************************************************************************)
(* Specs and builders.  A spec has the fields a builder judges; a bundle,  *)
(* what the cluster will make of it.  Image references, node selectors and *)
(* storage classes are the ones their kind is for: no builder can tell.    *)
(***************************************************************************)
Specs ==
    [replicas : 1 .. MaxReplicas, exit : {0, 1}, over : BOOLEAN, selector : {"own", "drifted"},
     min : 0 .. MaxReplicas + 1, backoff : 0 .. 10, dwell : {0, 90, 6000},
     deadline : {5, 30, 60, 240, 600, 3600}]

\* Only the fields its own builder reads vary from one spec of a kind to the next.
SpecsOf(k) ==
    {s \in Specs :
        /\ k \notin {"ContainerExitLoop", "BackendCrashLoop", "JobFailure"} => s.exit = 1
        /\ k # "MemoryLimitSqueeze" => s.over
        /\ k # "SelectorDrift" => s.selector = "drifted"
        /\ k # "PDBGridlock" => s.min = MaxReplicas
        /\ k # "JobFailure" => s.backoff = 0
        /\ k # "Unschedulable" => s.dwell = 90
        /\ k # "RolloutStuck" => s.deadline = 60
        /\ k = "JobFailure" => s.replicas = 1}

newDeployment(s, run) ==
    [run |-> run, replicas |-> s.replicas, fits |-> TRUE, probe |-> "none", service |-> "none",
     claim |-> FALSE, min |-> 0, revisions |-> 1, secret |-> FALSE, log |-> FALSE]

healthyPod(s) == newDeployment(s, "serve")

\* A container that exits with zero reports Completed, which is another diagnosis.
containerExitLoopPod(s) == [newDeployment(s, "exit") EXCEPT !.log = TRUE]

imageUnresolvablePod(s) == newDeployment(s, "nopull")
memoryLimitSqueezePod(s) == newDeployment(s, IF s.over THEN "hog" ELSE "serve")
unschedulablePod(s) == [healthyPod(s) EXCEPT !.fits = FALSE]
jobFailureBundle(s) == [newDeployment(s, "job") EXCEPT !.log = TRUE]
newService(d, selector) == [d EXCEPT !.service = selector]
selectorDriftBundle(s) == newService(healthyPod(s), s.selector)

\* Mutant: no readiness probe, for the container exits at once anyway.
BackendUnprobed(s) == newService(containerExitLoopPod(s), "own")

backendCrashLoopBundle(s) == newService([containerExitLoopPod(s) EXCEPT !.probe = "false"], "own")
unboundClaimBundle(s) == [healthyPod(s) EXCEPT !.claim = TRUE]
dependencyStallBundle(s) == newService([healthyPod(s) EXCEPT !.probe = "http", !.log = TRUE], "own")
pdbGridlockBundle(s) == [healthyPod(s) EXCEPT !.min = s.min]
rolloutStuckBundle(s) == [healthyPod(s) EXCEPT !.revisions = 2]
certExpiryBundle(s) == [healthyPod(s) EXCEPT !.secret = TRUE]

\* Mutant: a working set inside the limit is let through.
AcceptsSmall(k, s) ==
    /\ k \in {"ContainerExitLoop", "BackendCrashLoop", "JobFailure"} => s.exit \in 1 .. 255
    /\ k = "JobFailure" => s.backoff \in 0 .. maxBackoffLimit
    /\ k = "SelectorDrift" => s.selector # "own"
    /\ k = "PDBGridlock" => s.min >= 1 /\ s.min >= s.replicas
    /\ k = "RolloutStuck" => s.deadline \in minProgressDeadline .. maxProgressDeadline

\* What each builder refuses: the specs that "would apply cleanly and do nothing".
Accepts(k, s) ==
    /\ k \in {"ContainerExitLoop", "BackendCrashLoop", "JobFailure"} => s.exit \in 1 .. 255
    /\ k = "JobFailure" => s.backoff \in 0 .. maxBackoffLimit
    /\ k = "MemoryLimitSqueeze" => s.over
    /\ k = "SelectorDrift" => s.selector # "own"
    /\ k = "PDBGridlock" => s.min >= 1 /\ s.min >= s.replicas
    /\ k = "RolloutStuck" => s.deadline \in minProgressDeadline .. maxProgressDeadline

builders(k, s) ==
    CASE k = "ImageUnresolvable" -> imageUnresolvablePod(s)
      [] k = "ContainerExitLoop" -> containerExitLoopPod(s)
      [] k = "MemoryLimitSqueeze" -> memoryLimitSqueezePod(s)
      [] k = "Unschedulable" -> unschedulablePod(s)
      [] k = "JobFailure" -> jobFailureBundle(s)
      [] k = "SelectorDrift" -> selectorDriftBundle(s)
      [] k = "BackendCrashLoop" -> backendCrashLoopBundle(s)
      [] k = "UnboundClaim" -> unboundClaimBundle(s)
      [] k = "DependencyStall" -> dependencyStallBundle(s)
      [] k = "PDBGridlock" -> pdbGridlockBundle(s)
      [] k = "RolloutStuck" -> rolloutStuckBundle(s)
      [] k = "CertExpiry" -> certExpiryBundle(s)
      [] OTHER -> healthyPod(s)

brokenRolloutContainer(b) == [b EXCEPT !.run = "exit", !.probe = "false", !.log = TRUE]

(***************************************************************************)
(* The gates: assertions with their budgets in seconds.                    *)
(***************************************************************************)
Check(what, timeout) == [what |-> what, timeout |-> timeout, dwell |-> 0]

workloadReadyGate == Check("ready", 120)
workloadRolledOutGate == Check("rolledOut", 60)
crashLoopVisibleGate == Check("loopVisible", 180)

\* A negative dwell is none, and a long one is cut.
KubeStatePendingDwell(s) == IF s.dwell > PendingDwellCeiling THEN PendingDwellCeiling ELSE s.dwell
kubeStatePendingTimeout(s) == KubeStatePendingDwell(s) + 120

crashLoopGates == <<Check("Error", 90), Check("restarts", 300), crashLoopVisibleGate>>
unschedulableGate(s) ==
    [what |-> "Unschedulable", timeout |-> kubeStatePendingTimeout(s), dwell |-> KubeStatePendingDwell(s)]

\* An absence proves nothing until something is there to be absent from.
selectorDriftGates == <<workloadReadyGate, Check("noEndpoints", 30)>>

memoryLimitSqueezeGates == <<Check("OOMKilled", 120)>>
backendCrashLoopGates == crashLoopGates \o <<Check("endpointsNotReady", 90)>>
unboundClaimGates == <<Check("claimPending", 60), Check("Unschedulable", 120)>>
dependencyStallGates ==
    <<workloadReadyGate, workloadRolledOutGate, Check("endpointsReady", 60), Check("logLine", 60)>>
pdbGridlockGates == <<workloadReadyGate, workloadRolledOutGate, Check("noDisruption", 90)>>
rolloutStuckGates == <<Check("deadlineExceeded", 240), Check("serving", 60)>>
certExpiryGates == <<workloadReadyGate, workloadRolledOutGate, Check("certificate", 30)>>
noOpGates == <<workloadReadyGate, workloadRolledOutGate>>

kubeStateGates(k, s) ==
    CASE k = "ImageUnresolvable" -> <<Check("ImagePullBackOff", 90)>>
      [] k = "ContainerExitLoop" -> crashLoopGates
      [] k = "MemoryLimitSqueeze" -> memoryLimitSqueezeGates
      [] k = "Unschedulable" -> <<unschedulableGate(s)>>
      [] k = "JobFailure" -> <<Check("BackoffLimitExceeded", 180)>>
      [] k = "SelectorDrift" -> selectorDriftGates
      [] k = "BackendCrashLoop" -> backendCrashLoopGates
      [] k = "UnboundClaim" -> unboundClaimGates
      [] k = "DependencyStall" -> dependencyStallGates
      [] k = "PDBGridlock" -> pdbGridlockGates
      [] k = "RolloutStuck" -> rolloutStuckGates
      [] k = "CertExpiry" -> certExpiryGates
      [] OTHER -> noOpGates

VARIABLES
    kind, spec,   \* what was applied
    asked,        \* the kind whose gate is polled; the same kind, but for the cross-checks
    pods,         \* the containers, 0 being the pod of a second revision
    status,       \* what the controllers have written, each from what it saw last
    gate,         \* the assertion polled now
    held,         \* polls in a row that saw it
    gaveUp        \* whether an assertion's budget ran out

kvars == <<kind, spec, asked, pods, status, gate, held, gaveUp>>

Bundle == builders(kind, spec)
Gates == kubeStateGates(asked, spec)
Old == 1 .. spec.replicas
PodIds == DOMAIN pods
PodOf(p) == IF p = 0 THEN brokenRolloutContainer(Bundle) ELSE Bundle

NoPod == [st |-> "new", ready |-> FALSE, restarts |-> 0, last |-> "none"]
States == {"new", "unscheduled", "placed", "pullfailed", "running", "terminated", "waiting", "done"}

\* Type invariant: the pods of the bundle, what the controllers wrote of them, the gate.
KTypeOK ==
    /\ <<kind, asked>> \in Built /\ spec \in SpecsOf(kind)
    /\ PodIds \subseteq 0 .. MaxReplicas
    /\ pods \in [PodIds -> [st : States, ready : BOOLEAN, restarts : 0 .. KubeStateCrashLoopRestarts,
                            last : {"none", "Error", "OOMKilled", "Completed"}]]
    /\ \A p \in PodIds : pods[p].ready => pods[p].st = "running"
    /\ status \in [ready : 0 .. MaxReplicas + 1, available : 0 .. MaxReplicas + 1,
                   rollout : {"none", "progressing", "exceeded"}, slices : {"none", "written"},
                   endpoints : SUBSET ((0 .. MaxReplicas) \X BOOLEAN), disruptions : -1 .. MaxReplicas,
                   job : BOOLEAN, failures : 0 .. maxBackoffLimit + 1, logged : BOOLEAN]
    /\ gate \in 1 .. 5 /\ held \in 0 .. DwellPolls /\ gaveUp \in BOOLEAN

KInit ==
    /\ \E b \in Built : kind = b[1] /\ asked = b[2]
    /\ spec \in SpecsOf(kind) /\ Accepts(kind, spec)
    /\ asked # kind => spec.replicas = 1 /\ spec.backoff = 0 /\ spec.dwell = 90 /\ spec.min \in {1, MaxReplicas}
                       /\ spec.deadline = 60
    /\ pods = [p \in 1 .. spec.replicas |-> NoPod]
    /\ status = [ready |-> 0, available |-> 0, rollout |-> "none", slices |-> "none", endpoints |-> {},
                 disruptions |-> -1, job |-> FALSE, failures |-> 0, logged |-> FALSE]
    /\ gate = 1 /\ held = 0 /\ gaveUp = FALSE

(***************************************************************************)
(* The delays a spec asks for, and the budgets.  A Job waits 10 seconds    *)
(* before its first retry and twice as long before each one after.         *)
(***************************************************************************)
RetryDelays(limit) == <<0, 10, 30, 70, 150, 310, 630>>[limit + 1]

Waits(what) ==
    CASE what = "BackoffLimitExceeded" -> RetryDelays(spec.backoff)
      [] what = "deadlineExceeded" -> spec.deadline
      [] OTHER -> 0

\* The fault's own gate gives up before the cluster can have written this.
OutlastsGate(what) ==
    asked = kind /\ \E i \in DOMAIN Gates : Gates[i].what = what /\ Waits(what) > Gates[i].timeout

Patient == ~ OutlastsGate("BackoffLimitExceeded") /\ ~ OutlastsGate("deadlineExceeded")

(***************************************************************************)
(* The cluster.  A fault whose gate gave up is taken out (see Executor).   *)
(***************************************************************************)
Cluster == ~ gaveUp /\ UNCHANGED <<kind, spec, asked, gate, held, gaveUp>>

Set(p, rec) == pods' = [pods EXCEPT ![p] = rec] /\ UNCHANGED status /\ Cluster

\* A claim on a class that does not exist never binds, and a pod waits for it.
Schedule(p) ==
    /\ pods[p].st = "new"
    /\ Set(p, [pods[p] EXCEPT !.st = IF Bundle.fits /\ ~ Bundle.claim THEN "placed" ELSE "unscheduled"])

\* Without a readiness probe a container is ready as soon as it runs.
Run(p, rec) == [rec EXCEPT !.st = "running", !.ready = PodOf(p).probe = "none" /\ PodOf(p).run # "job"]

Start(p) ==
    /\ pods[p].st = "placed"
    /\ Set(p, IF PodOf(p).run = "nopull" THEN [pods[p] EXCEPT !.st = "pullfailed"] ELSE Run(p, pods[p]))

BecomesReady(p) ==
    /\ pods[p].st = "running" /\ ~ pods[p].ready /\ PodOf(p).probe = "http"
    /\ Set(p, [pods[p] EXCEPT !.ready = TRUE])

WritesLog(p) ==
    /\ pods[p].st = "running" /\ PodOf(p).log /\ ~ status.logged
    /\ status' = [status EXCEPT !.logged = TRUE]
    /\ UNCHANGED pods /\ Cluster

Exits(p) ==
    /\ pods[p].st = "running" /\ PodOf(p).run \in {"exit", "hog", "complete"}
    /\ Set(p, [pods[p] EXCEPT !.st = "terminated", !.ready = FALSE])

BacksOff(p) == pods[p].st = "terminated" /\ Set(p, [pods[p] EXCEPT !.st = "waiting"])

Reason(p) ==
    CASE PodOf(p).run = "hog" -> "OOMKilled"
      [] PodOf(p).run = "complete" -> "Completed"
      [] OTHER -> "Error"

\* The back-off is visible for a moment only until it has grown.
Restarts(p) ==
    LET n == pods[p].restarts IN
    /\ \/ pods[p].st = "waiting"
       \/ pods[p].st = "terminated" /\ n < KubeStateCrashLoopRestarts
    /\ Set(p, Run(p, [pods[p] EXCEPT !.last = Reason(p),
                                     !.restarts = IF n < KubeStateCrashLoopRestarts THEN n + 1 ELSE n]))

\* The Job makes another pod of the failed one until its limit is passed.
JobPodFails(p) ==
    /\ pods[p].st = "running" /\ PodOf(p).run = "job" /\ ~ status.job
    /\ status.failures + 1 > spec.backoff => ~ OutlastsGate("BackoffLimitExceeded")
    /\ status' = [status EXCEPT !.failures = @ + 1, !.job = status.failures + 1 > spec.backoff]
    /\ pods' = [pods EXCEPT ![p].st = IF status.failures + 1 > spec.backoff THEN "done" ELSE "placed"]
    /\ Cluster

ReadyPods == {p \in PodIds : pods[p].ready}

\* minReadySeconds: a container that dies on start is ready and never available.
AvailablePods == {p \in ReadyPods : PodOf(p).run = "serve"}

\* The deployment controller takes a second revision becoming ready for progress.
DeploymentObserves ==
    /\ kind # "JobFailure"
    /\ status' = [status EXCEPT
           !.ready = Cardinality(ReadyPods), !.available = Cardinality(AvailablePods),
           !.rollout = IF 0 \in ReadyPods THEN "progressing" ELSE @]
    /\ status' # status
    /\ UNCHANGED pods /\ Cluster

\* wedgeRollout: the old revision is fully available before the broken one is
\* patched in, and one pod is added for it (maxUnavailable 0, maxSurge 1).
wedgeRollout ==
    /\ Bundle.revisions = 2 /\ 0 \notin PodIds
    /\ status.available >= spec.replicas
    /\ pods' = [p \in PodIds \cup {0} |-> IF p = 0 THEN NoPod ELSE pods[p]]
    /\ status' = [status EXCEPT !.rollout = "progressing"]
    /\ Cluster

DeadlinePasses ==
    /\ 0 \in PodIds /\ status.rollout = "progressing" /\ ~ OutlastsGate("deadlineExceeded")
    /\ status' = [status EXCEPT !.rollout = "exceeded"]
    /\ UNCHANGED pods /\ Cluster

\* A Service that selects nothing gets a slice without addresses.
EndpointsObserve ==
    /\ Bundle.service # "none"
    /\ status' = [status EXCEPT
           !.slices = "written",
           !.endpoints = IF Bundle.service = "own"
                         THEN {<<p, pods[p].ready>> : p \in {q \in PodIds : pods[q].st \notin {"new", "placed"}}}
                         ELSE {}]
    /\ status' # status
    /\ UNCHANGED pods /\ Cluster

DisruptionObserves ==
    LET spare == Cardinality(ReadyPods) - Bundle.min IN
    /\ Bundle.min > 0
    /\ status' = [status EXCEPT !.disruptions = IF spare > 0 THEN spare ELSE 0]
    /\ status' # status
    /\ UNCHANGED pods /\ Cluster

PodMoves(p) ==
    \/ Schedule(p) \/ Start(p) \/ BecomesReady(p) \/ Exits(p) \/ BacksOff(p)
    \/ Restarts(p) \/ JobPodFails(p)

ClusterStep ==
    \/ \E p \in PodIds : PodMoves(p) \/ WritesLog(p)
    \/ DeploymentObserves \/ wedgeRollout \/ DeadlinePasses \/ EndpointsObserve \/ DisruptionObserves

(***************************************************************************)
(* The gate.  An assertion that some value contains the expected text is   *)
(* about one container; a floor is about every value, and fails on none.   *)
(***************************************************************************)
\* A pod no node has taken has no container status to render.
Started == {p \in PodIds : pods[p].st \notin {"new", "unscheduled"}}

Sees(what) ==
    CASE what = "ImagePullBackOff" -> \E p \in PodIds : pods[p].st = "pullfailed"
      [] what \in {"Error", "OOMKilled"} -> \E p \in PodIds : pods[p].last = what
      [] what = "restarted" -> \E p \in PodIds : pods[p].last # "none"
      [] what = "restarts" ->
            Started # {} /\ \A p \in Started : pods[p].restarts >= KubeStateCrashLoopRestarts
      [] what = "loopVisible" -> \E p \in PodIds : pods[p].st = "waiting"
      [] what = "Unschedulable" -> \E p \in PodIds : pods[p].st = "unscheduled"
      [] what = "BackoffLimitExceeded" -> status.job
      [] what = "ready" -> ReadyPods # {}
      [] what = "rolledOut" -> status.ready > 0 /\ status.ready >= spec.replicas
      [] what = "noEndpoints" -> status.endpoints = {}
      [] what = "endpointsNotReady" -> \E e \in status.endpoints : ~ e[2]
      [] what = "endpointsReady" -> \E e \in status.endpoints : e[2]
      [] what = "claimPending" -> Bundle.claim
      [] what = "logLine" -> status.logged /\ kind = "DependencyStall"
      [] what = "noDisruption" -> status.disruptions = 0
      [] what = "deadlineExceeded" -> status.rollout = "exceeded"
      [] what = "serving" -> status.available = spec.replicas
      [] what = "certificate" -> Bundle.secret

Passed == gate > Len(Gates)

\* A dwell starts over when the condition is lost.
Poll ==
    /\ ~ Passed /\ ~ gaveUp
    /\ LET seen == Sees(Gates[gate].what)
           need == IF Gates[gate].dwell > 0 THEN DwellPolls ELSE 1 IN
       /\ held' = IF seen /\ held + 1 < need THEN held + 1 ELSE 0
       /\ gate' = IF seen /\ held + 1 >= need THEN gate + 1 ELSE gate
    /\ <<gate, held>>' # <<gate, held>>
    /\ UNCHANGED <<kind, spec, asked, pods, status, gaveUp>>

\* A poll past the deadline that does not pass is the last: whatever keeps the
\* cluster so long, it may be at any of the polls.
GivesUp ==
    /\ ~ Passed /\ ~ gaveUp
    /\ ~ Sees(Gates[gate].what) \/ Gates[gate].dwell > 0
    /\ gaveUp' = TRUE
    /\ UNCHANGED <<kind, spec, asked, pods, status, gate, held>>

KNext == ClusterStep \/ Poll \/ GivesUp

\* Every controller goes on observing, the kubelet goes on with every container,
\* and the gate is polled every two seconds: from the fifth restart on, a
\* back-off is seen for longer than that, so no visible moment is missed for ever.
\* Nothing makes a gate give up but a cluster that takes its time.
KFairness ==
    /\ \A p \in 0 .. MaxReplicas : WF_kvars(p \in PodIds /\ PodMoves(p))
    /\ WF_kvars(\E p \in PodIds : WritesLog(p))
    /\ WF_kvars(wedgeRollout \/ DeadlinePasses)
    /\ SF_kvars(DeploymentObserves) /\ SF_kvars(EndpointsObserve \/ DisruptionObserves)
    /\ SF_kvars(Poll)

KSpec == KInit /\ [][KNext]_kvars /\ KFairness

(***************************************************************************)
(* Properties.                                                             *)
(***************************************************************************)
Looping ==
    {p \in PodIds : pods[p].restarts >= KubeStateCrashLoopRestarts /\ pods[p].last = "Error"}

\* The symptom a subject is asked to find.
Symptom(k) ==
    CASE k = "ImageUnresolvable" -> \A p \in PodIds : pods[p].st # "running"
      [] k = "ContainerExitLoop" -> Looping # {}
      [] k = "MemoryLimitSqueeze" -> \A p \in PodIds : pods[p].last \in {"none", "OOMKilled"}
      [] k = "Unschedulable" -> ReadyPods = {}
      [] k = "JobFailure" -> status.job /\ \A p \in PodIds : pods[p].st = "done"
      [] k = "SelectorDrift" -> ReadyPods # {} /\ status.endpoints = {}
      [] k = "BackendCrashLoop" ->
            /\ Looping # {} /\ ReadyPods = {}
            /\ \A e \in status.endpoints : ~ e[2]
      [] k = "UnboundClaim" -> ReadyPods = {}
      [] k = "DependencyStall" ->
            status.ready = spec.replicas /\ status.logged /\ \A p \in PodIds : pods[p].restarts = 0
      [] k = "PDBGridlock" -> Cardinality(ReadyPods) = spec.replicas /\ status.disruptions = 0
      [] k = "RolloutStuck" -> status.rollout = "exceeded" /\ status.available = spec.replicas
      [] OTHER -> status.ready = spec.replicas /\ \A p \in PodIds : pods[p].restarts = 0

\* When a fault's whole gate has passed, its symptom is there, and from then on
\* it stays: the gate "hands the subject a steady state instead of a transient",
\* although its assertions were read one after the other from different clocks.
HandOver == asked = kind /\ Passed => Symptom(kind)

\* The kinds whose symptom another kind's bundle has as well: a container that
\* loops behind a Service loops, so does a second revision (whose own restarts
\* the first revision's healthy pods keep below the floor), and a pod without its
\* claim is unschedulable.
Includes(k) ==
    CASE k = "ContainerExitLoop" -> {"BackendCrashLoop"}
      [] k = "Unschedulable" -> {"UnboundClaim"}
      [] OTHER -> {}

\* The gates tell the kinds apart: a gate that asks for evidence, not for health
\* or for an absence, passes on the bundle of another kind only where the symptom
\* is shared ("asserting on the current state would pass for any crash loop").
ToldApart == asked \notin {kind, "NoOp", "SelectorDrift"} /\ Passed => kind \in Includes(asked)

\* The control's gate passes on the control alone ("the gate a control passes is
\* the one every other kind fails").
ControlAlone == asked = "NoOp" /\ Passed => kind = "NoOp"

\* The longest a gate can take fits in the longest lease, and a dwell leaves its
\* own timeout room to begin.
GateFits ==
    LET G == kubeStateGates(kind, spec)
        Times == [i \in 1 .. Len(G) |-> G[i].timeout] IN
    /\ SumFunction(Times) <= ExecutorCeiling
    /\ \A i \in 1 .. Len(G) : G[i].dwell < G[i].timeout

\* A spec that would "apply cleanly and do nothing" is never accepted: what the
\* builder lets through comes to what its gate asserts, and only a cluster slower
\* than an assertion's budget makes the gate give up.  The builders also accept
\* retries and progress deadlines that outlast the gate's budget by themselves,
\* up to 6 and 600 s against 180 s and 240 s, and of these nothing is said.
GatePasses == (asked = kind /\ Patient) ~> (Passed \/ gaveUp)

\* "Keep the deadline inside the gate's patience", as the bounds of both are said
\* to: they do not.
WithinPatience == Accepts(kind, spec) => Patient

\* A gate that has passed tells the truth about the cluster, from then on and in time.
GateTells == KTypeOK /\ HandOver /\ ToldApart /\ GateFits
=============================================================================
