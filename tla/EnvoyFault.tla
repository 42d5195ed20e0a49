----------------------------- MODULE EnvoyFault -----------------------------
(***************************************************************************)
(* The envoy-fault engine and the sidecar it drives.  pkg/sut/envoy adds   *)
(* an Envoy, a port redirect and a probe-rewriting agent to a workload;    *)
(* the driver then sets and resets the fault filter of every pod that is   *)
(* ready, one HTTP call per pod.  Whether a pod is ready depends on its    *)
(* probes, and whether its probes see the fault depends on the injection:  *)
(* a pod that the fault makes unready is a pod that Clear does not find.   *)
(***************************************************************************)
EXTENDS Integers, FiniteSets

CONSTANTS
    EFaults,      \* the faults of the run, all on one workload
    Deployed,     \* the workloads a run starts from, before injection
    EKind,        \* EnvoyHttpDelay ("delay") or EnvoyHttpAbort ("abort")
    Pods,
    MaxPodErrors  \* bound on the admin calls that fail

ASSUME EnvoyAssumption ==
    /\ EKind \in [EFaults -> {"delay", "abort"}]
    /\ MaxPodErrors \in Nat

(***************************************************************************)
(* Injection.  A workload is the part of its pod template that matters: the *)
(* port it serves, one probe and the port it asks, and what is excluded.   *)
(***************************************************************************)
AgentPort == 15021
ServicePort == 8080
ProbePort == 9090
RedirectPorts == {ServicePort, ProbePort, AgentPort}   \* InjectOptions.Ports, at their widest

\* raw is InjectOptions.DisableProbeRewrite; named, a probe that gives its port by name.
Workloads ==
    {w \in [skip : BOOLEAN, raw : BOOLEAN, sidecar : {FALSE}, agent : {FALSE},
            excludes : {{}, {ProbePort}}, probe : {"none", "http", "grpc", "tcp", "exec"},
            port : {ServicePort, ProbePort}, named : BOOLEAN,
            stash : {"none"}, stashPort : {0}] :
        w.named => w.probe \in {"http", "tcp"}}

\* The injection is given templates that were not injected before.
ASSUME DeployedAssumption == Deployed \subseteq Workloads

\* Mutant: gRPC probes are left as they are.
StashHTTPOnly(p) == p \in {"http", "tcp"}

\* Exec probes cannot be replayed by the agent and stay in place.
StashProbe(p) == p \in {"http", "grpc", "tcp"}

\* Port.IntVal, which is zero for a port given by name.
IntVal(w) == IF w.named THEN 0 ELSE w.port

\* The agent's own port must be exempt from the redirect.
rewriteProbes(w) ==
    IF ~ w.raw /\ StashProbe(w.probe)
    THEN [w EXCEPT !.stash = w.probe, !.stashPort = IntVal(w), !.probe = "agent", !.agent = TRUE,
                   !.excludes = @ \cup {AgentPort}]
    ELSE w

\* Skipped by annotation, or injected already: left alone.
injectDeployment(w) ==
    IF w.skip \/ w.sidecar THEN w ELSE [rewriteProbes(w) EXCEPT !.sidecar = TRUE]

\* buildIptablesScript: RETURN rules come before the REDIRECT ones.
Redirected(w, port) == w.sidecar /\ port \in RedirectPorts \ w.excludes

\* The agent replays the stashed probe on the loopback, which no rule touches;
\* the kubelet reaches the agent, or the workload itself, through the rules.
ProbeSeesEnvoy(w) ==
    CASE w.probe = "agent" -> Redirected(w, AgentPort)
      [] w.probe \in {"http", "grpc", "tcp"} -> Redirected(w, w.port)
      [] OTHER -> FALSE

VARIABLES
    workload,   \* the workload as deployed
    filter,     \* percentage set on each pod's filter, by kind: 0 or 100
    sick,       \* the pods unready for a reason of their own
    estage,     \* where the calls for a fault stand
    queue,      \* the pods resolved and not yet called
    efailed,    \* some pod of the call under way failed
    hit,        \* the pods the Apply of each fault has set
    left,       \* by kind, the pods no call is to come to: unready of themselves when a
                \* Clear looked for them, or set by an Apply that then failed
    podErrors

evars == <<workload, filter, sick, estage, queue, efailed, hit, left, podErrors>>

FilterKinds == {"delay", "abort"}

\* Type invariant: filters, calls and the pods they have yet to reach.
ETypeOK ==
    /\ filter \in [Pods -> [FilterKinds -> {0, 100}]]
    /\ sick \in SUBSET Pods
    /\ estage \in [EFaults -> {"idle", "applying", "applied", "failed", "clearing", "cleared"}]
    /\ queue \in [EFaults -> SUBSET Pods]
    /\ \A f \in EFaults : queue[f] # {} => estage[f] \in {"applying", "clearing"}
    /\ efailed \in [EFaults -> BOOLEAN]
    /\ hit \in [EFaults -> SUBSET Pods]
    /\ left \in [FilterKinds -> SUBSET Pods]
    /\ podErrors \in 0 .. MaxPodErrors

EInit ==
    /\ workload \in {injectDeployment(w) : w \in Deployed}
    /\ filter = [p \in Pods |-> [k \in FilterKinds |-> 0]]
    /\ sick = {}
    /\ estage = [f \in EFaults |-> "idle"]
    /\ queue = [f \in EFaults |-> {}]
    /\ efailed = [f \in EFaults |-> FALSE]
    /\ hit = [f \in EFaults |-> {}]
    /\ left = [k \in FilterKinds |-> {}]
    /\ podErrors = 0

(***************************************************************************)
(* The pods.  An aborted probe fails, so the pod is not ready.             *)
(***************************************************************************)
Ready(p) == p \notin sick /\ (ProbeSeesEnvoy(workload) => filter[p]["abort"] = 0)

\* A replaced pod starts with an Envoy that has no overrides.
Replace(p) ==
    /\ filter' = [filter EXCEPT ![p] = [k \in FilterKinds |-> 0]]
    /\ hit' = [f \in EFaults |-> hit[f] \ {p}]
    /\ left' = [k \in FilterKinds |-> left[k] \ {p}]
    /\ sick' = sick \ {p}
    /\ UNCHANGED <<workload, estage, queue, efailed, podErrors>>

Sicken(p) ==
    /\ sick' = sick \cup {p}
    /\ UNCHANGED <<workload, filter, estage, queue, efailed, hit, left, podErrors>>

Recover(p) ==
    /\ p \in sick
    /\ sick' = sick \ {p}
    /\ UNCHANGED <<workload, filter, estage, queue, efailed, hit, left, podErrors>>

(***************************************************************************)
(* The driver.                                                             *)
(***************************************************************************)
\* Ready pods with the injected annotation.
ResolvePods == IF workload.sidecar THEN {p \in Pods : Ready(p)} ELSE {}

\* Apply on nothing is an error.
EApply(f) ==
    /\ estage[f] = "idle"
    /\ IF ResolvePods = {}
       THEN estage' = [estage EXCEPT ![f] = "failed"] /\ UNCHANGED queue
       ELSE /\ estage' = [estage EXCEPT ![f] = "applying"]
            /\ queue' = [queue EXCEPT ![f] = ResolvePods]
    /\ UNCHANGED <<workload, filter, sick, efailed, hit, left, podErrors>>

\* Clear on nothing is a success: there is nothing left to undo.
EClear(f) ==
    /\ estage[f] = "applied"
    /\ IF ResolvePods = {}
       THEN estage' = [estage EXCEPT ![f] = "cleared"] /\ UNCHANGED queue
       ELSE /\ estage' = [estage EXCEPT ![f] = "clearing"]
            /\ queue' = [queue EXCEPT ![f] = ResolvePods]
    /\ efailed' = [efailed EXCEPT ![f] = FALSE]
    /\ left' = [left EXCEPT ![EKind[f]] = @ \cup (Pods \cap sick)]
    /\ UNCHANGED <<workload, filter, sick, hit, podErrors>>

\* buildOverrides and buildResets set the percentage of the fault's own filter.
FilterOf(f) == EKind[f]

\* The call to the last pod answers the whole call; no partial success is undone, and a
\* failed Apply gives the executor no handle to clear it by.
Answer(f, reset) ==
    LET outcome == IF queue'[f] # {} THEN estage[f]
                   ELSE IF estage[f] = "applying" THEN IF efailed'[f] THEN "failed" ELSE "applied"
                   ELSE IF efailed'[f] THEN "applied" ELSE "cleared"
    IN  /\ estage' = [estage EXCEPT ![f] = outcome]
        /\ left' = [left EXCEPT ![EKind[f]] = IF outcome = "failed" THEN @ \cup hit'[f] ELSE @ \ reset]

modifyOne(f, p) ==
    LET v == IF estage[f] = "applying" THEN 100 ELSE 0 IN
    /\ p \in queue[f]
    /\ queue' = [queue EXCEPT ![f] = @ \ {p}]
    /\ filter' = [filter EXCEPT ![p][FilterOf(f)] = v]
    /\ hit' = [hit EXCEPT ![f] = IF v = 0 THEN @ ELSE @ \cup {p}]
    /\ UNCHANGED <<workload, sick, efailed, podErrors>>
    /\ Answer(f, IF v = 0 THEN {p} ELSE {})

\* The call to one pod fails: the others are still made.
modifyFails(f, p) ==
    /\ p \in queue[f]
    /\ podErrors < MaxPodErrors
    /\ podErrors' = podErrors + 1
    /\ queue' = [queue EXCEPT ![f] = @ \ {p}]
    /\ efailed' = [efailed EXCEPT ![f] = TRUE]
    /\ UNCHANGED <<workload, filter, sick, hit>>
    /\ Answer(f, {})

ENext ==
    \/ \E p \in Pods : Replace(p) \/ Sicken(p) \/ Recover(p)
    \/ \E f \in EFaults :
        \/ EApply(f) \/ EClear(f)
        \/ \E p \in Pods : modifyOne(f, p) \/ modifyFails(f, p)

ESpec == EInit /\ [][ENext]_evars

(***************************************************************************)
(* Properties.                                                             *)
(***************************************************************************)
\* A filter that is set is one that a call is still to reset: the fault never hides a
\* pod from the Clear that is to end it, because the rewritten probes do not pass
\* through the filter.  There are three exceptions: the pods that were unready for a
\* reason of their own when a Clear looked for pods, and those an Apply had set before
\* it failed on another, for it is not leased (both are in left, until a later call
\* resets them or they are replaced), and the workloads whose probes the operator had
\* left as they were, where they pass through Envoy.
ClearedIsQuiet ==
    \A p \in Pods, k \in FilterKinds :
        filter[p][k] = 100 =>
            \/ \E f \in EFaults :
                  /\ EKind[f] = k
                  /\ estage[f] \in {"applied", "clearing"} \/ (estage[f] = "applying" /\ p \in hit[f])
            \/ p \in left[k]
            \/ workload.raw /\ ProbeSeesEnvoy(workload)

\* "Partial successes are not rolled back (the caller - typically Clear - re-runs to
\* converge)" (fanout): what a failed Apply set is undone by a Clear.  The model refutes
\* it: a failed Apply gives no handle, so no Clear of it comes.
FailedIsQuiet ==
    \A p \in Pods, k \in FilterKinds :
        filter[p][k] = 100 => \E f \in EFaults : EKind[f] = k /\ estage[f] # "failed"

\* Injecting a second time changes nothing: a redeploy of an injected template
\* does not make the agent replay the probe that asks the agent itself.
InjectedOnce ==
    /\ injectDeployment(workload) = workload
    /\ workload.agent => workload.stash \in {"http", "grpc", "tcp"}

\* The agent replays the workload's own probe, on the port the workload's
\* container serves it on ("needed to faithfully execute the original probe").
ReplaysProbe == workload.agent => workload.stashPort = workload.port

\* A fault set on a sidecar can be taken off again: the injection never lets it hide
\* its pods from Clear, also when it is done twice.
Retractable == ETypeOK /\ ClearedIsQuiet /\ InjectedOnce
=============================================================================
