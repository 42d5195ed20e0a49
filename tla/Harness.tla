------------------------------ MODULE Harness -------------------------------
(***************************************************************************)
(* The evaluation harness (pkg/harness): Runner.Run starts every scenario  *)
(* of a pack in a goroutine of its own, fenced by a semaphore and by locks *)
(* on the namespaces the scenario touches.  A scenario sets its arenas up, *)
(* deploys its substrate, injects its faults, asks the subject, and takes  *)
(* everything down again within a budget, whatever failed before.  The     *)
(* executor is modelled by what it promises of a call (module Executor).   *)
(***************************************************************************)
EXTENDS Integers, FiniteSets

CONSTANTS
    Scenarios,     \* the selected scenarios of the pack
    Namespaces,    \* the namespaces they name, as places in sorted order
    Faults,        \* the faults of all scenarios, as places in the pack
    By,            \* the scenario of each fault
    Home,          \* the namespace each fault targets
    Counted,       \* the faults whose objects arena.Manager.Destroy looks for
    HasSubstrate,  \* the scenarios that name a substrate
    Existing,      \* the namespaces that exist before the run
    KeepArenas,    \* KubeArena.KeepArenas
    Concurrency    \* Runner.Concurrency

ASSUME OrderAssumption == Namespaces \subseteq Nat /\ Faults \subseteq Nat
ASSUME PackAssumption ==
    /\ IsFiniteSet(Scenarios)
    /\ By \in [Faults -> Scenarios]
    /\ Home \in [Faults -> Namespaces]
    /\ Counted \subseteq Faults
    /\ HasSubstrate \subseteq Scenarios
    /\ Existing \subseteq Namespaces
ASSUME RunnerAssumption == KeepArenas \in BOOLEAN /\ Concurrency \in Nat \ {0}

VARIABLES
    pc,          \* how far each scenario has come
    readers,     \* the holders of namespaceLocks.global as readers
    writer,      \* the control that holds it or waits for the readers to go
    locked,      \* the namespace locks each scenario holds
    made,        \* the arenas each scenario has set up and not destroyed
    substrated,  \* the ones of them with its substrate
    applied,     \* the faults each scenario has applied and not yet cleared
    late,        \* the scenarios whose teardown budget is spent
    leaked,      \* the namespaces of each scenario's TeardownError
    stamped,     \* the scenarios with a ClearedAt
    gone,        \* history: those polled after their faults had left the cluster
    left,        \* history: how each namespace was last left, by Setup or by teardown
    cancelled,   \* whether the run's context is cancelled
    created,     \* KubeArena.created
    namespace,   \* each namespace in the cluster
    object,      \* each fault in the cluster
    leased       \* the executor's leases

lockVars    == <<readers, writer, locked>>
resultVars  == <<leaked, stamped, gone, left>>
clusterVars == <<namespace, object, leased>>
hvars == <<pc, lockVars, made, substrated, applied, late, resultVars, cancelled, created, clusterVars>>

FaultsOf(s) == {f \in Faults : By[f] = s}

\* Scenario.Namespaces; a scenario without any is a control.
Needs(s) == {Home[f] : f \in FaultsOf(s)}

First(n, S) == n \in S /\ \A m \in S : n <= m

Fencing  == {"queued", "locking"}
Working  == {"setup", "deploying", "injecting", "asking"}
Teardown == {"clearing", "waiting", "dismantling", "destroying"}
Phases   == Fencing \cup Working \cup Teardown \cup {"done"}

\* Type invariant: locks, arenas, leases and every scenario's place.
HTypeOK ==
    /\ pc \in [Scenarios -> Phases]
    /\ readers \in SUBSET Scenarios
    /\ writer \in SUBSET Scenarios
    /\ locked \in [Scenarios -> SUBSET Namespaces]
    /\ made \in [Scenarios -> SUBSET Namespaces]
    /\ substrated \in [Scenarios -> SUBSET Namespaces]
    /\ applied \in [Scenarios -> SUBSET Faults]
    /\ late \in SUBSET Scenarios
    /\ leaked \in [Scenarios -> SUBSET Namespaces]
    /\ stamped \in SUBSET Scenarios
    /\ gone \in SUBSET Scenarios
    /\ left \in [Namespaces -> {"no", "stranded", "told"}]
    /\ cancelled \in BOOLEAN
    /\ created \in [Namespaces -> {"unseen", "ours", "borrowed"}]
    /\ namespace \in [Namespaces -> {"none", "standing", "terminating"}]
    /\ object \in [Faults -> {"none", "live", "deleting"}]
    /\ leased \in SUBSET Faults

\* A namespace may still be terminating from an earlier run.
HInit ==
    /\ pc = [s \in Scenarios |-> "queued"]
    /\ readers = {} /\ writer = {}
    /\ locked = [s \in Scenarios |-> {}]
    /\ made = [s \in Scenarios |-> {}]
    /\ substrated = [s \in Scenarios |-> {}]
    /\ applied = [s \in Scenarios |-> {}]
    /\ late = {}
    /\ leaked = [s \in Scenarios |-> {}]
    /\ stamped = {} /\ gone = {}
    /\ left = [ns \in Namespaces |-> "no"]
    /\ cancelled = FALSE
    /\ created = [ns \in Namespaces |-> "unseen"]
    /\ namespace \in [Namespaces -> {"none", "standing", "terminating"}]
    /\ \A ns \in Namespaces : namespace[ns] = "standing" <=> ns \in Existing
    /\ object = [f \in Faults |-> "none"]
    /\ leased = {}

Goes(s, from, to) == pc[s] = from /\ pc' = [pc EXCEPT ![s] = to]

(***************************************************************************)
(* Run: the semaphore, then namespaceLocks.acquire.  A control locks the   *)
(* whole cluster as the writer, whose wait keeps new readers out; others   *)
(* are readers and take their namespaces in sorted order.                  *)
(***************************************************************************)
Start(s) ==
    /\ Cardinality({t \in Scenarios : pc[t] \notin {"queued", "done"}}) < Concurrency
    /\ Goes(s, "queued", "locking")
    /\ UNCHANGED <<lockVars, made, substrated, applied, late, resultVars, cancelled, created, clusterVars>>

LockCluster(s) ==
    /\ pc[s] = "locking" /\ Needs(s) = {}
    /\ writer = {}
    /\ writer' = {s}
    /\ UNCHANGED <<pc, readers, locked, made, substrated, applied, late, resultVars, cancelled, created, clusterVars>>

\* Mutant: the control does not wait for the readers.
EnterBeside(s) ==
    /\ writer = {s}
    /\ Goes(s, "locking", "setup")
    /\ UNCHANGED <<lockVars, made, substrated, applied, late, resultVars, cancelled, created, clusterVars>>

EnterAlone(s) ==
    /\ writer = {s} /\ readers = {}
    /\ Goes(s, "locking", "setup")
    /\ UNCHANGED <<lockVars, made, substrated, applied, late, resultVars, cancelled, created, clusterVars>>

ReadLock(s) ==
    /\ pc[s] = "locking" /\ Needs(s) # {}
    /\ writer = {} /\ s \notin readers
    /\ readers' = readers \cup {s}
    /\ UNCHANGED <<pc, writer, locked, made, substrated, applied, late, resultVars, cancelled, created, clusterVars>>

Free(ns) == \A t \in Scenarios : ns \notin locked[t]

LockNext(s, ns) ==
    /\ pc[s] = "locking" /\ s \in readers
    /\ First(ns, Needs(s) \ locked[s])
    /\ Free(ns)
    /\ locked' = [locked EXCEPT ![s] = @ \cup {ns}]
    /\ UNCHANGED <<pc, readers, writer, made, substrated, applied, late, resultVars, cancelled, created, clusterVars>>

Enter(s) ==
    /\ s \in readers /\ locked[s] = Needs(s)
    /\ Goes(s, "locking", "setup")
    /\ UNCHANGED <<lockVars, made, substrated, applied, late, resultVars, cancelled, created, clusterVars>>

\* What the deferred functions do when a scenario returns.
Finish(s) ==
    /\ pc' = [pc EXCEPT ![s] = "done"]
    /\ readers' = readers \ {s}
    /\ writer' = writer \ {s}
    /\ locked' = [locked EXCEPT ![s] = {}]

\* teardown has nothing to do where nothing was set up or applied.
Leave(s) ==
    IF made[s] = {} /\ applied'[s] = {} THEN Finish(s)
    ELSE pc' = [pc EXCEPT ![s] = "clearing"] /\ UNCHANGED lockVars

(***************************************************************************)
(* runScenario: set up, deploy, inject, ask.  Under a cancelled context    *)
(* every call fails, but may have been carried out before.                 *)
(***************************************************************************)
\* Mutant: the namespace is taken for ours in any case.
ClaimedAlways(ns) == "ours"

\* KubeArena.claim: ours if it is not there.
Claimed(ns) == IF namespace[ns] = "standing" THEN "borrowed" ELSE "ours"

\* KubeArena.record: the first answer stays.
Record(ns) == created' = [created EXCEPT ![ns] = IF @ = "unseen" THEN Claimed(ns) ELSE @]

SetUp(s, ns) ==
    /\ pc[s] = "setup" /\ ~ cancelled
    /\ First(ns, Needs(s) \ made[s])
    /\ namespace[ns] # "terminating"
    /\ Record(ns)
    /\ namespace' = [namespace EXCEPT ![ns] = "standing"]
    /\ made' = [made EXCEPT ![s] = @ \cup {ns}]
    /\ left' = [left EXCEPT ![ns] = "no"]
    /\ UNCHANGED <<pc, lockVars, substrated, applied, late, leaked, stamped, gone, cancelled, object, leased>>

\* The lookup fails, or the namespace goes on terminating; or it is claimed
\* and arena.Manager.Create fails before or after the namespace is there, or
\* its ServiceAccount does not appear.  setup returns the arenas before this
\* one: a namespace that this Setup made is in nobody's hands.
SetUpFails(s, ns) ==
    /\ pc[s] = "setup"
    /\ First(ns, Needs(s) \ made[s])
    /\ \/ UNCHANGED <<created, namespace>>
       \/ /\ namespace[ns] # "terminating" /\ ~ cancelled
          /\ Record(ns)
          /\ namespace' \in {namespace, [namespace EXCEPT ![ns] = "standing"]}
    /\ left' = [left EXCEPT ![ns] = IF namespace' # namespace THEN "stranded" ELSE @]
    /\ UNCHANGED applied
    /\ Leave(s)
    /\ UNCHANGED <<made, substrated, late, leaked, stamped, gone, cancelled, object, leased>>

SetUpDone(s) ==
    /\ made[s] = Needs(s)
    /\ Goes(s, "setup", "deploying")
    /\ UNCHANGED <<lockVars, made, substrated, applied, late, resultVars, cancelled, created, clusterVars>>

Deploy(s, ns) ==
    /\ pc[s] = "deploying" /\ s \in HasSubstrate /\ ~ cancelled
    /\ First(ns, made[s] \ substrated[s])
    /\ substrated' = [substrated EXCEPT ![s] = @ \cup {ns}]
    /\ UNCHANGED <<pc, lockVars, made, applied, late, resultVars, cancelled, created, clusterVars>>

DeployFails(s) ==
    /\ pc[s] = "deploying" /\ s \in HasSubstrate /\ made[s] # substrated[s]
    /\ UNCHANGED applied
    /\ Leave(s)
    /\ UNCHANGED <<made, substrated, late, resultVars, cancelled, created, clusterVars>>

DeployDone(s) ==
    /\ s \in HasSubstrate => substrated[s] = made[s]
    /\ Goes(s, "deploying", "injecting")
    /\ UNCHANGED <<lockVars, made, substrated, applied, late, resultVars, cancelled, created, clusterVars>>

Inject(s, f) ==
    /\ pc[s] = "injecting" /\ ~ cancelled
    /\ First(f, FaultsOf(s) \ applied[s])
    /\ applied' = [applied EXCEPT ![s] = @ \cup {f}]
    /\ object' = [object EXCEPT ![f] = "live"]
    /\ leased' = leased \cup {f}
    /\ UNCHANGED <<pc, lockVars, made, substrated, late, resultVars, cancelled, created, namespace>>

\* Executor.Apply returns an error: it may have left an object, with a lease
\* (left to the reaper) or without one (the driver failed half-way), or one
\* that is being deleted (the fault was backed out).
InjectFails(s, f) ==
    /\ pc[s] = "injecting"
    /\ First(f, FaultsOf(s) \ applied[s])
    /\ \/ UNCHANGED <<object, leased>>
       \/ object' = [object EXCEPT ![f] = "live"] /\ leased' \in {leased, leased \cup {f}}
       \/ object' = [object EXCEPT ![f] = "deleting"] /\ UNCHANGED leased
    /\ UNCHANGED applied
    /\ Leave(s)
    /\ UNCHANGED <<made, substrated, late, resultVars, cancelled, created, namespace>>

Ask(s) ==
    /\ applied[s] = FaultsOf(s)
    /\ Goes(s, "injecting", "asking")
    /\ UNCHANGED <<lockVars, made, substrated, applied, late, resultVars, cancelled, created, clusterVars>>

\* allCleared asks the executor, which answers from its leases.
AllCleared(s) == applied[s] \cap leased = {}

\* watchRemediation, while the subject works.
Poll(s) ==
    /\ pc[s] = "asking" /\ applied[s] # {} /\ s \notin stamped
    /\ stamped' = IF AllCleared(s) THEN stamped \cup {s} ELSE stamped
    /\ gone' = IF \A f \in applied[s] : object[f] = "none" THEN gone \cup {s} ELSE gone
    /\ UNCHANGED <<pc, lockVars, made, substrated, applied, late, leaked, left, cancelled, created, clusterVars>>

\* The subject answers or fails; either way the scenario is over.
Answered(s) ==
    /\ pc[s] = "asking"
    /\ UNCHANGED applied
    /\ Leave(s)
    /\ UNCHANGED <<made, substrated, late, resultVars, cancelled, created, clusterVars>>

(***************************************************************************)
(* teardown, on a context that ignores cancellation and has its own        *)
(* deadline: after that every call fails.                                  *)
(***************************************************************************)
TimesOut(s) ==
    /\ pc[s] \in Teardown
    /\ s \notin late
    /\ late' = late \cup {s}
    /\ UNCHANGED <<pc, lockVars, made, substrated, applied, resultVars, cancelled, created, clusterVars>>

Deleted(f) == IF object[f] = "none" THEN "none" ELSE "deleting"

ClearOne(s, f) ==
    /\ pc[s] = "clearing" /\ s \notin late
    /\ First(f, applied[s])
    /\ f \in leased
    /\ applied' = [applied EXCEPT ![s] = @ \ {f}]
    /\ object' = [object EXCEPT ![f] = Deleted(f)]
    /\ leased' = leased \ {f}
    /\ UNCHANGED <<pc, lockVars, made, substrated, late, resultVars, cancelled, created, namespace>>

\* No such lease, or the delete fails; it is only logged.
ClearOneFails(s, f) ==
    /\ pc[s] = "clearing"
    /\ First(f, applied[s])
    /\ applied' = [applied EXCEPT ![s] = @ \ {f}]
    /\ IF s \in late THEN UNCHANGED object
       ELSE object' \in {object, [object EXCEPT ![f] = Deleted(f)]}
    /\ UNCHANGED <<pc, lockVars, made, substrated, late, resultVars, cancelled, created, namespace, leased>>

ClearingDone(s) ==
    /\ applied[s] = {}
    /\ Goes(s, "clearing", "waiting")
    /\ UNCHANGED <<lockVars, made, substrated, applied, late, resultVars, cancelled, created, clusterVars>>

\* waitCleared: the leases are gone, or its share of the budget is.
WaitEnds(s) ==
    /\ Goes(s, "waiting", "dismantling")
    /\ UNCHANGED <<lockVars, made, substrated, applied, late, resultVars, cancelled, created, clusterVars>>

\* Destroying the substrate; a failure is only logged.
Dismantle(s, ns) ==
    /\ pc[s] = "dismantling"
    /\ First(ns, substrated[s])
    /\ substrated' = [substrated EXCEPT ![s] = @ \ {ns}]
    /\ UNCHANGED <<pc, lockVars, made, applied, late, resultVars, cancelled, created, clusterVars>>

Dismantled(s) ==
    /\ substrated[s] = {}
    /\ Goes(s, "dismantling", "destroying")
    /\ UNCHANGED <<lockVars, made, substrated, applied, late, resultVars, cancelled, created, clusterVars>>

\* KubeArena.Teardown leaves what is borrowed, or to be kept, alone.
LeftAlone(ns) == KeepArenas \/ created[ns] # "ours"

LeaveArena(s, ns) ==
    /\ pc[s] = "destroying"
    /\ First(ns, made[s])
    /\ LeftAlone(ns)
    /\ made' = [made EXCEPT ![s] = @ \ {ns}]
    /\ UNCHANGED <<pc, lockVars, substrated, applied, late, resultVars, cancelled, created, clusterVars>>

\* Mutant: an object with a deletionTimestamp counts as gone.
RefusesLive(ns) == \E f \in Counted : Home[f] = ns /\ object[f] = "live"

\* The active-fault check of arena.Manager.Destroy.
Refuses(ns) == \E f \in Counted : Home[f] = ns /\ object[f] # "none"

\* A deleted namespace takes what is in it along.
DeleteNamespace(ns) ==
    /\ namespace' = [namespace EXCEPT ![ns] = IF @ = "none" THEN @ ELSE "terminating"]
    /\ object' = [f \in Faults |-> IF Home[f] = ns THEN Deleted(f) ELSE object[f]]

\* If the answer is lost, destroyArena tries again.
DestroyArena(s, ns) ==
    /\ pc[s] = "destroying" /\ s \notin late
    /\ First(ns, made[s])
    /\ ~ LeftAlone(ns) /\ ~ Refuses(ns)
    /\ DeleteNamespace(ns)
    /\ made' \in {made, [made EXCEPT ![s] = @ \ {ns}]}
    /\ UNCHANGED <<pc, lockVars, substrated, applied, late, resultVars, cancelled, created, leased>>

\* Mutant: an arena that could not be destroyed is dropped without a word.
LeakSilently(s, ns) ==
    /\ pc[s] = "destroying" /\ s \in late
    /\ First(ns, made[s])
    /\ ~ LeftAlone(ns)
    /\ made' = [made EXCEPT ![s] = @ \ {ns}]
    /\ UNCHANGED <<pc, lockVars, substrated, applied, late, resultVars, cancelled, created, clusterVars>>

\* Mutant: a refused arena is asked again for as long as it takes.
LeakNever(s, ns) == FALSE /\ UNCHANGED hvars

\* Refused or failing until the budget is spent.
Leak(s, ns) ==
    /\ pc[s] = "destroying" /\ s \in late
    /\ First(ns, made[s])
    /\ ~ LeftAlone(ns)
    /\ made' = [made EXCEPT ![s] = @ \ {ns}]
    /\ leaked' = [leaked EXCEPT ![s] = @ \cup {ns}]
    /\ left' = [left EXCEPT ![ns] = "told"]
    /\ UNCHANGED <<pc, lockVars, substrated, applied, late, stamped, gone, cancelled, created, clusterVars>>

TeardownDone(s) ==
    /\ pc[s] = "destroying"
    /\ made[s] = {}
    /\ Finish(s)
    /\ UNCHANGED <<made, substrated, applied, late, resultVars, cancelled, created, clusterVars>>

(***************************************************************************)
(* The rest of the world.                                                  *)
(***************************************************************************)
Cancel ==
    /\ ~ cancelled
    /\ cancelled' = TRUE
    /\ UNCHANGED <<pc, lockVars, made, substrated, applied, late, resultVars, created, clusterVars>>

\* The reaper, which stops with the run's context, ends an expired lease.
Expire(f) ==
    /\ f \in leased /\ ~ cancelled
    /\ leased' = leased \ {f}
    /\ object' = [object EXCEPT ![f] = Deleted(f)]
    /\ UNCHANGED <<pc, lockVars, made, substrated, applied, late, resultVars, cancelled, created, namespace>>

\* The subject takes a fault out of the cluster.
Remediate(s, f) ==
    /\ pc[s] = "asking" /\ f \in applied[s]
    /\ object[f] = "live"
    /\ object' = [object EXCEPT ![f] = "deleting"]
    /\ UNCHANGED <<pc, lockVars, made, substrated, applied, late, resultVars, cancelled, created, namespace, leased>>

\* The engine has undone a deleted fault.
Finalize(f) ==
    /\ object[f] = "deleting"
    /\ object' = [object EXCEPT ![f] = "none"]
    /\ UNCHANGED <<pc, lockVars, made, substrated, applied, late, resultVars, cancelled, created, namespace, leased>>

Terminated(ns) ==
    /\ namespace[ns] = "terminating"
    /\ \A f \in Faults : Home[f] = ns => object[f] = "none"
    /\ namespace' = [namespace EXCEPT ![ns] = "none"]
    /\ UNCHANGED <<pc, lockVars, made, substrated, applied, late, resultVars, cancelled, created, object, leased>>

(***************************************************************************)
(* The specification.                                                      *)
(***************************************************************************)
Acquire(s) ==
    \/ Start(s) \/ LockCluster(s) \/ EnterAlone(s) \/ ReadLock(s) \/ Enter(s)
    \/ \E ns \in Namespaces : LockNext(s, ns)

Perform(s) ==
    \/ SetUpDone(s) \/ DeployFails(s) \/ DeployDone(s) \/ Ask(s) \/ Answered(s)
    \/ \E ns \in Namespaces : SetUp(s, ns) \/ SetUpFails(s, ns) \/ Deploy(s, ns)
    \/ \E f \in Faults : Inject(s, f) \/ InjectFails(s, f)

TakeDown(s) ==
    \/ ClearingDone(s) \/ WaitEnds(s) \/ Dismantled(s) \/ TeardownDone(s)
    \/ \E f \in Faults : ClearOne(s, f) \/ ClearOneFails(s, f)
    \/ \E ns \in Namespaces :
          Dismantle(s, ns) \/ LeaveArena(s, ns) \/ DestroyArena(s, ns) \/ Leak(s, ns)

ScenarioStep(s) == Acquire(s) \/ Perform(s) \/ TakeDown(s)

World ==
    \/ Cancel
    \/ \E f \in Faults : Expire(f) \/ Finalize(f)
    \/ \E s \in Scenarios, f \in Faults : Remediate(s, f)
    \/ \E ns \in Namespaces : Terminated(ns)

HNext ==
    \/ \E s \in Scenarios : ScenarioStep(s) \/ Poll(s) \/ TimesOut(s)
    \/ World

HSpec == HInit /\ [][HNext]_hvars

\* Every goroutine runs, calls return, the subject has a timeout, and so has
\* the teardown.
HFairness == \A s \in Scenarios : WF_hvars(ScenarioStep(s)) /\ WF_hvars(TimesOut(s))

HFairSpec == HSpec /\ HFairness

(***************************************************************************)
(* Properties.                                                             *)
(***************************************************************************)
Seen(s, f) == By[f] # s /\ object[f] # "none" /\ (Needs(s) = {} \/ Home[f] \in Needs(s))

\* "Two scenarios never share a namespace at the same time", and a control has
\* the cluster to itself: whatever a subject sees of another scenario's faults
\* is what a finished scenario has reported as leaked, or could not remove
\* from a namespace it does not own or whose deletion is under way.
SubjectAlone ==
    \A s \in Scenarios, f \in Faults :
        pc[s] = "asking" /\ Seen(s, f) =>
            /\ pc[By[f]] = "done"
            /\ \/ Home[f] \in leaked[By[f]]
               \/ LeftAlone(Home[f])
               \/ f \notin Counted /\ object[f] = "deleting"

Holding == {s \in Scenarios : pc[s] \in Working \cup Teardown}

\* From its set-up to the end of its teardown a scenario has its namespaces,
\* and a control the cluster, to itself, whichever calls failed in between.
Fenced ==
    \A s, t \in Holding : s # t => Needs(s) # {} /\ Needs(s) \cap Needs(t) = {}

ToTearDown(ns) == \E s \in Scenarios : pc[s] # "done" /\ ns \in made[s]
ToldOf(ns) == left[ns] = "told" /\ \E s \in Scenarios : ns \in leaked[s]

\* A namespace this run made, and is not to keep, stands only while a scenario under
\* way is to tear it down, or after a scenario has reported it leaked, by whichever
\* scenarios, in turn, it was made, borrowed, deleted and made again.  One case is
\* left out: the namespace that a failing Setup made (SetupUndone).
NoSilentLeak ==
    \A ns \in Namespaces :
        namespace[ns] = "standing" /\ created[ns] = "ours" /\ ~ KeepArenas =>
            ToTearDown(ns) \/ ToldOf(ns) \/ left[ns] = "stranded"

\* "A partial failure still tears down what it made" (setup): when the run is over
\* no namespace of a Setup that failed is left.  The model refutes it, as the Setup
\* that fails after Create has made the namespace does not count as made.
SetupUndone ==
    (\A s \in Scenarios : pc[s] = "done") =>
        \A ns \in Namespaces : left[ns] = "stranded" => namespace[ns] # "standing" \/ KeepArenas

\* "It destroys only what it created": a namespace that was there before the
\* run is there after it.
BorrowedKept == \A ns \in Existing : namespace[ns] = "standing"

\* Run returns: no order of locks, no refused teardown and no cancellation
\* makes it hang.
RunReturns == <>(\A s \in Scenarios : pc[s] = "done")

\* The watch "sees what the subject changes": a poll that comes after the
\* faults have left the cluster stamps the remediation.
RemediationSeen == gone \subseteq stamped
=============================================================================
