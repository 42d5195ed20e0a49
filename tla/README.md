# Simian in TLA+

Simian injects faults into Kubernetes clusters on request, from scenario packs
and autonomously. This directory holds TLA+ models of its core, the TLC runs
that check them on small instances, and TLAPS proofs of the properties that
matter most for every instance. Paths below are relative to the repository.

- [The system](#the-system)
- [Modules](#modules)
- [Runs](#runs)
- [Fairness](#fairness)
- [Proofs](#proofs)
- [Where code and comments disagree](#where-code-and-comments-disagree)
- [Statements the models refute](#statements-the-models-refute)
- [What is not modelled](#what-is-not-modelled)
- [Plan](#plan)

`tlc -config X.cfg MCModule` runs a check, `tlapm ExecutorProofs.tla` a proof; from
nothing the eight proof modules take some fifteen minutes.
`PROJECT.json` lists the runs, the source lines behind every definition, a
mutant for every property, the hazards and the theorems.

## The system

| Component | State it keeps | Operations | Talks to | Hard because | Correct when |
|---|---|---|---|---|---|
| Executor (`pkg/executor/executor.go`) | in-flight counts in total and per namespace, last apply per namespace | `Apply`, `Clear`, `abandon` | drivers, registry, history, auditor | every `Apply` is a goroutine of its own and calls the API server between check and effect; eight error paths after booking | bookings balance, budget and cooldown hold, nothing in the cluster without a lease |
| History (`pkg/executor/history.go`) | ring of recent faults with an index by UID, ring of refusals | `Push`, `UpdateCleared`, `PushRefused`, rebuilt from the audit trail | executor, reaper, planner, web UI | written from three goroutines, in an order nobody fixes | a fault reads as active exactly while it has a lease |
| Lease registry, reaper (`pkg/lease`) | leases in memory | `Register`, `Adopt`, `Forget`, `Sweep`, `sweepOrphans`, `AdoptLive` | drivers, history, auditor | races `Clear` and `abandon`; deletes fail; the memory dies with the process | every lease ends, every object ends, deadlines are kept |
| Audit (`pkg/audit`) | JSON lines in a rotated file, folded into a row per fault | `Emit`, `FoldFaults`, `ClosingEvents`, rotation | everybody | the rows are what a restart believes | a closed row is of a fault that is gone |
| Controller start-up (`cmd/simian/serve.go`) | none | take-over from the audit file, adoption from the cluster, start-up sweep, kept settings | all of the above | a crash may come between any two steps, start-up included | a fault in force is counted once, with its own deadline |
| Drivers (`pkg/driver/...`) | objects in the cluster; for envoy-fault, overrides in sidecars | `Apply`, `Clear`, `ReapExpired`, `ListLive` | API server, envoy agent | one call may fail after it was carried out; bundles are created one object at a time | what is put in the cluster can be removed without the process that put it there |
| Autonomous loop (`pkg/loop`) | the settings, a wake-up token, its own copy, the cycle number, refusals per step | `Control.Set`, `Run`, `RunOnce`, `executePlan` | planner, executor, health gate | settings change under a waiting loop; steps of a layer run concurrently | no wake-up lost, interval kept, namespaces take turns, budgets hold |
| Plan layering (`pkg/planner/dag.go`) | none | `validateStepDAG`, `PlanLayers` | generator, loop | cycles, diamonds | earliest layers, cycles found |
| Web UI administration (`pkg/webui/admin.go`, `pkg/runtimecfg`) | the settings kept in a ConfigMap | configure, reset, pause, resume, halt, clear-all | `Control`, executor | read, edit, keep and set are four steps without a lock | what is in force survives a restart; a halt stops everything |
| Plan generator (`pkg/planner`, `pkg/llm`) | none | `Generate` and `Translate` with retries | LLM, catalog, topology | answers are arbitrary text; a shutdown comes in mid-call | only plans that can be run, only places the client meant |
| Health gate, recovery (`pkg/loop/health.go`, `pkg/executor/recovery.go`) | baselines | a check before a turn, a check after expiry | topology, history | what it read is old when the plan runs | no fault on a sick system |
| Scope checks (`pkg/executor/nsscope.go`, `podscope.go`, `compat.go`) | none | pin, narrow or refuse a manifest's selectors | API server | a chain of reads while annotations change; the engine obeys selectors, not targets | the engine reaches what was judged |
| Probes and gates (`pkg/probe`, `pkg/catalog`) | a clock, a hold | poll until a condition, a timeout or the end of the context | cluster, HTTP | every poll sees another moment; a round takes time | what is verified was caused by the fault, and stays |
| Arena manager (`pkg/arena`) | namespace, Role, RoleBinding | `Create`, `Destroy` | API server, operators | three objects, several callers, any call may fail | opt-outs stand, arenas are whole, faults hold them |
| SUT manager (`pkg/sut`) | baselines in memory and ConfigMaps | `Deploy`, `EstablishBaselineFromTopology`, warm-up | API server | workloads flap, the process restarts | a baseline is of a stable system and survives |
| Sidecars (`pkg/sut/envoy`, `simian-envoy-agent`) | rewritten pod templates | inject, replay probes | kubelet, envoy-fault driver | the fault may break the probe that makes the pod findable | a fault can always be taken off again |
| Web UI stream and submission (`pkg/webui`), MCP server (`pkg/mcp`), `simian chaos` | queue, subscribers, recent events | connect, emit, submit, translate, confirm | executor, translator | slow and vanishing clients; an answer before the outcome | no panic, nothing lost by who keeps up, true answers |
| Harness (`pkg/harness`, `subject`) | per-scenario result, namespace locks | `Run`, `runScenario`, teardown | arena, SUT, executor, an agent | scenarios share namespaces; teardown under a shrinking budget | isolation, teardown, no deadlock |
| Evaluation (`pkg/eval`) | facts per scenario folded from one log | `Join`, measures, means | harness, audit log | the log may end anywhere; failures must not count as misses | scored as it happened |
| Scenario packs, topology, metrics, LLM clients, CLI | mostly none | tables, wiring, I/O | | text | |

## Modules

| Module | Models | Extends |
|---|---|---|
| `Executor` | `Executor.Apply`, `Clear`, `abandon`; `Registry`; `Reaper.Sweep`; the driver calls; the audit row and history entry of every fault | |
| `Controller` | crash, take-over from the audit file, `AdoptLive`, the start-up sweep | `Executor` |
| `Autonomy` | `Control.Set` and `Loop.Run` | |
| `AutonomyAdmin` | the admin requests, the ConfigMap, halt and clear-all, restart | `Autonomy` |
| `PlanRun` | `PlanLayers`, `executePlan`, the refusal limit | |
| `Harness` | `Runner.Run`, `namespaceLocks`, `runScenario`, `watchRemediation`, `teardown`, `KubeArena`, the checks of `arena.Manager.Destroy` | |
| `EngineContract` | what a driver promises of a fault, whatever it is made of: an abstract specification | |
| `FaultObjects` | the chaos-mesh, network-policy and kube-state drivers object by object; implements `EngineContract` | |
| `EnvoyFault` | the envoy-fault driver's fan-outs, the injected sidecars and the agent's probes | |
| `Feed` | the web UI's `Broadcaster` | |
| `Directed` | submit, translate and confirm in the web UI and over MCP | `Feed` |
| `Scope` | what a manifest's selectors may reach | |
| `OutagePlan` | which pods a zone or node outage takes | |
| `Probe` | the probers and the SOT and Settle stages | |
| `StateKinds` | the declarative faults: builders, what the cluster makes of a bundle, gates | |
| `Trail` | the audit file, its rotation and the fold into cycles | |
| `Turns` | one turn of the loop, from `waitForSlot` to its outcome | `Trail` |
| `Recents` | the ring of recent faults, its index, and leases under repeated UIDs, from the driver call to the history entry | |
| `Arenas` | `arena.Manager` call by call | |
| `Baselines` | baselines in cache and ConfigMap | |
| `Scorecard` | the scoring of a run | |
| `FoldProofs` | lemmas: what the sums and folds of the community modules compute | |
| `ExecutorProofs`, `PlanRunProofs` | theorems | `Controller`, `PlanRun` |
| `HarnessProofs` | theorems | `Harness`, `Scorecard`, `FoldProofs` |
| `AutonomyProofs` | theorems | `AutonomyAdmin`, `Turns`, `FoldProofs` |
| `DriversProofs` | theorems | `FaultObjects`, `EnvoyFault`, `Directed`, `StateKinds`, `FoldProofs` |
| `ReachProofs` | theorems | `Scope`, `OutagePlan`, `Probe` |
| `PartsProofs` | theorems | `Arenas`, `Baselines`, `Recents` |
| `MC...` | instances for TLC | |

`MCDrivers`, `MCLoop` and `MCParts` are suites: each extends several modules
that share no state, and the variable `part`, which never changes, says which of
them a behaviour is about. The others stand still in one of their initial
states, so a suite has the states of its parts side by side and not their
product. `Executor`, `Controller`, `AutonomyAdmin`, `PlanRun` and `Harness` have
an instance of their own.

### Executor

A fault stands for one `Apply` call; `pc[f]` is the last point it has passed at
which another goroutine can see its effect. Between two such points only the
call's own stack changes, so merging what lies between hides no interleaving:
`Reserve` is one critical section of `e.mu`, `Register`, `RecordApply` and
`Release` one each, `DriverApply` and `AbandonClear` one API call each, and
`EmitApplied` the audit events. `Forget` (the registry's lock), the history (its own)
and the closing event are three steps in `Clear` (`ClearForget`, `ClearNote`,
`ClearEmit`) and in the reaper (`ReapForget`, `ReapNote`, `ReapEmit`), and two in
`abandon`, which has no entry to mark. In between an applied fault's row is open
and its lease is gone: what `OpenIsHeld` then promises is that the fault is gone too
and the event on its way, which a crash may still prevent (`Controller` has it
taken over from the file). The executor's verdicts on a manifest (schema,
safety, exclusions, compatibility, the two sets of probes) are nondeterministic:
a refusal is possible wherever the code has one, with what it leaves behind.

The cluster holds, for every fault, no object, a live one, one whose Chaos Mesh
duration has run out (`spent`) or one being deleted. A driver call that reports
an error may have been carried out (`MaybeCleared`). The drivers stamp the
expiry on the object with their own reading of the clock, which may be earlier
than the one the lease's deadline comes from; both are modelled.

The audit trail is modelled as the fold `pkg/audit/faults.go` makes of it: an
outcome, a reason and whether `driver.applied` was seen.

The sweep is several actions, since its API calls lie between reading the expired
leases and forgetting them, and its orphan scan uses the clock of its start.

### Controller

`Crash` takes away everything in memory at any step, of the start-up too, and
keeps the audit file (a volume) or loses it (an `emptyDir`). Calls under way are
`lost`: they never return, but what they did in the cluster stays. `TakeOver`
rebuilds the history and refusals, adopts the rows that are applied, open and
before their deadline, and closes the applied rows past it. `AdoptLive` lists
the cluster, completely or in part, adopts what has no lease and opens a row
for what the file did not know. Then one orphan scan, then the process is up.

### Autonomy and AutonomyAdmin

`Control.Set` is `Store` (under the mutex) and `Wake` (a send to a channel of
capacity one, outside it). `Run` is a small program counter: `top`, `off`,
`turns`, `running`, `waiting`. Its own copy `synced` is refreshed where `sync`
is called. A turn (`RunOnce`) takes any time. `spent` is the time since the
cycle started, as far as the interval can tell.

In `AutonomyAdmin` a request is `Get` (read, edit, validate), `Keep` or
`KeepFails`, `PutInForce`, `Answer`; requests of several admins interleave at
these points. `kept` is the ConfigMap's record and `unsure` remembers that a
save failed or a start did not use what was kept, where the code promises
nothing. `LoopApply` lets a turn under way apply faults and `Reap` ends them.

### PlanRun

`TakeLayer`, `HasCycle` and `AllLayered` are one round of Kahn's algorithm each.
`NextLayer`, `SkipSevere`, `SkipExhausted`, `Launch` and `PlanEnds` are the
goroutine that walks the layers, and every step has a goroutine of its own from
`Launch` on, bounded by the semaphore. `refusals[k]` counts the refusals of a
step key in the window; `Forgotten` moves the window.

### Harness

Every scenario is a goroutine with a program counter: `queued` at the semaphore,
`locking` in `acquire`, `setup`, `deploying`, `injecting`, `asking`, and the four
stages of `teardown`. `writer` holds the control that has the read-write lock or
waits for it, which is what keeps new readers out in Go's `RWMutex`. A step is
one call (of the arena, the substrate, the executor), and each may fail, with or
without having been carried out. `Cancel` cancels the run's context at any time:
the calls of `runScenario` fail from then on, those of `teardown` do not.
`TimesOut` spends a scenario's teardown budget at any point of the teardown.

The executor is abstracted to what a call of it does: `leased` are its leases
and `object` what is in the cluster, which is finalized some time after its
deletion. `Counted` are the faults whose kinds `arena.faultResources` lists (not
those of kube-state and envoy-fault). Namespaces terminate in their own time and
may be terminating from an earlier run when this one starts.

`left` remembers of a namespace what became of it when the run let go of it: reported
as leaked, or made by a `Setup` that then failed. Such a namespace is not among those
`setup` returns, so nobody destroys or reports it (`SetupUndone` below); it is the one
exception of `NoSilentLeak`.

Two things the model shows and no run is about: `waitCleared` asks for leases that `Clear` has just
dropped, so in a borrowed or kept namespace the next subject may still see a
fault being finalized (which is why `SubjectAlone` excepts those); and a
cancelled run still starts its queued scenarios, whose set-up then fails.

### EngineContract and FaultObjects

A fault has a shape: the resource types of its objects in the order they are
created, its driver, whether a second step follows (`wedgeRollout`) and whether
its duration is stamped. `Create`, `CreateFails`, `Undo`, `VisitResource` and the
steps of a sweep are one request each, refused or carried out with the answer
lost; `Cancel` ends the caller's context, on which the kube-state rollback runs
and the outage rollback does not; `Crash` may come anywhere. `injected` is what
Chaos Mesh reports, `deletedAt` starts the age at which an object is stuck.
`KeepsContract` is the refinement: with `holds` as the part of a fault that is in
the cluster (nothing, some, all) and `due` as its deadline having passed, every
step is one of `EngineContract`'s or a stutter.

### EnvoyFault

`injectDeployment` computes the template a workload runs with: ports redirected
to Envoy, ports excluded, a probe rewritten to the agent or left as it is. From
it follows whether a pod's probes pass through the fault filter. Apply and
`Clear` resolve the ready pods once and call them one by one. `hit` are the pods a
call has set so far and `left` those a `Clear` cannot be expected to reset: unready
for a reason of their own when it looked, or set by an `Apply` that then failed on
another pod and so has no lease.

### Feed and Directed

`run` is `FanOut`, `Join`, `Leave` and `FeedStops`, one for each case of its select;
`serve` is `Connect`, `Read`, `Disconnect`, `EndOfStream` and `LeaveTimesOut`. Closing a
channel twice and sending on a closed one set `crashed`. In `Directed` an Apply is
one step with an outcome, and `Finish` emits it; what Apply itself does is
`Executor`'s. A target is the namespace the LLM gave it.

### Scope and OutagePlan

Both are one call with an operator, or a cluster, that moves between its reads.
`Scope` goes through the executor's checks in their order with the manifest being
rewritten; what the engine then selects (`Reach`) is external. `OutagePlan` reads
pods, exclusions and workloads, plans, and creates the members, whose selectors
find pods by label.

### Probe and StateKinds

`Probe` runs the SOT probes, the injection and the Settle probes of one manifest:
`list` the pods, `hit` one after the other, `judge`, `wait`. Connections take time and
the network of a pod may change at any moment; `answer` is what one attempt returns,
given what the pod does at that moment, and `saw` how each pod of the last round was
when it was asked. `Differential` compares pod by pod: `Struck` are the ways a pod is when
the fault hit it, `Sound` those it may have before. A request of two ticks waits for a
slow answer, and a delay is told from a pod that was slow already by the SOT half alone.
`StateKinds` has two sides: the
objects a builder makes and the kubelet, scheduler and controllers that act on
them (external), and the gate, whose assertions are polled in order until one times out
(`GivesUp`, whenever the prober's clock says so). A bundle may be put under the gate of
another kind. The builders' ranges are whole where the gate's patience depends on them:
`RetryDelays` is how long a Job takes over each `backoff_limit` up to 6, and a progress
deadline is 30, 60, 240 or 600 seconds. `GatePasses` speaks of specs the gate is patient
enough for (`Patient`), and says that such a gate passes or its time is over;
`WithinPatience`, that the builders accept no others, is refuted below.

### Trail, Turns and Recents

`Trail` holds two generations of the file, the log in memory and the fold `Cycles`. A
write may stop short, by an error or by the death of the process: the generation is
then `torn`, its size counts what was written, and the next line is glued to the piece
and lost to whoever reads the file (`Appended`, `CutShort`). A rename may fail, and the old
file is written on.
`Turns` is `RunOnce` as a program counter with the lines each step emits; `truth` is
what really became of each turn. The process may be told to stop or die at any
step. In `Recents` an `Apply` is `Drive`, `Register` and, after the settle wait, `Record` or
`BackOut`, and a clear or an expiry is `GetLease`, `DeleteObject`, `ForgetLease` and
`MarkCleared`, of faults whose UIDs repeat. `late` are the faults whose end found no
entry yet: their entries stay active.

### Arenas, Baselines and Scorecard

`Arenas` has several calls of `Create` and `Destroy` at once, with the resource
versions that make a stale update fail. `Baselines` polls on a clock whose readings
the cluster chooses, and `SurvivesRestart` relates what a call answered to the cache
after any restart. In `Scorecard` the steps of a run write the log a scenario's
accumulator later reads; `Join`, the measures and the means are operators checked on
every log that can come about.

## Runs

All bounds are named constants. "States" are distinct states. Where a module
promises several things of one piece of state, one property names the promise and
is the conjunction of named parts, in brackets below, with the module's type
invariant first where that is not a theorem. TLC names the property, and the trace shows which part
it was.

| Run | Shows | Bounds | States |
|---|---|---|---|
| `executor_safety` | `SlotsAccounted`, `RunningIsLeased`, `RowsTrue` (`ClosedIsGone`, `OpenIsHeld`) | two faults that share a namespace, one network-policy, one chaos-mesh; over at the next tick, of which there is one | 2.8M |
| `executor_policy` | `BudgetRespected`, `CooldownRespected` | the same targets, both faults network-policy; a cap of one, a cooldown of two ticks, time to two | 365k |
| `controller_restart` | `Recounted` (`CTypeOK`, `LiveIsCounted`, `DeadlineKept`, `OpenIsKept`), `RefusalsGenuine`, `NothingStays` (`LeaseEnds`, `RunningEnds`) | one network-policy fault of two ticks, two crashes, time to three | 76k |
| `admin_requests` | `SettingsSound` (`AdminTypeOK`, `KeptInForce`), `HaltEmpties` | one request at a time, two changes, one restart | 0.9M |
| `plan_cycle` | `LayeringCorrect`, `DependenciesFirst`, `CycleBudget`, `RefusalsBounded`, `PlanTerminates` | two plans of four steps, two of them the same fault, one too severe; budgets of two | 61k |
| `harness_run` | `SubjectAlone`, `Fenced`, `BorrowedKept`, `NoSilentLeak`, `RunReturns` | three scenarios, two at a time: one in both namespaces, one in the second, one control; three faults, one of a kind the arena check does not count; the first namespace exists before the run | 396k |
| `drivers`, objects | `KeepsContract`, `ReportsTrue` (`TypeOK`, `ConfirmedWhole`, `ReportedOnce`, `StuckOnce`), `EventuallyTold` (`ResidueGoes`, `StuckTold`) | one fault of each of six shapes (one object, outage of two members, backend of three objects, rollout, unstamped); one failing request, one crash, time to four | 549k in all |
| `drivers`, sidecars | `Retractable` (`ETypeOK`, `ClearedIsQuiet`, `InjectedOnce`) | two pods, a delay and an abort, every probe of interest; one failing pod | |
| `drivers`, submissions | `SubmittedTrue` (`DirTypeOK`, `MeantPlace`, `AnswerTrue`, `FeedWhole`, `NeverPanics`), `EventuallyTold` (`OutcomeFollows`) | one client (page or tool) at a time, one connection; a queue of one, two replayed, room for one more; three other events; one retry | |
| `loop`, loop | `WakeNotLost`, `IntervalKept`, `RotationFair` | six settings over two namespaces, three changes | 173k in all |
| `loop`, turn | `TurnsTold` (`UTypeOK`, `PlanRuns`, `TrailWhole`, `FoldTrue`), `TurnReturns` | nine drafts of one or two steps, two turns in two namespaces (the first in a certain one, since they are alike), one stop or crash, a file of three lines and a log of three records, one call of the file system that fails, lines cut short | |
| `loop`, kinds | `GateTells` (`KTypeOK`, `HandOver`, `ToldApart`, `GateFits`), `GatePasses` | every kind under every kind's gate, up to two replicas, backoff limits to 10 and six progress deadlines, of which the builders accept 0 to 6 and four | |
| `parts`, scope | `ReachJudged` (`STypeOK`, `OnlyEligible`, `OpenSelectorsSpare`, `NarrowedFits`) | one or two targets, two namespaces with two workloads, a primary and another selector, one edit of the annotations; a fault that needs something of its pods has no other selector | 2.2M in all |
| `parts`, outage | `OutageAsPlanned` (`OTypeOK`, `OutageSpares`, `OutageTold`) | two workloads, two pods, any labels, one move, one new exclusion | |
| `parts`, probes | `GateSound` (`PrTypeOK`, `NeverVacuous`, `Differential`, `OverrunBounded`, `GateMoves`), `DwellKept` | two pods, a request of two ticks, a timeout of three intervals, one change of the network, one failed listing | |
| `parts`, arenas | `ArenaSound` (`ArTypeOK`, `OptOutKept`, `CreatedWhole`, `FaultsHoldArena`) | two callers, two faults of which one is listed, one edit by hand | |
| `parts`, baselines | `BaselineSound` (`BTypeOK`, `StableThroughout`, `SurvivesRestart`) | two calls, two namespaces, a window of two polls, a timeout of three, one restart | |
| `parts`, score | `ScoresTrue` (`ScTypeOK`, `ScoredAsBroken`, `CrashNeverPays`) | a cascade of two faults and a control, nine answers, logs that end anywhere | |
| `parts`, ring | `RingSound` (`RTypeOK`, `IndexSound`, `OnceTold`) | a ring of two, two UIDs, three applies, two clears at once | |
| `scope_excluded` | violates `ExcludedSpared` | as `parts` | |
| `control_charged` | violates `NotCharged` | as `parts` | |
| `harness_remediation` | violates `RemediationSeen` | one scenario with one fault | |

Why the bounds are enough. The executor's races are between one apply and one
other actor (another apply, a clear, the sweep): two faults in a shared
namespace give every pair, and one of them spans two namespaces so that counts
per namespace differ. The engines differ in who ends a fault; network-policy has
only the reaper and chaos-mesh also its own duration and its slow delete. A
lease is over when the clock is past its deadline, so a duration of less than a
tick and a single tick let a fault expire before, during and after each step of its
apply in `executor_safety`; `executor_policy` has whole ticks and as many as the cooldown.
Where more faults could matter (the budget, the counts) the theorems hold for any
number.

In `controller_restart` one fault is enough since no variable of the start-up
relates two faults; two crashes give a crash during the start-up that follows a
crash. Network-policy is the engine with least help from outside: only leases
and the orphan scan end it.

Three changes are what it takes for two calls of `Set` to overlap each other and
the loop's reading; `CycleMod` makes the cycle number finite without changing
which namespace leads. Four steps give chains, diamonds and a loop with a step
outside it; the plans of `plan_cycle` are every acyclic one whose steps depend
on lower orders, and one with a cycle.

Two namespaces and two scenarios that share one, with a control, give every
pair of lock holders (reader and reader, reader and writer, in both orders); a
concurrency of two leaves one scenario at the semaphore while the others hold
or wait for locks. That more scenarios change nothing of the fence is a theorem.

An outage of two members, a backend of three objects and a rollout with its
second step are the shortest bundles in which a failure comes between two
objects, in a rollback and in a sweep that has reported the fault already. One
failing request suffices: a second one repeats the state the first one left. A
ring of two with three applies evicts an entry whose UID is in use, and shifts an
index; two clears may both hold the lease of one UID while it is applied again. A file
of three lines splits a cycle over both generations, and has room for a piece of a
line, the one glued to it and a whole one. A timeout of
three intervals has a round that begins before the deadline and ends after it.
Two arena callers give every pair of `Create` and `Destroy`; two polls to a window
let a workload flap within it.

`admin_requests`, `plan_cycle`, `harness_run`, `loop` and `parts` do not check
deadlock: with the bounded number of requests, changes, plans, turns or edits
used up, or the one call over, the system rests. That what should end does end
is `PlanTerminates`, `RunReturns`, `TurnReturns`, `GatePasses` and `GateMoves`.

## Fairness

Liveness is only model-checked.

- `CFairness`: a dead controller is restarted by its Deployment and its start-up
  goes through; the reaper's ticker fires; every API call returns one way or the
  other (the clients have timeouts). Strong fairness of `ReapClear` and
  `ReapOrphan` says that a delete retried at every sweep is not refused for
  ever. Nothing is assumed of `Apply`, `Clear` or the engine's own duration.
- `AFairness`: the goroutine of `Run` is scheduled, time passes, a turn ends
  (`waitForSlot` is bounded by the namespace's share of the interval and calls
  have timeouts) and a `Set` that stored goes on to signal.
- `AdminFairness`: the loop and the clock as above, and the reaper ends what has
  a lease, which is `LeaseEnds` of `Controller`. Nothing is assumed of requests.
- `PFairness`: the walking goroutine and each step's goroutine run, and
  `Executor.Apply` returns.
- `HFairness`: every scenario's goroutine runs and its calls return (the waits of
  `KubeArena` and of the subject are bounded), and the teardown's deadline comes.
  Nothing is assumed of finalizers, the reaper or terminating namespaces.
- `FairSpec` of `FaultObjects`: time passes and the reaper's sweep goes on. Nothing is
  assumed of Apply, `Clear` or finalizers.
- `UFairness`: the goroutine of a turn runs and its calls return (the LLM client and
  the API client have timeouts).
- `KFairness`: the kubelet and the controllers act on each pod, and the prober polls.
  Strong fairness of status writes and polls says that a controller that gets to
  observe again and again does so in a moment when what it sees is steady; pods
  restart for ever, so weak fairness would let it look at the wrong moments only.
- In `drivers`, `run` takes events and a page that is still connected reads them.

In a suite each module's fairness is stated for the steps of its part.

## Proofs

The theorems hold for every value of the constants: any number of faults,
namespaces, scenarios, steps, callers, connections, pods and workloads, any
durations, limits and capacities, and any bound on the clock, the failing requests,
the crashes and the edits. They rest on the named assumptions of the modules.
Most say that a constant has its type, and that there are finitely many faults,
steps, scenarios or pods. The others are what the code guarantees of its inputs:

| Assumption | Says | Because |
|---|---|---|
| `PlansAssumption` | no step depends on itself or on one the plan does not have | `validateStepDAG` rejects it |
| `CycleAssumption` | the modulus of the cycle number is a multiple of every number of namespaces | the number is only used modulo these |
| `LongestAssumption` | some interval on offer is the longest | an interval is a `time.Duration` |
| `PausesAssumption` | settings on offer stay so with another pause list | `Settings.Validate` does not look at it |
| `SubmittedAssumption` | a manifest has a target, and one primary selector at most | `validateManifest`; `spec.selector` is one field |
| `OutageAssumption` | the owner of a bare pod is no workload | a workload has a name |
| `NamesAssumption` | the client's namespace is not the one an LLM falls back on; targets are a list | where they are the same there is nothing to tell apart |
| `DeployedAssumption` | the injection is given templates that were not injected before | `Manager.Deploy` injects the documents of the SUT's own manifest; injecting twice is the property `InjectedOnce` |
| `ShapesAssumption` | every fault is one of five shapes (policy, single object, outage, backend, rollout), with a duration of its own | these are what the three drivers create |
| `DraftsAssumption` | the steps of a draft are records of integers and booleans, in a sequence | what the LLM answers is decoded from JSON before anything reads it |
| `ScoreAssumption` | a scenario that expects findings has a fault, and one that expects none exempts none; packs and reports are finite | `Lint` refuses others (`scenario/lint.go`); a report is decoded from JSON |
| `ManifestsAssumption` | probes are of the kinds and times `httpSpecs` has, manifests of an engine with a gate | a slow answer takes two ticks, and a request waits less, as long or longer |

`FoldProofs` holds the induction the others need. The library's induction theorems take a
predicate, which the provers cannot instantiate, so a set of counterexamples takes its
place: of finite sets some are smallest (`MinimalSet`), and there is no smallest
counterexample. From it follow the defining equation of a recursive function on
the subsets of a finite set (`Unwind`), sums over sets (`SumSplits`, `SumMonotone`), that
a set of naturals or of sequences closed under the next one is all of them
(`NaturalsFrom`, `SequencesFrom`), and that a fold over a sequence with one more element is
one more step of it (`IterateAppend`).

`ExecutorProofs`:

- `TypeCorrect`: the type invariant is inductive.
- `RunningAlwaysLeased`, `ClosedAlwaysGone`, `OpenAlwaysHeld`, and `RowsAlwaysTrue`
  from the last two: none is inductive. `LeaseInv` adds `OnlyLanded` (only a call past the driver has a
  lease, a clear, a place in the sweep or a closed row), `DeletedFirst` (whoever
  is about to forget a lease has deleted the object, and nobody creates it
  again) and `Held` (between registration and the end, the lease is there, or
  whoever forgot it has yet to close the row). The properties follow from it.
- `SlotsAlwaysAccounted`: every step takes one slot, gives one back or leaves
  the counts alone (`SlotSteps`), and each of these keeps the counts equal to
  the cardinalities.
- `BudgetAlwaysRespected`: from `SlotsAccounted`, since the cap was checked
  against leases plus bookings and a call moves from one to the other without
  counting less.
- `CooldownAlwaysRespected`: `CooldownInv` says that booked calls share no
  namespace (`Apart`) and that what was cool at the reservation stays cool until
  the call is recorded (`StillCool`), because only a booked call writes
  `lastApply`.
- `ControllerTypes`: from the types of the executor, over crash and start-up.
- `AlwaysRecounted`, `RefusalsAlwaysGenuine`: `LeaseInv` does not survive a crash,
  which takes the leases. `ControllerInv` says of each fault what does: only a call
  past the driver has anything in the cluster (`OnlyPast`), whoever forgets a lease
  has deleted the object (`GoneFirst`), an open row of an applied fault has a
  deadline no earlier than its object's (`RowKept`), a lease ends at a deadline on
  record and no earlier than the object (`LeaseKept`), from the reading of the audit
  file on every fault in force is leased or was shown by neither list (`Counts`), and a
  row that reads as a refusal is of a refused call (`RefusalKept`). One lemma per step
  shows it for the fault that moves, and one that the others keep it.

`PlanRunProofs`:

- `PlanTypes`, `LayeringAlwaysCorrect`: `LayerInv` says that `indeg` counts the
  dependencies without a layer (`Counted`), that dependencies lie in earlier
  layers (`Earlier`), that each step was blocked one layer before (`NoLater`)
  and what a finished layering means (`Concluded`). That the counts stay natural
  numbers needs `Counted`.
- `DependenciesAlwaysFirst`, `CycleBudgetAlways`: `RunInv` adds `Untouched` (steps
  of later layers are new), `Barrier` (earlier layers are over) and
  `ScheduledCounts` (`scheduled` is the number of steps started).
- `RefusalsAlwaysBounded`: `RefusalInv` says that the semaphore bounds the calls
  under way (`Admitted`) and that a key's refusals plus its calls being submitted
  are below the limit plus the semaphore (`Foreseen`).

`HarnessProofs`:

- `HarnessTypes`: the type invariant is inductive.
- `FencedAlways`: `Fenced` speaks of program counters only. `LockInv` says why it
  holds: the writer is one control, readers have namespaces, no namespace lock
  has two holders, and a scenario at work holds all it needs, a control with no
  reader beside it. Every step of a scenario at work keeps its locks until
  `Finish` drops them.
- `BorrowedAlwaysKept`: `BorrowedInv` adds that what existed before is never
  recorded as ours, since the first lookup finds it standing and the first
  answer stays.
- `NeverSilentLeak`: a standing namespace of the run's own is in the hands of a scenario,
  told of or stranded. One lemma for each way the hands change: a set-up takes it
  (`SetUpTold`), a failing one strands it (`SetUpFailsTold`), and a teardown gives it up
  only by deleting or reporting it (`LetGoTold`); a scenario that leaves has given up all
  it had (`LeaveKeepsArenas`).
- `SubjectAlwaysAlone`: the fence is not enough, since an object may outlive the
  scenario that made it. `LeftInv` follows every object from its injection: its
  namespace is set up and claimed; while its scenario tears down, the arena is still
  to be destroyed or the object is accounted for (reported as leaked, in a namespace
  left alone, or going away uncounted); when it is done, the object is accounted for.
- `ScoresAlwaysTrue`: `ScInv` says of each scenario by itself (`ScenarioOK`) which of its
  faults its lines show, which of them passed every gate, where the last pass is in the
  log, and that the subject was asked only if none had a problem. What `Join` makes of
  such a log follows from it. That a crash never pays is then about means: without its
  report a scenario stays in every graded mean, at no higher value (`SumMonotone`).

`AutonomyProofs`:

- `TurnsAlwaysTold`: `TurnInv` is `HereInv` (where the turn is, that its row is the last of
  the loop's and open, that a plan being executed can be run) and `LogInv`. The records in
  memory are no function of the turns: rotation, the size of the log, a lost line and a
  restart cut them anywhere. So `LogInv` says of every end of what was written that folding
  it gives the last rows of each namespace, with the id where the end shows one (`FoldOK`), and
  that what the file holds is an end of what was left whole in it (`FilesOK`, through lines cut
  short and the ones glued to them), as the records are while nothing is lost. One line
  adds a row or changes the open one, on both sides alike (`BeginGood`, `TellGood`), and an
  end of more lines is an end of fewer plus the line (`TailPeel`). For the plans: where no
  set of steps waits for itself, which is what `validateStepDAG` leaves, every step has a
  rank above those of its dependencies (`Ranked`), and dropping a step keeps it so
  (`TailRuns`).
- `LoopTypes`, `WakeNeverLost`, `IntervalAlwaysKept`: `LoopInv` adds `TimerCovers`
  (while the loop waits, the time since the cycle started and what is left on the
  timer make up the interval), without which a timer re-armed by an edit could fire early.
  `IntervalKept` does not say that any two cycles are an interval apart, which is untrue: an
  edit that leaves nothing to run breaks off the wait, and the next that does starts a cycle
  at once; and an interval stored after the wait is over counts for the next one.
- `AdminTypes`, `AdminWakeNeverLost`: `AdminInv` is `LoopInv` with the requests' types.
- `SettingsAlwaysSound`: `AdminSpec /\ []OneChange => []SettingsSound`. `OneChange`
  says that no two changes overlap between read and set. Nothing in the code ensures
  it, and without it the statement is false (`KeptInForce` below); the theorem says
  that this is the only way. `KeepInv` says that a change between its save and its set
  is the one reason for a disagreement, and that its draft is what is kept.

`DriversProofs`:

- `ContractKept`, `ReportsAlwaysTrue`: `DriverInv` says that objects are told apart by
  fault and place (`ObjectsOK`), that a fault being applied has every object asked for
  until it is due and one being cleared only objects of types still to visit unless a
  visit failed (`FaultOK`), what the sweep has reported (`SweepOK`) and how often a
  stuck object was (`TellOK`). Every action is shown to have one of a few effects on
  each fault's objects, and each effect on a fault to be a step of `EngineContract` or a
  stutter under the refinement mapping (`DriverStep`).
- `AlwaysRetractable`: `SidecarInv` says that every filter that is set is accounted for
  by a fault of its kind (`FilterTrue`), and what an injected template looks like
  (`InjectedOK`): its probes pass through the filter only where the operator asked
  for that, so a fault does not make the pods it is on unfindable. What the theorem leaves
  out is listed at `ClearedIsQuiet`: pods unready for a reason of their own, pods a failed
  `Apply` had already set, and workloads whose probes pass through Envoy.
- `KindsGateTells`: `KInv` says of every pod how far its bundle lets it come (`PodsOK`), of
  every status field that it does not run ahead of the pods (`StatusOK`), and of the gate that
  each assertion it has seen left a trace that nothing in the cluster takes back
  (`GateOK`, `Stays`): a restart count does not fall, a job's verdict stands, a pod that
  serves goes on serving. A gate that has passed has left all of its traces, and they make
  the symptom of its kind (`HandOver`) and of no other (`ToldApart`).
- `AlwaysSubmittedTrue`: `FeedInv` says that what a page has read and what waits in its
  channel are together the events since it joined (`ConnOK`), that `recent` is the end
  of what was fanned out, and that no listed channel is closed while `run` runs;
  `SubmitInv` adds where each request stands and what it may be answered.

`ReachProofs`:

- `OutageAlwaysAsPlanned`: `OutageInv` says what the plan was made from (`PlanMade`),
  that its selectors find no listed pod of a workload excluded all along
  (`PlanSpares`), and that the members hit what they find (`HitFound`).
- `ReachAlwaysJudged`: `ScopeInv` follows the manifest through the checks: namespaces
  were seen to be eligible (`NamespacesSeen`), open selectors were
  compared with the exclusions (`OpenSeen`), what the executor chose itself stays what
  it chose (`ChoiceKept`), and the pods were looked at (`FitsSeen`).
- `DwellAlwaysKept`, `GateAlwaysTrue`: `ProbeInv` says that a hold began after the last
  poll that saw otherwise (`HoldOK`), how late a round may be for each pod still to ask
  (`Paced`), that what has passed parses (`Parsed`), and that a half that has passed saw
  each of its pods sound, or struck, at the moment it was asked (`Shown`). `GateAlwaysTrue` is all of
  `GateSound` but `GateMoves`.

`PartsProofs`:

- `ArenaAlwaysSound`: `ArenaInv` says of every call under way (`CallsTrue`) that a copy of
  the namespace that is still fresh shows no opt-out, what a `Create` has done by the time it
  comes to the role and the binding, and what a `Destroy` has seen and not seen go.
- `BaselineAlwaysSound`: `BaselineInv` says of a call since when its workloads have been
  ready, and of a call that saves alone that its baseline is the cached one.
- `RingAlwaysSound`: `RingInv` says that the index is the position of the newest entry
  with a UID where there is one, over shifts and evictions, where each apply and each
  clear of a fault may be (`AppliesTrue`, `EndersTrue`), and what then holds of the entry
  and the lease of a fault whose UID nobody repeated (`EntriesTold`, `LeasesTold`).

The type invariants of `Executor`, `PlanRun` and `Harness` are theorems and no run
repeats them; the other modules' are conjuncts of the properties proved above.

Only model-checked, since the provers cannot reach them:

- liveness under fairness: `NothingStays`, `HaltEmpties`, `PlanTerminates`, `RunReturns`,
  `EventuallyTold`, `RotationFair`, `TurnReturns`, `GatePasses`;
- `GateMoves` of `Probe` (a gate that has not ended has a next step), which is
  `ENABLED`. With `OverrunBounded`, which is proved, it says that every gate ends,
  without assuming fairness.

## Where code and comments disagree

Each is a run that TLC finds violated.

- `scope_excluded`: `requirements.md` says "Excluded workloads must never receive a
  fault." The executor compares exclusions with target names and with selectors
  left open; a selector that names pods by label is not compared with anything
  (`executor.go:710`, `podscope.go:73`).
- `control_charged`: a control whose set-up failed is joined as manifested and
  without error (`artifact.go:402-409`) and graded on a report it does not have,
  while `eval.go:83` says the harness's own failure is never scored as a miss.
- `harness_remediation`: the remediation watch asks for leases, which a subject
  that removes a fault from the cluster does not change; `ClearedAt` stays empty
  until the lease expires.

## Statements the models refute

The modules also state the following. TLC finds each of them violated; none is in
a run.

| Definition | Said in | What the model shows |
|---|---|---|
| `Executor!HistoryTruth` | `history.go:39`, "zero = still active" | a fault cleared or expired while `Apply` waits for it to settle is pushed afterwards, as still active (`executor.go:324`, `history.go:247-250`) |
| `Controller!InterruptedLeftOut` | `history.go:81-83`, "and so is a fault interrupted by shutdown, which says nothing about the fault" | a precheck cut off by the shutdown is emitted as `executor.rejected` (`executor.go:478-480`, `255-257`), and the rebuilding drops budget refusals only (`history.go:87-92`): the next process tells the planner it was refused. The old process counts it as well, so `RefusalsGenuine` holds |
| `Controller!RunningEnds`, for the envoy engine | `envoyfault/driver.go:244-245`, "the caller — typically Clear — re-runs to converge" | a fan-out that fails on one pod returns before a lease exists, so nobody calls `Clear` for the pods that took it, and the driver has no orphan scan |
| `EnvoyFault!FailedIsQuiet` | the same comment | of the sidecars: a pod that a failed `Apply` had set keeps its filter |
| `Harness!SetupUndone` | `runner.go:425-426`, "a partial failure still tears down what it made" | a `Setup` that fails after it created the namespace is not among those returned (`runner.go:427-434`), so the teardown never comes to it |
| `AutonomyAdmin!KeptInForce`, for two requests at once | `admin.go:294-295`, "so it cannot vanish at the next start" | the request saved last need not be the one set last |
| `AutonomyAdmin!HaltQuiet` | `admin.go:147-148`, "so the loop cannot start a fault in between" | a turn under way applies faults after the halt has listed what to clear; `HaltEmpties` shows that they end |
| `Trail!NeverSilent` | `audit/file.go:59-60`, "must not fail silently either" | once a rotation could not open the new file, every later event is dropped without `onError` being told (`file.go:118-120`); and a line that follows one cut short is written without an error and lost, since it is glued to the piece (`file.go:129-133`, `faults.go:48`) |
| `Recents!InBufferFound` | `history.go`, "No-op if the fault is not (or no longer) in the buffer" | evicting an entry drops the index of a younger one with the same UID |
| `EnvoyFault!ReplaysProbe` | `envoy/probe.go:64`, "needed to faithfully execute the original probe" | a named port is read as a number, so the probe is replayed on another port |
| `Probe!NoVerdictWhenCut` | `executor.go`, `http.go:317-319`, "no verdict either way" | a probe that asks for unreachability is satisfied by its own cancelled request |
| `StateKinds!ControlAlone` | `probes.go:150`, "the gate a control passes is the one every other kind fails" | the control's gate passes on kinds whose pods are ready, and early on others |
| `StateKinds!WithinPatience` | `kinds.go:194`, "progressDeadlineBounds keep the deadline inside the gate's patience" | a deadline of up to 600s is accepted and the gate waits 240s, which the catalog says itself (`probes.go:748-753`); a `backoff_limit` of 5 or 6 is accepted although the Job's delays add up to 310 and 630 seconds and its gate waits 180 (`kinds.go:503`, `probes.go:563`) |
| `Arenas!EveryFaultHoldsArena` | `arena.go:490`, "every resource kind a Simian engine can leave behind" | `faultResources` lists no kube-state object, envoy faults have none, and a fault may be applied after the count |
| `Baselines!SavedIsCached` | `sut/store.go:21`, "the store is the durable mirror" | of two calls at once the cache may keep one and the ConfigMap the other |
| `Feed!StreamsEnd` | no comment; expected of a server that shuts down | `serve` hands itself to `run` without a way out (`webui.go:340`): a browser that connects after `run` returned waits until the server is torn down |
| `Directed!ExactConfirm` | `write.go:151-153`, "confirming it is an exact submit" | the form has one target, a translation may have several |

Met while modelling, and stated by no definition:

- `executePlan` submits a step although what it depends on was refused or skipped;
  `loop.go:576-578` counts "its dependency failed" among the reasons a step is never
  submitted.
- `sut/manager.go:279-280` says zero fields of `BaselineConfig` fall back to the
  defaults; a zero `StabilityWindow` does not.
- `crashLoopVisibleGate` says every replica is looping, which is untrue while one is
  unscheduled.
- `Generate` promises a freshly minted plan id; an id the LLM supplies is kept
  (`generate.go:89-90`, `219`). The severity cap is judged on the tier the LLM declares,
  and a step may target another namespace than the turn's.
- A turn whose catalog cannot be read leaves its cycle row unfinished.
- Excluded Jobs are not among the workloads an outage lists.
- `arena.Create` says a mismatched configuration is an error (`arena.go:264`); other
  annotations are overwritten.
- `MatchesReason` takes substrings both ways while `familyOf` is exact, so some reasons
  are credited as found and charged as invented.
- `simian sut destroy` runs in another process and leaves the controller's cached
  baseline and its ConfigMap; the health gate fails closed on them.

## What is not modelled

Of the modelled parts: what a manifest, a policy, a filter or a prompt says; JSONPath
and log matching (a verdict); schema validation and tiers (a refusal that may come);
authentication; the recovery check after expiry, which only writes an event;
the objects of a system under test, one by one; the archive format and the printed
scorecard. `Registry.Heartbeat` has no caller, and `sut.Manager.Destroy` is called only in
processes whose baseline store does nothing. Of the rest: LLM clients, CLI, flag
parsing, scenario YAML, topology snapshots, agents under test, test-cluster scripts
and metrics are text and I/O whose results appear above as choices.

## Plan

Done: the core (`Executor`, `Controller`, `Autonomy`, `AutonomyAdmin`, `PlanRun`,
`Harness`) with its proofs, then the engines (`EngineContract`, `FaultObjects`,
`EnvoyFault`), what surrounds a fault (`Scope`, `OutagePlan`, `Probe`, `StateKinds`,
`Arenas`, `Baselines`), what the controller does by itself and for its clients
(`Trail`, `Turns`, `Recents`, `Feed`, `Directed`) and `Scorecard`.

Proved: every safety invariant and action property of the runs, `GateMoves` excepted, and
the refinement. What is left for TLC, liveness and `ENABLED`, is under [Proofs](#proofs).
