------------------------------ MODULE Executor ------------------------------
(***************************************************************************)
(* The fault executor of Simian (pkg/executor) with the two things it      *)
(* shares state with inside one controller process: the in-memory lease    *)
(* registry with its reaper (pkg/lease) and the recent-faults history.     *)
(*                                                                         *)
(* A fault f stands for one call of Executor.Apply, which runs in its own  *)
(* goroutine; pc[f] is how far that call has come.  Operators may clear a  *)
(* leased fault at any time (Executor.Clear) and the reaper sweeps on a    *)
(* ticker.  Every call to the API server is an action of its own, since    *)
(* the other goroutines run while it is under way, and each may fail.      *)
(***************************************************************************)
EXTENDS Integers, FiniteSets

CONSTANTS
    Faults,               \* the submitted manifests, one Apply call each
    Namespaces,           \* the arena namespaces
    Targets,              \* FaultManifest.TargetNamespaces of every fault
    Engine,               \* FaultManifest.Engine of every fault
    Duration,             \* FaultManifest.Duration of every fault, in whole ticks
    MaxConcurrentFaults,  \* Config.MaxConcurrentFaults, 0 = no cap
    MinCooldown,          \* Config.MinCooldown, 0 = disabled
    ReapGrace,            \* chaosmesh.reapGrace
    MaxTime               \* bound on the clock

Engines == {"chaos-mesh", "network-policy", "kube-state", "envoy-fault"}

ASSUME FaultsAssumption == IsFiniteSet(Faults)
ASSUME TargetsAssumption == Targets \in [Faults -> SUBSET Namespaces]
ASSUME EngineAssumption == Engine \in [Faults -> Engines]
ASSUME DurationAssumption == Duration \in [Faults -> Nat]
ASSUME PolicyAssumption ==
    /\ MaxConcurrentFaults \in Nat
    /\ MinCooldown \in Nat
    /\ ReapGrace \in Nat
    /\ MaxTime \in Nat

VARIABLES
    now,         \* the wall clock, in ticks
    pc,          \* where each Apply call is
    cause,       \* why abandon was called, until the row says so
    leased,      \* Registry.items: the faults with a lease
    deadline,    \* ActiveFault.Deadline
    inFlight,    \* Executor.inFlight
    inFlightNS,  \* Executor.inFlightNS
    lastApply,   \* Executor.lastApplyByNS
    history,     \* History.items: absent, running (ClearedAt zero) or cleared
    refused,     \* History.refused
    clearer,     \* where the Clear call for each fault is
    reaper,      \* where in Sweep the reaper goroutine is
    todo,        \* the expired leases the sweep still has to end
    reaped,      \* the one it has cleared in the cluster and not yet reported
    sweepAt,     \* the sweep's own reading of the clock
    object,      \* what the cluster holds for each fault
    expires,     \* the expiry the driver stamped on the object
    outcome,     \* FaultRow.Outcome folded from the audit trail
    reason,      \* FaultRow.Reason
    applied      \* whether the trail holds driver.applied for the fault

callVars  == <<pc, cause>>
slotVars  == <<inFlight, inFlightNS, lastApply>>
leaseVars == <<leased, deadline>>
histVars  == <<history, refused>>
sweepVars == <<reaper, todo, reaped, sweepAt>>
objVars   == <<object, expires>>
trailVars == <<outcome, reason, applied>>
vars == <<now, callVars, slotVars, leaseVars, histVars, clearer, sweepVars, objVars, trailVars>>

Never == -1    \* the zero time.Time

(***************************************************************************)
(* Types.                                                                  *)
(***************************************************************************)
Booking  == {"reserved", "created", "registered", "recorded"}
Pending  == Booking \cup {"received", "released", "applied", "refusing", "failing",
                          "backedOut", "forgotten", "leftToReaper", "returning"}
Returned == {"refused", "failed", "done", "abandoned", "lost"}
Calls    == {"idle"} \cup Pending \cup Returned

Causes   == {"none", "not-verified", "interrupted"}
Outcomes == {"unseen", "open", "refused", "driver-failed", "cleared", "expired"}
Reasons  == Causes \cup {"rejected", "budget-exceeded", "driver-failed", "explicit-clear",
                         "deadline-reached", "untracked-after-restart"}

\* Type invariant: counts, leases, rows and objects of the executor.
TypeOK ==
    /\ now \in Nat
    /\ pc \in [Faults -> Calls]
    /\ cause \in [Faults -> Causes]
    /\ leased \in SUBSET Faults
    /\ deadline \in [Faults -> Int]
    /\ inFlight \in Int
    /\ inFlightNS \in [Namespaces -> Int]
    /\ lastApply \in [Namespaces -> Int]
    /\ history \in [Faults -> {"absent", "running", "cleared"}]
    /\ refused \in SUBSET Faults
    /\ clearer \in [Faults -> {"idle", "deleting", "deleted", "forgotten", "noted"}]
    /\ reaper \in {"idle", "leases", "deleted", "forgotten", "noted", "orphans"}
    /\ todo \in SUBSET Faults
    /\ reaped \in SUBSET Faults
    /\ sweepAt \in Nat
    /\ object \in [Faults -> {"none", "live", "spent", "deleting"}]
    /\ expires \in [Faults -> Int]
    /\ outcome \in [Faults -> Outcomes]
    /\ reason \in [Faults -> Reasons]
    /\ applied \in [Faults -> BOOLEAN]

Init ==
    /\ now = 0
    /\ pc = [f \in Faults |-> "idle"]
    /\ cause = [f \in Faults |-> "none"]
    /\ leased = {}
    /\ deadline = [f \in Faults |-> Never]
    /\ inFlight = 0
    /\ inFlightNS = [ns \in Namespaces |-> 0]
    /\ lastApply = [ns \in Namespaces |-> Never]
    /\ history = [f \in Faults |-> "absent"]
    /\ refused = {}
    /\ clearer = [f \in Faults |-> "idle"]
    /\ reaper = "idle"
    /\ todo = {}
    /\ reaped = {}
    /\ sweepAt = 0
    /\ object = [f \in Faults |-> "none"]
    /\ expires = [f \in Faults |-> Never]
    /\ outcome = [f \in Faults |-> "unseen"]
    /\ reason = [f \in Faults |-> "none"]
    /\ applied = [f \in Faults |-> FALSE]

(***************************************************************************)
(* The budget and cooldown booking (Executor.reserve).                     *)
(***************************************************************************)
\* Mutant: off by one, one fault too many is let in.
HasRoomForOneMore ==
    MaxConcurrentFaults > 0 => Cardinality(leased) + inFlight <= MaxConcurrentFaults

HasRoom ==
    MaxConcurrentFaults > 0 => Cardinality(leased) + inFlight < MaxConcurrentFaults

\* Mutant: the cooldown of one of the fault's namespaces is enough.
CooledDownSomewhere(f) ==
    MinCooldown > 0 =>
        \E ns \in Targets[f] :
            /\ inFlightNS[ns] <= 0
            /\ lastApply[ns] # Never => now - lastApply[ns] >= MinCooldown

CooledDown(f) ==
    MinCooldown > 0 =>
        \A ns \in Targets[f] :
            /\ inFlightNS[ns] <= 0
            /\ lastApply[ns] # Never => now - lastApply[ns] >= MinCooldown

Book(f) ==
    /\ inFlight' = inFlight + 1
    /\ inFlightNS' = [ns \in Namespaces |->
                         IF ns \in Targets[f] THEN inFlightNS[ns] + 1 ELSE inFlightNS[ns]]
    /\ UNCHANGED lastApply

\* The release function reserve returns.  A count that reaches zero is deleted
\* from the map, which reads as zero.
Unbook(f) ==
    /\ inFlight' = inFlight - 1
    /\ inFlightNS' = [ns \in Namespaces |->
                         IF ns \in Targets[f]
                         THEN IF inFlightNS[ns] > 1 THEN inFlightNS[ns] - 1 ELSE 0
                         ELSE inFlightNS[ns]]
    /\ UNCHANGED lastApply

(***************************************************************************)
(* The audit trail, as pkg/audit folds it into one row per fault.          *)
(***************************************************************************)
EndRow(f, how, why) ==
    /\ outcome' = [outcome EXCEPT ![f] = how]
    /\ reason' = [reason EXCEPT ![f] = why]
    /\ UNCHANGED applied

Return(f, how) == pc' = [pc EXCEPT ![f] = how] /\ UNCHANGED cause

Advance(f, from, to) == pc[f] = from /\ Return(f, to)

(***************************************************************************)
(* Executor.Apply, one action for each point at which other goroutines can *)
(* see its effect.                                                         *)
(***************************************************************************)
Receive(f) ==
    /\ Advance(f, "idle", "received")
    /\ outcome' = [outcome EXCEPT ![f] = "open"]
    /\ UNCHANGED <<now, slotVars, leaseVars, histVars, clearer, sweepVars, objVars, reason, applied>>

\* validateSchema or validateSafety says no: nothing is booked yet.
RejectEarly(f) ==
    /\ Advance(f, "received", "refusing")
    /\ EndRow(f, "refused", "rejected")
    /\ UNCHANGED <<now, slotVars, leaseVars, histVars, clearer, sweepVars, objVars>>

Reserve(f) ==
    /\ HasRoom
    /\ CooledDown(f)
    /\ Advance(f, "received", "reserved")
    /\ Book(f)
    /\ UNCHANGED <<now, leaseVars, histVars, clearer, sweepVars, objVars, trailVars>>

\* A budget refusal is about the moment, so it is not remembered as a refusal
\* of the fault (RefusalWorthRemembering).
OverBudget(f) ==
    /\ ~ (HasRoom /\ CooledDown(f))
    /\ Advance(f, "received", "refused")
    /\ EndRow(f, "refused", "budget-exceeded")
    /\ UNCHANGED <<now, slotVars, leaseVars, histVars, clearer, sweepVars, objVars>>

\* Mutant: a refusal after reserve that skips the deferred release.
RejectBookedKeepsSlot(f) ==
    /\ Advance(f, "reserved", "refusing")
    /\ \E why \in {"rejected", "interrupted"} : EndRow(f, "refused", why)
    /\ UNCHANGED <<now, slotVars, leaseVars, histVars, clearer, sweepVars, objVars>>

\* narrowPodSelector, the driver lookup, the exclusions, the compatibility
\* checks or the SOT probes say no, or the probes are cut short by the
\* caller's context; the deferred release gives the booking back.
RejectBooked(f) ==
    /\ Advance(f, "reserved", "refusing")
    /\ \E why \in {"rejected", "interrupted"} : EndRow(f, "refused", why)
    /\ Unbook(f)
    /\ UNCHANGED <<now, leaseVars, histVars, clearer, sweepVars, objVars>>

\* The cluster takes the fault.  The drivers stamp the expiry on the object
\* itself, before the executor computes the lease's deadline; envoy-fault has
\* no object to stamp, and its expires is what nobody in the cluster knows.
DriverApply(f) ==
    /\ Advance(f, "reserved", "created")
    /\ object' = [object EXCEPT ![f] = "live"]
    /\ expires' = [expires EXCEPT ![f] = now + Duration[f]]
    /\ UNCHANGED <<now, slotVars, leaseVars, histVars, clearer, sweepVars, trailVars>>

\* What a successful driver.Clear, or a delete by ReapExpired, leaves of the
\* fault.  A Chaos Mesh delete returns once it is accepted: the object stays,
\* with a deletionTimestamp, until the engine has recovered the pods.
Cleared(f) ==
    IF Engine[f] = "chaos-mesh" /\ object[f] # "none" THEN "deleting" ELSE "none"

\* The object takes its annotations with it.
Becomes(f, o) ==
    /\ object' = [object EXCEPT ![f] = o]
    /\ expires' = [expires EXCEPT ![f] = IF o = "none" THEN Never ELSE @]

\* A call that reports an error may nevertheless have been carried out.
MaybeCleared(f) == {object[f], Cleared(f)}

\* driver.Apply returns an error: nothing was created, or something was and
\* was rolled back, or was left behind (a create whose answer was lost, some
\* of the pods of an envoy-fault fan-out, a rollback that failed).
DriverFailed(f) ==
    /\ pc[f] \in {"reserved", "created"}
    /\ Return(f, "failing")
    /\ \E o \in MaybeCleared(f) : Becomes(f, o)
    /\ EndRow(f, "driver-failed", "driver-failed")
    /\ Unbook(f)
    /\ UNCHANGED <<now, leaseVars, histVars, clearer, sweepVars>>

\* History.PushRefused, once apply has returned an error worth remembering.
PushRefused(f) ==
    /\ \/ Advance(f, "refusing", "refused")
       \/ Advance(f, "failing", "failed")
       \/ Advance(f, "returning", "abandoned")
    /\ refused' = refused \cup {f}
    /\ UNCHANGED <<now, slotVars, leaseVars, history, clearer, sweepVars, objVars, trailVars>>

\* Registry.Forget; ErrNotFound is ignored by every caller.
Forget(f) ==
    /\ leased' = leased \ {f}
    /\ deadline' = [deadline EXCEPT ![f] = Never]

\* Mutant: the apply goes on to settle without registering a lease.
RegisterLater(f) ==
    /\ Advance(f, "created", "registered")
    /\ UNCHANGED <<now, slotVars, leaseVars, histVars, clearer, sweepVars, objVars, trailVars>>

Register(f) ==
    /\ Advance(f, "created", "registered")
    /\ leased' = leased \cup {f}
    /\ deadline' = [deadline EXCEPT ![f] = now + Duration[f]]
    /\ UNCHANGED <<now, slotVars, histVars, clearer, sweepVars, objVars, trailVars>>

RecordApply(f) ==
    /\ Advance(f, "registered", "recorded")
    /\ lastApply' = [ns \in Namespaces |-> IF ns \in Targets[f] THEN now ELSE lastApply[ns]]
    /\ UNCHANGED <<now, inFlight, inFlightNS, leaseVars, histVars, clearer, sweepVars, objVars, trailVars>>

Release(f) ==
    /\ Advance(f, "recorded", "released")
    /\ Unbook(f)
    /\ UNCHANGED <<now, leaseVars, histVars, clearer, sweepVars, objVars, trailVars>>

EmitApplied(f) ==
    /\ Advance(f, "released", "applied")
    /\ applied' = [applied EXCEPT ![f] = TRUE]
    /\ UNCHANGED <<now, slotVars, leaseVars, histVars, clearer, sweepVars, objVars, outcome, reason>>

\* confirmInjected and settle agreed that the fault took: until they answer the
\* call is in "applied".
HistoryPush(f) ==
    /\ Advance(f, "applied", "done")
    /\ history' = [history EXCEPT ![f] = "running"]
    /\ UNCHANGED <<now, slotVars, leaseVars, refused, clearer, sweepVars, objVars, trailVars>>

(***************************************************************************)
(* Executor.abandon: confirmInjected or settle says no, or their wait is   *)
(* cut short.  Between the driver's answer, Forget and the event other     *)
(* goroutines run.                                                         *)
(***************************************************************************)
AbandonClear(f) ==
    /\ pc[f] = "applied"
    /\ pc' = [pc EXCEPT ![f] = "backedOut"]
    /\ \E why \in Causes \ {"none"} : cause' = [cause EXCEPT ![f] = why]
    /\ Becomes(f, Cleared(f))
    /\ UNCHANGED <<now, slotVars, leaseVars, histVars, clearer, sweepVars, trailVars>>

AbandonClearFails(f) ==
    /\ Advance(f, "applied", "leftToReaper")
    /\ \E o \in MaybeCleared(f) : Becomes(f, o)
    /\ UNCHANGED <<now, slotVars, leaseVars, histVars, clearer, sweepVars, trailVars>>

AbandonForget(f) ==
    /\ Advance(f, "backedOut", "forgotten")
    /\ Forget(f)
    /\ UNCHANGED <<now, slotVars, histVars, clearer, sweepVars, objVars, trailVars>>

AbandonEmit(f) ==
    /\ pc[f] = "forgotten"
    /\ pc' = [pc EXCEPT ![f] = "returning"]
    /\ cause' = [cause EXCEPT ![f] = "none"]
    /\ EndRow(f, "cleared", cause[f])
    /\ UNCHANGED <<now, slotVars, leaseVars, histVars, clearer, sweepVars, objVars>>

\* Mutant: the fold closes the row without looking at left_to_reaper.
AbandonLeavesClosed(f) ==
    /\ Advance(f, "leftToReaper", "returning")
    /\ EndRow(f, "cleared", "not-verified")
    /\ UNCHANGED <<now, slotVars, leaseVars, histVars, clearer, sweepVars, objVars>>

\* The lease stays for the reaper, and the event says left_to_reaper, so the
\* fold leaves the row open.
AbandonLeaves(f) ==
    /\ Advance(f, "leftToReaper", "returning")
    /\ UNCHANGED <<now, slotVars, leaseVars, histVars, clearer, sweepVars, objVars, trailVars>>

(***************************************************************************)
(* Executor.Clear.  A fault without a lease is "not found", and changes    *)
(* nothing.                                                                *)
(***************************************************************************)
UpdateCleared(f) ==
    history' = [history EXCEPT ![f] = IF @ = "absent" THEN @ ELSE "cleared"]

ClearGet(f) ==
    /\ clearer[f] = "idle"
    /\ f \in leased
    /\ clearer' = [clearer EXCEPT ![f] = "deleting"]
    /\ UNCHANGED <<now, callVars, slotVars, leaseVars, histVars, sweepVars, objVars, trailVars>>

ClearDriver(f) ==
    /\ clearer[f] = "deleting"
    /\ clearer' = [clearer EXCEPT ![f] = "deleted"]
    /\ Becomes(f, Cleared(f))
    /\ UNCHANGED <<now, callVars, slotVars, leaseVars, histVars, sweepVars, trailVars>>

ClearFails(f) ==
    /\ clearer[f] = "deleting"
    /\ clearer' = [clearer EXCEPT ![f] = "idle"]
    /\ \E o \in MaybeCleared(f) : Becomes(f, o)
    /\ UNCHANGED <<now, callVars, slotVars, leaseVars, histVars, sweepVars, trailVars>>

ClearForget(f) ==
    /\ clearer[f] = "deleted"
    /\ clearer' = [clearer EXCEPT ![f] = "forgotten"]
    /\ Forget(f)
    /\ UNCHANGED <<now, callVars, slotVars, histVars, sweepVars, objVars, trailVars>>

ClearNote(f) ==
    /\ clearer[f] = "forgotten"
    /\ clearer' = [clearer EXCEPT ![f] = "noted"]
    /\ UpdateCleared(f)
    /\ UNCHANGED <<now, callVars, slotVars, leaseVars, refused, sweepVars, objVars, trailVars>>

ClearEmit(f) ==
    /\ clearer[f] = "noted"
    /\ clearer' = [clearer EXCEPT ![f] = "idle"]
    /\ EndRow(f, "cleared", "explicit-clear")
    /\ UNCHANGED <<now, callVars, slotVars, leaseVars, histVars, sweepVars, objVars>>

(***************************************************************************)
(* Reaper.Sweep.                                                           *)
(***************************************************************************)
Expired(f, t) == deadline[f] # Never /\ t > deadline[f]

SweepStart ==
    /\ reaper = "idle"
    /\ reaper' = "leases"
    /\ sweepAt' = now
    /\ todo' = {f \in leased : Expired(f, now)}
    /\ UNCHANGED <<now, callVars, slotVars, leaseVars, histVars, clearer, reaped, objVars, trailVars>>

ReapClear(f) ==
    /\ reaper = "leases"
    /\ f \in todo
    /\ Becomes(f, Cleared(f))
    /\ reaper' = "deleted"
    /\ reaped' = {f}
    /\ UNCHANGED <<now, callVars, slotVars, leaseVars, histVars, clearer, todo, sweepAt, trailVars>>

\* The error is audited as driver-clear-failed, which the fold ignores, and
\* the lease waits for the next sweep.
ReapFails(f) ==
    /\ reaper = "leases"
    /\ f \in todo
    /\ \E o \in MaybeCleared(f) : Becomes(f, o)
    /\ todo' = todo \ {f}
    /\ UNCHANGED <<now, callVars, slotVars, leaseVars, histVars, clearer, reaper, reaped, sweepAt, trailVars>>

ReapForget(f) ==
    /\ reaper = "deleted"
    /\ f \in reaped
    /\ reaper' = "forgotten"
    /\ Forget(f)
    /\ UNCHANGED <<now, callVars, slotVars, histVars, clearer, todo, reaped, sweepAt, objVars, trailVars>>

\* OnExpire.
ReapNote(f) ==
    /\ reaper = "forgotten"
    /\ f \in reaped
    /\ reaper' = "noted"
    /\ UpdateCleared(f)
    /\ UNCHANGED <<now, callVars, slotVars, leaseVars, refused, clearer, todo, reaped, sweepAt, objVars, trailVars>>

ReapEmit(f) ==
    /\ reaper = "noted"
    /\ f \in reaped
    /\ reaper' = "leases"
    /\ reaped' = {}
    /\ todo' = todo \ {f}
    /\ EndRow(f, "expired", "deadline-reached")
    /\ UNCHANGED <<now, callVars, slotVars, leaseVars, histVars, clearer, sweepAt, objVars>>

SweepOrphansStart ==
    /\ reaper = "leases"
    /\ todo = {}
    /\ reaper' = "orphans"
    /\ UNCHANGED <<now, callVars, slotVars, leaseVars, histVars, clearer, todo, reaped, sweepAt, objVars, trailVars>>

\* The drivers that implement simian.OrphanReaper find their objects by label
\* and delete the ones whose stamped expiry has passed; chaos-mesh allows a
\* grace on top.  envoy-fault keeps no object and implements no reaper.
Grace(f) == IF Engine[f] = "chaos-mesh" THEN ReapGrace ELSE 0

\* Mutant: the scan only deletes what the registry still tracks.
ReapableTracked(f, t) ==
    /\ f \in leased
    /\ object[f] \in {"live", "spent"}
    /\ expires[f] + Grace(f) < t

ReapableAt(f, t) ==
    /\ Engine[f] # "envoy-fault"
    /\ object[f] \in {"live", "spent"}
    /\ expires[f] + Grace(f) < t

\* The orphan-reaped event carries no fault UID, so no row changes.
ReapOrphan(f) ==
    /\ reaper = "orphans"
    /\ ReapableAt(f, sweepAt)
    /\ Becomes(f, Cleared(f))
    /\ UNCHANGED <<now, callVars, slotVars, leaseVars, histVars, clearer, sweepVars, trailVars>>

\* Any list or delete may have failed, so objects may be left for next time.
SweepEnd ==
    /\ reaper = "orphans"
    /\ reaper' = "idle"
    /\ sweepAt' = 0
    /\ UNCHANGED <<now, callVars, slotVars, leaseVars, histVars, clearer, todo, reaped, objVars, trailVars>>

(***************************************************************************)
(* The environment: Chaos Mesh ends a fault at its own spec.duration and   *)
(* lets a deleted object go once the pods are recovered; time passes.      *)
(***************************************************************************)
EngineRecover(f) ==
    /\ Engine[f] = "chaos-mesh"
    /\ object[f] = "live"
    /\ now >= expires[f]
    /\ Becomes(f, "spent")
    /\ UNCHANGED <<now, callVars, slotVars, leaseVars, histVars, clearer, sweepVars, trailVars>>

EngineFinalize(f) ==
    /\ object[f] = "deleting"
    /\ Becomes(f, "none")
    /\ UNCHANGED <<now, callVars, slotVars, leaseVars, histVars, clearer, sweepVars, trailVars>>

Tick ==
    /\ now < MaxTime
    /\ now' = now + 1
    /\ UNCHANGED <<callVars, slotVars, leaseVars, histVars, clearer, sweepVars, objVars, trailVars>>

(***************************************************************************)
(* The specification.                                                      *)
(***************************************************************************)
ApplyStep(f) ==
    \/ RejectEarly(f) \/ Reserve(f) \/ OverBudget(f) \/ RejectBooked(f)
    \/ DriverApply(f) \/ DriverFailed(f) \/ PushRefused(f)
    \/ Register(f) \/ RecordApply(f) \/ Release(f) \/ EmitApplied(f)
    \/ HistoryPush(f)
    \/ AbandonClear(f) \/ AbandonClearFails(f) \/ AbandonLeaves(f)
    \/ AbandonForget(f) \/ AbandonEmit(f)

ClearStep(f) ==
    \/ ClearGet(f) \/ ClearDriver(f) \/ ClearFails(f)
    \/ ClearForget(f) \/ ClearNote(f) \/ ClearEmit(f)

ReaperStep ==
    \/ SweepStart
    \/ \E f \in Faults :
          \/ ReapClear(f) \/ ReapFails(f) \/ ReapOrphan(f)
          \/ ReapForget(f) \/ ReapNote(f) \/ ReapEmit(f)
    \/ SweepOrphansStart
    \/ SweepEnd

EnvStep == Tick \/ \E f \in Faults : EngineRecover(f) \/ EngineFinalize(f)

ProcessStep ==
    \/ \E f \in Faults : Receive(f) \/ ApplyStep(f) \/ ClearStep(f)
    \/ ReaperStep

Next == ProcessStep \/ EnvStep

Spec == Init /\ [][Next]_vars

(***************************************************************************)
(* Safety.                                                                 *)
(***************************************************************************)
Booked == {f \in Faults : pc[f] \in Booking}

\* Every slot reserve hands out is given back exactly once on every path out
\* of apply, so the in-flight counts are always the calls between reserve and
\* release, in total and in each namespace.
SlotsAccounted ==
    /\ inFlight = Cardinality(Booked)
    /\ \A ns \in Namespaces :
          inFlightNS[ns] = Cardinality({f \in Booked : ns \in Targets[f]})

\* The concurrency budget: the faults that hold a lease and the applies still
\* on the way to one are never more than --max-concurrent-faults, however
\* many calls of Apply run at once.
BudgetRespected ==
    MaxConcurrentFaults > 0 => Cardinality(leased \cup Booked) <= MaxConcurrentFaults

\* A fault that lands in a namespace lands at least --min-cooldown after the
\* previous one recorded there: what reserve checked is still true when
\* recordApply runs, probes and driver call later.
CooldownStep ==
    MinCooldown > 0 =>
        \A f \in Faults :
            pc[f] = "registered" /\ pc'[f] = "recorded" =>
                \A ns \in Targets[f] :
                    lastApply[ns] # Never => now - lastApply[ns] >= MinCooldown

\* No apply is recorded in a namespace within the cooldown of the one before.
CooldownRespected == [][CooldownStep]_vars

Running(f) == object[f] \in {"live", "spent"}

\* "A fault the cluster has already accepted must be reapable": whatever is in
\* the cluster is held by a lease, except between the driver call and
\* Register, and what a driver left behind when it reported failure.  No race
\* of Clear, abandon and the reaper drops the lease of a running fault.
RunningIsLeased ==
    \A f \in Faults : Running(f) => f \in leased \/ pc[f] \in {"created", "failing", "failed"}

\* A row closed as cleared or expired is of a fault no longer in the cluster
\* (or already being deleted): the fold leaves a failed clear open.
ClosedIsGone ==
    \A f \in Faults : outcome[f] \in {"cleared", "expired"} => ~ Running(f)

\* Who has dropped a lease and has yet to write the event that says why: Clear,
\* the reaper or abandon.
Ending(f) ==
    \/ clearer[f] \in {"forgotten", "noted"}
    \/ f \in reaped /\ reaper \in {"forgotten", "noted"}
    \/ pc[f] = "forgotten"

\* A fault the trail shows as applied and not ended has a lease, so somebody can
\* end it, or it is out of the cluster and the call that took it out is still to
\* write its end: Forget, the history and the event are three steps.
OpenIsHeld ==
    \A f \in Faults : applied[f] /\ outcome[f] = "open" => f \in leased \/ (Ending(f) /\ ~ Running(f))

\* What the audit trail says of a fault is so: closed rows are of faults that are
\* gone, open ones of faults that are leased, or gone with the event on its way.
RowsTrue == ClosedIsGone /\ OpenIsHeld

\* The history's zero ClearedAt "= still active".
HistoryTruth ==
    \A f \in Faults : history[f] = "running" => f \in leased
=============================================================================
