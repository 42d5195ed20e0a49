----------------------------- MODULE Controller -----------------------------
(***************************************************************************)
(* The controller process around the executor (cmd/simian serve): it can   *)
(* die at any step, losing the leases, the bookings, the history and every *)
(* call under way, and a new process takes over what it finds in the audit *)
(* file and in the cluster before it plans or applies anything.            *)
(***************************************************************************)
EXTENDS Executor

CONSTANT MaxCrashes    \* bound on the number of crashes

ASSUME CrashAssumption == MaxCrashes \in Nat

VARIABLES
    proc,         \* "up", or how far a new process has come
    crashes,      \* how many processes have died
    rowDeadline,  \* FaultRow.Deadline, of rows with driver.applied
    missed        \* the faults neither the audit file nor the start-up listing showed

procVars == <<proc, crashes, missed>>
cvars == <<vars, procVars, rowDeadline>>

\* Type invariant: the process, its start-up and what the audit file says.
CTypeOK ==
    /\ TypeOK
    /\ proc \in {"up", "down", "taken", "sweeping"}
    /\ crashes \in 0 .. MaxCrashes
    /\ rowDeadline \in [Faults -> Int]
    /\ missed \in SUBSET Faults

CInit ==
    /\ Init
    /\ proc = "up"
    /\ crashes = 0
    /\ rowDeadline = [f \in Faults |-> Never]
    /\ missed = {}

(***************************************************************************)
(* A running process.                                                      *)
(***************************************************************************)
\* Apply computes the deadline once, for the lease and for driver.applied, which
\* carries it even if a clear has dropped the lease by then.
NoteDeadline ==
    rowDeadline' = [f \in Faults |->
                      IF pc[f] = "created" /\ pc'[f] = "registered" THEN deadline'[f] ELSE rowDeadline[f]]

Work ==
    /\ proc = "up"
    /\ ProcessStep
    /\ NoteDeadline
    /\ UNCHANGED procVars

Environment == EnvStep /\ UNCHANGED <<procVars, rowDeadline>>

\* The process dies.  The audit file survives on a volume, or goes with the
\* pod when it is on an emptyDir; calls under way never return.  The history
\* dies too: refused is what it remembered, for RefusalsGenuine, and TakeOver
\* fills a new one.
Crash ==
    /\ crashes < MaxCrashes
    /\ proc # "down"
    /\ proc' = "down"
    /\ crashes' = crashes + 1
    /\ pc' = [f \in Faults |-> IF pc[f] \in Pending THEN "lost" ELSE pc[f]]
    /\ cause' = [f \in Faults |-> IF pc[f] \in Pending THEN "none" ELSE cause[f]]
    /\ leased' = {}
    /\ deadline' = [f \in Faults |-> Never]
    /\ inFlight' = 0
    /\ inFlightNS' = [ns \in Namespaces |-> 0]
    /\ lastApply' = [ns \in Namespaces |-> Never]
    /\ clearer' = [f \in Faults |-> "idle"]
    /\ reaper' = "idle"
    /\ todo' = {}
    /\ reaped' = {}
    /\ sweepAt' = 0
    /\ \/ UNCHANGED <<trailVars, rowDeadline>>
       \/ /\ outcome' = [f \in Faults |-> "unseen"]
          /\ reason' = [f \in Faults |-> "none"]
          /\ applied' = [f \in Faults |-> FALSE]
          /\ rowDeadline' = [f \in Faults |-> Never]
    /\ history' = [f \in Faults |-> "absent"]
    /\ missed' = {}
    /\ UNCHANGED <<now, refused, objVars>>

(***************************************************************************)
(* Start-up, first half: what the audit file says.                         *)
(***************************************************************************)
\* FaultRow.ActiveFault: applied, never closed, and with its deadline ahead.
StillActive(f) == outcome[f] = "open" /\ applied[f] /\ rowDeadline[f] > now

\* ClosingEvents, for the open rows that were not adopted.
Closable(f) == outcome[f] = "open" /\ applied[f] /\ ~ (rowDeadline[f] > now)

\* Backed out by abandon: injection-failed, probe-failed, cannot-gate or
\* probe-not-configured, but not interrupted.
BackedOut(f) == outcome[f] = "cleared" /\ reason[f] = "not-verified"

RecentFromAudit(f) ==
    IF ~ applied[f] \/ BackedOut(f) THEN "absent"
    ELSE IF StillActive(f) THEN "running" ELSE "cleared"

\* Mutant: every fault taken out before its deadline counts as refused.
RefusedIfCleared(f) ==
    /\ outcome[f] \in {"refused", "driver-failed", "cleared"}
    /\ reason[f] # "budget-exceeded"

RefusedInAudit(f) ==
    /\ outcome[f] \in {"refused", "driver-failed"} \/ BackedOut(f)
    /\ reason[f] # "budget-exceeded"

TakeOver ==
    /\ proc = "down"
    /\ proc' = "taken"
    /\ history' = [f \in Faults |-> RecentFromAudit(f)]
    /\ refused' = {f \in Faults : RefusedInAudit(f)}
    /\ leased' = {f \in Faults : StillActive(f)}
    /\ deadline' = [f \in Faults |-> IF StillActive(f) THEN rowDeadline[f] ELSE Never]
    /\ outcome' = [f \in Faults |-> IF Closable(f) THEN "expired" ELSE outcome[f]]
    /\ reason' = [f \in Faults |-> IF Closable(f) THEN "untracked-after-restart" ELSE reason[f]]
    /\ missed' = {f \in Faults : ~ (applied[f] /\ outcome[f] = "open")}
    /\ UNCHANGED <<now, callVars, slotVars, clearer, sweepVars, objVars, applied,
                   crashes, rowDeadline>>

(***************************************************************************)
(* Start-up, second half: what the cluster says (lease.AdoptLive), then    *)
(* one orphan scan before the first tick.  envoy-fault has no ListLive.    *)
(***************************************************************************)
Listable(f) ==
    /\ Engine[f] # "envoy-fault"
    /\ Running(f)
    /\ expires[f] > now

\* Mutant: an adopted fault is given its whole duration again.
AdoptLiveAfresh ==
    /\ proc = "taken"
    /\ proc' = "sweeping"
    /\ \E listed \in SUBSET {f \in Faults : Listable(f)} :
        LET found == listed \ leased IN
        /\ leased' = leased \cup found
        /\ deadline' = [f \in Faults |-> IF f \in found THEN now + Duration[f] ELSE deadline[f]]
        /\ history' = [f \in Faults |->
                         IF f \in leased' /\ history[f] = "absent" THEN "running" ELSE history[f]]
        /\ outcome' = [f \in Faults |->
                         IF f \in found /\ outcome[f] = "unseen" THEN "open" ELSE outcome[f]]
        /\ missed' = {f \in missed : Running(f)} \ listed
    /\ reaper' = "orphans"
    /\ sweepAt' = now
    /\ UNCHANGED <<now, callVars, slotVars, refused, clearer, todo, reaped, objVars,
                   reason, applied, crashes, rowDeadline>>

AdoptLive ==
    /\ proc = "taken"
    /\ proc' = "sweeping"
    /\ \E listed \in SUBSET {f \in Faults : Listable(f)} :
        LET found == listed \ leased IN
        /\ leased' = leased \cup found
        /\ deadline' = [f \in Faults |-> IF f \in found THEN expires[f] ELSE deadline[f]]
        /\ history' = [f \in Faults |->
                         IF f \in leased' /\ history[f] = "absent" THEN "running" ELSE history[f]]
        \* lease.adopted opens a row where the file had none.
        /\ outcome' = [f \in Faults |->
                         IF f \in found /\ outcome[f] = "unseen" THEN "open" ELSE outcome[f]]
        /\ missed' = {f \in missed : Running(f)} \ listed
    /\ reaper' = "orphans"
    /\ sweepAt' = now
    /\ UNCHANGED <<now, callVars, slotVars, refused, clearer, todo, reaped, objVars,
                   reason, applied, crashes, rowDeadline>>

StartupReap(f) ==
    /\ proc = "sweeping"
    /\ ReapOrphan(f)
    /\ UNCHANGED <<procVars, rowDeadline>>

StartupDone ==
    /\ proc = "sweeping"
    /\ SweepEnd
    /\ proc' = "up"
    /\ UNCHANGED <<crashes, missed, rowDeadline>>

CNext ==
    \/ Work
    \/ Environment
    \/ Crash
    \/ TakeOver
    \/ AdoptLive
    \/ \E f \in Faults : StartupReap(f)
    \/ StartupDone

CSpec == CInit /\ [][CNext]_cvars

\* A dead process is restarted and its start-up goes through; in a running one
\* the ticker fires, every call a sweep waits on returns one way or the other,
\* and a delete retried at every sweep is not refused for ever.
CFairness ==
    /\ WF_cvars(Tick /\ UNCHANGED <<procVars, rowDeadline>>)
    /\ WF_cvars(TakeOver) /\ WF_cvars(AdoptLive) /\ WF_cvars(StartupDone)
    /\ WF_cvars(Work /\ SweepStart) /\ WF_cvars(Work /\ SweepOrphansStart)
    /\ WF_cvars(Work /\ SweepEnd)
    /\ \A f \in Faults :
        /\ WF_cvars(Work /\ (ReapClear(f) \/ ReapFails(f)))
        /\ WF_cvars(Work /\ (ReapForget(f) \/ ReapNote(f) \/ ReapEmit(f)))
        /\ SF_cvars(Work /\ ReapClear(f))
        /\ SF_cvars(Work /\ ReapOrphan(f))

CFairSpec == CSpec /\ CFairness

(***************************************************************************)
(* Properties.                                                             *)
(***************************************************************************)
\* A fault in force is counted "from the first cycle": once a process is up,
\* whatever an earlier one left running with its deadline ahead has a lease,
\* from the file or from the cluster, unless both failed to show it.
LiveIsCounted ==
    proc = "up" =>
        \A f \in Faults :
            Running(f) /\ now < expires[f] =>
                f \in leased \/ pc[f] \in {"created", "failing", "failed"} \/ f \in missed

\* An adopted fault keeps its own deadline, the one on the record or the one
\* on the object: no number of restarts makes a fault run longer.
DeadlineKept ==
    \A f \in leased :
        pc[f] \in Returned /\ Running(f) => deadline[f] \in {rowDeadline[f], expires[f]}

\* Every lease ends once its deadline has passed, whatever failed before.
LeaseEnds ==
    \A f \in Faults : (f \in leased /\ deadline[f] < MaxTime) ~> f \notin leased

\* Whatever a driver put in the cluster is gone some time after its expiry:
\* what a failed apply left, what a crash left, what a clear that failed left
\* ("the caller ... re-runs to converge"), and what start-up closed the row of.
RunningEnds ==
    \A f \in Faults : (Running(f) /\ expires[f] + Grace(f) < MaxTime) ~> ~ Running(f)

\* A fault whose lease was dropped by a process that died before it wrote the end
\* is on record as running: it is held again until its deadline, or closed, so no
\* open row is ever left without somebody to end it.
OpenIsKept == proc # "down" => OpenIsHeld

\* After a restart every fault in force is counted, until its own deadline, and so
\* is every fault the audit file shows as running.
Recounted == CTypeOK /\ LiveIsCounted /\ DeadlineKept /\ OpenIsKept

Restored == proc = "down" /\ proc' = "taken"

\* A restart invents no refusal and remembers no fault twice: what a new
\* process is told was refused is what an earlier one refused, failed to apply or
\* backed out, or was about to remember so when it died; none of it is listed as
\* having run, and none of it is a fault that was applied and then interrupted.
\* The other way round, what the file still shows so is told again.
RefusalsGenuine ==
    [][Restored =>
        /\ \A f \in refused' :
              /\ f \in refused \/ pc[f] = "lost"
              /\ history'[f] = "absent"
              /\ applied[f] => reason[f] # "interrupted"
        /\ \A f \in refused :
              outcome[f] \in {"refused", "driver-failed"} \/ BackedOut(f) => f \in refused']_cvars

\* "... and so is a fault interrupted by shutdown, which says nothing about the
\* fault": left out of what a new process is told was refused.
InterruptedLeftOut == [][Restored => \A f \in refused' : reason[f] # "interrupted"]_cvars

\* Nothing stays for good: no lease and no object.
NothingStays == LeaseEnds /\ RunningEnds
=============================================================================
