--------------------------- MODULE AutonomyAdmin ----------------------------
(***************************************************************************)
(* The admin requests of the web UI (pkg/webui/admin.go) on top of the     *)
(* autonomous loop: configure, reset, pause, resume, halt and clear-all.   *)
(* A change reads the settings, edits its copy, keeps the copy in the      *)
(* runtime ConfigMap (pkg/runtimecfg) and only then puts it in force;      *)
(* requests run concurrently and nothing is locked from the read to the    *)
(* set.  A halt goes on to clear the faults it lists.  A restarted         *)
(* controller begins with what is kept.                                    *)
(***************************************************************************)
EXTENDS Autonomy, FiniteSets

CONSTANTS
    Admins,       \* the requests that may be under way at once
    Faults,       \* the faults the loop's turns may apply
    MaxRestarts   \* bound on restarts of the controller

ASSUME RestartsAssumption == MaxRestarts \in Nat

VARIABLES
    req,       \* where each admin's request is
    action,    \* what it asks for
    draft,     \* the settings it is about to keep and set
    kept,      \* the record in the ConfigMap: a set of at most one
    unsure,    \* a save failed, so what is kept may not be what is in force
    active,    \* the faults with a lease
    listed,    \* the faults a halt has listed and not yet cleared
    restarts

reqVars   == <<req, action, draft, listed>>
adminVars == <<reqVars, kept, unsure, active, restarts>>
advars    == <<avars, adminVars>>

NotKept == {}

Changes == {"configure", "reset", "pause", "resume", "halt"}
Actions == Changes \cup {"none", "clear-all"}

\* Type invariant: the requests, what is kept, and the faults of the loop.
AdminTypeOK ==
    /\ ATypeOK
    /\ req \in [Admins -> {"idle", "keeping", "setting", "waking", "listing", "clearing"}]
    /\ action \in [Admins -> Actions]
    /\ draft \in [Admins -> Offered]
    /\ kept \in {NotKept} \cup {{s} : s \in Offered}
    /\ unsure \in BOOLEAN
    /\ active \in SUBSET Faults
    /\ listed \in [Admins -> SUBSET Faults]
    /\ restarts \in 0 .. MaxRestarts

AdminInit ==
    /\ AInit
    /\ req = [a \in Admins |-> "idle"]
    /\ action = [a \in Admins |-> "none"]
    /\ draft = [a \in Admins |-> Install]
    /\ kept = NotKept
    /\ unsure = FALSE
    /\ active = {}
    /\ listed = [a \in Admins |-> {}]
    /\ restarts = 0

(***************************************************************************)
(* applyAutonomy: Control.Get and the edit, the store, Control.Set.        *)
(***************************************************************************)
\* Pausing a target adds it to the list; resuming it takes it off, and
\* resuming all empties the list.
PauseTargets == Listed \cup {PauseAll}

\* Settings.Validate does not look at the pause list: settings that are on offer
\* are so with any other list.
ASSUME PausesAssumption ==
    \A s \in Offered :
        /\ s.paused \in SUBSET PauseTargets
        /\ \A list \in SUBSET PauseTargets : [s EXCEPT !.paused = list] \in Offered

PauseOrResume(what, cur) ==
    IF what = "pause" THEN {[cur EXCEPT !.paused = @ \cup {t}] : t \in PauseTargets}
    ELSE {[cur EXCEPT !.paused = IF t = PauseAll THEN {} ELSE @ \ {t}] : t \in PauseTargets}

Edited(what, cur) ==
    CASE what = "configure"           -> Offered
      [] what = "reset"               -> {Install}
      [] what \in {"pause", "resume"} -> PauseOrResume(what, cur)
      [] what = "halt"                -> {[cur EXCEPT !.paused = {PauseAll}]}

Goes(a, to) == req' = [req EXCEPT ![a] = to] /\ UNCHANGED <<action, draft>>

Returns(a) ==
    /\ req' = [req EXCEPT ![a] = "idle"]
    /\ action' = [action EXCEPT ![a] = "none"]
    /\ draft' = [draft EXCEPT ![a] = Install]

Get(a) ==
    /\ req[a] = "idle"
    /\ \E what \in Changes :
        /\ action' = [action EXCEPT ![a] = what]
        /\ \E s \in Edited(what, settings) : draft' = [draft EXCEPT ![a] = s]
    /\ req' = [req EXCEPT ![a] = "keeping"]
    /\ UNCHANGED <<avars, kept, unsure, active, listed, restarts>>

\* Mutant: a reset saves its settings nowhere.
KeptByAnyButReset(a) == IF action[a] = "reset" THEN kept ELSE {draft[a]}

KeptBy(a) == IF action[a] = "reset" THEN NotKept ELSE {draft[a]}

Keep(a) ==
    /\ req[a] = "keeping"
    /\ kept' = KeptBy(a)
    /\ unsure' = FALSE
    /\ Goes(a, "setting")
    /\ UNCHANGED <<avars, active, listed, restarts>>

\* The API call reports an error, whether or not it was carried out.  "A halt
\* takes effect regardless"; anything else is not applied.
KeepFails(a) ==
    /\ req[a] = "keeping"
    /\ kept' \in {kept, KeptBy(a)}
    /\ unsure' = TRUE
    /\ IF action[a] = "halt" THEN Goes(a, "setting") ELSE Returns(a)
    /\ UNCHANGED <<avars, active, listed, restarts>>

PutInForce(a) ==
    /\ req[a] = "setting"
    /\ Store(draft[a])
    /\ Goes(a, "waking")
    /\ UNCHANGED <<kept, unsure, active, listed, restarts>>

Answer(a) ==
    /\ req[a] = "waking"
    /\ Wake
    /\ IF action[a] = "halt" THEN Goes(a, "listing") ELSE Returns(a)
    /\ UNCHANGED <<kept, unsure, active, listed, restarts>>

(***************************************************************************)
(* The second half of a halt, and all of clear-all: list the active faults *)
(* and clear each.  A list that fails is empty for a halt and ends a       *)
(* clear-all; a clear that fails leaves its fault.                         *)
(***************************************************************************)
ClearAll(a) ==
    /\ req[a] = "idle"
    /\ action' = [action EXCEPT ![a] = "clear-all"]
    /\ req' = [req EXCEPT ![a] = "listing"]
    /\ UNCHANGED <<avars, draft, kept, unsure, active, listed, restarts>>

\* What the list may hold: a clear-all may ask for one namespace only.
Listing(a) == IF action[a] = "halt" THEN {active, {}} ELSE SUBSET active

ListActive(a) ==
    /\ req[a] = "listing"
    /\ \E found \in Listing(a) : listed' = [listed EXCEPT ![a] = found]
    /\ Goes(a, "clearing")
    /\ UNCHANGED <<avars, kept, unsure, active, restarts>>

ClearOne(a, f) ==
    /\ req[a] = "clearing"
    /\ f \in listed[a]
    /\ listed' = [listed EXCEPT ![a] = @ \ {f}]
    /\ active' \in {active, active \ {f}}
    /\ UNCHANGED <<avars, req, action, draft, kept, unsure, restarts>>

ClearingDone(a) ==
    /\ req[a] = "clearing"
    /\ listed[a] = {}
    /\ Returns(a)
    /\ UNCHANGED <<avars, listed, kept, unsure, active, restarts>>

(***************************************************************************)
(* The rest of the controller.                                             *)
(***************************************************************************)
\* A turn applies a fault of its plan (RunOnce, executePlan).
LoopApply(f) ==
    /\ lpc = "running"
    /\ f \notin active
    /\ active' = active \cup {f}
    /\ UNCHANGED <<avars, reqVars, kept, unsure, restarts>>

\* The reaper ends a fault at its deadline.
Reap(f) ==
    /\ f \in active
    /\ active' = active \ {f}
    /\ UNCHANGED <<avars, reqVars, kept, unsure, restarts>>

\* A new process begins with the kept settings, or with the install's when
\* there are none, they cannot be read, or they no longer fit the limits.
Restart ==
    /\ restarts < MaxRestarts
    /\ restarts' = restarts + 1
    /\ \/ /\ settings' \in kept
          /\ changed' = TRUE
          /\ UNCHANGED unsure
       \/ /\ settings' = Install
          /\ changed' = FALSE
          /\ unsure' = (unsure \/ kept # NotKept)
    /\ wakes' = 0
    /\ synced' = Install
    /\ lpc' = "top"
    /\ cycle' = 0
    /\ turns' = <<>>
    /\ spent' = LongestInterval /\ left' = 0
    /\ req' = [a \in Admins |-> "idle"]
    /\ action' = [a \in Admins |-> "none"]
    /\ draft' = [a \in Admins |-> Install]
    /\ listed' = [a \in Admins |-> {}]
    /\ UNCHANGED <<edits, kept, active>>

RequestStep(a) ==
    \/ Get(a) \/ ClearAll(a) \/ Keep(a) \/ KeepFails(a) \/ PutInForce(a) \/ Answer(a)
    \/ ListActive(a) \/ ClearingDone(a) \/ \E f \in Faults : ClearOne(a, f)

LoopStep == (RunStep \/ APasses) /\ UNCHANGED adminVars

AdminNext ==
    \/ \E a \in Admins : RequestStep(a)
    \/ \E f \in Faults : LoopApply(f) \/ Reap(f)
    \/ LoopStep
    \/ Restart

AdminSpec == AdminInit /\ [][AdminNext]_advars

\* The loop and the clock run, the reaper ends what it is given.
AdminFairness ==
    /\ WF_advars(RunStep /\ UNCHANGED adminVars)
    /\ WF_advars(APasses /\ UNCHANGED adminVars)
    /\ \A f \in Faults : WF_advars(Reap(f))

AdminFairSpec == AdminSpec /\ AdminFairness

(***************************************************************************)
(* Properties.                                                             *)
(***************************************************************************)
\* What is in force "cannot vanish at the next start": between requests, and
\* when no save has failed, the settings kept are the settings in force.
KeptInForce ==
    (\A a \in Admins : req[a] = "idle") /\ ~ unsure =>
        kept = {settings} \/ (kept = NotKept /\ settings = Install)

\* The settings of every request are of their type, and none can vanish.
SettingsSound == AdminTypeOK /\ KeptInForce

\* The emergency stop: once everything stays paused, no fault stays active,
\* though the turn under way when the pause came may still apply some after
\* the halt has listed what to clear.
HaltEmpties ==
    <>[](PauseAll \in settings.paused) => <>[](active = {})

\* "Pause autonomous mode everywhere first, so the loop cannot start a fault
\* in between, then clear every fault."
HaltQuiet ==
    [][(\E a \in Admins : action[a] = "halt" /\ req[a] \in {"listing", "clearing"})
         => active' \subseteq active]_advars
=============================================================================
