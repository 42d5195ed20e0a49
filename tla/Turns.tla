------------------------------- MODULE Turns -------------------------------
(***************************************************************************)
(* One turn of the autonomous loop in one namespace: the wait for a slot,  *)
(* the health gate, the plan the LLM drafts and the generator validates,   *)
(* and the records each outcome leaves.  The process may be told to stop,  *)
(* or die, at any point of a turn.                                         *)
(***************************************************************************)
EXTENDS Trail, FiniteSets

CONSTANTS
    Arenas,             \* the namespaces the loop has turns in
    Drafts,             \* what the LLM may answer
    Sights,             \* what the health gate may find
    MaxFaultDuration,   \* the executor's ceiling; 0 means none
    DefaultDuration,
    MaxRetries,         \* corrective retries of a draft
    MaxPolls,           \* looks at the budget that fit a turn's share of the interval
    MaxTurns, MaxStops  \* bounds: turns taken, processes ended

ASSUME TurnsAssumption ==
    /\ {MaxFaultDuration, MaxRetries, MaxPolls, MaxTurns, MaxStops} \subseteq Nat
    /\ DefaultDuration \in Nat \ {0}

\* What the LLM's JSON decodes into: any integers, in any order.
ASSUME DraftsAssumption ==
    \A d \in Drafts :
        LET steps == {d.steps[i] : i \in DOMAIN d.steps}
        IN  /\ d.steps \in Seq(steps)
            /\ \A s \in steps : s \in [order : Int, deps : SUBSET Int, dur : Int, ns : {s.ns},
                                      whole : BOOLEAN, fits : BOOLEAN]

VARIABLES
    at,         \* where the turn is; "rest" between turns
    arena,      \* the namespace it is in
    polls, attempts,
    plan,       \* the plan Generate returned
    stopping,   \* the context is done
    truth,      \* what became of each turn
    stops

turnVars == <<at, arena, polls, attempts, plan, stopping, truth, stops>>
uvars == <<turnVars, tvars>>

NoDraft == [id |-> Unset, steps |-> <<>>]

UInit ==
    /\ TInit
    /\ at = "rest" /\ arena \in Arenas
    /\ polls = 0 /\ attempts = 0 /\ plan = NoDraft
    /\ stopping = FALSE /\ truth = <<>> /\ stops = 0

(***************************************************************************)
(* parseAttackPlan.                                                        *)
(***************************************************************************)
Capped(d) == IF MaxFaultDuration > 0 /\ d > MaxFaultDuration THEN MaxFaultDuration ELSE d

\* A step that has no order takes its place's; one that has no duration, the
\* default or the ceiling; one that names no namespace, the arena's.
Normal(steps) ==
    [i \in DOMAIN steps |->
        [steps[i] EXCEPT !.order = IF @ = 0 THEN i ELSE @,
                         !.dur = IF @ <= 0 THEN Capped(DefaultDuration) ELSE @,
                         !.ns = IF @ = Unset THEN arena ELSE @]]

OrdersOf(steps) == {steps[i].order : i \in DOMAIN steps}
DepsOf(steps, o) == UNION {steps[i].deps : i \in {j \in DOMAIN steps : steps[j].order = o}}

\* PlanLayers, which fails on a cycle.
Layered(steps) ==
    ~ \E S \in SUBSET OrdersOf(steps) \ {{}} : \A o \in S : DepsOf(steps, o) \cap S # {}

validateStepDAG(steps) ==
    /\ Cardinality(OrdersOf(steps)) = Len(steps)
    /\ \A i \in DOMAIN steps : steps[i].deps \subseteq OrdersOf(steps) \ {steps[i].order}
    /\ Layered(steps)

\* What can be told of a step without the cluster, and from the topology.
SoundStep(s) ==
    /\ MaxFaultDuration > 0 => s.dur <= MaxFaultDuration
    /\ s.whole      \* engine, kind, version, targets, spec and a reason for the duration
    /\ s.fits       \* checkTargetCompat, against the topology

parses(d) ==
    /\ d.json /\ d.steps # <<>>
    /\ LET steps == Normal(d.steps)
       IN  (\A i \in DOMAIN steps : SoundStep(steps[i])) /\ validateStepDAG(steps)

parseAttackPlan(d) == [id |-> IF d.id = Unset THEN Len(truth) ELSE d.id, steps |-> Normal(d.steps)]

(***************************************************************************)
(* RunOnce.                                                                *)
(***************************************************************************)
\* The row of the turn under way.
Close(outcome, why) ==
    truth' = [truth EXCEPT ![Len(truth)] = [@ EXCEPT !.outcome = outcome, !.why = why]]

Rest == at' = "rest" /\ polls' = 0 /\ attempts' = 0 /\ plan' = NoDraft

GoesTo(p) == at' = p /\ UNCHANGED <<polls, attempts, plan, truth>>

Skip(why) ==
    /\ Emit(Line(arena, why, Unset)) /\ Close("skipped", why) /\ Rest
    /\ UNCHANGED <<arena, stopping, stops>>

\* A turn, passed over where the namespace is paused.
Begin(ns, paused) ==
    /\ at = "rest" /\ ~ stopping /\ Len(truth) < MaxTurns
    /\ arena' = ns
    /\ Emit(Line(ns, "started", Unset))
    /\ truth' = Append([i \in DOMAIN truth |->
                    IF truth[i].ns = ns /\ truth[i].outcome = "open" THEN [truth[i] EXCEPT !.outcome = "unfinished"] ELSE truth[i]],
                 [ns |-> ns, outcome |-> "open", why |-> "none", id |-> Unset])
    /\ at' = IF paused THEN "paused" ELSE "slot"
    /\ UNCHANGED <<polls, attempts, plan, stopping, stops>>

SkipPaused == at = "paused" /\ Skip("paused")

\* waitForSlot: a free slot, or a registry that cannot be read, lets the turn on.
SlotFree == at = "slot" /\ GoesTo("health") /\ UNCHANGED <<arena, stopping, stops, tvars>>

\* Mutant: a look that finds the budget full is not counted.
NotCounted == polls

Polled == polls + 1

SlotBusy ==
    /\ at = "slot" /\ polls < MaxPolls
    /\ polls' = Polled /\ at' = "wait"
    /\ UNCHANGED <<arena, attempts, plan, stopping, truth, stops, tvars>>

LookAgain == at = "wait" /\ GoesTo("slot") /\ UNCHANGED <<arena, stopping, stops, tvars>>

\* No slot will open in time, or the process is told to stop while it waits.
SlotFull == (at = "slot" \/ (at = "wait" /\ stopping)) /\ Skip("budget-full")

\* BaselineHealthGate.Check.
Healthy(s) == s.baseline /\ s.active = 0 /\ s.ready >= s.desired

HealthPasses == at = "health" /\ (\E s \in Sights : Healthy(s)) /\ GoesTo("catalog") /\ UNCHANGED <<arena, stopping, stops, tvars>>

\* Recorded as an event of its own before the skip.
HealthFails ==
    /\ at = "health" /\ \E s \in Sights : ~ Healthy(s)
    /\ Emit(Line(arena, "unhealthy", Unset)) /\ GoesTo("unhealthy")
    /\ UNCHANGED <<arena, stopping, stops>>

SkipUnhealthy == at = "unhealthy" /\ Skip("health-gate")

\* A catalog that cannot be gathered ends the turn with no record of its own.
CatalogFails == at = "catalog" /\ Rest /\ UNCHANGED <<arena, stopping, stops, truth, tvars>>

\* Topology, baseline, recent faults and refusals are read for the prompt.
Prompt == at = "catalog" /\ GoesTo("ask") /\ UNCHANGED <<arena, stopping, stops, tvars>>

\* Generate.
DraftValid(d) ==
    /\ at = "ask" /\ parses(d)
    /\ plan' = parseAttackPlan(d)
    /\ truth' = [truth EXCEPT ![Len(truth)].id = plan'.id]
    /\ Emit(Line(arena, "planned", plan'.id))
    /\ at' = "execute"
    /\ UNCHANGED <<arena, polls, attempts, stopping, stops>>

\* The validation error goes into the prompt of the next attempt.
DraftInvalid(d) ==
    /\ at = "ask" /\ ~ parses(d) /\ attempts < MaxRetries
    /\ attempts' = attempts + 1
    /\ UNCHANGED <<at, arena, polls, plan, stopping, truth, stops, tvars>>

Verdict(why) == IF stopping THEN "interrupted" ELSE why

DraftsExhausted(d) ==
    /\ at = "ask" /\ ~ parses(d) /\ attempts = MaxRetries
    /\ Skip(Verdict("no-valid-plan"))

CallFails ==
    /\ at = "ask"
    /\ \/ stopping /\ Skip("interrupted")
       \/ ~ stopping /\ Emit(Line(arena, "llm", Unset)) /\ GoesTo("llm") /\ UNCHANGED <<arena, stopping, stops>>

SkipUnavailable == at = "llm" /\ Skip("llm-unavailable")

\* executePlan (see PlanRun): steps are skipped, or applied.
StepSkipped ==
    /\ at = "execute" /\ plan.steps # <<>>
    /\ Emit(Line(arena, "stepSkipped", plan.id))
    /\ plan' = [plan EXCEPT !.steps = Tail(@)]
    /\ UNCHANGED <<at, arena, polls, attempts, stopping, truth, stops>>

Completed ==
    /\ at = "execute"
    /\ Emit(Line(arena, "completed", plan.id)) /\ Close("completed", "none") /\ Rest
    /\ UNCHANGED <<arena, stopping, stops>>

(***************************************************************************)
(* The process.                                                            *)
(***************************************************************************)
Stop == ~ stopping /\ stops < MaxStops /\ stopping' = TRUE
        /\ UNCHANGED <<at, arena, polls, attempts, plan, truth, stops, tvars>>

\* The process ends, at rest or not, and another takes its place.
Replaced ==
    /\ stops < MaxStops /\ stops' = stops + 1
    /\ stopping' = FALSE /\ Rest /\ Reopen
    /\ UNCHANGED <<arena, truth>>

TurnStep ==
    \/ SkipPaused \/ SlotFree \/ SlotBusy \/ LookAgain \/ SlotFull \/ HealthPasses \/ HealthFails \/ SkipUnhealthy
    \/ CatalogFails \/ Prompt \/ CallFails \/ SkipUnavailable \/ StepSkipped \/ Completed
    \/ \E d \in Drafts : DraftValid(d) \/ DraftInvalid(d) \/ DraftsExhausted(d)

UNext ==
    \/ TurnStep \/ Stop \/ Replaced
    \/ \E ns \in Arenas, paused \in BOOLEAN : Begin(ns, paused)

\* Each call of a turn answers or times out.
UFairness == WF_uvars(TurnStep)

USpec == UInit /\ [][UNext]_uvars /\ UFairness

(***************************************************************************)
(* Properties.                                                             *)
(***************************************************************************)
\* The state, and that a turn under way has an open row of its own.
UTypeOK ==
    /\ at \in {"rest", "paused", "slot", "wait", "health", "unhealthy", "catalog", "ask", "llm", "execute"}
    /\ polls \in 0 .. MaxPolls /\ attempts \in 0 .. MaxRetries
    /\ Len(records) <= MaxRecords /\ fileErrors \in 0 .. MaxFileErrors
    /\ at # "rest" => truth[Len(truth)].ns = arena /\ truth[Len(truth)].outcome = "open"
    /\ at = "rest" => polls = 0 /\ attempts = 0 /\ plan = NoDraft
    /\ \A ns \in Arenas : Cardinality(InProgress(truth, ns)) <= 1

\* The plan handed to the executor can be run as it stands: stepsByOrder keeps
\* every step, some order of them has every step after those it depends on, and
\* no step asks for longer than the executor's ceiling or for no time at all.
PlanRuns ==
    at = "execute" =>
        /\ \A i, j \in DOMAIN plan.steps : plan.steps[i].order = plan.steps[j].order => i = j
        /\ \A i \in DOMAIN plan.steps :
            /\ plan.steps[i].dur > 0
            /\ MaxFaultDuration > 0 => plan.steps[i].dur <= MaxFaultDuration
        /\ \E rank \in [OrdersOf(plan.steps) -> 1 .. Len(plan.steps)] :
            \A i \in DOMAIN plan.steps : \A d \in plan.steps[i].deps \cap DOMAIN rank :
                rank[d] < rank[plan.steps[i].order]

\* What is read from the two files is the end of what was left whole in them,
\* so no rotation drops a line from the middle.  It is all of it, or the older
\* file is a full generation: a write cut short by an error or by the death of
\* the process costs it that line and the next, and never more.
TrailWhole ==
    LET read == old.lines \o cur.lines
    IN  /\ IsSuffix(read, written)
        /\ read = written \/ Len(old.lines) + 2 * old.cuts >= MaxLines

\* The rows folded from the log are the turns the loop took, with the outcome
\* each had and the plan it ran: across restarts, in a log that has dropped its
\* oldest records, and though the records may begin in mid-cycle.
FoldTrue ==
    ~ lost =>
        \A ns \in Arenas :
            LET rows == RowsOf(Cycles(records), ns)
                took == RowsOf(truth, ns)
                back == Len(took) - Len(rows)
            IN  /\ back >= 0
                /\ \A i \in DOMAIN rows :
                    /\ rows[i].outcome = took[i + back].outcome /\ rows[i].why = took[i + back].why
                    /\ rows[i].id \in {took[i + back].id, Unset}

\* A turn ends, however the LLM answers and however full the budget stays.
TurnReturns == (at # "rest") ~> (at = "rest")

\* A turn runs only plans that can be run, and the trail tells what became of it.
TurnsTold == UTypeOK /\ PlanRuns /\ TrailWhole /\ FoldTrue
=============================================================================
