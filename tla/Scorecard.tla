----------------------------- MODULE Scorecard -----------------------------
(***************************************************************************)
(* How a run of the harness becomes a scorecard (pkg/eval).  The scenarios *)
(* of a pack run side by side and write one audit log between them, every  *)
(* line stamped with its scenario; the runner keeps what the subject       *)
(* answered.  When all are done the scorer reads the log back, one         *)
(* accumulator per scenario, joins it with the answers and grades them.    *)
(* Here the log is kept as each scenario's own lines, whose number is its  *)
(* clock: no line is read in relation to another scenario's.  Values are   *)
(* in sixtieths.                                                           *)
(***************************************************************************)
EXTENDS Integers, Sequences, FiniteSets, FiniteSetsExt, Functions

CONSTANTS
    Pack,          \* the scenarios
    FaultCount,    \* how many faults each of them has
    Gates,         \* the Settle probes of a fault
    Expect,        \* the findings a correct report of each contains
    AlsoTrue,      \* the further reasons that are true of it
    WantSeverity,  \* its Severity, NoSeverity when it declares none
    oracleKinds,   \* the objects its own Chaos Mesh faults create
    Reasons,       \* the reason tokens a report may use
    Resembles,     \* the pairs of them of which one contains the other
    Family,        \* the failure family of a token, Generic when it has none
    Generic,
    Answers,       \* the reports the subject may come back with
    NoReport,
    NoSeverity

Severities == 0 .. 3
Warning == 2

\* An expectation names an object, the reasons it accepts (none: any), the least
\* severity, and whether it is the root cause.  A finding is about an object; its
\* place is the scenario's namespace, another one, or not given.  A pack, what a
\* scenario expects and what a report finds are lists, hence finite.
ASSUME ScoreAssumption ==
    /\ FaultCount \in [Pack -> Nat] /\ Gates \in Nat \ {0}
    /\ \A s \in Pack : \A e \in Expect[s] :
        e.reasons \subseteq Reasons /\ e.min \in Severities /\ e.root \in BOOLEAN
    /\ AlsoTrue \in [Pack -> SUBSET Reasons]
    /\ \A s \in Pack : WantSeverity[s] \in Severities \cup {NoSeverity}
    /\ \A s \in Pack : Expect[s] # {} => FaultCount[s] > 0
    /\ \A s \in Pack : Expect[s] = {} => AlsoTrue[s] = {}
    /\ NoReport \notin Answers
    /\ IsFiniteSet(Pack) /\ \A s \in Pack : IsFiniteSet(Expect[s])
    /\ \A r \in Answers : IsFiniteSet(DOMAIN r.findings) /\ r.severity \in Severities \cup {NoSeverity}

VARIABLES
    log,      \* the lines of the audit log stamped with each scenario
    reached,  \* how far each scenario has come
    fault,    \* the fault of it that is being applied
    gate,     \* the probe of that fault that runs next
    landed,   \* history: when the last gate of each scenario's last fault passed
    runs      \* each scenario's eval.Run, as the runner has it

scvars == <<log, reached, fault, gate, landed, runs>>

Events == {"eval.scenario_started", "executor.received", "executor.rejected", "driver.applied",
           "driver.failed", "fault.injected", "fault.efficacy", "lease.cleared",
           "eval.arena_leaked", "eval.scenario_completed"}

\* A line names no fault as 0, and may have no "passed" in its payload.
Line(f, e, p) == [fault |-> f, event |-> e, passed |-> p]
Plain(f, e) == Line(f, e, "absent")

NewRun == [asked |-> FALSE, report |-> NoReport, detectedAt |-> 0, clearedAt |-> 0, teardown |-> FALSE]

ScInit ==
    /\ log = [s \in Pack |-> <<>>]
    /\ reached = [s \in Pack |-> "new"]
    /\ fault = [s \in Pack |-> 1]
    /\ gate = [s \in Pack |-> 1]
    /\ landed = [s \in Pack |-> 0]
    /\ runs = [s \in Pack |-> NewRun]

Writes(s, lines) == log' = [log EXCEPT ![s] = @ \o lines]
Moves(s, to) == reached' = [reached EXCEPT ![s] = to]

(***************************************************************************)
(* runScenario, and under it the lines of Executor.Apply for each fault.   *)
(* Any failure sends the scenario to its teardown without asking.          *)
(***************************************************************************)
Started(s) ==
    /\ reached[s] = "new"
    /\ Writes(s, <<Plain(0, "eval.scenario_started")>>)
    /\ Moves(s, "setup")
    /\ UNCHANGED <<fault, gate, landed, runs>>

\* Setup and deploySubstrate.
ProvisioningFails(s) ==
    /\ reached[s] = "setup"
    /\ Moves(s, "teardown")
    /\ UNCHANGED <<log, fault, gate, landed, runs>>

Provisioned(s) ==
    /\ reached[s] = "setup"
    /\ Moves(s, IF FaultCount[s] = 0 THEN "asking" ELSE "inject")
    /\ runs' = [runs EXCEPT ![s].asked = FaultCount[s] = 0]
    /\ UNCHANGED <<log, fault, gate, landed>>

Refused(s) ==
    /\ reached[s] = "inject"
    /\ \E e \in {"executor.rejected", "driver.failed"} :
          Writes(s, <<Plain(fault[s], "executor.received"), Plain(fault[s], e)>>)
    /\ Moves(s, "teardown")
    /\ UNCHANGED <<fault, gate, landed, runs>>

Applied(s) ==
    /\ reached[s] = "inject"
    /\ Writes(s, <<Plain(fault[s], "executor.received"), Plain(fault[s], "driver.applied")>>)
    /\ Moves(s, "settling")
    /\ gate' = [gate EXCEPT ![s] = 1]
    /\ UNCHANGED <<fault, landed, runs>>

\* The engine's own verdict, a gate's, or a gate cut short: the fault is abandoned.
Abandoned(s) ==
    /\ reached[s] = "settling"
    /\ \E l \in {Line(fault[s], "fault.injected", "no"), Line(fault[s], "fault.efficacy", "no"),
                 Line(fault[s], "fault.efficacy", "absent")} :
          Writes(s, <<l, Plain(fault[s], "lease.cleared")>>)
    /\ Moves(s, "teardown")
    /\ UNCHANGED <<fault, gate, landed, runs>>

GatePassed(s) ==
    /\ reached[s] = "settling"
    /\ Writes(s, <<Line(fault[s], "fault.efficacy", "yes")>>)
    /\ gate' = [gate EXCEPT ![s] = @ + 1]
    /\ LET last == gate[s] = Gates
           all  == last /\ fault[s] = FaultCount[s] IN
       /\ fault' = [fault EXCEPT ![s] = IF last /\ ~ all THEN @ + 1 ELSE @]
       /\ Moves(s, IF all THEN "asking" ELSE IF last THEN "inject" ELSE "settling")
       /\ landed' = [landed EXCEPT ![s] = IF all THEN Len(log'[s]) ELSE 0]
       /\ runs' = [runs EXCEPT ![s].asked = all]

\* Investigate; the remediation watch may have seen every fault gone.
Investigated(s) ==
    /\ reached[s] = "asking"
    /\ \E r \in Answers \cup {NoReport}, gone \in BOOLEAN :
          runs' = [runs EXCEPT ![s].report = r, ![s].detectedAt = Len(log[s]),
                               ![s].clearedAt = IF gone /\ FaultCount[s] > 0 THEN Len(log[s]) ELSE 0]
    /\ Moves(s, "teardown")
    /\ UNCHANGED <<log, fault, gate, landed>>

\* The deferred teardown and the last line.
Completed(s) ==
    /\ reached[s] = "teardown"
    /\ \E leaks \in BOOLEAN :
        /\ runs' = [runs EXCEPT ![s].teardown = leaks]
        /\ Writes(s, (IF leaks THEN <<Plain(0, "eval.arena_leaked")>> ELSE <<>>)
                  \o <<Plain(0, "eval.scenario_completed")>>)
    /\ Moves(s, "done")
    /\ UNCHANGED <<fault, gate, landed>>

ScNext ==
    \E s \in Pack :
        \/ Started(s) \/ ProvisioningFails(s) \/ Provisioned(s)
        \/ Refused(s) \/ Applied(s) \/ Abandoned(s) \/ GatePassed(s)
        \/ Investigated(s) \/ Completed(s)

ScSpec == ScInit /\ [][ScNext]_scvars

(***************************************************************************)
(* ReadAudit: the facts of each scenario, from its own lines.              *)
(***************************************************************************)
FaultsSeen(s) == {log[s][i].fault : i \in DOMAIN log[s]} \ {0}
TrailOf(s, f) == {i \in DOMAIN log[s] : log[s][i].fault = f}

\* applyLine: a verdict without "passed" reads as one that failed.
Passes(s, f) == {i \in TrailOf(s, f) : log[s][i].event = "fault.efficacy" /\ log[s][i].passed = "yes"}
\* Mutant: only an explicit failure counts, not a verdict that is missing.
ProblemTold(s, f) ==
    \E i \in TrailOf(s, f) :
        \/ log[s][i].event \in {"executor.rejected", "driver.failed"}
        \/ log[s][i].event \in {"fault.efficacy", "fault.injected"} /\ log[s][i].passed = "no"

Problem(s, f) ==
    \E i \in TrailOf(s, f) :
        \/ log[s][i].event \in {"executor.rejected", "driver.failed"}
        \/ log[s][i].event \in {"fault.efficacy", "fault.injected"} /\ log[s][i].passed # "yes"

summarizeFacts(s) ==
    LET manifested == /\ FaultsSeen(s) # {}
                      /\ \A f \in FaultsSeen(s) : ~ Problem(s, f) /\ Passes(s, f) # {} IN
    [manifested |-> manifested,
     injectedAt |-> IF manifested THEN Max(UNION {Passes(s, f) : f \in FaultsSeen(s)}) ELSE 0,
     teardown   |-> \E i \in DOMAIN log[s] : log[s][i].event = "eval.arena_leaked"]

IsControl(s) == Expect[s] = {}

\* Join, for one scenario: RunFile keeps the subject's half of the run.
Join(s) ==
    LET f == summarizeFacts(s) IN
    [manifested  |-> IsControl(s) \/ f.manifested,
     injectError |-> ~ IsControl(s) /\ ~ f.manifested,
     injectedAt  |-> f.injectedAt,
     teardown    |-> f.teardown,
     report      |-> runs[s].report,
     detectedAt  |-> runs[s].detectedAt,
     clearedAt   |-> runs[s].clearedAt]

(***************************************************************************)
(* The measures.                                                           *)
(***************************************************************************)
Skipped == [skipped |-> TRUE, value |-> 0]
Scored(v) == [skipped |-> FALSE, value |-> v]
Fraction(n, d) == Scored((60 * n) \div d)

MatchesReason(e, r) == e.reasons = {} \/ \E x \in e.reasons : <<r, x>> \in Resembles \/ <<x, r>> \in Resembles
Matches(e, f) == f.object = e.object /\ MatchesReason(e, f.reason) /\ f.severity >= e.min
inScope(f) == f.place # "elsewhere"

matchesAny(e, findings) == \E i \in DOMAIN findings : inScope(findings[i]) /\ Matches(e, findings[i])
scoreCoverage(want, findings) == Fraction(Cardinality({e \in want : matchesAny(e, findings)}), Cardinality(want))

Coverage(want, report) ==
    IF want = {} THEN Skipped
    ELSE IF report = NoReport THEN Scored(0) ELSE scoreCoverage(want, report.findings)
Recall(s, run) == Coverage(Expect[s], run.report)
RootCause(s, run) == Coverage({e \in Expect[s] : e.root}, run.report)

SeverityDistance(s, run) ==
    IF WantSeverity[s] = NoSeverity THEN Skipped
    ELSE IF run.report = NoReport \/ run.report.severity = NoSeverity THEN Scored(0)
    ELSE Fraction(3 - Max({run.report.severity - WantSeverity[s], WantSeverity[s] - run.report.severity}), 3)

InjectedFamilies(s) == {Family[r] : r \in AlsoTrue[s] \cup UNION {e.reasons : e \in Expect[s]}} \ {Generic}

HallucinatedFault(s, run) ==
    IF run.report = NoReport THEN Scored(0)
    ELSE LET f == run.report.findings
             claimed == {i \in DOMAIN f : f[i].severity >= Warning /\ inScope(f[i]) /\ Family[f[i].reason] # Generic}
             bogus == {i \in claimed : Family[f[i].reason] \notin InjectedFamilies(s)} IN
         IF claimed = {} THEN Scored(60)
         ELSE Fraction(Cardinality(claimed) - Cardinality(bogus), Cardinality(claimed))

OracleRead(s, run) ==
    IF oracleKinds[s] = {} \/ run.report = NoReport THEN Skipped
    ELSE Scored(IF \E i \in DOMAIN run.report.findings : run.report.findings[i].object \in oracleKinds[s]
                THEN 0 ELSE 60)

Elapsed(from, to) == IF from = 0 \/ to = 0 \/ to < from THEN Skipped ELSE Scored(to - from)
TimeToDetect(s, run) == Elapsed(run.injectedAt, run.detectedAt)
TimeToRemediate(s, run) == Elapsed(run.injectedAt, run.clearedAt)

\* DefaultMeasures.
Measures == {"recall", "root_cause", "severity", "hallucinated_fault", "oracle_read", "time_to_detect",
             "time_to_remediate"}

\* A run whose injection failed is skipped wholesale.
ScoreRun(s, run) ==
    IF run.injectError
    THEN [m \in Measures |-> Skipped]
    ELSE [recall |-> Recall(s, run), root_cause |-> RootCause(s, run), severity |-> SeverityDistance(s, run),
          hallucinated_fault |-> HallucinatedFault(s, run), oracle_read |-> OracleRead(s, run),
          time_to_detect |-> TimeToDetect(s, run), time_to_remediate |-> TimeToRemediate(s, run)]

\* Summarize: what the mean of a measure is made of, and the efficacy rate.
Totals(joined, m) ==
    LET counted == {s \in Pack : ~ ScoreRun(s, joined[s])[m].skipped} IN
    [total |-> SumFunction([s \in counted |-> ScoreRun(s, joined[s])[m].value]),
     count |-> Cardinality(counted)]
EfficacyRate(joined) ==
    LET injectable == {s \in Pack : FaultCount[s] > 0} IN
    IF injectable = {} THEN 0
    ELSE (60 * Cardinality({s \in injectable : joined[s].manifested})) \div Cardinality(injectable)

Joined == [s \in Pack |-> Join(s)]
Finished == \A s \in Pack : reached[s] = "done"
Graded == {"recall", "root_cause", "severity", "hallucinated_fault"}

\* Type invariant: lines, the stages of runScenario, and the runs the runner keeps.
ScTypeOK ==
    /\ \A s \in Pack : \A i \in DOMAIN log[s] :
        log[s][i] \in [fault : 0 .. FaultCount[s], event : Events, passed : {"yes", "no", "absent"}]
    /\ reached \in [Pack -> {"new", "setup", "inject", "settling", "asking", "teardown", "done"}]
    /\ \A s \in Pack : fault[s] \in 1 .. Max({1, FaultCount[s]}) /\ gate[s] \in 1 .. Gates + 1
    /\ \A s \in Pack : landed[s] \in 0 .. Len(log[s])
    /\ \A s \in Pack :
        runs[s] \in [asked : BOOLEAN, report : Answers \cup {NoReport}, detectedAt : 0 .. Len(log[s]),
                     clearedAt : 0 .. Len(log[s]), teardown : BOOLEAN]

\* What the offline scorer reads out of the log is what happened: a
\* scenario whose subject was asked is graded, on a clock that starts with the last
\* gate of its last fault; a scenario with expectations that was not is skipped on
\* every measure, however far its faults came; and an arena left behind is told.
ScoredAsBroken ==
    Finished => \A s \in Pack :
        LET scores == ScoreRun(s, Join(s)) IN
        /\ runs[s].asked => /\ \E m \in Measures : ~ scores[m].skipped
                            /\ Join(s).injectedAt = landed[s]
                            /\ FaultCount[s] > 0 => ~ scores["time_to_detect"].skipped
        /\ ~ runs[s].asked /\ ~ IsControl(s) => \A m \in Measures : scores[m].skipped
        /\ Join(s).teardown = runs[s].teardown

\* A subject cannot raise the mean of a graded measure by producing no report on a
\* scenario it was asked about: the scenario stays in the mean, at no higher value.
CrashNeverPays ==
    Finished => \A s \in Pack, m \in Graded :
        LET answered == Totals(Joined, m)
            crashed  == Totals([Joined EXCEPT ![s].report = NoReport], m) IN
        crashed.count = answered.count /\ crashed.total <= answered.total

\* The harness's own failure is never scored: a scenario whose subject was never
\* asked is skipped on every measure and does not count as manifested.
NotCharged ==
    Finished => \A s \in Pack : ~ runs[s].asked =>
        /\ \A m \in Measures : ScoreRun(s, Join(s))[m].skipped
        /\ EfficacyRate(Joined) <= EfficacyRate([Joined EXCEPT ![s].manifested = FALSE])

\* The scorecard grades what happened, and no crash of the subject raises the mean of
\* a graded measure.
ScoresTrue == ScTypeOK /\ ScoredAsBroken /\ CrashNeverPays
=============================================================================
