--------------------------- MODULE HarnessProofs ----------------------------
(***************************************************************************)
(* Theorems about the scenario harness for any pack: first what its scorer *)
(* reads out of the audit log (Scorecard), then the harness itself, for    *)
(* any namespaces and any number of concurrent scenarios.                  *)
(***************************************************************************)
EXTENDS Harness, Scorecard, FoldProofs, SequenceTheorems, TLAPS

(***************************************************************************)
(* The log of one scenario, as a sequence.                                 *)
(***************************************************************************)
Stages == {"new", "setup", "inject", "settling", "asking", "teardown", "done"}
LinesOf(n) == [fault : 0 .. n, event : Events, passed : {"yes", "no", "absent"}]
RunRecords ==
    [asked : BOOLEAN, report : Answers \cup {NoReport}, detectedAt : Nat, clearedAt : Nat, teardown : BOOLEAN]

SeenIn(L) == {L[i].fault : i \in DOMAIN L} \ {0}
IsPass(x, f) == x.fault = f /\ x.event = "fault.efficacy" /\ x.passed = "yes"
IsProblem(x, f) ==
    /\ x.fault = f
    /\ \/ x.event \in {"executor.rejected", "driver.failed"}
       \/ x.event \in {"fault.efficacy", "fault.injected"} /\ x.passed # "yes"
PassesIn(L, f) == {i \in DOMAIN L : IsPass(L[i], f)}
ProblemIn(L, f) == \E i \in DOMAIN L : IsProblem(L[i], f)
LeakIn(L) == \E i \in DOMAIN L : L[i].event = "eval.arena_leaked"
Clean(L, f) == ~ ProblemIn(L, f) /\ PassesIn(L, f) # {}

\* One scenario of n faults: its lines tell exactly which of them landed.
Progress(L, st, k, g, ld, r, n) ==
    /\ st \in {"new", "setup"} => SeenIn(L) = {} /\ k = 1 /\ ~ r.asked
    /\ ~ r.asked => ld = 0
    /\ st \in {"inject", "settling"} => k <= n /\ ~ r.asked /\ \A f \in 1 .. k - 1 : Clean(L, f)
    /\ st = "inject" => SeenIn(L) = 1 .. k - 1
    /\ st = "settling" =>
          SeenIn(L) = 1 .. k /\ ~ ProblemIn(L, k) /\ g <= Gates /\ (g > 1 => PassesIn(L, k) # {})
    /\ st = "asking" => r.asked
    /\ r.asked =>
          /\ st \in {"asking", "teardown", "done"}
          /\ SeenIn(L) = 1 .. n /\ \A f \in 1 .. n : Clean(L, f) /\ \A i \in PassesIn(L, f) : i <= ld
          /\ n > 0 => ld \in PassesIn(L, n)
          /\ n = 0 => ld = 0
          /\ st \in {"teardown", "done"} => ld <= r.detectedAt
    /\ ~ r.asked /\ st \in {"teardown", "done"} => SeenIn(L) = {} \/ \E f \in SeenIn(L) : ProblemIn(L, f)
    /\ LeakIn(L) <=> r.teardown
    /\ r.teardown => st = "done"

Typed(L, st, k, g, ld, r, n) ==
    /\ n \in Nat /\ L \in Seq(LinesOf(n)) /\ st \in Stages /\ r \in RunRecords
    /\ k \in Nat \ {0} /\ (k > 1 => k <= n) /\ g \in 1 .. Gates + 1 /\ ld \in 0 .. Len(L)
    /\ r.detectedAt <= Len(L) /\ r.clearedAt <= Len(L)

ScenarioOK(L, st, k, g, ld, r, n) == Typed(L, st, k, g, ld, r, n) /\ Progress(L, st, k, g, ld, r, n)

ScInv ==
    /\ log \in [Pack -> Seq(UNION {LinesOf(n) : n \in Nat})] /\ reached \in [Pack -> Stages] /\ fault \in [Pack -> Nat]
    /\ gate \in [Pack -> Nat] /\ landed \in [Pack -> Nat] /\ runs \in [Pack -> RunRecords]
    /\ \A s \in Pack : ScenarioOK(log[s], reached[s], fault[s], gate[s], landed[s], runs[s], FaultCount[s])

\* One more line changes what it says itself and nothing else.
Grown(L, M, x, n) ==
    /\ M \in Seq(LinesOf(n)) /\ Len(M) = Len(L) + 1 /\ Len(L) \in Nat
    /\ SeenIn(M) = SeenIn(L) \cup ({x.fault} \ {0})
    /\ \A f : PassesIn(M, f) = PassesIn(L, f) \cup (IF IsPass(x, f) THEN {Len(L) + 1} ELSE {})
    /\ \A f : ProblemIn(M, f) <=> ProblemIn(L, f) \/ IsProblem(x, f)
    /\ LeakIn(M) <=> LeakIn(L) \/ x.event = "eval.arena_leaked"

LEMMA OneMore ==
    ASSUME NEW n \in Nat, NEW L \in Seq(LinesOf(n)), NEW x \in LinesOf(n)
    PROVE  Grown(L, Append(L, x), x, n)
<1> DEFINE M == Append(L, x)
<1>1. M \in Seq(LinesOf(n)) /\ Len(M) = Len(L) + 1 /\ Len(L) \in Nat
  OBVIOUS
<1>2. /\ DOMAIN L = 1 .. Len(L) /\ DOMAIN M = DOMAIN L \cup {Len(L) + 1} /\ M[Len(L) + 1] = x
      /\ \A i \in DOMAIN L : M[i] = L[i]
  OBVIOUS
<1> HIDE DEF M
<1>3. SeenIn(M) = SeenIn(L) \cup ({x.fault} \ {0})
  BY <1>2 DEF SeenIn
<1>4. \A f : PassesIn(M, f) = PassesIn(L, f) \cup (IF IsPass(x, f) THEN {Len(L) + 1} ELSE {})
  BY <1>2 DEF PassesIn
<1>5. \A f : ProblemIn(M, f) <=> ProblemIn(L, f) \/ IsProblem(x, f)
  BY <1>2 DEF ProblemIn
<1>6. LeakIn(M) <=> LeakIn(L) \/ x.event = "eval.arena_leaked"
  BY <1>2 DEF LeakIn
<1>7. Grown(L, M, x, n)
  BY <1>1, <1>3, <1>4, <1>5, <1>6 DEF Grown
<1> QED
  BY <1>7 DEF M

LEMMA AppendIs ==
    ASSUME NEW S, NEW M \in Seq(S), NEW y \in S
    PROVE  M \o <<y>> = Append(M, y)
OBVIOUS

LEMMA Paired ==
    ASSUME NEW n, NEW x \in LinesOf(n), NEW y \in LinesOf(n)
    PROVE  <<x>> \o <<y>> = <<x, y>> /\ <<x>> \in Seq(LinesOf(n)) /\ <<y>> \in Seq(LinesOf(n))
<1>1. <<x>> \in Seq(LinesOf(n)) /\ <<y>> \in Seq(LinesOf(n))
  OBVIOUS
<1>2. <<x>> \o <<y>> = Append(<<x>>, y)
  BY <1>1, AppendIs
<1>3. Append(<<x>>, y) = <<x, y>>
  <2>1. Append(<<x>>, y) \in Seq(LinesOf(n)) /\ Len(Append(<<x>>, y)) = 2
    BY <1>1
  <2>2. <<x, y>> \in Seq(LinesOf(n)) /\ Len(<<x, y>>) = 2
    OBVIOUS
  <2>3. \A i \in 1 .. 2 : Append(<<x>>, y)[i] = <<x, y>>[i]
    BY <1>1
  <2> QED
    BY <2>1, <2>2, <2>3, SeqEqual
<1> QED
  BY <1>1, <1>2, <1>3

\* The lines of one step are written one after the other.
LEMMA Written ==
    ASSUME NEW n \in Nat, NEW L \in Seq(LinesOf(n)), NEW x \in LinesOf(n), NEW y \in LinesOf(n)
    PROVE  /\ Grown(L, L \o <<x>>, x, n)
           /\ \E A \in Seq(LinesOf(n)) : Grown(L, A, x, n) /\ Grown(A, L \o <<x, y>>, y, n)
<1>1. L \o <<x>> = Append(L, x)
  BY AppendIs
<1>2. <<x>> \o <<y>> = <<x, y>> /\ <<x>> \in Seq(LinesOf(n)) /\ <<y>> \in Seq(LinesOf(n))
  BY Paired
<1>3. (L \o <<x>>) \o <<y>> = L \o (<<x>> \o <<y>>)
  BY <1>2
<1>4. Append(L, x) \in Seq(LinesOf(n))
  OBVIOUS
<1>5. Append(L, x) \o <<y>> = Append(Append(L, x), y)
  BY <1>4, AppendIs
<1>6. Grown(L, Append(L, x), x, n) /\ Grown(Append(L, x), Append(Append(L, x), y), y, n)
  BY <1>4, OneMore
<1> QED
  BY <1>1, <1>2, <1>3, <1>4, <1>5, <1>6

\* A step about one scenario.
LEMMA OneMoves ==
    ASSUME ScInv, NEW s \in Pack, NEW L, NEW st, NEW k, NEW g, NEW ld, NEW r,
           ScenarioOK(L, st, k, g, ld, r, FaultCount[s]),
           log' = [log EXCEPT ![s] = L], reached' = [reached EXCEPT ![s] = st], fault' = [fault EXCEPT ![s] = k],
           gate' = [gate EXCEPT ![s] = g], landed' = [landed EXCEPT ![s] = ld], runs' = [runs EXCEPT ![s] = r]
    PROVE  ScInv'
<1>1. st \in Stages /\ k \in Nat /\ g \in Nat /\ ld \in Nat /\ r \in RunRecords /\ L \in Seq(UNION {LinesOf(n) : n \in Nat})
  <2>1. L \in Seq(LinesOf(FaultCount[s])) /\ FaultCount[s] \in Nat
    BY DEF ScenarioOK, Typed
  <2>2. L \in Seq(UNION {LinesOf(n) : n \in Nat})
    <3>1. \A i \in 1 .. Len(L) : L[i] \in UNION {LinesOf(n) : n \in Nat}
      BY <2>1
    <3> QED
      BY <2>1, <3>1
  <2>3. Gates \in Nat /\ Len(L) \in Nat
    BY <2>1, ScoreAssumption
  <2> QED
    BY <2>2, <2>3 DEF ScenarioOK, Typed
<1>2. /\ log' \in [Pack -> Seq(UNION {LinesOf(n) : n \in Nat})] /\ reached' \in [Pack -> Stages]
      /\ fault' \in [Pack -> Nat] /\ gate' \in [Pack -> Nat] /\ landed' \in [Pack -> Nat]
      /\ runs' \in [Pack -> RunRecords]
  BY <1>1 DEF ScInv
<1>3. \A t \in Pack :
         ScenarioOK(log'[t], reached'[t], fault'[t], gate'[t], landed'[t], runs'[t], FaultCount[t])
  <2> SUFFICES ASSUME NEW t \in Pack
               PROVE  ScenarioOK(log'[t], reached'[t], fault'[t], gate'[t], landed'[t], runs'[t], FaultCount[t])
    OBVIOUS
  <2>1. CASE t = s
    <3>1. log'[t] = L /\ reached'[t] = st /\ fault'[t] = k /\ gate'[t] = g /\ landed'[t] = ld /\ runs'[t] = r
      BY <2>1 DEF ScInv
    <3> QED
      BY <3>1, <2>1
  <2>2. CASE t # s
    <3>1. /\ log'[t] = log[t] /\ reached'[t] = reached[t] /\ fault'[t] = fault[t]
          /\ gate'[t] = gate[t] /\ landed'[t] = landed[t] /\ runs'[t] = runs[t]
      BY <2>2 DEF ScInv
    <3> QED
      BY <3>1 DEF ScInv
  <2> QED
    BY <2>1, <2>2
<1> QED
  BY <1>2, <1>3 DEF ScInv

\* The lines that are written, by scenario or by fault.
LEMMA LineFacts ==
    ASSUME NEW n \in Nat, NEW k \in 0 .. n, NEW e \in Events, NEW p \in {"yes", "no", "absent"}
    PROVE  /\ Line(k, e, p) \in LinesOf(n) /\ Line(k, e, p).fault = k /\ Line(k, e, p).event = e
           /\ \A f : IsPass(Line(k, e, p), f) <=> k = f /\ e = "fault.efficacy" /\ p = "yes"
           /\ \A f : IsProblem(Line(k, e, p), f) <=>
                k = f /\ (\/ e \in {"executor.rejected", "driver.failed"}
                          \/ e \in {"fault.efficacy", "fault.injected"} /\ p # "yes")
BY DEF Line, LinesOf, IsPass, IsProblem

\* The steps that write nothing.
LEMMA SilentSteps ==
    ASSUME ScInv, NEW s \in Pack, ProvisioningFails(s) \/ Provisioned(s) \/ Investigated(s)
    PROVE  ScInv'
<1> DEFINE n == FaultCount[s]
           L == log[s]
           r == runs[s]
           k == fault[s]
           ld == landed[s]
<1>1. Typed(L, reached[s], k, gate[s], ld, r, n) /\ Progress(L, reached[s], k, gate[s], ld, r, n)
  BY DEF ScInv, ScenarioOK
<1>2. /\ log' = [log EXCEPT ![s] = L] /\ fault' = [fault EXCEPT ![s] = k]
      /\ gate' = [gate EXCEPT ![s] = gate[s]] /\ landed' = [landed EXCEPT ![s] = ld]
  BY DEF ScInv, ProvisioningFails, Provisioned, Investigated
<1>3. CASE ProvisioningFails(s)
  <2>1. reached[s] = "setup" /\ reached' = [reached EXCEPT ![s] = "teardown"] /\ runs' = [runs EXCEPT ![s] = r]
    BY <1>3 DEF ScInv, ProvisioningFails, Moves
  <2>2. ScenarioOK(L, "teardown", k, gate[s], ld, r, n)
    BY <1>1, <2>1 DEF ScenarioOK, Typed, Progress, Stages
  <2> QED
    BY <1>2, <2>1, <2>2, OneMoves
<1>4. CASE Provisioned(s)
  <2> DEFINE st == IF n = 0 THEN "asking" ELSE "inject"
             q == [r EXCEPT !.asked = (n = 0)]
  <2>1. reached[s] = "setup" /\ reached' = [reached EXCEPT ![s] = st] /\ runs' = [runs EXCEPT ![s] = q]
    BY <1>4 DEF ScInv, Provisioned, Moves
  <2>2. /\ q \in RunRecords /\ (q.asked <=> n = 0) /\ q.detectedAt = r.detectedAt /\ q.clearedAt = r.clearedAt
        /\ q.teardown = r.teardown
    BY <1>1 DEF Typed, RunRecords
  <2> HIDE DEF q
  <2>3. ScenarioOK(L, st, k, gate[s], ld, q, n)
    <3>1. Typed(L, st, k, gate[s], ld, q, n)
      BY <1>1, <2>2 DEF Typed, Stages
    <3>2. SeenIn(L) = {} /\ k = 1 /\ ld = 0 /\ ~ r.asked /\ ~ r.teardown /\ (LeakIn(L) <=> r.teardown) /\ n \in Nat
      BY <1>1, <2>1 DEF Progress, Typed
    <3>3. 1 .. k - 1 = {} /\ 1 .. 0 = {}
      BY <3>2
    <3>4. CASE n = 0
      <4>1. q.asked /\ ~ q.teardown /\ ~ LeakIn(L) /\ SeenIn(L) = 1 .. n /\ st = "asking" /\ 1 .. n = {}
        BY <3>2, <3>3, <3>4, <2>2
      <4> QED
        BY <3>1, <3>2, <3>4, <4>1 DEF ScenarioOK, Progress
    <3>5. CASE n # 0
      <4>1. ~ q.asked /\ ~ q.teardown /\ ~ LeakIn(L) /\ SeenIn(L) = 1 .. k - 1 /\ st = "inject" /\ k <= n
            /\ 1 .. k - 1 = {}
        BY <3>2, <3>3, <3>5, <2>2
      <4> QED
        BY <3>1, <3>2, <4>1 DEF ScenarioOK, Progress
    <3> QED
      BY <3>1, <3>4, <3>5 DEF ScenarioOK
  <2> QED
    BY <1>2, <2>1, <2>3, OneMoves
<1>5. CASE Investigated(s)
  <2>1. PICK a \in Answers \cup {NoReport}, cleared \in BOOLEAN :
           runs' = [runs EXCEPT ![s].report = a, ![s].detectedAt = Len(L),
                                ![s].clearedAt = IF cleared /\ n > 0 THEN Len(L) ELSE 0]
    BY <1>5 DEF Investigated
  <2>0. PICK c : c = IF cleared /\ n > 0 THEN Len(L) ELSE 0
    OBVIOUS
  <2> DEFINE q == [r EXCEPT !.report = a, !.detectedAt = Len(L), !.clearedAt = c]
  <2>2. reached[s] = "asking" /\ reached' = [reached EXCEPT ![s] = "teardown"]
    BY <1>5 DEF Investigated, Moves
  <2>3. Len(L) \in Nat /\ r \in RunRecords
    BY <1>1 DEF Typed
  <2>4. runs' = [runs EXCEPT ![s] = q]
    <3>1. DOMAIN runs = Pack /\ runs = [t \in Pack |-> runs[t]]
      BY DEF ScInv
    <3>2. runs' = [t \in Pack |-> IF t = s THEN q ELSE runs[t]]
      BY <2>1, <2>0, <3>1
    <3> QED
      BY <3>1, <3>2
  <2>5. q \in RunRecords /\ (q.asked <=> r.asked) /\ (q.teardown <=> r.teardown) /\ q.detectedAt = Len(L)
        /\ q.clearedAt \in 0 .. Len(L)
    <3>1. c \in Nat /\ c \in 0 .. Len(L)
      BY <2>0, <2>3
    <3>2. q \in RunRecords
      BY <2>3, <3>1 DEF RunRecords
    <3>3. (q.asked <=> r.asked) /\ (q.teardown <=> r.teardown)
      BY <2>3 DEF RunRecords
    <3>4. q.detectedAt = Len(L) /\ q.clearedAt = c
      BY <2>3 DEF RunRecords
    <3> QED
      BY <3>1, <3>2, <3>3, <3>4
  <2> HIDE DEF q
  <2>6. Typed(L, "teardown", k, gate[s], ld, q, n)
    BY <1>1, <2>3, <2>5 DEF Typed, Stages
  <2>7. Progress(L, "teardown", k, gate[s], ld, q, n)
    BY <1>1, <2>2, <2>3, <2>5 DEF Progress, Typed
  <2> QED
    BY <1>2, <2>2, <2>4, <2>6, <2>7, OneMoves DEF ScenarioOK
<1> QED
  BY <1>3, <1>4, <1>5

LEMMA PlainFacts ==
    ASSUME NEW n \in Nat, NEW k \in 0 .. n, NEW e \in Events
    PROVE  /\ Plain(k, e) \in LinesOf(n) /\ Plain(k, e).fault = k /\ Plain(k, e).event = e
           /\ \A f : ~ IsPass(Plain(k, e), f)
           /\ \A f : IsProblem(Plain(k, e), f) <=>
                k = f /\ e \in {"executor.rejected", "driver.failed", "fault.efficacy", "fault.injected"}
BY DEF Plain, Line, LinesOf, IsPass, IsProblem

LEMMA TypedGrows ==
    ASSUME NEW L, NEW M, NEW st, NEW q, NEW k, NEW g, NEW h, NEW ld, NEW r, NEW n,
           Typed(L, st, k, g, ld, r, n), M \in Seq(LinesOf(n)), Len(L) <= Len(M), q \in Stages, h \in 1 .. Gates + 1
    PROVE  Typed(M, q, k, h, ld, r, n)
<1>1. Len(L) \in Nat /\ Len(M) \in Nat /\ r.detectedAt \in Nat /\ r.clearedAt \in Nat
  BY DEF Typed, RunRecords
<1> QED
  BY <1>1 DEF Typed

LEMMA StartedKeeps ==
    ASSUME ScInv, NEW s \in Pack, Started(s)
    PROVE  ScInv'
<1> DEFINE n == FaultCount[s]
           L == log[s]
           r == runs[s]
           k == fault[s]
           ld == landed[s]
           x == Plain(0, "eval.scenario_started")
           M == L \o <<x>>
<1>1. Typed(L, reached[s], k, gate[s], ld, r, n) /\ Progress(L, reached[s], k, gate[s], ld, r, n)
  BY DEF ScInv, ScenarioOK
<1>2. n \in Nat /\ L \in Seq(LinesOf(n))
  BY <1>1 DEF Typed
<1>3. x \in LinesOf(n) /\ x.fault = 0 /\ x.event = "eval.scenario_started"
  BY <1>2, PlainFacts DEF Events
<1>6. /\ reached[s] = "new" /\ log' = [log EXCEPT ![s] = M] /\ reached' = [reached EXCEPT ![s] = "setup"]
      /\ fault' = [fault EXCEPT ![s] = k] /\ gate' = [gate EXCEPT ![s] = gate[s]]
      /\ landed' = [landed EXCEPT ![s] = ld] /\ runs' = [runs EXCEPT ![s] = r]
  BY DEF ScInv, Started, Moves, Writes
<1> HIDE DEF x
<1>5. Grown(L, M, x, n)
  BY <1>2, <1>3, Written
<1> HIDE DEF M
<1>4. M \in Seq(LinesOf(n)) /\ Len(M) = Len(L) + 1 /\ Len(L) \in Nat /\ SeenIn(M) = SeenIn(L)
      /\ (LeakIn(M) <=> LeakIn(L))
  BY <1>3, <1>5 DEF Grown
<1>7. Typed(M, "setup", k, gate[s], ld, r, n)
  <2>1. Len(L) <= Len(M) /\ gate[s] \in 1 .. Gates + 1
    BY <1>1, <1>4 DEF Typed
  <2> QED
    BY <1>1, <1>4, <2>1, TypedGrows DEF Stages
<1>8. Progress(M, "setup", k, gate[s], ld, r, n)
  BY <1>1, <1>4, <1>6 DEF Progress
<1> QED
  BY <1>6, <1>7, <1>8, OneMoves DEF ScenarioOK

LEMMA RefusedKeeps ==
    ASSUME ScInv, NEW s \in Pack, Refused(s)
    PROVE  ScInv'
<1> DEFINE n == FaultCount[s]
           L == log[s]
           r == runs[s]
           k == fault[s]
           ld == landed[s]
<1>1. Typed(L, reached[s], k, gate[s], ld, r, n) /\ Progress(L, reached[s], k, gate[s], ld, r, n)
  BY DEF ScInv, ScenarioOK
<1>2. n \in Nat /\ L \in Seq(LinesOf(n)) /\ reached[s] = "inject" /\ k \in 1 .. n
  BY <1>1 DEF Typed, Progress, Refused
<1>3. PICK e \in {"executor.rejected", "driver.failed"} :
         Writes(s, <<Plain(k, "executor.received"), Plain(k, e)>>)
  BY DEF Refused
<1> DEFINE x == Plain(k, "executor.received")
           y == Plain(k, e)
           M == L \o <<x, y>>
<1>4. /\ x \in LinesOf(n) /\ y \in LinesOf(n) /\ y.fault = k /\ x.fault = k /\ IsProblem(y, k)
      /\ x.event # "eval.arena_leaked" /\ y.event # "eval.arena_leaked"
  <2>1. k \in 0 .. n /\ e \in Events /\ "executor.received" \in Events
    BY <1>2 DEF Events
  <2> QED
    BY <1>2, <2>1, PlainFacts
<1>7. /\ log' = [log EXCEPT ![s] = M] /\ reached' = [reached EXCEPT ![s] = "teardown"]
      /\ fault' = [fault EXCEPT ![s] = k] /\ gate' = [gate EXCEPT ![s] = gate[s]]
      /\ landed' = [landed EXCEPT ![s] = ld] /\ runs' = [runs EXCEPT ![s] = r]
  BY <1>3 DEF ScInv, Refused, Moves, Writes
<1> HIDE DEF x, y
<1>6. PICK A \in Seq(LinesOf(n)) : Grown(L, A, x, n) /\ Grown(A, M, y, n)
  BY <1>2, <1>4, Written
<1> HIDE DEF M
<1>5. /\ M \in Seq(LinesOf(n)) /\ Len(M) = Len(L) + 2 /\ Len(L) \in Nat
      /\ k \in SeenIn(M) /\ ProblemIn(M, k) /\ (LeakIn(M) <=> LeakIn(L))
  BY <1>2, <1>4, <1>6 DEF Grown
<1>8. Typed(M, "teardown", k, gate[s], ld, r, n)
  <2>1. Len(L) <= Len(M) /\ gate[s] \in 1 .. Gates + 1
    BY <1>1, <1>5 DEF Typed
  <2> QED
    BY <1>1, <1>5, <2>1, TypedGrows DEF Stages
<1>9. Progress(M, "teardown", k, gate[s], ld, r, n)
  <2>1. ~ r.asked /\ ld = 0 /\ ~ r.teardown /\ ~ LeakIn(L)
    BY <1>1, <1>2 DEF Progress
  <2> QED
    BY <2>1, <1>5 DEF Progress
<1> QED
  BY <1>7, <1>8, <1>9, OneMoves DEF ScenarioOK

LEMMA AppliedKeeps ==
    ASSUME ScInv, NEW s \in Pack, Applied(s)
    PROVE  ScInv'
<1> DEFINE n == FaultCount[s]
           L == log[s]
           r == runs[s]
           k == fault[s]
           ld == landed[s]
           x == Plain(k, "executor.received")
           y == Plain(k, "driver.applied")
           M == L \o <<x, y>>
<1>1. Typed(L, reached[s], k, gate[s], ld, r, n) /\ Progress(L, reached[s], k, gate[s], ld, r, n)
  BY DEF ScInv, ScenarioOK
<1>2. n \in Nat /\ L \in Seq(LinesOf(n)) /\ reached[s] = "inject" /\ k \in 1 .. n
  BY <1>1 DEF Typed, Progress, Applied
<1>4. /\ x \in LinesOf(n) /\ y \in LinesOf(n) /\ y.fault = k /\ x.fault = k
      /\ x.event # "eval.arena_leaked" /\ y.event # "eval.arena_leaked"
      /\ \A f : ~ IsProblem(x, f) /\ ~ IsProblem(y, f) /\ ~ IsPass(x, f) /\ ~ IsPass(y, f)
  <2>1. k \in 0 .. n /\ "driver.applied" \in Events /\ "executor.received" \in Events
    BY <1>2 DEF Events
  <2>2. /\ x \in LinesOf(n) /\ x.fault = k /\ x.event = "executor.received"
        /\ \A f : ~ IsPass(x, f) /\ ~ IsProblem(x, f)
    BY <1>2, <2>1, PlainFacts
  <2>3. /\ y \in LinesOf(n) /\ y.fault = k /\ y.event = "driver.applied"
        /\ \A f : ~ IsPass(y, f) /\ ~ IsProblem(y, f)
    BY <1>2, <2>1, PlainFacts
  <2> QED
    BY <2>2, <2>3
<1>7. /\ log' = [log EXCEPT ![s] = M] /\ reached' = [reached EXCEPT ![s] = "settling"]
      /\ fault' = [fault EXCEPT ![s] = k] /\ gate' = [gate EXCEPT ![s] = 1]
      /\ landed' = [landed EXCEPT ![s] = ld] /\ runs' = [runs EXCEPT ![s] = r]
  BY DEF ScInv, Applied, Moves, Writes
<1> HIDE DEF x, y
<1>6. PICK A \in Seq(LinesOf(n)) : Grown(L, A, x, n) /\ Grown(A, M, y, n)
  BY <1>2, <1>4, Written
<1> HIDE DEF M
<1>5. /\ M \in Seq(LinesOf(n)) /\ Len(M) = Len(L) + 2 /\ Len(L) \in Nat
      /\ SeenIn(M) = SeenIn(L) \cup {k} /\ (LeakIn(M) <=> LeakIn(L))
      /\ \A f : PassesIn(M, f) = PassesIn(L, f) /\ (ProblemIn(M, f) <=> ProblemIn(L, f))
  <2>1. \A f : PassesIn(M, f) = PassesIn(L, f) /\ (ProblemIn(M, f) <=> ProblemIn(L, f))
    BY <1>4, <1>6, ZenonT(30) DEF Grown
  <2> QED
    BY <2>1, <1>2, <1>4, <1>6 DEF Grown
<1>8. Typed(M, "settling", k, 1, ld, r, n)
  <2>1. 1 \in 1 .. Gates + 1 /\ Len(L) <= Len(M)
    BY <1>5, ScoreAssumption
  <2> QED
    BY <1>1, <1>5, <2>1, TypedGrows DEF Stages
<1>9. Progress(M, "settling", k, 1, ld, r, n)
  <2>1. ~ r.asked /\ ld = 0 /\ ~ r.teardown /\ ~ LeakIn(L) /\ SeenIn(L) = 1 .. k - 1
        /\ \A f \in 1 .. k - 1 : Clean(L, f)
    BY <1>1, <1>2 DEF Progress
  <2>5. 1 <= Gates
    BY ScoreAssumption
  <2>2. SeenIn(M) = 1 .. k
    BY <2>1, <1>2, <1>5
  <2>3. \A f \in 1 .. k - 1 : Clean(M, f)
    BY <2>1, <1>5 DEF Clean
  <2>4. ~ ProblemIn(M, k)
    <3>1. SeenIn(L) = 1 .. k - 1 /\ k \notin SeenIn(L) /\ k # 0
      BY <2>1, <1>2
    <3>2. \A i \in DOMAIN L : L[i].fault # k
      BY <3>1 DEF SeenIn
    <3> QED
      BY <3>2, <1>5 DEF ProblemIn, IsProblem
  <2> QED
    BY <2>1, <2>2, <2>3, <2>4, <2>5, <1>2, <1>5 DEF Progress
<1> QED
  BY <1>7, <1>8, <1>9, OneMoves DEF ScenarioOK

LEMMA AbandonedKeeps ==
    ASSUME ScInv, NEW s \in Pack, Abandoned(s)
    PROVE  ScInv'
<1> DEFINE n == FaultCount[s]
           L == log[s]
           r == runs[s]
           k == fault[s]
           ld == landed[s]
<1>1. Typed(L, reached[s], k, gate[s], ld, r, n) /\ Progress(L, reached[s], k, gate[s], ld, r, n)
  BY DEF ScInv, ScenarioOK
<1>2. n \in Nat /\ L \in Seq(LinesOf(n)) /\ reached[s] = "settling" /\ k \in 1 .. n
  BY <1>1 DEF Typed, Progress, Abandoned
<1>3. PICK x \in {Line(k, "fault.injected", "no"), Line(k, "fault.efficacy", "no"),
                  Line(k, "fault.efficacy", "absent")} :
         Writes(s, <<x, Plain(k, "lease.cleared")>>)
  BY DEF Abandoned
<1> DEFINE y == Plain(k, "lease.cleared")
           M == L \o <<x, y>>
<1>4. /\ x \in LinesOf(n) /\ y \in LinesOf(n) /\ y.fault = k /\ x.fault = k /\ IsProblem(x, k)
      /\ x.event # "eval.arena_leaked" /\ y.event # "eval.arena_leaked"
  <2>1. k \in 0 .. n /\ "lease.cleared" \in Events /\ "fault.injected" \in Events /\ "fault.efficacy" \in Events
    BY <1>2 DEF Events
  <2>2. x \in LinesOf(n) /\ x.fault = k /\ IsProblem(x, k) /\ x.event # "eval.arena_leaked"
    BY <1>2, <1>3, <2>1, LineFacts
  <2>3. y \in LinesOf(n) /\ y.fault = k /\ y.event # "eval.arena_leaked"
    BY <1>2, <2>1, PlainFacts
  <2> QED
    BY <2>2, <2>3
<1>7. /\ log' = [log EXCEPT ![s] = M] /\ reached' = [reached EXCEPT ![s] = "teardown"]
      /\ fault' = [fault EXCEPT ![s] = k] /\ gate' = [gate EXCEPT ![s] = gate[s]]
      /\ landed' = [landed EXCEPT ![s] = ld] /\ runs' = [runs EXCEPT ![s] = r]
  BY <1>3 DEF ScInv, Abandoned, Moves, Writes
<1> HIDE DEF y
<1>6. PICK A \in Seq(LinesOf(n)) : Grown(L, A, x, n) /\ Grown(A, M, y, n)
  BY <1>2, <1>4, Written
<1> HIDE DEF M
<1>5. /\ M \in Seq(LinesOf(n)) /\ Len(M) = Len(L) + 2 /\ Len(L) \in Nat
      /\ k \in SeenIn(M) /\ ProblemIn(M, k) /\ (LeakIn(M) <=> LeakIn(L))
  BY <1>2, <1>4, <1>6 DEF Grown
<1>8. Typed(M, "teardown", k, gate[s], ld, r, n)
  <2>1. Len(L) <= Len(M) /\ gate[s] \in 1 .. Gates + 1
    BY <1>1, <1>5 DEF Typed
  <2> QED
    BY <1>1, <1>5, <2>1, TypedGrows DEF Stages
<1>9. Progress(M, "teardown", k, gate[s], ld, r, n)
  <2>1. ~ r.asked /\ ld = 0 /\ ~ r.teardown /\ ~ LeakIn(L)
    BY <1>1, <1>2 DEF Progress
  <2> QED
    BY <2>1, <1>5 DEF Progress
<1> QED
  BY <1>7, <1>8, <1>9, OneMoves DEF ScenarioOK

LEMMA GatePassedKeeps ==
    ASSUME ScInv, NEW s \in Pack, GatePassed(s)
    PROVE  ScInv'
<1> DEFINE n == FaultCount[s]
           L == log[s]
           r == runs[s]
           k == fault[s]
           g == gate[s]
           ld == landed[s]
           x == Line(k, "fault.efficacy", "yes")
           M == L \o <<x>>
           last == g = Gates
           all == last /\ k = n
           q == [r EXCEPT !.asked = all]
           st == IF all THEN "asking" ELSE IF last THEN "inject" ELSE "settling"
           j == IF last /\ ~ all THEN k + 1 ELSE k
<1>1. Typed(L, reached[s], k, g, ld, r, n) /\ Progress(L, reached[s], k, g, ld, r, n)
  BY DEF ScInv, ScenarioOK
<1>2. /\ n \in Nat /\ L \in Seq(LinesOf(n)) /\ reached[s] = "settling" /\ k \in 1 .. n
      /\ g \in 1 .. Gates /\ Gates \in Nat
  BY <1>1, ScoreAssumption DEF Typed, Progress, GatePassed
<1>3. /\ x \in LinesOf(n) /\ x.fault = k /\ x.event # "eval.arena_leaked"
      /\ \A f : IsPass(x, f) <=> k = f
      /\ \A f : ~ IsProblem(x, f)
  <2>1. k \in 0 .. n /\ "fault.efficacy" \in Events
    BY <1>2 DEF Events
  <2> QED
    BY <1>2, <2>1, LineFacts
<1>4. Grown(L, M, x, n)
  BY <1>2, <1>3, Written
<1> HIDE DEF x
<1>5. log' = [log EXCEPT ![s] = M] /\ log'[s] = M
  BY DEF ScInv, GatePassed, Writes, x
<1> HIDE DEF M
<1>6. /\ reached' = [reached EXCEPT ![s] = st] /\ fault' = [fault EXCEPT ![s] = j]
      /\ gate' = [gate EXCEPT ![s] = g + 1]
      /\ landed' = [landed EXCEPT ![s] = IF all THEN Len(M) ELSE 0] /\ runs' = [runs EXCEPT ![s] = q]
  BY <1>5 DEF ScInv, GatePassed, Moves
<1>7. /\ M \in Seq(LinesOf(n)) /\ Len(M) = Len(L) + 1 /\ Len(L) \in Nat
      /\ SeenIn(M) = SeenIn(L) \cup {k} /\ (LeakIn(M) <=> LeakIn(L))
      /\ \A f : f # k => PassesIn(M, f) = PassesIn(L, f)
      /\ PassesIn(M, k) = PassesIn(L, k) \cup {Len(M)}
      /\ \A f : ProblemIn(M, f) <=> ProblemIn(L, f)
  <2>1. \A f : f # k => PassesIn(M, f) = PassesIn(L, f)
    BY <1>3, <1>4 DEF Grown
  <2>2. PassesIn(M, k) = PassesIn(L, k) \cup {Len(M)}
    BY <1>3, <1>4 DEF Grown
  <2>3. \A f : ProblemIn(M, f) <=> ProblemIn(L, f)
    BY <1>3, <1>4 DEF Grown
  <2>4. M \in Seq(LinesOf(n)) /\ Len(M) = Len(L) + 1 /\ Len(L) \in Nat
        /\ SeenIn(M) = SeenIn(L) \cup {k} /\ (LeakIn(M) <=> LeakIn(L))
    BY <1>2, <1>3, <1>4 DEF Grown
  <2> QED
    BY <2>1, <2>2, <2>3, <2>4
<1>8. /\ ~ r.asked /\ ld = 0 /\ ~ r.teardown /\ ~ LeakIn(L) /\ SeenIn(L) = 1 .. k /\ ~ ProblemIn(L, k)
      /\ \A f \in 1 .. k - 1 : Clean(L, f)
  BY <1>1, <1>2 DEF Progress
<1>9. SeenIn(M) = 1 .. k /\ \A f \in 1 .. k : Clean(M, f)
  <2>1. SeenIn(M) = 1 .. k
    BY <1>2, <1>7, <1>8
  <2>2. Clean(M, k)
    BY <1>7, <1>8 DEF Clean
  <2>3. \A f \in 1 .. k - 1 : Clean(M, f)
    BY <1>2, <1>7, <1>8 DEF Clean
  <2>4. \A f \in 1 .. k : f = k \/ f \in 1 .. k - 1
    BY <1>2
  <2> QED
    BY <2>1, <2>2, <2>3, <2>4
<1>10. /\ q \in RunRecords /\ (q.asked <=> all) /\ q.detectedAt = r.detectedAt /\ q.clearedAt = r.clearedAt
       /\ (q.teardown <=> r.teardown)
  <2>1. r \in RunRecords
    BY <1>1 DEF Typed
  <2> QED
    BY <2>1 DEF RunRecords
<1> HIDE DEF q
<1>11. Typed(M, st, j, g + 1, IF all THEN Len(M) ELSE 0, q, n)
  <2>1. q.detectedAt <= Len(M) /\ q.clearedAt <= Len(M)
    BY <1>1, <1>7, <1>10 DEF Typed, RunRecords
  <2>2. j \in Nat \ {0} /\ (j > 1 => j <= n) /\ g + 1 \in 1 .. Gates + 1
    BY <1>2
  <2>3. (IF all THEN Len(M) ELSE 0) \in 0 .. Len(M)
    BY <1>7
  <2>4. st \in Stages
    BY DEF Stages
  <2> QED
    BY <1>2, <1>7, <1>10, <2>1, <2>2, <2>3, <2>4 DEF Typed
<1>12. Progress(M, st, j, g + 1, IF all THEN Len(M) ELSE 0, q, n)
  <2>1. CASE all
    <3>1. st = "asking" /\ k = n /\ q.asked /\ ~ q.teardown /\ ~ LeakIn(M) /\ SeenIn(M) = 1 .. n /\ n > 0
      BY <2>1, <1>2, <1>7, <1>8, <1>9, <1>10
    <3>2. \A f \in 1 .. n : Clean(M, f) /\ \A i \in PassesIn(M, f) : i <= Len(M)
      <4>1. \A f : \A i \in PassesIn(M, f) : i <= Len(M)
        <5>1. DOMAIN M = 1 .. Len(M)
          BY <1>7
        <5> QED
          BY <5>1 DEF PassesIn
      <4> QED
        BY <4>1, <3>1, <1>9
    <3>3. Len(M) \in PassesIn(M, n)
      BY <1>7, <3>1
    <3> QED
      BY <2>1, <3>1, <3>2, <3>3 DEF Progress
  <2>2. CASE last /\ ~ all
    <3>1. st = "inject" /\ j = k + 1 /\ ~ q.asked /\ ~ q.teardown /\ ~ LeakIn(M) /\ j <= n /\ j - 1 = k
      BY <2>2, <1>2, <1>7, <1>8, <1>10
    <3> QED
      BY <2>2, <3>1, <1>9 DEF Progress
  <2>3. CASE ~ last
    <3>1. st = "settling" /\ j = k /\ ~ q.asked /\ ~ q.teardown /\ ~ LeakIn(M) /\ j <= n /\ g + 1 <= Gates /\ ~ all
      BY <2>3, <1>2, <1>7, <1>8, <1>10
    <3>2. ~ ProblemIn(M, k) /\ PassesIn(M, k) # {}
      BY <1>7, <1>8
    <3>3. \A f \in 1 .. k - 1 : Clean(M, f)
      BY <1>9, <1>2
    <3> QED
      BY <3>1, <3>2, <3>3, <1>9 DEF Progress
  <2> QED
    BY <2>1, <2>2, <2>3
<1> QED
  BY <1>5, <1>6, <1>11, <1>12, OneMoves DEF ScenarioOK

LEMMA CompletedKeeps ==
    ASSUME ScInv, NEW s \in Pack, Completed(s)
    PROVE  ScInv'
<1> DEFINE n == FaultCount[s]
           L == log[s]
           r == runs[s]
           k == fault[s]
           ld == landed[s]
           x == Plain(0, "eval.arena_leaked")
           y == Plain(0, "eval.scenario_completed")
<1>1. Typed(L, reached[s], k, gate[s], ld, r, n) /\ Progress(L, reached[s], k, gate[s], ld, r, n)
  BY DEF ScInv, ScenarioOK
<1>2. n \in Nat /\ L \in Seq(LinesOf(n)) /\ reached[s] = "teardown"
  BY <1>1 DEF Typed, Completed
<1>3. PICK leaks \in BOOLEAN :
         /\ runs' = [runs EXCEPT ![s].teardown = leaks]
         /\ Writes(s, (IF leaks THEN <<x>> ELSE <<>>) \o <<y>>)
  BY DEF Completed
<1> DEFINE M == L \o ((IF leaks THEN <<x>> ELSE <<>>) \o <<y>>)
           q == [r EXCEPT !.teardown = leaks]
<1>4. /\ x \in LinesOf(n) /\ y \in LinesOf(n) /\ y.fault = 0 /\ x.fault = 0
      /\ x.event = "eval.arena_leaked" /\ y.event # "eval.arena_leaked"
      /\ \A f : ~ IsPass(x, f) /\ ~ IsPass(y, f) /\ ~ IsProblem(x, f) /\ ~ IsProblem(y, f)
  <2>1. 0 \in 0 .. n /\ "eval.arena_leaked" \in Events /\ "eval.scenario_completed" \in Events
    BY <1>2 DEF Events
  <2>2. x \in LinesOf(n) /\ x.fault = 0 /\ x.event = "eval.arena_leaked" /\ \A f : ~ IsPass(x, f) /\ ~ IsProblem(x, f)
    BY <1>2, <2>1, PlainFacts
  <2>3. y \in LinesOf(n) /\ y.fault = 0 /\ y.event # "eval.arena_leaked" /\ \A f : ~ IsPass(y, f) /\ ~ IsProblem(y, f)
    BY <1>2, <2>1, PlainFacts
  <2> QED
    BY <2>2, <2>3
<1>5. /\ log' = [log EXCEPT ![s] = M] /\ reached' = [reached EXCEPT ![s] = "done"]
      /\ fault' = [fault EXCEPT ![s] = k] /\ gate' = [gate EXCEPT ![s] = gate[s]]
      /\ landed' = [landed EXCEPT ![s] = ld] /\ runs' = [runs EXCEPT ![s] = q]
  BY <1>3 DEF ScInv, Completed, Moves, Writes
<1>6. M = IF leaks THEN L \o <<x, y>> ELSE L \o <<y>>
  <2>1. <<y>> \in Seq(LinesOf(n)) /\ <<x>> \in Seq(LinesOf(n))
    BY <1>4
  <2>2. <<>> \o <<y>> = <<y>>
    BY <2>1, ConcatEmptySeq
  <2>3. <<x>> \o <<y>> = <<x, y>>
    BY <1>2, <1>4, Paired
  <2> QED
    BY <2>2, <2>3
<1> HIDE DEF x, y
<1>7. /\ M \in Seq(LinesOf(n)) /\ Len(L) <= Len(M) /\ Len(L) \in Nat
      /\ SeenIn(M) = SeenIn(L) /\ (LeakIn(M) <=> LeakIn(L) \/ leaks)
      /\ \A f : PassesIn(M, f) = PassesIn(L, f) /\ (ProblemIn(M, f) <=> ProblemIn(L, f))
  <2>1. CASE leaks
    <3>1. PICK A \in Seq(LinesOf(n)) : Grown(L, A, x, n) /\ Grown(A, L \o <<x, y>>, y, n)
      BY <1>2, <1>4, Written
    <3>2. M = L \o <<x, y>>
      BY <1>6, <2>1
    <3> HIDE DEF M
    <3>3. Grown(L, A, x, n) /\ Grown(A, M, y, n)
      BY <3>1, <3>2
    <3>4. \A f : PassesIn(M, f) = PassesIn(L, f) /\ (ProblemIn(M, f) <=> ProblemIn(L, f))
      BY <3>3, <1>4 DEF Grown
    <3>5. SeenIn(M) = SeenIn(L) /\ LeakIn(M)
      BY <3>3, <1>4 DEF Grown
    <3>6. M \in Seq(LinesOf(n)) /\ Len(L) <= Len(M) /\ Len(L) \in Nat
      BY <3>3 DEF Grown
    <3> QED
      BY <2>1, <3>4, <3>5, <3>6
  <2>2. CASE ~ leaks
    <3>1. Grown(L, L \o <<y>>, y, n)
      BY <1>2, <1>4, Written
    <3>2. M = L \o <<y>>
      BY <1>6, <2>2
    <3> HIDE DEF M
    <3>3. Grown(L, M, y, n)
      BY <3>1, <3>2
    <3>4. \A f : PassesIn(M, f) = PassesIn(L, f) /\ (ProblemIn(M, f) <=> ProblemIn(L, f))
      BY <3>3, <1>4 DEF Grown
    <3>5. SeenIn(M) = SeenIn(L) /\ (LeakIn(M) <=> LeakIn(L))
      BY <3>3, <1>4 DEF Grown
    <3>6. M \in Seq(LinesOf(n)) /\ Len(L) <= Len(M) /\ Len(L) \in Nat
      BY <3>3 DEF Grown
    <3> QED
      BY <2>2, <3>4, <3>5, <3>6
  <2> QED
    BY <2>1, <2>2
<1> HIDE DEF M
<1>8. /\ q \in RunRecords /\ (q.asked <=> r.asked) /\ q.detectedAt = r.detectedAt /\ q.clearedAt = r.clearedAt
      /\ (q.teardown <=> leaks)
  <2>1. r \in RunRecords
    BY <1>1 DEF Typed
  <2> QED
    BY <2>1 DEF RunRecords
<1> HIDE DEF q
<1>9. Typed(M, "done", k, gate[s], ld, q, n)
  <2>1. gate[s] \in 1 .. Gates + 1
    BY <1>1 DEF Typed
  <2>2. Typed(M, "done", k, gate[s], ld, r, n)
    BY <1>1, <1>7, <2>1, TypedGrows DEF Stages
  <2> QED
    BY <2>2, <1>8 DEF Typed
<1>10. Progress(M, "done", k, gate[s], ld, q, n)
  <2>1. ~ LeakIn(L) /\ (~ r.asked => ld = 0)
    BY <1>1, <1>2 DEF Progress
  <2>2. LeakIn(M) <=> q.teardown
    BY <2>1, <1>7, <1>8
  <2>3. q.asked => /\ SeenIn(M) = 1 .. n /\ \A f \in 1 .. n : Clean(M, f) /\ \A i \in PassesIn(M, f) : i <= ld
                   /\ n > 0 => ld \in PassesIn(M, n)
                   /\ n = 0 => ld = 0
                   /\ ld <= q.detectedAt
    BY <1>1, <1>2, <1>7, <1>8 DEF Progress, Clean
  <2>4. ~ q.asked => SeenIn(M) = {} \/ \E f \in SeenIn(M) : ProblemIn(M, f)
    BY <1>1, <1>2, <1>7, <1>8 DEF Progress
  <2> QED
    BY <2>1, <2>2, <2>3, <2>4, <1>8 DEF Progress
<1> QED
  BY <1>5, <1>9, <1>10, OneMoves DEF ScenarioOK

LEMMA ScBegin == ScInit => ScInv
<1> SUFFICES ASSUME ScInit PROVE ScInv
  OBVIOUS
<1>1. /\ NewRun \in RunRecords /\ ~ NewRun.asked /\ ~ NewRun.teardown /\ NewRun.detectedAt = 0
      /\ NewRun.clearedAt = 0
  BY DEF NewRun, RunRecords
<1>2. SeenIn(<<>>) = {} /\ ~ LeakIn(<<>>) /\ Len(<<>>) = 0
  BY DEF SeenIn, LeakIn
<1>3. \A n \in Nat : <<>> \in Seq(LinesOf(n))
  OBVIOUS
<1>4. \A s \in Pack : ScenarioOK(<<>>, "new", 1, 1, 0, NewRun, FaultCount[s])
  <2> SUFFICES ASSUME NEW s \in Pack PROVE ScenarioOK(<<>>, "new", 1, 1, 0, NewRun, FaultCount[s])
    OBVIOUS
  <2>1. FaultCount[s] \in Nat /\ 1 \in 1 .. Gates + 1
    BY ScoreAssumption
  <2>2. Typed(<<>>, "new", 1, 1, 0, NewRun, FaultCount[s])
    BY <2>1, <1>1, <1>2, <1>3 DEF Typed, Stages
  <2>3. Progress(<<>>, "new", 1, 1, 0, NewRun, FaultCount[s])
    BY <1>1, <1>2 DEF Progress
  <2> QED
    BY <2>2, <2>3 DEF ScenarioOK
<1>5. /\ log \in [Pack -> Seq(UNION {LinesOf(n) : n \in Nat})] /\ reached \in [Pack -> Stages]
      /\ fault \in [Pack -> Nat] /\ gate \in [Pack -> Nat] /\ landed \in [Pack -> Nat]
      /\ runs \in [Pack -> RunRecords]
  BY <1>1 DEF ScInit, Stages
<1>6. \A s \in Pack : /\ log[s] = <<>> /\ reached[s] = "new" /\ fault[s] = 1 /\ gate[s] = 1 /\ landed[s] = 0
                      /\ runs[s] = NewRun
  BY DEF ScInit
<1> QED
  BY <1>4, <1>5, <1>6 DEF ScInv

LEMMA ScStep == ScInv /\ [ScNext]_scvars => ScInv'
<1> SUFFICES ASSUME ScInv, [ScNext]_scvars PROVE ScInv'
  OBVIOUS
<1>1. CASE UNCHANGED scvars
  BY <1>1 DEF ScInv, scvars
<1>2. CASE ScNext
  BY <1>2, SilentSteps, StartedKeeps, RefusedKeeps, AppliedKeeps, AbandonedKeeps, GatePassedKeeps, CompletedKeeps
     DEF ScNext
<1> QED
  BY <1>1, <1>2

(***************************************************************************)
(* What the scorer reads.                                                  *)
(***************************************************************************)
LEMMA ScTyped == ScInv => ScTypeOK
<1> SUFFICES ASSUME ScInv PROVE ScTypeOK
  OBVIOUS
<1>1. ASSUME NEW s \in Pack
      PROVE  Typed(log[s], reached[s], fault[s], gate[s], landed[s], runs[s], FaultCount[s])
  BY DEF ScInv, ScenarioOK
<1>2. ASSUME NEW s \in Pack, NEW i \in DOMAIN log[s]
      PROVE  log[s][i] \in [fault : 0 .. FaultCount[s], event : Events, passed : {"yes", "no", "absent"}]
  <2>1. log[s] \in Seq(LinesOf(FaultCount[s]))
    BY <1>1 DEF Typed
  <2>2. log[s][i] \in LinesOf(FaultCount[s])
    BY <2>1
  <2> QED
    BY <2>2 DEF LinesOf
<1>3. ASSUME NEW s \in Pack
      PROVE  fault[s] \in 1 .. Max({1, FaultCount[s]})
  <2> DEFINE S == {1, FaultCount[s]}
  <2>1. fault[s] \in Nat \ {0} /\ (fault[s] > 1 => fault[s] <= FaultCount[s]) /\ FaultCount[s] \in Nat
    BY <1>1, <1>3 DEF Typed
  <2>2. IsFiniteSet(S) /\ S # {} /\ S \subseteq Int
    <3>1. S = {1} \cup {FaultCount[s]} /\ S # {} /\ S \subseteq Int
      BY <2>1
    <3>2. IsFiniteSet({1})
      BY FS_Singleton
    <3>3. IsFiniteSet({1} \cup {FaultCount[s]})
      BY <3>2, FS_AddElement
    <3> QED
      BY <3>1, <3>3
  <2>3. Max(S) \in S /\ \A y \in S : Max(S) >= y
    BY <2>2, MaxIsGreatest
  <2> QED
    BY <2>1, <2>3
<1>4. ASSUME NEW s \in Pack
      PROVE  /\ gate[s] \in 1 .. Gates + 1 /\ landed[s] \in 0 .. Len(log[s])
             /\ runs[s] \in [asked : BOOLEAN, report : Answers \cup {NoReport}, detectedAt : 0 .. Len(log[s]),
                             clearedAt : 0 .. Len(log[s]), teardown : BOOLEAN]
  <2>1. /\ gate[s] \in 1 .. Gates + 1 /\ landed[s] \in 0 .. Len(log[s]) /\ runs[s] \in RunRecords
        /\ runs[s].detectedAt <= Len(log[s]) /\ runs[s].clearedAt <= Len(log[s]) /\ Len(log[s]) \in Nat
    BY <1>1, <1>4 DEF Typed
  <2>2. runs[s].detectedAt \in 0 .. Len(log[s]) /\ runs[s].clearedAt \in 0 .. Len(log[s])
    BY <2>1 DEF RunRecords
  <2> QED
    BY <2>1, <2>2 DEF RunRecords
<1>5. reached \in [Pack -> {"new", "setup", "inject", "settling", "asking", "teardown", "done"}]
  BY DEF ScInv, Stages
<1> QED
  BY <1>2, <1>3, <1>4, <1>5 DEF ScTypeOK

LEMMA ReadBack ==
    ASSUME NEW s \in Pack
    PROVE  /\ FaultsSeen(s) = SeenIn(log[s])
           /\ \A f : Passes(s, f) = PassesIn(log[s], f)
           /\ \A f : Problem(s, f) <=> ProblemIn(log[s], f)
           /\ summarizeFacts(s).teardown <=> LeakIn(log[s])
<1>1. FaultsSeen(s) = SeenIn(log[s])
  BY DEF FaultsSeen, SeenIn
<1>2. \A f : Passes(s, f) = PassesIn(log[s], f)
  BY DEF Passes, PassesIn, TrailOf, IsPass
<1>3. \A f : Problem(s, f) <=> ProblemIn(log[s], f)
  BY DEF Problem, ProblemIn, TrailOf, IsProblem
<1>4. summarizeFacts(s).teardown <=> LeakIn(log[s])
  BY DEF summarizeFacts, LeakIn
<1> QED
  BY <1>1, <1>2, <1>3, <1>4

\* The facts of a finished scenario: manifested where every fault of it landed.
LEMMA Facts ==
    ASSUME ScInv, NEW s \in Pack, reached[s] = "done"
    PROVE  /\ runs[s].asked /\ FaultCount[s] > 0 =>
                /\ summarizeFacts(s).manifested /\ summarizeFacts(s).injectedAt = landed[s]
                /\ landed[s] > 0 /\ landed[s] <= runs[s].detectedAt
           /\ runs[s].asked /\ FaultCount[s] = 0 => summarizeFacts(s).injectedAt = landed[s]
           /\ ~ runs[s].asked => ~ summarizeFacts(s).manifested
           /\ summarizeFacts(s).teardown <=> runs[s].teardown
<1> DEFINE n == FaultCount[s]
           L == log[s]
           r == runs[s]
           ld == landed[s]
           F == summarizeFacts(s)
<1>1. Typed(L, reached[s], fault[s], gate[s], ld, r, n) /\ Progress(L, reached[s], fault[s], gate[s], ld, r, n)
  BY DEF ScInv, ScenarioOK
<1>2. n \in Nat /\ L \in Seq(LinesOf(n)) /\ ld \in Nat /\ Len(L) \in Nat /\ DOMAIN L = 1 .. Len(L)
  BY <1>1 DEF Typed
<1>3. /\ F.manifested <=> SeenIn(L) # {} /\ \A f \in SeenIn(L) : Clean(L, f)
      /\ F.injectedAt = IF F.manifested THEN Max(UNION {PassesIn(L, f) : f \in SeenIn(L)}) ELSE 0
  <2>1. F.manifested <=> /\ FaultsSeen(s) # {}
                         /\ \A f \in FaultsSeen(s) : ~ Problem(s, f) /\ Passes(s, f) # {}
    BY DEF summarizeFacts
  <2>2. F.injectedAt = IF F.manifested THEN Max(UNION {Passes(s, f) : f \in FaultsSeen(s)}) ELSE 0
    BY DEF summarizeFacts
  <2>3. UNION {Passes(s, f) : f \in FaultsSeen(s)} = UNION {PassesIn(L, f) : f \in SeenIn(L)}
    BY ReadBack
  <2> QED
    BY <2>1, <2>2, <2>3, ReadBack DEF Clean
<1> HIDE DEF F
<1>4. F.teardown <=> r.teardown
  BY <1>1, ReadBack DEF Progress, F
<1>5. ~ r.asked => ~ F.manifested
  BY <1>1, <1>3 DEF Progress, Clean
<1>6. r.asked /\ n = 0 => F.injectedAt = ld
  <2> SUFFICES ASSUME r.asked, n = 0 PROVE F.injectedAt = ld
    OBVIOUS
  <2>1. SeenIn(L) = 1 .. 0 /\ ld = 0
    BY <1>1 DEF Progress
  <2> QED
    BY <2>1, <1>3
<1>7. ASSUME r.asked, n > 0
      PROVE  F.manifested /\ F.injectedAt = ld /\ ld > 0 /\ ld <= r.detectedAt
  <2> DEFINE S == UNION {PassesIn(L, f) : f \in SeenIn(L)}
  <2>1. /\ SeenIn(L) = 1 .. n /\ (\A f \in 1 .. n : Clean(L, f) /\ \A i \in PassesIn(L, f) : i <= ld)
        /\ ld \in PassesIn(L, n) /\ ld <= r.detectedAt
    BY <1>1, <1>7 DEF Progress
  <2>2. F.manifested /\ n \in SeenIn(L)
    BY <1>2, <1>3, <1>7, <2>1
  <2>3. S \subseteq 1 .. Len(L) /\ ld \in S
    BY <1>2, <2>1, <2>2 DEF PassesIn
  <2>4. IsFiniteSet(S) /\ S # {} /\ S \subseteq Int
    <3> HIDE DEF S
    <3>1. IsFiniteSet(1 .. Len(L))
      BY <1>2, FS_Interval
    <3>2. IsFiniteSet(S)
      BY <3>1, <2>3, FS_Subset
    <3>3. S # {} /\ S \subseteq Int
      BY <1>2, <2>3
    <3> QED
      BY <3>2, <3>3
  <2>5. Max(S) \in S /\ \A y \in S : Max(S) >= y
    BY <2>4, MaxIsGreatest
  <2>6. \A i \in S : i <= ld
    BY <2>1
  <2>7. Max(S) <= ld /\ Max(S) >= ld /\ ld \in Int /\ Max(S) \in Int
    BY <2>3, <2>4, <2>5, <2>6
  <2> HIDE DEF S
  <2>8. Max(S) = ld
    BY <2>7
  <2>9. F.injectedAt = Max(S)
    BY <1>3, <2>2 DEF S
  <2> QED
    BY <2>1, <2>2, <2>3, <2>8, <2>9, <1>2 DEF PassesIn
<1> QED
  BY <1>4, <1>5, <1>6, <1>7 DEF F

LEMMA ScoredHolds == ScInv => ScoredAsBroken
<1> SUFFICES ASSUME ScInv, Finished, NEW s \in Pack
             PROVE  LET scores == ScoreRun(s, Join(s)) IN
                    /\ runs[s].asked => /\ \E m \in Measures : ~ scores[m].skipped
                                        /\ Join(s).injectedAt = landed[s]
                                        /\ FaultCount[s] > 0 => ~ scores["time_to_detect"].skipped
                    /\ ~ runs[s].asked /\ ~ IsControl(s) => \A m \in Measures : scores[m].skipped
                    /\ Join(s).teardown = runs[s].teardown
  BY DEF ScoredAsBroken
<1> DEFINE n == FaultCount[s]
           r == runs[s]
           F == summarizeFacts(s)
           J == Join(s)
<1>1. reached[s] = "done"
  BY DEF Finished
<1>2. /\ r.asked /\ n > 0 => F.manifested /\ F.injectedAt = landed[s] /\ landed[s] > 0 /\ landed[s] <= r.detectedAt
      /\ r.asked /\ n = 0 => F.injectedAt = landed[s]
      /\ ~ r.asked => ~ F.manifested
      /\ F.teardown <=> r.teardown
  BY <1>1, Facts
<1>3. /\ J.injectError <=> ~ IsControl(s) /\ ~ F.manifested
      /\ J.injectedAt = F.injectedAt /\ J.teardown = F.teardown /\ J.detectedAt = r.detectedAt
      /\ J.report = r.report
  BY DEF Join
<1>4. n \in Nat /\ landed[s] \in Nat /\ r \in RunRecords /\ (~ IsControl(s) => n > 0)
  BY ScoreAssumption DEF ScInv, ScenarioOK, Typed, IsControl
<1>5. r.teardown \in BOOLEAN /\ F.teardown \in BOOLEAN /\ r.detectedAt \in Nat
  BY <1>4 DEF RunRecords, summarizeFacts
<1>6. J.teardown = r.teardown
  BY <1>2, <1>3, <1>5
<1> HIDE DEF J, F
<1>7. ASSUME J.injectError
      PROVE  \A m \in Measures : ScoreRun(s, J)[m].skipped
  BY <1>7 DEF ScoreRun, Skipped
<1>8. ASSUME ~ J.injectError
      PROVE  /\ ScoreRun(s, J)["hallucinated_fault"] = HallucinatedFault(s, J)
             /\ ScoreRun(s, J)["time_to_detect"] = TimeToDetect(s, J)
  BY <1>8 DEF ScoreRun
<1>9. ~ HallucinatedFault(s, J).skipped
  BY DEF HallucinatedFault, Scored, Fraction
<1>10. r.asked => ~ J.injectError /\ J.injectedAt = landed[s]
  BY <1>2, <1>3, <1>4
<1>11. r.asked /\ n > 0 => ~ TimeToDetect(s, J).skipped
  <2> SUFFICES ASSUME r.asked, n > 0 PROVE ~ TimeToDetect(s, J).skipped
    OBVIOUS
  <2>1. J.injectedAt > 0 /\ J.injectedAt <= J.detectedAt /\ J.injectedAt \in Nat /\ J.detectedAt \in Nat
    BY <1>2, <1>3, <1>4, <1>5
  <2> QED
    BY <2>1 DEF TimeToDetect, Elapsed, Scored
<1>12. r.asked => (\E m \in Measures : ~ ScoreRun(s, J)[m].skipped)
  BY <1>8, <1>9, <1>10 DEF Measures
<1>13. r.asked /\ n > 0 => ~ ScoreRun(s, J)["time_to_detect"].skipped
  BY <1>8, <1>10, <1>11
<1>14. ~ r.asked /\ ~ IsControl(s) => \A m \in Measures : ScoreRun(s, J)[m].skipped
  BY <1>2, <1>3, <1>7
<1> QED
  BY <1>6, <1>10, <1>12, <1>13, <1>14 DEF J

(***************************************************************************)
(* What a report is worth, and what its absence is.                        *)
(***************************************************************************)
LEMMA FractionNat ==
    ASSUME NEW n \in Nat, NEW d \in Nat \ {0}
    PROVE  Fraction(n, d).value \in Nat /\ ~ Fraction(n, d).skipped
<1>1. (60 * n) \div d \in Nat
  OBVIOUS
<1> QED
  BY <1>1 DEF Fraction, Scored

LEMMA ScoredNat ==
    ASSUME NEW v \in Nat
    PROVE  Scored(v).value = v /\ ~ Scored(v).skipped /\ Skipped.value = 0 /\ Skipped.skipped
BY DEF Scored, Skipped

LEMMA CoverageNat ==
    ASSUME NEW want, IsFiniteSet(want), NEW r \in Answers \cup {NoReport}
    PROVE  /\ Coverage(want, r).value \in Nat
           /\ Coverage(want, NoReport).value = 0
           /\ Coverage(want, r).skipped <=> Coverage(want, NoReport).skipped
<1>1. CASE want = {}
  BY <1>1, ScoredNat DEF Coverage
<1>2. CASE want # {}
  <2> DEFINE met == {e \in want : matchesAny(e, r.findings)}
  <2>1. met \subseteq want
    OBVIOUS
  <2> HIDE DEF met
  <2>2. Cardinality(met) \in Nat
    BY <2>1, FS_Subset, FS_CardinalityType
  <2>3. Cardinality(want) \in Nat \ {0}
    BY <1>2, FS_CardinalityType, FS_EmptySet
  <2>4. Fraction(Cardinality(met), Cardinality(want)).value \in Nat
        /\ ~ Fraction(Cardinality(met), Cardinality(want)).skipped
    BY <2>2, <2>3, FractionNat
  <2> QED
    BY <1>2, <2>4, ScoredNat DEF Coverage, scoreCoverage, met
<1> QED
  BY <1>1, <1>2

LEMMA SeverityNat ==
    ASSUME NEW s \in Pack, NEW j, NEW k, j.report \in Answers \cup {NoReport}, k.report = NoReport
    PROVE  /\ SeverityDistance(s, j).value \in Nat
           /\ SeverityDistance(s, k).value = 0
           /\ SeverityDistance(s, j).skipped <=> SeverityDistance(s, k).skipped
<1>1. CASE WantSeverity[s] = NoSeverity
  BY <1>1, ScoredNat DEF SeverityDistance
<1>2. CASE WantSeverity[s] # NoSeverity /\ (j.report = NoReport \/ j.report.severity = NoSeverity)
  BY <1>2, ScoredNat DEF SeverityDistance
<1>3. CASE WantSeverity[s] # NoSeverity /\ j.report # NoReport /\ j.report.severity # NoSeverity
  <2> DEFINE a == j.report.severity
             b == WantSeverity[s]
             D == {a - b, b - a}
  <2>1. a \in 0 .. 3 /\ b \in 0 .. 3
    BY <1>3, ScoreAssumption DEF Severities
  <2> HIDE DEF a, b
  <2>2. D \subseteq -3 .. 3 /\ D # {}
    BY <2>1
  <2>3. IsFiniteSet(-3 .. 3)
    <3>1. -3 \in Int /\ 3 \in Int
      OBVIOUS
    <3> HIDE DEF D
    <3> QED
      BY ONLY <3>1, FS_Interval
  <2> HIDE DEF D
  <2>4. IsFiniteSet(D)
    BY <2>2, <2>3, FS_Subset
  <2>5. Max(D) \in D
    <3>1. D \subseteq Int /\ D # {}
      BY <2>2
    <3> QED
      BY <2>4, <3>1, MaxIsGreatest
  <2>6. Max(D) \in -3 .. 3
    BY <2>2, <2>5
  <2>7. PICK x \in -3 .. 3 : x = Max(D)
    BY <2>6
  <2>8. 3 - Max(D) \in Nat
    BY <2>7
  <2>9. Fraction(3 - Max(D), 3).value \in Nat /\ ~ Fraction(3 - Max(D), 3).skipped
    BY <2>8, FractionNat
  <2>10. SeverityDistance(s, j) = Fraction(3 - Max(D), 3)
    BY <1>3 DEF SeverityDistance, D, a, b
  <2>11. SeverityDistance(s, k) = Scored(0)
    BY <1>3 DEF SeverityDistance
  <2> QED
    BY <2>9, <2>10, <2>11, ScoredNat
<1> QED
  BY <1>1, <1>2, <1>3

LEMMA HallucinatedNat ==
    ASSUME NEW s \in Pack, NEW j, NEW k, j.report \in Answers \cup {NoReport}, k.report = NoReport
    PROVE  /\ HallucinatedFault(s, j).value \in Nat
           /\ HallucinatedFault(s, k).value = 0
           /\ ~ HallucinatedFault(s, j).skipped /\ ~ HallucinatedFault(s, k).skipped
<1>1. HallucinatedFault(s, k) = Scored(0)
  BY DEF HallucinatedFault
<1>2. CASE j.report = NoReport
  BY <1>1, <1>2, ScoredNat DEF HallucinatedFault
<1>3. CASE j.report # NoReport
  <2> DEFINE f == j.report.findings
             claimed == {i \in DOMAIN f : f[i].severity >= Warning /\ inScope(f[i]) /\ Family[f[i].reason] # Generic}
             bogus == {i \in claimed : Family[f[i].reason] \notin InjectedFamilies(s)}
  <2>1. HallucinatedFault(s, j) = IF claimed = {} THEN Scored(60)
                                  ELSE Fraction(Cardinality(claimed) - Cardinality(bogus), Cardinality(claimed))
    BY <1>3 DEF HallucinatedFault
  <2>2. IsFiniteSet(DOMAIN f)
    BY <1>3, ScoreAssumption
  <2>3. claimed \subseteq DOMAIN f /\ bogus \subseteq claimed
    OBVIOUS
  <2> HIDE DEF f, claimed, bogus
  <2>4. IsFiniteSet(claimed)
    BY <2>2, <2>3, FS_Subset
  <2>5. IsFiniteSet(bogus) /\ Cardinality(bogus) <= Cardinality(claimed)
    BY <2>3, <2>4, FS_Subset
  <2>6. Cardinality(bogus) \in Nat /\ Cardinality(claimed) \in Nat /\ (claimed # {} => Cardinality(claimed) # 0)
    BY <2>4, <2>5, FS_CardinalityType, FS_EmptySet
  <2>7. Cardinality(claimed) - Cardinality(bogus) \in Nat
    BY <2>5, <2>6
  <2>8. claimed # {} =>
          LET q == Fraction(Cardinality(claimed) - Cardinality(bogus), Cardinality(claimed)) IN
          q.value \in Nat /\ ~ q.skipped
    BY <2>6, <2>7, FractionNat
  <2> QED
    BY <1>1, <2>1, <2>8, ScoredNat
<1> QED
  BY <1>2, <1>3

\* The same run with and without its report: graded by the same measures, and never
\* worth more without.
LEMMA Silence ==
    ASSUME NEW s \in Pack, NEW j, NEW k, NEW m \in Graded,
           j.report \in Answers \cup {NoReport}, k.report = NoReport, k.injectError <=> j.injectError
    PROVE  /\ ScoreRun(s, j)[m].value \in Nat
           /\ ScoreRun(s, k)[m].value = 0
           /\ ScoreRun(s, j)[m].skipped <=> ScoreRun(s, k)[m].skipped
<1>1. CASE j.injectError
  <2>1. ScoreRun(s, j)[m] = Skipped /\ ScoreRun(s, k)[m] = Skipped
    BY <1>1 DEF ScoreRun, Graded, Measures
  <2> QED
    BY <2>1, ScoredNat
<1>2. CASE ~ j.injectError
  <2>1. IsFiniteSet(Expect[s]) /\ {e \in Expect[s] : e.root} \subseteq Expect[s]
    BY ScoreAssumption
  <2>2. IsFiniteSet({e \in Expect[s] : e.root})
    BY <2>1, FS_Subset
  <2>3. CASE m = "recall"
    <3>1. ScoreRun(s, j)[m] = Coverage(Expect[s], j.report) /\ ScoreRun(s, k)[m] = Coverage(Expect[s], NoReport)
      BY <1>2, <2>3 DEF ScoreRun, Recall
    <3> QED
      BY <2>1, <3>1, CoverageNat
  <2>4. CASE m = "root_cause"
    <3> DEFINE W == {e \in Expect[s] : e.root}
    <3>1. ScoreRun(s, j)[m] = Coverage(W, j.report) /\ ScoreRun(s, k)[m] = Coverage(W, NoReport)
      BY <1>2, <2>4 DEF ScoreRun, RootCause
    <3> HIDE DEF W
    <3> QED
      BY <2>2, <3>1, CoverageNat DEF W
  <2>5. CASE m = "severity"
    <3>1. ScoreRun(s, j)[m] = SeverityDistance(s, j) /\ ScoreRun(s, k)[m] = SeverityDistance(s, k)
      BY <1>2, <2>5 DEF ScoreRun
    <3> QED
      BY <3>1, SeverityNat
  <2>6. CASE m = "hallucinated_fault"
    <3>1. ScoreRun(s, j)[m] = HallucinatedFault(s, j) /\ ScoreRun(s, k)[m] = HallucinatedFault(s, k)
      BY <1>2, <2>6 DEF ScoreRun
    <3> QED
      BY <3>1, HallucinatedNat
  <2> QED
    BY <2>3, <2>4, <2>5, <2>6 DEF Graded
<1> QED
  BY <1>1, <1>2

LEMMA CrashHolds == ScInv => CrashNeverPays
<1> SUFFICES ASSUME ScInv, Finished, NEW s \in Pack, NEW m \in Graded
             PROVE  LET answered == Totals(Joined, m)
                        crashed  == Totals([Joined EXCEPT ![s].report = NoReport], m) IN
                    crashed.count = answered.count /\ crashed.total <= answered.total
  BY DEF CrashNeverPays
<1> DEFINE A == Joined
           C == [Joined EXCEPT ![s].report = NoReport]
           a(t) == ScoreRun(t, A[t])[m]
           c(t) == ScoreRun(t, C[t])[m]
           N == {t \in Pack : ~ a(t).skipped}
           M == {t \in Pack : ~ c(t).skipped}
           F == [t \in N |-> a(t).value]
           G == [t \in N |-> c(t).value]
<1>1. \A t \in Pack : A[t] = Join(t) /\ C[t] = IF t = s THEN [Join(t) EXCEPT !.report = NoReport] ELSE Join(t)
  BY DEF Joined
<1>2. \A t \in Pack : runs[t] \in RunRecords
  BY DEF ScInv, ScenarioOK, Typed
<1>3. \A t \in Pack : Join(t).report \in Answers \cup {NoReport}
  BY <1>2 DEF Join, RunRecords
<1>4. /\ C[s].report = NoReport /\ (C[s].injectError <=> A[s].injectError) /\ A[s].report \in Answers \cup {NoReport}
      /\ \A t \in Pack \ {s} : C[t] = A[t]
  <2>1. LET r == [Join(s) EXCEPT !.report = NoReport] IN
        r.report = NoReport /\ (r.injectError <=> Join(s).injectError)
    BY DEF Join
  <2> QED
    BY <1>1, <1>3, <2>1
<1>5. \A t \in Pack : a(t).value \in Nat
  <2> SUFFICES ASSUME NEW t \in Pack PROVE a(t).value \in Nat
    OBVIOUS
  <2> DEFINE k == [Join(t) EXCEPT !.report = NoReport]
  <2>1. k.report = NoReport /\ (k.injectError <=> Join(t).injectError)
    BY DEF Join
  <2> HIDE DEF k
  <2>2. A[t] = Join(t) /\ Join(t).report \in Answers \cup {NoReport}
    BY <1>1, <1>3
  <2>3. ScoreRun(t, Join(t))[m].value \in Nat
    BY <2>1, <2>2, Silence
  <2> QED
    BY <2>2, <2>3
<1> HIDE DEF A, C
<1>6. a(s).value \in Nat /\ c(s).value = 0 /\ (a(s).skipped <=> c(s).skipped)
  BY <1>4, Silence
<1>7. \A t \in Pack \ {s} : c(t) = a(t)
  BY <1>4
<1> HIDE DEF a, c
<1>8. M = N
  BY <1>6, <1>7
<1>9. IsFiniteSet(DOMAIN F)
  BY FS_Subset, ScoreAssumption
<1>10. DOMAIN F = N /\ DOMAIN G = N /\ N \subseteq Pack /\ \A t \in N : F[t] = a(t).value /\ G[t] = c(t).value
  OBVIOUS
<1> HIDE DEF F, G, N, M
<1>11. \A t \in N : G[t] \in Nat /\ F[t] \in Nat /\ G[t] <= F[t]
  BY <1>5, <1>6, <1>7, <1>10
<1>12. SumFunction(G) <= SumFunction(F)
  BY <1>9, <1>10, <1>11, SumMonotone
<1>13. Totals(A, m) = [total |-> SumFunction(F), count |-> Cardinality(N)]
  BY DEF Totals, a, N, F
<1>14. Totals(C, m) = [total |-> SumFunction(G), count |-> Cardinality(N)]
  <2>1. Totals(C, m) = [total |-> SumFunction([t \in M |-> c(t).value]), count |-> Cardinality(M)]
    BY DEF Totals, c, M
  <2>2. G = [t \in M |-> c(t).value]
    BY <1>8 DEF G
  <2> QED
    BY <1>8, <2>1, <2>2
<1> QED
  BY <1>12, <1>13, <1>14 DEF A, C

\* The scorecard the harness hands out is true: every line of the log and every run the
\* runner keeps is well formed, a scenario is graded exactly as far as what happened to it
\* allows, on a clock that starts when its last fault was seen to land, and a subject that
\* crashes instead of reporting never raises the mean of a graded measure
\* (eval.ReadAudit, Join, ScoreRun, Summarize).
THEOREM ScoresAlwaysTrue == ScSpec => []ScoresTrue
<1>1. ScInv => ScoresTrue
  BY ScTyped, ScoredHolds, CrashHolds DEF ScoresTrue
<1> QED
  BY <1>1, ScBegin, ScStep, PTL DEF ScSpec

USE OrderAssumption, PackAssumption, RunnerAssumption

(***************************************************************************)
(* Types.                                                                  *)
(***************************************************************************)
\* Every namespace a scenario needs is one of the pack's.
LEMMA NeedsType == \A s \in Scenarios : Needs(s) \in SUBSET Namespaces
  BY DEF Needs, FaultsOf

LEMMA TypeInit == HInit => HTypeOK
<1> SUFFICES ASSUME HInit PROVE HTypeOK
  OBVIOUS
<1>1. pc \in [Scenarios -> Phases]
  BY DEF HInit, Phases, Fencing
<1>2. /\ locked \in [Scenarios -> SUBSET Namespaces]
      /\ made \in [Scenarios -> SUBSET Namespaces]
      /\ substrated \in [Scenarios -> SUBSET Namespaces]
      /\ applied \in [Scenarios -> SUBSET Faults]
      /\ leaked \in [Scenarios -> SUBSET Namespaces]
  BY DEF HInit
<1>3. cancelled \in BOOLEAN
  BY DEF HInit
<1>4. /\ created \in [Namespaces -> {"unseen", "ours", "borrowed"}]
      /\ object \in [Faults -> {"none", "live", "deleting"}]
  BY DEF HInit
<1>5. /\ readers \in SUBSET Scenarios /\ writer \in SUBSET Scenarios
      /\ late \in SUBSET Scenarios /\ leased \in SUBSET Faults
      /\ stamped \in SUBSET Scenarios /\ gone \in SUBSET Scenarios
  BY DEF HInit
<1> QED
  BY <1>1, <1>2, <1>3, <1>4, <1>5 DEF HInit, HTypeOK

LEMMA LeaveTyped ==
  ASSUME HTypeOK, NEW s \in Scenarios, Leave(s)
  PROVE  /\ pc' \in [Scenarios -> Phases]
         /\ readers' \in SUBSET Scenarios /\ writer' \in SUBSET Scenarios
         /\ locked' \in [Scenarios -> SUBSET Namespaces]
  BY DEF HTypeOK, Leave, Finish, lockVars, Phases, Teardown

LEMMA AcquireTyped ==
  ASSUME HTypeOK, NEW s \in Scenarios, Acquire(s)
  PROVE  HTypeOK'
<1>1. CASE Start(s)
  BY <1>1 DEF HTypeOK, Start, Goes, lockVars, resultVars, clusterVars, Phases, Fencing
<1>2. CASE LockCluster(s)
  BY <1>2 DEF HTypeOK, LockCluster, resultVars, clusterVars
<1>3. CASE EnterAlone(s)
  BY <1>3 DEF HTypeOK, EnterAlone, Goes, lockVars, resultVars, clusterVars, Phases, Working
<1>4. CASE ReadLock(s)
  BY <1>4 DEF HTypeOK, ReadLock, resultVars, clusterVars
<1>5. CASE Enter(s)
  BY <1>5 DEF HTypeOK, Enter, Goes, lockVars, resultVars, clusterVars, Phases, Working
<1>6. ASSUME NEW ns \in Namespaces, LockNext(s, ns) PROVE HTypeOK'
  BY <1>6 DEF HTypeOK, LockNext, resultVars, clusterVars
<1> QED
  BY <1>1, <1>2, <1>3, <1>4, <1>5, <1>6 DEF Acquire

LEMMA RecordTyped ==
  ASSUME HTypeOK, NEW ns \in Namespaces, Record(ns)
  PROVE  created' \in [Namespaces -> {"unseen", "ours", "borrowed"}]
<1>1. Claimed(ns) \in {"unseen", "ours", "borrowed"}
  BY DEF Claimed
<1> QED
  BY <1>1 DEF HTypeOK, Record

LEMMA PerformTyped ==
  ASSUME HTypeOK, NEW s \in Scenarios, Perform(s)
  PROVE  HTypeOK'
<1>1. CASE SetUpDone(s)
  BY <1>1 DEF HTypeOK, SetUpDone, Goes, lockVars, resultVars, clusterVars, Phases, Working
<1>2. CASE DeployFails(s)
  BY <1>2, LeaveTyped DEF HTypeOK, DeployFails, resultVars, clusterVars
<1>3. CASE DeployDone(s)
  BY <1>3 DEF HTypeOK, DeployDone, Goes, lockVars, resultVars, clusterVars, Phases, Working
<1>4. CASE Ask(s)
  BY <1>4 DEF HTypeOK, Ask, Goes, lockVars, resultVars, clusterVars, Phases, Working
<1>5. CASE Answered(s)
  BY <1>5, LeaveTyped DEF HTypeOK, Answered, resultVars, clusterVars
<1>6. ASSUME NEW ns \in Namespaces, SetUp(s, ns) PROVE HTypeOK'
  BY <1>6, RecordTyped DEF HTypeOK, SetUp, lockVars, resultVars
<1>7. ASSUME NEW ns \in Namespaces, SetUpFails(s, ns) PROVE HTypeOK'
  <2>1. created' \in [Namespaces -> {"unseen", "ours", "borrowed"}]
    BY <1>7, RecordTyped DEF HTypeOK, SetUpFails
  <2>2. namespace' \in [Namespaces -> {"none", "standing", "terminating"}]
    BY <1>7 DEF HTypeOK, SetUpFails
  <2> QED
    BY <1>7, <2>1, <2>2, LeaveTyped DEF HTypeOK, SetUpFails, resultVars
<1>8. ASSUME NEW ns \in Namespaces, Deploy(s, ns) PROVE HTypeOK'
  BY <1>8 DEF HTypeOK, Deploy, lockVars, resultVars, clusterVars
<1>9. ASSUME NEW f \in Faults, Inject(s, f) PROVE HTypeOK'
  BY <1>9 DEF HTypeOK, Inject, lockVars, resultVars
<1>10. ASSUME NEW f \in Faults, InjectFails(s, f) PROVE HTypeOK'
  <2>1. object' \in [Faults -> {"none", "live", "deleting"}] /\ leased' \in SUBSET Faults
    BY <1>10 DEF HTypeOK, InjectFails
  <2> QED
    BY <1>10, <2>1, LeaveTyped DEF HTypeOK, InjectFails, resultVars
<1> QED
  BY <1>1, <1>2, <1>3, <1>4, <1>5, <1>6, <1>7, <1>8, <1>9, <1>10 DEF Perform

LEMMA DeletedType == HTypeOK => \A f \in Faults : Deleted(f) \in {"none", "live", "deleting"}
  BY DEF Deleted

LEMMA TakeDownTyped ==
  ASSUME HTypeOK, NEW s \in Scenarios, TakeDown(s)
  PROVE  HTypeOK'
<1>1. CASE ClearingDone(s)
  BY <1>1 DEF HTypeOK, ClearingDone, Goes, lockVars, resultVars, clusterVars, Phases, Teardown
<1>2. CASE WaitEnds(s)
  BY <1>2 DEF HTypeOK, WaitEnds, Goes, lockVars, resultVars, clusterVars, Phases, Teardown
<1>3. CASE Dismantled(s)
  BY <1>3 DEF HTypeOK, Dismantled, Goes, lockVars, resultVars, clusterVars, Phases, Teardown
<1>4. CASE TeardownDone(s)
  BY <1>4 DEF HTypeOK, TeardownDone, Finish, resultVars, clusterVars, Phases
<1>5. ASSUME NEW f \in Faults, ClearOne(s, f) PROVE HTypeOK'
  BY <1>5, DeletedType DEF HTypeOK, ClearOne, lockVars, resultVars
<1>6. ASSUME NEW f \in Faults, ClearOneFails(s, f) PROVE HTypeOK'
  BY <1>6, DeletedType DEF HTypeOK, ClearOneFails, lockVars, resultVars
<1>7. ASSUME NEW ns \in Namespaces, Dismantle(s, ns) PROVE HTypeOK'
  BY <1>7 DEF HTypeOK, Dismantle, lockVars, resultVars, clusterVars
<1>8. ASSUME NEW ns \in Namespaces, LeaveArena(s, ns) PROVE HTypeOK'
  BY <1>8 DEF HTypeOK, LeaveArena, lockVars, resultVars, clusterVars
<1>9. ASSUME NEW ns \in Namespaces, DestroyArena(s, ns) PROVE HTypeOK'
  <2>1. namespace' \in [Namespaces -> {"none", "standing", "terminating"}]
    BY <1>9 DEF HTypeOK, DestroyArena, DeleteNamespace
  <2>2. object' \in [Faults -> {"none", "live", "deleting"}]
    BY <1>9, DeletedType DEF HTypeOK, DestroyArena, DeleteNamespace
  <2> QED
    BY <1>9, <2>1, <2>2 DEF HTypeOK, DestroyArena, lockVars, resultVars
<1>10. ASSUME NEW ns \in Namespaces, Leak(s, ns) PROVE HTypeOK'
  BY <1>10 DEF HTypeOK, Leak, lockVars, clusterVars
<1> QED
  BY <1>1, <1>2, <1>3, <1>4, <1>5, <1>6, <1>7, <1>8, <1>9, <1>10 DEF TakeDown

LEMMA OtherTyped ==
  ASSUME HTypeOK, World \/ \E s \in Scenarios : Poll(s) \/ TimesOut(s)
  PROVE  HTypeOK'
<1>1. ASSUME NEW s \in Scenarios, Poll(s) PROVE HTypeOK'
  BY <1>1 DEF HTypeOK, Poll, lockVars, clusterVars
<1>2. ASSUME NEW s \in Scenarios, TimesOut(s) PROVE HTypeOK'
  BY <1>2 DEF HTypeOK, TimesOut, lockVars, resultVars, clusterVars
<1>3. CASE Cancel
  BY <1>3 DEF HTypeOK, Cancel, lockVars, resultVars, clusterVars
<1>4. ASSUME NEW f \in Faults, Expire(f) PROVE HTypeOK'
  BY <1>4, DeletedType DEF HTypeOK, Expire, lockVars, resultVars
<1>5. ASSUME NEW f \in Faults, Finalize(f) PROVE HTypeOK'
  BY <1>5 DEF HTypeOK, Finalize, lockVars, resultVars
<1>6. ASSUME NEW s \in Scenarios, NEW f \in Faults, Remediate(s, f) PROVE HTypeOK'
  BY <1>6 DEF HTypeOK, Remediate, lockVars, resultVars
<1>7. ASSUME NEW ns \in Namespaces, Terminated(ns) PROVE HTypeOK'
  BY <1>7 DEF HTypeOK, Terminated, lockVars, resultVars
<1> QED
  BY <1>1, <1>2, <1>3, <1>4, <1>5, <1>6, <1>7 DEF World

LEMMA TypeStep == HTypeOK /\ [HNext]_hvars => HTypeOK'
<1>1. CASE UNCHANGED hvars
  BY <1>1 DEF HTypeOK, hvars, lockVars, resultVars, clusterVars
<1> QED
  BY <1>1, AcquireTyped, PerformTyped, TakeDownTyped, OtherTyped DEF HNext, ScenarioStep

\* Every variable of the harness keeps its type.
THEOREM HarnessTypes == HSpec => []HTypeOK
  BY TypeInit, TypeStep, PTL DEF HSpec

(***************************************************************************)
(* Leaks and borrowed namespaces.                                          *)
(***************************************************************************)
\* What a namespace, of a step that makes, deletes or leaves none, is told by.
LEMMA ArenasKept ==
  ASSUME HTypeOK, NoSilentLeak, UNCHANGED <<namespace, created, left>>,
         \A s \in Scenarios : leaked[s] \subseteq leaked'[s],
         \A s \in Scenarios : \A ns \in made[s] : pc[s] # "done" => ns \in made'[s] /\ pc'[s] # "done"
  PROVE  NoSilentLeak'
<1> SUFFICES ASSUME NEW ns \in Namespaces, namespace[ns] = "standing", created[ns] = "ours", ~ KeepArenas
             PROVE  (ToTearDown(ns) \/ ToldOf(ns) \/ left[ns] = "stranded")'
  BY DEF NoSilentLeak
<1>1. ToTearDown(ns) \/ ToldOf(ns) \/ left[ns] = "stranded"
  BY DEF NoSilentLeak
<1>2. ToTearDown(ns) => ToTearDown(ns)'
  BY DEF ToTearDown
<1>3. ToldOf(ns) => ToldOf(ns)'
  BY DEF ToldOf
<1> QED
  BY <1>1, <1>2, <1>3

\* A scenario returns without teardown only when it has made nothing.
LEMMA LeaveKeepsArenas ==
  ASSUME HTypeOK, NEW s \in Scenarios, Leave(s), made' = made, NEW t \in Scenarios,
         NEW ns \in made[t], pc[t] # "done"
  PROVE  pc'[t] # "done"
  BY DEF HTypeOK, Leave, Finish

LEMMA SetUpTold ==
  ASSUME HTypeOK, NoSilentLeak, NEW s \in Scenarios, NEW n \in Namespaces, SetUp(s, n)
  PROVE  NoSilentLeak'
<1>1. /\ pc' = pc /\ leaked' = leaked /\ pc[s] = "setup"
      /\ made' = [made EXCEPT ![s] = @ \cup {n}] /\ left' = [left EXCEPT ![n] = "no"]
      /\ namespace' = [namespace EXCEPT ![n] = "standing"]
      /\ created' = [created EXCEPT ![n] = IF @ = "unseen" THEN Claimed(n) ELSE @]
  BY DEF SetUp, Record
<1> SUFFICES ASSUME NEW ns \in Namespaces, namespace'[ns] = "standing", created'[ns] = "ours", ~ KeepArenas
             PROVE  (ToTearDown(ns) \/ ToldOf(ns) \/ left[ns] = "stranded")'
  BY DEF NoSilentLeak
<1>2. CASE ns = n
  <2>1. ns \in made'[s] /\ pc'[s] # "done"
    BY <1>1, <1>2 DEF HTypeOK
  <2> QED
    BY <2>1 DEF ToTearDown
<1>3. CASE ns # n
  <2>1. namespace[ns] = "standing" /\ created[ns] = "ours" /\ left'[ns] = left[ns]
    BY <1>1, <1>3 DEF HTypeOK
  <2>2. \A t \in Scenarios : made[t] \subseteq made'[t]
    BY <1>1 DEF HTypeOK
  <2> QED
    BY <1>1, <2>1, <2>2 DEF NoSilentLeak, ToTearDown, ToldOf
<1> QED
  BY <1>2, <1>3

\* A Setup that fails leaves every namespace as it was, or strands its own.
LEMMA SetUpFailsTold ==
  ASSUME HTypeOK, NoSilentLeak, NEW s \in Scenarios, NEW n \in Namespaces, SetUpFails(s, n)
  PROVE  NoSilentLeak'
<1>1. /\ leaked' = leaked /\ made' = made /\ Leave(s)
      /\ left' = [left EXCEPT ![n] = IF namespace' # namespace THEN "stranded" ELSE @]
      /\ namespace' \in {namespace, [namespace EXCEPT ![n] = "standing"]}
      /\ \/ created' = created /\ namespace' = namespace
         \/ /\ namespace[n] # "terminating"
            /\ created' = [created EXCEPT ![n] = IF @ = "unseen" THEN Claimed(n) ELSE @]
  BY DEF SetUpFails, Record
<1>2. \A t \in Scenarios : \A ns \in made[t] : pc[t] # "done" => ns \in made'[t] /\ pc'[t] # "done"
  BY <1>1, LeaveKeepsArenas
<1> SUFFICES ASSUME NEW ns \in Namespaces, namespace'[ns] = "standing", created'[ns] = "ours", ~ KeepArenas
             PROVE  (ToTearDown(ns) \/ ToldOf(ns) \/ left[ns] = "stranded")'
  BY DEF NoSilentLeak
<1>3. CASE namespace'[ns] # namespace[ns]
  <2>1. ns = n /\ namespace' # namespace
    BY <1>1, <1>3 DEF HTypeOK
  <2> QED
    BY <1>1, <2>1 DEF HTypeOK
<1>4. CASE namespace'[ns] = namespace[ns]
  <2>1. created[ns] = "ours"
    BY <1>1, <1>4 DEF HTypeOK, Claimed
  <2>2. left'[ns] \in {left[ns], "stranded"}
    BY <1>1 DEF HTypeOK
  <2>3. ToTearDown(ns) \/ ToldOf(ns) \/ left[ns] = "stranded"
    BY <1>4, <2>1 DEF NoSilentLeak
  <2>4. ToTearDown(ns) => ToTearDown(ns)'
    BY <1>2 DEF ToTearDown
  <2>5. ToldOf(ns) => (ToldOf(ns) \/ left[ns] = "stranded")'
    BY <1>1, <2>2 DEF ToldOf
  <2> QED
    BY <2>2, <2>3, <2>4, <2>5
<1> QED
  BY <1>3, <1>4

\* Teardown lets go of an arena that is kept, deleted or told of.
LEMMA LetGoTold ==
  ASSUME HTypeOK, NoSilentLeak, NEW s \in Scenarios, NEW n \in Namespaces,
         LeaveArena(s, n) \/ DestroyArena(s, n) \/ Leak(s, n)
  PROVE  NoSilentLeak'
<1> SUFFICES ASSUME NEW ns \in Namespaces, namespace'[ns] = "standing", created'[ns] = "ours", ~ KeepArenas
             PROVE  (ToTearDown(ns) \/ ToldOf(ns) \/ left[ns] = "stranded")'
  BY DEF NoSilentLeak
<1>1. /\ pc' = pc /\ created' = created
      /\ \A t \in Scenarios : leaked[t] \subseteq leaked'[t]
      /\ \A t \in Scenarios : made[t] \ {n} \subseteq made'[t]
  BY DEF HTypeOK, LeaveArena, DestroyArena, Leak, resultVars
<1>2. CASE ns # n
  <2>1. namespace[ns] = "standing" /\ left'[ns] = left[ns]
    BY <1>2 DEF HTypeOK, LeaveArena, DestroyArena, DeleteNamespace, Leak, resultVars, clusterVars
  <2> QED
    BY <1>1, <1>2, <2>1 DEF NoSilentLeak, ToTearDown, ToldOf
<1>3. CASE ns = n
  <2>1. ~ LeaveArena(s, n)
    BY <1>1, <1>3 DEF LeaveArena, LeftAlone
  <2>2. ~ DestroyArena(s, n)
    BY <1>3 DEF HTypeOK, DestroyArena, DeleteNamespace
  <2>3. Leak(s, n)
    BY <2>1, <2>2
  <2>4. left'[n] = "told" /\ n \in leaked'[s]
    BY <2>3 DEF HTypeOK, Leak
  <2> QED
    BY <1>3, <2>4 DEF ToldOf
<1> QED
  BY <1>2, <1>3

LEMMA NoSilentLeakStep == HTypeOK /\ NoSilentLeak /\ [HNext]_hvars => NoSilentLeak'
<1> SUFFICES ASSUME HTypeOK, NoSilentLeak, [HNext]_hvars PROVE NoSilentLeak'
  OBVIOUS
<1>1. ASSUME UNCHANGED <<namespace, created, left, leaked, made, pc>> PROVE NoSilentLeak'
  BY <1>1 DEF NoSilentLeak, ToTearDown, ToldOf
<1>2. ASSUME NEW s \in Scenarios, NEW from, from # "done", NEW to, to # "done", Goes(s, from, to),
             UNCHANGED <<namespace, created, left, leaked, made>>
      PROVE  NoSilentLeak'
  BY <1>2, ArenasKept DEF Goes, HTypeOK
<1>3. ASSUME NEW s \in Scenarios, Leave(s), UNCHANGED <<namespace, created, left, leaked, made>>
      PROVE  NoSilentLeak'
  <2>1. \A t \in Scenarios : \A ns \in made[t] : pc[t] # "done" => ns \in made'[t] /\ pc'[t] # "done"
    BY <1>3, LeaveKeepsArenas
  <2> QED
    BY <1>3, <2>1, ArenasKept
<1>4. CASE UNCHANGED hvars
  BY <1>1, <1>4 DEF hvars, resultVars, clusterVars
<1>5. ASSUME NEW s \in Scenarios, Acquire(s) PROVE NoSilentLeak'
  <2>1. CASE Start(s)
    BY <1>2, <2>1 DEF Start, resultVars, clusterVars
  <2>2. CASE EnterAlone(s) \/ Enter(s)
    BY <1>2, <2>2 DEF EnterAlone, Enter, resultVars, clusterVars
  <2>3. CASE LockCluster(s) \/ ReadLock(s) \/ \E ns \in Namespaces : LockNext(s, ns)
    BY <1>1, <2>3 DEF LockCluster, ReadLock, LockNext, resultVars, clusterVars
  <2> QED
    BY <1>5, <2>1, <2>2, <2>3 DEF Acquire
<1>6. ASSUME NEW s \in Scenarios, Perform(s) PROVE NoSilentLeak'
  <2>1. CASE SetUpDone(s) \/ DeployDone(s) \/ Ask(s)
    BY <1>2, <2>1 DEF SetUpDone, DeployDone, Ask, resultVars, clusterVars
  <2>2. CASE DeployFails(s) \/ Answered(s) \/ \E f \in Faults : InjectFails(s, f)
    BY <1>3, <2>2 DEF DeployFails, Answered, InjectFails, resultVars, clusterVars
  <2>3. CASE (\E ns \in Namespaces : Deploy(s, ns)) \/ (\E f \in Faults : Inject(s, f))
    BY <1>1, <2>3 DEF Deploy, Inject, resultVars, clusterVars
  <2>4. CASE \E ns \in Namespaces : SetUp(s, ns) \/ SetUpFails(s, ns)
    BY <2>4, SetUpTold, SetUpFailsTold
  <2> QED
    BY <1>6, <2>1, <2>2, <2>3, <2>4 DEF Perform
<1>7. ASSUME NEW s \in Scenarios, TakeDown(s) PROVE NoSilentLeak'
  <2>1. CASE ClearingDone(s) \/ WaitEnds(s) \/ Dismantled(s)
    BY <1>2, <2>1 DEF ClearingDone, WaitEnds, Dismantled, resultVars, clusterVars
  <2>2. CASE TeardownDone(s)
    <3>1. \A t \in Scenarios : \A ns \in made[t] : pc[t] # "done" => ns \in made'[t] /\ pc'[t] # "done"
      BY <2>2 DEF TeardownDone, Finish, HTypeOK
    <3> QED
      BY <2>2, <3>1, ArenasKept DEF TeardownDone, resultVars, clusterVars
  <2>3. CASE (\E f \in Faults : ClearOne(s, f) \/ ClearOneFails(s, f)) \/ (\E ns \in Namespaces : Dismantle(s, ns))
    BY <1>1, <2>3 DEF ClearOne, ClearOneFails, Dismantle, resultVars, clusterVars
  <2>4. CASE \E ns \in Namespaces : LeaveArena(s, ns) \/ DestroyArena(s, ns) \/ Leak(s, ns)
    BY <2>4, LetGoTold
  <2> QED
    BY <1>7, <2>1, <2>2, <2>3, <2>4 DEF TakeDown
<1>8. ASSUME NEW s \in Scenarios, Poll(s) \/ TimesOut(s) PROVE NoSilentLeak'
  BY <1>1, <1>8 DEF Poll, TimesOut, resultVars, clusterVars
<1>9. CASE World
  <2>1. CASE Cancel \/ (\E f \in Faults : Expire(f) \/ Finalize(f)) \/ \E s \in Scenarios, f \in Faults : Remediate(s, f)
    BY <1>1, <2>1 DEF Cancel, Expire, Finalize, Remediate, resultVars, clusterVars
  <2>2. ASSUME NEW n \in Namespaces, Terminated(n) PROVE NoSilentLeak'
    <3> SUFFICES ASSUME NEW ns \in Namespaces, namespace'[ns] = "standing", created'[ns] = "ours", ~ KeepArenas
                 PROVE  (ToTearDown(ns) \/ ToldOf(ns) \/ left[ns] = "stranded")'
      BY DEF NoSilentLeak
    <3>1. namespace[ns] = "standing" /\ UNCHANGED <<created, left, leaked, made, pc>>
      BY <2>2 DEF Terminated, HTypeOK, resultVars
    <3> QED
      BY <3>1 DEF NoSilentLeak, ToTearDown, ToldOf
  <2> QED
    BY <1>9, <2>1, <2>2 DEF World
<1> QED
  BY <1>4, <1>5, <1>6, <1>7, <1>8, <1>9 DEF HNext, ScenarioStep

\* For any pack, locks and concurrency: a namespace the run made stands after it only on
\* record as leaked, to be kept, or made by a Setup that then failed (Runner.setup,
\* KubeArena.Teardown, Runner.destroyArena).
THEOREM NeverSilentLeak == HSpec => []NoSilentLeak
<1>1. HInit => NoSilentLeak
  BY DEF HInit, NoSilentLeak
<1> QED
  BY <1>1, NoSilentLeakStep, HarnessTypes, PTL DEF HSpec

\* What existed before the run is standing and never taken for ours: the
\* lookup finds it, whoever makes it.
BorrowedInv == \A ns \in Existing : namespace[ns] = "standing" /\ created[ns] # "ours"

LEMMA BorrowedStep == HTypeOK /\ BorrowedInv /\ [HNext]_hvars => BorrowedInv'
<1> SUFFICES ASSUME HTypeOK, BorrowedInv, [HNext]_hvars PROVE BorrowedInv'
  OBVIOUS
<1>1. CASE UNCHANGED <<created, namespace>>
  BY <1>1 DEF BorrowedInv
<1>2. ASSUME NEW s \in Scenarios, NEW ns \in Namespaces, SetUp(s, ns) PROVE BorrowedInv'
  BY <1>2 DEF HTypeOK, BorrowedInv, SetUp, Record, Claimed
<1>3. ASSUME NEW s \in Scenarios, NEW ns \in Namespaces, SetUpFails(s, ns) PROVE BorrowedInv'
  BY <1>1, <1>3 DEF HTypeOK, BorrowedInv, SetUpFails, Record, Claimed
<1>4. ASSUME NEW s \in Scenarios, NEW ns \in Namespaces, DestroyArena(s, ns) PROVE BorrowedInv'
  BY <1>4 DEF HTypeOK, BorrowedInv, DestroyArena, DeleteNamespace, LeftAlone
<1>5. ASSUME NEW ns \in Namespaces, Terminated(ns) PROVE BorrowedInv'
  BY <1>5 DEF HTypeOK, BorrowedInv, Terminated
<1>6. CASE UNCHANGED hvars
  BY <1>1, <1>6 DEF hvars, clusterVars
<1>7. ASSUME NEW s \in Scenarios, Acquire(s) \/ Poll(s) \/ TimesOut(s) PROVE BorrowedInv'
  BY <1>1, <1>7 DEF Acquire, Start, LockCluster, EnterAlone, ReadLock, Enter, LockNext, Poll, TimesOut,
                    clusterVars
<1>8. ASSUME NEW s \in Scenarios, Perform(s) PROVE BorrowedInv'
  BY <1>1, <1>2, <1>3, <1>8 DEF Perform, SetUpDone, DeployFails, DeployDone, Ask, Answered, Deploy,
                                Inject, InjectFails, clusterVars
<1>9. ASSUME NEW s \in Scenarios, TakeDown(s) PROVE BorrowedInv'
  BY <1>1, <1>4, <1>9 DEF TakeDown, ClearingDone, WaitEnds, Dismantled, TeardownDone, ClearOne,
                          ClearOneFails, Dismantle, LeaveArena, Leak, clusterVars
<1>10. CASE World
  BY <1>1, <1>5, <1>10 DEF World, Cancel, Expire, Finalize, Remediate, clusterVars
<1> QED
  BY <1>6, <1>7, <1>8, <1>9, <1>10 DEF HNext, ScenarioStep

\* A namespace that was there before the run outlives it (KubeArena.claim,
\* isOurs).
THEOREM BorrowedAlwaysKept == HSpec => []BorrowedKept
<1>1. HInit => BorrowedInv
  BY DEF HInit, BorrowedInv
<1>2. BorrowedInv => BorrowedKept
  BY DEF BorrowedInv, BorrowedKept
<1> QED
  BY <1>1, <1>2, BorrowedStep, HarnessTypes, PTL DEF HSpec

(***************************************************************************)
(* The fence.                                                              *)
(***************************************************************************)
\* The locks behind Fenced: the writer is one control, a reader needs
\* namespaces, no namespace lock has two holders, and a scenario at work
\* holds all it needs, a control with no reader beside it.
LockInv ==
    /\ \A s \in writer : Needs(s) = {} /\ writer = {s}
    /\ \A s \in readers : Needs(s) # {}
    /\ \A s, t \in Scenarios : s # t => locked[s] \cap locked[t] = {}
    /\ \A s \in Holding :
          IF Needs(s) = {} THEN s \in writer /\ readers = {}
          ELSE s \in readers /\ locked[s] = Needs(s)

LEMMA LockFences == LockInv => Fenced
<1> SUFFICES ASSUME LockInv, NEW s \in Holding, NEW t \in Holding, s # t
             PROVE  Needs(s) # {} /\ Needs(s) \cap Needs(t) = {}
  BY DEF Fenced
<1>1. s \in Scenarios /\ t \in Scenarios
  BY DEF Holding
<1>2. Needs(s) # {}
  BY DEF LockInv
<1>3. Needs(t) # {}
  BY <1>2 DEF LockInv
<1> QED
  BY <1>1, <1>2, <1>3 DEF LockInv

\* A step inside the fence: nobody enters or leaves, and no lock moves.
LEMMA InsideFence ==
  ASSUME HTypeOK, LockInv, UNCHANGED lockVars, Holding' \subseteq Holding
  PROVE  LockInv'
  BY DEF LockInv, lockVars

\* A scenario at work that moves on to another phase of it.
LEMMA MovesOn ==
  ASSUME HTypeOK, LockInv, UNCHANGED lockVars, NEW s \in Holding, NEW to, pc' = [pc EXCEPT ![s] = to]
  PROVE  LockInv'
<1> Holding' \subseteq Holding
  BY DEF HTypeOK, Holding
<1> QED
  BY InsideFence

\* A scenario that returns lets go of what it held.
LEMMA FinishKeepsLocks ==
  ASSUME HTypeOK, LockInv, NEW s \in Holding, Finish(s)
  PROVE  LockInv'
<1> s \in Scenarios
  BY DEF Holding
<1>1. Holding' = Holding \ {s}
  BY DEF HTypeOK, Holding, Finish, Working, Teardown
<1>2. \A t \in Scenarios : locked'[t] = IF t = s THEN {} ELSE locked[t]
  BY DEF HTypeOK, Finish
<1>3. readers' = readers \ {s} /\ writer' = writer \ {s}
  BY DEF Finish
<1>4. \A t \in writer' : Needs(t) = {} /\ writer' = {t}
  BY <1>3 DEF LockInv
<1>5. \A t \in readers' : Needs(t) # {}
  BY <1>3 DEF LockInv
<1>6. \A t, u \in Scenarios : t # u => locked'[t] \cap locked'[u] = {}
  BY <1>2 DEF LockInv
<1>7. ASSUME NEW t \in Holding'
      PROVE  IF Needs(t) = {} THEN t \in writer' /\ readers' = {}
             ELSE t \in readers' /\ locked'[t] = Needs(t)
  <2> t \in Scenarios /\ t \in Holding /\ t # s
    BY <1>1, <1>7 DEF Holding
  <2> QED
    BY <1>2, <1>3 DEF LockInv
<1> QED
  BY <1>4, <1>5, <1>6, <1>7 DEF LockInv, Needs, FaultsOf

LEMMA LeaveKeepsLocks ==
  ASSUME HTypeOK, LockInv, NEW s \in Holding, Leave(s)
  PROVE  LockInv'
  BY FinishKeepsLocks, MovesOn DEF Leave

LEMMA AcquireKeepsLocks ==
  ASSUME HTypeOK, LockInv, NEW s \in Scenarios, Acquire(s)
  PROVE  LockInv'
<1>1. CASE Start(s)
  <2> Holding' \subseteq Holding /\ UNCHANGED lockVars
    BY <1>1 DEF Start, Goes, HTypeOK, Holding, Working, Teardown
  <2> QED
    BY InsideFence
<1>2. CASE LockCluster(s)
  <2>1. Holding' = Holding
    BY <1>2 DEF LockCluster, Holding
  <2> QED
    BY <1>2, <2>1 DEF LockCluster, LockInv
<1>3. CASE EnterAlone(s)
  <2>1. Holding' = Holding \cup {s}
    BY <1>3 DEF EnterAlone, Goes, HTypeOK, Holding, Working, Teardown
  <2> QED
    BY <1>3, <2>1 DEF EnterAlone, LockInv, lockVars
<1>4. CASE ReadLock(s)
  <2>1. Holding' = Holding
    BY <1>4 DEF ReadLock, Holding
  <2> QED
    BY <1>4, <2>1 DEF ReadLock, LockInv
<1>5. CASE Enter(s)
  <2>1. Holding' = Holding \cup {s}
    BY <1>5 DEF Enter, Goes, HTypeOK, Holding, Working, Teardown
  <2> QED
    BY <1>5, <2>1 DEF Enter, LockInv, lockVars
<1>6. ASSUME NEW ns \in Namespaces, LockNext(s, ns) PROVE LockInv'
  <2>1. Holding' = Holding /\ s \notin Holding
    BY <1>6 DEF LockNext, Holding, Working, Teardown
  <2>2. \A t \in Scenarios : locked'[t] = IF t = s THEN locked[s] \cup {ns} ELSE locked[t]
    BY <1>6 DEF LockNext, HTypeOK
  <2>3. \A t, u \in Scenarios : t # u => locked'[t] \cap locked'[u] = {}
    BY <1>6, <2>2 DEF LockNext, Free, LockInv
  <2>4. \A t \in Holding : t \in Scenarios /\ locked'[t] = locked[t]
    BY <2>1, <2>2 DEF Holding
  <2> QED
    BY <1>6, <2>1, <2>3, <2>4 DEF LockNext, LockInv
<1> QED
  BY <1>1, <1>2, <1>3, <1>4, <1>5, <1>6 DEF Acquire

LEMMA PerformKeepsLocks ==
  ASSUME HTypeOK, LockInv, NEW s \in Scenarios, Perform(s)
  PROVE  LockInv'
<1>1. s \in Holding
  BY DEF Perform, SetUpDone, DeployFails, DeployDone, Ask, Answered, SetUp, SetUpFails, Deploy, Inject,
         InjectFails, Goes, Holding, Working
<1>2. CASE UNCHANGED <<pc, lockVars>>
  BY <1>2, InsideFence DEF Holding
<1> QED
  BY <1>1, <1>2, MovesOn, LeaveKeepsLocks
     DEF Perform, SetUpDone, DeployFails, DeployDone, Ask, Answered, SetUp, SetUpFails, Deploy, Inject,
         InjectFails, Goes

LEMMA TakeDownKeepsLocks ==
  ASSUME HTypeOK, LockInv, NEW s \in Scenarios, TakeDown(s)
  PROVE  LockInv'
<1>1. s \in Holding
  BY DEF TakeDown, ClearingDone, WaitEnds, Dismantled, TeardownDone, ClearOne, ClearOneFails, Dismantle,
         LeaveArena, DestroyArena, Leak, Goes, Holding, Teardown
<1>2. CASE UNCHANGED <<pc, lockVars>>
  BY <1>2, InsideFence DEF Holding
<1> QED
  BY <1>1, <1>2, MovesOn, FinishKeepsLocks
     DEF TakeDown, ClearingDone, WaitEnds, Dismantled, TeardownDone, ClearOne, ClearOneFails, Dismantle,
         LeaveArena, DestroyArena, Leak, Goes

LEMMA LockStep == HTypeOK /\ LockInv /\ [HNext]_hvars => LockInv'
<1> SUFFICES ASSUME HTypeOK, LockInv, [HNext]_hvars PROVE LockInv'
  OBVIOUS
<1>1. CASE UNCHANGED <<pc, lockVars>>
  BY <1>1, InsideFence DEF Holding
<1>2. CASE UNCHANGED hvars
  BY <1>1, <1>2 DEF hvars
<1>3. ASSUME NEW s \in Scenarios, Poll(s) \/ TimesOut(s) PROVE LockInv'
  BY <1>1, <1>3 DEF Poll, TimesOut
<1>4. CASE World
  BY <1>1, <1>4 DEF World, Cancel, Expire, Finalize, Remediate, Terminated
<1> QED
  BY <1>2, <1>3, <1>4, AcquireKeepsLocks, PerformKeepsLocks, TakeDownKeepsLocks DEF HNext, ScenarioStep

\* No two scenarios are ever at work in one namespace, nor any beside a
\* control (namespaceLocks.acquire, Runner.Run).
THEOREM FencedAlways == HSpec => []Fenced
<1>1. HInit => LockInv
  BY DEF HInit, LockInv, Holding, Working, Teardown
<1> QED
  BY <1>1, LockStep, LockFences, HarnessTypes, PTL DEF HSpec

(***************************************************************************)
(* What a scenario leaves behind.                                          *)
(***************************************************************************)
Furnished == {"deploying", "injecting", "asking"}
Injected == {"injecting", "asking"} \cup Teardown \cup {"done"}

\* A fault object that a scenario may leave in the cluster without being silent.
Accounted(f) ==
    \/ Home[f] \in leaked[By[f]]
    \/ LeftAlone(Home[f])
    \/ f \notin Counted /\ object[f] = "deleting"

\* A scenario injects only where it has set up every namespace it needs, and what is
\* set up has been claimed.
MadeTrue ==
    /\ \A s \in Scenarios : pc[s] \in Furnished => made[s] = Needs(s)
    /\ \A s \in Scenarios : \A ns \in made[s] : created[ns] # "unseen"

\* An object is in a namespace that was claimed, and of a scenario that has injected;
\* while that one tears down the arena is still to be destroyed or the object is
\* accounted for, and when it is done the object is.
LeftTrue ==
    \A f \in Faults : object[f] # "none" =>
        /\ created[Home[f]] # "unseen"
        /\ pc[By[f]] \in Injected
        /\ pc[By[f]] \in Teardown => Home[f] \in made[By[f]] \/ Accounted(f)
        /\ pc[By[f]] = "done" => Accounted(f)

LeftInv == MadeTrue /\ LeftTrue

LEMMA OwnHome == \A f \in Faults : By[f] \in Scenarios /\ Home[f] \in Namespaces /\ Home[f] \in Needs(By[f])
  BY DEF Needs, FaultsOf

\* Objects go, in steps, and nothing else happens that matters here.
LEMMA ObjectsFade ==
  ASSUME HTypeOK, LeftInv, UNCHANGED <<pc, made, created, leaked>>,
         \A f \in Faults : object'[f] # "none" =>
             object[f] # "none" /\ (object[f] = "deleting" => object'[f] = "deleting")
  PROVE  LeftInv'
<1>1. MadeTrue'
  BY DEF LeftInv, MadeTrue
<1>2. LeftTrue'
  BY DEF LeftInv, LeftTrue, Accounted, LeftAlone
<1> QED
  BY <1>1, <1>2 DEF LeftInv

\* A scenario goes on to its next phase.
LEMMA PhaseMoves ==
  ASSUME HTypeOK, LeftInv, UNCHANGED <<made, created, leaked, object>>, NEW s \in Scenarios, NEW to \in Phases,
         pc' = [pc EXCEPT ![s] = to], to # "done", pc[s] # "done",
         to \in Furnished => made[s] = Needs(s), pc[s] \in Injected => to \in Injected,
         to \in Teardown => pc[s] \in Teardown
  PROVE  LeftInv'
<1>1. pc'[s] = to /\ \A t \in Scenarios : t # s => pc'[t] = pc[t]
  BY DEF HTypeOK
<1>2. MadeTrue'
  BY <1>1 DEF LeftInv, MadeTrue
<1>3. LeftTrue'
  BY <1>1, OwnHome DEF LeftInv, LeftTrue, Accounted, LeftAlone
<1> QED
  BY <1>2, <1>3 DEF LeftInv

LEMMA AcquireLeaves ==
  ASSUME HTypeOK, LeftInv, NEW s \in Scenarios, Acquire(s)
  PROVE  LeftInv'
<1>1. CASE Start(s)
  BY <1>1, PhaseMoves DEF Start, Goes, resultVars, clusterVars, Phases, Fencing, Furnished, Injected, Teardown
<1>2. CASE EnterAlone(s) \/ Enter(s)
  BY <1>2, PhaseMoves
     DEF EnterAlone, Enter, Goes, resultVars, clusterVars, Phases, Working, Furnished, Injected, Teardown
<1>3. CASE LockCluster(s) \/ ReadLock(s) \/ \E ns \in Namespaces : LockNext(s, ns)
  BY <1>3, ObjectsFade DEF LockCluster, ReadLock, LockNext, resultVars, clusterVars
<1> QED
  BY <1>1, <1>2, <1>3 DEF Acquire

\* A scenario that stops early, with what it has set up: where it has injected, that is
\* every namespace it needs, and its teardown follows.
LEMMA LeaveLeaves ==
  ASSUME HTypeOK, LeftInv, NEW s \in Scenarios, pc[s] \in Working, Leave(s), UNCHANGED <<made, leaked>>,
         \A ns \in Namespaces : created[ns] # "unseen" => created'[ns] = created[ns],
         \A f \in Faults : By[f] # s \/ pc[s] \notin Injected => object'[f] = object[f]
  PROVE  LeftInv'
<1>1. pc'[s] \in {"clearing", "done"} /\ \A t \in Scenarios : t # s => pc'[t] = pc[t]
  BY DEF Leave, Finish, HTypeOK
<1>2. pc'[s] = "done" => made[s] = {}
  BY DEF Leave, HTypeOK
<1>3. made[s] \subseteq Namespaces /\ \A t \in Scenarios : made[t] \subseteq Namespaces
  BY DEF HTypeOK
<1>4. MadeTrue'
  BY <1>1, <1>3 DEF LeftInv, MadeTrue, Furnished
<1>5. ASSUME NEW f \in Faults, object'[f] # "none"
      PROVE  /\ created'[Home[f]] # "unseen"
             /\ pc'[By[f]] \in Injected
             /\ pc'[By[f]] \in Teardown => Home[f] \in made'[By[f]] \/ Accounted(f)'
             /\ pc'[By[f]] = "done" => Accounted(f)'
  <2>1. By[f] \in Scenarios /\ Home[f] \in Namespaces /\ Home[f] \in Needs(By[f])
    BY OwnHome
  <2>2. CASE By[f] # s
    <3>1. /\ created[Home[f]] # "unseen" /\ pc[By[f]] \in Injected
          /\ pc[By[f]] \in Teardown => Home[f] \in made[By[f]] \/ Accounted(f)
          /\ pc[By[f]] = "done" => Accounted(f)
      BY <1>5, <2>2 DEF LeftInv, LeftTrue
    <3>2. created'[Home[f]] = created[Home[f]] /\ pc'[By[f]] = pc[By[f]] /\ object'[f] = object[f]
      BY <1>1, <2>1, <2>2, <3>1
    <3>3. Accounted(f) => Accounted(f)'
      BY <3>2 DEF Accounted, LeftAlone
    <3> QED
      BY <3>1, <3>2, <3>3
  <2>3. CASE By[f] = s
    <3>1. pc[s] \in Injected
      BY <1>5, <2>3 DEF LeftInv, LeftTrue
    <3>2. pc[s] \in Furnished
      BY <3>1 DEF Injected, Working, Teardown, Furnished
    <3>3. Home[f] \in made[s] /\ created[Home[f]] # "unseen"
      BY <2>1, <2>3, <3>2 DEF LeftInv, MadeTrue
    <3>4. pc'[s] = "clearing" /\ created'[Home[f]] # "unseen"
      <4>1. made[s] # {}
        BY <3>3
      <4> QED
        BY <1>1, <1>2, <2>1, <3>3, <4>1
    <3> QED
      BY <2>3, <3>3, <3>4 DEF Injected, Teardown
  <2> QED
    BY <2>2, <2>3
<1>6. LeftTrue'
  BY <1>5 DEF LeftTrue
<1> QED
  BY <1>4, <1>6 DEF LeftInv

LEMMA RecordKeeps ==
  ASSUME HTypeOK, NEW ns \in Namespaces, Record(ns)
  PROVE  /\ created'[ns] # "unseen"
         /\ \A m \in Namespaces : created[m] # "unseen" => created'[m] = created[m]
  BY DEF Record, HTypeOK, Claimed

LEMMA SetUpLeaves ==
  ASSUME HTypeOK, LeftInv, NEW s \in Scenarios, NEW ns \in Namespaces, SetUp(s, ns)
  PROVE  LeftInv'
<1>1. /\ pc[s] = "setup" /\ Record(ns) /\ made' = [made EXCEPT ![s] = @ \cup {ns}]
      /\ pc' = pc /\ object' = object /\ leaked' = leaked
  BY DEF SetUp, resultVars
<1>2. created'[ns] # "unseen" /\ \A m \in Namespaces : created[m] # "unseen" => created'[m] = created[m]
  BY <1>1, RecordKeeps
<1>3. \A t \in Scenarios : made[t] \subseteq Namespaces /\ made'[t] = IF t = s THEN made[t] \cup {ns} ELSE made[t]
  BY <1>1 DEF HTypeOK
<1>4. MadeTrue'
  <2>1. \A t \in Scenarios : pc'[t] \in Furnished => made'[t] = Needs(t)
    BY <1>1, <1>3 DEF LeftInv, MadeTrue, Furnished
  <2>2. ASSUME NEW t \in Scenarios, NEW m \in made'[t] PROVE created'[m] # "unseen"
    <3>1. m = ns \/ m \in made[t]
      BY <1>3, <2>2
    <3>2. m \in made[t] => m \in Namespaces /\ created[m] # "unseen"
      BY <1>3 DEF LeftInv, MadeTrue
    <3> QED
      BY <1>2, <3>1, <3>2
  <2> QED
    BY <2>1, <2>2 DEF MadeTrue, Needs, FaultsOf
<1>5. ASSUME NEW f \in Faults, object'[f] # "none"
      PROVE  /\ created'[Home[f]] # "unseen"
             /\ pc'[By[f]] \in Injected
             /\ pc'[By[f]] \in Teardown => Home[f] \in made'[By[f]] \/ Accounted(f)'
             /\ pc'[By[f]] = "done" => Accounted(f)'
  <2>1. /\ created[Home[f]] # "unseen" /\ pc[By[f]] \in Injected
        /\ pc[By[f]] \in Teardown => Home[f] \in made[By[f]] \/ Accounted(f)
        /\ pc[By[f]] = "done" => Accounted(f)
    BY <1>1, <1>5 DEF LeftInv, LeftTrue
  <2>2. created'[Home[f]] = created[Home[f]]
    BY <1>2, <2>1, OwnHome
  <2>3. Accounted(f) => Accounted(f)'
    BY <1>1, <2>2 DEF Accounted, LeftAlone
  <2> QED
    BY <1>1, <1>3, <2>1, <2>2, <2>3, OwnHome
<1>6. LeftTrue'
  BY <1>5 DEF LeftTrue
<1> QED
  BY <1>4, <1>6 DEF LeftInv

LEMMA InjectLeaves ==
  ASSUME HTypeOK, LeftInv, NEW s \in Scenarios, NEW f \in Faults, Inject(s, f)
  PROVE  LeftInv'
<1>1. /\ pc[s] = "injecting" /\ By[f] = s /\ object' = [object EXCEPT ![f] = "live"]
      /\ UNCHANGED <<pc, made, created, leaked>>
  BY DEF Inject, First, FaultsOf, resultVars
<1>2. MadeTrue'
  BY <1>1 DEF LeftInv, MadeTrue
<1>3. created[Home[f]] # "unseen"
  BY <1>1, OwnHome DEF LeftInv, MadeTrue, Furnished
<1>4. \A g \in Faults : g # f => object'[g] = object[g]
  BY <1>1 DEF HTypeOK
<1>5. LeftTrue'
  BY <1>1, <1>3, <1>4 DEF LeftInv, LeftTrue, Accounted, LeftAlone, Injected, Teardown
<1> QED
  BY <1>2, <1>5 DEF LeftInv

LEMMA PerformLeaves ==
  ASSUME HTypeOK, LeftInv, NEW s \in Scenarios, Perform(s)
  PROVE  LeftInv'
<1>1. CASE SetUpDone(s)
  BY <1>1, PhaseMoves
     DEF SetUpDone, Goes, resultVars, clusterVars, Phases, Working, Furnished, Injected, Teardown
<1>2. CASE DeployDone(s) \/ Ask(s)
  <2>1. made[s] = Needs(s)
    BY <1>2 DEF DeployDone, Ask, Goes, LeftInv, MadeTrue, Furnished
  <2> QED
    BY <1>2, <2>1, PhaseMoves
       DEF DeployDone, Ask, Goes, resultVars, clusterVars, Phases, Working, Furnished, Injected, Teardown
<1>3. CASE DeployFails(s) \/ Answered(s)
  BY <1>3, LeaveLeaves DEF DeployFails, Answered, resultVars, clusterVars, Working
<1>4. ASSUME NEW ns \in Namespaces, SetUpFails(s, ns) PROVE LeftInv'
  <2>1. \A m \in Namespaces : created[m] # "unseen" => created'[m] = created[m]
    BY <1>4, RecordKeeps DEF SetUpFails
  <2> QED
    BY <1>4, <2>1, LeaveLeaves DEF SetUpFails, resultVars, Working
<1>5. ASSUME NEW f \in Faults, InjectFails(s, f) PROVE LeftInv'
  <2>1. By[f] = s /\ pc[s] = "injecting" /\ pc[s] \in Injected /\ pc[s] \in Working
    BY <1>5 DEF InjectFails, First, FaultsOf, Injected, Working
  <2>2. \A g \in Faults : g # f => object'[g] = object[g]
    BY <1>5 DEF InjectFails, HTypeOK
  <2> QED
    BY <1>5, <2>1, <2>2, LeaveLeaves DEF InjectFails, resultVars
<1>6. ASSUME NEW ns \in Namespaces, Deploy(s, ns) PROVE LeftInv'
  BY <1>6, ObjectsFade DEF Deploy, resultVars, clusterVars
<1> QED
  BY <1>1, <1>2, <1>3, <1>4, <1>5, <1>6, SetUpLeaves, InjectLeaves DEF Perform

\* Teardown takes an arena off its list: it leaves it alone, has it deleted, which
\* a counted object in it prevents, or reports it.
LEMMA ArenaOff ==
  ASSUME HTypeOK, LeftInv, NEW s \in Scenarios, NEW ns \in Namespaces,
         LeaveArena(s, ns) \/ DestroyArena(s, ns) \/ Leak(s, ns)
  PROVE  LeftInv'
<1>1. /\ pc[s] = "destroying" /\ pc' = pc /\ created' = created
      /\ made' \in {made, [made EXCEPT ![s] = @ \ {ns}]}
  BY DEF LeaveArena, DestroyArena, Leak, clusterVars
<1>2. \A t \in Scenarios : /\ made'[t] \subseteq made[t] /\ made[t] \ made'[t] \subseteq {ns}
                           /\ t # s => made'[t] = made[t]
  BY <1>1 DEF HTypeOK
<1>3. \A t \in Scenarios : leaked[t] \subseteq leaked'[t]
  BY DEF LeaveArena, DestroyArena, Leak, resultVars, HTypeOK
<1>4. \A f \in Faults : object'[f] # "none" =>
             object[f] # "none" /\ (object[f] = "deleting" => object'[f] = "deleting")
  BY DEF LeaveArena, DestroyArena, DeleteNamespace, Deleted, Leak, clusterVars
<1>5. MadeTrue'
  BY <1>1, <1>2 DEF LeftInv, MadeTrue, Furnished
<1>6. ASSUME NEW f \in Faults, By[f] = s, Home[f] = ns, object'[f] # "none" PROVE Accounted(f)'
  <2>1. CASE LeaveArena(s, ns)
    BY <1>1, <1>6, <2>1 DEF LeaveArena, Accounted, LeftAlone
  <2>2. CASE Leak(s, ns)
    BY <1>6, <2>2 DEF Leak, Accounted, HTypeOK
  <2>3. CASE DestroyArena(s, ns)
    <3>1. f \notin Counted
      BY <1>4, <1>6, <2>3 DEF DestroyArena, Refuses
    <3>2. object'[f] = "deleting"
      BY <1>6, <2>3 DEF DestroyArena, DeleteNamespace, Deleted
    <3> QED
      BY <3>1, <3>2 DEF Accounted
  <2> QED
    BY <2>1, <2>2, <2>3
<1>7. ASSUME NEW f \in Faults, object'[f] # "none"
      PROVE  /\ created'[Home[f]] # "unseen"
             /\ pc'[By[f]] \in Injected
             /\ pc'[By[f]] \in Teardown => Home[f] \in made'[By[f]] \/ Accounted(f)'
             /\ pc'[By[f]] = "done" => Accounted(f)'
  <2>1. /\ created[Home[f]] # "unseen" /\ pc[By[f]] \in Injected
        /\ pc[By[f]] \in Teardown => Home[f] \in made[By[f]] \/ Accounted(f)
        /\ pc[By[f]] = "done" => Accounted(f)
    BY <1>4, <1>7 DEF LeftInv, LeftTrue
  <2>2. By[f] \in Scenarios
    BY OwnHome
  <2>3. Accounted(f) => Accounted(f)'
    BY <1>1, <1>3, <1>4, <1>7, <2>2 DEF Accounted, LeftAlone
  <2>4. Home[f] \in made[By[f]] => Home[f] \in made'[By[f]] \/ Accounted(f)'
    BY <1>2, <1>6, <1>7, <2>2
  <2> QED
    BY <1>1, <2>1, <2>3, <2>4
<1>8. LeftTrue'
  BY <1>7 DEF LeftTrue
<1> QED
  BY <1>5, <1>8 DEF LeftInv

LEMMA TakeDownLeaves ==
  ASSUME HTypeOK, LeftInv, NEW s \in Scenarios, TakeDown(s)
  PROVE  LeftInv'
<1>1. CASE ClearingDone(s) \/ WaitEnds(s) \/ Dismantled(s)
  BY <1>1, PhaseMoves
     DEF ClearingDone, WaitEnds, Dismantled, Goes, resultVars, clusterVars, Phases, Furnished, Injected, Teardown
<1>2. CASE TeardownDone(s)
  <2>1. /\ pc[s] = "destroying" /\ made[s] = {} /\ UNCHANGED <<made, created, leaked, object>>
        /\ pc'[s] = "done" /\ \A t \in Scenarios : t # s => pc'[t] = pc[t]
    BY <1>2 DEF TeardownDone, Finish, HTypeOK, resultVars, clusterVars
  <2>2. MadeTrue'
    BY <2>1 DEF LeftInv, MadeTrue, Furnished
  <2>3. LeftTrue'
    BY <2>1, OwnHome DEF LeftInv, LeftTrue, Accounted, LeftAlone, Injected, Teardown
  <2> QED
    BY <2>2, <2>3 DEF LeftInv
<1>3. ASSUME NEW f \in Faults, ClearOne(s, f) \/ ClearOneFails(s, f) PROVE LeftInv'
  <2>1. \A g \in Faults : object'[g] # "none" =>
             object[g] # "none" /\ (object[g] = "deleting" => object'[g] = "deleting")
    BY <1>3 DEF ClearOne, ClearOneFails, Deleted, HTypeOK
  <2> QED
    BY <1>3, <2>1, ObjectsFade DEF ClearOne, ClearOneFails, resultVars
<1>4. ASSUME NEW ns \in Namespaces, Dismantle(s, ns) PROVE LeftInv'
  BY <1>4, ObjectsFade DEF Dismantle, resultVars, clusterVars
<1> QED
  BY <1>1, <1>2, <1>3, <1>4, ArenaOff DEF TakeDown

LEMMA WorldLeaves ==
  ASSUME HTypeOK, LeftInv, World
  PROVE  LeftInv'
<1>1. \A g \in Faults : object'[g] # "none" =>
             object[g] # "none" /\ (object[g] = "deleting" => object'[g] = "deleting")
  BY DEF World, Cancel, Expire, Finalize, Remediate, Terminated, Deleted, HTypeOK, clusterVars
<1> QED
  BY <1>1, ObjectsFade DEF World, Cancel, Expire, Finalize, Remediate, Terminated, resultVars

LEMMA LeftStep == HTypeOK /\ LeftInv /\ [HNext]_hvars => LeftInv'
<1> SUFFICES ASSUME HTypeOK, LeftInv, [HNext]_hvars PROVE LeftInv'
  OBVIOUS
<1>1. CASE UNCHANGED hvars
  BY <1>1, ObjectsFade DEF hvars, resultVars, clusterVars
<1>2. ASSUME NEW s \in Scenarios, Poll(s) \/ TimesOut(s) PROVE LeftInv'
  BY <1>2, ObjectsFade DEF Poll, TimesOut, resultVars, clusterVars
<1> QED
  BY <1>1, <1>2, AcquireLeaves, PerformLeaves, TakeDownLeaves, WorldLeaves DEF HNext, ScenarioStep

LEMMA LeftGives == LeftInv /\ Fenced => SubjectAlone
<1> SUFFICES ASSUME LeftInv, Fenced, NEW s \in Scenarios, NEW f \in Faults, pc[s] = "asking", Seen(s, f)
             PROVE  pc[By[f]] = "done" /\ Accounted(f)
  BY DEF SubjectAlone, Accounted
<1>1. By[f] \in Scenarios /\ By[f] # s /\ object[f] # "none" /\ Home[f] \in Needs(By[f])
  BY OwnHome DEF Seen
<1>2. pc[By[f]] \in Injected /\ (pc[By[f]] = "done" => Accounted(f))
  BY <1>1 DEF LeftInv, LeftTrue
<1>3. By[f] \notin Holding
  <2> SUFFICES ASSUME By[f] \in Holding PROVE FALSE
    OBVIOUS
  <2>1. s \in Holding
    BY DEF Holding, Working
  <2> QED
    BY <1>1, <2>1 DEF Fenced, Seen
<1> QED
  BY <1>1, <1>2, <1>3 DEF Holding, Injected, Working, Teardown

\* For any pack, whichever calls fail, whenever the run is cancelled and however the
\* scenarios overlap: what a subject sees of another scenario's faults belongs to one
\* that is done, and was reported as leaked, sits in a namespace the harness must leave
\* alone, or is going away uncounted (Runner.teardown, KubeArena.Teardown).
THEOREM SubjectAlwaysAlone == HSpec => []SubjectAlone
<1>1. HInit => LeftInv
  BY DEF HInit, LeftInv, MadeTrue, LeftTrue, Furnished
<1> QED
  BY <1>1, LeftStep, LeftGives, FencedAlways, HarnessTypes, PTL DEF HSpec
=============================================================================
