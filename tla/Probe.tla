------------------------------- MODULE Probe -------------------------------
(***************************************************************************)
(* The efficacy gate: pkg/probe's probers and the two stages in which the  *)
(* executor runs the probes of a manifest.  A prober asks the cluster over *)
(* and over until the condition holds, its timeout is over or its context  *)
(* ends.  A network fault is gated by a pair: reachable before (SOT),      *)
(* unreachable or slow after (Settle).  A round asks pod after pod and     *)
(* every connection takes its time, so the world moves during a round.     *)
(***************************************************************************)
EXTENDS Integers, Sequences, FiniteSets

CONSTANTS
    TPods,            \* the pods of the target
    Manifests,        \* the manifests of the run
    RequestTimeout,   \* the default request_timeout
    Timeout,          \* the budget of a probe
    Interval,
    MaxChanges,       \* bound on the changes of pods that no fault made
    MaxListErrors     \* bound on the API calls that fail

ASSUME ProbeAssumption ==
    /\ RequestTimeout \in Nat \ {0} /\ Timeout \in Nat \ {0} /\ Interval \in Nat \ {0}
    /\ MaxChanges \in Nat /\ MaxListErrors \in Nat

(***************************************************************************)
(* One attempt against one pod.  err is "none", "refused" (an answer came, *)
(* and it was no), "timeout" or "cancelled".                               *)
(***************************************************************************)
Latencies == 0 .. 4
Errors == {"none", "refused", "timeout", "cancelled"}
Attempts == [err : Errors, latency : Latencies, value : {"good", "bad"}]

httpSpecs == [unreachable : BOOLEAN, reachable : BOOLEAN, value : BOOLEAN,
              min : 0 .. 2, max : 0 .. 2, request : 1 .. 3, dwell : 0 .. 2]

Stated(s) == {c \in {"unreachable", "reachable", "value", "min", "max"} :
                CASE c = "unreachable" -> s.unreachable
                  [] c = "reachable" -> s.reachable
                  [] c = "value" -> s.value
                  [] c = "min" -> s.min > 0
                  [] c = "max" -> s.max > 0}

\* A probe that states no condition "passes unconditionally", and there is no
\* answer to assert anything on when none is to come.
parseHTTPSpec(s) ==
    /\ Stated(s) # {}
    /\ s.unreachable => Stated(s) = {"unreachable"}
    /\ s.min > 0 /\ s.max > 0 => s.min <= s.max

\* Only a pure min_latency probe takes a missing answer for an answer, and only
\* when it waited long enough.
slowCountsAsTimeout(s) == s.min > 0 /\ ~ s.reachable /\ ~ s.value /\ s.request >= s.min

timedOutSlowly(s, a) == slowCountsAsTimeout(s) /\ a.latency >= s.min /\ a.err = "timeout"

\* Mutant: an answer may take as long as it likes.
AnyLatencyDoes(s, a) ==
    IF s.unreachable THEN a.err # "none"
    ELSE IF a.err # "none" THEN timedOutSlowly(s, a)
    ELSE (s.value => a.value = "good") /\ (s.min > 0 => a.latency >= s.min)

satisfied(s, a) ==
    IF s.unreachable THEN a.err # "none"
    ELSE IF a.err # "none" THEN timedOutSlowly(s, a)
    ELSE /\ s.value => a.value = "good"
         /\ s.min > 0 => a.latency >= s.min
         /\ s.max > 0 => a.latency <= s.max

\* A target has finitely many pods and a manifest is of an engine that has a gate.
\* A slow answer takes two ticks, and a request waits for less, as long, or longer.
ASSUME ManifestsAssumption ==
    /\ IsFiniteSet(TPods) /\ RequestTimeout <= 3
    /\ \A m \in Manifests :
        /\ m.own \subseteq httpSpecs /\ m.engine \in {"network-policy", "chaos-mesh", "kube-state"}
        /\ m.ingress \in BOOLEAN /\ m.between \in BOOLEAN

(***************************************************************************)
(* The gates of the network faults.  A delay is given by its latency.      *)
(***************************************************************************)
Cond(reach, unreach, min, max, request) ==
    [unreachable |-> unreach, reachable |-> reach, value |-> FALSE, min |-> min, max |-> max,
     request |-> request, dwell |-> 0]

reachabilityPair ==
    [sot |-> <<Cond(TRUE, FALSE, 0, 0, RequestTimeout)>>,
     settle |-> <<Cond(FALSE, TRUE, 0, 0, RequestTimeout)>>]

\* A quarter of the injected latency before, half of it after.
delayPair(latency) ==
    [sot |-> <<Cond(TRUE, FALSE, 0, latency \div 4, RequestTimeout)>>,
     settle |-> <<Cond(FALSE, FALSE, latency \div 2, 0, 3)>>]

NoGate == [sot |-> <<>>, settle |-> <<>>]

\* The prober is between no two labelled sets, and sees no one's egress.
networkPolicyProbes(m) == IF m.ingress THEN reachabilityPair ELSE NoGate
networkChaosProbes(m) ==
    CASE ~ m.between /\ m.action = "partition" -> reachabilityPair
      [] ~ m.between /\ m.action = "delay" -> delayPair(4)
      [] OTHER -> NoGate

\* The condition of an object gate: a value that has to stay for two ticks.
objectCond ==
    [unreachable |-> FALSE, reachable |-> FALSE, value |-> TRUE, min |-> 0, max |-> 0,
     request |-> RequestTimeout, dwell |-> 2]

\* The probe a manifest declares under the name of the Settle half replaces it,
\* and nothing else.  An object gate (pkg/driver/kubestate) has a Settle half
\* alone, which may dwell.
DefaultProbes(m) ==
    IF m.own # {} THEN [networkPolicyProbes(m) EXCEPT !.settle = <<CHOOSE s \in m.own : TRUE>>]
    ELSE CASE m.engine = "network-policy" -> networkPolicyProbes(m)
           [] m.engine = "chaos-mesh" -> networkChaosProbes(m)
           [] OTHER -> [sot |-> <<>>, settle |-> <<objectCond>>]

VARIABLES
    manifest,   \* what is applied
    net,        \* what a pod does with a connection: up, slow, down, hole (drops it), gone
    stage,      \* sot, inject, settle, verified, rejected, abandoned
    probeNo,    \* the probe of the stage that is run
    clock, since, \* the time, and when the probe began
    pc,         \* list, hit, judge, wait
    unasked,    \* the pods listed and not yet asked
    got,        \* the attempts of the round
    heldSince,  \* -1 when the condition did not hold
    lastErr, ctx,
    changes, listErrors,
    saw,        \* by stage, what each pod asked in its last round was when it was asked
    falseAt     \* the last time a poll did not see the condition

pvars == <<manifest, net, stage, probeNo, clock, since, pc, unasked, got, heldSince, lastErr, ctx,
           changes, listErrors, saw, falseAt>>
World == <<manifest, net, ctx, changes, listErrors>>

Nets == {"up", "slow", "down", "hole", "gone"}
Ended == {"verified", "rejected", "abandoned"}

\* Bounds a probe's end: the round and the wait in which the timeout passes.
LatestEnd == since + Timeout + Interval + Cardinality(TPods) * 3

\* Type invariant: the stage, the answers of a round and the probe's clock.
PrTypeOK ==
    /\ manifest \in Manifests /\ net \in [TPods -> Nets]
    /\ stage \in {"sot", "inject", "settle"} \cup Ended
    /\ probeNo \in 1 .. 2 /\ pc \in {"list", "hit", "judge", "wait"}
    /\ clock \in Nat /\ since \in 0 .. clock /\ heldSince \in -1 .. clock /\ falseAt \in -1 .. clock
    /\ unasked \subseteq TPods /\ unasked \cap DOMAIN got = {}
    /\ \A p \in DOMAIN got : got[p] \in Attempts
    /\ lastErr \in BOOLEAN /\ ctx \in {"live", "over"}
    /\ changes \in 0 .. MaxChanges /\ listErrors \in 0 .. MaxListErrors

Probes == IF stage = "sot" THEN DefaultProbes(manifest).sot ELSE DefaultProbes(manifest).settle
Spec1 == Probes[probeNo]
Running == stage \in {"sot", "settle"} /\ probeNo <= Len(Probes)

NoAttempts == [p \in {} |-> [err |-> "none", latency |-> 0, value |-> "good"]]

PrInit ==
    /\ manifest \in Manifests
    /\ net \in [TPods -> {"up", "down", "slow"}]
    /\ stage = "sot" /\ probeNo = 1 /\ clock = 0 /\ since = 0 /\ pc = "list"
    /\ unasked = {} /\ got = NoAttempts /\ heldSince = -1 /\ falseAt = -1
    /\ lastErr = FALSE /\ ctx = "live" /\ changes = 0 /\ listErrors = 0
    /\ saw = [s \in {"sot", "settle"} |-> [p \in {} |-> "up"]]

(***************************************************************************)
(* The world: the fault lands on the pods one by one, and pods come, go,   *)
(* fail and recover by themselves.                                         *)
(***************************************************************************)
Effect == CASE manifest.engine = "kube-state" -> "slow"
            [] manifest.engine = "chaos-mesh" /\ manifest.action = "delay" -> "slow"
            [] OTHER -> "hole"

Lands(p) ==
    /\ stage = "settle" /\ net[p] \notin {Effect, "gone"}
    /\ net' = [net EXCEPT ![p] = Effect]
    /\ UNCHANGED <<manifest, stage, probeNo, clock, since, pc, unasked, got, heldSince, lastErr, ctx,
                   changes, listErrors, saw, falseAt>>

Changes(p, n) ==
    /\ stage \notin Ended /\ changes < MaxChanges /\ net[p] # n
    /\ net' = [net EXCEPT ![p] = n]
    /\ changes' = changes + 1
    /\ UNCHANGED <<manifest, stage, probeNo, clock, since, pc, unasked, got, heldSince, lastErr, ctx,
                   listErrors, saw, falseAt>>

Shutdown ==
    /\ ctx = "live" /\ stage \notin Ended
    /\ ctx' = "over"
    /\ UNCHANGED <<manifest, net, stage, probeNo, clock, since, pc, unasked, got, heldSince, lastErr,
                   changes, listErrors, saw, falseAt>>

(***************************************************************************)
(* The executor's two stages.                                              *)
(***************************************************************************)
\* No probe of this stage is left: the driver is called, or the fault verified.
StageDone ==
    /\ stage \in {"sot", "settle"} /\ probeNo > Len(Probes)
    /\ stage' = IF stage = "sot" THEN "inject" ELSE "verified"
    /\ probeNo' = 1
    /\ UNCHANGED <<World, clock, since, pc, unasked, got, heldSince, lastErr, saw, falseAt>>

CallDriver ==
    /\ stage = "inject"
    /\ stage' = "settle" /\ since' = clock /\ pc' = "list" /\ falseAt' = -1 /\ heldSince' = -1
    /\ UNCHANGED <<World, probeNo, clock, unasked, got, lastErr, saw>>

\* A probe that did not pass ends the stage: nothing was applied yet, or what
\* was applied is backed out.
Refuse == stage' = IF stage = "sot" THEN "rejected" ELSE "abandoned"

Pass ==
    /\ probeNo' = probeNo + 1 /\ since' = clock /\ pc' = "list" /\ heldSince' = -1 /\ falseAt' = -1
    /\ UNCHANGED stage

(***************************************************************************)
(* A prober's loop.                                                        *)
(***************************************************************************)
\* A probe that does not parse is not run.
Unparsed ==
    /\ Running /\ pc = "list" /\ ~ parseHTTPSpec(Spec1)
    /\ Refuse
    /\ UNCHANGED <<World, probeNo, clock, since, pc, unasked, got, heldSince, lastErr, saw, falseAt>>

LivePods == {p \in TPods : net[p] # "gone"}

\* No pod to ask is an error of the round, not a round without failures.
ListPods ==
    /\ Running /\ pc = "list" /\ parseHTTPSpec(Spec1) /\ ctx = "live" /\ LivePods # {}
    /\ unasked' = LivePods /\ got' = NoAttempts /\ pc' = "hit" /\ lastErr' = FALSE
    /\ saw' = [saw EXCEPT ![stage] = [p \in {} |-> "up"]]
    /\ UNCHANGED <<World, stage, probeNo, clock, since, heldSince, falseAt>>

\* Mutant: a failed poll leaves the hold as it is.
KeepHold == UNCHANGED heldSince

\* A poll that failed proves nothing about the condition.
DropHold == heldSince' = -1

ListFails ==
    /\ Running /\ pc = "list" /\ parseHTTPSpec(Spec1)
    /\ ctx = "over" \/ LivePods = {} \/ listErrors < MaxListErrors
    /\ listErrors' = IF ctx = "live" /\ LivePods # {} THEN listErrors + 1 ELSE listErrors
    /\ lastErr' = TRUE /\ pc' = "wait" /\ DropHold /\ falseAt' = clock
    /\ UNCHANGED <<manifest, net, ctx, changes, stage, probeNo, clock, since, unasked, got, saw>>

\* connect: a slow pod answers after two ticks, a hole never does.  A context
\* that is over ends the attempt at once.  The read of an object (K8sProber.poll)
\* takes no time; "slow" is then the state the object gate waits for.
answer(c, s, n) ==
    LET Got(err, latency, value) == [err |-> err, latency |-> latency, value |-> value] IN
    IF c = "over" THEN Got("cancelled", 0, "bad")
    ELSE CASE n = "up" -> Got("none", 0, "bad")
           [] n = "slow" /\ s.value -> Got("none", 0, "good")
           [] n = "slow" /\ ~ s.value /\ s.request >= 2 -> Got("none", 2, "bad")
           [] n \in {"down", "gone"} -> Got("refused", 0, "bad")
           [] OTHER -> Got("timeout", s.request, "bad")

connect(p) ==
    LET a == answer(ctx, Spec1, net[p]) IN
    /\ Running /\ pc = "hit" /\ p \in unasked
    /\ unasked' = unasked \ {p}
    /\ got' = [q \in DOMAIN got \cup {p} |-> IF q = p THEN a ELSE got[q]]
    /\ saw' = [saw EXCEPT ![stage] = [q \in DOMAIN @ \cup {p} |-> IF q = p THEN net[p] ELSE @[q]]]
    /\ clock' = clock + a.latency
    /\ pc' = IF unasked' = {} THEN "judge" ELSE "hit"
    /\ UNCHANGED <<World, stage, probeNo, since, heldSince, lastErr, falseAt>>

allSatisfied(s, g) == DOMAIN g # {} /\ \A p \in DOMAIN g : satisfied(s, g[p])

Judge ==
    LET held == IF heldSince < 0 THEN clock ELSE heldSince IN
    /\ Running /\ pc = "judge"
    /\ IF allSatisfied(Spec1, got)
       THEN IF clock - held >= Spec1.dwell
            THEN Pass
            ELSE heldSince' = held /\ pc' = "wait" /\ UNCHANGED <<stage, probeNo, since, falseAt>>
       ELSE heldSince' = -1 /\ falseAt' = clock /\ pc' = "wait" /\ UNCHANGED <<stage, probeNo, since>>
    /\ UNCHANGED <<World, clock, unasked, got, lastErr, saw>>

Overdue == clock > since + Timeout

\* The timeout is looked at after a round, and the context only while waiting.
GiveUp ==
    /\ Running /\ pc = "wait"
    /\ Overdue \/ ctx = "over"
    /\ Refuse
    /\ UNCHANGED <<World, probeNo, clock, since, pc, unasked, got, heldSince, lastErr, saw, falseAt>>

Again ==
    /\ Running /\ pc = "wait" /\ ~ Overdue /\ clock <= LatestEnd + 1
    /\ clock' = clock + Interval /\ pc' = "list"
    /\ UNCHANGED <<World, stage, probeNo, since, unasked, got, heldSince, lastErr, saw, falseAt>>

ProbeStep ==
    \/ StageDone \/ CallDriver \/ Unparsed \/ ListPods \/ ListFails \/ Judge \/ GiveUp \/ Again
    \/ \E p \in TPods : connect(p)

PrNext ==
    \/ ProbeStep \/ Shutdown
    \/ \E p \in TPods : Lands(p) \/ \E n \in Nets : Changes(p, n)

PrSpec == PrInit /\ [][PrNext]_pvars

(***************************************************************************)
(* Properties.                                                             *)
(***************************************************************************)
\* No fault is verified by a probe that could not have failed: unless all a
\* probe asks is that the pod answers, some answer does not satisfy it.
NeverVacuous ==
    stage = "verified" =>
        \A i \in DOMAIN DefaultProbes(manifest).settle :
            LET s == DefaultProbes(manifest).settle[i] IN
            ~ s.reachable => \E a \in Attempts : a.err = "none" /\ ~ satisfied(s, a)

\* How a pod has to be before a fault, and how it is when the fault struck it.  A
\* slow pod is no good to a delay, which it would show before it is injected, and
\* to a partition only when a request waits for its answer.
Sound == IF RequestTimeout >= 2 /\ Effect # "slow" THEN {"up", "slow"} ELSE {"up"}
Struck == IF manifest.engine = "kube-state" THEN {"slow"}
          ELSE IF Effect = "slow" THEN {"slow", "hole"} ELSE Nets \ Sound

\* A fault of the network is verified against a change, pod by pod: every pod of the
\* last round of the Settle probes is struck, and none that the SOT probes asked was
\* struck already when they asked it, unless the call was being shut down.  A pod that
\* comes up after the SOT probes was not asked, and an object gate has no SOT half.
Differential ==
    stage = "verified" /\ ctx = "live" /\ manifest.own = {} /\ DefaultProbes(manifest).settle # <<>> =>
        /\ DOMAIN saw["settle"] # {}
        /\ \A p \in DOMAIN saw["settle"] : saw["settle"][p] \in Struck
        /\ manifest.engine # "kube-state" =>
            DOMAIN saw["sot"] # {} /\ \A p \in DOMAIN saw["sot"] : saw["sot"][p] \in Sound \ Struck

\* A dwell is a time without a poll that saw otherwise or saw nothing.
DwellKept ==
    [][stage = "settle" /\ probeNo' = probeNo + 1 => clock - falseAt >= Spec1.dwell]_pvars

\* A probe overruns its timeout by a round and a wait at most, so the sum of the
\* gate's timeouts says how much of the lease is left when a fault is verified.
OverrunBounded == Running => clock <= LatestEnd

\* A probe "cut short by shutdown, not answered" gives "no verdict either way".
NoVerdictWhenCut ==
    [][probeNo' = probeNo + 1 => \A p \in DOMAIN got : got[p].err # "cancelled"]_pvars

\* Until it has ended a gate has a next step, whatever its pods and the API server
\* do.  A wait takes time and OverrunBounded bounds the time, so every gate ends.
GateMoves == stage \notin Ended => ENABLED ProbeStep

\* A gate ends, in bounded time, and what it verifies is a change that could have
\* failed to happen.
GateSound == PrTypeOK /\ NeverVacuous /\ Differential /\ OverrunBounded /\ GateMoves
=============================================================================
