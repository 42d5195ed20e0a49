--------------------------- MODULE DriversProofs ---------------------------
(***************************************************************************)
(* What is proved of the two ends of a directed fault: the sidecars of     *)
(* EnvoyFault, the objects of FaultObjects with the contract they keep,    *)
(* the gates of StateKinds, and the submissions of Directed with the       *)
(* stream that reports them.                                               *)
(***************************************************************************)
EXTENDS FaultObjects, EnvoyFault, Directed, StateKinds, FoldProofs, TLAPS, FiniteSetTheorems, SequenceTheorems

(***************************************************************************)
(* The sidecars.                                                           *)
(***************************************************************************)
\* What the injection leaves: a workload that is injected or skipped, and whose probes
\* pass through the filter only where the operator asked for that.
InjectedOK(w) ==
    /\ w.skip \/ w.sidecar
    /\ ProbeSeesEnvoy(w) => w.raw
    /\ injectDeployment(w) = w
    /\ w.agent => w.stash \in {"http", "grpc", "tcp"}

\* Every workload the injection makes is such a workload: of the probes it can stash none
\* stays where it was, and the port of the agent they are sent to is left out of the redirect.
LEMMA InjectionSound ==
    ASSUME NEW w \in Workloads
    PROVE  InjectedOK(injectDeployment(w))
<1>1. w \in [skip : BOOLEAN, raw : BOOLEAN, sidecar : {FALSE}, agent : {FALSE},
            excludes : {{}, {ProbePort}}, probe : {"none", "http", "grpc", "tcp", "exec"},
            port : {ServicePort, ProbePort}, named : BOOLEAN,
            stash : {"none"}, stashPort : {0}]
    BY DEF Workloads
<1>2. CASE w.skip
    <2>1. injectDeployment(w) = w
        BY <1>2 DEF injectDeployment
    <2> QED
        BY <1>1, <1>2, <2>1 DEF InjectedOK, ProbeSeesEnvoy, Redirected
<1>3. CASE ~ w.skip /\ ~ w.raw /\ StashProbe(w.probe)
    <2> DEFINE v == injectDeployment(w)
    <2>1. v = [[w EXCEPT !.stash = w.probe, !.stashPort = IntVal(w), !.probe = "agent", !.agent = TRUE,
                         !.excludes = @ \cup {AgentPort}] EXCEPT !.sidecar = TRUE]
        BY <1>1, <1>3 DEF injectDeployment, rewriteProbes
    <2>2. /\ v.sidecar /\ v.probe = "agent" /\ AgentPort \in v.excludes
          /\ v.stash = w.probe
        BY <1>1, <2>1
    <2>3. injectDeployment(v) = v
        BY <2>2 DEF injectDeployment
    <2>4. ~ ProbeSeesEnvoy(v)
        BY <2>2 DEF ProbeSeesEnvoy, Redirected
    <2> QED
        BY <1>3, <2>2, <2>3, <2>4 DEF InjectedOK, StashProbe
<1>4. CASE ~ w.skip /\ ~ (~ w.raw /\ StashProbe(w.probe))
    <2> DEFINE v == injectDeployment(w)
    <2>1. v = [w EXCEPT !.sidecar = TRUE]
        BY <1>1, <1>4 DEF injectDeployment, rewriteProbes
    <2>2. v.sidecar /\ v.probe = w.probe /\ v.raw = w.raw /\ ~ v.agent
        BY <1>1, <2>1
    <2>3. injectDeployment(v) = v
        BY <2>2 DEF injectDeployment
    <2>4. ProbeSeesEnvoy(v) => v.raw
        BY <1>1, <1>4, <2>2 DEF ProbeSeesEnvoy, StashProbe
    <2> QED
        BY <2>2, <2>3, <2>4 DEF InjectedOK
<1> QED
    BY <1>2, <1>3, <1>4

\* A fault that accounts for a set filter: it is being applied and has set it, is applied,
\* or is being cleared and this pod's call is still to come or some call has failed.
Accounts(f, p) ==
    \/ estage[f] = "applying" /\ p \in hit[f]
    \/ estage[f] = "applied"
    \/ estage[f] = "clearing" /\ (p \in queue[f] \/ efailed[f])

\* Every set filter is accounted for by a fault of its kind, by a pod no call is to come to,
\* or by the operator's choice of raw probes.
FilterTrue ==
    \A p \in Pods, k \in FilterKinds :
        filter[p][k] = 100 =>
            \/ \E f \in EFaults : EKind[f] = k /\ Accounts(f, p)
            \/ p \in left[k]
            \/ workload.raw /\ ProbeSeesEnvoy(workload)

\* Without a sidecar no Apply gets as far as a call.
Untouched == ~ workload.sidecar => \A f \in EFaults : estage[f] \in {"idle", "failed"}

SidecarInv == InjectedOK(workload) /\ ETypeOK /\ Untouched /\ FilterTrue

LEMMA SidecarStarts == EInit => SidecarInv
<1> SUFFICES ASSUME EInit PROVE SidecarInv
    OBVIOUS
<1> USE EnvoyAssumption
<1>1. InjectedOK(workload)
    BY InjectionSound, DeployedAssumption DEF EInit
<1>2. ETypeOK
    BY DEF EInit, ETypeOK, FilterKinds
<1>3. Untouched /\ FilterTrue
    BY DEF EInit, Untouched, FilterTrue
<1> QED
    BY <1>1, <1>2, <1>3 DEF SidecarInv

\* What the answer of a call leaves known: an Apply that fails has its pods told.
LEMMA AnswerIs ==
    ASSUME ETypeOK, NEW f \in EFaults, NEW reset, Answer(f, reset), hit' \in [EFaults -> SUBSET Pods]
    PROVE  /\ estage' \in [EFaults -> {"idle", "applying", "applied", "failed", "clearing", "cleared"}]
           /\ left' \in [FilterKinds -> SUBSET Pods]
           /\ \A g \in EFaults \ {f} : estage'[g] = estage[g]
           /\ \A k \in FilterKinds \ {EKind[f]} : left'[k] = left[k]
           /\ left[EKind[f]] \ reset \subseteq left'[EKind[f]]
           /\ queue'[f] # {} => estage'[f] = estage[f]
           /\ estage[f] = "applying" =>
                estage'[f] \in {"applying", "applied"} \/ (estage'[f] = "failed" /\ hit'[f] \subseteq left'[EKind[f]])
           /\ estage[f] # "applying" => estage'[f] \in {estage[f], "applied", "cleared"}
           /\ estage[f] # "applying" /\ efailed'[f] => estage'[f] \in {estage[f], "applied"}
<1>1. PICK outcome : outcome = IF queue'[f] # {} THEN estage[f]
                               ELSE IF estage[f] = "applying" THEN IF efailed'[f] THEN "failed" ELSE "applied"
                               ELSE IF efailed'[f] THEN "applied" ELSE "cleared"
    OBVIOUS
<1>2. /\ estage' = [estage EXCEPT ![f] = outcome]
      /\ left' = [left EXCEPT ![EKind[f]] = IF outcome = "failed" THEN @ \cup hit'[f] ELSE @ \ reset]
    BY <1>1 DEF Answer
<1>3. EKind[f] \in FilterKinds /\ outcome \in {estage[f], "failed", "applied", "cleared"}
    BY <1>1, EnvoyAssumption DEF FilterKinds
<1>4. estage'[f] = outcome /\ left'[EKind[f]] = IF outcome = "failed" THEN left[EKind[f]] \cup hit'[f]
                                                ELSE left[EKind[f]] \ reset
    BY <1>2, <1>3 DEF ETypeOK
<1>5. estage' \in [EFaults -> {"idle", "applying", "applied", "failed", "clearing", "cleared"}]
    BY <1>2, <1>3 DEF ETypeOK
<1>6. left' \in [FilterKinds -> SUBSET Pods]
    BY <1>2, <1>3 DEF ETypeOK
<1>7. /\ \A g \in EFaults \ {f} : estage'[g] = estage[g]
      /\ \A k \in FilterKinds \ {EKind[f]} : left'[k] = left[k]
    BY <1>2 DEF ETypeOK
<1> QED
    BY <1>1, <1>4, <1>5, <1>6, <1>7

LEMMA SidecarKept == SidecarInv /\ [ENext]_evars => SidecarInv'
<1> SUFFICES ASSUME SidecarInv, [ENext]_evars PROVE SidecarInv'
    OBVIOUS
<1> USE EnvoyAssumption DEF SidecarInv
<1>1. ASSUME UNCHANGED evars PROVE SidecarInv'
    BY <1>1 DEF evars, ETypeOK, Untouched, FilterTrue, Accounts
<1>2. ASSUME NEW p \in Pods, Replace(p) PROVE SidecarInv'
    <2>1. ETypeOK' /\ Untouched'
        BY <1>2 DEF Replace, ETypeOK, Untouched, FilterKinds
    <2>2. FilterTrue'
        <3> SUFFICES ASSUME NEW q \in Pods, NEW k \in FilterKinds, filter'[q][k] = 100,
                            ~ (workload.raw /\ ProbeSeesEnvoy(workload))
                     PROVE  \/ \E g \in EFaults : EKind[g] = k /\ Accounts(g, q)'
                            \/ q \in left'[k]
            BY <1>2 DEF Replace, FilterTrue
        <3>1. q # p /\ filter[q][k] = 100
            BY <1>2 DEF Replace, ETypeOK
        <3>2. \A g \in EFaults : Accounts(g, q) => Accounts(g, q)'
            BY <1>2, <3>1 DEF Replace, Accounts
        <3>3. q \in left[k] => q \in left'[k]
            BY <1>2, <3>1 DEF Replace
        <3> QED
            BY <3>1, <3>2, <3>3 DEF FilterTrue
    <2> QED
        BY <1>2, <2>1, <2>2 DEF Replace
<1>3. ASSUME NEW p \in Pods, Sicken(p) \/ Recover(p) PROVE SidecarInv'
    BY <1>3 DEF Sicken, Recover, ETypeOK, Untouched, FilterTrue, Accounts
<1>4. ASSUME NEW f \in EFaults, EApply(f) PROVE SidecarInv'
    <2>1. ETypeOK'
        <3>0. PICK R \in SUBSET Pods : R = ResolvePods
            BY DEF ResolvePods
        <3>1. /\ estage' \in [EFaults -> {"idle", "applying", "applied", "failed", "clearing", "cleared"}]
              /\ queue' \in [EFaults -> SUBSET Pods]
            <4>1. estage' = [estage EXCEPT ![f] = "failed"] \/ estage' = [estage EXCEPT ![f] = "applying"]
                BY <1>4 DEF EApply
            <4>2. queue' = queue \/ queue' = [queue EXCEPT ![f] = R]
                BY <1>4, <3>0 DEF EApply
            <4> QED
                BY <4>1, <4>2 DEF ETypeOK
        <3>2. \A g \in EFaults : queue'[g] # {} => estage'[g] \in {"applying", "clearing"}
            BY <1>4 DEF EApply, ETypeOK
        <3> QED
            BY <1>4, <3>1, <3>2 DEF EApply, ETypeOK
    <2>2. Untouched'
        BY <1>4 DEF EApply, ETypeOK, Untouched, ResolvePods
    <2>3. \A g \in EFaults, p \in Pods : Accounts(g, p) => Accounts(g, p)'
        BY <1>4 DEF EApply, ETypeOK, Accounts
    <2> QED
        BY <1>4, <2>1, <2>2, <2>3 DEF EApply, FilterTrue
<1>5. ASSUME NEW f \in EFaults, EClear(f) PROVE SidecarInv'
    <2>1. ETypeOK'
        BY <1>5 DEF EClear, ETypeOK, ResolvePods, FilterKinds
    <2>2. workload.sidecar /\ Untouched'
        BY <1>5 DEF EClear, ETypeOK, Untouched
    <2>3. FilterTrue'
        <3> SUFFICES ASSUME NEW p \in Pods, NEW k \in FilterKinds, filter'[p][k] = 100,
                            ~ (workload.raw /\ ProbeSeesEnvoy(workload))
                     PROVE  \/ \E g \in EFaults : EKind[g] = k /\ Accounts(g, p)'
                            \/ p \in left'[k]
            BY <1>5 DEF EClear, FilterTrue
        <3>1. CASE p \in left[k]
            BY <1>5, <3>1 DEF EClear, ETypeOK
        <3>2. ASSUME NEW g \in EFaults, EKind[g] = k, Accounts(g, p), g # f
              PROVE  Accounts(g, p)'
            BY <1>5, <3>2 DEF EClear, ETypeOK, Accounts
        <3>3. CASE EKind[f] = k
            <4>1. CASE p \in sick
                BY <1>5, <3>3, <4>1 DEF EClear, ETypeOK
            <4>2. CASE p \notin sick
                <5>1. p \in ResolvePods
                    BY <2>2, <4>2 DEF ResolvePods, Ready, InjectedOK
                <5>2. Accounts(f, p)'
                    BY <1>5, <5>1 DEF EClear, ETypeOK, Accounts
                <5> QED
                    BY <3>3, <5>2
            <4> QED
                BY <4>1, <4>2
        <3> QED
            BY <1>5, <3>1, <3>2, <3>3 DEF EClear, FilterTrue
    <2> QED
        BY <1>5, <2>1, <2>2, <2>3 DEF EClear
<1>6. ASSUME NEW f \in EFaults, NEW p \in Pods, modifyOne(f, p) PROVE SidecarInv'
    <2>0. hit' \in [EFaults -> SUBSET Pods]
        BY <1>6 DEF modifyOne, ETypeOK
    <2>1. ETypeOK'
        <3>1. filter' \in [Pods -> [FilterKinds -> {0, 100}]] /\ queue' \in [EFaults -> SUBSET Pods]
            BY <1>6 DEF modifyOne, ETypeOK, FilterOf, FilterKinds
        <3>2. \A g \in EFaults : queue'[g] # {} => estage'[g] \in {"applying", "clearing"}
            BY <1>6, <2>0, AnswerIs DEF modifyOne, ETypeOK
        <3>3. /\ estage' \in [EFaults -> {"idle", "applying", "applied", "failed", "clearing", "cleared"}]
              /\ left' \in [FilterKinds -> SUBSET Pods]
            BY <1>6, <2>0, AnswerIs DEF modifyOne
        <3> QED
            BY <1>6, <2>0, <3>1, <3>2, <3>3 DEF modifyOne, ETypeOK
    <2>2. Untouched'
        BY <1>6 DEF modifyOne, Answer, ETypeOK, Untouched
    <2>3. FilterTrue'
        <3> SUFFICES ASSUME NEW q \in Pods, NEW k \in FilterKinds, filter'[q][k] = 100,
                            ~ (workload.raw /\ ProbeSeesEnvoy(workload))
                     PROVE  \/ \E g \in EFaults : EKind[g] = k /\ Accounts(g, q)'
                            \/ q \in left'[k]
            BY <1>6 DEF modifyOne, FilterTrue
        <3>1. CASE q = p /\ k = EKind[f]
            <4>1. estage[f] = "applying" /\ p \in hit'[f]
                BY <1>6, <3>1 DEF modifyOne, ETypeOK, FilterOf
            <4>2. estage'[f] \in {"applying", "applied"} \/ (estage'[f] = "failed" /\ p \in left'[EKind[f]])
                BY <1>6, <2>0, <4>1, AnswerIs DEF modifyOne
            <4> QED
                BY <3>1, <4>1, <4>2 DEF Accounts
        <3>2. CASE ~ (q = p /\ k = EKind[f])
            <4>1. filter[q][k] = 100
                BY <1>6, <3>2 DEF modifyOne, ETypeOK, FilterOf, FilterKinds
            <4>2. q \in left[k] => q \in left'[k]
                BY <1>6, <2>0, <3>2, AnswerIs DEF modifyOne
            <4>3. ASSUME NEW g \in EFaults, EKind[g] = k, Accounts(g, q) PROVE Accounts(g, q)' \/ q \in left'[k]
                <5>1. CASE g # f
                    BY <1>6, <2>0, <4>3, <5>1, AnswerIs DEF modifyOne, ETypeOK, Accounts
                <5>2. CASE g = f /\ estage[f] = "applying"
                    <6>1. q \in hit'[f]
                        BY <1>6, <4>3, <5>2 DEF modifyOne, ETypeOK, Accounts
                    <6>2. estage'[f] \in {"applying", "applied"} \/ (estage'[f] = "failed" /\ q \in left'[k])
                        BY <1>6, <2>0, <4>3, <5>2, <6>1, AnswerIs DEF modifyOne
                    <6> QED
                        BY <5>2, <6>1, <6>2 DEF Accounts
                <5>3. CASE g = f /\ estage[f] # "applying"
                    <6>1. estage[f] = "applied" \/ (estage[f] = "clearing" /\ (q \in queue[f] \/ efailed[f]))
                        BY <4>3, <5>3 DEF Accounts
                    <6>2. estage[f] = "clearing" /\ q # p
                        BY <1>6, <3>2, <4>3, <5>3, <6>1 DEF modifyOne, ETypeOK
                    <6>3. (q \in queue'[f] \/ efailed'[f]) /\ (queue'[f] # {} \/ efailed'[f])
                        BY <1>6, <6>1, <6>2 DEF modifyOne, ETypeOK
                    <6>4. estage'[f] \in {"clearing", "applied"}
                        BY <1>6, <2>0, <6>2, <6>3, AnswerIs DEF modifyOne
                    <6> QED
                        BY <5>3, <6>3, <6>4 DEF Accounts
                <5> QED
                    BY <5>1, <5>2, <5>3
            <4> QED
                BY <4>1, <4>2, <4>3 DEF FilterTrue
        <3> QED
            BY <3>1, <3>2
    <2> QED
        BY <1>6, <2>1, <2>2, <2>3 DEF modifyOne
<1>7. ASSUME NEW f \in EFaults, NEW p \in Pods, modifyFails(f, p) PROVE SidecarInv'
    <2>0. hit' \in [EFaults -> SUBSET Pods] /\ hit' = hit
        BY <1>7 DEF modifyFails, ETypeOK
    <2>1. ETypeOK'
        <3>1. /\ queue' \in [EFaults -> SUBSET Pods] /\ efailed' \in [EFaults -> BOOLEAN]
              /\ podErrors' \in 0 .. MaxPodErrors
            BY <1>7 DEF modifyFails, ETypeOK
        <3>2. \A g \in EFaults : queue'[g] # {} => estage'[g] \in {"applying", "clearing"}
            BY <1>7, <2>0, AnswerIs DEF modifyFails, ETypeOK
        <3>3. /\ estage' \in [EFaults -> {"idle", "applying", "applied", "failed", "clearing", "cleared"}]
              /\ left' \in [FilterKinds -> SUBSET Pods]
            BY <1>7, <2>0, AnswerIs DEF modifyFails
        <3> QED
            BY <1>7, <2>0, <3>1, <3>2, <3>3 DEF modifyFails, ETypeOK
    <2>2. Untouched'
        BY <1>7 DEF modifyFails, Answer, ETypeOK, Untouched
    <2>3. ASSUME NEW g \in EFaults, NEW q \in Pods, Accounts(g, q)
          PROVE  Accounts(g, q)' \/ q \in left'[EKind[g]]
        <3>1. CASE g # f
            BY <1>7, <2>0, <2>3, <3>1, AnswerIs DEF modifyFails, ETypeOK, Accounts
        <3>2. CASE g = f /\ estage[f] = "applying"
            <4>1. q \in hit'[f] /\ efailed'[f]
                BY <1>7, <2>3, <3>2 DEF modifyFails, ETypeOK, Accounts
            <4>2. estage'[f] = "applying" \/ q \in left'[EKind[f]]
                <5>1. estage'[f] # "applied"
                    BY <1>7, <3>2, <4>1 DEF modifyFails, Answer, ETypeOK
                <5> QED
                    BY <1>7, <2>0, <3>2, <4>1, <5>1, AnswerIs DEF modifyFails
            <4> QED
                BY <3>2, <4>1, <4>2 DEF Accounts
        <3>3. CASE g = f /\ estage[f] # "applying"
            <4>1. estage[f] \in {"applied", "clearing"} /\ efailed'[f]
                BY <1>7, <2>3, <3>3 DEF modifyFails, ETypeOK, Accounts
            <4>2. estage'[f] \in {"applied", "clearing"}
                BY <1>7, <2>0, <3>3, <4>1, AnswerIs DEF modifyFails
            <4> QED
                BY <3>3, <4>1, <4>2 DEF Accounts
        <3> QED
            BY <3>1, <3>2, <3>3
    <2>4. \A k \in FilterKinds : left[k] \subseteq left'[k]
        BY <1>7, <2>0, AnswerIs DEF modifyFails
    <2>5. filter' = filter /\ workload' = workload
        BY <1>7 DEF modifyFails
    <2>6. FilterTrue'
        BY <2>3, <2>4, <2>5 DEF FilterTrue
    <2> QED
        BY <1>7, <2>1, <2>2, <2>6 DEF modifyFails
<1> QED
    BY <1>1, <1>2, <1>3, <1>4, <1>5, <1>6, <1>7 DEF ENext

\* A fault set on a sidecar can be taken off again, for every set of pods, faults and
\* templates, and injecting twice changes nothing.  Excepted are the pods ClearedIsQuiet
\* names: those unready for a reason of their own when a Clear looked for pods, those an
\* Apply had set before it failed on another, and those of a template whose probes the
\* operator left to pass through Envoy.
THEOREM AlwaysRetractable == ESpec => []Retractable
<1>1. SidecarInv => Retractable
    BY DEF SidecarInv, InjectedOK, FilterTrue, Accounts, Retractable, ClearedIsQuiet, InjectedOnce
<1> QED
    BY <1>1, SidecarStarts, SidecarKept, PTL DEF ESpec

(***************************************************************************)
(* The stream.                                                             *)
(***************************************************************************)
\* The events: one of each client, and of something else.
Msgs == Clients \cup {Noise}

\* The last n elements are a sequence of the same elements, n of them or all.
LEMMA LastOfLength ==
    ASSUME NEW S, NEW s \in Seq(S), NEW n \in Nat \ {0}
    PROVE  /\ LastOf(s, n) \in Seq(S)
           /\ Len(LastOf(s, n)) = IF Len(s) > n THEN n ELSE Len(s)
           /\ \A i \in 1 .. Len(LastOf(s, n)) :
                LastOf(s, n)[i] = s[(IF Len(s) > n THEN Len(s) - n ELSE 0) + i]
<1> DEFINE m == IF Len(s) > n THEN Len(s) - n + 1 ELSE 1
<1>1. Len(s) \in Nat /\ \A i \in 1 .. Len(s) : s[i] \in S
    BY LenProperties, ElementOfSeq
<1>2. m \in Int /\ Len(s) \in Int /\ \A i \in m .. Len(s) : s[i] \in S
    BY <1>1
<1> HIDE DEF m
<1>3. /\ SubSeq(s, m, Len(s)) \in Seq(S)
      /\ Len(SubSeq(s, m, Len(s))) = IF m <= Len(s) THEN Len(s) - m + 1 ELSE 0
      /\ \A i \in 1 .. Len(s) - m + 1 : SubSeq(s, m, Len(s))[i] = s[m + i - 1]
    BY ONLY <1>2, SubSeqProperties
<1>4. LastOf(s, n) = SubSeq(s, m, Len(s))
    BY DEF LastOf, m
<1>5. m = (IF Len(s) > n THEN Len(s) - n ELSE 0) + 1
    BY <1>1 DEF m
<1>6. Len(LastOf(s, n)) = IF Len(s) > n THEN n ELSE Len(s)
    <2>1. PICK l \in Nat : l = Len(s)
        BY <1>1
    <2>2. PICK k \in Int : k = m
        BY <1>2
    <2>3. Len(LastOf(s, n)) = IF k <= l THEN l - k + 1 ELSE 0
        BY <1>3, <1>4, <2>1, <2>2
    <2>4. k = (IF l > n THEN l - n ELSE 0) + 1
        BY <1>5, <2>1, <2>2
    <2>5. (IF k <= l THEN l - k + 1 ELSE 0) = (IF l > n THEN n ELSE l)
        BY ONLY <2>4, l \in Nat, n \in Nat \ {0}, k \in Int
    <2> QED
        BY <2>1, <2>3, <2>5
<1>7. ASSUME NEW i \in 1 .. Len(LastOf(s, n))
      PROVE  LastOf(s, n)[i] = s[(IF Len(s) > n THEN Len(s) - n ELSE 0) + i]
    <2>1. i \in 1 .. Len(s) - m + 1 /\ m + i - 1 = (IF Len(s) > n THEN Len(s) - n ELSE 0) + i
        BY <1>1, <1>5, <1>6
    <2>2. SubSeq(s, m, Len(s))[i] = s[m + i - 1]
        BY <1>3, <2>1
    <2> QED
        BY <1>4, <2>1, <2>2
<1> QED
    BY <1>3, <1>4, <1>6, <1>7

\* Remembering the last n of what was remembered is remembering the last n of all.
LEMMA RememberIsLast ==
    ASSUME NEW S, NEW s \in Seq(S), NEW n \in Nat \ {0}, NEW e \in S
    PROVE  LastOf(Append(LastOf(s, n), e), n) = LastOf(Append(s, e), n)
<1> DEFINE l == LastOf(s, n)
           a == Append(l, e)
           b == Append(s, e)
<1>1. l \in Seq(S) /\ Len(l) = (IF Len(s) > n THEN n ELSE Len(s)) /\ Len(s) \in Nat
      /\ \A i \in 1 .. Len(l) : l[i] = s[(IF Len(s) > n THEN Len(s) - n ELSE 0) + i]
    BY LastOfLength, LenProperties
<1> HIDE DEF l
<1>2. a \in Seq(S) /\ Len(a) = Len(l) + 1 /\ a[Len(l) + 1] = e /\ \A i \in 1 .. Len(l) : a[i] = l[i]
    BY <1>1, AppendProperties
<1>3. b \in Seq(S) /\ Len(b) = Len(s) + 1 /\ b[Len(s) + 1] = e /\ \A i \in 1 .. Len(s) : b[i] = s[i]
    BY AppendProperties
<1> HIDE DEF a, b
<1>4. /\ LastOf(a, n) \in Seq(S) /\ Len(LastOf(a, n)) = (IF Len(a) > n THEN n ELSE Len(a))
      /\ \A i \in 1 .. Len(LastOf(a, n)) : LastOf(a, n)[i] = a[(IF Len(a) > n THEN Len(a) - n ELSE 0) + i]
    BY <1>2, LastOfLength
<1>5. /\ LastOf(b, n) \in Seq(S) /\ Len(LastOf(b, n)) = (IF Len(b) > n THEN n ELSE Len(b))
      /\ \A i \in 1 .. Len(LastOf(b, n)) : LastOf(b, n)[i] = b[(IF Len(b) > n THEN Len(b) - n ELSE 0) + i]
    BY <1>3, LastOfLength
<1>6. Len(LastOf(a, n)) = Len(LastOf(b, n))
    BY <1>1, <1>2, <1>3, <1>4, <1>5
<1>7. ASSUME NEW i \in 1 .. Len(LastOf(a, n)) PROVE LastOf(a, n)[i] = LastOf(b, n)[i]
    <2>1. CASE Len(s) < n
        <3>1. /\ Len(l) = Len(s) /\ Len(a) = Len(s) + 1
              /\ Len(LastOf(a, n)) = Len(s) + 1 /\ Len(LastOf(b, n)) = Len(s) + 1
            BY <1>1, <1>2, <1>3, <1>4, <1>5, <2>1
        <3>2. LastOf(a, n)[i] = a[0 + i] /\ LastOf(b, n)[i] = b[0 + i] /\ 0 + i = i
            BY <1>3, <1>4, <1>5, <2>1, <3>1
        <3>3. CASE i = Len(s) + 1
            BY <1>2, <1>3, <3>1, <3>2, <3>3
        <3>4. CASE i < Len(s) + 1
            <4>1. a[i] = l[i] /\ b[i] = s[i]
                BY <1>1, <1>2, <1>3, <3>1, <3>4
            <4>2. l[i] = s[0 + i]
                BY <1>1, <2>1, <3>1, <3>4
            <4> QED
                BY <3>2, <4>1, <4>2
        <3> QED
            BY <1>1, <3>1, <3>3, <3>4
    <2>2. CASE Len(s) >= n
        <3>1. Len(l) = n /\ Len(a) = n + 1 /\ Len(LastOf(a, n)) = n
            BY <1>1, <1>2, <1>4, <2>2
        <3>2. LastOf(a, n)[i] = a[1 + i] /\ LastOf(b, n)[i] = b[Len(s) + 1 - n + i]
            <4>1. Len(a) > n /\ Len(a) - n = 1
                BY <3>1
            <4>2. Len(b) > n /\ Len(b) - n = Len(s) + 1 - n
                BY <1>1, <1>3, <2>2
            <4>3. LastOf(a, n)[i] = a[(Len(a) - n) + i]
                BY <1>4, <4>1
            <4>4. LastOf(b, n)[i] = b[(Len(b) - n) + i]
                BY <1>5, <1>6, <4>2
            <4> QED
                BY <4>1, <4>2, <4>3, <4>4
        <3>3. CASE i = n
            BY <1>1, <1>2, <1>3, <2>2, <3>1, <3>2, <3>3
        <3>4. CASE i < n
            <4>1. a[1 + i] = l[1 + i]
                BY <1>2, <3>1, <3>4
            <4>2. l[1 + i] = s[Len(s) - n + 1 + i]
                BY <1>1, <2>2, <3>1, <3>4
            <4>3. b[Len(s) + 1 - n + i] = s[Len(s) + 1 - n + i]
                <5>1. Len(s) + 1 - n + i \in 1 .. Len(s)
                    BY <1>1, <2>2, <3>1, <3>4
                <5> QED
                    BY <1>3, <5>1
            <4> QED
                BY <1>1, <3>2, <4>1, <4>2, <4>3
        <3> QED
            BY <3>1, <3>3, <3>4
    <2> QED
        BY <1>1, <2>1, <2>2
<1>8. LastOf(a, n) = LastOf(b, n)
    BY <1>4, <1>5, <1>6, <1>7, SeqEqual
<1> QED
    BY <1>8 DEF a, b, l

\* One more event ends what has been fanned out, and ends the part of it that is waited for.
LEMMA FannedFrom ==
    ASSUME NEW S, NEW s \in Seq(S), NEW e \in S, NEW a \in 1 .. Len(s) + 1
    PROVE  SubSeq(Append(s, e), a, Len(s) + 1) = Append(SubSeq(s, a, Len(s)), e)
<1> DEFINE b == Append(s, e)
           t == SubSeq(s, a, Len(s))
           u == SubSeq(b, a, Len(s) + 1)
<1>1. Len(s) \in Nat /\ \A i \in 1 .. Len(s) : s[i] \in S
    BY LenProperties, ElementOfSeq
<1>2. b \in Seq(S) /\ Len(b) = Len(s) + 1 /\ b[Len(s) + 1] = e /\ \A i \in 1 .. Len(s) : b[i] = s[i]
    BY AppendProperties
<1>3. \A i \in a .. Len(s) : s[i] \in S
    BY <1>1
<1>4. \A i \in a .. Len(s) + 1 : b[i] \in S
    BY <1>1, <1>2
<1>5. t \in Seq(S) /\ Len(t) = Len(s) - a + 1 /\ \A i \in 1 .. Len(s) - a + 1 : t[i] = s[a + i - 1]
    BY <1>1, <1>3, SubSeqProperties
<1>6. u \in Seq(S) /\ Len(u) = Len(s) - a + 2 /\ \A i \in 1 .. Len(s) - a + 2 : u[i] = b[a + i - 1]
    BY <1>1, <1>4, SubSeqProperties
<1> HIDE DEF t, u, b
<1>7. Append(t, e) \in Seq(S) /\ Len(Append(t, e)) = Len(t) + 1 /\ Append(t, e)[Len(t) + 1] = e
      /\ \A i \in 1 .. Len(t) : Append(t, e)[i] = t[i]
    BY <1>5, AppendProperties
<1>8. ASSUME NEW i \in 1 .. Len(u) PROVE u[i] = Append(t, e)[i]
    <2>1. CASE i = Len(u)
        <3>1. Len(u) = Len(t) + 1 /\ a + i - 1 = Len(s) + 1 /\ i \in 1 .. Len(s) - a + 2
            BY <1>1, <1>5, <1>6, <2>1
        <3>2. u[i] = b[a + i - 1]
            BY <1>6, <3>1
        <3> QED
            BY <1>2, <1>7, <2>1, <3>1, <3>2
    <2>2. CASE i < Len(u)
        <3>1. u[i] = b[a + i - 1] /\ b[a + i - 1] = s[a + i - 1]
            <4>1. i \in 1 .. Len(s) - a + 2 /\ a + i - 1 \in 1 .. Len(s)
                BY <1>1, <1>6, <2>2
            <4> QED
                BY <1>2, <1>6, <4>1
        <3>2. Append(t, e)[i] = t[i] /\ t[i] = s[a + i - 1]
            BY <1>1, <1>5, <1>6, <1>7, <2>2
        <3> QED
            BY <3>1, <3>2
    <2>3. Len(u) \in Nat
        BY <1>6, LenProperties
    <2>4. i = Len(u) \/ i < Len(u)
        BY ONLY <2>3, i \in 1 .. Len(u)
    <2> QED
        BY <2>1, <2>2, <2>4
<1>9. Len(u) = Len(Append(t, e))
    BY <1>1, <1>5, <1>6, <1>7
<1>10. u = Append(t, e)
    BY <1>6, <1>7, <1>8, <1>9, SeqEqual
<1> QED
    BY <1>10 DEF t, u, b

\* What was read and what waits: an event moves from the one to the other, or joins the end.
LEMMA ReadAndWaiting ==
    ASSUME NEW S, NEW g \in Seq(S), NEW c \in Seq(S)
    PROVE  /\ \A e \in S : g \o Append(c, e) = Append(g \o c, e)
           /\ c # <<>> => Append(g, Head(c)) \o Tail(c) = g \o c
<1>1. ASSUME NEW e \in S PROVE g \o Append(c, e) = Append(g \o c, e)
    <2>1. <<e>> \in Seq(S) /\ g \o c \in Seq(S)
        BY ConcatProperties
    <2>2. Append(c, e) = c \o <<e>> /\ Append(g \o c, e) = (g \o c) \o <<e>>
        BY <2>1, AppendIsConcat
    <2> QED
        BY <2>1, <2>2, ConcatAssociative
<1>2. ASSUME c # <<>> PROVE Append(g, Head(c)) \o Tail(c) = g \o c
    <2>1. Head(c) \in S /\ Tail(c) \in Seq(S) /\ <<Head(c)>> \in Seq(S)
        BY <1>2, HeadTailProperties
    <2>2. Append(g, Head(c)) = g \o <<Head(c)>>
        BY <2>1, AppendIsConcat
    <2>3. Append(g, Head(c)) \o Tail(c) = g \o (<<Head(c)>> \o Tail(c))
        BY <2>1, <2>2, ConcatAssociative
    <2>4. <<Head(c)>> \o Tail(c) = c
        <3>1. /\ <<Head(c)>> \o Tail(c) \in Seq(S)
              /\ Len(<<Head(c)>> \o Tail(c)) = 1 + Len(Tail(c))
              /\ \A i \in 1 .. 1 + Len(Tail(c)) : (<<Head(c)>> \o Tail(c))[i] =
                     IF i <= 1 THEN Head(c) ELSE Tail(c)[i - 1]
            BY <2>1, ConcatProperties
        <3>2. Len(c) \in Nat /\ Len(Tail(c)) = Len(c) - 1 /\ \A i \in 1 .. Len(Tail(c)) : Tail(c)[i] = c[i + 1]
            BY <1>2, HeadTailProperties, LenProperties
        <3>3. ASSUME NEW i \in 1 .. Len(c) PROVE (<<Head(c)>> \o Tail(c))[i] = c[i]
            <4>1. CASE i = 1
                BY <1>2, <3>1, <3>2, <4>1
            <4>2. CASE i > 1
                <5>1. (<<Head(c)>> \o Tail(c))[i] = Tail(c)[i - 1]
                    BY <3>1, <3>2, <4>2
                <5>2. i - 1 \in 1 .. Len(Tail(c)) /\ (i - 1) + 1 = i
                    BY <3>2, <4>2
                <5> QED
                    BY <3>2, <5>1, <5>2
            <4> QED
                BY <3>2, <4>1, <4>2
        <3> QED
            BY <3>1, <3>2, <3>3, SeqEqual
    <2> QED
        BY <2>3, <2>4
<1> QED
    BY <1>1, <1>2

\* One connection: what it has read, what waits in its channel, and how often that was
\* closed, beside what has been fanned out since it joined.
ConnOK(st, ch, g, cl, sub, bh, sn) ==
    /\ st \in {"new", "joining"} => g = <<>> /\ ~ sub /\ cl = 0
    /\ sub /\ ~ bh /\ cl = 0 /\ st = "reading" =>
        sn \in 1 .. Len(fanned) + 1 /\ g \o ch = SubSeq(fanned, sn, Len(fanned))
    /\ sub /\ running => cl = 0

FeedTypes ==
    /\ inbox \in Seq(Msgs) /\ Len(inbox) <= QueueCap
    /\ fanned \in Seq(Msgs) /\ recent = LastOf(fanned, Replayed)
    /\ running \in BOOLEAN /\ ~ crashed
    /\ subs \subseteq Conns /\ behind \subseteq Conns
    /\ channel \in [Conns -> Seq(Msgs)] /\ \A c \in Conns : Len(channel[c]) <= Replayed + Slack
    /\ got \in [Conns -> Seq(Msgs)]
    /\ closed \in [Conns -> Nat] /\ since \in [Conns -> Nat]
    /\ conn \in [Conns -> {"new", "joining", "reading", "leaving", "gone"}]

\* What is remembered is the end of what was fanned out, no channel is over its room, none
\* of those listed is closed while run runs, and each connection has its due.
FeedInv ==
    /\ FeedTypes
    /\ \A c \in Conns : ConnOK(conn[c], channel[c], got[c], closed[c], c \in subs, c \in behind, since[c])

LEMMA FeedStarts == FeedInit => FeedInv
<1> SUFFICES ASSUME FeedInit PROVE FeedInv
    OBVIOUS
<1>1. <<>> \in Seq(Msgs) /\ Len(<<>>) = 0
    BY EmptySeq
<1>2. recent = LastOf(fanned, Replayed)
    <2>1. SubSeq(<<>>, 1, 0) = <<>>
        BY SubSeqEmpty
    <2> QED
        BY <1>1, <2>1, FeedAssumption DEF FeedInit, LastOf
<1> QED
    BY <1>1, <1>2, FeedAssumption DEF FeedInit, FeedInv, FeedTypes, ConnOK

LEMMA FeedKeptByEmit == ASSUME FeedInv, NEW e \in Msgs, Emit(e), Quiet PROVE FeedInv'
<1>1. inbox' \in Seq(Msgs) /\ Len(inbox') <= QueueCap
    BY AppendProperties, FeedAssumption DEF FeedInv, FeedTypes, Emit
<1>2. FeedTypes'
    BY <1>1 DEF FeedInv, FeedTypes, Quiet
<1> QED
    BY <1>2 DEF FeedInv, ConnOK, Quiet

LEMMA FeedKeptByFanOut == ASSUME FeedInv, FanOut PROVE FeedInv'
<1> USE FeedAssumption
<1> DEFINE e == Head(inbox)
           full == {c \in subs : Len(channel[c]) = Capacity}
<1>1. e \in Msgs /\ Tail(inbox) \in Seq(Msgs) /\ Len(Tail(inbox)) = Len(inbox) - 1
    BY HeadTailProperties DEF FanOut, FeedInv, FeedTypes
<1>2. Len(inbox) \in Nat /\ Len(fanned) \in Nat /\ \A c \in Conns : Len(channel[c]) \in Nat
    BY LenProperties DEF FeedInv, FeedTypes
<1> HIDE DEF e
<1>3. /\ recent' = LastOf(Append(recent, e), Replayed)
      /\ channel' = [c \in Conns |-> IF c \in subs \ full THEN Append(channel[c], e) ELSE channel[c]]
      /\ fanned' = Append(fanned, e) /\ inbox' = Tail(inbox) /\ behind' = behind \cup full
      /\ crashed' = (crashed \/ \E c \in subs : closed[c] > 0)
      /\ running /\ UNCHANGED <<running, subs, closed, conn, got, since>>
    BY DEF FanOut, Remember, e
<1>4. recent' = LastOf(fanned', Replayed) /\ fanned' \in Seq(Msgs) /\ Len(fanned') = Len(fanned) + 1
    BY <1>1, <1>3, RememberIsLast, AppendProperties DEF FeedInv, FeedTypes
<1>5. ~ crashed'
    <2>1. \A c \in subs : ~ (closed[c] > 0)
        BY <1>3 DEF FeedInv, FeedTypes, ConnOK
    <2>2. ~ crashed
        BY DEF FeedInv, FeedTypes
    <2> QED
        BY <1>3, <2>1, <2>2, Zenon
<1>6. ASSUME NEW c \in Conns
      PROVE  channel'[c] \in Seq(Msgs) /\ Len(channel'[c]) <= Replayed + Slack
    <2>1. channel[c] \in Seq(Msgs) /\ Len(channel[c]) <= Replayed + Slack
        BY DEF FeedInv, FeedTypes
    <2>2. CASE c \in subs \ full
        <3>1. channel'[c] = Append(channel[c], e)
            BY <1>3, <2>2
        <3>2. Len(channel[c]) # Replayed + Slack
            BY <2>2 DEF Capacity
        <3> QED
            BY <1>1, <1>2, <2>1, <3>1, <3>2, AppendProperties
    <2>3. CASE c \notin subs \ full
        BY <1>3, <2>1, <2>3
    <2> QED
        BY <2>2, <2>3
<1>7. FeedTypes'
    <2>1. channel' \in [Conns -> Seq(Msgs)] /\ \A c \in Conns : Len(channel'[c]) <= Replayed + Slack
        BY <1>3, <1>6
    <2>2. inbox' \in Seq(Msgs) /\ Len(inbox') <= QueueCap
        BY <1>1, <1>2, <1>3 DEF FeedInv, FeedTypes
    <2> QED
        BY <1>3, <1>4, <1>5, <2>1, <2>2 DEF FeedInv, FeedTypes
<1>8. ASSUME NEW c \in Conns
      PROVE  ConnOK(conn[c], channel[c], got[c], closed[c], c \in subs, c \in behind, since[c])'
    <2>1. ConnOK(conn[c], channel[c], got[c], closed[c], c \in subs, c \in behind, since[c])
        BY DEF FeedInv
    <2>2. ASSUME c \in subs', c \notin behind', closed'[c] = 0, conn'[c] = "reading"
          PROVE  /\ since'[c] \in 1 .. Len(fanned') + 1
                 /\ got'[c] \o channel'[c] = SubSeq(fanned', since'[c], Len(fanned'))
        <3>1. /\ since[c] \in 1 .. Len(fanned) + 1
              /\ got[c] \o channel[c] = SubSeq(fanned, since[c], Len(fanned))
            BY <1>3, <2>1, <2>2 DEF ConnOK
        <3>2. channel'[c] = Append(channel[c], e)
            BY <1>3, <2>2
        <3>3. got[c] \in Seq(Msgs) /\ channel[c] \in Seq(Msgs) /\ fanned \in Seq(Msgs)
            BY DEF FeedInv, FeedTypes
        <3>4. got[c] \o Append(channel[c], e) = Append(got[c] \o channel[c], e)
            BY <1>1, <3>3, ReadAndWaiting
        <3>5. SubSeq(Append(fanned, e), since[c], Len(fanned) + 1) = Append(SubSeq(fanned, since[c], Len(fanned)), e)
            BY <1>1, <3>1, <3>3, FannedFrom
        <3>6. got' = got /\ since' = since /\ fanned' = Append(fanned, e) /\ Len(fanned') = Len(fanned) + 1
            BY <1>3, <1>4
        <3>7. since[c] \in 1 .. (Len(fanned) + 1) + 1
            BY <1>2, <3>1
        <3> QED
            BY <3>1, <3>2, <3>4, <3>5, <3>6, <3>7
    <2> QED
        BY <1>3, <2>1, <2>2 DEF ConnOK
<1> QED
    BY <1>7, <1>8 DEF FeedInv

LEMMA FeedKeptByJoin == ASSUME FeedInv, NEW c \in Conns, Join(c) PROVE FeedInv'
<1> USE FeedAssumption
<1>1. /\ recent \in Seq(Msgs) /\ Len(recent) = (IF Len(fanned) > Replayed THEN Replayed ELSE Len(fanned))
      /\ Len(fanned) \in Nat
    BY LastOfLength, LenProperties DEF FeedInv, FeedTypes
<1>2. SubSeq(recent, 1, IF Len(recent) < Capacity THEN Len(recent) ELSE Capacity) = recent
    <2>1. (IF Len(recent) < Capacity THEN Len(recent) ELSE Capacity) = Len(recent)
        BY <1>1 DEF Capacity
    <2> QED
        BY <1>1, <2>1, SubSeqFull
<1>3. /\ channel' = [channel EXCEPT ![c] = recent] /\ conn' = [conn EXCEPT ![c] = "reading"]
      /\ since' = [since EXCEPT ![c] = IF Len(fanned) > Replayed THEN Len(fanned) - Replayed + 1 ELSE 1]
      /\ subs' = subs \cup {c} /\ running /\ conn[c] = "joining"
      /\ UNCHANGED <<inbox, running, recent, closed, got, fanned, behind, crashed>>
    BY <1>2 DEF Join
<1>4. FeedTypes'
    <2>1. Len(recent) <= Replayed + Slack
        BY <1>1
    <2> QED
        BY <1>1, <1>3, <2>1 DEF FeedInv, FeedTypes
<1>5. recent = SubSeq(fanned, since'[c], Len(fanned)) /\ since'[c] \in 1 .. Len(fanned) + 1
    BY <1>1, <1>3 DEF FeedInv, FeedTypes, LastOf
<1>6. got[c] \o recent = recent
    BY <1>1, <1>3, ConcatEmptySeq DEF FeedInv, ConnOK
<1>7. ASSUME NEW d \in Conns
      PROVE  ConnOK(conn[d], channel[d], got[d], closed[d], d \in subs, d \in behind, since[d])'
    <2>1. ConnOK(conn[d], channel[d], got[d], closed[d], d \in subs, d \in behind, since[d])
        BY DEF FeedInv
    <2>2. CASE d = c
        <3>1. channel'[d] = recent /\ conn'[d] = "reading" /\ got' = got /\ fanned' = fanned /\ closed' = closed
            BY <1>3, <2>2 DEF FeedInv, FeedTypes
        <3>2. closed[d] = 0
            BY <1>3, <2>1, <2>2 DEF ConnOK
        <3> QED
            BY <1>5, <1>6, <2>2, <3>1, <3>2 DEF ConnOK
    <2>3. CASE d # c
        <3>1. channel'[d] = channel[d] /\ conn'[d] = conn[d] /\ since'[d] = since[d] /\ (d \in subs' <=> d \in subs)
            BY <1>3, <2>3 DEF FeedInv, FeedTypes
        <3> QED
            BY <1>3, <2>1, <3>1 DEF ConnOK
    <2> QED
        BY <2>2, <2>3
<1> QED
    BY <1>4, <1>7 DEF FeedInv

\* The steps that close channels: none is closed twice, for none that is listed is closed.
LEMMA FeedKeptByClose ==
    ASSUME FeedInv, FeedStops \/ \E c \in Conns : Leave(c)
    PROVE  FeedInv'
<1>1. CASE FeedStops
    <2>1. ~ crashed' /\ closed' \in [Conns -> Nat]
        <3>1. running /\ \A d \in subs : ~ (closed[d] > 0)
            BY <1>1 DEF FeedStops, FeedInv, FeedTypes, ConnOK
        <3>2. ~ crashed
            BY DEF FeedInv, FeedTypes
        <3>3. ~ crashed'
            BY <1>1, <3>1, <3>2, Zenon DEF FeedStops, Close
        <3>4. closed' \in [Conns -> Nat]
            BY <1>1 DEF FeedStops, Close, FeedInv, FeedTypes
        <3> QED
            BY <3>3, <3>4
    <2>2. FeedTypes'
        BY <1>1, <2>1 DEF FeedStops, FeedInv, FeedTypes
    <2>3. ASSUME NEW d \in Conns
          PROVE  ConnOK(conn[d], channel[d], got[d], closed[d], d \in subs, d \in behind, since[d])'
        <3>1. ConnOK(conn[d], channel[d], got[d], closed[d], d \in subs, d \in behind, since[d])
            BY DEF FeedInv
        <3>2. closed'[d] = IF d \in subs THEN closed[d] + 1 ELSE closed[d]
            BY <1>1 DEF FeedStops, Close
        <3>3. closed[d] \in Nat /\ (closed'[d] = 0 => d \notin subs \/ closed[d] = 0)
            BY <3>2 DEF FeedInv, FeedTypes
        <3> QED
            BY <1>1, <3>1, <3>2, <3>3 DEF FeedStops, ConnOK
    <2> QED
        BY <2>2, <2>3 DEF FeedInv
<1>2. ASSUME NEW c \in Conns, Leave(c) PROVE FeedInv'
    <2>1. ~ crashed' /\ closed' \in [Conns -> Nat]
        <3>1. running /\ \A d \in subs : ~ (closed[d] > 0)
            BY <1>2 DEF Leave, FeedInv, FeedTypes, ConnOK
        <3>2. ~ crashed
            BY DEF FeedInv, FeedTypes
        <3>3. ~ crashed'
            BY <1>2, <3>1, <3>2, Zenon DEF Leave, Close
        <3>4. closed' \in [Conns -> Nat]
            BY <1>2 DEF Leave, Close, FeedInv, FeedTypes
        <3> QED
            BY <3>3, <3>4
    <2>2. FeedTypes'
        BY <1>2, <2>1 DEF Leave, Without, FeedInv, FeedTypes
    <2>3. ASSUME NEW d \in Conns
          PROVE  ConnOK(conn[d], channel[d], got[d], closed[d], d \in subs, d \in behind, since[d])'
        <3>1. ConnOK(conn[d], channel[d], got[d], closed[d], d \in subs, d \in behind, since[d])
            BY DEF FeedInv
        <3>2. CASE d # c
            <4>1. closed'[d] = closed[d] /\ conn'[d] = conn[d] /\ (d \in subs' <=> d \in subs)
                BY <1>2, <3>2 DEF Leave, Without, Close, FeedInv, FeedTypes
            <4> QED
                BY <1>2, <3>1, <4>1 DEF Leave, ConnOK
        <3>3. CASE d = c
            BY <1>2, <3>3 DEF Leave, Without, FeedInv, FeedTypes, ConnOK
        <3> QED
            BY <3>2, <3>3
    <2> QED
        BY <2>2, <2>3 DEF FeedInv
<1> QED
    BY <1>1, <1>2

LEMMA FeedKeptByServe ==
    ASSUME FeedInv, NEW c \in Conns,
           Connect(c) \/ Read(c) \/ Disconnect(c) \/ EndOfStream(c) \/ LeaveTimesOut(c)
    PROVE  FeedInv'
<1>1. CASE Read(c)
    <2>1. channel[c] \in Seq(Msgs) /\ got[c] \in Seq(Msgs) /\ channel[c] # <<>> /\ Len(channel[c]) <= Replayed + Slack
        BY <1>1 DEF Read, FeedInv, FeedTypes
    <2>2. /\ Head(channel[c]) \in Msgs /\ Tail(channel[c]) \in Seq(Msgs)
          /\ Len(Tail(channel[c])) = Len(channel[c]) - 1 /\ Len(channel[c]) \in Nat
        BY <2>1, HeadTailProperties, LenProperties
    <2>3. Append(got[c], Head(channel[c])) \in Seq(Msgs)
        BY <2>1, <2>2, AppendProperties
    <2>4. /\ got' = [got EXCEPT ![c] = Append(got[c], Head(channel[c]))]
          /\ channel' = [channel EXCEPT ![c] = Tail(channel[c])] /\ conn[c] = "reading"
          /\ UNCHANGED <<inbox, running, recent, subs, closed, conn, fanned, since, behind, crashed>>
        BY <1>1 DEF Read
    <2>5. Len(Tail(channel[c])) <= Replayed + Slack
        BY <2>1, <2>2, FeedAssumption
    <2>6. FeedTypes'
        BY <2>2, <2>3, <2>4, <2>5 DEF FeedInv, FeedTypes
    <2>7. Append(got[c], Head(channel[c])) \o Tail(channel[c]) = got[c] \o channel[c]
        BY <2>1, ReadAndWaiting
    <2>8. ASSUME NEW d \in Conns
          PROVE  ConnOK(conn[d], channel[d], got[d], closed[d], d \in subs, d \in behind, since[d])'
        <3>1. ConnOK(conn[d], channel[d], got[d], closed[d], d \in subs, d \in behind, since[d])
            BY DEF FeedInv
        <3>2. got'[d] \o channel'[d] = got[d] \o channel[d] /\ (d # c => got'[d] = got[d])
            BY <2>4, <2>7 DEF FeedInv, FeedTypes
        <3> QED
            BY <2>4, <3>1, <3>2 DEF ConnOK
    <2> QED
        BY <2>6, <2>8 DEF FeedInv
<1>2. CASE Connect(c) \/ Disconnect(c) \/ LeaveTimesOut(c)
    <2>1. UNCHANGED <<inbox, running, recent, subs, channel, closed, got, fanned, since, behind, crashed>>
        BY <1>2 DEF Connect, Disconnect, LeaveTimesOut
    <2>2. ASSUME NEW d \in Conns
          PROVE  /\ conn'[d] \in {"new", "joining"} => conn[d] \in {"new", "joining"}
                 /\ conn'[d] = "reading" => conn[d] = "reading"
        BY <1>2 DEF Connect, Disconnect, LeaveTimesOut, FeedInv, FeedTypes
    <2>3. conn' \in [Conns -> {"new", "joining", "reading", "leaving", "gone"}]
        BY <1>2 DEF Connect, Disconnect, LeaveTimesOut, FeedInv, FeedTypes
    <2>4. FeedTypes'
        BY <2>1, <2>3 DEF FeedInv, FeedTypes
    <2> QED
        BY <2>1, <2>2, <2>4 DEF FeedInv, ConnOK
<1> QED
    BY <1>1, <1>2 DEF EndOfStream

LEMMA FeedKeptByStep == ASSUME FeedInv, FeedStep PROVE FeedInv'
    BY FeedKeptByFanOut, FeedKeptByJoin, FeedKeptByClose, FeedKeptByServe DEF FeedStep

(***************************************************************************)
(* The submissions.                                                        *)
(***************************************************************************)
\* The namespaces a submission may go to: those named somewhere, without the two that
\* stand for none.
Places == ({DefaultNS} \cup UNION {Range(r.targets) : r \in Replies}) \ {"blank", "default"}

Tries == 0 .. TranslateRetries
Manifests == Seq(Places)

Asks == [at : {"new", "translating", "proposed", "ready", "applying", "over"},
         wish : {"nothing", "intent", "manifest", "propose"}, tries : Tries,
         draft : Manifests, sent : Manifests,
         outcome : {"none", "applied", "refused", "interrupted"},
         answer : {"none", "forbidden", "bad request", "discarded", "accepted", "hung up",
                   "applied", "refused", "interrupted"}]

\* One request: a proposal has a target, an outcome is the end of it, and the answer is true.
AskOK(c, a) ==
    /\ a \in Asks
    /\ a.at = "proposed" => a.draft # <<>>
    /\ a.outcome # "none" => a.at = "over"
    /\ a.answer \in {"applied", "refused"} => a.outcome = a.answer
    /\ c \in Pages => a.outcome # "interrupted"

SubmitInv ==
    /\ FeedInv
    /\ DOMAIN ask = Clients /\ \A c \in Clients : AskOK(c, ask[c])
    /\ noise \in 0 .. MaxNoise

\* The back-fill leaves no target without a place, and a manifest keeps its targets.
LEMMA BackFillPlaces ==
    ASSUME NEW r \in Replies, parseManifest(r)
    PROVE  BackFill(r.targets) \in Manifests /\ BackFill(r.targets) # <<>>
<1> DEFINE t == r.targets
           n == Len(t)
<1>1. t \in Seq(Range(t)) /\ t # <<>>
    BY NamesAssumption DEF parseManifest
<1>2. n \in Nat \ {0} /\ DOMAIN t = 1 .. n
    BY <1>1, LenProperties, EmptySeq
<1>3. BackFill(t) = [i \in 1 .. n |-> IF t[i] \in {"blank", "default"} THEN DefaultNS ELSE t[i]]
    BY <1>2 DEF BackFill
<1>4. \A i \in 1 .. n : (IF t[i] \in {"blank", "default"} THEN DefaultNS ELSE t[i]) \in Places
    BY <1>2, NamesAssumption DEF Places, Range
<1>5. BackFill(t) \in [1 .. n -> Places]
    BY <1>3, <1>4
<1>6. BackFill(t) \in Seq(Places) /\ Len(BackFill(t)) = n
    BY <1>2, <1>5
<1> QED
    BY <1>2, <1>6 DEF Manifests

\* Another try, or a draft, in place of what a request had.
LEMMA AsksKept ==
    ASSUME NEW a \in Asks, NEW n \in Tries
    PROVE  /\ [a EXCEPT !.tries = n] \in Asks
           /\ \A m \in Manifests : [a EXCEPT !.at = "proposed", !.draft = m] \in Asks
<1>1. [a EXCEPT !.tries = n] \in Asks
    BY DEF Asks
<1>2. ASSUME NEW m \in Manifests PROVE [a EXCEPT !.at = "proposed", !.draft = m] \in Asks
    BY DEF Asks
<1> QED
    BY <1>1, <1>2

LEMMA SubmitStarts == DirInit => SubmitInv
<1> SUFFICES ASSUME DirInit PROVE SubmitInv
    OBVIOUS
<1>1. FeedInv /\ noise \in 0 .. MaxNoise
    BY FeedStarts, DirectedAssumption DEF DirInit
<1>2. ASSUME NEW c \in Clients PROVE AskOK(c, ask[c])
    <2>1. PICK w \in {"nothing", "intent", "manifest", "propose"} : ask[c] = NewAsk(w)
        BY DEF DirInit, Wishes
    <2>2. <<>> \in Manifests /\ 0 \in Tries
        BY EmptySeq, DirectedAssumption DEF Manifests, Tries
    <2> QED
        BY <2>1, <2>2, DirectedAssumption DEF NewAsk, AskOK, Asks
<1>3. DOMAIN ask = Clients
    BY DEF DirInit
<1> QED
    BY <1>1, <1>2, <1>3 DEF SubmitInv

\* A step that leaves the stream alone and gives one client a sound request.
LEMMA SubmitKept ==
    ASSUME SubmitInv, NEW c \in Clients, NEW a, AskOK(c, a), Becomes(c, a), FeedInv'
    PROVE  SubmitInv'
<1>1. ask' = [ask EXCEPT ![c] = a] /\ noise' = noise
    BY DEF Becomes
<1> QED
    BY <1>1 DEF SubmitInv, AskOK

LEMMA StreamUnmoved == ASSUME FeedInv, UNCHANGED feedVars PROVE FeedInv'
    BY DEF FeedInv, FeedTypes, ConnOK, feedVars

LEMMA SubmitKeptByRefuse ==
    ASSUME SubmitInv, NEW c \in Clients, ask[c].outcome = "none",
           NEW why \in {"forbidden", "bad request", "discarded"}, Refuse(c, why), FeedInv'
    PROVE  SubmitInv'
<1> DEFINE a == [ask[c] EXCEPT !.at = "over", !.answer = why]
<1>1. AskOK(c, a)
    BY ZenonT(30) DEF SubmitInv, AskOK, Asks
<1>2. Becomes(c, a)
    BY DEF Refuse
<1> HIDE DEF a
<1> QED
    BY <1>1, <1>2, SubmitKept

LEMMA SubmitKeptByStep == ASSUME SubmitInv, [DirNext]_divars PROVE SubmitInv'
<1> USE DirectedAssumption
<1>0. ASSUME UNCHANGED divars PROVE SubmitInv'
    <2>1. FeedInv' /\ ask' = ask /\ noise' = noise
        BY <1>0, StreamUnmoved DEF divars, SubmitInv
    <2> QED
        BY <2>1 DEF SubmitInv, AskOK
<1>1. ASSUME Stream(FeedStep) PROVE SubmitInv'
    <2>1. FeedInv' /\ ask' = ask /\ noise' = noise
        BY <1>1, FeedKeptByStep DEF Stream, SubmitInv
    <2> QED
        BY <2>1 DEF SubmitInv, AskOK
<1>2. ASSUME OtherEvent PROVE SubmitInv'
    <2>1. FeedInv'
        BY <1>2, FeedKeptByEmit DEF OtherEvent, SubmitInv, Msgs
    <2>2. ask' = ask /\ noise' \in 0 .. MaxNoise
        BY <1>2 DEF OtherEvent, SubmitInv
    <2> QED
        BY <2>1, <2>2 DEF SubmitInv, AskOK
<1>3. ASSUME NEW c \in Clients PROVE ask[c] \in Asks /\ AskOK(c, ask[c])
    BY DEF SubmitInv, AskOK
<1>4. ASSUME UNCHANGED feedVars PROVE FeedInv'
    BY <1>4, StreamUnmoved DEF SubmitInv
<1>5. ASSUME NEW c \in Clients, Submit(c) PROVE SubmitInv'
    <2>1. ask[c].outcome = "none" /\ FeedInv'
        BY <1>3, <1>4, <1>5 DEF Submit, AskOK
    <2>2. CASE Refuse(c, "forbidden") \/ Refuse(c, "bad request")
        BY <2>1, <2>2, SubmitKeptByRefuse
    <2>3. ASSUME NEW a \in {[ask[c] EXCEPT !.at = "ready", !.sent = <<DefaultNS>>],
                            [ask[c] EXCEPT !.at = "translating"]}, Becomes(c, a)
          PROVE  SubmitInv'
        <3>1. <<DefaultNS>> \in Manifests
            <4>1. DefaultNS \in Places
                BY NamesAssumption DEF Places
            <4> QED
                BY <4>1 DEF Manifests
        <3>2. AskOK(c, a)
            BY <1>3, <2>1, <3>1 DEF AskOK, Asks
        <3> QED
            BY <2>1, <2>3, <3>2, SubmitKept
    <2> QED
        BY <1>5, <2>2, <2>3 DEF Submit
<1>6. ASSUME NEW c \in Clients, NEW r \in Replies, Translated(c, r) PROVE SubmitInv'
    <2> DEFINE m == BackFill(r.targets)
               a == IF ask[c].wish = "propose"
                    THEN [ask[c] EXCEPT !.at = "proposed", !.draft = m, !.tries = 0]
                    ELSE [ask[c] EXCEPT !.at = "ready", !.draft = m, !.sent = m, !.tries = 0]
    <2>1. m \in Manifests /\ m # <<>>
        BY <1>6, BackFillPlaces DEF Translated
    <2>2. Becomes(c, a) /\ FeedInv'
        BY <1>4, <1>6 DEF Translated
    <2> HIDE DEF m
    <2>3. ask[c].outcome = "none"
        BY <1>3, <1>6 DEF Translated, AskOK
    <2>4. CASE ask[c].wish = "propose"
        <3>1. a = [ask[c] EXCEPT !.at = "proposed", !.draft = m, !.tries = 0]
            BY <2>4
        <3>2. AskOK(c, a)
            <4>1. 0 \in Tries
                BY DEF Tries
            <4>2. a \in Asks
                <5>1. [ask[c] EXCEPT !.at = "proposed", !.draft = m] \in Asks
                    BY <1>3, <2>1, <4>1, AsksKept
                <5> QED
                    BY <3>1, <4>1, <5>1, AsksKept
            <4>3. a.at = "proposed" /\ a.draft = m /\ a.outcome = ask[c].outcome /\ a.answer = ask[c].answer
                BY <1>3, <3>1 DEF Asks
            <4> QED
                BY <1>3, <2>1, <2>3, <4>2, <4>3 DEF AskOK
        <3> HIDE DEF a
        <3> QED
            BY <2>2, <3>2, SubmitKept
    <2>5. CASE ask[c].wish # "propose"
        <3>1. a = [ask[c] EXCEPT !.at = "ready", !.draft = m, !.sent = m, !.tries = 0]
            BY <2>5
        <3>2. AskOK(c, a)
            <4>1. 0 \in Tries
                BY DEF Tries
            <4>2. a \in Asks
                BY <1>3, <2>1, <3>1, <4>1, ZenonT(30) DEF Asks
            <4>3. a.at = "ready" /\ a.draft = m /\ a.outcome = ask[c].outcome /\ a.answer = ask[c].answer
                BY <1>3, <3>1 DEF Asks
            <4> QED
                BY <1>3, <2>1, <2>3, <4>2, <4>3 DEF AskOK
        <3> HIDE DEF a
        <3> QED
            BY <2>2, <3>2, SubmitKept
    <2> QED
        BY <2>4, <2>5
<1>7. ASSUME NEW c \in Clients, NEW r \in Replies, Retry(c, r) PROVE SubmitInv'
    <2>1. ask[c].outcome = "none" /\ FeedInv'
        BY <1>3, <1>4, <1>7 DEF Retry, AskOK
    <2>2. CASE Refuse(c, "bad request")
        BY <2>1, <2>2, SubmitKeptByRefuse
    <2>3. CASE ask[c].tries < TranslateRetries /\ Becomes(c, [ask[c] EXCEPT !.tries = @ + 1])
        <3> DEFINE n == ask[c].tries + 1
                   a == [ask[c] EXCEPT !.tries = n]
        <3>1. n \in Tries
            <4>1. ask[c].tries \in Tries
                BY <1>3 DEF Asks
            <4> QED
                BY <2>3, <4>1 DEF Tries
        <3> HIDE DEF n
        <3>2. a \in Asks
            BY <1>3, <3>1, AsksKept
        <3>3. a.at = ask[c].at /\ a.draft = ask[c].draft /\ a.outcome = ask[c].outcome /\ a.answer = ask[c].answer
            BY <1>3 DEF Asks
        <3>4. AskOK(c, a)
            BY <1>3, <3>2, <3>3 DEF AskOK
        <3>5. Becomes(c, a)
            BY <2>3 DEF n
        <3> HIDE DEF a
        <3> QED
            BY <2>1, <3>4, <3>5, SubmitKept
    <2> QED
        BY <1>7, <2>2, <2>3 DEF Retry
<1>8. ASSUME NEW c \in Clients, TranslateFails(c) PROVE SubmitInv'
    <2>1. ask[c].outcome = "none" /\ FeedInv' /\ Refuse(c, "bad request")
        BY <1>3, <1>4, <1>8 DEF TranslateFails, AskOK
    <2> QED
        BY <2>1, SubmitKeptByRefuse
<1>9. ASSUME NEW c \in Clients, Confirm(c) PROVE SubmitInv'
    <2>1. ask[c].outcome = "none" /\ FeedInv' /\ ask[c].at = "proposed"
        BY <1>3, <1>4, <1>9 DEF Confirm, AskOK
    <2>2. CASE Refuse(c, "discarded")
        BY <2>1, <2>2, SubmitKeptByRefuse
    <2>3. CASE Becomes(c, [ask[c] EXCEPT !.at = "ready", !.sent = proposalOf(ask[c].draft)])
        <3> DEFINE p == proposalOf(ask[c].draft)
                   a == [ask[c] EXCEPT !.at = "ready", !.sent = p]
        <3>1. Head(ask[c].draft) \in Places
            BY <1>3, <2>1, HeadTailProperties DEF AskOK, Asks, Manifests
        <3>2. p \in Manifests
            BY <3>1 DEF proposalOf, Manifests
        <3>3. Becomes(c, a)
            BY <2>3
        <3> HIDE DEF p
        <3>4. AskOK(c, a)
            BY <1>3, <2>1, <3>2 DEF AskOK, Asks
        <3> HIDE DEF a
        <3> QED
            BY <2>1, <3>3, <3>4, SubmitKept
    <2> QED
        BY <1>9, <2>2, <2>3 DEF Confirm
<1>10. ASSUME NEW c \in Clients, Dispatch(c) PROVE SubmitInv'
    <2> DEFINE a == [ask[c] EXCEPT !.at = "applying"]
    <2>1. Becomes(c, a) /\ FeedInv' /\ ask[c].at = "ready"
        BY <1>4, <1>10 DEF Dispatch
    <2>2. AskOK(c, a)
        BY <1>3, <2>1 DEF AskOK, Asks
    <2> HIDE DEF a
    <2> QED
        BY <2>1, <2>2, SubmitKept
<1>11. ASSUME NEW c \in Clients, Finish(c) PROVE SubmitInv'
    <2>1. PICK o \in {"applied", "refused"} \cup (IF Interruptible(c) THEN {"interrupted"} ELSE {}) :
              Becomes(c, [ask[c] EXCEPT !.at = "over", !.outcome = o]) /\ Emit(c)
        BY <1>11 DEF Finish
    <2> DEFINE a == [ask[c] EXCEPT !.at = "over", !.outcome = o]
    <2>2. FeedInv'
        BY <1>11, <2>1, FeedKeptByEmit DEF Finish, SubmitInv, Msgs
    <2>3. o \in {"applied", "refused", "interrupted"} /\ (c \in Pages => o # "interrupted")
        BY <2>1 DEF Interruptible, Via
    <2>4. ask[c].answer \notin {"applied", "refused"}
        BY <1>3, <1>11 DEF Finish, AskOK
    <2>5. AskOK(c, a)
        BY <1>3, <2>3, <2>4 DEF AskOK, Asks
    <2>6. Becomes(c, a)
        BY <2>1
    <2> HIDE DEF a
    <2> QED
        BY <2>2, <2>5, <2>6, SubmitKept
<1>12. ASSUME NEW c \in Clients, Reply(c) PROVE SubmitInv'
    <2>1. PICK w \in {ask[c].outcome, "accepted"} :
              Becomes(c, [ask[c] EXCEPT !.answer = w]) /\ (w = "accepted" \/ w = ask[c].outcome)
        BY <1>12 DEF Reply
    <2> DEFINE a == [ask[c] EXCEPT !.answer = w]
    <2>2. FeedInv' /\ Becomes(c, a)
        BY <1>4, <1>12, <2>1 DEF Reply
    <2>3. AskOK(c, a)
        BY <1>3, <2>1 DEF AskOK, Asks
    <2> HIDE DEF a
    <2> QED
        BY <2>2, <2>3, SubmitKept
<1>13. ASSUME NEW c \in Clients, HangUp(c) PROVE SubmitInv'
    <2> DEFINE a == [ask[c] EXCEPT !.answer = "hung up"]
    <2>1. Becomes(c, a) /\ FeedInv'
        BY <1>4, <1>13 DEF HangUp
    <2>2. AskOK(c, a)
        BY <1>3 DEF AskOK, Asks
    <2> HIDE DEF a
    <2> QED
        BY <2>1, <2>2, SubmitKept
<1> QED
    BY <1>0, <1>1, <1>2, <1>5, <1>6, <1>7, <1>8, <1>9, <1>10, <1>11, <1>12, <1>13 DEF DirNext, Stopped

\* A submission goes where its client meant it to, is answered truly, and is seen by the
\* pages that keep up with the stream, for every number of clients, length of the queues and
\* answer of the LLM.
THEOREM AlwaysSubmittedTrue == DirSpec => []SubmittedTrue
<1>1. SubmitInv => SubmittedTrue
    <2> SUFFICES ASSUME SubmitInv PROVE SubmittedTrue
        OBVIOUS
    <2>1. FeedWhole /\ NeverPanics
        BY DEF SubmitInv, FeedInv, FeedTypes, ConnOK, FeedWhole, NeverPanics
    <2>2. MeantPlace
        <3> SUFFICES ASSUME NEW c \in Clients, NEW i \in DOMAIN ask[c].sent
                     PROVE  ask[c].sent[i] \notin {"blank", "default"}
            BY DEF MeantPlace
        <3>1. ask[c].sent \in Seq(Places)
            BY DEF SubmitInv, AskOK, Asks, Manifests
        <3> QED
            BY <3>1, LenProperties, ElementOfSeq DEF Places
    <2>3. AnswerTrue
        BY DEF SubmitInv, AskOK, AnswerTrue
    <2>4. DirTypeOK
        <3>1. Len(recent) <= Replayed
            BY LastOfLength, LenProperties, FeedAssumption DEF SubmitInv, FeedInv, FeedTypes
        <3>2. ASSUME NEW c \in Clients
              PROVE  /\ ask[c].at \in {"new", "translating", "proposed", "ready", "applying", "over"}
                     /\ ask[c].tries \in 0 .. TranslateRetries
                     /\ ask[c].outcome \in {"none", "applied", "refused", "interrupted"}
            BY DEF SubmitInv, AskOK, Asks, Tries
        <3> QED
            BY <3>1, <3>2 DEF SubmitInv, FeedInv, FeedTypes, DirTypeOK
    <2> QED
        BY <2>1, <2>2, <2>3, <2>4 DEF SubmittedTrue
<1> QED
    BY <1>1, SubmitStarts, SubmitKeptByStep, PTL DEF DirSpec

(***************************************************************************)
(* The objects of a fault.                                                 *)
(***************************************************************************)
\* A shape: one or two objects of known types, and what its driver says of them.
ShapeOK(s) ==
    /\ Len(s.objs) \in 1 .. 2 /\ DOMAIN s.objs = 1 .. Len(s.objs)
    /\ \A n \in 1 .. Len(s.objs) : s.objs[n] \in Range(Resources)
    /\ s.driver = "kube-state" => \A n \in 1 .. Len(s.objs) : s.objs[n] \in KubeState
    /\ s.dur \in Nat

LEMMA ShapeLength == ASSUME NEW s, ShapeOK(s) PROVE Len(s.objs) \in Nat /\ 1 <= Len(s.objs) /\ Len(s.objs) <= 2
<1>1. PICK l : l = Len(s.objs)
    OBVIOUS
<1>2. l \in 1 .. 2
    BY <1>1 DEF ShapeOK
<1>3. l \in Nat /\ 1 <= l /\ l <= 2
    BY <1>2
<1> QED
    BY <1>1, <1>3

LEMMA ResourceTypes == Range(Resources) = {"networkpolicies", "chaos", "deployments", "services"}
    BY DEF Range, Resources

LEMMA ShapesSound == ASSUME NEW s \in ShapesOf, NEW f \in Faults PROVE ShapeOK(s[f])
<1>1. PICK k \in {Policy, Single, Outage, Backend, Rollout} : s[f] = [k EXCEPT !.dur = s[f].dur]
    BY ShapesAssumption
<1>2. s[f].dur \in Nat
    BY ShapesAssumption
<1>3. s[f].objs = k.objs /\ s[f].driver = k.driver
    BY <1>1 DEF Policy, Single, Outage, Backend, Rollout
<1>4. CASE k \in {Policy, Single, Outage}
    BY <1>2, <1>3, <1>4, ResourceTypes DEF ShapeOK, Policy, Single, Outage
<1>5. CASE k \in {Backend, Rollout}
    BY <1>2, <1>3, <1>5, ResourceTypes DEF ShapeOK, KubeState, Backend, Rollout
<1> QED
    BY <1>4, <1>5

\* Objects numbered from 1 to n without a number used twice are at most n, and n of them
\* only if no number is missing.
Numbered(L, n) ==
    /\ \A o \in L : o.id[2] \in 1 .. n
    /\ \A o, p \in L : o.id[2] = p.id[2] => o = p

LEMMA NumberedCount ==
    ASSUME NEW L, NEW n \in Nat, Numbered(L, n)
    PROVE  /\ IsFiniteSet(L) /\ Cardinality(L) \in Nat /\ Cardinality(L) <= n
           /\ Cardinality(L) = n => \A k \in 1 .. n : \E o \in L : o.id[2] = k
           /\ (\A k \in 1 .. n : \E o \in L : o.id[2] = k) => Cardinality(L) = n
<1> DEFINE g == [o \in L |-> o.id[2]]
<1>1. g \in Injection(L, 1 .. n)
    BY DEF Injection, IsInjective, Numbered
<1>2. IsFiniteSet(1 .. n) /\ Cardinality(1 .. n) = n
    BY FS_Interval
<1>3. /\ IsFiniteSet(L) /\ Cardinality(L) <= n
      /\ Cardinality(L) = n <=> g \in Surjection(L, 1 .. n)
    BY <1>1, <1>2, FS_Injection
<1>4. g \in Surjection(L, 1 .. n) <=> \A k \in 1 .. n : \E o \in L : o.id[2] = k
    BY <1>1 DEF Injection, Surjection
<1> QED
    BY <1>3, <1>4, FS_CardinalityType

\* The deadline of the fault has passed.
Due(f) == expiry[f] # Never /\ expiry[f] < now

\* An object of this number was asked for, or will never be.
Spent(i) == i[2] <= created[i[1]] \/ stage[i[1]] \notin {"idle", "applying"}

Stages == {"idle", "applying", "undoing", "applied", "failed", "clearing", "cleared", "lost"}

CountTypes == now \in 0 .. MaxTime /\ errors \in 0 .. MaxErrors /\ crashes \in 0 .. MaxCrashes

CallTypes ==
    /\ stage \in [Faults -> Stages]
    /\ expiry \in [Faults -> Int]
    /\ created \in [Faults -> 0 .. 2]
    /\ todo \in [Faults -> SUBSET Range(Resources)]
    /\ \A f \in Faults : todo[f] # {} <=> stage[f] \in {"undoing", "clearing"}
    /\ failed \in [Faults -> BOOLEAN] /\ cancelled \in [Faults -> BOOLEAN]
    /\ confirmed \in SUBSET Faults

\* An object is one of its fault's, stamped with the fault's deadline; only Chaos Mesh
\* objects are ever found terminating.
ObjectOK(o) ==
    /\ o \in [id : Ids, type : Range(Resources), expiry : Int, deletedAt : Int]
    /\ o.type = shape[o.id[1]].objs[o.id[2]] /\ o.expiry = expiry[o.id[1]]
    /\ o.deletedAt # Never => o.type = "chaos"
    /\ Spent(o.id)

ObjectsOK ==
    /\ IsFiniteSet(objects)
    /\ \A o \in objects : ObjectOK(o)
    /\ \A o, p \in objects : o.id = p.id => o = p

\* Until it is due, a fault being applied has every object that was asked for; one being
\* cleared has only objects of the types still to visit, unless a visit failed.
FaultOK(f) ==
    /\ created[f] <= Len(shape[f].objs)
    /\ stage[f] = "idle" => expiry[f] = Never /\ created[f] = 0
    /\ stage[f] = "applying" => Due(f) \/ \A n \in 1 .. created[f] : \E o \in Live(f) : o.id[2] = n
    /\ stage[f] = "clearing" => failed[f] \/ \A o \in Live(f) : o.type \in todo[f]

SweepOK == sweep.at \in Int /\ sweep.at <= now /\ sweep.cleared \in Seq(Faults) /\ ReportedOnce

\* An object that was reported is terminating, and is remembered as long as it is there,
\* once for each listing that has failed.
ReportOK(i) ==
    /\ reports[i] <= 1 + errors
    /\ reports[i] > 0 => Spent(i) /\ \A o \in objects : o.id = i => o.deletedAt # Never
    /\ reports[i] > errors => i \in stuckReported \/ \A o \in objects : o.id # i

TellOK == stuckReported \subseteq Ids /\ reports \in [Ids -> Nat] /\ \A i \in Ids : ReportOK(i)

DriverInv ==
    /\ CountTypes /\ shape \in ShapesOf /\ CallTypes
    /\ ObjectsOK /\ \A f \in Faults : FaultOK(f)
    /\ injected \subseteq Ids /\ ConfirmedWhole
    /\ SweepOK /\ TellOK

LEMMA IdsMeant ==
    /\ \A f \in Faults : \A n \in 1 .. Len(shape[f].objs) : <<f, n>> \in Ids
    /\ \A i \in Ids : i[1] \in Faults /\ i[2] \in 1 .. Len(shape[i[1]].objs) /\ i = <<i[1], i[2]>>
    BY DEF Ids

\* What a step does to one fault, in terms of the objects that live.
Moved(a, b) ==
    \/ a = b
    \/ a = "idle" /\ b = "applying"
    \/ a = "applying" /\ b \in {"undoing", "applied", "failed"}
    \/ a = "undoing" /\ b = "failed"
    \/ a = "applied" /\ b = "clearing"
    \/ a = "clearing" /\ b \in {"applied", "cleared"}
    \/ a = "lost" /\ b = "applied"
    \/ a \in {"applying", "undoing", "applied", "clearing"} /\ b = "lost"

Effect(f) ==
    /\ Moved(stage[f], stage'[f])
    /\ Due(f) => Due(f)'
    /\ Live(f)' \subseteq Live(f) \/ (stage[f] = "applying" /\ Live(f) \subseteq Live(f)')
    /\ Live(f) \subseteq Live(f)' \/ stage[f] \in {"undoing", "clearing"} \/ Due(f)
    /\ stage[f] = "applying" /\ stage'[f] = "applied" =>
        Due(f) \/ \A n \in 1 .. Len(shape[f].objs) : \E o \in Live(f)' : o.id[2] = n
    /\ stage[f] = "clearing" /\ stage'[f] = "cleared" => Live(f)' = {}

LEMMA LiveNumbered ==
    ASSUME ObjectsOK, NEW f \in Faults
    PROVE  Numbered(Live(f), Len(shape[f].objs)) /\ Numbered(Of(f), Len(shape[f].objs))
<1>1. ASSUME NEW o \in objects, o.id[1] = f PROVE o.id[2] \in 1 .. Len(shape[f].objs) /\ o.id = <<f, o.id[2]>>
    BY <1>1, IdsMeant DEF ObjectsOK, ObjectOK
<1> QED
    BY <1>1 DEF Numbered, Live, Of, ObjectsOK

\* More objects never make a fault hold less.
LEMMA HoldsGrow ==
    ASSUME NEW L, NEW M, NEW n \in Nat, L \subseteq M, Numbered(M, n),
           NEW a, a = (IF L = {} THEN "none" ELSE IF Cardinality(L) = n THEN "all" ELSE "some"),
           NEW b, b = (IF M = {} THEN "none" ELSE IF Cardinality(M) = n THEN "all" ELSE "some")
    PROVE  ~ Contract!Shrinks(a, b)
<1>1. IsFiniteSet(M) /\ Cardinality(M) \in Nat /\ Cardinality(M) <= n
    BY NumberedCount
<1>2. IsFiniteSet(L) /\ Cardinality(L) <= Cardinality(M) /\ Cardinality(L) \in Nat
    BY <1>1, FS_Subset, FS_CardinalityType
<1>3. Cardinality(L) = n => Cardinality(M) = n
    BY <1>1, <1>2
<1> QED
    BY <1>3 DEF Contract!Shrinks

\* The step is one the contract allows.
LEMMA ContractStep ==
    ASSUME DriverInv, DriverInv', shape' = shape, NEW f \in Faults, Effect(f)
    PROVE  Contract!Step(f)
<1> DEFINE n == Len(shape[f].objs)
<1>1. n \in Nat \ {0} /\ ShapeOK(shape[f])
    BY ShapesSound DEF DriverInv, ShapeOK
<1>2. Numbered(Live(f), n) /\ Numbered(Live(f)', n)
    <2>1. Numbered(Live(f), n)
        BY LiveNumbered DEF DriverInv
    <2>2. Numbered(Live(f)', n)
        <3>1. Ids' = Ids /\ ObjectsOK'
            BY DEF Ids, DriverInv
        <3>2. ASSUME NEW o \in objects', o.id[1] = f PROVE o.id[2] \in 1 .. n /\ o.id = <<f, o.id[2]>>
            BY <3>1, <3>2, IdsMeant DEF ObjectsOK, ObjectOK
        <3> QED
            BY <3>1, <3>2 DEF Numbered, Live, Of, ObjectsOK
    <2> QED
        BY <2>1, <2>2
<1>3. /\ Holds(f) = (IF Live(f) = {} THEN "none" ELSE IF Cardinality(Live(f)) = n THEN "all" ELSE "some")
      /\ Holds(f)' = (IF Live(f)' = {} THEN "none" ELSE IF Cardinality(Live(f)') = n THEN "all" ELSE "some")
    BY DEF Holds
<1> HIDE DEF n
<1>4. Live(f)' \subseteq Live(f) => ~ Contract!Shrinks(Holds(f)', Holds(f))
    BY <1>1, <1>2, <1>3, HoldsGrow
<1>5. Live(f) \subseteq Live(f)' => ~ Contract!Shrinks(Holds(f), Holds(f)')
    BY <1>1, <1>2, <1>3, HoldsGrow
<1>6. (\A k \in 1 .. n : \E o \in Live(f)' : o.id[2] = k) => Holds(f)' = "all"
    <2>1. SUFFICES ASSUME \A k \in 1 .. n : \E o \in Live(f)' : o.id[2] = k PROVE Holds(f)' = "all"
        OBVIOUS
    <2>2. Cardinality(Live(f)') = n
        BY <1>1, <1>2, <2>1, NumberedCount
    <2>3. Live(f)' # {}
        BY <1>1, <2>1
    <2> QED
        BY <1>3, <2>2, <2>3
<1>7. Live(f)' = {} => Holds(f)' = "none"
    BY <1>3
<1>8. stage'[f] # stage[f] => <<stage[f], stage'[f]>> \in Contract!Moves
    BY DEF Effect, Moved, Contract!Moves
<1>9. <<stage[f], stage'[f]>> = <<"applying", "applied">> => Holds(f)' = "all" \/ Due(f)
    BY <1>6 DEF Effect, n
<1>10. <<stage[f], stage'[f]>> = <<"clearing", "cleared">> => Holds(f)' = "none"
    BY <1>7 DEF Effect
<1>11. Due(f) => Due(f)'
    BY DEF Effect
<1>12. Contract!Shrinks(Holds(f)', Holds(f)) => stage[f] = "applying"
    BY <1>4 DEF Effect
<1>13. Contract!Shrinks(Holds(f), Holds(f)') => stage[f] \in {"undoing", "clearing"} \/ Due(f)
    BY <1>5 DEF Effect
<1> QED
    BY <1>8, <1>9, <1>10, <1>11, <1>12, <1>13 DEF Contract!Step, Due

\* What stays the same of a fault that the step is not about.
Same(f) ==
    /\ stage'[f] = stage[f] /\ expiry'[f] = expiry[f] /\ created'[f] = created[f]
    /\ todo'[f] = todo[f] /\ failed'[f] = failed[f]

\* Such a fault may only lose objects to a sweep, and only when it is due.
LEMMA Bystander ==
    ASSUME DriverInv, CountTypes', shape' = shape, now <= now', NEW f \in Faults, Same(f),
           Live(f)' = Live(f) \/ (Live(f)' \subseteq Live(f) /\ Due(f))
    PROVE  FaultOK(f)' /\ Effect(f)
<1>1. FaultOK(f) /\ expiry[f] \in Int /\ now \in Int /\ now' \in Int
    BY DEF DriverInv, CallTypes, CountTypes
<1>2. Due(f) => Due(f)'
    BY <1>1 DEF Due, Same
<1>3. Live(f)' \subseteq Live(f) /\ (Live(f) \subseteq Live(f)' \/ Due(f))
    OBVIOUS
<1>4. FaultOK(f)'
    BY <1>1, <1>2, <1>3 DEF FaultOK, Same
<1>5. Effect(f)
    BY <1>2, <1>3 DEF Effect, Moved, Same
<1> QED
    BY <1>4, <1>5

\* Every object after the step is one of before, still terminating if it was, or is new.
Follows ==
    \A q \in objects' :
        \/ \E o \in objects : o.id = q.id /\ (o.deletedAt # Never => q.deletedAt # Never)
        \/ ~ Spent(q.id)

SpentStays == \A i \in Ids : Spent(i) => Spent(i)'

LEMMA TellKept ==
    ASSUME DriverInv, CountTypes', errors <= errors', shape' = shape, UNCHANGED <<stuckReported, reports>>,
           Follows, SpentStays
    PROVE  TellOK'
<1>1. Ids' = Ids /\ TellOK /\ errors \in Int /\ errors' \in Int
    BY DEF Ids, DriverInv, CountTypes
<1>2. ASSUME NEW i \in Ids PROVE ReportOK(i)'
    <2>1. ReportOK(i) /\ reports[i] \in Nat /\ reports' = reports /\ stuckReported' = stuckReported
        BY <1>1 DEF TellOK
    <2>2. reports[i] > 0 => Spent(i)' /\ \A q \in objects' : q.id = i => q.deletedAt # Never
        BY <2>1 DEF ReportOK, Follows, SpentStays
    <2>3. reports[i] > errors' => i \in stuckReported \/ \A q \in objects' : q.id # i
        BY <1>1, <2>1 DEF ReportOK, Follows, CountTypes, DriverInv
    <2>4. reports[i] <= 1 + errors'
        BY <1>1, <2>1 DEF ReportOK
    <2> QED
        BY <2>1, <2>2, <2>3, <2>4 DEF ReportOK
<1> QED
    BY <1>1, <1>2 DEF TellOK

\* The calls of one fault, while the objects and the sweep stand still.
LEMMA CallStep ==
    ASSUME DriverInv, NEW f \in Faults, UNCHANGED <<now, shape, objVars, sweepVars, crashes>>,
           errors' \in errors .. MaxErrors, CallTypes', ConfirmedWhole',
           \A g \in Faults \ {f} : Same(g),
           Moved(stage[f], stage'[f]), created'[f] = created[f],
           expiry'[f] = expiry[f] \/ stage[f] = "idle", FaultOK(f)',
           stage[f] = "applying" /\ stage'[f] = "applied" =>
               Due(f) \/ \A n \in 1 .. Len(shape[f].objs) : \E o \in Live(f) : o.id[2] = n,
           ~ (stage[f] = "clearing" /\ stage'[f] = "cleared")
    PROVE  DriverInv' /\ \A g \in Faults : Effect(g)
<1>1. CountTypes' /\ errors <= errors' /\ now <= now' /\ Ids' = Ids
    BY DEF DriverInv, CountTypes, Ids
<1>2. \A g \in Faults : Live(g)' = Live(g)
    BY DEF Live, Of, objVars
<1>3. \A g \in Faults \ {f} : FaultOK(g)' /\ Effect(g)
    BY <1>1, <1>2, Bystander
<1>4. Effect(f)
    <2>1. FaultOK(f)
        BY DEF DriverInv
    <2>2. Due(f) => Due(f)'
        BY <2>1 DEF Due, FaultOK
    <2> QED
        BY <1>2, <2>2 DEF Effect
<1>5. SpentStays
    <2> SUFFICES ASSUME NEW i \in Ids, Spent(i) PROVE Spent(i)'
        BY DEF SpentStays
    <2>1. i[1] \in Faults /\ i[2] \in Nat /\ i[2] # 0
        BY IdsMeant
    <2>2. created'[i[1]] = created[i[1]]
        BY <2>1 DEF Same
    <2>3. stage[i[1]] \notin {"idle", "applying"} => stage'[i[1]] \notin {"idle", "applying"}
        BY <2>1 DEF Same, Moved
    <2> QED
        BY <2>2, <2>3 DEF Spent
<1>6. ObjectsOK'
    <2>1. ASSUME NEW o \in objects PROVE ObjectOK(o)'
        <3>1. ObjectOK(o) /\ o.id \in Ids /\ o.id[1] \in Faults /\ o.id[2] \in Nat \ {0}
            BY IdsMeant DEF DriverInv, ObjectsOK, ObjectOK
        <3>2. stage[o.id[1]] # "idle"
            BY <3>1 DEF ObjectOK, Spent, DriverInv, FaultOK
        <3>3. expiry'[o.id[1]] = expiry[o.id[1]]
            BY <3>1, <3>2 DEF Same
        <3> QED
            BY <1>1, <1>5, <3>1, <3>3 DEF ObjectOK, SpentStays
    <2> QED
        BY <2>1 DEF ObjectsOK, DriverInv, objVars
<1>7. Follows
    BY DEF Follows, objVars
<1>8. TellOK'
    BY <1>1, <1>5, <1>7, TellKept DEF sweepVars
<1>9. SweepOK'
    BY DEF DriverInv, SweepOK, ReportedOnce, sweepVars
<1> QED
    BY <1>1, <1>3, <1>4, <1>6, <1>8, <1>9 DEF DriverInv, objVars

LEMMA BeginKeeps ==
    ASSUME DriverInv, NEW f \in Faults, Begin(f) PROVE DriverInv' /\ \A g \in Faults : Effect(g)
<1>1. expiryAnnotation(f) \in Int
    BY ShapesSound DEF DriverInv, CountTypes, ShapeOK, expiryAnnotation, Never
<1>2. CallTypes'
    BY <1>1 DEF Begin, DriverInv, CallTypes, Stages
<1>3. FaultOK(f)'
    BY ShapesSound DEF Begin, DriverInv, CallTypes, FaultOK, ShapeOK
<1>4. \A g \in Faults \ {f} : Same(g)
    BY DEF Begin, DriverInv, CallTypes, Same
<1>5. ConfirmedWhole' /\ errors' \in errors .. MaxErrors
    BY DEF Begin, objVars, DriverInv, CountTypes, ConfirmedWhole
<1> QED
    BY <1>2, <1>3, <1>4, <1>5, CallStep DEF Begin, DriverInv, CallTypes, Moved, Stages

LEMMA WedgeKeeps ==
    ASSUME DriverInv, NEW f \in Faults, Wedge(f) PROVE DriverInv' /\ \A g \in Faults : Effect(g)
<1>1. CallTypes'
    BY DEF Wedge, DriverInv, CallTypes, Stages
<1>2. FaultOK(f)' /\ FaultOK(f)
    BY DEF Wedge, DriverInv, CallTypes, FaultOK
<1>3. \A g \in Faults \ {f} : Same(g)
    BY DEF Wedge, DriverInv, CallTypes, Same
<1>4. ConfirmedWhole' /\ errors' \in errors .. MaxErrors
    BY DEF Wedge, objVars, DriverInv, CountTypes, ConfirmedWhole
<1>5. Due(f) \/ \A n \in 1 .. Len(shape[f].objs) : \E o \in Live(f) : o.id[2] = n
    BY <1>2 DEF Wedge, FaultOK
<1> QED
    BY <1>1, <1>2, <1>3, <1>4, <1>5, CallStep DEF Wedge, DriverInv, CallTypes, Moved, Stages

\* The end of an Apply that failed: rolled back, or left.
LEMMA UndoSound ==
    ASSUME DriverInv, NEW f \in Faults, stage[f] = "applying", UndoBundle(f),
           UNCHANGED <<shape, expiry, created, cancelled, confirmed>>
    PROVE  /\ CallTypes' /\ \A g \in Faults \ {f} : Same(g)
           /\ stage'[f] \in {"undoing", "failed"}
<1>1. CASE shape[f].driver \in {"outage", "kube-state"}
    <2> DEFINE T == IF shape[f].driver = "outage" THEN {"chaos"} ELSE KubeState
    <2>1. T # {} /\ T \subseteq Range(Resources)
        BY ResourceTypes DEF KubeState
    <2>2. /\ stage' = [stage EXCEPT ![f] = "undoing"] /\ todo' = [todo EXCEPT ![f] = T]
          /\ failed' = [failed EXCEPT ![f] = FALSE]
        BY <1>1 DEF UndoBundle
    <2> HIDE DEF T
    <2> QED
        BY <2>1, <2>2 DEF DriverInv, CallTypes, Same, Stages
<1>2. CASE shape[f].driver \notin {"outage", "kube-state"}
    BY <1>2 DEF UndoBundle, DriverInv, CallTypes, Same, Stages
<1> QED
    BY <1>1, <1>2

LEMMA ErrorsCounted ==
    ASSUME DriverInv, NEW dead \in BOOLEAN, Fails(dead), Count(dead)
    PROVE  errors' \in errors .. MaxErrors
    BY ObjectsAssumption DEF DriverInv, CountTypes, Fails, Count

LEMMA WedgeFailsKeeps ==
    ASSUME DriverInv, NEW f \in Faults, WedgeFails(f) PROVE DriverInv' /\ \A g \in Faults : Effect(g)
<1>1. /\ CallTypes' /\ \A g \in Faults \ {f} : Same(g)
      /\ stage'[f] \in {"undoing", "failed"} /\ stage[f] = "applying"
    BY UndoSound DEF WedgeFails
<1>2. FaultOK(f)'
    BY <1>1 DEF WedgeFails, DriverInv, FaultOK
<1>3. errors' \in errors .. MaxErrors
    <2>1. (cancelled[f] \/ Live(f) = {}) \in BOOLEAN
        OBVIOUS
    <2> QED
        BY <2>1, ErrorsCounted DEF WedgeFails
<1>4. ConfirmedWhole'
    BY DEF WedgeFails, objVars, DriverInv, ConfirmedWhole
<1> QED
    BY <1>1, <1>2, <1>3, <1>4, CallStep DEF WedgeFails, Moved

LEMMA CancelKeeps ==
    ASSUME DriverInv, NEW f \in Faults, Cancel(f) PROVE DriverInv' /\ \A g \in Faults : Effect(g)
<1>1. CallTypes'
    BY DEF Cancel, DriverInv, CallTypes
<1>2. FaultOK(f)'
    BY DEF Cancel, DriverInv, FaultOK, Due, Live, Of, objVars
<1>3. \A g \in Faults \ {f} : Same(g)
    BY DEF Cancel, Same
<1>4. ConfirmedWhole' /\ errors' \in errors .. MaxErrors
    BY DEF Cancel, objVars, DriverInv, CountTypes, ConfirmedWhole
<1> QED
    BY <1>1, <1>2, <1>3, <1>4, CallStep DEF Cancel, Moved

LEMMA ClearBeginKeeps ==
    ASSUME DriverInv, NEW f \in Faults, ClearBegin(f) PROVE DriverInv' /\ \A g \in Faults : Effect(g)
<1> DEFINE T == IF shape[f].driver = "kube-state" THEN KubeState ELSE Range(shape[f].objs)
<1>1. ShapeOK(shape[f])
    BY ShapesSound DEF DriverInv
<1>2. T # {} /\ T \subseteq Range(Resources) /\ \A n \in 1 .. Len(shape[f].objs) : shape[f].objs[n] \in T
    <2>1. \A n \in 1 .. Len(shape[f].objs) : shape[f].objs[n] \in T
        BY <1>1 DEF ShapeOK, Range
    <2>2. 1 \in 1 .. Len(shape[f].objs)
        BY <1>1, ShapeLength
    <2>3. KubeState \subseteq Range(Resources)
        BY ResourceTypes DEF KubeState
    <2>4. Range(shape[f].objs) \subseteq Range(Resources)
        <3>1. ASSUME NEW t \in Range(shape[f].objs) PROVE t \in Range(Resources)
            <4>1. PICK n \in 1 .. Len(shape[f].objs) : t = shape[f].objs[n]
                BY <1>1 DEF ShapeOK, Range
            <4> QED
                BY <1>1, <4>1 DEF ShapeOK
        <3> QED
            BY <3>1
    <2> QED
        BY <2>1, <2>2, <2>3, <2>4
<1>3. /\ stage' = [stage EXCEPT ![f] = "clearing"] /\ todo' = [todo EXCEPT ![f] = T]
      /\ failed' = [failed EXCEPT ![f] = FALSE] /\ cancelled' = [cancelled EXCEPT ![f] = FALSE]
      /\ stage[f] = "applied"
      /\ UNCHANGED <<now, shape, objVars, expiry, created, confirmed, sweepVars, errors, crashes>>
    BY DEF ClearBegin
<1> HIDE DEF T
<1>4. CallTypes'
    BY <1>2, <1>3 DEF DriverInv, CallTypes, Stages
<1>5. FaultOK(f)'
    <2>1. ASSUME NEW o \in Live(f) PROVE o.type \in T
        BY <1>2, IdsMeant DEF DriverInv, ObjectsOK, ObjectOK, Live, Of
    <2>2. Live(f)' = Live(f) /\ stage'[f] = "clearing" /\ todo'[f] = T
        BY <1>3 DEF Live, Of, objVars, DriverInv, CallTypes
    <2>3. created'[f] <= Len(shape'[f].objs)
        BY <1>3 DEF DriverInv, FaultOK
    <2> QED
        BY <2>1, <2>2, <2>3 DEF FaultOK
<1>6. \A g \in Faults \ {f} : Same(g)
    BY <1>3 DEF DriverInv, CallTypes, Same
<1>7. ConfirmedWhole' /\ errors' \in errors .. MaxErrors
    BY <1>3 DEF objVars, DriverInv, CountTypes, ConfirmedWhole
<1>8. stage'[f] = "clearing"
    BY <1>3 DEF DriverInv, CallTypes
<1> QED
    BY <1>3, <1>4, <1>5, <1>6, <1>7, <1>8, CallStep DEF Moved

\* A bundle that has as many objects as it is stamped with has every one of them.
LEMMA ConfirmKeeps ==
    ASSUME DriverInv, NEW f \in Faults, ConfirmInjected(f) PROVE DriverInv' /\ \A g \in Faults : Effect(g)
<1> DEFINE n == Len(shape[f].objs)
<1>1. n \in Nat
    BY ShapesSound DEF DriverInv, ShapeOK
<1>2. Numbered(Of(f), n)
    BY LiveNumbered DEF DriverInv
<1>3. n <= Cardinality(Of(f)) /\ \A o \in Of(f) : o.id \in injected
    BY DEF ConfirmInjected, bundleState
<1> HIDE DEF n
<1>4. \A k \in 1 .. n : \E o \in Of(f) : o.id[2] = k
    <2>1. Cardinality(Of(f)) \in Nat /\ Cardinality(Of(f)) <= n
        BY <1>1, <1>2, NumberedCount
    <2>2. Cardinality(Of(f)) = n
        BY <1>1, <1>3, <2>1
    <2> QED
        BY <1>1, <1>2, <2>2, NumberedCount
<1>5. \A o \in Of(f) : o.id = <<f, o.id[2]>>
    BY IdsMeant DEF DriverInv, ObjectsOK, ObjectOK, Of
<1>6. \A k \in 1 .. n : <<f, k>> \in injected
    BY <1>3, <1>4, <1>5
<1>7. ConfirmedWhole'
    BY <1>6 DEF ConfirmInjected, DriverInv, ConfirmedWhole, objVars, n
<1>8. CallTypes'
    BY DEF ConfirmInjected, DriverInv, CallTypes
<1>9. FaultOK(f)'
    BY DEF ConfirmInjected, DriverInv, FaultOK
<1>10. \A g \in Faults \ {f} : Same(g)
    BY DEF ConfirmInjected, Same
<1>11. errors' \in errors .. MaxErrors
    BY DEF ConfirmInjected, DriverInv, CountTypes
<1> QED
    BY <1>7, <1>8, <1>9, <1>10, <1>11, CallStep DEF ConfirmInjected, Moved

LEMMA AdoptKeeps ==
    ASSUME DriverInv, NEW f \in Faults, Adopt(f) PROVE DriverInv' /\ \A g \in Faults : Effect(g)
<1>1. CallTypes'
    BY DEF Adopt, DriverInv, CallTypes, Stages
<1>2. FaultOK(f)'
    BY DEF Adopt, DriverInv, CallTypes, FaultOK
<1>3. \A g \in Faults \ {f} : Same(g)
    BY DEF Adopt, DriverInv, CallTypes, Same
<1>4. ConfirmedWhole' /\ errors' \in errors .. MaxErrors
    BY DEF Adopt, objVars, DriverInv, CountTypes, ConfirmedWhole
<1> QED
    BY <1>1, <1>2, <1>3, <1>4, CallStep DEF Adopt, DriverInv, CallTypes, Moved, Stages

\* A new object: its number was not used before.
LEMMA AddObject ==
    ASSUME DriverInv, NEW f \in Faults, stage[f] = "applying", NEW n, n = created[f] + 1,
           n <= Len(shape[f].objs), objects' = objects \cup {Stamped(f, n)},
           UNCHANGED <<shape, expiry>>, SpentStays, Spent(<<f, n>>)'
    PROVE  /\ ObjectsOK' /\ Follows
           /\ \A g \in Faults \ {f} : Live(g)' = Live(g)
           /\ Live(f) \subseteq Live(f)' /\ \E o \in Live(f)' : o.id[2] = n
<1>0. PICK s : s = Stamped(f, n)
    OBVIOUS
<1>1. n \in 1 .. Len(shape[f].objs) /\ ShapeOK(shape[f]) /\ Ids' = Ids /\ <<f, n>> \in Ids
    <2>1. ShapeOK(shape[f]) /\ Ids' = Ids
        BY ShapesSound DEF DriverInv, Ids
    <2>2. n \in 1 .. Len(shape[f].objs)
        BY <2>1, SMTT(30) DEF DriverInv, CallTypes, ShapeOK
    <2> QED
        BY <2>1, <2>2, IdsMeant
<1>2. /\ s = [id |-> <<f, n>>, type |-> shape[f].objs[n], expiry |-> expiry[f], deletedAt |-> Never]
      /\ s.id = <<f, n>> /\ s.deletedAt = Never /\ s.id[1] = f /\ s.id[2] = n
    BY <1>0 DEF Stamped
<1>3. ~ Spent(s.id)
    <2>1. created[f] \in Int /\ ~ (n <= created[f])
        BY DEF DriverInv, CallTypes
    <2> QED
        BY <1>2, <2>1 DEF Spent
<1>4. \A o \in objects : Spent(o.id) /\ o.id # s.id
    BY <1>3 DEF DriverInv, ObjectsOK, ObjectOK
<1>5. ObjectOK(s)'
    <2>1. s \in [id : Ids, type : Range(Resources), expiry : Int, deletedAt : Int]
        <3>1. shape[f].objs[n] \in Range(Resources) /\ expiry[f] \in Int /\ Never \in Int
            BY <1>1 DEF ShapeOK, DriverInv, CallTypes, Never
        <3> QED
            BY <1>1, <1>2, <3>1
    <2>2. s.type = shape[f].objs[n] /\ s.expiry = expiry[f]
        BY <1>2
    <2>3. Spent(s.id)'
        BY <1>2
    <2> QED
        BY <1>1, <1>2, <2>1, <2>2, <2>3 DEF ObjectOK
<1>6. \A o \in objects : ObjectOK(o)'
    BY <1>1 DEF DriverInv, ObjectsOK, ObjectOK, SpentStays
<1>7. objects' = objects \cup {s}
    BY <1>0
<1>8. IsFiniteSet(objects')
    BY <1>7, FS_AddElement DEF DriverInv, ObjectsOK
<1>9. ObjectsOK'
    <2>1. \A o, p \in objects : o.id = p.id => o = p
        BY DEF DriverInv, ObjectsOK
    <2>2. \A o, p \in objects' : o.id = p.id => o = p
        BY <1>4, <1>7, <2>1
    <2>3. \A o \in objects' : ObjectOK(o)'
        BY <1>5, <1>6, <1>7
    <2> QED
        BY <1>8, <2>2, <2>3 DEF ObjectsOK
<1>10. Follows
    BY <1>3, <1>7 DEF Follows
<1>11. \A g \in Faults \ {f} : Live(g)' = Live(g)
    BY <1>2, <1>7 DEF Live, Of
<1>12. Live(f) \subseteq Live(f)' /\ s \in Live(f)'
    BY <1>2, <1>7 DEF Live, Of
<1> QED
    BY <1>2, <1>9, <1>10, <1>11, <1>12

\* What the other conjuncts need of a step that changes objects and calls only.
LEMMA ObjectStep ==
    ASSUME DriverInv, CountTypes', errors <= errors', UNCHANGED <<now, shape, sweepVars>>,
           injected' = injected, confirmed' = confirmed,
           CallTypes', ObjectsOK', Follows, SpentStays, \A g \in Faults : FaultOK(g)'
    PROVE  DriverInv'
<1>1. TellOK'
    BY TellKept DEF sweepVars
<1>2. SweepOK'
    BY DEF DriverInv, SweepOK, ReportedOnce, sweepVars
<1>3. (injected \subseteq Ids /\ ConfirmedWhole)'
    BY DEF DriverInv, ConfirmedWhole, Ids
<1> QED
    BY <1>1, <1>2, <1>3 DEF DriverInv

LEMMA SpentMonotone ==
    ASSUME DriverInv, UNCHANGED shape,
           \A g \in Faults : created'[g] \in Int /\ created[g] <= created'[g],
           \A g \in Faults : stage[g] \notin {"idle", "applying"} => stage'[g] \notin {"idle", "applying"}
    PROVE  SpentStays
<1> SUFFICES ASSUME NEW i \in Ids, Spent(i) PROVE Spent(i)'
    BY DEF SpentStays
<1>1. i[1] \in Faults /\ i[2] \in Int /\ created[i[1]] \in Int
    BY IdsMeant DEF DriverInv, CallTypes
<1> QED
    BY <1>1 DEF Spent

LEMMA CreateKeeps ==
    ASSUME DriverInv, NEW f \in Faults, Create(f) PROVE DriverInv' /\ \A g \in Faults : Effect(g)
<1>a. PICK n : n = created[f] + 1
    OBVIOUS
<1>0. /\ created[f] \in 0 .. 2 /\ FaultOK(f)
      /\ Len(shape[f].objs) \in Nat /\ Len(shape[f].objs) <= 2
    BY ShapesSound, ShapeLength DEF DriverInv, CallTypes
<1>1. /\ stage[f] = "applying" /\ n <= Len(shape[f].objs) /\ objects' = objects \cup {Stamped(f, n)}
      /\ created' = [created EXCEPT ![f] = n] /\ stage' = [stage EXCEPT ![f] = AfterCreate(f, n)]
      /\ UNCHANGED <<now, shape, injected, expiry, todo, failed, cancelled, confirmed, sweepVars, errors, crashes>>
    BY <1>a DEF Create
<1>2. n \in 1 .. 2 /\ AfterCreate(f, n) \in {"applying", "applied"}
    <2>1. n \in 1 .. 2
        BY <1>0, <1>1, <1>a
    <2> QED
        BY <2>1 DEF AfterCreate
<1>3. CallTypes'
    BY <1>1, <1>2 DEF DriverInv, CallTypes, Stages
<1>4. stage'[f] = AfterCreate(f, n) /\ created'[f] = n
    BY <1>1 DEF DriverInv, CallTypes
<1>5. \A g \in Faults \ {f} : Same(g)
    BY <1>1 DEF DriverInv, CallTypes, Same
<1>6. SpentStays
    <2>1. \A g \in Faults : created'[g] \in Int /\ created[g] <= created'[g]
        <3>1. created \in [Faults -> 0 .. 2]
            BY DEF DriverInv, CallTypes
        <3> QED
            BY <1>1, <1>2, <1>a, <3>1
    <2>2. \A g \in Faults : stage[g] \notin {"idle", "applying"} => stage'[g] \notin {"idle", "applying"}
        BY <1>1 DEF DriverInv, CallTypes
    <2> QED
        BY <1>1, <2>1, <2>2, SpentMonotone
<1>7. Spent(<<f, n>>)'
    <2>1. n <= created'[f]
        BY <1>2, <1>4
    <2> QED
        BY <2>1 DEF Spent
<1>8. /\ ObjectsOK' /\ Follows
      /\ \A g \in Faults \ {f} : Live(g)' = Live(g)
      /\ Live(f) \subseteq Live(f)' /\ \E o \in Live(f)' : o.id[2] = n
    BY <1>1, <1>6, <1>7, <1>a, AddObject
<1>9. CountTypes' /\ now <= now' /\ errors <= errors'
    BY <1>1 DEF DriverInv, CountTypes
<1>10. \A g \in Faults \ {f} : FaultOK(g)' /\ Effect(g)
    BY <1>1, <1>5, <1>8, <1>9, Bystander
<1>11. Due(f)' <=> Due(f)
    BY <1>1 DEF Due
<1>12. Due(f) \/ \A k \in 1 .. n : \E o \in Live(f)' : o.id[2] = k
    <2> SUFFICES ASSUME ~ Due(f), NEW k \in 1 .. n PROVE \E o \in Live(f)' : o.id[2] = k
        OBVIOUS
    <2>1. k = n \/ k \in 1 .. created[f]
        BY <1>0, <1>a
    <2> QED
        BY <1>0, <1>1, <1>8, <2>1 DEF FaultOK
<1>13. FaultOK(f)'
    BY <1>1, <1>2, <1>4, <1>11, <1>12 DEF FaultOK
<1>14. Effect(f)
    <2>1. stage'[f] = "applied" => n = Len(shape[f].objs)
        BY <1>4 DEF AfterCreate
    <2> QED
        BY <1>1, <1>2, <1>4, <1>8, <1>11, <1>12, <2>1 DEF Effect, Moved
<1>15. DriverInv'
    BY <1>1, <1>3, <1>6, <1>8, <1>9, <1>10, <1>13, ObjectStep
<1> QED
    BY <1>10, <1>14, <1>15

LEMMA CreateFailsKeeps ==
    ASSUME DriverInv, NEW f \in Faults, CreateFails(f) PROVE DriverInv' /\ \A g \in Faults : Effect(g)
<1>0. PICK n : n = created[f] + 1
    OBVIOUS
<1>1. /\ CallTypes' /\ \A g \in Faults \ {f} : Same(g)
      /\ stage'[f] \in {"undoing", "failed"} /\ stage[f] = "applying"
    BY UndoSound DEF CreateFails
<1>2. errors' \in errors .. MaxErrors
    BY ErrorsCounted DEF CreateFails, DriverInv, CallTypes
<1>3. FaultOK(f)'
    BY <1>1 DEF CreateFails, DriverInv, FaultOK
<1>4. CASE objects' = objects
    <2>1. ConfirmedWhole' /\ created'[f] = created[f] /\ expiry'[f] = expiry[f]
        BY DEF CreateFails, DriverInv, ConfirmedWhole
    <2>2. UNCHANGED <<now, shape, objVars, sweepVars, crashes>>
        BY <1>4 DEF CreateFails, objVars
    <2> QED
        BY <1>1, <1>2, <1>3, <2>1, <2>2, CallStep DEF Moved
<1>5. CASE objects' = objects \cup {Stamped(f, n)}
    <2>1. /\ n <= Len(shape[f].objs)
          /\ UNCHANGED <<now, shape, injected, expiry, created, cancelled, confirmed, sweepVars, crashes>>
        BY <1>0 DEF CreateFails
    <2>2. CountTypes' /\ now <= now' /\ errors <= errors'
        BY <1>2, <2>1 DEF DriverInv, CountTypes
    <2>3. SpentStays
        <3>1. \A g \in Faults : created'[g] \in Int /\ created[g] <= created'[g]
            <4>1. created \in [Faults -> 0 .. 2]
                BY DEF DriverInv, CallTypes
            <4> QED
                BY <2>1, <4>1
        <3>2. \A g \in Faults : stage[g] \notin {"idle", "applying"} => stage'[g] \notin {"idle", "applying"}
            BY <1>1 DEF Same
        <3> QED
            BY <2>1, <3>1, <3>2, SpentMonotone
    <2>4. Spent(<<f, n>>)'
        BY <1>1 DEF Spent
    <2>5. /\ ObjectsOK' /\ Follows
          /\ \A g \in Faults \ {f} : Live(g)' = Live(g)
          /\ Live(f) \subseteq Live(f)'
        BY <1>0, <1>1, <1>5, <2>1, <2>3, <2>4, AddObject
    <2>6. \A g \in Faults \ {f} : FaultOK(g)' /\ Effect(g)
        BY <1>1, <2>1, <2>2, <2>5, Bystander
    <2>7. Effect(f)
        BY <1>1, <2>1, <2>5 DEF Effect, Moved, Due
    <2>8. DriverInv'
        BY <1>1, <1>3, <2>1, <2>2, <2>3, <2>5, <2>6, ObjectStep
    <2> QED
        BY <2>6, <2>7, <2>8
<1> QED
    BY <1>0, <1>4, <1>5 DEF CreateFails

\* The object that a finalizer holds when its deletion is asked for.
Gone(o) == [o EXCEPT !.deletedAt = IF @ = Never THEN now ELSE @]

\* Objects are deleted: what lives is what lived before without them.
LEMMA DeleteObjects ==
    ASSUME DriverInv, NEW os \in SUBSET objects, Delete(os), UNCHANGED <<shape, expiry>>, SpentStays
    PROVE  ObjectsOK' /\ Follows /\ \A g \in Faults : Live(g)' = Live(g) \ os
<1> DEFINE C == {p \in os : p.type = "chaos"}
<1>1. /\ IsFiniteSet(objects) /\ \A o, p \in objects : o.id = p.id => o = p
      /\ \A o \in objects : ObjectOK(o)
    BY DEF DriverInv, ObjectsOK
<1>2. now \in Int /\ now # Never /\ Ids' = Ids
    BY DEF DriverInv, CountTypes, Never, Ids
<1>3. ASSUME NEW o \in objects
      PROVE  /\ Gone(o).id = o.id /\ Gone(o).type = o.type /\ Gone(o).expiry = o.expiry
             /\ Gone(o).deletedAt # Never
             /\ Gone(o) \in [id : Ids, type : Range(Resources), expiry : Int, deletedAt : Int]
    BY <1>1, <1>2 DEF ObjectOK, Gone
<1>4. Deleted(os) = {Gone(o) : o \in C} /\ objects' = (objects \ os) \cup Deleted(os)
    BY DEF Deleted, Delete, Gone
<1> HIDE DEF C
<1>5. C \subseteq os /\ \A o \in C : o.type = "chaos"
    BY DEF C
<1>6. IsFiniteSet(objects')
    <2>1. IsFiniteSet(objects \ os) /\ IsFiniteSet(C)
        BY <1>1, <1>5, FS_Subset
    <2> DEFINE h == [o \in C |-> Gone(o)]
    <2>2. h \in Surjection(C, {Gone(o) : o \in C})
        BY DEF Surjection
    <2>3. IsFiniteSet({Gone(o) : o \in C})
        BY <2>1, <2>2, FS_Surjection
    <2> QED
        BY <1>4, <2>1, <2>3, FS_Union
<1>7. ASSUME NEW q \in objects'
      PROVE  \/ q \in objects \ os
             \/ \E o \in C : q = Gone(o)
    BY <1>4
<1>8. ASSUME NEW q \in objects' PROVE ObjectOK(q)'
    <2>1. CASE q \in objects \ os
        BY <1>1, <1>2, <2>1 DEF ObjectOK, SpentStays
    <2>2. ASSUME NEW o \in C, q = Gone(o) PROVE ObjectOK(q)'
        <3>1. /\ q.id = o.id /\ q.type = o.type /\ q.expiry = o.expiry /\ o \in objects
              /\ q \in [id : Ids, type : Range(Resources), expiry : Int, deletedAt : Int]
            BY <1>3, <1>5, <2>2
        <3>2. o.type = "chaos" /\ ObjectOK(o)
            BY <1>1, <1>5, <3>1
        <3> QED
            BY <1>2, <3>1, <3>2 DEF ObjectOK, SpentStays
    <2> QED
        BY <1>7, <2>1, <2>2
<1>9. \A q, r \in objects' : q.id = r.id => q = r
    BY <1>1, <1>3, <1>5, <1>7
<1>10. Follows
    <2> SUFFICES ASSUME NEW q \in objects'
                 PROVE  \E o \in objects : o.id = q.id /\ (o.deletedAt # Never => q.deletedAt # Never)
        BY DEF Follows
    <2> QED
        BY <1>3, <1>5, <1>7
<1>11. ASSUME NEW g \in Faults PROVE Live(g)' = Live(g) \ os
    <2>1. ASSUME NEW q \in Live(g)' PROVE q \in Live(g) \ os
        BY <1>3, <1>5, <1>7, <2>1 DEF Live, Of
    <2>2. ASSUME NEW q \in Live(g) \ os PROVE q \in Live(g)'
        BY <1>4, <2>2 DEF Live, Of
    <2> QED
        BY <2>1, <2>2
<1> QED
    BY <1>6, <1>8, <1>9, <1>10, <1>11 DEF ObjectsOK

\* One visit of a rollback or a clear deletes what it found, or fails.
LEMMA Visits ==
    ASSUME DriverInv, NEW f \in Faults, NEW F, VisitResource(f, F, DeadFor(f))
    PROVE  /\ errors' \in errors .. MaxErrors
           /\ \E d \in SUBSET F : Delete(d) /\ ((d = F /\ failed' = failed) \/ failed' = [failed EXCEPT ![f] = TRUE])
<1>1. DeadFor(f) \in BOOLEAN /\ errors \in 0 .. MaxErrors
    BY DEF DeadFor, DriverInv, CallTypes, CountTypes
<1>2. CASE Delete(F) /\ UNCHANGED <<failed, errors>>
    BY <1>1, <1>2
<1>3. CASE /\ Fails(DeadFor(f)) /\ Count(DeadFor(f))
           /\ \E kept \in SUBSET F : (DeadFor(f) => kept = F) /\ Delete(F \ kept)
           /\ failed' = [failed EXCEPT ![f] = TRUE]
    <2>1. errors' \in errors .. MaxErrors
        BY <1>1, <1>3, ErrorsCounted
    <2> QED
        BY <1>3, <2>1
<1> QED
    BY <1>2, <1>3 DEF VisitResource

LEMMA UndoKeeps ==
    ASSUME DriverInv, NEW f \in Faults, Undo(f) PROVE DriverInv' /\ \A g \in Faults : Effect(g)
<1>1. PICK t \in todo[f] :
          /\ VisitResource(f, Found(f, t), DeadFor(f))
          /\ todo' = [todo EXCEPT ![f] = @ \ {t}]
    BY DEF Undo
<1>2. /\ errors' \in errors .. MaxErrors
      /\ \E d \in SUBSET Found(f, t) : Delete(d) /\ (failed' = failed \/ failed' = [failed EXCEPT ![f] = TRUE])
    BY <1>1, Visits
<1>3. PICK d \in SUBSET Found(f, t) : Delete(d) /\ (failed' = failed \/ failed' = [failed EXCEPT ![f] = TRUE])
    BY <1>2
<1>4. /\ stage[f] = "undoing" /\ stage' = [stage EXCEPT ![f] = IF todo'[f] = {} THEN "failed" ELSE @]
      /\ UNCHANGED <<now, shape, injected, expiry, created, cancelled, confirmed, sweepVars, crashes>>
    BY DEF Undo
<1>5. CallTypes' /\ stage'[f] \in {"undoing", "failed"}
    BY <1>1, <1>3, <1>4 DEF DriverInv, CallTypes, Stages
<1>6. \A g \in Faults \ {f} : Same(g)
    BY <1>1, <1>3, <1>4 DEF DriverInv, CallTypes, Same
<1>7. SpentStays
    <2>1. \A g \in Faults : created'[g] \in Int /\ created[g] <= created'[g]
        <3>1. created \in [Faults -> 0 .. 2]
            BY DEF DriverInv, CallTypes
        <3> QED
            BY <1>4, <3>1
    <2>2. \A g \in Faults : stage[g] \notin {"idle", "applying"} => stage'[g] \notin {"idle", "applying"}
        BY <1>5, <1>6 DEF Same
    <2> QED
        BY <1>4, <2>1, <2>2, SpentMonotone
<1>8. d \in SUBSET objects /\ \A o \in d : o.id[1] = f
    BY DEF Found, Of
<1>9. ObjectsOK' /\ Follows /\ \A g \in Faults : Live(g)' = Live(g) \ d
    BY <1>3, <1>4, <1>7, <1>8, DeleteObjects
<1>10. CountTypes' /\ now <= now' /\ errors <= errors'
    BY <1>2, <1>4 DEF DriverInv, CountTypes
<1>11. \A g \in Faults \ {f} : Live(g)' = Live(g)
    BY <1>8, <1>9 DEF Live, Of
<1>12. \A g \in Faults \ {f} : FaultOK(g)' /\ Effect(g)
    BY <1>4, <1>6, <1>10, <1>11, Bystander
<1>13. FaultOK(f)'
    BY <1>4, <1>5 DEF DriverInv, FaultOK
<1>14. Effect(f)
    BY <1>4, <1>5, <1>9 DEF Effect, Moved, Due
<1>15. DriverInv'
    BY <1>4, <1>5, <1>7, <1>9, <1>10, <1>12, <1>13, ObjectStep
<1> QED
    BY <1>12, <1>14, <1>15

LEMMA ClearKeeps ==
    ASSUME DriverInv, NEW f \in Faults, Clear(f) PROVE DriverInv' /\ \A g \in Faults : Effect(g)
<1>1. PICK t \in todo[f] :
          /\ VisitResource(f, Found(f, t), DeadFor(f))
          /\ todo' = [todo EXCEPT ![f] = @ \ {t}]
    BY DEF Clear
<1>2. /\ errors' \in errors .. MaxErrors
      /\ \E d \in SUBSET Found(f, t) :
            Delete(d) /\ ((d = Found(f, t) /\ failed' = failed) \/ failed' = [failed EXCEPT ![f] = TRUE])
    BY <1>1, Visits
<1>3. PICK d \in SUBSET Found(f, t) :
          Delete(d) /\ ((d = Found(f, t) /\ failed' = failed) \/ failed' = [failed EXCEPT ![f] = TRUE])
    BY <1>2
<1>4. /\ stage[f] = "clearing"
      /\ stage' = [stage EXCEPT ![f] =
                     IF todo'[f] # {} THEN @ ELSE IF failed'[f] THEN "applied" ELSE "cleared"]
      /\ UNCHANGED <<now, shape, injected, expiry, created, cancelled, confirmed, sweepVars, crashes>>
    BY DEF Clear
<1>5. CallTypes' /\ stage'[f] \in {"clearing", "applied", "cleared"}
    BY <1>1, <1>3, <1>4 DEF DriverInv, CallTypes, Stages
<1>6. \A g \in Faults \ {f} : Same(g)
    BY <1>1, <1>3, <1>4 DEF DriverInv, CallTypes, Same
<1>7. SpentStays
    <2>1. \A g \in Faults : created'[g] \in Int /\ created[g] <= created'[g]
        <3>1. created \in [Faults -> 0 .. 2]
            BY DEF DriverInv, CallTypes
        <3> QED
            BY <1>4, <3>1
    <2>2. \A g \in Faults : stage[g] \notin {"idle", "applying"} => stage'[g] \notin {"idle", "applying"}
        BY <1>5, <1>6 DEF Same
    <2> QED
        BY <1>4, <2>1, <2>2, SpentMonotone
<1>8. d \in SUBSET objects /\ \A o \in d : o.id[1] = f
    BY DEF Found, Of
<1>9. ObjectsOK' /\ Follows /\ \A g \in Faults : Live(g)' = Live(g) \ d
    BY <1>3, <1>4, <1>7, <1>8, DeleteObjects
<1>10. CountTypes' /\ now <= now' /\ errors <= errors'
    BY <1>2, <1>4 DEF DriverInv, CountTypes
<1>11. \A g \in Faults \ {f} : Live(g)' = Live(g)
    BY <1>8, <1>9 DEF Live, Of
<1>12. \A g \in Faults \ {f} : FaultOK(g)' /\ Effect(g)
    BY <1>4, <1>6, <1>10, <1>11, Bystander
<1>13. failed'[f] \/ \A o \in Live(f)' : o.type \in todo'[f]
    <2>1. SUFFICES ASSUME ~ failed'[f], NEW o \in Live(f)' PROVE o.type \in todo'[f]
        OBVIOUS
    <2>2. failed' = failed /\ d = Found(f, t) /\ ~ failed[f]
        BY <1>3, <2>1 DEF DriverInv, CallTypes
    <2>3. o \in Live(f) /\ o \notin Found(f, t)
        BY <1>9, <2>2
    <2>4. o.type \in todo[f]
        BY <1>4, <2>2, <2>3 DEF DriverInv, FaultOK
    <2>5. o.type # t
        BY <1>4, <2>3 DEF Found, Live
    <2> QED
        BY <1>1, <2>4, <2>5 DEF DriverInv, CallTypes
<1>14. FaultOK(f)'
    BY <1>4, <1>5, <1>13 DEF DriverInv, FaultOK
<1>15. Effect(f)
    <2>1. stage'[f] = "cleared" => todo'[f] = {} /\ ~ failed'[f]
        BY <1>4 DEF DriverInv, CallTypes
    <2> QED
        BY <1>4, <1>5, <1>9, <1>13, <2>1 DEF Effect, Moved, Due
<1>16. DriverInv'
    BY <1>4, <1>5, <1>7, <1>9, <1>10, <1>12, <1>14, ObjectStep
<1> QED
    BY <1>12, <1>15, <1>16

\* A step that leaves every call as it is.
LEMMA CallsUnmoved ==
    ASSUME DriverInv, UNCHANGED <<shape, callVars>>, CountTypes', now <= now',
           \A g \in Faults : Live(g)' = Live(g) \/ (Live(g)' \subseteq Live(g) /\ Due(g))
    PROVE  /\ CallTypes' /\ SpentStays /\ shape' \in ShapesOf
           /\ \A g \in Faults : FaultOK(g)' /\ Effect(g)
<1>1. CallTypes' /\ \A g \in Faults : Same(g)
    BY DEF callVars, DriverInv, CallTypes, Same
<1>2. SpentStays
    BY DEF callVars, SpentStays, Spent
<1> QED
    BY <1>1, <1>2, Bystander DEF DriverInv

LEMMA TickKeeps == ASSUME DriverInv, Tick PROVE DriverInv' /\ \A g \in Faults : Effect(g)
<1>1. CountTypes' /\ now <= now' /\ errors <= errors'
    BY ObjectsAssumption DEF Tick, DriverInv, CountTypes
<1>2. /\ UNCHANGED <<shape, callVars, stuckReported, reports>>
      /\ objects' = objects /\ injected' = injected /\ confirmed' = confirmed /\ sweep' = sweep
    BY DEF Tick, callVars, objVars, sweepVars
<1>3. \A g \in Faults : Live(g)' = Live(g)
    BY <1>2 DEF Live, Of
<1>4. /\ CallTypes' /\ SpentStays /\ shape' \in ShapesOf
      /\ \A g \in Faults : FaultOK(g)' /\ Effect(g)
    BY <1>1, <1>2, <1>3, CallsUnmoved
<1>5. ObjectsOK' /\ Follows /\ (injected \subseteq Ids /\ ConfirmedWhole)'
    BY <1>2 DEF DriverInv, ObjectsOK, ObjectOK, Spent, callVars, Follows, ConfirmedWhole, Ids
<1>6. TellOK'
    BY <1>1, <1>2, <1>4, <1>5, TellKept
<1>7. SweepOK'
    BY <1>1, <1>2 DEF DriverInv, SweepOK, ReportedOnce, CountTypes
<1> QED
    BY <1>1, <1>4, <1>5, <1>6, <1>7 DEF DriverInv

LEMMA InjectKeeps ==
    ASSUME DriverInv, NEW o \in objects, Inject(o) PROVE DriverInv' /\ \A g \in Faults : Effect(g)
<1>1. CountTypes' /\ now <= now' /\ errors <= errors'
    BY DEF Inject, DriverInv, CountTypes
<1>2. /\ UNCHANGED <<shape, callVars, stuckReported, reports>>
      /\ objects' = objects /\ injected' = injected \cup {o.id} /\ confirmed' = confirmed
      /\ sweep' = sweep /\ now' = now
    BY DEF Inject, callVars, sweepVars
<1>3. \A g \in Faults : Live(g)' = Live(g)
    BY <1>2 DEF Live, Of
<1>4. /\ CallTypes' /\ SpentStays /\ shape' \in ShapesOf
      /\ \A g \in Faults : FaultOK(g)' /\ Effect(g)
    BY <1>1, <1>2, <1>3, CallsUnmoved
<1>5. ObjectsOK' /\ Follows
    BY <1>2 DEF DriverInv, ObjectsOK, ObjectOK, Spent, callVars, Follows, Ids
<1>6. (injected \subseteq Ids /\ ConfirmedWhole)'
    BY <1>2 DEF DriverInv, ObjectsOK, ObjectOK, ConfirmedWhole, Ids
<1>7. TellOK'
    BY <1>1, <1>2, <1>4, <1>5, TellKept
<1>8. SweepOK'
    BY <1>2 DEF DriverInv, SweepOK, ReportedOnce
<1> QED
    BY <1>1, <1>4, <1>5, <1>6, <1>7, <1>8 DEF DriverInv

LEMMA ReleaseKeeps ==
    ASSUME DriverInv, NEW o \in objects, Release(o) PROVE DriverInv' /\ \A g \in Faults : Effect(g)
<1>1. CountTypes' /\ now <= now' /\ errors <= errors'
    BY DEF Release, DriverInv, CountTypes
<1>2. /\ UNCHANGED <<shape, callVars, stuckReported, reports>>
      /\ objects' = objects \ {o} /\ injected' = injected /\ confirmed' = confirmed
      /\ sweep' = sweep /\ now' = now /\ o.deletedAt # Never
    BY DEF Release, callVars, sweepVars
<1>3. \A g \in Faults : Live(g)' = Live(g)
    BY <1>2 DEF Live, Of
<1>4. /\ CallTypes' /\ SpentStays /\ shape' \in ShapesOf
      /\ \A g \in Faults : FaultOK(g)' /\ Effect(g)
    BY <1>1, <1>2, <1>3, CallsUnmoved
<1>5. IsFiniteSet(objects')
    BY <1>2, FS_Subset DEF DriverInv, ObjectsOK
<1>6. ObjectsOK' /\ Follows
    BY <1>2, <1>5 DEF DriverInv, ObjectsOK, ObjectOK, Spent, callVars, Follows, Ids
<1>7. (injected \subseteq Ids /\ ConfirmedWhole)'
    BY <1>2 DEF DriverInv, ConfirmedWhole, Ids
<1>8. TellOK'
    BY <1>1, <1>2, <1>4, <1>6, TellKept
<1>9. SweepOK'
    BY <1>2 DEF DriverInv, SweepOK, ReportedOnce
<1> QED
    BY <1>1, <1>4, <1>6, <1>7, <1>8, <1>9 DEF DriverInv

LEMMA SweepBeginKeeps == ASSUME DriverInv, SweepBegin PROVE DriverInv' /\ \A g \in Faults : Effect(g)
<1>1. CountTypes' /\ now <= now' /\ errors <= errors'
    BY DEF SweepBegin, DriverInv, CountTypes
<1>2. /\ UNCHANGED <<shape, callVars, stuckReported, reports>>
      /\ objects' = objects /\ injected' = injected /\ confirmed' = confirmed /\ now' = now
      /\ sweep'.at = now /\ sweep'.cleared = <<>>
    BY DEF SweepBegin, callVars, objVars
<1>3. \A g \in Faults : Live(g)' = Live(g)
    BY <1>2 DEF Live, Of
<1>4. /\ CallTypes' /\ SpentStays /\ shape' \in ShapesOf
      /\ \A g \in Faults : FaultOK(g)' /\ Effect(g)
    BY <1>1, <1>2, <1>3, CallsUnmoved
<1>5. ObjectsOK' /\ Follows /\ (injected \subseteq Ids /\ ConfirmedWhole)'
    BY <1>2 DEF DriverInv, ObjectsOK, ObjectOK, Spent, callVars, Follows, ConfirmedWhole, Ids
<1>6. TellOK'
    BY <1>1, <1>2, <1>4, <1>5, TellKept
<1>7. SweepOK'
    BY <1>2, EmptySeq DEF DriverInv, CountTypes, SweepOK, ReportedOnce
<1> QED
    BY <1>1, <1>4, <1>5, <1>6, <1>7 DEF DriverInv

LEMMA VisitedFields ==
    ASSUME DriverInv, NEW c
    PROVE  Visited(c).cleared = c /\ Visited(c).at \in Int /\ Visited(c).at <= now
<1>1. Visited(c).cleared = c /\ Visited(c).at \in {Never, sweep.at}
    BY DEF Visited
<1> QED
    BY <1>1 DEF DriverInv, SweepOK, CountTypes, Never

\* A listing that fails is what a second report of the same object is paid with.
LEMMA SweepUnlistedKeeps == ASSUME DriverInv, SweepUnlisted PROVE DriverInv' /\ \A g \in Faults : Effect(g)
<1>1. errors \in 0 .. MaxErrors /\ errors' = errors + 1 /\ CountTypes' /\ now <= now'
    BY ObjectsAssumption DEF SweepUnlisted, Fails, Count, DriverInv, CountTypes
<1>2. /\ UNCHANGED <<shape, callVars, reports>>
      /\ objects' = objects /\ injected' = injected /\ confirmed' = confirmed /\ now' = now
      /\ sweep' = Visited(sweep.cleared) /\ stuckReported' \subseteq stuckReported
    BY DEF SweepUnlisted, forgetStuckExcept, callVars, objVars
<1>3. \A g \in Faults : Live(g)' = Live(g)
    BY <1>2 DEF Live, Of
<1>4. /\ CallTypes' /\ SpentStays /\ shape' \in ShapesOf
      /\ \A g \in Faults : FaultOK(g)' /\ Effect(g)
    BY <1>1, <1>2, <1>3, CallsUnmoved
<1>5. ObjectsOK' /\ (injected \subseteq Ids /\ ConfirmedWhole)'
    BY <1>2 DEF DriverInv, ObjectsOK, ObjectOK, Spent, callVars, ConfirmedWhole, Ids
<1>6. TellOK'
    <2>1. Ids' = Ids /\ TellOK
        BY <1>2 DEF Ids, DriverInv
    <2>2. ASSUME NEW i \in Ids PROVE ReportOK(i)'
        <3>1. ReportOK(i) /\ reports[i] \in Nat /\ reports' = reports
            BY <1>2, <2>1 DEF TellOK
        <3>2. reports[i] <= 1 + errors' /\ ~ (reports[i] > errors')
            BY <1>1, <3>1 DEF ReportOK
        <3>3. reports[i] > 0 => Spent(i)' /\ \A o \in objects' : o.id = i => o.deletedAt # Never
            BY <1>2, <1>4, <3>1 DEF ReportOK, SpentStays
        <3> QED
            BY <3>1, <3>2, <3>3 DEF ReportOK
    <2> QED
        BY <1>2, <2>1, <2>2 DEF TellOK
<1>7. SweepOK'
    BY <1>2, VisitedFields DEF DriverInv, SweepOK, ReportedOnce
<1> QED
    BY <1>1, <1>4, <1>5, <1>6, <1>7 DEF DriverInv

LEMMA CrashKeeps == ASSUME DriverInv, Crash PROVE DriverInv' /\ \A g \in Faults : Effect(g)
<1>1. /\ CountTypes' /\ now' = now /\ shape' = shape /\ Ids' = Ids
      /\ objects' = objects /\ injected' = injected /\ created' = created /\ expiry' = expiry
    <2>1. /\ crashes < MaxCrashes /\ crashes' = crashes + 1
          /\ UNCHANGED <<now, shape, objects, injected, expiry, created, errors>>
        BY DEF Crash, objVars
    <2>2. CountTypes'
        BY <2>1, ObjectsAssumption DEF DriverInv, CountTypes
    <2> QED
        BY <2>1, <2>2 DEF Ids
<1>2. CallTypes'
    <2>1. stage \in [Faults -> Stages] /\ expiry \in [Faults -> Int] /\ created \in [Faults -> 0 .. 2]
        BY DEF DriverInv, CallTypes
    <2>2. stage' \in [Faults -> Stages \ {"applying", "undoing", "applied", "clearing"}]
        BY <2>1 DEF Crash, Stages
    <2>3. todo' = [f \in Faults |-> {}] /\ \A f \in Faults : todo'[f] = {}
        BY DEF Crash
    <2>4. todo' \in [Faults -> SUBSET Range(Resources)] /\ \A f \in Faults : stage'[f] \in Stages
        BY <2>2, <2>3
    <2>5. failed' \in [Faults -> BOOLEAN] /\ cancelled' \in [Faults -> BOOLEAN] /\ confirmed' \in SUBSET Faults
        BY DEF Crash
    <2>6. \A f \in Faults : todo'[f] # {} <=> stage'[f] \in {"undoing", "clearing"}
        BY <2>2, <2>3
    <2>7. stage' \in [Faults -> Stages]
        BY <2>2, <2>4
    <2> QED
        BY <1>1, <2>1, <2>4, <2>5, <2>6, <2>7 DEF CallTypes
<1>3. ASSUME NEW g \in Faults
      PROVE  /\ stage'[g] = (IF stage[g] \in {"applying", "undoing", "applied", "clearing"} THEN "lost" ELSE stage[g])
             /\ stage[g] \in Stages /\ FaultOK(g)
             /\ Live(g)' = Live(g)
    BY <1>1 DEF Crash, DriverInv, CallTypes, Live, Of
<1>4. \A g \in Faults : FaultOK(g)' /\ Effect(g)
    <2> SUFFICES ASSUME NEW g \in Faults PROVE FaultOK(g)' /\ Effect(g)
        OBVIOUS
    <2>1. stage'[g] \notin {"applying", "clearing"} /\ (stage'[g] = "idle" => stage[g] = "idle")
          /\ Moved(stage[g], stage'[g]) /\ stage'[g] \notin {"applied"}
          /\ ~ (stage[g] = "clearing" /\ stage'[g] = "cleared")
        BY <1>3 DEF Stages, Moved
    <2>2. FaultOK(g)'
        BY <1>1, <1>3, <2>1 DEF FaultOK
    <2>3. Effect(g)
        BY <1>1, <1>3, <2>1 DEF Effect, Due
    <2> QED
        BY <2>2, <2>3
<1>5. SpentStays
    BY <1>1, <1>3, IdsMeant DEF SpentStays, Spent
<1>6. ObjectsOK'
    BY <1>1, <1>5 DEF DriverInv, ObjectsOK, ObjectOK, SpentStays
<1>7. (injected \subseteq Ids /\ ConfirmedWhole)'
    BY <1>1 DEF Crash, DriverInv, ConfirmedWhole
<1>8. SweepOK'
    <2>1. sweep'.at = Never /\ sweep'.cleared = <<>>
        BY DEF Crash, Resting
    <2> QED
        BY <1>1, <2>1, EmptySeq DEF DriverInv, CountTypes, SweepOK, ReportedOnce, Never
<1>9. TellOK'
    <2>1. stuckReported' = {} /\ reports' = [i \in Ids |-> 0] /\ errors' \in Nat
        BY <1>1 DEF Crash, CountTypes
    <2>2. ASSUME NEW i \in Ids PROVE ReportOK(i)'
        <3>1. reports'[i] = 0
            BY <2>1
        <3>2. reports'[i] <= 1 + errors' /\ ~ (reports'[i] > 0) /\ ~ (reports'[i] > errors')
            <4>1. PICK e \in Nat : e = errors'
                BY <2>1
            <4>2. 0 <= 1 + e /\ ~ (0 > 0) /\ ~ (0 > e)
                OBVIOUS
            <4> QED
                BY <3>1, <4>1, <4>2
        <3> QED
            BY <3>2 DEF ReportOK
    <2> QED
        BY <1>1, <2>1, <2>2 DEF TellOK
<1> QED
    BY <1>1, <1>2, <1>4, <1>6, <1>7, <1>8, <1>9 DEF DriverInv

\* The list made of a finite set names each of its members at most once.
LEMMA ListOfSet ==
    ASSUME NEW S, IsFiniteSet(S), NEW T, S \subseteq T
    PROVE  /\ SetToSeq(S) \in Seq(T)
           /\ \A i \in 1 .. Len(SetToSeq(S)) : SetToSeq(S)[i] \in S
           /\ \A i, j \in 1 .. Len(SetToSeq(S)) : SetToSeq(S)[i] = SetToSeq(S)[j] => i = j
<1> DEFINE n == Cardinality(S)
           q == SetToSeq(S)
<1>1. n \in Nat /\ \E f \in Bijection(1 .. n, S) : TRUE
    BY FS_CardinalityType DEF ExistsBijection
<1>2. \E f \in [1 .. n -> S] : IsInjective(f)
    BY <1>1 DEF Bijection, Injection
<1>3. q \in [1 .. n -> S] /\ IsInjective(q)
    BY <1>2 DEF SetToSeq
<1> HIDE DEF n, q
<1>4. q \in Seq(T) /\ Len(q) = n
    <2>1. q \in [1 .. n -> T]
        BY <1>3
    <2>2. q \in Seq(T)
        BY <1>1, <2>1, IsASeq
    <2> QED
        BY <1>1, <1>3, <2>2, LenProperties
<1>5. \A i \in 1 .. Len(q) : q[i] \in S
    BY <1>3, <1>4
<1>6. \A i, j \in 1 .. Len(q) : q[i] = q[j] => i = j
    BY <1>3, <1>4 DEF IsInjective
<1> QED
    BY <1>4, <1>5, <1>6 DEF q

\* What was reported, and what is new, are reported once each.
LEMMA ReportOnceSound ==
    ASSUME NEW c \in Seq(Faults), \A i, j \in 1 .. Len(c) : c[i] = c[j] => i = j,
           NEW fs \in SUBSET Faults, IsFiniteSet(fs),
           NEW r, r = ReportOnce(c, fs)
    PROVE  r \in Seq(Faults) /\ \A i, j \in 1 .. Len(r) : r[i] = r[j] => i = j
<1>1. PICK S : S = fs \ Range(c)
    OBVIOUS
<1>2. IsFiniteSet(S) /\ S \subseteq Faults
    BY <1>1, FS_Subset
<1>3. PICK q : q = SetToSeq(S)
    OBVIOUS
<1>4. /\ q \in Seq(Faults) /\ \A i \in 1 .. Len(q) : q[i] \in S
      /\ \A i, j \in 1 .. Len(q) : q[i] = q[j] => i = j
    BY <1>2, <1>3, ListOfSet
<1>5. r = c \o q
    BY <1>1, <1>3 DEF ReportOnce
<1>6. Len(c) \in Nat /\ Len(q) \in Nat
    BY <1>4, LenProperties
<1>7. /\ r \in Seq(Faults) /\ Len(r) = Len(c) + Len(q)
      /\ \A i \in 1 .. Len(c) + Len(q) : r[i] = IF i <= Len(c) THEN c[i] ELSE q[i - Len(c)]
    BY <1>4, <1>5, ConcatProperties
<1>8. \A i \in 1 .. Len(c) : c[i] \notin S
    <2>1. \A i \in 1 .. Len(c) : c[i] \in Range(c)
        BY LenProperties DEF Range
    <2> QED
        BY <1>1, <2>1
<1>9. ASSUME NEW i \in 1 .. Len(r), NEW j \in 1 .. Len(r), r[i] = r[j] PROVE i = j
    <2>1. CASE i <= Len(c) /\ j <= Len(c)
        <3>1. i \in 1 .. Len(c) /\ j \in 1 .. Len(c) /\ c[i] = c[j]
            BY <1>6, <1>7, <1>9, <2>1
        <3> QED
            BY <3>1
    <2>2. CASE i > Len(c) /\ j > Len(c)
        <3>1. /\ i - Len(c) \in 1 .. Len(q) /\ j - Len(c) \in 1 .. Len(q)
              /\ q[i - Len(c)] = q[j - Len(c)]
            BY <1>6, <1>7, <1>9, <2>2
        <3>2. i - Len(c) = j - Len(c)
            BY <1>4, <3>1
        <3> QED
            BY <1>6, <3>2
    <2>3. CASE i <= Len(c) /\ j > Len(c)
        <3>1. i \in 1 .. Len(c) /\ j - Len(c) \in 1 .. Len(q) /\ c[i] = q[j - Len(c)]
            BY <1>6, <1>7, <1>9, <2>3
        <3> QED
            BY <1>4, <1>8, <3>1
    <2>4. CASE i > Len(c) /\ j <= Len(c)
        <3>1. j \in 1 .. Len(c) /\ i - Len(c) \in 1 .. Len(q) /\ c[j] = q[i - Len(c)]
            BY <1>6, <1>7, <1>9, <2>4
        <3> QED
            BY <1>4, <1>8, <3>1
    <2> QED
        BY <1>6, <2>1, <2>2, <2>3, <2>4
<1> QED
    BY <1>7, <1>9

\* What the pass finds expired is due, and is not terminating.
LEMMA DueObjects ==
    ASSUME DriverInv, NEW o \in objects, Expired(o)
    PROVE  o.id[1] \in Faults /\ Due(o.id[1])
<1>1. /\ o.id[1] \in Faults /\ o.expiry = expiry[o.id[1]] /\ o.expiry \in Int
      /\ o.expiry # Never /\ o.expiry + Grace(o.type) < sweep.at
    BY IdsMeant DEF DriverInv, ObjectsOK, ObjectOK, Expired
<1>2. Grace(o.type) \in Nat
    BY ObjectsAssumption DEF Grace
<1>3. sweep.at \in Int /\ sweep.at <= now /\ now \in Int
    BY DEF DriverInv, SweepOK, CountTypes
<1>4. o.expiry < now
    BY <1>1, <1>2, <1>3
<1> QED
    BY <1>1, <1>4 DEF Due

\* The objects told of now were not remembered, so that a listing has failed for every
\* time they were told of before.
LEMMA TellStep ==
    ASSUME DriverInv, NEW t, NEW told, told = {o.id : o \in Stuck(t)},
           Follows, SpentStays, Ids' = Ids, errors' \in Nat, errors <= errors',
           stuckReported' = IF t = "chaos" THEN forgetStuckExcept({o.id : o \in Terminating(t)}, told)
                                           ELSE stuckReported,
           reports' = [i \in Ids |-> IF i \in told THEN reports[i] + 1 ELSE reports[i]]
    PROVE  TellOK'
<1>1. /\ stuckReported \subseteq Ids /\ reports \in [Ids -> Nat] /\ errors \in Nat
      /\ \A i \in Ids : ReportOK(i)
      /\ (\A o \in objects : ObjectOK(o)) /\ (\A o, p \in objects : o.id = p.id => o = p)
    BY DEF DriverInv, TellOK, ObjectsOK, CountTypes
<1>2. ASSUME NEW i \in told
      PROVE  \E o \in objects : /\ o.id = i /\ o.type = t /\ o.deletedAt # Never /\ i \notin stuckReported
                                /\ ObjectOK(o)
    BY <1>1, <1>2 DEF Stuck, Terminating
<1>3. told \subseteq Ids /\ (told # {} => t = "chaos")
    BY <1>2 DEF ObjectOK
<1>4. stuckReported' \subseteq Ids
    BY <1>1, <1>3 DEF forgetStuckExcept
<1>5. reports' \in [Ids -> Nat]
    <2>1. \A i \in Ids : reports[i] \in Nat /\ reports[i] + 1 \in Nat
        BY <1>1
    <2> QED
        BY <2>1
<1>6. ASSUME NEW i \in Ids, i \in told PROVE ReportOK(i)'
    <2>1. PICK o \in objects : /\ o.id = i /\ o.type = t /\ o.deletedAt # Never /\ i \notin stuckReported
                               /\ ObjectOK(o)
        BY <1>2, <1>6
    <2>2. ReportOK(i) /\ reports[i] \in Nat /\ reports'[i] = reports[i] + 1
        BY <1>1, <1>6
    <2>3. ~ (reports[i] > errors)
        BY <2>1, <2>2 DEF ReportOK
    <2>4. reports'[i] <= 1 + errors'
        BY <1>1, <2>2, <2>3
    <2>5. Spent(i)'
        BY <2>1 DEF ObjectOK, SpentStays
    <2>6. ASSUME NEW q \in objects', q.id = i PROVE q.deletedAt # Never
        <3>1. PICK p \in objects : p.id = q.id /\ (p.deletedAt # Never => q.deletedAt # Never)
            BY <2>1, <2>6 DEF Follows, ObjectOK
        <3>2. p = o
            BY <1>1, <2>1, <2>6, <3>1
        <3> QED
            BY <2>1, <3>1, <3>2
    <2>7. i \in stuckReported'
        <3>1. t = "chaos" /\ o \in Terminating(t)
            BY <1>3, <1>6, <2>1 DEF Terminating
        <3> QED
            BY <1>6, <2>1, <3>1 DEF forgetStuckExcept
    <2> QED
        BY <2>4, <2>5, <2>6, <2>7 DEF ReportOK
<1>7. ASSUME NEW i \in Ids, i \notin told PROVE ReportOK(i)'
    <2>1. ReportOK(i) /\ reports[i] \in Nat /\ reports'[i] = reports[i]
        BY <1>1, <1>7
    <2>2. reports'[i] <= 1 + errors'
        BY <1>1, <2>1 DEF ReportOK
    <2>3. ASSUME reports'[i] > 0 PROVE Spent(i)' /\ \A q \in objects' : q.id = i => q.deletedAt # Never
        BY <2>1, <2>3 DEF ReportOK, SpentStays, Follows
    <2>4. ASSUME reports'[i] > errors' PROVE i \in stuckReported' \/ \A q \in objects' : q.id # i
        <3>1. reports[i] > errors /\ reports[i] > 0
            BY <1>1, <2>1, <2>4
        <3>2. SUFFICES ASSUME NEW q \in objects', q.id = i PROVE i \in stuckReported'
            OBVIOUS
        <3>3. PICK p \in objects : p.id = i
            BY <2>1, <3>1, <3>2 DEF Follows, ReportOK
        <3>4. i \in stuckReported /\ p.deletedAt # Never /\ p.type = "chaos"
            BY <1>1, <2>1, <3>1, <3>3 DEF ReportOK, ObjectOK
        <3>5. t = "chaos" => i \in {o.id : o \in Terminating(t)}
            BY <3>3, <3>4 DEF Terminating
        <3> QED
            BY <3>4, <3>5 DEF forgetStuckExcept
    <2> QED
        BY <2>2, <2>3, <2>4 DEF ReportOK
<1> QED
    BY <1>4, <1>5, <1>6, <1>7 DEF TellOK

LEMMA SweepResourceKeeps == ASSUME DriverInv, SweepResource PROVE DriverInv' /\ \A g \in Faults : Effect(g)
<1>1. PICK t : t = Head(sweep.left)
    OBVIOUS
<1>2. PICK due : due = {o \in objects \ Terminating(t) : o.type = t /\ Expired(o)}
    OBVIOUS
<1>3. PICK told : told = {o.id : o \in Stuck(t)}
    OBVIOUS
<1>4. /\ \E kept \in SUBSET due :
            /\ kept # {} => Fails(FALSE)
            /\ errors' = IF kept = {} THEN errors ELSE errors + 1
            /\ Delete(due \ kept)
            /\ sweep' = Visited(ReportOnce(sweep.cleared, {o.id[1] : o \in due \ kept}))
      /\ stuckReported' = IF t = "chaos" THEN forgetStuckExcept({o.id : o \in Terminating(t)}, told)
                                         ELSE stuckReported
      /\ reports' = [i \in Ids |-> IF i \in told THEN reports[i] + 1 ELSE reports[i]]
      /\ UNCHANGED <<now, shape, injected, callVars, crashes>>
    BY <1>1, <1>2, <1>3 DEF SweepResource
<1>5. PICK kept \in SUBSET due :
            /\ kept # {} => Fails(FALSE)
            /\ errors' = IF kept = {} THEN errors ELSE errors + 1
            /\ Delete(due \ kept)
            /\ sweep' = Visited(ReportOnce(sweep.cleared, {o.id[1] : o \in due \ kept}))
    BY <1>4
<1>6. PICK d : d = due \ kept
    OBVIOUS
<1>7. d \in SUBSET objects /\ \A o \in d : o.id[1] \in Faults /\ Due(o.id[1])
    BY <1>2, <1>6, DueObjects
<1>8. errors' \in errors .. MaxErrors /\ errors \in Nat
    BY <1>5, ObjectsAssumption DEF Fails, DriverInv, CountTypes
<1>9. CountTypes' /\ now <= now' /\ errors <= errors' /\ errors' \in Nat
    BY <1>4, <1>8 DEF DriverInv, CountTypes
<1>10. /\ UNCHANGED <<shape, callVars>> /\ shape' = shape /\ expiry' = expiry /\ injected' = injected
       /\ confirmed' = confirmed /\ Ids' = Ids
    BY <1>4 DEF callVars, Ids
<1>11. SpentStays
    BY <1>4 DEF callVars, SpentStays, Spent
<1>12. ObjectsOK' /\ Follows /\ \A g \in Faults : Live(g)' = Live(g) \ d
    BY <1>5, <1>6, <1>7, <1>10, <1>11, DeleteObjects
<1>13. ASSUME NEW g \in Faults PROVE Live(g)' = Live(g) \/ (Live(g)' \subseteq Live(g) /\ Due(g))
    <2>1. CASE Live(g) \cap d = {}
        BY <1>12, <2>1
    <2>2. ASSUME NEW o \in Live(g) \cap d PROVE Live(g)' \subseteq Live(g) /\ Due(g)
        BY <1>7, <1>12, <2>2 DEF Live, Of
    <2> QED
        BY <2>1, <2>2
<1>14. /\ CallTypes' /\ shape' \in ShapesOf
       /\ \A g \in Faults : FaultOK(g)' /\ Effect(g)
    BY <1>9, <1>10, <1>13, CallsUnmoved
<1>15. (injected \subseteq Ids /\ ConfirmedWhole)'
    BY <1>10 DEF DriverInv, ConfirmedWhole
<1>16. TellOK'
    BY <1>3, <1>4, <1>9, <1>10, <1>11, <1>12, TellStep
<1>17. SweepOK'
    <2>1. PICK fs : fs = {o.id[1] : o \in d}
        OBVIOUS
    <2>2. IsFiniteSet(d)
        BY <1>7, FS_Subset DEF DriverInv, ObjectsOK
    <2> DEFINE h == [o \in d |-> o.id[1]]
    <2>3. h \in Surjection(d, {o.id[1] : o \in d})
        BY DEF Surjection
    <2>4. IsFiniteSet(fs) /\ fs \in SUBSET Faults
        BY <1>7, <2>1, <2>2, <2>3, FS_Surjection
    <2>5. /\ sweep.cleared \in Seq(Faults)
          /\ \A i, j \in 1 .. Len(sweep.cleared) : sweep.cleared[i] = sweep.cleared[j] => i = j
        BY DEF DriverInv, SweepOK, ReportedOnce
    <2>6. PICK r : r = ReportOnce(sweep.cleared, fs)
        OBVIOUS
    <2>7. r \in Seq(Faults) /\ \A i, j \in 1 .. Len(r) : r[i] = r[j] => i = j
        BY <2>4, <2>5, <2>6, ReportOnceSound
    <2>8. sweep' = Visited(r)
        BY <1>5, <1>6, <2>1, <2>6
    <2>9. sweep'.cleared = r /\ sweep'.at \in Int /\ sweep'.at <= now
        BY <2>8, VisitedFields
    <2> QED
        BY <1>4, <2>7, <2>9 DEF SweepOK, ReportedOnce
<1> QED
    BY <1>9, <1>12, <1>14, <1>15, <1>16, <1>17 DEF DriverInv

LEMMA DriverStarts == Init => DriverInv /\ Contract!Init
<1> SUFFICES ASSUME Init PROVE DriverInv /\ Contract!Init
    OBVIOUS
<1>1. /\ now = 0 /\ shape \in ShapesOf /\ objects = {} /\ injected = {} /\ confirmed = {}
      /\ sweep = Resting /\ stuckReported = {} /\ reports = [i \in Ids |-> 0] /\ errors = 0 /\ crashes = 0
    BY DEF Init
<1>2. CountTypes
    BY <1>1, ObjectsAssumption DEF CountTypes
<1>3. ASSUME NEW f \in Faults
      PROVE  /\ stage[f] = "idle" /\ expiry[f] = Never /\ created[f] = 0 /\ Live(f) = {}
             /\ ~ (expiry[f] # Never /\ expiry[f] < now)
    BY <1>1 DEF Init, Live, Of
<1>4. CallTypes
    <2>1. stage \in [Faults -> Stages] /\ expiry \in [Faults -> Int] /\ created \in [Faults -> 0 .. 2]
        BY DEF Init, Stages, Never
    <2>2. /\ todo \in [Faults -> SUBSET Range(Resources)]
          /\ \A f \in Faults : todo[f] # {} <=> stage[f] \in {"undoing", "clearing"}
        BY DEF Init
    <2>3. failed \in [Faults -> BOOLEAN] /\ cancelled \in [Faults -> BOOLEAN] /\ confirmed \in SUBSET Faults
        BY DEF Init
    <2> QED
        BY <2>1, <2>2, <2>3 DEF CallTypes
<1>5. ObjectsOK /\ injected \subseteq Ids /\ ConfirmedWhole
    BY <1>1, FS_EmptySet DEF ObjectsOK, ConfirmedWhole
<1>6. ASSUME NEW f \in Faults PROVE FaultOK(f)
    <2>1. ShapeOK(shape[f])
        BY <1>1, ShapesSound
    <2>2. Len(shape[f].objs) \in Nat
        BY <2>1, ShapeLength
    <2>3. 0 <= Len(shape[f].objs)
        BY <2>2
    <2> QED
        BY <1>3, <2>3 DEF FaultOK
<1>7. SweepOK
    <2>1. sweep.at = Never /\ sweep.cleared = <<>>
        BY <1>1 DEF Resting
    <2> QED
        BY <1>1, <2>1, EmptySeq DEF SweepOK, ReportedOnce, Never
<1>8. TellOK
    <2>1. ASSUME NEW i \in Ids PROVE ReportOK(i)
        <3>1. reports[i] = 0
            BY <1>1
        <3> QED
            BY <1>1, <3>1 DEF ReportOK
    <2> QED
        BY <1>1, <2>1 DEF TellOK
<1>9. DriverInv
    BY <1>1, <1>2, <1>4, <1>5, <1>6, <1>7, <1>8 DEF DriverInv
<1>10. /\ [f \in Faults |-> Holds(f)] = [f \in Faults |-> "none"]
       /\ [f \in Faults |-> expiry[f] # Never /\ expiry[f] < now] = [f \in Faults |-> FALSE]
    <2>1. \A f \in Faults : Holds(f) = "none"
        BY <1>3 DEF Holds
    <2>2. \A f \in Faults : (expiry[f] # Never /\ expiry[f] < now) = FALSE
        BY <1>3
    <2> QED
        BY <2>1, <2>2
<1>11. stage = [f \in Faults |-> "idle"]
    BY DEF Init
<1> QED
    BY <1>9, <1>10, <1>11 DEF Contract!Init

\* Every step keeps the invariant and is, fault by fault, one the contract allows.
LEMMA DriverStep == DriverInv /\ [Next]_vars => DriverInv' /\ [Contract!Next]_(Contract!vars)
<1> SUFFICES ASSUME DriverInv, [Next]_vars PROVE DriverInv' /\ [Contract!Next]_(Contract!vars)
    OBVIOUS
<1>1. CASE UNCHANGED vars
    <2>1. /\ UNCHANGED <<now, shape, objects, injected, stage, expiry, created, todo, failed, cancelled>>
          /\ UNCHANGED <<confirmed, sweep, stuckReported, reports, errors, crashes>>
        BY <1>1 DEF vars, objVars, callVars, sweepVars
    <2>2. DriverInv'
        BY <2>1 DEF DriverInv, CountTypes, CallTypes, ObjectsOK, ObjectOK, Spent, FaultOK, Due, Live, Of,
                    ConfirmedWhole, SweepOK, ReportedOnce, TellOK, ReportOK, Ids
    <2>3. UNCHANGED Contract!vars
        BY <2>1 DEF Contract!vars, Holds, Live, Of
    <2> QED
        BY <2>2, <2>3
<1>2. ASSUME Next PROVE DriverInv' /\ shape' = shape /\ \A g \in Faults : Effect(g)
    <2>1. CASE Tick \/ SweepBegin \/ SweepResource \/ SweepUnlisted \/ Crash
        <3>1. shape' = shape
            BY <2>1 DEF Tick, SweepBegin, SweepResource, SweepUnlisted, Crash
        <3> QED
            BY <2>1, <3>1, TickKeeps, SweepBeginKeeps, SweepResourceKeeps, SweepUnlistedKeeps, CrashKeeps
    <2>2. ASSUME NEW o \in objects, Inject(o) \/ Release(o)
          PROVE  DriverInv' /\ shape' = shape /\ \A g \in Faults : Effect(g)
        <3>1. shape' = shape
            BY <2>2 DEF Inject, Release
        <3> QED
            BY <2>2, <3>1, InjectKeeps, ReleaseKeeps
    <2>3. ASSUME NEW f \in Faults, Begin(f) \/ Create(f) \/ CreateFails(f) \/ Wedge(f) \/ WedgeFails(f)
          PROVE  DriverInv' /\ shape' = shape /\ \A g \in Faults : Effect(g)
        <3>1. shape' = shape
            BY <2>3 DEF Begin, Create, CreateFails, Wedge, WedgeFails
        <3> QED
            BY <2>3, <3>1, BeginKeeps, CreateKeeps, CreateFailsKeeps, WedgeKeeps, WedgeFailsKeeps
    <2>4. ASSUME NEW f \in Faults,
                 Cancel(f) \/ Undo(f) \/ ClearBegin(f) \/ Clear(f) \/ ConfirmInjected(f) \/ Adopt(f)
          PROVE  DriverInv' /\ shape' = shape /\ \A g \in Faults : Effect(g)
        <3>1. shape' = shape
            BY <2>4 DEF Cancel, Undo, ClearBegin, Clear, ConfirmInjected, Adopt
        <3> QED
            BY <2>4, <3>1, CancelKeeps, UndoKeeps, ClearBeginKeeps, ClearKeeps, ConfirmKeeps, AdoptKeeps
    <2> QED
        BY <1>2, <2>1, <2>2, <2>3, <2>4 DEF Next
<1>3. CASE Next
    <2>1. \A f \in Faults : Contract!Step(f)
        BY <1>2, <1>3, ContractStep
    <2> QED
        BY <1>2, <1>3, <2>1 DEF Contract!Next
<1> QED
    BY <1>1, <1>3

\* What the chaos-mesh, network-policy and kube-state drivers report is so, for every
\* bundle and every interleaving of creates, rollbacks, clears, sweeps, failed requests
\* and deaths of the process: ConfirmInjected answers only for a bundle every member of
\* which was injected, ReapExpired reports a bundle once in a pass, and an object stuck
\* in its deletion is reported once, and again only for a listing that failed.
THEOREM ReportsAlwaysTrue == Spec => []ReportsTrue
<1>1. Init => DriverInv
    BY DriverStarts
<1>2. DriverInv /\ [Next]_vars => DriverInv'
    BY DriverStep
<1>3. DriverInv => ReportsTrue
    <2> SUFFICES ASSUME DriverInv PROVE ReportsTrue
        OBVIOUS
    <2>1. TypeOK
        <3>1. objects \in SUBSET [id : Ids, type : Range(Resources), expiry : Int, deletedAt : Int]
            BY DEF DriverInv, ObjectsOK, ObjectOK
        <3>2. /\ now \in 0 .. MaxTime /\ errors \in 0 .. MaxErrors /\ crashes \in 0 .. MaxCrashes
              /\ injected \in SUBSET Ids /\ stuckReported \in SUBSET Ids /\ reports \in [Ids -> Nat]
              /\ sweep.cleared \in Seq(Faults)
            BY DEF DriverInv, CountTypes, TellOK, SweepOK
        <3> QED
            BY <3>1, <3>2 DEF TypeOK, DriverInv, CallTypes, Stages
    <2>2. StuckOnce
        BY DEF DriverInv, TellOK, ReportOK, StuckOnce
    <2> QED
        BY <2>1, <2>2 DEF DriverInv, SweepOK, ReportsTrue
<1> QED
    BY <1>1, <1>2, <1>3, PTL DEF Spec

\* The drivers implement the contract of simian.ChaosDriver, whatever shapes the faults
\* have and however many there are: Apply answers nil over a whole fault, the fault stays
\* whole until it is taken out or its deadline has passed, and Clear answers nil over
\* nothing, through failed requests, lost answers, rollbacks, sweeps and restarts.
THEOREM ContractKept == Spec => KeepsContract
<1>1. Init => DriverInv /\ Contract!Init
    BY DriverStarts
<1>2. DriverInv /\ [Next]_vars => DriverInv' /\ [Contract!Next]_(Contract!vars)
    BY DriverStep
<1> QED
    BY <1>1, <1>2, PTL DEF Spec, KeepsContract, Contract!Spec

(***************************************************************************)
(* The declarative-state faults and their gates.  The invariant: of every  *)
(* pod, how far its bundle lets it come; of every status field, that it    *)
(* never runs ahead of the pods; and of the gate, that each assertion seen *)
(* so far has left a trace the cluster does not take back.                 *)
(***************************************************************************)
PodRecords ==
    [st : States, ready : BOOLEAN, restarts : 0 .. KubeStateCrashLoopRestarts,
     last : {"none", "Error", "OOMKilled", "Completed"}]

StatusRecords ==
    [ready : 0 .. MaxReplicas + 1, available : 0 .. MaxReplicas + 1,
     rollout : {"none", "progressing", "exceeded"}, slices : {"none", "written"},
     endpoints : SUBSET ((0 .. MaxReplicas) \X BOOLEAN), disruptions : -1 .. MaxReplicas,
     job : BOOLEAN, failures : 0 .. maxBackoffLimit + 1, logged : BOOLEAN]

\* What was applied: a pair that is asked about, and a spec the builder accepts.
AppliedOK ==
    /\ <<kind, asked>> \in Built /\ kind \in Kinds /\ asked \in Kinds
    /\ spec \in SpecsOf(kind) /\ Accepts(kind, spec)
    /\ asked # kind => spec.replicas = 1

\* One pod and what it is made of: how far its bundle lets it come, and what its
\* last exit can have been.
RecordOK(x, b) ==
    /\ x.ready => x.st = "running" /\ b.probe # "false" /\ b.run # "job"
    /\ x.st \notin {"new", "unscheduled"} => b.fits /\ ~ b.claim
    /\ x.st = "unscheduled" => ~ (b.fits /\ ~ b.claim)
    /\ x.st = "pullfailed" => b.run = "nopull"
    /\ x.st = "running" => b.run # "nopull"
    /\ x.st \in {"terminated", "waiting"} => b.run \in {"exit", "hog"}
    /\ x.st = "done" => b.run = "job"
    /\ x.last # "none" => b.run \in {"exit", "hog"} /\ x.last = IF b.run = "hog" THEN "OOMKilled" ELSE "Error"
    /\ x.restarts > 0 => x.last # "none"

PodsOK ==
    /\ pods \in [PodIds -> PodRecords]
    /\ PodIds = Old \/ (kind = "RolloutStuck" /\ PodIds = {0} \cup Old)
    /\ \A p \in PodIds : RecordOK(pods[p], PodOf(p))

Serving == Bundle.run = "serve"

\* What the controllers wrote: never more than is so, where pods do not fail.
StatusOK ==
    /\ status \in StatusRecords
    /\ ~ status.job => status.failures <= spec.backoff
    /\ status.job => kind = "JobFailure"
    /\ kind = "JobFailure" => (status.job <=> pods[1].st = "done")
    /\ Serving => status.ready <= Cardinality(ReadyPods) /\ status.available <= Cardinality(AvailablePods)
    /\ 0 \in PodIds => \A p \in Old : pods[p].ready
    /\ status.rollout # "none" => 0 \in PodIds
    /\ status.disruptions # -1 => kind = "PDBGridlock" /\ status.disruptions = 0
    /\ status.endpoints # {} => Bundle.service = "own"
    /\ \A e \in status.endpoints : e[2] => Bundle.probe # "false"

\* What an assertion that was seen once leaves behind for good.
Stays(what) ==
    /\ what = "ImagePullBackOff" => kind = "ImageUnresolvable"
    /\ what \in {"Error", "OOMKilled"} => \E p \in PodIds : pods[p].last = what
    /\ what = "restarts" =>
          /\ kind # "RolloutStuck"
          /\ \E p \in PodIds : pods[p].restarts >= KubeStateCrashLoopRestarts
    /\ what = "Unschedulable" => kind \in {"Unschedulable", "UnboundClaim"}
    /\ what = "BackoffLimitExceeded" => status.job
    /\ what = "ready" => (Serving => ReadyPods # {})
    /\ what = "rolledOut" => (Serving => status.ready = spec.replicas)
    /\ what = "endpointsNotReady" => Bundle.service = "own"
    /\ what = "claimPending" => Bundle.claim
    /\ what = "logLine" => status.logged /\ kind = "DependencyStall"
    /\ what = "noDisruption" => kind = "PDBGridlock" /\ status.disruptions = 0
    /\ what = "deadlineExceeded" => status.rollout = "exceeded"
    /\ what = "serving" => (Serving => status.available = spec.replicas)
    /\ what = "certificate" => Bundle.secret

\* The gate: every assertion before the one polled now has left its trace.
GateOK ==
    /\ gate \in 1 .. Len(Gates) + 1 /\ held \in 0 .. DwellPolls /\ gaveUp \in BOOLEAN
    /\ \A i \in 1 .. gate - 1 : Stays(Gates[i].what)

KInv == AppliedOK /\ PodsOK /\ StatusOK /\ GateOK

(***************************************************************************)
(* The bundles and the gates, kind by kind.                                *)
(***************************************************************************)
LEMMA SpecFacts ==
    ASSUME AppliedOK
    PROVE  /\ spec.replicas \in 1 .. MaxReplicas /\ MaxReplicas \in Nat
           /\ spec.exit \in {0, 1} /\ spec.over \in BOOLEAN /\ spec.selector \in {"own", "drifted"}
           /\ spec.min \in 0 .. MaxReplicas + 1 /\ spec.backoff \in 0 .. maxBackoffLimit /\ spec.dwell \in {0, 90, 6000}
           /\ kind = "JobFailure" => spec.replicas = 1
           /\ kind = "MemoryLimitSqueeze" => spec.over
           /\ kind = "SelectorDrift" => spec.selector = "drifted"
           /\ kind = "PDBGridlock" => spec.min >= spec.replicas
<1>1. spec \in Specs /\ MaxReplicas \in Nat
  BY KindsAssumption DEF AppliedOK, SpecsOf
<1>2. /\ spec.replicas \in 1 .. MaxReplicas /\ spec.exit \in {0, 1} /\ spec.over \in BOOLEAN
      /\ spec.selector \in {"own", "drifted"} /\ spec.min \in 0 .. MaxReplicas + 1 /\ spec.dwell \in {0, 90, 6000}
  BY <1>1 DEF Specs
<1>3. spec.backoff \in 0 .. maxBackoffLimit
  <2>1. kind # "JobFailure" => spec.backoff = 0
    BY DEF AppliedOK, SpecsOf
  <2>2. kind = "JobFailure" => spec.backoff \in 0 .. maxBackoffLimit
    BY DEF AppliedOK, Accepts
  <2> QED
    BY <2>1, <2>2 DEF maxBackoffLimit
<1>4. /\ kind = "JobFailure" => spec.replicas = 1
      /\ kind = "MemoryLimitSqueeze" => spec.over
      /\ kind = "SelectorDrift" => spec.selector # "own"
      /\ kind = "PDBGridlock" => spec.min >= spec.replicas
  BY DEF AppliedOK, SpecsOf, Accepts
<1> QED
  BY <1>1, <1>2, <1>3, <1>4

LEMMA ServedPods ==
    ASSUME NEW s
    PROVE  /\ backendCrashLoopBundle(s).run = "exit" /\ backendCrashLoopBundle(s).probe = "false"
           /\ backendCrashLoopBundle(s).service = "own" /\ backendCrashLoopBundle(s).fits
           /\ ~ backendCrashLoopBundle(s).claim /\ backendCrashLoopBundle(s).min = 0
           /\ backendCrashLoopBundle(s).revisions = 1 /\ ~ backendCrashLoopBundle(s).secret
           /\ dependencyStallBundle(s).run = "serve" /\ dependencyStallBundle(s).probe = "http"
           /\ dependencyStallBundle(s).service = "own" /\ dependencyStallBundle(s).fits
           /\ ~ dependencyStallBundle(s).claim /\ dependencyStallBundle(s).min = 0
           /\ dependencyStallBundle(s).revisions = 1 /\ ~ dependencyStallBundle(s).secret
<1>1. backendCrashLoopBundle(s).run = "exit"
  BY DEF backendCrashLoopBundle, newService, containerExitLoopPod, newDeployment
<1>2. backendCrashLoopBundle(s).probe = "false"
  BY DEF backendCrashLoopBundle, newService, containerExitLoopPod, newDeployment
<1>3. backendCrashLoopBundle(s).service = "own"
  BY DEF backendCrashLoopBundle, newService, containerExitLoopPod, newDeployment
<1>4. backendCrashLoopBundle(s).min = 0
  BY DEF backendCrashLoopBundle, newService, containerExitLoopPod, newDeployment
<1>5. backendCrashLoopBundle(s).revisions = 1
  BY DEF backendCrashLoopBundle, newService, containerExitLoopPod, newDeployment
<1>6. backendCrashLoopBundle(s).fits
  BY DEF backendCrashLoopBundle, newService, containerExitLoopPod, newDeployment
<1>7. ~ backendCrashLoopBundle(s).claim
  BY DEF backendCrashLoopBundle, newService, containerExitLoopPod, newDeployment
<1>8. ~ backendCrashLoopBundle(s).secret
  BY DEF backendCrashLoopBundle, newService, containerExitLoopPod, newDeployment
<1>9. dependencyStallBundle(s).run = "serve"
  BY DEF dependencyStallBundle, newService, healthyPod, newDeployment
<1>10. dependencyStallBundle(s).probe = "http"
  BY DEF dependencyStallBundle, newService, healthyPod, newDeployment
<1>11. dependencyStallBundle(s).service = "own"
  BY DEF dependencyStallBundle, newService, healthyPod, newDeployment
<1>12. dependencyStallBundle(s).min = 0
  BY DEF dependencyStallBundle, newService, healthyPod, newDeployment
<1>13. dependencyStallBundle(s).revisions = 1
  BY DEF dependencyStallBundle, newService, healthyPod, newDeployment
<1>14. dependencyStallBundle(s).fits
  BY DEF dependencyStallBundle, newService, healthyPod, newDeployment
<1>15. ~ dependencyStallBundle(s).claim
  BY DEF dependencyStallBundle, newService, healthyPod, newDeployment
<1>16. ~ dependencyStallBundle(s).secret
  BY DEF dependencyStallBundle, newService, healthyPod, newDeployment
<1> QED
  BY <1>1, <1>2, <1>3, <1>4, <1>5, <1>6, <1>7, <1>8, <1>9, <1>10, <1>11, <1>12, <1>13, <1>14, <1>15, <1>16

LEMMA BundleFacts ==
    ASSUME AppliedOK
    PROVE  /\ Bundle.run = IF kind = "ImageUnresolvable" THEN "nopull"
                           ELSE IF kind \in {"ContainerExitLoop", "BackendCrashLoop"} THEN "exit"
                           ELSE IF kind = "MemoryLimitSqueeze" THEN "hog"
                           ELSE IF kind = "JobFailure" THEN "job" ELSE "serve"
           /\ Bundle.probe = IF kind = "BackendCrashLoop" THEN "false"
                             ELSE IF kind = "DependencyStall" THEN "http" ELSE "none"
           /\ Bundle.service = IF kind = "SelectorDrift" THEN "drifted"
                               ELSE IF kind \in {"BackendCrashLoop", "DependencyStall"} THEN "own" ELSE "none"
           /\ Bundle.fits <=> kind # "Unschedulable"
           /\ Bundle.claim <=> kind = "UnboundClaim"
           /\ Bundle.min = IF kind = "PDBGridlock" THEN spec.min ELSE 0
           /\ Bundle.revisions = IF kind = "RolloutStuck" THEN 2 ELSE 1
           /\ Bundle.secret <=> kind = "CertExpiry"
<1>1. CASE kind = "ImageUnresolvable"
  BY <1>1 DEF Bundle, builders, imageUnresolvablePod, newDeployment
<1>2. CASE kind = "ContainerExitLoop"
  BY <1>2 DEF Bundle, builders, containerExitLoopPod, newDeployment
<1>3. CASE kind = "MemoryLimitSqueeze"
  BY <1>3, SpecFacts DEF Bundle, builders, memoryLimitSqueezePod, newDeployment
<1>4. CASE kind = "Unschedulable"
  BY <1>4 DEF Bundle, builders, unschedulablePod, healthyPod, newDeployment
<1>5. CASE kind = "JobFailure"
  BY <1>5 DEF Bundle, builders, jobFailureBundle, newDeployment
<1>6. CASE kind = "SelectorDrift"
  <2>1. Bundle = selectorDriftBundle(spec) /\ spec.selector = "drifted"
    BY <1>6, SpecFacts DEF Bundle, builders
  <2>2. Bundle = [healthyPod(spec) EXCEPT !.service = "drifted"]
    BY <2>1 DEF selectorDriftBundle, newService
  <2> QED
    BY <1>6, <2>2 DEF healthyPod, newDeployment
<1>7. CASE kind = "BackendCrashLoop"
  <2>1. Bundle = backendCrashLoopBundle(spec)
    BY <1>7 DEF Bundle, builders
  <2> QED
    BY <1>7, <2>1, ServedPods
<1>8. CASE kind = "UnboundClaim"
  <2>1. Bundle = [healthyPod(spec) EXCEPT !.claim = TRUE]
    BY <1>8 DEF Bundle, builders, unboundClaimBundle
  <2> QED
    BY <1>8, <2>1 DEF healthyPod, newDeployment
<1>9. CASE kind = "DependencyStall"
  <2>1. Bundle = dependencyStallBundle(spec)
    BY <1>9 DEF Bundle, builders
  <2> QED
    BY <1>9, <2>1, ServedPods
<1>10. CASE kind = "PDBGridlock"
  BY <1>10 DEF Bundle, builders, pdbGridlockBundle, healthyPod, newDeployment
<1>11. CASE kind = "RolloutStuck"
  BY <1>11 DEF Bundle, builders, rolloutStuckBundle, healthyPod, newDeployment
<1>12. CASE kind = "CertExpiry"
  BY <1>12 DEF Bundle, builders, certExpiryBundle, healthyPod, newDeployment
<1>13. CASE kind = "NoOp"
  BY <1>13 DEF Bundle, builders, healthyPod, newDeployment
<1> QED
  BY <1>1, <1>2, <1>3, <1>4, <1>5, <1>6, <1>7, <1>8, <1>9, <1>10, <1>11, <1>12, <1>13 DEF AppliedOK, Kinds

\* The pod of the second revision differs from the others in what it runs.
LEMMA PodFacts ==
    ASSUME AppliedOK, NEW p
    PROVE  /\ p # 0 => PodOf(p) = Bundle
           /\ p = 0 /\ kind = "RolloutStuck" => PodOf(p).run = "exit" /\ PodOf(p).probe = "false"
           /\ kind = "RolloutStuck" => PodOf(p).fits /\ ~ PodOf(p).claim
<1>1. CASE p # 0
  BY <1>1, BundleFacts DEF PodOf
<1>2. CASE p = 0 /\ kind # "RolloutStuck"
  BY <1>2
<1>3. CASE p = 0 /\ kind = "RolloutStuck"
  BY <1>3, SpecFacts DEF PodOf, brokenRolloutContainer, Bundle, builders, rolloutStuckBundle, healthyPod, newDeployment
<1> QED
  BY <1>1, <1>2, <1>3

LEMMA Framed ==
    ASSUME UNCHANGED <<kind, spec>>
    PROVE  /\ Bundle' = Bundle /\ Old' = Old /\ (Serving' <=> Serving)
           /\ \A p : PodOf(p)' = PodOf(p)
BY DEF Bundle, Old, Serving, PodOf

\* The pods that are ready, where they do not fail.
LEMMA Counted ==
    ASSUME AppliedOK, PodsOK
    PROVE  /\ IsFiniteSet(PodIds) /\ PodIds \subseteq 0 .. MaxReplicas
           /\ IsFiniteSet(ReadyPods) /\ Cardinality(ReadyPods) \in 0 .. MaxReplicas + 1
           /\ IsFiniteSet(AvailablePods) /\ AvailablePods \subseteq Old
           /\ Cardinality(AvailablePods) \in 0 .. spec.replicas
           /\ Cardinality(AvailablePods) = spec.replicas => AvailablePods = Old
           /\ Serving => /\ ReadyPods \subseteq Old /\ AvailablePods = ReadyPods
                         /\ Cardinality(ReadyPods) = spec.replicas => ReadyPods = Old
           /\ kind = "PDBGridlock" => Cardinality(ReadyPods) <= spec.min
<1>1. PodIds \subseteq 0 .. MaxReplicas /\ spec.replicas \in 1 .. MaxReplicas /\ MaxReplicas \in Nat
  BY SpecFacts DEF PodsOK, Old
<1>2. IsFiniteSet(0 .. MaxReplicas) /\ Cardinality(0 .. MaxReplicas) = MaxReplicas + 1
  BY <1>1, FS_Interval
<1>3. IsFiniteSet(Old) /\ Cardinality(Old) = spec.replicas
  BY <1>1, FS_Interval DEF Old
<1>4. IsFiniteSet(PodIds)
  BY <1>1, <1>2, FS_Subset
<1>5. IsFiniteSet(ReadyPods) /\ Cardinality(ReadyPods) <= MaxReplicas + 1 /\ Cardinality(ReadyPods) \in Nat
  <2>1. ReadyPods \subseteq 0 .. MaxReplicas
    BY <1>1 DEF ReadyPods
  <2>2. IsFiniteSet(ReadyPods) /\ Cardinality(ReadyPods) <= MaxReplicas + 1
    BY <2>1, <1>2, FS_Subset
  <2> QED
    BY <2>2, FS_CardinalityType
<1>6. \A p \in PodIds : p = 0 => ~ pods[p].ready /\ p \notin AvailablePods
  BY PodFacts, <1>1 DEF PodsOK, RecordOK, AvailablePods, ReadyPods, Old
<1>7. \A p \in PodIds : p # 0 => p \in Old
  BY DEF PodsOK
<1>8. AvailablePods \subseteq Old /\ AvailablePods \subseteq PodIds
  BY <1>6, <1>7 DEF AvailablePods, ReadyPods
<1>9. IsFiniteSet(AvailablePods) /\ Cardinality(AvailablePods) <= spec.replicas
      /\ (Cardinality(AvailablePods) = spec.replicas => AvailablePods = Old)
  BY <1>8, <1>3, FS_Subset
<1>10. Cardinality(AvailablePods) \in 0 .. spec.replicas
  BY <1>1, <1>9, FS_CardinalityType
<1>11. ASSUME Serving
       PROVE  ReadyPods \subseteq Old /\ AvailablePods = ReadyPods
  <2>1. ReadyPods \subseteq Old /\ \A p \in Old : p # 0
    BY <1>6, <1>7 DEF ReadyPods, Old
  <2>2. \A p \in ReadyPods : PodOf(p).run = "serve"
    BY <1>11, <2>1, PodFacts DEF Serving
  <2> QED
    BY <2>1, <2>2 DEF AvailablePods
<1>12. ASSUME kind = "PDBGridlock"
       PROVE  Cardinality(ReadyPods) <= spec.min
  <2>1. Serving
    BY <1>12, BundleFacts DEF Serving
  <2>2. Cardinality(ReadyPods) <= spec.replicas
    BY <2>1, <1>11, <1>9
  <2> QED
    BY <2>2, <1>12, <1>5, <1>1, SpecFacts
<1> QED
  BY <1>1, <1>4, <1>5, <1>9, <1>10, <1>8, <1>11, <1>12

\* What no step of the cluster takes back.
KindMoves ==
    /\ UNCHANGED <<kind, spec, asked, gate, held, gaveUp>>
    /\ \A p \in PodIds :
        /\ p \in PodIds'
        /\ pods[p].last # "none" => pods'[p].last = pods[p].last
        /\ pods'[p].restarts >= pods[p].restarts
    /\ Serving => ReadyPods \subseteq ReadyPods'
    /\ status.job => status'.job
    /\ status.logged => status'.logged
    /\ status.rollout = "exceeded" => status'.rollout = "exceeded"
    /\ Serving => status'.ready >= status.ready /\ status'.available >= status.available
    /\ status.disruptions # -1 => status'.disruptions # -1

LEMMA StaysSo ==
    ASSUME AppliedOK, PodsOK, StatusOK, KindMoves, AppliedOK', PodsOK', StatusOK', NEW what, Stays(what)
    PROVE  Stays(what)'
<1>1. Bundle' = Bundle /\ (Serving' <=> Serving) /\ kind' = kind /\ spec' = spec /\ Old' = Old
  BY Framed DEF KindMoves
<1>2. ASSUME Serving
      PROVE  /\ status.ready = spec.replicas => status'.ready = spec.replicas
             /\ status.available = spec.replicas => status'.available = spec.replicas
             /\ ReadyPods # {} => (ReadyPods # {})'
  <2>1. /\ Cardinality(ReadyPods') \in Nat /\ Cardinality(ReadyPods') <= spec.replicas
        /\ status'.ready <= Cardinality(ReadyPods') /\ status'.available <= Cardinality(ReadyPods')
    <3>1. Serving' /\ (Serving => AvailablePods = ReadyPods)'
      BY <1>1, <1>2, Counted, PTL
    <3>2. (AvailablePods = ReadyPods)' /\ (Cardinality(AvailablePods) \in 0 .. spec.replicas)'
      BY <3>1, Counted, PTL
    <3>3. (Serving => status.ready <= Cardinality(ReadyPods) /\ status.available <= Cardinality(AvailablePods))'
      BY DEF StatusOK
    <3>4. spec'.replicas \in Nat
      BY <1>1, SpecFacts
    <3> QED
      BY <3>1, <3>2, <3>3, <3>4, <1>1
  <2>2. status.ready \in Int /\ status'.ready \in Int /\ status.available \in Int /\ status'.available \in Int
        /\ spec.replicas \in Int
    BY SpecFacts DEF StatusOK, StatusRecords
  <2> QED
    BY <1>2, <2>1, <2>2 DEF KindMoves
<1>3. ASSUME what \in {"Error", "OOMKilled"}
      PROVE  (\E p \in PodIds : pods[p].last = what)'
  <2>1. PICK p \in PodIds : pods[p].last = what
    BY <1>3 DEF Stays
  <2> QED
    BY <2>1, <1>3 DEF KindMoves
<1>4. ASSUME what = "restarts"
      PROVE  (\E p \in PodIds : pods[p].restarts >= KubeStateCrashLoopRestarts)'
  <2>1. PICK p \in PodIds : pods[p].restarts >= KubeStateCrashLoopRestarts
    BY <1>4 DEF Stays
  <2>2. p \in PodIds' /\ pods'[p].restarts >= pods[p].restarts
    BY DEF KindMoves
  <2>3. pods[p].restarts \in Int /\ pods'[p].restarts \in Int
    BY <2>2 DEF PodsOK, PodRecords, KubeStateCrashLoopRestarts
  <2> QED
    BY <2>1, <2>2, <2>3 DEF KubeStateCrashLoopRestarts
<1>5. what = "noDisruption" => (kind = "PDBGridlock" /\ status.disruptions = 0)'
  <2> SUFFICES ASSUME what = "noDisruption" PROVE (kind = "PDBGridlock" /\ status.disruptions = 0)'
    OBVIOUS
  <2>1. kind = "PDBGridlock" /\ status.disruptions = 0
    BY DEF Stays
  <2> QED
    BY <2>1, <1>1 DEF KindMoves, StatusOK
<1>6. /\ what = "BackoffLimitExceeded" => status'.job
      /\ what = "logLine" => status'.logged /\ kind' = "DependencyStall"
      /\ what = "deadlineExceeded" => status'.rollout = "exceeded"
  BY <1>1 DEF Stays, KindMoves
<1> QED
  BY <1>1, <1>2, <1>3, <1>4, <1>5, <1>6 DEF Stays

\* A step that only moves on keeps the gate's evidence.
LEMMA GateKept ==
    ASSUME AppliedOK, PodsOK, StatusOK, GateOK, KindMoves, PodsOK', StatusOK'
    PROVE  KInv'
<1>1. AppliedOK'
  BY DEF AppliedOK, KindMoves
<1>2. Gates' = Gates
  BY DEF Gates, KindMoves
<1>3. \A w : Stays(w) => Stays(w)'
  BY <1>1, StaysSo
<1>4. GateOK'
  BY <1>2, <1>3 DEF GateOK, KindMoves
<1> QED
  BY <1>1, <1>4 DEF KInv

\* A step of one pod.
LEMMA SetKeeps ==
    ASSUME KInv, NEW p \in PodIds, NEW rec \in PodRecords, Set(p, rec), RecordOK(rec, PodOf(p)),
           pods[p].ready /\ PodOf(p).run = "serve" => rec.ready,
           pods[p].last # "none" => rec.last = pods[p].last,
           rec.restarts >= pods[p].restarts,
           rec.st = "done" <=> pods[p].st = "done"
    PROVE  KInv'
<1>1. AppliedOK /\ PodsOK /\ StatusOK /\ GateOK
  BY DEF KInv
<1>2. /\ pods' = [pods EXCEPT ![p] = rec] /\ status' = status
      /\ UNCHANGED <<kind, spec, asked, gate, held, gaveUp>>
  BY DEF Set, Cluster
<1>3. Bundle' = Bundle /\ Old' = Old /\ (Serving' <=> Serving) /\ \A q : PodOf(q)' = PodOf(q)
  BY <1>2, Framed
<1>4. /\ PodIds' = PodIds /\ pods' \in [PodIds -> PodRecords]
      /\ \A q \in PodIds : pods'[q] = IF q = p THEN rec ELSE pods[q]
  BY <1>1, <1>2 DEF PodsOK, PodIds
<1>5. PodsOK'
  <2>1. \A q \in PodIds : RecordOK(pods'[q], PodOf(q)')
    BY <1>1, <1>3, <1>4 DEF PodsOK
  <2>2. \A q \in PodIds' : RecordOK(pods[q], PodOf(q))'
    BY <2>1, <1>4 DEF RecordOK
  <2> QED
    BY <1>1, <1>2, <1>3, <1>4, <2>2 DEF PodsOK
<1>6. AppliedOK'
  BY <1>1, <1>2 DEF AppliedOK
<1>7. \A q \in Old : pods[q].ready /\ Bundle.run = "serve" /\ q \in PodIds => pods'[q].ready
  BY <1>4, <1>1, PodFacts, SpecFacts DEF Old
<1>8. Serving => ReadyPods \subseteq ReadyPods'
  <2>1. Serving => ReadyPods \subseteq Old
    BY <1>1, Counted
  <2> QED
    BY <2>1, <1>7, <1>4 DEF ReadyPods, Serving
<1>9. Serving => (status.ready <= Cardinality(ReadyPods) /\ status.available <= Cardinality(AvailablePods))'
  <2> SUFFICES ASSUME Serving
               PROVE  status.ready <= Cardinality(ReadyPods') /\ status.available <= Cardinality(AvailablePods')
    BY <1>2
  <2>0. (IsFiniteSet(ReadyPods))' /\ (Serving => AvailablePods = ReadyPods)'
    BY <1>5, <1>6, Counted, PTL
  <2>1. IsFiniteSet(ReadyPods') /\ (Serving' => AvailablePods' = ReadyPods') /\ Cardinality(ReadyPods') \in Nat
    BY <2>0, FS_CardinalityType
  <2>2. AvailablePods = ReadyPods /\ AvailablePods' = ReadyPods'
    BY <2>1, <1>1, <1>3, Counted
  <2>3. Cardinality(ReadyPods) <= Cardinality(ReadyPods')
    BY <1>8, <2>1, FS_Subset
  <2>4. status.ready \in Int /\ status.available \in Int /\ Cardinality(ReadyPods) \in Int /\ Cardinality(ReadyPods') \in Int
    BY <1>1, <2>1, Counted DEF StatusOK, StatusRecords
  <2>5. status.ready <= Cardinality(ReadyPods) /\ status.available <= Cardinality(ReadyPods)
    BY <1>1, <2>2 DEF StatusOK
  <2> QED
    BY <2>2, <2>3, <2>4, <2>5
<1>10. 0 \in PodIds => \A q \in Old : pods'[q].ready
  <2> SUFFICES ASSUME 0 \in PodIds PROVE \A q \in Old : pods'[q].ready
    OBVIOUS
  <2>0. 0 \notin Old
    BY <1>1, SpecFacts DEF Old
  <2>1. kind = "RolloutStuck" /\ Old \subseteq PodIds
    BY <1>1, <2>0 DEF PodsOK
  <2>2. Bundle.run = "serve"
    BY <2>1, <1>1, BundleFacts
  <2> QED
    BY <2>1, <2>2, <1>1, <1>7 DEF StatusOK
<1>11. kind = "JobFailure" => (status.job <=> pods'[1].st = "done")
  <2> SUFFICES ASSUME kind = "JobFailure" PROVE status.job <=> pods'[1].st = "done"
    OBVIOUS
  <2>1. 1 \in PodIds
    BY <1>1, SpecFacts DEF PodsOK, Old
  <2> QED
    BY <2>1, <1>1, <1>4 DEF StatusOK
<1>12. StatusOK'
  BY <1>1, <1>2, <1>3, <1>4, <1>9, <1>10, <1>11 DEF StatusOK
<1>13. KindMoves
  <2>1. \A q \in PodIds : pods[q].restarts \in Int
    BY <1>1 DEF PodsOK, PodRecords, KubeStateCrashLoopRestarts
  <2>2. status.ready \in Int /\ status.available \in Int
    BY <1>1 DEF StatusOK, StatusRecords
  <2> QED
    BY <1>2, <1>4, <1>8, <2>1, <2>2 DEF KindMoves
<1> QED
  BY <1>1, <1>5, <1>12, <1>13, GateKept

\* What a record of a pod has, and what its bundle can run.
LEMMA PodTypes ==
    ASSUME KInv, NEW p \in PodIds
    PROVE  /\ pods[p] \in PodRecords /\ RecordOK(pods[p], PodOf(p))
           /\ PodOf(p).run \in {"nopull", "exit", "hog", "job", "serve"}
           /\ kind = "RolloutStuck" => PodOf(p).run \in {"exit", "serve"}
           /\ kind = "JobFailure" => p = 1 /\ PodIds = {1}
           /\ PodOf(p).run = "job" => kind = "JobFailure"
           /\ PodOf(p).fits /\ ~ PodOf(p).claim <=> Bundle.fits /\ ~ Bundle.claim
           /\ PodOf(p).probe = "http" => PodOf(p).run = "serve"
<1>1. AppliedOK /\ PodsOK
  BY DEF KInv
<1>2. pods[p] \in PodRecords /\ RecordOK(pods[p], PodOf(p))
  BY <1>1 DEF PodsOK
<1>3. 0 \in PodIds => kind = "RolloutStuck"
  BY <1>1, SpecFacts DEF PodsOK, Old
<1>4. PodOf(p).run \in {"nopull", "exit", "hog", "job", "serve"} /\ (kind = "RolloutStuck" => PodOf(p).run \in {"exit", "serve"})
      /\ (PodOf(p).run = "job" => kind = "JobFailure")
      /\ (PodOf(p).fits /\ ~ PodOf(p).claim <=> Bundle.fits /\ ~ Bundle.claim)
      /\ (PodOf(p).probe = "http" => PodOf(p).run = "serve")
  <2>1. CASE p = 0
    <3>1. Bundle.fits /\ ~ Bundle.claim
      BY <2>1, <1>1, <1>3, BundleFacts
    <3> QED
      BY <2>1, <3>1, <1>1, <1>3, PodFacts
  <2>2. CASE p # 0
    <3>1. PodOf(p) = Bundle
      BY <2>2, <1>1, PodFacts
    <3> QED
      BY <3>1, <1>1, BundleFacts
  <2> QED
    BY <2>1, <2>2
<1>5. kind = "JobFailure" => PodIds = {1}
  BY <1>1, SpecFacts DEF PodsOK, Old
<1> QED
  BY <1>2, <1>4, <1>5

LEMMA ScheduleKeeps ==
    ASSUME KInv, NEW p \in PodIds, Schedule(p)
    PROVE  KInv'
<1> DEFINE to == IF Bundle.fits /\ ~ Bundle.claim THEN "placed" ELSE "unscheduled"
           rec == [pods[p] EXCEPT !.st = to]
<1>1. pods[p].st = "new" /\ Set(p, rec)
  BY DEF Schedule
<1>2. pods[p] \in PodRecords /\ RecordOK(pods[p], PodOf(p))
  BY PodTypes
<1>3. to \in {"placed", "unscheduled"} /\ (to = "placed" <=> PodOf(p).fits /\ ~ PodOf(p).claim)
  BY PodTypes
<1> HIDE DEF to
<1>4. /\ rec \in PodRecords
      /\ rec.st = to /\ rec.ready = pods[p].ready /\ rec.last = pods[p].last /\ rec.restarts = pods[p].restarts
  BY <1>2, <1>3 DEF PodRecords, States
<1>5. RecordOK(rec, PodOf(p))
  BY <1>1, <1>2, <1>3, <1>4 DEF RecordOK
<1>6. pods[p].restarts \in Int
  BY <1>2 DEF PodRecords, KubeStateCrashLoopRestarts
<1> HIDE DEF rec
<1> QED
  BY <1>1, <1>3, <1>4, <1>5, <1>6, SetKeeps

LEMMA RunsOK ==
    ASSUME NEW p \in PodIds, NEW x \in PodRecords, PodOf(p).run # "nopull", PodOf(p).fits, ~ PodOf(p).claim,
           x.last # "none" =>
              PodOf(p).run \in {"exit", "hog"} /\ x.last = IF PodOf(p).run = "hog" THEN "OOMKilled" ELSE "Error",
           x.restarts > 0 => x.last # "none"
    PROVE  /\ Run(p, x) \in PodRecords /\ RecordOK(Run(p, x), PodOf(p))
           /\ Run(p, x).last = x.last /\ Run(p, x).restarts = x.restarts /\ Run(p, x).st = "running"
           /\ PodOf(p).run = "serve" /\ PodOf(p).probe = "none" => Run(p, x).ready
<1> DEFINE up == PodOf(p).probe = "none" /\ PodOf(p).run # "job"
           y == [x EXCEPT !.st = "running", !.ready = up]
<1>1. Run(p, x) = y
  BY DEF Run
<1>2. up \in BOOLEAN /\ "running" \in States
  BY DEF States
<1> HIDE DEF up
<1>3. y \in PodRecords /\ y.st = "running" /\ y.ready = up /\ y.last = x.last /\ y.restarts = x.restarts
  BY <1>2 DEF PodRecords
<1>4. up => PodOf(p).probe # "false" /\ PodOf(p).run # "job"
  BY DEF up
<1>6. RecordOK(y, PodOf(p))
  BY <1>3, <1>4 DEF RecordOK
<1>7. PodOf(p).run = "serve" /\ PodOf(p).probe = "none" => up
  BY DEF up
<1> QED
  BY <1>1, <1>3, <1>6, <1>7

LEMMA StartKeeps ==
    ASSUME KInv, NEW p \in PodIds, Start(p)
    PROVE  KInv'
<1> DEFINE rec == IF PodOf(p).run = "nopull" THEN [pods[p] EXCEPT !.st = "pullfailed"] ELSE Run(p, pods[p])
<1>1. pods[p].st = "placed" /\ Set(p, rec)
  BY DEF Start
<1>2. pods[p] \in PodRecords /\ RecordOK(pods[p], PodOf(p))
  BY PodTypes
<1>3. /\ PodOf(p).fits /\ ~ PodOf(p).claim /\ ~ pods[p].ready
      /\ pods[p].last # "none" =>
            PodOf(p).run \in {"exit", "hog"} /\ pods[p].last = IF PodOf(p).run = "hog" THEN "OOMKilled" ELSE "Error"
      /\ pods[p].restarts > 0 => pods[p].last # "none"
  BY <1>1, <1>2 DEF RecordOK
<1>4. rec \in PodRecords /\ RecordOK(rec, PodOf(p)) /\ rec.last = pods[p].last /\ rec.restarts = pods[p].restarts
      /\ rec.st \in {"running", "pullfailed"}
  <2>1. CASE PodOf(p).run = "nopull"
    <3>1. rec = [pods[p] EXCEPT !.st = "pullfailed"]
      BY <2>1
    <3>2. /\ rec \in PodRecords /\ rec.st = "pullfailed" /\ rec.ready = pods[p].ready
          /\ rec.last = pods[p].last /\ rec.restarts = pods[p].restarts
      BY <1>2, <3>1 DEF PodRecords, States
    <3> HIDE DEF rec
    <3> QED
      BY <1>2, <1>3, <2>1, <3>2 DEF RecordOK
  <2>2. CASE PodOf(p).run # "nopull"
    BY <2>2, <1>2, <1>3, RunsOK
  <2> QED
    BY <2>1, <2>2
<1>5. pods[p].restarts \in Int
  BY <1>2 DEF PodRecords, KubeStateCrashLoopRestarts
<1> HIDE DEF rec
<1> QED
  BY <1>1, <1>3, <1>4, <1>5, SetKeeps

LEMMA BecomesReadyKeeps ==
    ASSUME KInv, NEW p \in PodIds, BecomesReady(p)
    PROVE  KInv'
<1> DEFINE rec == [pods[p] EXCEPT !.ready = TRUE]
<1>1. pods[p].st = "running" /\ PodOf(p).probe = "http" /\ Set(p, rec)
  BY DEF BecomesReady
<1>2. pods[p] \in PodRecords /\ RecordOK(pods[p], PodOf(p)) /\ PodOf(p).run = "serve"
  BY <1>1, PodTypes
<1>3. /\ rec \in PodRecords /\ rec.st = pods[p].st /\ rec.ready
      /\ rec.last = pods[p].last /\ rec.restarts = pods[p].restarts
  BY <1>2 DEF PodRecords
<1> HIDE DEF rec
<1>4. RecordOK(rec, PodOf(p))
  BY <1>1, <1>2, <1>3 DEF RecordOK
<1>5. pods[p].restarts \in Int
  BY <1>2 DEF PodRecords, KubeStateCrashLoopRestarts
<1> QED
  BY <1>1, <1>3, <1>4, <1>5, SetKeeps

LEMMA ExitsKeeps ==
    ASSUME KInv, NEW p \in PodIds, Exits(p)
    PROVE  KInv'
<1> DEFINE rec == [pods[p] EXCEPT !.st = "terminated", !.ready = FALSE]
<1>1. pods[p].st = "running" /\ PodOf(p).run \in {"exit", "hog", "complete"} /\ Set(p, rec)
  BY DEF Exits
<1>2. pods[p] \in PodRecords /\ RecordOK(pods[p], PodOf(p)) /\ PodOf(p).run \in {"exit", "hog"}
  BY <1>1, PodTypes
<1>3. /\ rec \in PodRecords /\ rec.st = "terminated" /\ ~ rec.ready
      /\ rec.last = pods[p].last /\ rec.restarts = pods[p].restarts
  BY <1>2 DEF PodRecords, States
<1> HIDE DEF rec
<1>4. RecordOK(rec, PodOf(p))
  BY <1>1, <1>2, <1>3 DEF RecordOK
<1>5. pods[p].restarts \in Int
  BY <1>2 DEF PodRecords, KubeStateCrashLoopRestarts
<1> QED
  BY <1>1, <1>2, <1>3, <1>4, <1>5, SetKeeps

LEMMA BacksOffKeeps ==
    ASSUME KInv, NEW p \in PodIds, BacksOff(p)
    PROVE  KInv'
<1> DEFINE rec == [pods[p] EXCEPT !.st = "waiting"]
<1>1. pods[p].st = "terminated" /\ Set(p, rec)
  BY DEF BacksOff
<1>2. pods[p] \in PodRecords /\ RecordOK(pods[p], PodOf(p))
  BY PodTypes
<1>3. /\ rec \in PodRecords /\ rec.st = "waiting" /\ rec.ready = pods[p].ready
      /\ rec.last = pods[p].last /\ rec.restarts = pods[p].restarts
  BY <1>2 DEF PodRecords, States
<1> HIDE DEF rec
<1>4. RecordOK(rec, PodOf(p))
  BY <1>1, <1>2, <1>3 DEF RecordOK
<1>5. pods[p].restarts \in Int
  BY <1>2 DEF PodRecords, KubeStateCrashLoopRestarts
<1> QED
  BY <1>1, <1>3, <1>4, <1>5, SetKeeps

LEMMA RestartsKeeps ==
    ASSUME KInv, NEW p \in PodIds, Restarts(p)
    PROVE  KInv'
<1> DEFINE n == pods[p].restarts
           m == IF n < KubeStateCrashLoopRestarts THEN n + 1 ELSE n
           x == [pods[p] EXCEPT !.last = Reason(p), !.restarts = m]
           rec == Run(p, x)
<1>1. pods[p].st \in {"waiting", "terminated"} /\ Set(p, rec)
  BY DEF Restarts
<1>2. pods[p] \in PodRecords /\ RecordOK(pods[p], PodOf(p)) /\ PodOf(p).run \in {"exit", "hog"}
      /\ ~ pods[p].ready /\ PodOf(p).fits /\ ~ PodOf(p).claim
  BY <1>1, PodTypes DEF RecordOK
<1>3. n \in 0 .. KubeStateCrashLoopRestarts /\ m \in 0 .. KubeStateCrashLoopRestarts /\ m >= n /\ n \in Int
  BY <1>2 DEF PodRecords, KubeStateCrashLoopRestarts
<1>4. Reason(p) = IF PodOf(p).run = "hog" THEN "OOMKilled" ELSE "Error"
  BY <1>2 DEF Reason
<1> HIDE DEF m
<1>5. x \in PodRecords /\ x.last = Reason(p) /\ x.restarts = m
  BY <1>2, <1>3, <1>4 DEF PodRecords
<1>6. pods[p].last # "none" => x.last = pods[p].last
  BY <1>2, <1>4, <1>5 DEF RecordOK
<1> HIDE DEF x
<1>7. /\ rec \in PodRecords /\ RecordOK(rec, PodOf(p))
      /\ rec.last = x.last /\ rec.restarts = x.restarts /\ rec.st = "running"
  BY <1>2, <1>4, <1>5, RunsOK
<1> HIDE DEF rec
<1> QED
  BY <1>1, <1>2, <1>3, <1>5, <1>6, <1>7, SetKeeps

LEMMA JobPodFailsKeeps ==
    ASSUME KInv, NEW p \in PodIds, JobPodFails(p)
    PROVE  KInv'
<1>1. AppliedOK /\ PodsOK /\ StatusOK /\ GateOK
  BY DEF KInv
<1>2. /\ pods[p].st = "running" /\ PodOf(p).run = "job" /\ ~ status.job
      /\ UNCHANGED <<kind, spec, asked, gate, held, gaveUp>>
  BY DEF JobPodFails, Cluster
<1> DEFINE over == status.failures + 1 > spec.backoff
           to == IF over THEN "done" ELSE "placed"
<1>3. /\ status' = [status EXCEPT !.failures = status.failures + 1, !.job = over]
      /\ pods' = [pods EXCEPT ![p] = [pods[p] EXCEPT !.st = to]]
  BY DEF JobPodFails
<1>4. kind = "JobFailure" /\ p = 1 /\ PodIds = {1} /\ pods[p] \in PodRecords /\ RecordOK(pods[p], PodOf(p))
  BY <1>2, PodTypes
<1>5. Bundle' = Bundle /\ Old' = Old /\ (Serving' <=> Serving) /\ \A q : PodOf(q)' = PodOf(q)
  BY <1>2, Framed
<1>6. status.failures \in 0 .. spec.backoff /\ spec.backoff \in 0 .. maxBackoffLimit /\ over \in BOOLEAN
      /\ (~ over => status.failures + 1 <= spec.backoff)
  BY <1>1, <1>2, SpecFacts DEF StatusOK, StatusRecords, maxBackoffLimit
<1>7. to \in {"done", "placed"} /\ (to = "done" <=> over)
  OBVIOUS
<1> HIDE DEF over, to
<1> DEFINE rec == [pods[p] EXCEPT !.st = to]
<1>8. /\ rec \in PodRecords /\ rec.st = to /\ rec.ready = pods[p].ready
      /\ rec.last = pods[p].last /\ rec.restarts = pods[p].restarts
  BY <1>4, <1>7 DEF PodRecords, States
<1>9. ~ rec.ready /\ PodOf(p).fits /\ ~ PodOf(p).claim
  BY <1>2, <1>4, <1>8 DEF RecordOK
<1> HIDE DEF rec
<1>10. RecordOK(rec, PodOf(p))
  BY <1>2, <1>4, <1>7, <1>8, <1>9 DEF RecordOK
<1>11. /\ PodIds' = PodIds /\ pods' \in [PodIds -> PodRecords] /\ pods'[p] = rec
  <2>1. pods' = [pods EXCEPT ![p] = rec]
    BY <1>3 DEF rec
  <2> QED
    BY <2>1, <1>1, <1>8 DEF PodsOK, PodIds
<1>12. PodsOK'
  <2>1. \A q \in PodIds : RecordOK(pods'[q], PodOf(q)')
    BY <1>4, <1>5, <1>10, <1>11
  <2>2. \A q \in PodIds' : RecordOK(pods[q], PodOf(q))'
    BY <2>1, <1>11 DEF RecordOK
  <2> QED
    BY <1>1, <1>2, <1>5, <1>11, <2>2 DEF PodsOK
<1>13. ~ Serving /\ ~ (0 \in PodIds)
  BY <1>1, <1>4, BundleFacts DEF Serving
<1>14. /\ status' \in StatusRecords /\ status'.job = over /\ status'.failures = status.failures + 1
       /\ status'.ready = status.ready /\ status'.available = status.available /\ status'.rollout = status.rollout
       /\ status'.endpoints = status.endpoints /\ status'.disruptions = status.disruptions
       /\ status'.logged = status.logged
  <2>1. status \in StatusRecords /\ status.failures + 1 \in 0 .. maxBackoffLimit + 1
    BY <1>1, <1>6 DEF StatusOK, maxBackoffLimit
  <2> QED
    BY <2>1, <1>3, <1>6 DEF StatusRecords
<1>15. StatusOK'
  BY <1>1, <1>2, <1>4, <1>5, <1>6, <1>7, <1>8, <1>11, <1>13, <1>14 DEF StatusOK
<1>16. KindMoves
  <2>1. pods[p].restarts \in Int
    BY <1>4 DEF PodRecords, KubeStateCrashLoopRestarts
  <2> QED
    BY <1>2, <1>4, <1>8, <1>11, <1>13, <1>14, <2>1 DEF KindMoves
<1> QED
  BY <1>1, <1>12, <1>15, <1>16, GateKept

\* A controller that writes its own field, and says what is so.
LEMMA ObservedKeeps ==
    ASSUME KInv, UNCHANGED <<pods, kind, spec, asked, gate, held, gaveUp>>, status' \in StatusRecords,
           status'.job = status.job, status'.failures = status.failures,
           Serving => /\ status'.ready >= status.ready /\ status'.available >= status.available
                      /\ status'.ready <= Cardinality(ReadyPods) /\ status'.available <= Cardinality(AvailablePods),
           status'.rollout # "none" => 0 \in PodIds,
           status.rollout = "exceeded" => status'.rollout = "exceeded",
           status'.disruptions # -1 => kind = "PDBGridlock" /\ status'.disruptions = 0,
           status.disruptions # -1 => status'.disruptions # -1,
           status'.endpoints # {} => Bundle.service = "own",
           \A e \in status'.endpoints : e[2] => Bundle.probe # "false",
           status.logged => status'.logged
    PROVE  KInv'
<1>1. AppliedOK /\ PodsOK /\ StatusOK /\ GateOK
  BY DEF KInv
<1>2. Bundle' = Bundle /\ Old' = Old /\ (Serving' <=> Serving) /\ \A q : PodOf(q)' = PodOf(q)
  BY Framed
<1>3. PodIds' = PodIds /\ ReadyPods' = ReadyPods /\ AvailablePods' = AvailablePods
  BY <1>2 DEF PodIds, ReadyPods, AvailablePods
<1>4. PodsOK'
  <2>1. \A q \in PodIds' : RecordOK(pods[q], PodOf(q))'
    BY <1>1, <1>2, <1>3 DEF PodsOK, RecordOK
  <2> QED
    BY <2>1, <1>1, <1>2, <1>3 DEF PodsOK
<1>5. StatusOK'
  BY <1>1, <1>2, <1>3 DEF StatusOK
<1>6. KindMoves
  <2>1. \A q \in PodIds : pods[q].restarts \in Int
    BY <1>1 DEF PodsOK, PodRecords, KubeStateCrashLoopRestarts
  <2> QED
    BY <1>3, <2>1 DEF KindMoves
<1> QED
  BY <1>1, <1>4, <1>5, <1>6, GateKept

LEMMA WritesLogKeeps ==
    ASSUME KInv, NEW p \in PodIds, WritesLog(p)
    PROVE  KInv'
<1>1. StatusOK /\ status \in StatusRecords
  BY DEF KInv, StatusOK
<1>2. UNCHANGED <<pods, kind, spec, asked, gate, held, gaveUp>> /\ status' = [status EXCEPT !.logged = TRUE]
  BY DEF WritesLog, Cluster
<1>3. /\ status' \in StatusRecords /\ status'.job = status.job /\ status'.failures = status.failures
      /\ status'.ready = status.ready /\ status'.available = status.available /\ status'.rollout = status.rollout
      /\ status'.endpoints = status.endpoints /\ status'.disruptions = status.disruptions /\ status'.logged
  BY <1>1, <1>2 DEF StatusRecords
<1>4. status.ready \in Int /\ status.available \in Int
  BY <1>1 DEF StatusRecords
<1> QED
  BY <1>1, <1>2, <1>3, <1>4, ObservedKeeps DEF StatusOK

\* The second revision's pod is not ready, so the deployment makes no progress.
LEMMA DeploymentKeeps ==
    ASSUME KInv, DeploymentObserves
    PROVE  KInv'
<1>1. AppliedOK /\ PodsOK /\ StatusOK /\ status \in StatusRecords
  BY DEF KInv, StatusOK
<1> DEFINE ro == IF 0 \in ReadyPods THEN "progressing" ELSE status.rollout
<1>2. /\ UNCHANGED <<pods, kind, spec, asked, gate, held, gaveUp>>
      /\ status' = [status EXCEPT !.ready = Cardinality(ReadyPods), !.available = Cardinality(AvailablePods), !.rollout = ro]
  BY DEF DeploymentObserves, Cluster
<1>3. 0 \notin ReadyPods
  <2>1. 0 \in PodIds => kind = "RolloutStuck"
    BY <1>1, SpecFacts DEF PodsOK, Old
  <2>2. 0 \in PodIds => RecordOK(pods[0], PodOf(0)) /\ PodOf(0).probe = "false"
    BY <2>1, <1>1, PodFacts DEF PodsOK
  <2> QED
    BY <2>2 DEF ReadyPods, RecordOK
<1>4. ro = status.rollout
  BY <1>3
<1> HIDE DEF ro
<1>5. /\ Cardinality(ReadyPods) \in 0 .. MaxReplicas + 1 /\ Cardinality(AvailablePods) \in 0 .. MaxReplicas + 1
  BY <1>1, Counted, SpecFacts
<1>6. /\ status' \in StatusRecords /\ status'.job = status.job /\ status'.failures = status.failures
      /\ status'.ready = Cardinality(ReadyPods) /\ status'.available = Cardinality(AvailablePods)
      /\ status'.rollout = status.rollout /\ status'.endpoints = status.endpoints
      /\ status'.disruptions = status.disruptions /\ status'.logged = status.logged
  BY <1>1, <1>2, <1>4, <1>5 DEF StatusRecords
<1>7. Cardinality(ReadyPods) \in Int /\ Cardinality(AvailablePods) \in Int
      /\ status.ready \in Int /\ status.available \in Int
  BY <1>1, <1>5 DEF StatusRecords
<1> QED
  BY <1>1, <1>2, <1>6, <1>7, ObservedKeeps DEF StatusOK

LEMMA DeadlineKeeps ==
    ASSUME KInv, DeadlinePasses
    PROVE  KInv'
<1>1. StatusOK /\ status \in StatusRecords
  BY DEF KInv, StatusOK
<1>2. /\ UNCHANGED <<pods, kind, spec, asked, gate, held, gaveUp>> /\ status' = [status EXCEPT !.rollout = "exceeded"]
      /\ 0 \in PodIds
  BY DEF DeadlinePasses, Cluster
<1>3. /\ status' \in StatusRecords /\ status'.job = status.job /\ status'.failures = status.failures
      /\ status'.ready = status.ready /\ status'.available = status.available /\ status'.rollout = "exceeded"
      /\ status'.endpoints = status.endpoints /\ status'.disruptions = status.disruptions
      /\ status'.logged = status.logged
  BY <1>1, <1>2 DEF StatusRecords
<1>4. status.ready \in Int /\ status.available \in Int
  BY <1>1 DEF StatusRecords
<1> QED
  BY <1>1, <1>2, <1>3, <1>4, ObservedKeeps DEF StatusOK

\* The addresses of a Service that selects its pods, each as ready as its pod.
LEMMA EndpointsKeeps ==
    ASSUME KInv, EndpointsObserve
    PROVE  KInv'
<1>1. AppliedOK /\ PodsOK /\ StatusOK /\ status \in StatusRecords
  BY DEF KInv, StatusOK
<1> DEFINE eps == IF Bundle.service = "own"
                  THEN {<<p, pods[p].ready>> : p \in {q \in PodIds : pods[q].st \notin {"new", "placed"}}}
                  ELSE {}
<1>2. /\ UNCHANGED <<pods, kind, spec, asked, gate, held, gaveUp>>
      /\ status' = [status EXCEPT !.slices = "written", !.endpoints = eps]
  BY DEF EndpointsObserve, Cluster
<1>3. \A p \in PodIds : p \in 0 .. MaxReplicas /\ pods[p].ready \in BOOLEAN
  BY <1>1, Counted DEF PodsOK, PodRecords
<1>4. eps \in SUBSET ((0 .. MaxReplicas) \X BOOLEAN) /\ (eps # {} => Bundle.service = "own")
  BY <1>3
<1>5. \A e \in eps : e[2] => Bundle.probe # "false"
  <2> SUFFICES ASSUME NEW e \in eps, e[2] PROVE Bundle.probe # "false"
    OBVIOUS
  <2>1. PICK p \in PodIds : e = <<p, pods[p].ready>> /\ Bundle.service = "own"
    <3>1. Bundle.service = "own"
      OBVIOUS
    <3>2. e \in {<<p, pods[p].ready>> : p \in {q \in PodIds : pods[q].st \notin {"new", "placed"}}}
      BY <3>1
    <3> QED
      BY <3>1, <3>2
  <2>2. kind # "RolloutStuck"
    BY <2>1, <1>1, BundleFacts
  <2>3. p \in Old /\ p # 0
    BY <2>2, <1>1, SpecFacts DEF PodsOK, Old
  <2>4. PodOf(p) = Bundle
    BY <2>3, <1>1, PodFacts
  <2>5. pods[p].ready
    BY <2>1
  <2> QED
    BY <2>4, <2>5, <1>1 DEF PodsOK, RecordOK
<1> HIDE DEF eps
<1>6. /\ status' \in StatusRecords /\ status'.job = status.job /\ status'.failures = status.failures
      /\ status'.ready = status.ready /\ status'.available = status.available /\ status'.rollout = status.rollout
      /\ status'.endpoints = eps /\ status'.disruptions = status.disruptions /\ status'.logged = status.logged
  BY <1>1, <1>2, <1>4 DEF StatusRecords
<1>7. status.ready \in Int /\ status.available \in Int
  BY <1>1 DEF StatusRecords
<1> QED
  BY <1>1, <1>2, <1>4, <1>5, <1>6, <1>7, ObservedKeeps DEF StatusOK

\* A budget that asks for every pod leaves none to spare.
LEMMA DisruptionKeeps ==
    ASSUME KInv, DisruptionObserves
    PROVE  KInv'
<1>1. AppliedOK /\ PodsOK /\ StatusOK /\ status \in StatusRecords
  BY DEF KInv, StatusOK
<1> DEFINE spare == Cardinality(ReadyPods) - Bundle.min
           room == IF spare > 0 THEN spare ELSE 0
<1>2. /\ UNCHANGED <<pods, kind, spec, asked, gate, held, gaveUp>> /\ Bundle.min > 0
      /\ status' = [status EXCEPT !.disruptions = room]
  BY DEF DisruptionObserves, Cluster
<1>3. kind = "PDBGridlock" /\ Bundle.min = spec.min /\ spec.min \in Int /\ MaxReplicas \in Nat
  BY <1>1, <1>2, BundleFacts, SpecFacts
<1>4. Cardinality(ReadyPods) <= spec.min /\ Cardinality(ReadyPods) \in Int
  BY <1>1, <1>3, Counted
<1>5. room = 0
  BY <1>3, <1>4
<1> HIDE DEF room
<1>6. /\ status' \in StatusRecords /\ status'.job = status.job /\ status'.failures = status.failures
      /\ status'.ready = status.ready /\ status'.available = status.available /\ status'.rollout = status.rollout
      /\ status'.endpoints = status.endpoints /\ status'.disruptions = 0 /\ status'.logged = status.logged
  BY <1>1, <1>2, <1>3, <1>5 DEF StatusRecords
<1>7. status.ready \in Int /\ status.available \in Int
  BY <1>1 DEF StatusRecords
<1> QED
  BY <1>1, <1>2, <1>3, <1>6, <1>7, ObservedKeeps DEF StatusOK

\* The broken revision comes on top of an old one that is ready to the last pod.
LEMMA RolloutKeeps ==
    ASSUME KInv, wedgeRollout
    PROVE  KInv'
<1>1. AppliedOK /\ PodsOK /\ StatusOK /\ GateOK /\ status \in StatusRecords
  BY DEF KInv, StatusOK
<1>2. /\ UNCHANGED <<kind, spec, asked, gate, held, gaveUp>>
      /\ Bundle.revisions = 2 /\ 0 \notin PodIds /\ status.available >= spec.replicas
      /\ pods' = [p \in PodIds \cup {0} |-> IF p = 0 THEN NoPod ELSE pods[p]]
      /\ status' = [status EXCEPT !.rollout = "progressing"]
  BY DEF wedgeRollout, Cluster
<1>3. Bundle' = Bundle /\ Old' = Old /\ (Serving' <=> Serving) /\ \A q : PodOf(q)' = PodOf(q)
  BY <1>2, Framed
<1>4. kind = "RolloutStuck" /\ Serving /\ PodIds = Old
  BY <1>1, <1>2, BundleFacts DEF Serving, PodsOK
<1>5. \A p \in Old : pods[p].ready
  <2>1. status.available <= Cardinality(AvailablePods) /\ Cardinality(AvailablePods) \in 0 .. spec.replicas
        /\ status.available \in Int /\ spec.replicas \in Int
    BY <1>1, <1>4, Counted, SpecFacts DEF StatusOK, StatusRecords
  <2>2. AvailablePods = Old
    BY <2>1, <1>1, <1>2, Counted
  <2> QED
    BY <2>2 DEF AvailablePods, ReadyPods
<1>6. /\ PodIds' = PodIds \cup {0} /\ pods' \in [PodIds' -> PodRecords]
      /\ pods'[0] = NoPod /\ \A p \in PodIds : pods'[p] = pods[p]
  <2>1. NoPod \in PodRecords
    BY DEF NoPod, PodRecords, States, KubeStateCrashLoopRestarts
  <2>2. \A p \in PodIds : pods[p] \in PodRecords
    BY <1>1 DEF PodsOK
  <2> QED
    BY <1>2, <2>1, <2>2 DEF PodIds
<1>7. PodsOK'
  <2>1. RecordOK(NoPod, PodOf(0))
    BY DEF RecordOK, NoPod
  <2>2. \A q \in PodIds : RecordOK(pods'[q], PodOf(q)')
    BY <1>1, <1>3, <1>6 DEF PodsOK
  <2>3. \A q \in PodIds' : RecordOK(pods[q], PodOf(q))'
    BY <2>1, <2>2, <1>3, <1>6 DEF RecordOK
  <2> QED
    BY <1>2, <1>3, <1>4, <1>6, <2>3 DEF PodsOK
<1>8. ReadyPods' = ReadyPods /\ AvailablePods' = AvailablePods
  <2>1. ~ NoPod.ready
    BY DEF NoPod
  <2>2. ReadyPods' = ReadyPods
    BY <2>1, <1>2, <1>6 DEF ReadyPods
  <2> QED
    BY <2>2, <1>3 DEF AvailablePods
<1>9. /\ status' \in StatusRecords /\ status'.job = status.job /\ status'.failures = status.failures
      /\ status'.ready = status.ready /\ status'.available = status.available /\ status'.rollout = "progressing"
      /\ status'.endpoints = status.endpoints /\ status'.disruptions = status.disruptions
      /\ status'.logged = status.logged
  BY <1>1, <1>2 DEF StatusRecords
<1>10. status.rollout = "none"
  BY <1>1, <1>2 DEF StatusOK
<1>11. \A p \in Old : pods'[p].ready
  BY <1>4, <1>5, <1>6
<1>12. StatusOK'
  BY <1>1, <1>2, <1>3, <1>4, <1>6, <1>8, <1>9, <1>11 DEF StatusOK
<1>13. KindMoves
  <2>1. \A q \in PodIds : pods[q].restarts \in Int
    BY <1>1 DEF PodsOK, PodRecords, KubeStateCrashLoopRestarts
  <2>2. status.ready \in Int /\ status.available \in Int
    BY <1>1 DEF StatusRecords
  <2> QED
    BY <1>2, <1>6, <1>8, <1>9, <1>10, <2>1, <2>2 DEF KindMoves
<1> QED
  BY <1>1, <1>7, <1>12, <1>13, GateKept

\* An assertion that is seen leaves its trace.
LEMMA SeenStays ==
    ASSUME KInv, NEW what, Sees(what)
    PROVE  Stays(what)
<1>1. AppliedOK /\ PodsOK /\ StatusOK
  BY DEF KInv
<1>2. what = "ImagePullBackOff" => kind = "ImageUnresolvable"
  <2> SUFFICES ASSUME what = "ImagePullBackOff" PROVE kind = "ImageUnresolvable"
    OBVIOUS
  <2>1. PICK p \in PodIds : pods[p].st = "pullfailed"
    BY DEF Sees
  <2>2. PodOf(p).run = "nopull"
    BY <2>1, <1>1 DEF PodsOK, RecordOK
  <2>3. kind # "RolloutStuck"
    BY <2>2, PodTypes
  <2>4. p \in Old /\ p # 0
    BY <2>3, <1>1, SpecFacts DEF PodsOK, Old
  <2>5. PodOf(p) = Bundle
    BY <2>4, <1>1, PodFacts
  <2> QED
    BY <2>2, <2>5, <1>1, BundleFacts
<1>3. what \in {"Error", "OOMKilled"} => \E p \in PodIds : pods[p].last = what
  BY DEF Sees
<1>4. what = "restarts" =>
         /\ kind # "RolloutStuck"
         /\ \E p \in PodIds : pods[p].restarts >= KubeStateCrashLoopRestarts
  <2> SUFFICES ASSUME what = "restarts"
               PROVE  /\ kind # "RolloutStuck"
                      /\ \E p \in PodIds : pods[p].restarts >= KubeStateCrashLoopRestarts
    OBVIOUS
  <2>1. Started # {} /\ \A p \in Started : pods[p].restarts >= KubeStateCrashLoopRestarts
    BY DEF Sees
  <2>2. PICK p \in Started : pods[p].restarts >= KubeStateCrashLoopRestarts
    BY <2>1
  <2>3. p \in PodIds
    BY DEF Started
  <2>4. ASSUME kind = "RolloutStuck"
        PROVE  FALSE
    <3>1. \A q \in PodIds : q # 0 => pods[q].restarts = 0
      <4> SUFFICES ASSUME NEW q \in PodIds, q # 0 PROVE pods[q].restarts = 0
        OBVIOUS
      <4>1. PodOf(q).run = "serve"
        BY <2>4, <1>1, PodFacts, BundleFacts
      <4>2. RecordOK(pods[q], PodOf(q)) /\ pods[q].restarts \in Nat
        BY <1>1 DEF PodsOK, PodRecords, KubeStateCrashLoopRestarts
      <4> QED
        BY <4>1, <4>2 DEF RecordOK
    <3>2. p = 0
      BY <3>1, <2>2, <2>3 DEF KubeStateCrashLoopRestarts
    <3>3. 1 \in Old
      BY <1>1, SpecFacts DEF Old
    <3>4. 1 \in PodIds /\ pods[1].ready
      BY <3>2, <3>3, <2>3, <1>1 DEF PodsOK, StatusOK
    <3>5. 1 \in Started
      BY <3>4, <1>1 DEF Started, PodsOK, RecordOK
    <3> QED
      BY <3>1, <3>4, <3>5, <2>1 DEF KubeStateCrashLoopRestarts
  <2> QED
    BY <2>2, <2>3, <2>4
<1>5. what = "Unschedulable" => kind \in {"Unschedulable", "UnboundClaim"}
  <2> SUFFICES ASSUME what = "Unschedulable" PROVE kind \in {"Unschedulable", "UnboundClaim"}
    OBVIOUS
  <2>1. PICK p \in PodIds : pods[p].st = "unscheduled"
    BY DEF Sees
  <2>2. ~ (PodOf(p).fits /\ ~ PodOf(p).claim)
    BY <2>1, <1>1 DEF PodsOK, RecordOK
  <2> QED
    BY <2>2, <1>1, PodTypes, BundleFacts
<1>6. what = "ready" => (Serving => ReadyPods # {})
  BY DEF Sees
<1>7. what = "rolledOut" => (Serving => status.ready = spec.replicas)
  <2> SUFFICES ASSUME what = "rolledOut", Serving PROVE status.ready = spec.replicas
    OBVIOUS
  <2>3. status.ready \in Int /\ spec.replicas \in Int
    BY <1>1, SpecFacts DEF StatusOK, StatusRecords
  <2>1. Sees("rolledOut") => status.ready > 0 /\ status.ready >= spec.replicas
    BY DEF Sees
  <2>4. AvailablePods = ReadyPods /\ Cardinality(AvailablePods) \in 0 .. spec.replicas
    BY <1>1, Counted
  <2>2. status.ready <= Cardinality(AvailablePods) /\ Cardinality(AvailablePods) \in 0 .. spec.replicas
    BY <1>1, <2>4 DEF StatusOK
  <2> QED
    BY <2>1, <2>2, <2>3
<1>8. what = "endpointsNotReady" => Bundle.service = "own"
  <2> SUFFICES ASSUME what = "endpointsNotReady" PROVE Bundle.service = "own"
    OBVIOUS
  <2>1. \E e \in status.endpoints : ~ e[2]
    BY DEF Sees
  <2> QED
    BY <2>1, <1>1 DEF StatusOK
<1>9. what = "noDisruption" => kind = "PDBGridlock" /\ status.disruptions = 0
  BY <1>1 DEF Sees, StatusOK
<1>10. /\ what = "BackoffLimitExceeded" => status.job
       /\ what = "claimPending" => Bundle.claim
       /\ what = "logLine" => status.logged /\ kind = "DependencyStall"
  BY DEF Sees
<1>11. /\ what = "deadlineExceeded" => status.rollout = "exceeded"
       /\ what = "serving" => status.available = spec.replicas
       /\ what = "certificate" => Bundle.secret
  BY DEF Sees
<1> QED
  BY <1>2, <1>3, <1>4, <1>5, <1>6, <1>7, <1>8, <1>9, <1>10, <1>11 DEF Stays

LEMMA FourOf ==
    ASSUME NEW a, NEW b, NEW c, NEW d
    PROVE  LET G == <<a, b, c>> \o <<d>> IN
           /\ Len(G) = 4 /\ G[1] = a /\ G[2] = b /\ G[3] = c /\ G[4] = d
<1> DEFINE X == {a, b, c, d}
<1>1. <<a, b, c>> \in Seq(X) /\ <<d>> \in Seq(X) /\ Len(<<a, b, c>>) = 3 /\ Len(<<d>>) = 1
  OBVIOUS
<1>2. Len(<<a, b, c>> \o <<d>>) = 4
  BY <1>1
<1>3. /\ (<<a, b, c>> \o <<d>>)[1] = <<a, b, c>>[1] /\ (<<a, b, c>> \o <<d>>)[2] = <<a, b, c>>[2]
      /\ (<<a, b, c>> \o <<d>>)[3] = <<a, b, c>>[3] /\ (<<a, b, c>> \o <<d>>)[4] = <<d>>[1]
  BY <1>1
<1> QED
  BY <1>2, <1>3

\* The assertions of each gate that say most.
LEMMA GateFacts ==
    ASSUME NEW k \in Kinds, NEW s
    PROVE  LET G == kubeStateGates(k, s) IN
           /\ Len(G) \in 1 .. 4
           /\ k = "ImageUnresolvable" => G[1].what = "ImagePullBackOff" /\ Len(G) >= 1
           /\ k = "ContainerExitLoop" => G[1].what = "Error" /\ G[2].what = "restarts" /\ Len(G) >= 2
           /\ k = "MemoryLimitSqueeze" => G[1].what = "OOMKilled" /\ Len(G) >= 1
           /\ k = "Unschedulable" => G[1].what = "Unschedulable" /\ Len(G) >= 1
           /\ k = "JobFailure" => G[1].what = "BackoffLimitExceeded" /\ Len(G) >= 1
           /\ k = "SelectorDrift" => G[1].what = "ready" /\ Len(G) >= 1
           /\ k = "BackendCrashLoop" =>
                G[1].what = "Error" /\ G[2].what = "restarts" /\ G[4].what = "endpointsNotReady" /\ Len(G) >= 4
           /\ k = "UnboundClaim" => G[1].what = "claimPending" /\ Len(G) >= 1
           /\ k = "DependencyStall" => G[2].what = "rolledOut" /\ G[4].what = "logLine" /\ Len(G) >= 4
           /\ k = "PDBGridlock" => G[2].what = "rolledOut" /\ G[3].what = "noDisruption" /\ Len(G) >= 3
           /\ k = "RolloutStuck" => G[1].what = "deadlineExceeded" /\ G[2].what = "serving" /\ Len(G) >= 2
           /\ k = "CertExpiry" => G[2].what = "rolledOut" /\ G[3].what = "certificate" /\ Len(G) >= 3
           /\ k = "NoOp" => G[2].what = "rolledOut" /\ Len(G) >= 2
<1> USE DEF kubeStateGates, Check, workloadReadyGate, workloadRolledOutGate
<1>1. CASE k = "ImageUnresolvable"
  BY <1>1
<1>2. CASE k = "MemoryLimitSqueeze"
  BY <1>2 DEF memoryLimitSqueezeGates
<1>13. CASE k = "JobFailure"
  BY <1>13
<1>3. CASE k = "ContainerExitLoop"
  BY <1>3 DEF crashLoopGates
<1>4. CASE k = "Unschedulable"
  BY <1>4 DEF unschedulableGate
<1>5. CASE k = "SelectorDrift"
  BY <1>5 DEF selectorDriftGates
<1>6. CASE k = "BackendCrashLoop"
  <2> DEFINE B == backendCrashLoopGates
  <2>1. Len(B) = 4 /\ B[1] = Check("Error", 90) /\ B[2] = Check("restarts", 300) /\ B[4] = Check("endpointsNotReady", 90)
    BY FourOf DEF backendCrashLoopGates, crashLoopGates
  <2>2. kubeStateGates(k, s) = B
    BY <1>6
  <2> HIDE DEF B
  <2> QED
    BY <1>6, <2>1, <2>2
<1>7. CASE k = "UnboundClaim"
  BY <1>7 DEF unboundClaimGates
<1>8. CASE k = "DependencyStall"
  BY <1>8 DEF dependencyStallGates
<1>9. CASE k = "PDBGridlock"
  BY <1>9 DEF pdbGridlockGates
<1>10. CASE k = "RolloutStuck"
  BY <1>10 DEF rolloutStuckGates
<1>11. CASE k = "CertExpiry"
  BY <1>11 DEF certExpiryGates
<1>12. CASE k = "NoOp"
  BY <1>12 DEF noOpGates
<1> QED
  BY <1>1, <1>2, <1>3, <1>4, <1>5, <1>6, <1>7, <1>8, <1>9, <1>10, <1>11, <1>12, <1>13, ZenonT(40) DEF Kinds

LEMMA PollKeeps ==
    ASSUME KInv, Poll
    PROVE  KInv'
<1>1. AppliedOK /\ PodsOK /\ StatusOK /\ GateOK
  BY DEF KInv
<1> DEFINE seen == Sees(Gates[gate].what)
           need == IF Gates[gate].dwell > 0 THEN DwellPolls ELSE 1
<1>2. /\ UNCHANGED <<kind, spec, asked, pods, status, gaveUp>> /\ gate <= Len(Gates)
      /\ held' = IF seen /\ held + 1 < need THEN held + 1 ELSE 0
      /\ gate' = IF seen /\ held + 1 >= need THEN gate + 1 ELSE gate
  <2>1. Len(Gates) \in 1 .. 4
    BY <1>1, GateFacts DEF AppliedOK, Gates
  <2> QED
    BY <1>1, <2>1 DEF Poll, Passed, GateOK
<1>3. need \in {1, 2} /\ held \in Nat /\ gate \in Nat /\ Len(Gates) \in 1 .. 4 /\ held \in 0 .. DwellPolls
  <2>1. Len(Gates) \in 1 .. 4
    BY <1>1, GateFacts DEF AppliedOK, Gates
  <2> QED
    BY <1>1, <2>1 DEF GateOK, DwellPolls
<1>4. \A w : Stays(w)' <=> Stays(w)
  BY <1>2 DEF Stays, PodIds, Serving, Bundle, ReadyPods
<1>5. Gates' = Gates
  BY <1>2 DEF Gates
<1>6. AppliedOK' /\ PodsOK' /\ StatusOK'
  <2>1. AppliedOK'
    BY <1>1, <1>2 DEF AppliedOK
  <2>2. PodsOK'
    BY <1>1, <1>2 DEF PodsOK, PodIds, Old, PodOf, Bundle
  <2>3. StatusOK'
    BY <1>1, <1>2 DEF StatusOK, PodIds, Old, PodOf, Bundle, Serving, ReadyPods, AvailablePods
  <2> QED
    BY <2>1, <2>2, <2>3
<1>7. seen => Stays(Gates[gate].what)
  BY SeenStays
<1> HIDE DEF seen, need
<1>8. held' \in 0 .. DwellPolls /\ gate' \in 1 .. Len(Gates) + 1 /\ gate' \in {gate, gate + 1}
      /\ (gate' = gate + 1 => seen)
  BY <1>1, <1>2, <1>3 DEF GateOK, DwellPolls
<1>9. PICK m : m = gate'
  OBVIOUS
<1>11. m \in Int /\ gate \in Int /\ (m = gate \/ (m = gate + 1 /\ seen))
  BY <1>3, <1>8, <1>9
<1>12. \A i \in 1 .. m - 1 : Stays(Gates[i].what)
  <2> SUFFICES ASSUME NEW i \in 1 .. m - 1 PROVE Stays(Gates[i].what)
    OBVIOUS
  <2>1. CASE i \in 1 .. gate - 1
    BY <2>1, <1>1 DEF GateOK
  <2>2. CASE i \notin 1 .. gate - 1
    <3>1. i = gate /\ m = gate + 1
      BY <2>2, <1>11
    <3> QED
      BY <3>1, <1>7, <1>11
  <2> QED
    BY <2>1, <2>2
<1>10. GateOK'
  <2>1. gaveUp' \in BOOLEAN
    BY <1>1, <1>2 DEF GateOK
  <2> QED
    BY <1>4, <1>5, <1>8, <1>9, <1>12, <2>1 DEF GateOK
<1> QED
  BY <1>6, <1>10 DEF KInv

LEMMA GivesUpKeeps ==
    ASSUME KInv, GivesUp
    PROVE  KInv'
<1>1. UNCHANGED <<kind, spec, asked, pods, status, gate, held>> /\ gaveUp' = TRUE
  BY DEF GivesUp
<1>2. (AppliedOK /\ PodsOK /\ StatusOK)'
  BY <1>1 DEF KInv, AppliedOK, PodsOK, StatusOK, Bundle, Old, PodIds, PodOf, Serving, ReadyPods, AvailablePods
<1>3. GateOK'
  BY <1>1 DEF KInv, GateOK, Stays, Gates, Bundle, PodIds, Serving, ReadyPods
<1> QED
  BY <1>2, <1>3 DEF KInv

LEMMA KindsBegin == KInit => KInv
<1> SUFFICES ASSUME KInit PROVE KInv
  OBVIOUS
<1>1. AppliedOK
  BY KindsAssumption DEF KInit, AppliedOK
<1>2. /\ pods = [p \in Old |-> NoPod] /\ PodIds = Old
      /\ status = [ready |-> 0, available |-> 0, rollout |-> "none", slices |-> "none", endpoints |-> {},
                   disruptions |-> -1, job |-> FALSE, failures |-> 0, logged |-> FALSE]
      /\ gate = 1 /\ held = 0 /\ gaveUp = FALSE
  BY DEF KInit, Old, PodIds
<1>3. PodsOK
  <2>1. NoPod \in PodRecords
    BY DEF NoPod, PodRecords, States, KubeStateCrashLoopRestarts
  <2>2. \A b : RecordOK(NoPod, b)
    BY DEF RecordOK, NoPod
  <2> QED
    BY <1>2, <2>1, <2>2 DEF PodsOK
<1>4. 0 \notin PodIds /\ ReadyPods = {} /\ AvailablePods = {} /\ spec.backoff \in Nat /\ MaxReplicas \in Nat
      /\ (kind = "JobFailure" => 1 \in Old)
  BY <1>1, <1>2, SpecFacts DEF Old, ReadyPods, AvailablePods, NoPod, maxBackoffLimit
<1>5. StatusOK
  <2>1. status \in StatusRecords
    <3>1. 0 \in 0 .. MaxReplicas + 1 /\ -1 \in -1 .. MaxReplicas /\ 0 \in 0 .. maxBackoffLimit + 1
      BY <1>4 DEF maxBackoffLimit
    <3> QED
      BY <1>2, <3>1 DEF StatusRecords
  <2>2. Cardinality(ReadyPods) = 0 /\ Cardinality(AvailablePods) = 0
    BY <1>4, FS_EmptySet
  <2>3. kind = "JobFailure" => pods[1].st = "new"
    BY <1>2, <1>4 DEF NoPod
  <2> QED
    BY <1>2, <1>4, <2>1, <2>2, <2>3 DEF StatusOK
<1>6. GateOK
  <2>1. Len(Gates) \in 1 .. 4
    BY <1>1, GateFacts DEF AppliedOK, Gates
  <2>2. PICK n : n = Len(Gates)
    OBVIOUS
  <2>3. 1 \in 1 .. n + 1 /\ 0 \in 0 .. DwellPolls /\ 1 .. (1 - 1) = {}
    BY <2>1, <2>2 DEF DwellPolls
  <2>4. gaveUp \in BOOLEAN
    BY <1>2
  <2> QED
    BY <1>2, <2>2, <2>3, <2>4 DEF GateOK
<1> QED
  BY <1>1, <1>3, <1>5, <1>6 DEF KInv

LEMMA KindsStutter == KInv /\ UNCHANGED kvars => KInv'
BY DEF KInv, AppliedOK, PodsOK, StatusOK, GateOK, Stays, Gates, Bundle, Old, PodIds, PodOf, Serving,
       ReadyPods, AvailablePods, kvars

LEMMA KindsStep == KInv /\ KNext => KInv'
<1> SUFFICES ASSUME KInv, KNext PROVE KInv'
  OBVIOUS
<1>1. CASE \E p \in PodIds : PodMoves(p) \/ WritesLog(p)
  <2> PICK p \in PodIds : PodMoves(p) \/ WritesLog(p)
    BY <1>1
  <2> QED
    BY ScheduleKeeps, StartKeeps, BecomesReadyKeeps, ExitsKeeps, BacksOffKeeps, RestartsKeeps, JobPodFailsKeeps,
       WritesLogKeeps DEF PodMoves
<1>2. CASE DeploymentObserves \/ wedgeRollout \/ DeadlinePasses \/ EndpointsObserve \/ DisruptionObserves
  BY <1>2, DeploymentKeeps, RolloutKeeps, DeadlineKeeps, EndpointsKeeps, DisruptionKeeps
<1>3. CASE Poll
  BY <1>3, PollKeeps
<1>4. CASE GivesUp
  BY <1>4, GivesUpKeeps
<1> QED
  BY <1>1, <1>2, <1>3, <1>4 DEF KNext, ClusterStep

(***************************************************************************)
(* What the invariant says once the gate has passed.                       *)
(***************************************************************************)
LEMMA KindsTyped == KInv => KTypeOK
<1> SUFFICES ASSUME KInv PROVE KTypeOK
  OBVIOUS
<1>1. AppliedOK /\ PodsOK /\ StatusOK /\ GateOK
  BY DEF KInv
<1>2. gate \in 1 .. 5
  <2>1. Len(Gates) \in 1 .. 4
    BY <1>1, GateFacts DEF AppliedOK, Gates
  <2>2. PICK n : n = Len(Gates)
    OBVIOUS
  <2>3. gate \in 1 .. n + 1
    BY <1>1, <2>2 DEF GateOK
  <2>4. n \in 1 .. 4
    BY <2>1, <2>2
  <2> QED
    BY <2>3, <2>4
<1>3. PodIds \subseteq 0 .. MaxReplicas
  BY <1>1, Counted
<1>4. \A p \in PodIds : pods[p].ready => pods[p].st = "running"
  BY <1>1 DEF PodsOK, RecordOK
<1> QED
  BY <1>1, <1>2, <1>3, <1>4 DEF KTypeOK, AppliedOK, PodsOK, StatusOK, GateOK, PodRecords, StatusRecords

\* Every assertion of a passed gate has left its trace.
LEMMA AllSeen ==
    ASSUME KInv, Passed, NEW i \in 1 .. Len(Gates)
    PROVE  Stays(Gates[i].what)
<1>1. Len(Gates) \in 1 .. 4
  BY GateFacts DEF KInv, AppliedOK, Gates
<1> QED
  BY <1>1 DEF KInv, GateOK, Passed

LEMMA ToldApartHolds == KInv => ToldApart
<1> SUFFICES ASSUME KInv, asked \notin {kind, "NoOp", "SelectorDrift"}, Passed PROVE kind \in Includes(asked)
  BY DEF ToldApart
<1>1. AppliedOK /\ PodsOK /\ StatusOK
  BY DEF KInv
<1>2. /\ Len(Gates) \in 1 .. 4
      /\ asked \in Kinds /\ kind \in Kinds
      /\ Gates = kubeStateGates(asked, spec)
  BY <1>1, GateFacts DEF AppliedOK, Gates
<1>3. ASSUME NEW i \in 1 .. Len(Gates), Gates[i].what = "Error"
      PROVE  kind \in {"ContainerExitLoop", "BackendCrashLoop", "RolloutStuck"}
  <2>1. PICK p \in PodIds : pods[p].last = "Error"
    BY <1>3, AllSeen DEF Stays
  <2>2. PodOf(p).run = "exit"
    BY <2>1, <1>1 DEF PodsOK, RecordOK
  <2>3. CASE p = 0
    BY <2>3, <1>1, SpecFacts DEF PodsOK, Old
  <2>4. CASE p # 0
    <3>1. Bundle.run = "exit"
      BY <2>4, <2>2, <1>1, PodFacts
    <3> QED
      BY <3>1, <1>1, BundleFacts
  <2> QED
    BY <2>3, <2>4
<1>4. ASSUME NEW i \in 1 .. Len(Gates), Gates[i].what = "restarts"
      PROVE  kind # "RolloutStuck"
  BY <1>4, AllSeen DEF Stays
<1>5. CASE asked \in {"ContainerExitLoop", "BackendCrashLoop"}
  <2>1. Gates[1].what = "Error" /\ Gates[2].what = "restarts" /\ 1 \in 1 .. Len(Gates) /\ 2 \in 1 .. Len(Gates)
    BY <1>2, <1>5, GateFacts
  <2>2. kind \in {"ContainerExitLoop", "BackendCrashLoop"}
    BY <2>1, <1>3, <1>4
  <2>3. asked # "BackendCrashLoop"
    <3> SUFFICES ASSUME asked = "BackendCrashLoop" PROVE FALSE
      OBVIOUS
    <3>1. Gates[4].what = "endpointsNotReady" /\ 4 \in 1 .. Len(Gates)
      BY <1>2, GateFacts
    <3>2. Bundle.service = "own"
      BY <3>1, AllSeen DEF Stays
    <3> QED
      BY <3>2, <2>2, <1>1, BundleFacts
  <2> QED
    BY <2>2, <2>3, <1>5 DEF Includes
<1>6. CASE asked = "MemoryLimitSqueeze"
  <2>1. Gates[1].what = "OOMKilled" /\ 1 \in 1 .. Len(Gates)
    BY <1>2, <1>6, GateFacts
  <2>2. PICK p \in PodIds : pods[p].last = "OOMKilled"
    BY <2>1, AllSeen DEF Stays
  <2>3. PodOf(p).run = "hog"
    BY <2>2, <1>1 DEF PodsOK, RecordOK
  <2>4. p # 0
    BY <2>3, <1>1, PodFacts, SpecFacts DEF PodsOK, Old
  <2>5. Bundle.run = "hog"
    BY <2>3, <2>4, <1>1, PodFacts
  <2> QED
    BY <2>5, <1>1, <1>6, BundleFacts
<1>7. CASE asked \in {"ImageUnresolvable", "Unschedulable", "JobFailure", "UnboundClaim"}
  <2>1. /\ 1 \in 1 .. Len(Gates)
        /\ asked = "ImageUnresolvable" => Gates[1].what = "ImagePullBackOff"
        /\ asked = "Unschedulable" => Gates[1].what = "Unschedulable"
        /\ asked = "JobFailure" => Gates[1].what = "BackoffLimitExceeded"
        /\ asked = "UnboundClaim" => Gates[1].what = "claimPending"
    BY <1>2, <1>7, GateFacts
  <2>2. Stays(Gates[1].what)
    BY <2>1, AllSeen
  <2>3. /\ asked = "ImageUnresolvable" => kind = "ImageUnresolvable"
        /\ asked = "Unschedulable" => kind \in {"Unschedulable", "UnboundClaim"}
        /\ asked = "JobFailure" => kind = "JobFailure"
        /\ asked = "UnboundClaim" => kind = "UnboundClaim"
    BY <2>1, <2>2, <1>1, BundleFacts DEF Stays, StatusOK
  <2> QED
    BY <2>3, <1>7 DEF Includes
<1>8. CASE asked \in {"DependencyStall", "PDBGridlock", "RolloutStuck", "CertExpiry"}
  <2>1. /\ asked = "DependencyStall" => Gates[4].what = "logLine" /\ 4 \in 1 .. Len(Gates)
        /\ asked = "PDBGridlock" => Gates[3].what = "noDisruption" /\ 3 \in 1 .. Len(Gates)
        /\ asked = "RolloutStuck" => Gates[1].what = "deadlineExceeded" /\ 1 \in 1 .. Len(Gates)
        /\ asked = "CertExpiry" => Gates[3].what = "certificate" /\ 3 \in 1 .. Len(Gates)
    BY <1>2, <1>8, GateFacts
  <2>2. /\ asked = "DependencyStall" => Stays("logLine")
        /\ asked = "PDBGridlock" => Stays("noDisruption")
        /\ asked = "RolloutStuck" => Stays("deadlineExceeded")
        /\ asked = "CertExpiry" => Stays("certificate")
    BY <2>1, AllSeen
  <2>3. 0 \in PodIds => kind = "RolloutStuck"
    BY <1>1, SpecFacts DEF PodsOK, Old
  <2>4. /\ asked = "DependencyStall" => kind = "DependencyStall"
        /\ asked = "PDBGridlock" => kind = "PDBGridlock"
        /\ asked = "RolloutStuck" => kind = "RolloutStuck"
        /\ asked = "CertExpiry" => kind = "CertExpiry"
    BY <2>2, <2>3, <1>1, BundleFacts DEF Stays, StatusOK
  <2> QED
    BY <2>4, <1>8
<1> QED
  BY <1>2, <1>5, <1>6, <1>7, <1>8 DEF Kinds

LEMMA HandOverHolds == KInv => HandOver
<1> SUFFICES ASSUME KInv, asked = kind, Passed PROVE Symptom(kind)
  BY DEF HandOver
<1>1. AppliedOK /\ PodsOK /\ StatusOK
  BY DEF KInv
<1>2. /\ Len(Gates) \in 1 .. 4
      /\ kind \in Kinds
      /\ Gates = kubeStateGates(kind, spec)
  BY <1>1, GateFacts DEF AppliedOK, Gates
<1>3. /\ kind \in {"ContainerExitLoop", "BackendCrashLoop"} => Stays("restarts")
      /\ kind = "JobFailure" => Stays("BackoffLimitExceeded")
      /\ kind = "SelectorDrift" => Stays("ready")
      /\ kind \in {"DependencyStall", "PDBGridlock", "CertExpiry", "NoOp"} => Stays("rolledOut")
      /\ kind = "DependencyStall" => Stays("logLine")
      /\ kind = "PDBGridlock" => Stays("noDisruption")
      /\ kind = "RolloutStuck" => Stays("deadlineExceeded") /\ Stays("serving")
  <2>1. /\ kind \in {"ContainerExitLoop", "BackendCrashLoop"} => Gates[2].what = "restarts" /\ 2 \in 1 .. Len(Gates)
        /\ kind = "JobFailure" => Gates[1].what = "BackoffLimitExceeded" /\ 1 \in 1 .. Len(Gates)
        /\ kind = "SelectorDrift" => Gates[1].what = "ready" /\ 1 \in 1 .. Len(Gates)
    BY <1>2, GateFacts
  <2>2. /\ kind \in {"DependencyStall", "PDBGridlock", "CertExpiry", "NoOp"} =>
             Gates[2].what = "rolledOut" /\ 2 \in 1 .. Len(Gates)
        /\ kind = "DependencyStall" => Gates[4].what = "logLine" /\ 4 \in 1 .. Len(Gates)
        /\ kind = "PDBGridlock" => Gates[3].what = "noDisruption" /\ 3 \in 1 .. Len(Gates)
        /\ kind = "RolloutStuck" => /\ Gates[1].what = "deadlineExceeded" /\ 1 \in 1 .. Len(Gates)
                                    /\ Gates[2].what = "serving" /\ 2 \in 1 .. Len(Gates)
    BY <1>2, GateFacts
  <2>3. \A i \in 1 .. Len(Gates) : Stays(Gates[i].what)
    BY AllSeen
  <2> QED
    BY <2>1, <2>2, <2>3
<1>4. ASSUME kind # "RolloutStuck"
      PROVE  /\ PodIds = Old /\ 1 \in PodIds
             /\ \A p \in PodIds : PodOf(p) = Bundle /\ pods[p] \in PodRecords /\ RecordOK(pods[p], Bundle)
  <2>1. PodIds = Old /\ 1 \in PodIds
    BY <1>1, <1>4, SpecFacts DEF PodsOK, Old
  <2>2. \A p \in PodIds : p # 0 /\ PodOf(p) = Bundle
    BY <2>1, <1>1, SpecFacts, PodFacts DEF Old
  <2> QED
    BY <2>1, <2>2, <1>1 DEF PodsOK
<1>5. ASSUME kind \in {"ContainerExitLoop", "BackendCrashLoop"}
      PROVE  Looping # {}
  <2>1. PICK p \in PodIds : pods[p].restarts >= KubeStateCrashLoopRestarts
    BY <1>3, <1>5 DEF Stays
  <2>2. Bundle.run = "exit"
    BY <1>5, <1>1, BundleFacts
  <2>3. pods[p] \in PodRecords /\ RecordOK(pods[p], Bundle)
    BY <1>4, <1>5
  <2>4. pods[p].last = "Error"
    BY <2>1, <2>2, <2>3 DEF RecordOK, PodRecords, KubeStateCrashLoopRestarts
  <2> QED
    BY <2>1, <2>4 DEF Looping
<1>6. ASSUME kind \in {"Unschedulable", "UnboundClaim", "BackendCrashLoop"}
      PROVE  ReadyPods = {}
  <2>1. \A p \in PodIds : RecordOK(pods[p], Bundle)
    BY <1>4, <1>6
  <2>2. Bundle.probe = "false" \/ ~ Bundle.fits \/ Bundle.claim
    BY <1>6, <1>1, BundleFacts
  <2> QED
    BY <2>1, <2>2 DEF ReadyPods, RecordOK
<1>7. ASSUME kind \in {"DependencyStall", "CertExpiry", "NoOp", "PDBGridlock"}
      PROVE  status.ready = spec.replicas /\ \A p \in PodIds : pods[p].restarts = 0
  <2>1. Bundle.run = "serve"
    BY <1>7, <1>1, BundleFacts
  <2>2. \A p \in PodIds : pods[p] \in PodRecords /\ RecordOK(pods[p], Bundle)
    BY <1>4, <1>7
  <2>3. \A p \in PodIds : pods[p].restarts = 0
    BY <2>1, <2>2 DEF RecordOK, PodRecords, KubeStateCrashLoopRestarts
  <2> QED
    BY <2>1, <2>3, <1>3, <1>7 DEF Stays, Serving
<1>8. CASE kind \in {"ImageUnresolvable", "MemoryLimitSqueeze"}
  <2>1. \A p \in PodIds : pods[p] \in PodRecords /\ RecordOK(pods[p], Bundle)
    BY <1>4, <1>8
  <2>2. Bundle.run = IF kind = "ImageUnresolvable" THEN "nopull" ELSE "hog"
    BY <1>1, <1>8, BundleFacts
  <2>3. kind = "ImageUnresolvable" => \A p \in PodIds : pods[p].st # "running"
    BY <2>1, <2>2 DEF RecordOK
  <2>4. kind = "MemoryLimitSqueeze" => \A p \in PodIds : pods[p].last \in {"none", "OOMKilled"}
    BY <2>1, <2>2 DEF RecordOK
  <2> QED
    BY <2>3, <2>4, <1>8 DEF Symptom
<1>9. CASE kind = "JobFailure"
  <2>1. status.job /\ pods[1].st = "done"
    BY <1>3, <1>9, <1>1 DEF Stays, StatusOK
  <2>2. PodIds = {1}
    BY <1>4, <1>9, PodTypes
  <2> QED
    BY <2>1, <2>2, <1>9 DEF Symptom
<1>10. CASE kind = "SelectorDrift"
  <2>1. Bundle.run = "serve" /\ Bundle.service # "own"
    BY <1>10, <1>1, BundleFacts
  <2> QED
    BY <2>1, <1>1, <1>3, <1>10 DEF Symptom, Stays, Serving, StatusOK
<1>11. CASE kind = "BackendCrashLoop"
  <2>1. Bundle.probe = "false"
    BY <1>11, <1>1, BundleFacts
  <2>2. \A e \in status.endpoints : ~ e[2]
    BY <2>1, <1>1 DEF StatusOK
  <2> QED
    BY <2>2, <1>5, <1>6, <1>11 DEF Symptom
<1>12. CASE kind = "PDBGridlock"
  <2>1. status.ready = spec.replicas /\ status.disruptions = 0
    BY <1>3, <1>7, <1>12 DEF Stays
  <2>2. Serving
    BY <1>12, <1>1, BundleFacts DEF Serving
  <2>3. status.ready <= Cardinality(ReadyPods) /\ Cardinality(ReadyPods) = Cardinality(AvailablePods)
        /\ Cardinality(AvailablePods) \in 0 .. spec.replicas
    BY <2>2, <1>1, Counted DEF StatusOK
  <2>4. Cardinality(ReadyPods) = spec.replicas
    BY <2>1, <2>3, <1>1, SpecFacts
  <2> QED
    BY <2>1, <2>4, <1>12 DEF Symptom
<1>13. CASE kind = "RolloutStuck"
  <2>1. Serving
    BY <1>13, <1>1, BundleFacts DEF Serving
  <2> QED
    BY <2>1, <1>3, <1>13 DEF Symptom, Stays
<1>14. CASE kind = "DependencyStall"
  <2>1. status.logged
    BY <1>3, <1>14 DEF Stays
  <2> QED
    BY <2>1, <1>7, <1>14 DEF Symptom
<1>15. CASE kind \in {"ContainerExitLoop", "Unschedulable", "UnboundClaim", "CertExpiry", "NoOp"}
  <2>1. /\ kind = "ContainerExitLoop" => Looping # {}
        /\ kind \in {"Unschedulable", "UnboundClaim"} => ReadyPods = {}
        /\ kind \in {"CertExpiry", "NoOp"} => status.ready = spec.replicas /\ \A p \in PodIds : pods[p].restarts = 0
    BY <1>5, <1>6, <1>7
  <2> QED
    BY <2>1, <1>15 DEF Symptom
<1> QED
  BY <1>2, <1>8, <1>9, <1>10, <1>11, <1>12, <1>13, <1>14, <1>15 DEF Kinds

(***************************************************************************)
(* The time a gate takes.                                                  *)
(***************************************************************************)
LEMMA SumUpTo ==
    ASSUME NEW n \in 1 .. 4, NEW F \in [1 .. n -> Nat]
    PROVE  SumFunction(F) = F[1] + (IF n >= 2 THEN F[2] ELSE 0) + (IF n >= 3 THEN F[3] ELSE 0)
                                 + (IF n >= 4 THEN F[4] ELSE 0)
<1>1. DOMAIN F = 1 .. n /\ IsFiniteSet(DOMAIN F)
  BY FS_Interval
<1>2. PICK g \in [SUBSET DOMAIN F -> Nat] :
          /\ g[{}] = 0
          /\ \A s \in SUBSET DOMAIN F : \A x \in s : g[s] = F[x] + g[s \ {x}]
          /\ SumFunction(F) = g[DOMAIN F]
  BY <1>1, SumSplits
<1> DEFINE s(k) == {i \in 1 .. n : i <= k}
<1>3. ASSUME NEW k \in 1 .. n
      PROVE  g[s(k)] = F[k] + g[s(k - 1)] /\ F[k] \in Nat /\ g[s(k)] \in Nat /\ g[s(k - 1)] \in Nat
  <2>1. s(k) \in SUBSET DOMAIN F /\ k \in s(k) /\ s(k - 1) = s(k) \ {k} /\ s(k - 1) \in SUBSET DOMAIN F
    BY <1>1
  <2> HIDE DEF s
  <2>2. g[s(k)] = F[k] + g[s(k) \ {k}]
    BY <2>1, <1>2
  <2>3. g[s(k)] \in Nat /\ g[s(k - 1)] \in Nat
    BY <2>1
  <2> QED
    BY <2>1, <2>2, <2>3
<1>4. g[s(0)] = 0 /\ SumFunction(F) = g[s(n)]
  <2>1. s(0) = {} /\ s(n) = DOMAIN F
    BY <1>1
  <2> QED
    BY <2>1, <1>2
<1> HIDE DEF s
<1>5. CASE n = 1
  BY <1>5, <1>3, <1>4
<1>6. CASE n = 2
  <2>1. g[s(2)] = F[2] + g[s(1)] /\ g[s(1)] = F[1] + g[s(0)] /\ F[1] \in Nat /\ F[2] \in Nat
    BY <1>6, <1>3
  <2> QED
    BY <1>6, <2>1, <1>4
<1>7. CASE n = 3
  <2>1. g[s(3)] = F[3] + g[s(2)] /\ g[s(2)] = F[2] + g[s(1)] /\ g[s(1)] = F[1] + g[s(0)]
        /\ F[1] \in Nat /\ F[2] \in Nat /\ F[3] \in Nat
    BY <1>7, <1>3
  <2> QED
    BY <1>7, <2>1, <1>4
<1>8. CASE n = 4
  <2>1. g[s(4)] = F[4] + g[s(3)] /\ g[s(3)] = F[3] + g[s(2)] /\ g[s(2)] = F[2] + g[s(1)] /\ g[s(1)] = F[1] + g[s(0)]
        /\ F[1] \in Nat /\ F[2] \in Nat /\ F[3] \in Nat /\ F[4] \in Nat
    BY <1>8, <1>3
  <2> QED
    BY <1>8, <2>1, <1>4
<1> QED
  BY <1>5, <1>6, <1>7, <1>8

\* The budgets and dwells of one gate.
Fits(G) ==
    /\ Len(G) \in 1 .. 4
    /\ \A i \in 1 .. Len(G) : G[i].timeout \in Nat /\ G[i].dwell < G[i].timeout
    /\ G[1].timeout + (IF Len(G) >= 2 THEN G[2].timeout ELSE 0) + (IF Len(G) >= 3 THEN G[3].timeout ELSE 0)
                    + (IF Len(G) >= 4 THEN G[4].timeout ELSE 0) <= ExecutorCeiling

LEMMA GatesFit ==
    ASSUME NEW k \in Kinds, NEW s, s.dwell \in {0, 90, 6000}
    PROVE  Fits(kubeStateGates(k, s))
<1> USE DEF kubeStateGates, Check, workloadReadyGate, workloadRolledOutGate, ExecutorCeiling
<1>1. CASE k = "ImageUnresolvable"
  BY <1>1 DEF Fits
<1>2. CASE k = "MemoryLimitSqueeze"
  BY <1>2 DEF Fits, memoryLimitSqueezeGates
<1>3. CASE k = "ContainerExitLoop"
  BY <1>3 DEF Fits, crashLoopGates, crashLoopVisibleGate
<1>4. CASE k = "Unschedulable"
  <2>1. KubeStatePendingDwell(s) \in 0 .. 600
    BY DEF KubeStatePendingDwell, PendingDwellCeiling
  <2> QED
    BY <1>4, <2>1 DEF Fits, unschedulableGate, kubeStatePendingTimeout
<1>5. CASE k = "SelectorDrift"
  BY <1>5 DEF Fits, selectorDriftGates
<1>6. CASE k = "BackendCrashLoop"
  <2> DEFINE B == backendCrashLoopGates
  <2>1. Len(B) = 4 /\ B[1] = Check("Error", 90) /\ B[2] = Check("restarts", 300) /\ B[3] = crashLoopVisibleGate
        /\ B[4] = Check("endpointsNotReady", 90)
    BY FourOf DEF backendCrashLoopGates, crashLoopGates
  <2>2. kubeStateGates(k, s) = B
    BY <1>6
  <2> HIDE DEF B
  <2>3. /\ B[1].timeout = 90 /\ B[1].dwell = 0 /\ B[2].timeout = 300 /\ B[2].dwell = 0
        /\ B[3].timeout = 180 /\ B[3].dwell = 0 /\ B[4].timeout = 90 /\ B[4].dwell = 0
    BY <2>1 DEF crashLoopVisibleGate
  <2>4. \A i \in 1 .. 4 : B[i].timeout \in Nat /\ B[i].dwell < B[i].timeout
    <3>1. \A i \in 1 .. 4 : i = 1 \/ i = 2 \/ i = 3 \/ i = 4
      OBVIOUS
    <3> QED
      BY <2>3, <3>1
  <2>5. Fits(B)
    BY <2>1, <2>3, <2>4 DEF Fits
  <2> QED
    BY <2>2, <2>5
<1>7. CASE k = "UnboundClaim"
  BY <1>7 DEF Fits, unboundClaimGates
<1>8. CASE k = "DependencyStall"
  BY <1>8 DEF Fits, dependencyStallGates
<1>9. CASE k = "PDBGridlock"
  BY <1>9 DEF Fits, pdbGridlockGates
<1>10. CASE k = "RolloutStuck"
  BY <1>10 DEF Fits, rolloutStuckGates
<1>11. CASE k = "CertExpiry"
  BY <1>11 DEF Fits, certExpiryGates
<1>12. CASE k = "NoOp"
  BY <1>12 DEF Fits, noOpGates
<1>13. CASE k = "JobFailure"
  BY <1>13 DEF Fits
<1> QED
  BY <1>1, <1>2, <1>3, <1>4, <1>5, <1>6, <1>7, <1>8, <1>9, <1>10, <1>11, <1>12, <1>13 DEF Kinds

LEMMA GateFitsHolds == KInv => GateFits
<1> SUFFICES ASSUME KInv PROVE GateFits
  OBVIOUS
<1> DEFINE G == kubeStateGates(kind, spec)
           Times == [i \in 1 .. Len(G) |-> G[i].timeout]
<1>1. Fits(G)
  BY GatesFit, SpecFacts DEF KInv, AppliedOK
<1> HIDE DEF G
<1>2. Len(G) \in 1 .. 4 /\ Times \in [1 .. Len(G) -> Nat]
  BY <1>1 DEF Fits
<1>3. SumFunction(Times) = Times[1] + (IF Len(G) >= 2 THEN Times[2] ELSE 0) + (IF Len(G) >= 3 THEN Times[3] ELSE 0)
                                    + (IF Len(G) >= 4 THEN Times[4] ELSE 0)
  BY <1>2, SumUpTo
<1>4. SumFunction(Times) <= ExecutorCeiling
  <2>1. /\ Times[1] = G[1].timeout
        /\ Len(G) >= 2 => Times[2] = G[2].timeout
        /\ Len(G) >= 3 => Times[3] = G[3].timeout
        /\ Len(G) >= 4 => Times[4] = G[4].timeout
    BY <1>2
  <2> QED
    BY <1>1, <1>3, <2>1 DEF Fits
<1>5. \A i \in 1 .. Len(G) : G[i].dwell < G[i].timeout
  BY <1>1 DEF Fits
<1> HIDE DEF Times
<1> QED
  BY <1>4, <1>5 DEF GateFits, G, Times

\* StateKinds' theorem: a gate that has passed, whatever was built, asked about and
\* interleaved with its polls, leaves the symptom of its own kind standing, never
\* mistakes one kind for another, and fits in the longest lease.
THEOREM KindsGateTells == KSpec => []GateTells
<1>1. KInv => GateTells
  BY KindsTyped, HandOverHolds, ToldApartHolds, GateFitsHolds DEF GateTells
<1>2. KInv /\ [KNext]_kvars => KInv'
  BY KindsStep, KindsStutter
<1> QED
  BY KindsBegin, <1>1, <1>2, PTL DEF KSpec
=============================================================================
