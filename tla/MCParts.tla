------------------------------ MODULE MCParts ------------------------------
(***************************************************************************)
(* Small instances, for TLC, of the parts that stand for themselves, from  *)
(* the making of an arena to the score of a scenario.  A behaviour is      *)
(* about one of the seven: the calls of Arenas, the baseline of Baselines, *)
(* the selectors of Scope, the outage of OutagePlan, the probes of Probe,  *)
(* the ring of Recents, or the runs that Scorecard scores.                 *)
(***************************************************************************)
EXTENDS Scope, OutagePlan, Probe, Arenas, Baselines, Recents, Scorecard

CONSTANTS
    n1, n2, w1, w2, u1,
    cascade, healthy, backend, service, chaos,
    crashLoop, crashLoopBackOff, noEndpoints, oomKilled, latency

VARIABLE part

mvars == <<part, svars, ovars, pvars, arvars, bvars, rvars, scvars>>

\* One target, given by name, by labels or not at all, or two in two namespaces;
\* any primary selector, and another one elsewhere in the spec or, where the fault
\* needs something of its pods, none.
SomeManifests ==
    {g \in {[targets |-> t, selector |-> s, others |-> o, needs |-> b] :
        t \in {<<a>> : a \in {x \in Aims : x.ns = n1 /\ (x.name = None \/ x.labels = None)}} \cup
              {<<[ns |-> n1, name |-> w1, labels |-> None], [ns |-> n2, name |-> w, labels |-> None]>> :
                    w \in {w1, w2}},
        s \in {{}} \cup {{x} : x \in {y \in Sites : Cardinality(y.names) < 2 /\ y.pods # w2}},
        o \in {{}, {[names |-> {}, pods |-> Any]}, {[names |-> {n2}, pods |-> Any]}},
        b \in BOOLEAN} : g.needs => g.others = {}}

Blank == Cond(FALSE, FALSE, 0, 0, 2)
Declared == {Blank, [Blank EXCEPT !.min = 2, !.max = 1], [Blank EXCEPT !.unreachable = TRUE, !.value = TRUE],
             [Blank EXCEPT !.max = 1]}

\* Manifests with probes of their own, and every engine and action with defaults.
EveryManifest ==
    {[own |-> {s}, engine |-> "network-policy", ingress |-> TRUE, between |-> FALSE, action |-> "partition"] :
        s \in Declared}
    \cup {[own |-> {}, engine |-> "network-policy", ingress |-> i, between |-> FALSE, action |-> "partition"] :
            i \in BOOLEAN}
    \cup {[own |-> {}, engine |-> "chaos-mesh", ingress |-> TRUE, between |-> x[1], action |-> x[2]] :
            x \in {<<TRUE, "partition">>} \cup {FALSE} \X {"partition", "delay", "loss"}}
    \cup {[own |-> {}, engine |-> "kube-state", ingress |-> TRUE, between |-> FALSE, action |-> "none"]}

(***************************************************************************)
(* A scenario of two faults, cause and symptom, and a healthy control.     *)
(***************************************************************************)
Counts == [s \in Pack |-> IF s = cascade THEN 2 ELSE 1]
Cause == [object |-> backend, reasons |-> {crashLoopBackOff}, min |-> Warning, root |-> TRUE]
Symptom == [object |-> service, reasons |-> {noEndpoints}, min |-> Warning, root |-> FALSE]
Wanted == [s \in Pack |-> IF s = cascade THEN {Cause, Symptom} ELSE {}]
Also == [s \in Pack |-> IF s = cascade THEN {oomKilled} ELSE {}]
Worst == [s \in Pack |-> IF s = cascade THEN 3 ELSE 0]
Kinds == [s \in Pack |-> IF s = cascade THEN {chaos} ELSE {}]
Words == {crashLoop, crashLoopBackOff, noEndpoints, oomKilled, latency}
Alike == {<<w, w>> : w \in Words} \cup {<<crashLoop, crashLoopBackOff>>}
Families == [r \in Words |-> IF r \in {crashLoop, latency} THEN Generic ELSE r]
Says(o, r, v, p) == [object |-> o, reason |-> r, severity |-> v, place |-> p]
SomeAnswers ==
    {[findings |-> <<>>, severity |-> NoSeverity]} \cup
    {[findings |-> f, severity |-> v] :
        f \in {<<>>, <<Says(backend, crashLoop, 3, "unsaid")>>,
               <<Says(service, noEndpoints, 2, "here"), Says(backend, oomKilled, 2, "here")>>,
               <<Says(backend, crashLoopBackOff, 3, "elsewhere"), Says(chaos, latency, 1, "here")>>},
        v \in {0, 2}}

Scoping(A) == part = "scope" /\ A /\ UNCHANGED <<part, ovars, pvars, arvars, bvars, rvars, scvars>>
Planning(A) == part = "outage" /\ A /\ UNCHANGED <<part, svars, pvars, arvars, bvars, rvars, scvars>>
Probing(A) == part = "probes" /\ A /\ UNCHANGED <<part, svars, ovars, arvars, bvars, rvars, scvars>>
Making(A) == part = "arenas" /\ A /\ UNCHANGED <<part, svars, ovars, pvars, bvars, rvars, scvars>>
Settling(A) == part = "baselines" /\ A /\ UNCHANGED <<part, svars, ovars, pvars, arvars, rvars, scvars>>
Remembering(A) == part = "ring" /\ A /\ UNCHANGED <<part, svars, ovars, pvars, arvars, bvars, scvars>>
Scoring(A) == part = "score" /\ A /\ UNCHANGED <<part, svars, ovars, pvars, arvars, bvars, rvars>>

\* The workloads of an outage are alike, and so are its pods and those of a probe:
\* where one of the two is singled out it may as well be a certain one.
Singled(S, All) == \A x \in All : S = {x} => x = CHOOSE y \in All : TRUE

\* The parts a behaviour is not about stand still in one of their initial states.
MInit ==
    /\ part \in {"scope", "outage", "probes", "arenas", "baselines", "ring", "score"}
    /\ IF part = "scope" THEN TRUE
       ELSE /\ given = CHOOSE g \in Submitted : ~ g.needs
            /\ eligible = NS /\ excluded = [n \in NS |-> {}]
    /\ IF part = "outage" THEN TRUE
       ELSE /\ owner = [p \in OPod |-> Bare] /\ matches = [w \in OWorkload |-> {}]
            /\ there = {} /\ marks = {} /\ named = {}
    /\ IF part = "probes" THEN TRUE
       ELSE manifest = (CHOOSE g \in Manifests : TRUE) /\ net = [p \in TPods |-> "up"]
    /\ IF part = "arenas" THEN TRUE ELSE space = [phase |-> "absent", mark |-> "unset"]
    /\ IF part = "baselines" THEN TRUE ELSE request = [k \in BCalls |-> NewRequest(CHOOSE ns \in BSpaces : TRUE)]
    /\ SInit /\ OInit /\ PrInit /\ ArInit /\ BInit /\ RInit /\ ScInit
    /\ Singled(named, OWorkload) /\ Singled(there, OPod) /\ Singled({p \in TPods : net[p] = "up"}, TPods)

\* The UIDs are alike, so the first fault may as well be sent as u1.
U1First == Len(uidOf') = 1 => uidOf'[1] = u1

MNext ==
    \/ Scoping(SNext) \/ Planning(ONext) \/ Probing(PrNext)
    \/ Making(ArNext) \/ Settling(BNext) \/ Remembering(RNext /\ U1First) \/ Scoring(ScNext)

MSpec == MInit /\ [][MNext]_mvars
=============================================================================
