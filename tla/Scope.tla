------------------------------- MODULE Scope -------------------------------
(***************************************************************************)
(* What a Chaos Mesh fault may reach.  The manifest's targets are what the *)
(* executor judges; the pod selectors inside the spec are what the engine  *)
(* obeys.  The executor therefore pins every selector to the targets'      *)
(* namespaces and pods, or refuses the manifest.  The judgement is a chain *)
(* of reads of the cluster made at different moments: an operator may edit *)
(* the namespaces' annotations between two of them.                        *)
(***************************************************************************)
EXTENDS Integers, Sequences, FiniteSets

CONSTANTS
    NS,             \* the namespaces
    Workload,       \* the workloads, the same in every namespace; each labels its pods with its name
    None, Any,      \* no name or labels given; a selector that picks no particular pods
    Submitted,      \* the manifests of the run
    MaxAnnotations  \* bound on the edits of annotations during a call

ASSUME ScopeAssumption == {None, Any} \cap Workload = {} /\ MaxAnnotations \in Nat

\* A selector site of a spec: the namespaces it names and the pods it picks.
Sites == [names : SUBSET NS, pods : Workload \cup {Any}]
Aims == [ns : NS, name : Workload \cup {None}, labels : Workload \cup {None}]
Exclusions == {{}} \cup {{w} : w \in Workload}

\* validateManifest: "manifest must declare at least one target".  A spec has one
\* primary selector at most.
ASSUME SubmittedAssumption ==
    \A g \in Submitted :
        /\ g \in [targets : Seq(Aims), selector : SUBSET Sites, others : SUBSET Sites, needs : BOOLEAN]
        /\ g.targets # <<>>
        /\ g.selector = {} \/ \E s \in Sites : g.selector = {s}

VARIABLES
    given, m,       \* the manifest as submitted, and as the driver will be handed it
    phase,
    eligible, excluded,     \* the annotations of the namespaces
    fits,                   \* where a fault that needs something of the containers can be injected
    unread,                 \* some listing of a target's pods failed
    edits,
    eligibleOnce,           \* namespaces eligible at some moment of the call
    excludedThroughout      \* workloads excluded at every moment of the call

Annotations == <<eligible, excluded, edits, eligibleOnce, excludedThroughout>>
svars == <<given, m, phase, fits, unread, Annotations>>

Decided == {"accepted", "refused"}

SInit ==
    /\ given \in Submitted /\ m = given
    /\ phase = "targets"
    /\ eligible \in {NS} \cup {NS \ {n} : n \in NS}
    /\ excluded \in [NS -> Exclusions]
    /\ fits \in {NS \X Workload} \cup {(NS \X Workload) \ {x} : x \in NS \X Workload}
    /\ (given.needs \/ fits = NS \X Workload)   \* told apart only by a fault that needs it
    /\ unread = FALSE /\ edits = 0
    /\ eligibleOnce = eligible /\ excludedThroughout = excluded

TargetNamespaces == {m.targets[i].ns : i \in DOMAIN m.targets}

Goto(p) == phase' = p

(***************************************************************************)
(* validateSafety.                                                         *)
(***************************************************************************)
\* A lookup of annotations may fail at each of these steps, and refuses.
LookupFails ==
    /\ phase \in {"targets", "namespaces", "pods", "exclusions"}
    /\ Goto("refused")
    /\ UNCHANGED <<given, m, fits, unread, Annotations>>

validateTargets ==
    /\ phase = "targets"
    /\ IF \A i \in DOMAIN m.targets :
            /\ m.targets[i].ns \in eligible
            /\ m.targets[i].name \notin excluded[m.targets[i].ns]
       THEN Goto("namespaces") ELSE Goto("refused")
    /\ UNCHANGED <<given, m, fits, unread, Annotations>>

\* Every node of the spec that looks like a selector, wherever it is.
findSelectorSites == m.selector \cup m.others

\* Mutant: only the namespaces of spec.selector are looked at.
NamesOfSelector == UNION {s.names : s \in m.selector}

\* The namespaces the selectors name, in a list or as the keys of a pods map.
namespacesIn == UNION {s.names : s \in findSelectorSites}

\* A site that names no namespace is given the targets'.
Pin(site) == IF site.names = {} THEN [site EXCEPT !.names = TargetNamespaces] ELSE site

Pinned == [m EXCEPT !.selector = {Pin(s) : s \in @}, !.others = {Pin(s) : s \in @}]

validateSpecNamespaceScope ==
    /\ phase = "namespaces"
    /\ IF namespacesIn \subseteq eligible
       THEN m' = Pinned /\ Goto("labels")
       ELSE m' = m /\ Goto("refused")
    /\ UNCHANGED <<given, fits, unread, Annotations>>

(***************************************************************************)
(* The pods.                                                               *)
(***************************************************************************)
Label(t) == IF t.labels = None THEN [t EXCEPT !.labels = t.name] ELSE t

\* A target that came as a name gets the labels of the workload of that name,
\* where they can be read.
resolveTargetLabels ==
    /\ phase = "labels"
    /\ \E read \in SUBSET DOMAIN m.targets :
        m' = [m EXCEPT !.targets = [i \in DOMAIN m.targets |->
                IF i \in read THEN Label(m.targets[i]) ELSE m.targets[i]]]
    /\ Goto("pods")
    /\ UNCHANGED <<given, fits, unread, Annotations>>

selectsPods(site) == site.pods # Any
Excludes(names) == \E n \in names : excluded[n] # {}

\* The other selectors of the spec are never narrowed.
checkSecondarySelectors == \A s \in m.others : selectsPods(s) \/ ~ Excludes(s.names)

TargetLabels == {m.targets[i].labels : i \in DOMAIN m.targets}
Agreed == Cardinality(TargetLabels) = 1 /\ None \notin TargetLabels
Named == \E i \in DOMAIN m.targets : m.targets[i].name # None
Primary == IF m.selector = {} THEN [names |-> {}, pods |-> Any] ELSE CHOOSE s \in m.selector : TRUE

\* An open selector that cannot be narrowed is refused when a target names a
\* workload, or its namespace has excluded ones.
RefuseOpen == Named \/ Excludes(TargetNamespaces)

narrowPodSelector ==
    /\ phase = "pods"
    /\ UNCHANGED <<given, fits, unread, Annotations>>
    /\ \/ ~ checkSecondarySelectors /\ m' = m /\ Goto("refused")
       \/ /\ checkSecondarySelectors
          /\ \/ selectsPods(Primary) /\ m' = m /\ Goto("exclusions")
             \/ /\ ~ selectsPods(Primary) /\ Agreed
                /\ m' = [m EXCEPT !.selector = {[Primary EXCEPT !.pods = CHOOSE l \in TargetLabels : TRUE]}]
                /\ Goto("exclusions")
             \/ /\ ~ selectsPods(Primary) /\ ~ Agreed /\ m' = m
                /\ IF RefuseOpen THEN Goto("refused") ELSE Goto("exclusions")

\* The exclusions are read once more, for a driver that picks pods itself; this
\* one does not.
withExclusions ==
    /\ phase = "exclusions" /\ Goto("compat")
    /\ UNCHANGED <<given, m, fits, unread, Annotations>>

\* A read-only root, a missing mount, gRPC or a probe on the port: the fault
\* would fail there, or break the target for good.  Looked for in the pods of
\* every target with labels.
checkTargetCompat(listed) ==
    \A i \in listed : m.targets[i].labels # None => <<m.targets[i].ns, m.targets[i].labels>> \in fits

\* A target whose pods cannot be listed is let pass.
Compat ==
    /\ phase = "compat"
    /\ \E listed \in SUBSET DOMAIN m.targets :
        /\ unread' = (listed # DOMAIN m.targets)
        /\ IF m.needs => checkTargetCompat(listed) THEN Goto("accepted") ELSE Goto("refused")
    /\ UNCHANGED <<given, m, fits, Annotations>>

(***************************************************************************)
(* The operator.                                                           *)
(***************************************************************************)
Annotate(n, on, ex) ==
    /\ phase \notin Decided /\ edits < MaxAnnotations
    /\ eligible' = IF on THEN eligible \cup {n} ELSE eligible \ {n}
    /\ excluded' = [excluded EXCEPT ![n] = ex]
    /\ <<eligible, excluded>>' # <<eligible, excluded>>
    /\ edits' = edits + 1
    /\ eligibleOnce' = eligibleOnce \cup eligible'
    /\ excludedThroughout' = [k \in NS |-> excludedThroughout[k] \cap excluded'[k]]
    /\ UNCHANGED <<given, m, phase, fits, unread>>

SNext ==
    \/ validateTargets \/ validateSpecNamespaceScope \/ resolveTargetLabels \/ narrowPodSelector
    \/ withExclusions \/ Compat \/ LookupFails
    \/ \E n \in NS, on \in BOOLEAN, ex \in Exclusions : Annotate(n, on, ex)

SSpec == SInit /\ [][SNext]_svars

(***************************************************************************)
(* What the engine selects (external): the pods of the namespaces a        *)
(* selector names, or of the namespace its object is in.                   *)
(***************************************************************************)
Chosen(site) ==
    {p \in NS \X Workload :
        /\ p[1] \in (IF site.names = {} THEN {m.targets[1].ns} ELSE site.names)
        /\ site.pods \in {Any, p[2]}}
Reach == UNION {Chosen(s) : s \in {Primary} \cup m.others}

\* The manifest keeps its shape through the rewriting: one primary selector at
\* most, targets that only gain labels; the bookkeeping of annotations holds.
STypeOK ==
    /\ phase \in {"targets", "namespaces", "labels", "pods", "exclusions", "compat"} \cup Decided
    /\ m.selector \subseteq Sites /\ m.others \subseteq Sites /\ Cardinality(m.selector) <= 1
    /\ \A i \in DOMAIN m.targets :
        /\ m.targets[i] \in Aims
        /\ given.targets[i].labels # None => m.targets[i] = given.targets[i]
    /\ eligible \subseteq NS /\ eligible \subseteq eligibleOnce
    /\ \A n \in NS : excludedThroughout[n] \subseteq excluded[n]
    /\ unread \in BOOLEAN /\ edits \in 0 .. MaxAnnotations

\* An accepted fault reaches no pod of a namespace that was not eligible at some
\* moment of the call, whatever selectors are in its spec and wherever.
OnlyEligible == phase = "accepted" => \A p \in Reach : p[1] \in eligibleOnce

\* A selector left open on pods never covers a workload that was excluded all
\* the while, in the targets' namespaces; nor does any selector but the primary
\* one, in whichever namespaces.
OpenSelectorsSpare ==
    phase = "accepted" =>
        \A s \in {Primary} \cup m.others :
            s.pods = Any /\ (s \in m.others \/ s.names \subseteq TargetNamespaces)
                => \A p \in Chosen(s) : p[2] \notin excludedThroughout[p[1]]

\* Where the executor chose namespaces and pods itself, and could list the
\* targets' pods, the pods it looked at are the ones the engine will reach: a
\* fault is never injected where it cannot be taken back out.
NarrowedFits ==
    (phase = "accepted" /\ m.needs /\ ~ unread /\ selectsPods(Primary)
        /\ \A s \in given.selector : s.names = {} /\ ~ selectsPods(s))
            => Chosen(Primary) \subseteq fits

\* "Excluded workloads must never receive a fault."
ExcludedSpared ==
    phase = "accepted" => \A p \in Reach : p[2] \notin excludedThroughout[p[1]]

\* What the engine will reach was judged: its namespaces, its open selectors and the
\* pods of a narrowed one.
ReachJudged == STypeOK /\ OnlyEligible /\ OpenSelectorsSpare /\ NarrowedFits
=============================================================================
