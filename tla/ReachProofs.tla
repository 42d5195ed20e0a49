----------------------------- MODULE ReachProofs -----------------------------
(***************************************************************************)
(* Theorems about what a fault may reach and what its gate vouches for:    *)
(* the plan of an outage (OutagePlan), the selectors of a manifest (Scope) *)
(* and the probes before and after an injection (Probe), for any           *)
(* namespaces, workloads, pods and manifests, and however the cluster and  *)
(* its annotations change during a call.                                   *)
(***************************************************************************)
EXTENDS Scope, OutagePlan, Probe, TLAPS, FiniteSetTheorems

(***************************************************************************)
(* OutagePlan: types.                                                      *)
(***************************************************************************)
USE OutageAssumption

OSteps == {"exclusions", "check", "checkPlan", "apply", "applyPlan", "create", "applied", "refused"}

\* The cluster, what was read of it, and the counters of the bounds.
ClusterOK ==
    /\ owner \in [OPod -> OWorkload \cup {Bare}]
    /\ matches \in [OWorkload -> SUBSET OPod]
    /\ \A w \in OWorkload, p \in OPod : owner[p] = w => p \in matches[w]
    /\ there \subseteq OPod /\ marks \subseteq OWorkload
    /\ moves \in Nat /\ marking \in Nat
    /\ ostep \in OSteps
    /\ listed \subseteq OPod /\ hit \subseteq OPod
    /\ onCtx \subseteq OWorkload /\ markedAllAlong \subseteq marks

(***************************************************************************)
(* OutagePlan: the inductive invariant.                                    *)
(***************************************************************************)
\* Nothing of an exclusion is on the context, and no plan is made, too early.
PlanFromApply ==
    /\ ostep = "exclusions" => onCtx = {}
    /\ ostep \notin {"create", "applied"} => plan = NoPlan

\* The plan that is applied: of pods listed, with a workload, without one that was
\* excluded when the call began, and telling what its selectors find in the list.
PlanMade ==
    ostep \in {"create", "applied"} =>
        /\ plan.workloads # {} /\ plan.workloads \subseteq OWorkload
        /\ plan.workloads \cap plan.excluded = {}
        /\ plan.workloads \cap onCtx = {}
        /\ plan.affected = listed \cap UNION {matches[w] : w \in plan.workloads}

\* No selector of the plan finds a listed pod of a workload excluded all through.
PlanSpares ==
    ostep \in {"create", "applied"} =>
        \A w \in plan.workloads, p \in listed : p \in matches[w] => owner[p] \notin markedAllAlong \cup onCtx

\* What the members hit is what their selectors found when they were created; where
\* no pod moved that is what was listed.
HitFound ==
    /\ moves = 0 /\ ostep \in {"checkPlan", "applyPlan", "create", "applied"} => listed = there
    /\ ostep = "applied" => hit = there \cap UNION {matches[w] : w \in plan.workloads}

OutageInv == ClusterOK /\ PlanFromApply /\ PlanMade /\ PlanSpares /\ HitFound

LEMMA OutageInvInit == OInit => OutageInv
  BY DEF OInit, OutageInv, ClusterOK, PlanFromApply, PlanMade, PlanSpares, HitFound, OSteps, NoPlan

\* A step of the call that moves nothing and leaves the plan alone.
LEMMA PlanLeft ==
  ASSUME OutageInv, ostep \notin {"create", "applied"}, ostep' \in OSteps \ {"create", "applied", "exclusions"},
         UNCHANGED <<Cluster, Moving, plan, hit>>,
         onCtx' \subseteq OWorkload, listed' \subseteq OPod,
         moves = 0 /\ ostep' \in {"checkPlan", "applyPlan"} => listed' = there
  PROVE  OutageInv'
  BY DEF OutageInv, ClusterOK, PlanFromApply, PlanMade, PlanSpares, HitFound, Cluster, Moving

\* A plan that is not refused reaches no pod of what it was told is excluded.
LEMMA PlanAvoids ==
  ASSUME ClusterOK, NEW ex \in SUBSET OWorkload, ~ Refuses(planOutage(ex))
  PROVE  /\ planOutage(ex).workloads # {} /\ planOutage(ex).workloads \subseteq OWorkload \ ex
         /\ planOutage(ex).workloads \cap planOutage(ex).excluded = {}
         /\ planOutage(ex).affected = listed \cap UNION {matches[w] : w \in planOutage(ex).workloads}
         /\ \A w \in planOutage(ex).workloads, p \in listed : p \in matches[w] => owner[p] \notin ex
<1> DEFINE out == Present \cap ex
           ws  == (Present \ out) \cap (IF named = {} THEN OWorkload ELSE named)
<1>1. planOutage(ex) = [workloads |-> ws, excluded |-> out,
                        affected |-> IF ReachesExcluded(ws, out) THEN {} ELSE Affected(ws)]
  BY DEF planOutage
<1>2. ~ ReachesExcluded(ws, out) /\ ws # {}
  <2> HIDE DEF ws, out
  <2> QED
    BY <1>1 DEF Refuses
<1>3. ws \subseteq OWorkload \ ex /\ ws \cap out = {}
  BY DEF Present
<1>4. ASSUME NEW w \in ws, NEW p \in listed, p \in matches[w], owner[p] \in ex PROVE FALSE
  <2>1. owns(owner[p], p)
    BY <1>4 DEF ClusterOK, owns
  <2>2. owner[p] \in out
    BY <1>4, <2>1 DEF Present
  <2> QED
    BY <1>2, <1>4, <2>1, <2>2 DEF ReachesExcluded
<1> HIDE DEF ws, out
<1> QED
  BY <1>1, <1>2, <1>3, <1>4 DEF Affected

LEMMA OutageCallKeeps ==
  ASSUME OutageInv, ReadExclusions \/ ListPlace \/ CheckTargets \/ ReadFails \/ PlanApply \/ CreateMembers
  PROVE  OutageInv'
<1>1. CASE ReadExclusions
  BY <1>1, PlanLeft DEF ReadExclusions, OutageInv, ClusterOK, OSteps
<1>2. CASE ListPlace
  BY <1>2, PlanLeft DEF ListPlace, OutageInv, ClusterOK, OSteps
<1>3. CASE CheckTargets
  BY <1>3, PlanLeft DEF CheckTargets, OutageInv, ClusterOK, OSteps
<1>4. CASE ReadFails
  BY <1>4, PlanLeft DEF ReadFails, OutageInv, ClusterOK, OSteps
<1>5. CASE PlanApply
  <2> DEFINE ex == excludedWorkloads
  <2>1. ex \in SUBSET OWorkload /\ onCtx \subseteq ex /\ markedAllAlong \subseteq ex
    BY DEF excludedWorkloads, OutageInv, ClusterOK
  <2>2. CASE Refuses(planOutage(ex))
    BY <1>5, <2>2, PlanLeft DEF PlanApply, OutageInv, ClusterOK, OSteps
  <2>3. CASE ~ Refuses(planOutage(ex))
    <3>1. /\ ostep = "applyPlan" /\ ostep' = "create" /\ plan' = planOutage(ex)
          /\ UNCHANGED <<Cluster, Moving, onCtx, listed, hit>>
      BY <1>5, <2>3 DEF PlanApply
    <3>2. ClusterOK' /\ PlanFromApply' /\ HitFound'
      BY <3>1 DEF OutageInv, ClusterOK, PlanFromApply, HitFound, Cluster, Moving, OSteps
    <3> HIDE DEF ex
    <3>3. PlanMade' /\ PlanSpares'
      BY <2>1, <2>3, <3>1, PlanAvoids DEF OutageInv, PlanMade, PlanSpares, Cluster, Moving
    <3> QED
      BY <3>2, <3>3 DEF OutageInv
  <2> QED
    BY <2>2, <2>3
<1>6. CASE CreateMembers
  BY <1>6 DEF CreateMembers, OutageInv, ClusterOK, PlanFromApply, PlanMade, PlanSpares, HitFound,
              Cluster, Moving, OSteps
<1> QED
  BY <1>1, <1>2, <1>3, <1>4, <1>5, <1>6

LEMMA OutageInvStep == OutageInv /\ [ONext]_ovars => OutageInv'
<1> SUFFICES ASSUME OutageInv, [ONext]_ovars PROVE OutageInv'
  OBVIOUS
<1>1. CASE UNCHANGED ovars
  BY <1>1 DEF OutageInv, ClusterOK, PlanFromApply, PlanMade, PlanSpares, HitFound, ovars, Cluster, Moving
<1>2. ASSUME NEW p \in OPod, MovePod(p) PROVE OutageInv'
  BY <1>2 DEF MovePod, InCall, OutageInv, ClusterOK, PlanFromApply, PlanMade, PlanSpares, HitFound, Cluster
<1>3. ASSUME NEW w \in OWorkload, Mark(w) PROVE OutageInv'
  BY <1>3 DEF Mark, InCall, OutageInv, ClusterOK, PlanFromApply, PlanMade, PlanSpares, HitFound, Cluster
<1> QED
  BY <1>1, <1>2, <1>3, OutageCallKeeps DEF ONext

LEMMA OutageInvGives == OutageInv => OutageAsPlanned
<1> SUFFICES ASSUME OutageInv PROVE OutageAsPlanned
  OBVIOUS
<1>1. OTypeOK
  BY DEF OutageInv, ClusterOK, PlanFromApply, PlanMade, OTypeOK, OSteps, NoPlan
<1>2. OutageSpares
  BY DEF OutageInv, PlanSpares, HitFound, OutageSpares
<1>3. OutageTold
  BY DEF OutageInv, PlanMade, HitFound, OutageTold
<1> QED
  BY <1>1, <1>2, <1>3 DEF OutageAsPlanned

\* An applied outage takes down what its plan tells, and no listed pod of a workload
\* excluded when the call began or all through it, whatever labels workloads share
\* and whichever pods move and annotations change between the reads.
THEOREM OutageAlwaysAsPlanned == OSpec => []OutageAsPlanned
  BY OutageInvInit, OutageInvStep, OutageInvGives, PTL DEF OSpec

(***************************************************************************)
(* Scope: the manifest.                                                    *)
(***************************************************************************)
USE ScopeAssumption

Rows == DOMAIN given.targets
ManifestOK == [targets : [Rows -> Aims], selector : SUBSET Sites, others : SUBSET Sites, needs : BOOLEAN]

\* One primary selector at most, as a set of selectors.
OneSite(sel) == sel = {} \/ \E s \in Sites : sel = {s}

\* What a rewriting of the manifest never touches: how many targets there are, their
\* namespaces and names, and labels that were given.
TargetsKept ==
    \A i \in Rows :
        /\ m.targets[i].ns = given.targets[i].ns
        /\ m.targets[i].name = given.targets[i].name
        /\ given.targets[i].labels # None => m.targets[i] = given.targets[i]

SPhases == {"targets", "namespaces", "labels", "pods", "exclusions", "compat", "accepted", "refused"}

\* What the pods of a primary selector are once the manifest is past a phase.
Narrowed == {"exclusions", "compat", "accepted"}
PinnedPhases == Narrowed \cup {"labels", "pods"}

ShapeOK ==
    /\ given \in Submitted
    /\ m \in ManifestOK /\ OneSite(m.selector)
    /\ 1 \in Rows /\ IsFiniteSet(Rows)
    /\ TargetsKept
    /\ phase \in SPhases /\ unread \in BOOLEAN /\ edits \in 0 .. MaxAnnotations

AnnotationsOK ==
    /\ eligible \subseteq NS /\ eligible \subseteq eligibleOnce
    /\ excluded \in [NS -> Exclusions]
    /\ excludedThroughout \in [NS -> SUBSET Workload]
    /\ \A n \in NS : excludedThroughout[n] \subseteq excluded[n]

(***************************************************************************)
(* Scope: the inductive invariant.                                         *)
(***************************************************************************)
\* The namespaces that were judged: the targets' in validateTargets, the selectors'
\* and with them the pinned ones in validateSpecNamespaceScope.
NamespacesSeen ==
    /\ phase \in PinnedPhases \cup {"namespaces"} => TargetNamespaces \subseteq eligibleOnce
    /\ phase \in PinnedPhases =>
        /\ \A s \in m.selector \cup m.others : s.names \subseteq eligibleOnce
        /\ \A s \in m.others : s.names # {}

\* Where a selector was left open in narrowPodSelector nothing was excluded then.
OpenSeen ==
    phase \in Narrowed =>
        /\ \A s \in m.others : s.pods = Any => \A n \in s.names : excludedThroughout[n] = {}
        /\ Primary.pods = Any => \A n \in TargetNamespaces : excludedThroughout[n] = {}

\* A manifest whose primary selector says nothing: the executor's own choice.
Unsaid == \A s \in given.selector : s.names = {} /\ ~ selectsPods(s)

ChoiceKept ==
    Unsaid =>
        /\ phase \in {"targets", "namespaces"} => \A s \in m.selector : s.names = {} /\ ~ selectsPods(s)
        /\ phase \in {"labels", "pods"} => \A s \in m.selector : s.names \subseteq TargetNamespaces /\ ~ selectsPods(s)
        /\ phase \in Narrowed =>
            /\ Primary.names \subseteq TargetNamespaces
            /\ selectsPods(Primary) =>
                  Primary.pods # None /\ \A i \in Rows : m.targets[i].labels = Primary.pods

\* The pods of every labelled target were looked at.
FitsSeen ==
    phase = "accepted" /\ m.needs /\ ~ unread =>
        \A i \in Rows : m.targets[i].labels # None => <<m.targets[i].ns, m.targets[i].labels>> \in fits

ScopeInv == ShapeOK /\ AnnotationsOK /\ NamespacesSeen /\ OpenSeen /\ ChoiceKept /\ FitsSeen

\* The primary selector of a manifest is its only one.
LEMMA PrimarySite ==
  ASSUME OneSite(m.selector)
  PROVE  /\ m.selector = {} => Primary = [names |-> {}, pods |-> Any]
         /\ m.selector # {} => Primary \in m.selector /\ m.selector = {Primary} /\ Primary \in Sites
  BY DEF OneSite, Primary

LEMMA ScopeInvInit == SInit => ScopeInv
<1> SUFFICES ASSUME SInit PROVE ScopeInv
  OBVIOUS
<1>1. /\ given \in Submitted /\ m = given
      /\ given \in [targets : Seq(Aims), selector : SUBSET Sites, others : SUBSET Sites, needs : BOOLEAN]
      /\ given.targets # <<>> /\ OneSite(given.selector)
  BY SubmittedAssumption DEF SInit, OneSite
<1>2. Rows = 1 .. Len(given.targets) /\ Len(given.targets) \in Nat \ {0} /\ given.targets \in [Rows -> Aims]
  BY <1>1 DEF Rows
<1>3. 1 \in Rows /\ IsFiniteSet(Rows)
  <2>1. \A n \in Nat : IsFiniteSet(1 .. n)
    BY FS_Interval
  <2> QED
    BY <1>2, <2>1
<1>4. m \in ManifestOK
  BY <1>1, <1>2 DEF ManifestOK
<1>5. edits \in 0 .. MaxAnnotations
  BY DEF SInit
<1>6. ShapeOK
  BY <1>1, <1>3, <1>4, <1>5 DEF SInit, ShapeOK, TargetsKept, SPhases
<1>7. AnnotationsOK
  <2>1. eligible \subseteq NS /\ eligible \subseteq eligibleOnce
    BY DEF SInit
  <2>2. excluded \in [NS -> Exclusions] /\ excludedThroughout = excluded
    BY DEF SInit
  <2>3. \A x \in Exclusions : x \in SUBSET Workload
    BY DEF Exclusions
  <2> QED
    BY <2>1, <2>2, <2>3 DEF AnnotationsOK
<1>8. NamespacesSeen /\ OpenSeen /\ FitsSeen
  BY DEF SInit, NamespacesSeen, OpenSeen, FitsSeen, PinnedPhases, Narrowed
<1>9. ChoiceKept
  BY <1>1 DEF SInit, ChoiceKept, Unsaid, Narrowed
<1> QED
  BY <1>6, <1>7, <1>8, <1>9 DEF ScopeInv

\* A step to the refusal settles every claim.
LEMMA Refused ==
  ASSUME ScopeInv, phase' = "refused", UNCHANGED <<given, m, fits, unread, Annotations>>
  PROVE  ScopeInv'
<1>1. ShapeOK' /\ AnnotationsOK'
  BY DEF ScopeInv, ShapeOK, AnnotationsOK, TargetsKept, ManifestOK, Rows, SPhases, Annotations
<1>2. NamespacesSeen' /\ OpenSeen' /\ ChoiceKept' /\ FitsSeen'
  BY DEF NamespacesSeen, OpenSeen, ChoiceKept, FitsSeen, PinnedPhases, Narrowed
<1> QED
  BY <1>1, <1>2 DEF ScopeInv

(***************************************************************************)
(* Scope: the steps of the judgement.                                      *)
(***************************************************************************)
LEMMA validateTargetsKeeps ==
  ASSUME ScopeInv, validateTargets
  PROVE  ScopeInv'
<1>1. CASE phase' = "refused"
  BY <1>1, Refused DEF validateTargets
<1>2. CASE phase' # "refused"
  <2>1. /\ phase = "targets" /\ phase' = "namespaces"
        /\ \A i \in DOMAIN m.targets : m.targets[i].ns \in eligible
        /\ UNCHANGED <<given, m, fits, unread, Annotations>>
    BY <1>2 DEF validateTargets, Goto
  <2>2. ShapeOK' /\ AnnotationsOK'
    BY <2>1 DEF ScopeInv, ShapeOK, AnnotationsOK, TargetsKept, ManifestOK, Rows, SPhases, Annotations
  <2>3. TargetNamespaces' \subseteq eligibleOnce'
    BY <2>1 DEF ScopeInv, AnnotationsOK, TargetNamespaces, Annotations
  <2>4. NamespacesSeen' /\ OpenSeen' /\ FitsSeen'
    BY <2>1, <2>3 DEF NamespacesSeen, OpenSeen, FitsSeen, PinnedPhases, Narrowed
  <2>5. ChoiceKept'
    BY <2>1 DEF ScopeInv, ChoiceKept, Unsaid, selectsPods, Narrowed
  <2> QED
    BY <2>2, <2>4, <2>5 DEF ScopeInv
<1> QED
  BY <1>1, <1>2

LEMMA PinTyped ==
  ASSUME NEW s \in Sites, TargetNamespaces \in SUBSET NS
  PROVE  /\ Pin(s) \in Sites /\ Pin(s).pods = s.pods
         /\ Pin(s).names = IF s.names = {} THEN TargetNamespaces ELSE s.names
  BY DEF Pin, Sites

LEMMA TargetNamespacesTyped ==
  ASSUME ShapeOK
  PROVE  /\ TargetNamespaces = {given.targets[i].ns : i \in Rows}
         /\ TargetNamespaces \in SUBSET NS /\ TargetNamespaces # {} /\ m.targets[1].ns \in TargetNamespaces
         /\ DOMAIN m.targets = Rows
  BY DEF ShapeOK, ManifestOK, TargetsKept, TargetNamespaces, Aims

LEMMA validateSpecNamespaceScopeKeeps ==
  ASSUME ScopeInv, validateSpecNamespaceScope
  PROVE  ScopeInv'
<1>1. CASE phase' = "refused"
  BY <1>1, Refused DEF validateSpecNamespaceScope, Goto
<1>2. CASE phase' # "refused"
  <2>1. /\ phase = "namespaces" /\ phase' = "labels" /\ m' = Pinned
        /\ namespacesIn \subseteq eligible
        /\ UNCHANGED <<given, fits, unread, Annotations>>
    BY <1>2 DEF validateSpecNamespaceScope, Goto
  <2>2. ShapeOK /\ m \in ManifestOK /\ TargetNamespaces \in SUBSET NS /\ TargetNamespaces # {}
    BY TargetNamespacesTyped DEF ScopeInv, ShapeOK
  <2>3. /\ m'.targets = m.targets /\ m'.needs = m.needs
        /\ m'.selector = {Pin(s) : s \in m.selector} /\ m'.others = {Pin(s) : s \in m.others}
        /\ m' = [targets |-> m'.targets, selector |-> m'.selector, others |-> m'.others, needs |-> m'.needs]
    BY <2>1, <2>2 DEF Pinned, ManifestOK
  <2>4. m.selector \in SUBSET Sites /\ m.others \in SUBSET Sites
    BY <2>2 DEF ManifestOK
  <2>5. m'.selector \in SUBSET Sites /\ m'.others \in SUBSET Sites
    BY <2>2, <2>3, <2>4, PinTyped
  <2>6. (m \in ManifestOK)'
    BY <2>1, <2>2, <2>3, <2>5 DEF ManifestOK, Rows
  <2>7. OneSite(m'.selector)
    BY <2>2, <2>3, PinTyped DEF ShapeOK, OneSite
  <2>8. ShapeOK'
    BY <2>1, <2>2, <2>3, <2>6, <2>7 DEF ShapeOK, TargetsKept, Rows, SPhases, Annotations
  <2>9. AnnotationsOK'
    BY <2>1 DEF ScopeInv, AnnotationsOK, Annotations
  <2>10. TargetNamespaces' = TargetNamespaces /\ TargetNamespaces \subseteq eligibleOnce
    BY <2>1, <2>3 DEF TargetNamespaces, ScopeInv, NamespacesSeen
  <2>11. \A s \in m.selector \cup m.others : s.names \subseteq eligibleOnce
    BY <2>1 DEF namespacesIn, findSelectorSites, ScopeInv, AnnotationsOK
  <2>12. NamespacesSeen'
    BY <2>1, <2>2, <2>3, <2>4, <2>10, <2>11, PinTyped DEF NamespacesSeen, Annotations
  <2>13. OpenSeen' /\ FitsSeen'
    BY <2>1 DEF OpenSeen, FitsSeen, Narrowed
  <2>14. ASSUME Unsaid' PROVE \A s \in m'.selector : s.names \subseteq TargetNamespaces' /\ ~ selectsPods(s)
    <3>1. \A s \in m.selector : s.names = {} /\ ~ selectsPods(s)
      BY <2>1, <2>14 DEF ScopeInv, ChoiceKept, Unsaid
    <3> QED
      BY <2>2, <2>3, <2>4, <2>10, <3>1, PinTyped DEF selectsPods
  <2>15. ChoiceKept'
    BY <2>1, <2>14 DEF ChoiceKept, Narrowed, selectsPods
  <2> QED
    BY <2>8, <2>9, <2>12, <2>13, <2>15 DEF ScopeInv
<1> QED
  BY <1>1, <1>2

LEMMA resolveTargetLabelsKeeps ==
  ASSUME ScopeInv, resolveTargetLabels
  PROVE  ScopeInv'
<1>1. PICK read \in SUBSET DOMAIN m.targets :
        m' = [m EXCEPT !.targets = [i \in DOMAIN m.targets |->
                IF i \in read THEN Label(m.targets[i]) ELSE m.targets[i]]]
  BY DEF resolveTargetLabels
<1>2. phase = "labels" /\ phase' = "pods" /\ UNCHANGED <<given, fits, unread, Annotations>>
  BY DEF resolveTargetLabels, Goto
<1>3. ShapeOK /\ m \in ManifestOK /\ DOMAIN m.targets = Rows
  BY TargetNamespacesTyped DEF ScopeInv, ShapeOK
<1>4. /\ m'.selector = m.selector /\ m'.others = m.others /\ m'.needs = m.needs
      /\ m'.targets = [i \in Rows |-> IF i \in read THEN Label(m.targets[i]) ELSE m.targets[i]]
      /\ m' = [targets |-> m'.targets, selector |-> m'.selector, others |-> m'.others, needs |-> m'.needs]
  BY <1>1, <1>3 DEF ManifestOK
<1>5. \A i \in Rows : m.targets[i] \in Aims
  BY <1>3 DEF ManifestOK
<1>6. \A t \in Aims : Label(t) \in Aims /\ Label(t).ns = t.ns /\ Label(t).name = t.name /\ (t.labels # None => Label(t) = t)
  BY DEF Label, Aims
<1>7. m'.targets \in [Rows -> Aims]
  BY <1>4, <1>5, <1>6
<1>8. (m \in ManifestOK)'
  BY <1>2, <1>3, <1>4, <1>7 DEF ManifestOK, Rows
<1>9. TargetsKept'
  BY <1>2, <1>3, <1>4, <1>5, <1>6 DEF ShapeOK, TargetsKept, Rows
<1>10. ShapeOK'
  BY <1>2, <1>3, <1>4, <1>8, <1>9 DEF ShapeOK, Rows, SPhases, Annotations
<1>11. AnnotationsOK'
  BY <1>2 DEF ScopeInv, AnnotationsOK, Annotations
<1>12. TargetNamespaces' = TargetNamespaces
  BY <1>2, <1>3, <1>10, TargetNamespacesTyped DEF ShapeOK, TargetsKept, TargetNamespaces, Rows, ManifestOK
<1>13. NamespacesSeen'
  BY <1>2, <1>4, <1>12 DEF ScopeInv, NamespacesSeen, PinnedPhases, Annotations
<1>14. OpenSeen' /\ FitsSeen'
  BY <1>2 DEF OpenSeen, FitsSeen, Narrowed
<1>15. ChoiceKept'
  BY <1>2, <1>4, <1>12 DEF ScopeInv, ChoiceKept, Unsaid, Narrowed, selectsPods
<1> QED
  BY <1>10, <1>11, <1>13, <1>14, <1>15 DEF ScopeInv

\* Labels that agree are one label, of every target.
LEMMA AgreedLabel ==
  ASSUME ShapeOK, Agreed, NEW label, label = CHOOSE l \in TargetLabels : TRUE
  PROVE  label \in Workload /\ label # None /\ \A i \in Rows : m.targets[i].labels = label
<1>1. TargetLabels = {m.targets[i].labels : i \in Rows}
  BY TargetNamespacesTyped DEF TargetLabels
<1> DEFINE f == [i \in Rows |-> m.targets[i].labels]
<1>2. f \in Surjection(Rows, TargetLabels)
  BY <1>1 DEF Surjection
<1>3. IsFiniteSet(TargetLabels)
  BY <1>2, FS_Surjection DEF ShapeOK
<1>4. PICK x : TargetLabels = {x}
  BY <1>3, FS_Singleton DEF Agreed
<1>5. label = x /\ x # None /\ \A i \in Rows : m.targets[i].labels = x
  BY <1>1, <1>4 DEF Agreed
<1>6. m.targets[1].labels \in Workload \cup {None}
  BY DEF ShapeOK, ManifestOK, Aims
<1> QED
  BY <1>5, <1>6 DEF ShapeOK

\* The pods: past this step nothing changes in the manifest.
LEMMA narrowPodSelectorKeeps ==
  ASSUME ScopeInv, narrowPodSelector
  PROVE  ScopeInv'
<1>1. phase = "pods" /\ UNCHANGED <<given, fits, unread, Annotations>>
  BY DEF narrowPodSelector
<1>2. CASE phase' = "refused"
  <2>1. m' = m
    BY <1>2 DEF narrowPodSelector, Goto
  <2> QED
    BY <1>1, <1>2, <2>1, Refused
<1>3. CASE phase' # "refused"
  <2>1. phase' = "exclusions" /\ checkSecondarySelectors
    BY <1>3 DEF narrowPodSelector, Goto
  <2>2. ShapeOK /\ m \in ManifestOK /\ OneSite(m.selector)
    BY DEF ScopeInv, ShapeOK
  <2>3. AnnotationsOK'
    BY <1>1 DEF ScopeInv, AnnotationsOK, Annotations
  <2>4. FitsSeen'
    BY <2>1 DEF FitsSeen
  <2>5. \A s \in m.others : s.pods = Any => \A n \in s.names : excludedThroughout[n] = {}
    <3> SUFFICES ASSUME NEW s \in m.others, s.pods = Any, NEW n \in s.names
                 PROVE  excludedThroughout[n] = {}
      OBVIOUS
    <3>1. excluded[n] = {}
      BY <2>1 DEF checkSecondarySelectors, selectsPods, Excludes
    <3>2. n \in NS
      BY <2>2 DEF ManifestOK, Sites
    <3> QED
      BY <3>1, <3>2 DEF ScopeInv, AnnotationsOK
  <2>6. CASE m' = m
    <3>1. ShapeOK'
      BY <1>1, <2>1, <2>6 DEF ScopeInv, ShapeOK, TargetsKept, ManifestOK, Rows, SPhases, Annotations
    <3>2. NamespacesSeen'
      BY <1>1, <2>1, <2>6 DEF ScopeInv, NamespacesSeen, PinnedPhases, TargetNamespaces, Annotations
    <3>3. Primary.pods = Any => \A n \in TargetNamespaces : excludedThroughout[n] = {}
      <4> SUFFICES ASSUME Primary.pods = Any, NEW n \in TargetNamespaces PROVE excludedThroughout[n] = {}
        OBVIOUS
      <4>1. ~ selectsPods(Primary)
        BY DEF selectsPods
      <4>2. ~ Agreed \/ m' # m
        <5> SUFFICES ASSUME Agreed PROVE m' # m
          OBVIOUS
        <5>1. m' = [m EXCEPT !.selector = {[Primary EXCEPT !.pods = CHOOSE l \in TargetLabels : TRUE]}]
          BY <2>1, <4>1 DEF narrowPodSelector
        <5> DEFINE label == CHOOSE l \in TargetLabels : TRUE
        <5>2. label \in Workload
          BY <2>2, AgreedLabel
        <5> HIDE DEF label
        <5>3. m'.selector = {[Primary EXCEPT !.pods = label]}
          BY <2>2, <5>1 DEF ManifestOK, label
        <5>4. Primary = [names |-> Primary.names, pods |-> Any]
          BY <2>2, <4>1, PrimarySite DEF selectsPods, Sites
        <5>5. [Primary EXCEPT !.pods = label] # Primary
          BY <5>2, <5>4
        <5>6. m.selector # {} => m.selector = {Primary}
          BY <2>2, PrimarySite
        <5> QED
          BY <5>3, <5>5, <5>6
      <4>3. ~ RefuseOpen
        BY <1>3, <2>1, <2>6, <4>1, <4>2 DEF narrowPodSelector, Goto
      <4>4. excluded[n] = {} /\ n \in NS
        BY <2>2, <4>3, TargetNamespacesTyped DEF RefuseOpen, Excludes
      <4> QED
        BY <4>4 DEF ScopeInv, AnnotationsOK
    <3>4. OpenSeen'
      BY <1>1, <2>5, <2>6, <3>3 DEF OpenSeen, Annotations, Primary, TargetNamespaces
    <3>5. ASSUME Unsaid PROVE Primary.names \subseteq TargetNamespaces /\ ~ selectsPods(Primary)
      BY <1>1, <2>2, <3>5, PrimarySite DEF ScopeInv, ChoiceKept, selectsPods
    <3>6. ChoiceKept'
      BY <1>1, <2>1, <2>6, <3>5 DEF ChoiceKept, Unsaid, Primary, selectsPods, TargetNamespaces
    <3> QED
      BY <2>3, <2>4, <3>1, <3>2, <3>4, <3>6 DEF ScopeInv
  <2>7. CASE m' # m
    <3> DEFINE label == CHOOSE l \in TargetLabels : TRUE
    <3>1. ~ selectsPods(Primary) /\ Agreed /\ m' = [m EXCEPT !.selector = {[Primary EXCEPT !.pods = label]}]
      BY <2>1, <2>7 DEF narrowPodSelector
    <3>2. label \in Workload /\ label # None /\ \A i \in Rows : m.targets[i].labels = label
      BY <2>2, <3>1, AgreedLabel
    <3> HIDE DEF label
    <3>3. Primary = [names |-> Primary.names, pods |-> Any] /\ Primary.names \in SUBSET NS
      BY <2>2, <3>1, PrimarySite DEF selectsPods, Sites
    <3> DEFINE site == [names |-> Primary.names, pods |-> label]
    <3>4. /\ m'.targets = m.targets /\ m'.others = m.others /\ m'.needs = m.needs
          /\ m'.selector = {site} /\ site \in Sites
          /\ m' = [targets |-> m'.targets, selector |-> m'.selector, others |-> m'.others, needs |-> m'.needs]
      BY <2>2, <3>1, <3>2, <3>3 DEF ManifestOK, Sites
    <3>5. Primary' = site /\ site.names = Primary.names /\ site.pods = label /\ label # Any
      BY <3>2, <3>4 DEF Primary
    <3> HIDE DEF site
    <3>6. (m \in ManifestOK)' /\ OneSite(m'.selector)
      BY <1>1, <2>2, <3>4 DEF ManifestOK, Rows, OneSite
    <3>7. ShapeOK'
      BY <1>1, <2>1, <2>2, <3>4, <3>6 DEF ShapeOK, TargetsKept, Rows, SPhases, Annotations
    <3>8. TargetNamespaces' = TargetNamespaces
      BY <3>4 DEF TargetNamespaces
    <3>9. Primary.names \subseteq eligibleOnce
      BY <1>1, <2>2, PrimarySite DEF ScopeInv, NamespacesSeen, PinnedPhases
    <3>10. NamespacesSeen'
      BY <1>1, <2>1, <3>4, <3>5, <3>8, <3>9 DEF ScopeInv, NamespacesSeen, PinnedPhases, Annotations
    <3>11. OpenSeen'
      BY <1>1, <2>5, <3>4, <3>5 DEF OpenSeen, Annotations
    <3>12. ASSUME Unsaid PROVE Primary.names \subseteq TargetNamespaces
      BY <1>1, <2>2, <3>12, PrimarySite DEF ScopeInv, ChoiceKept
    <3>13. ChoiceKept'
      BY <1>1, <2>1, <3>2, <3>4, <3>5, <3>8, <3>12 DEF ChoiceKept, Unsaid, selectsPods, Rows
    <3> QED
      BY <2>3, <2>4, <3>7, <3>10, <3>11, <3>13 DEF ScopeInv
  <2> QED
    BY <2>6, <2>7
<1> QED
  BY <1>2, <1>3

LEMMA LastChecksKeep ==
  ASSUME ScopeInv, withExclusions \/ Compat
  PROVE  ScopeInv'
<1>1. /\ phase \in {"exclusions", "compat"} /\ phase' \in {"compat", "accepted", "refused"}
      /\ UNCHANGED <<given, m, fits, Annotations>> /\ unread' \in BOOLEAN
  BY DEF withExclusions, Compat, Goto, ScopeInv, ShapeOK
<1>2. ShapeOK' /\ AnnotationsOK'
  BY <1>1 DEF ScopeInv, ShapeOK, AnnotationsOK, TargetsKept, ManifestOK, Rows, SPhases, Annotations
<1>3. NamespacesSeen'
  BY <1>1 DEF ScopeInv, NamespacesSeen, PinnedPhases, Narrowed, TargetNamespaces, Annotations
<1>4. OpenSeen'
  BY <1>1 DEF ScopeInv, OpenSeen, Narrowed, Primary, TargetNamespaces, Annotations
<1>5. ChoiceKept'
  BY <1>1 DEF ScopeInv, ChoiceKept, Unsaid, Narrowed, Primary, TargetNamespaces, selectsPods, Rows
<1>6. FitsSeen'
  <2> SUFFICES ASSUME phase' = "accepted", m.needs, ~ unread', NEW i \in Rows, m.targets[i].labels # None
               PROVE  <<m.targets[i].ns, m.targets[i].labels>> \in fits
    BY <1>1 DEF FitsSeen, Rows
  <2>1. Compat
    BY DEF withExclusions, Goto
  <2>2. DOMAIN m.targets = Rows
    BY TargetNamespacesTyped DEF ScopeInv
  <2> QED
    BY <2>1, <2>2 DEF Compat, Goto, checkTargetCompat
<1> QED
  BY <1>2, <1>3, <1>4, <1>5, <1>6 DEF ScopeInv

\* An edit of the annotations takes nothing back that was judged: a namespace that was
\* eligible once stays so, and what was not excluded then is not excluded throughout.
LEMMA AnnotateKeeps ==
  ASSUME ScopeInv, NEW n \in NS, NEW on \in BOOLEAN, NEW ex \in Exclusions, Annotate(n, on, ex)
  PROVE  ScopeInv'
<1>1. UNCHANGED <<given, m, phase, fits, unread>> /\ edits' = edits + 1 /\ edits < MaxAnnotations
  BY DEF Annotate
<1>2. ShapeOK'
  BY <1>1 DEF ScopeInv, ShapeOK, TargetsKept, ManifestOK, Rows
<1>3. /\ eligible' \subseteq NS /\ eligible' \subseteq eligibleOnce' /\ eligibleOnce \subseteq eligibleOnce'
      /\ excluded' \in [NS -> Exclusions]
  BY DEF Annotate, ScopeInv, AnnotationsOK
<1>4. excludedThroughout' = [k \in NS |-> excludedThroughout[k] \cap excluded'[k]]
  BY DEF Annotate
<1>5. \A k \in NS : excludedThroughout'[k] \subseteq excludedThroughout[k] /\ excludedThroughout'[k] \subseteq excluded'[k]
  BY <1>4
<1>6. AnnotationsOK'
  BY <1>3, <1>4, <1>5 DEF ScopeInv, AnnotationsOK
<1>7. NamespacesSeen'
  BY <1>1, <1>3 DEF ScopeInv, NamespacesSeen, TargetNamespaces
<1>8. \A s \in m.others : s.names \subseteq NS
  BY DEF ScopeInv, ShapeOK, ManifestOK, Sites
<1>9. TargetNamespaces \subseteq NS
  BY TargetNamespacesTyped DEF ScopeInv
<1>10. OpenSeen'
  BY <1>1, <1>5, <1>8, <1>9 DEF ScopeInv, OpenSeen, Primary, TargetNamespaces
<1>11. ChoiceKept'
  BY <1>1 DEF ScopeInv, ChoiceKept, Unsaid, Primary, TargetNamespaces, selectsPods, Rows
<1>12. FitsSeen'
  BY <1>1 DEF ScopeInv, FitsSeen, Rows
<1> QED
  BY <1>2, <1>6, <1>7, <1>10, <1>11, <1>12 DEF ScopeInv

LEMMA ScopeInvStep == ScopeInv /\ [SNext]_svars => ScopeInv'
<1> SUFFICES ASSUME ScopeInv, [SNext]_svars PROVE ScopeInv'
  OBVIOUS
<1>1. CASE UNCHANGED svars
  <2>1. ShapeOK' /\ AnnotationsOK' /\ NamespacesSeen'
    BY <1>1 DEF ScopeInv, ShapeOK, AnnotationsOK, NamespacesSeen, TargetsKept, ManifestOK, Rows,
                TargetNamespaces, svars, Annotations
  <2>2. OpenSeen' /\ ChoiceKept' /\ FitsSeen'
    BY <1>1 DEF ScopeInv, OpenSeen, ChoiceKept, FitsSeen, Unsaid, Primary, TargetNamespaces, selectsPods,
                Rows, svars, Annotations
  <2> QED
    BY <2>1, <2>2 DEF ScopeInv
<1>2. CASE LookupFails
  BY <1>2, Refused DEF LookupFails, Goto
<1> QED
  BY <1>1, <1>2, validateTargetsKeeps, validateSpecNamespaceScopeKeeps, resolveTargetLabelsKeeps,
     narrowPodSelectorKeeps, LastChecksKeep, AnnotateKeeps DEF SNext

(***************************************************************************)
(* Scope: what was judged is what is reached.                              *)
(***************************************************************************)
LEMMA ReachFromInv ==
  ASSUME ScopeInv, phase = "accepted"
  PROVE  OnlyEligible /\ OpenSelectorsSpare /\ NarrowedFits
<1>1. ShapeOK /\ OneSite(m.selector) /\ m \in ManifestOK /\ m.targets[1].ns \in TargetNamespaces
  BY TargetNamespacesTyped DEF ScopeInv, ShapeOK
<1>2. Primary \in m.selector \/ Primary = [names |-> {}, pods |-> Any]
  BY <1>1, PrimarySite
<1>3. ASSUME NEW s \in {Primary} \cup m.others, NEW p \in Chosen(s)
      PROVE  p[1] \in s.names \/ (s.names = {} /\ p[1] = m.targets[1].ns)
  BY DEF Chosen
<1>4. OnlyEligible
  <2> SUFFICES ASSUME NEW s \in {Primary} \cup m.others, NEW p \in Chosen(s) PROVE p[1] \in eligibleOnce
    BY DEF OnlyEligible, Reach
  <2>1. s.names \subseteq eligibleOnce /\ TargetNamespaces \subseteq eligibleOnce
    BY <1>2 DEF ScopeInv, NamespacesSeen, PinnedPhases, Narrowed
  <2> QED
    BY <1>1, <1>3, <2>1
<1>5. OpenSelectorsSpare
  <2> SUFFICES ASSUME NEW s \in {Primary} \cup m.others, s.pods = Any,
                      s \in m.others \/ s.names \subseteq TargetNamespaces, NEW p \in Chosen(s)
               PROVE  excludedThroughout[p[1]] = {}
    BY DEF OpenSelectorsSpare
  <2>1. CASE s \in m.others
    BY <1>3, <2>1 DEF ScopeInv, NamespacesSeen, OpenSeen, PinnedPhases, Narrowed
  <2>2. CASE s = Primary /\ s.names \subseteq TargetNamespaces
    BY <1>1, <1>3, <2>2 DEF ScopeInv, OpenSeen, Narrowed
  <2> QED
    BY <2>1, <2>2
<1>6. NarrowedFits
  <2> SUFFICES ASSUME m.needs, ~ unread, selectsPods(Primary), Unsaid, NEW p \in Chosen(Primary)
               PROVE  p \in fits
    BY DEF NarrowedFits, Unsaid
  <2>1. /\ Primary.names \subseteq TargetNamespaces /\ Primary.pods # None
        /\ \A i \in Rows : m.targets[i].labels = Primary.pods
    BY DEF ScopeInv, ChoiceKept, Narrowed
  <2>2. p \in NS \X Workload /\ p[2] = Primary.pods
    BY DEF Chosen, selectsPods
  <2>3. p[1] \in TargetNamespaces
    BY <1>1, <1>3, <2>1
  <2>4. PICK i \in Rows : m.targets[i].ns = p[1]
    BY <1>1, <2>3, TargetNamespacesTyped DEF TargetNamespaces
  <2>5. <<m.targets[i].ns, m.targets[i].labels>> \in fits
    BY <2>1 DEF ScopeInv, FitsSeen
  <2>6. p = <<m.targets[i].ns, m.targets[i].labels>>
    BY <2>1, <2>2, <2>4
  <2> QED
    BY <2>5, <2>6
<1> QED
  BY <1>4, <1>5, <1>6

LEMMA ScopeInvGives == ScopeInv => ReachJudged
<1> SUFFICES ASSUME ScopeInv PROVE ReachJudged
  OBVIOUS
<1>1. Cardinality(m.selector) <= 1
  <2>1. m.selector = {} \/ \E s : m.selector = {s}
    BY DEF ScopeInv, ShapeOK, OneSite
  <2>2. Cardinality(m.selector) \in {0, 1}
    BY <2>1, FS_EmptySet, FS_Singleton
  <2> QED
    BY <2>2
<1>2. /\ m.selector \subseteq Sites /\ m.others \subseteq Sites
      /\ DOMAIN m.targets = Rows /\ \A i \in Rows : m.targets[i] \in Aims
  BY DEF ScopeInv, ShapeOK, ManifestOK
<1>3. STypeOK
  BY <1>1, <1>2 DEF ScopeInv, ShapeOK, TargetsKept, SPhases, AnnotationsOK, STypeOK, Decided
<1>4. CASE phase = "accepted"
  BY <1>3, <1>4, ReachFromInv DEF ReachJudged
<1>5. CASE phase # "accepted"
  BY <1>3, <1>5 DEF ReachJudged, OnlyEligible, OpenSelectorsSpare, NarrowedFits
<1> QED
  BY <1>4, <1>5

\* An accepted Chaos Mesh fault reaches only namespaces that were eligible, its open
\* selectors cover no workload excluded throughout, and where the executor narrowed
\* it the pods it looked at are the pods it reaches: for every manifest, however the
\* annotations are edited between the reads of one call.
THEOREM ReachAlwaysJudged == SSpec => []ReachJudged
  BY ScopeInvInit, ScopeInvStep, ScopeInvGives, PTL DEF SSpec

(***************************************************************************)
(* Probe: the gates and the answers.                                       *)
(***************************************************************************)
\* A half of a gate: no probe, or one.
Half(q) ==
    \/ Len(q) = 0 /\ DOMAIN q = {}
    \/ Len(q) = 1 /\ DOMAIN q = {1} /\ q[1] \in httpSpecs

LEMMA PairHalves ==
    /\ Half(reachabilityPair.sot) /\ Half(reachabilityPair.settle)
    /\ Half(delayPair(4).sot) /\ Half(delayPair(4).settle)
    /\ Half(NoGate.sot) /\ Half(NoGate.settle)
<1>1. RequestTimeout \in 1 .. 3 /\ 4 \div 4 = 1 /\ 4 \div 2 = 2
    BY ProbeAssumption, ManifestsAssumption
<1>2. ASSUME NEW s \in httpSpecs PROVE Half(<<s>>)
    BY DEF Half
<1>3. /\ Cond(TRUE, FALSE, 0, 0, RequestTimeout) \in httpSpecs /\ Cond(FALSE, TRUE, 0, 0, RequestTimeout) \in httpSpecs
      /\ Cond(TRUE, FALSE, 0, 1, RequestTimeout) \in httpSpecs
      /\ Cond(FALSE, FALSE, 2, 0, 3) \in httpSpecs
    BY <1>1 DEF Cond, httpSpecs
<1>4. Half(<<>>)
    BY DEF Half
<1>5. /\ reachabilityPair.sot = <<Cond(TRUE, FALSE, 0, 0, RequestTimeout)>>
      /\ reachabilityPair.settle = <<Cond(FALSE, TRUE, 0, 0, RequestTimeout)>>
      /\ delayPair(4).sot = <<Cond(TRUE, FALSE, 0, 1, RequestTimeout)>>
      /\ delayPair(4).settle = <<Cond(FALSE, FALSE, 2, 0, 3)>>
      /\ NoGate.sot = <<>> /\ NoGate.settle = <<>>
    BY <1>1 DEF reachabilityPair, delayPair, NoGate
<1> QED
    BY <1>2, <1>3, <1>4, <1>5

LEMMA GateHalves ==
    ASSUME NEW g \in Manifests
    PROVE  Half(DefaultProbes(g).sot) /\ Half(DefaultProbes(g).settle)
<1>1. ASSUME NEW s \in httpSpecs PROVE Half(<<s>>)
    BY DEF Half
<1>2. networkPolicyProbes(g) \in {reachabilityPair, NoGate}
    BY DEF networkPolicyProbes
<1>3. networkChaosProbes(g) \in {reachabilityPair, delayPair(4), NoGate}
    BY DEF networkChaosProbes
<1>4. CASE g.own # {}
    <2>1. PICK s : s = (CHOOSE x \in g.own : TRUE)
        OBVIOUS
    <2>2. s \in httpSpecs
        BY <1>4, <2>1, ManifestsAssumption
    <2>3. DefaultProbes(g) = [networkPolicyProbes(g) EXCEPT !.settle = <<s>>]
        BY <1>4, <2>1 DEF DefaultProbes
    <2>4. DefaultProbes(g).settle = <<s>> /\ DefaultProbes(g).sot = networkPolicyProbes(g).sot
        BY <1>2, <2>3 DEF reachabilityPair, NoGate
    <2> QED
        BY <1>1, <1>2, <2>2, <2>4, PairHalves
<1>5. CASE g.own = {} /\ g.engine = "network-policy"
    <2>1. DefaultProbes(g) = networkPolicyProbes(g)
        BY <1>5 DEF DefaultProbes
    <2> QED
        BY <1>2, <2>1, PairHalves
<1>6. CASE g.own = {} /\ g.engine = "chaos-mesh"
    <2>1. DefaultProbes(g) = networkChaosProbes(g)
        BY <1>6 DEF DefaultProbes
    <2> QED
        BY <1>3, <2>1, PairHalves
<1>7. CASE g.own = {} /\ g.engine = "kube-state"
    <2>1. DefaultProbes(g).sot = <<>> /\ DefaultProbes(g).settle = <<objectCond>>
        BY <1>7 DEF DefaultProbes
    <2>2. RequestTimeout \in 1 .. 3
        BY ProbeAssumption, ManifestsAssumption
    <2>3. objectCond \in httpSpecs
        <3>1. objectCond = [unreachable |-> FALSE, reachable |-> FALSE, value |-> TRUE, min |-> 0, max |-> 0,
                            request |-> RequestTimeout, dwell |-> 2]
            BY DEF objectCond
        <3>2. PICK w \in 1 .. 3 : w = RequestTimeout
            BY <2>2
        <3> QED
            BY <3>1, <3>2 DEF httpSpecs
    <2> QED
        BY <1>1, <2>1, <2>3 DEF Half
<1> QED
    BY <1>4, <1>5, <1>6, <1>7, ManifestsAssumption

LEMMA AnswerTypes ==
    ASSUME NEW s \in httpSpecs, NEW c, NEW n
    PROVE  answer(c, s, n) \in Attempts /\ answer(c, s, n).latency \in 0 .. 3
<1>1. s.request \in 1 .. 3
    BY DEF httpSpecs
<1> QED
    BY <1>1 DEF answer, Attempts, Errors, Latencies

\* The states of a pod in which a fault shows, and those in which it does not yet.
Delays(g) == g.engine = "chaos-mesh" /\ g.action = "delay"
Answering == IF RequestTimeout >= 2 THEN {"up", "slow"} ELSE {"up"}
Wanted(g) ==
    IF g.engine = "kube-state" THEN {"slow"} ELSE IF Delays(g) THEN {"slow", "hole"} ELSE Nets \ Answering
Good(g) == IF Delays(g) THEN {"up"} ELSE Answering

\* Which pods satisfy the halves of the default gates.
LEMMA AnswersTell ==
    ASSUME NEW g \in Manifests, g.own = {}, DefaultProbes(g).settle # <<>>
    PROVE  /\ Len(DefaultProbes(g).settle) = 1
           /\ \A n \in Nets : satisfied(DefaultProbes(g).settle[1], answer("live", DefaultProbes(g).settle[1], n)) =>
                n \in Wanted(g)
           /\ g.engine # "kube-state" =>
                /\ Len(DefaultProbes(g).sot) = 1
                /\ \A n \in Nets : satisfied(DefaultProbes(g).sot[1], answer("live", DefaultProbes(g).sot[1], n)) =>
                     n \in Good(g)
<1>1. RequestTimeout \in 1 .. 3 /\ 4 \div 4 = 1 /\ 4 \div 2 = 2
    BY ProbeAssumption, ManifestsAssumption
<1>2. ASSUME NEW s, s \in {Cond(TRUE, FALSE, 0, 0, RequestTimeout), Cond(TRUE, FALSE, 0, 1, RequestTimeout)},
             NEW n \in Nets, satisfied(s, answer("live", s, n))
      PROVE  n \in Answering /\ (s.max = 1 => n = "up")
    <2>1. ~ s.unreachable /\ s.min = 0 /\ ~ s.value /\ s.request = RequestTimeout /\ s.max \in {0, 1}
        BY <1>2 DEF Cond
    <2>2. answer("live", s, n).err = "none" /\ (s.max = 1 => answer("live", s, n).latency <= 1)
        BY <1>2, <2>1 DEF satisfied, timedOutSlowly, slowCountsAsTimeout
    <2>3. n = "up" \/ (n = "slow" /\ RequestTimeout >= 2 /\ answer("live", s, n).latency = 2)
        BY <2>1, <2>2 DEF answer, Nets
    <2> QED
        BY <2>2, <2>3 DEF Answering
<1>3. ASSUME NEW s, s = Cond(FALSE, TRUE, 0, 0, RequestTimeout), NEW n \in Nets, satisfied(s, answer("live", s, n))
      PROVE  n \in Nets \ Answering
    <2>1. s.unreachable /\ ~ s.value /\ s.request = RequestTimeout
        BY <1>3 DEF Cond
    <2>2. answer("live", s, n).err # "none"
        BY <1>3, <2>1 DEF satisfied
    <2> QED
        BY <2>1, <2>2 DEF answer, Nets, Answering
<1>4. ASSUME NEW s, s = Cond(FALSE, FALSE, 2, 0, 3), NEW n \in Nets, satisfied(s, answer("live", s, n))
      PROVE  n \in {"slow", "hole"}
    <2>1. ~ s.unreachable /\ s.min = 2 /\ ~ s.value /\ s.request = 3
        BY <1>4 DEF Cond
    <2>2. answer("live", s, n).err = "refused" => FALSE
        BY <1>4, <2>1 DEF satisfied, timedOutSlowly
    <2>3. answer("live", s, n).err = "none" => answer("live", s, n).latency >= 2
        <3>1. SUFFICES ASSUME answer("live", s, n).err = "none" PROVE answer("live", s, n).latency >= 2
            OBVIOUS
        <3>2. s.min > 0 => answer("live", s, n).latency >= s.min
            BY <1>4, <2>1, <3>1 DEF satisfied
        <3>3. 2 > 0
            OBVIOUS
        <3> QED
            BY <2>1, <3>2, <3>3
    <2> QED
        BY <2>1, <2>2, <2>3 DEF answer, Nets
<1>5. ASSUME NEW n \in Nets, satisfied(objectCond, answer("live", objectCond, n)) PROVE n \in {"slow"}
    <2>1. ~ objectCond.unreachable /\ objectCond.value /\ objectCond.min = 0
        BY DEF objectCond, Cond
    <2>2. answer("live", objectCond, n).err = "none" /\ answer("live", objectCond, n).value = "good"
        BY <1>5, <2>1 DEF satisfied, timedOutSlowly, slowCountsAsTimeout
    <2> QED
        BY <2>2 DEF answer, Nets
<1>6. CASE g.engine = "kube-state"
    <2>1. DefaultProbes(g).settle = <<objectCond>>
        BY <1>6 DEF DefaultProbes
    <2> QED
        BY <1>5, <1>6, <2>1 DEF Wanted
<1>7. CASE DefaultProbes(g) = reachabilityPair /\ g.engine # "kube-state" /\ (g.engine = "chaos-mesh" => g.action # "delay")
    <2>1. PICK s : s = Cond(TRUE, FALSE, 0, 0, RequestTimeout)
        OBVIOUS
    <2>2. PICK e : e = Cond(FALSE, TRUE, 0, 0, RequestTimeout)
        OBVIOUS
    <2>3. DefaultProbes(g).sot = <<s>> /\ DefaultProbes(g).settle = <<e>>
        <3>1. DefaultProbes(g).sot = reachabilityPair.sot /\ DefaultProbes(g).settle = reachabilityPair.settle
            BY <1>7
        <3>2. /\ reachabilityPair.sot = <<Cond(TRUE, FALSE, 0, 0, RequestTimeout)>>
              /\ reachabilityPair.settle = <<Cond(FALSE, TRUE, 0, 0, RequestTimeout)>>
            BY DEF reachabilityPair
        <3> QED
            BY <2>1, <2>2, <3>1, <3>2, Zenon
    <2>4. /\ Len(<<s>>) = 1 /\ Len(<<e>>) = 1 /\ <<s>>[1] = s /\ <<e>>[1] = e
        OBVIOUS
    <2>5. \A n \in Nets : satisfied(s, answer("live", s, n)) => n \in Answering
        BY <1>2, <2>1
    <2>6. \A n \in Nets : satisfied(e, answer("live", e, n)) => n \in Nets \ Answering
        BY <1>3, <2>2
    <2>7. Wanted(g) = Nets \ Answering /\ Good(g) = Answering
        BY <1>7 DEF Wanted, Good, Delays
    <2>8. DefaultProbes(g).sot[1] = s /\ DefaultProbes(g).settle[1] = e
        BY <2>3, <2>4
    <2>9. Len(DefaultProbes(g).sot) = 1 /\ Len(DefaultProbes(g).settle) = 1
        BY <2>3, <2>4
    <2> QED
        BY <2>5, <2>6, <2>7, <2>8, <2>9
<1>8. CASE DefaultProbes(g) = delayPair(4) /\ g.engine = "chaos-mesh" /\ g.action = "delay"
    <2>1. /\ DefaultProbes(g).sot = <<Cond(TRUE, FALSE, 0, 1, RequestTimeout)>>
          /\ DefaultProbes(g).settle = <<Cond(FALSE, FALSE, 2, 0, 3)>>
        <3>1. DefaultProbes(g).sot = delayPair(4).sot /\ DefaultProbes(g).settle = delayPair(4).settle
            BY <1>8
        <3>2. /\ delayPair(4).sot = <<Cond(TRUE, FALSE, 0, 1, RequestTimeout)>>
              /\ delayPair(4).settle = <<Cond(FALSE, FALSE, 2, 0, 3)>>
            BY <1>1 DEF delayPair
        <3> QED
            BY <3>1, <3>2, Zenon
    <2>2. PICK s : s = Cond(TRUE, FALSE, 0, 1, RequestTimeout)
        OBVIOUS
    <2>3. PICK e : e = Cond(FALSE, FALSE, 2, 0, 3)
        OBVIOUS
    <2>4. DefaultProbes(g).sot = <<s>> /\ DefaultProbes(g).settle = <<e>>
        BY <2>1, <2>2, <2>3, Zenon
    <2>5. /\ Len(<<s>>) = 1 /\ Len(<<e>>) = 1 /\ <<s>>[1] = s /\ <<e>>[1] = e
        OBVIOUS
    <2>6. \A n \in Nets : satisfied(s, answer("live", s, n)) => n = "up"
        <3>1. s.max = 1
            BY <2>2 DEF Cond
        <3> QED
            BY <1>2, <2>2, <3>1
    <2>7. \A n \in Nets : satisfied(e, answer("live", e, n)) => n \in {"slow", "hole"}
        BY <1>4, <2>3
    <2>8. Wanted(g) = {"slow", "hole"} /\ Good(g) = {"up"}
        BY <1>8 DEF Wanted, Good, Delays
    <2>9. DefaultProbes(g).sot[1] = s /\ DefaultProbes(g).settle[1] = e
        BY <2>4, <2>5
    <2>10. Len(DefaultProbes(g).sot) = 1 /\ Len(DefaultProbes(g).settle) = 1
        BY <2>4, <2>5
    <2> QED
        BY <2>6, <2>7, <2>8, <2>9, <2>10
<1>9. \/ g.engine = "kube-state"
      \/ DefaultProbes(g) = reachabilityPair /\ g.engine # "kube-state" /\ (g.engine = "chaos-mesh" => g.action # "delay")
      \/ DefaultProbes(g) = delayPair(4) /\ g.engine = "chaos-mesh" /\ g.action = "delay"
    <2>1. NoGate.settle = <<>>
        BY DEF NoGate
    <2>2. g.engine \in {"network-policy", "chaos-mesh", "kube-state"} /\ g.ingress \in BOOLEAN /\ g.between \in BOOLEAN
        BY ManifestsAssumption
    <2>3. CASE g.engine = "network-policy"
        BY <2>1, <2>2, <2>3 DEF DefaultProbes, networkPolicyProbes
    <2>4. CASE g.engine = "chaos-mesh"
        BY <2>1, <2>2, <2>4 DEF DefaultProbes, networkChaosProbes
    <2> QED
        BY <2>2, <2>3, <2>4
<1> QED
    BY <1>6, <1>7, <1>8, <1>9

\* A probe that parses, and asks for more than an answer, can fail.
LEMMA CanFail ==
    ASSUME NEW s \in httpSpecs, parseHTTPSpec(s), ~ s.reachable
    PROVE  \E a \in Attempts : a.err = "none" /\ ~ satisfied(s, a)
<1> DEFINE At(l, v) == [err |-> "none", latency |-> l, value |-> v]
<1>1. /\ s.unreachable \in BOOLEAN /\ s.value \in BOOLEAN /\ s.min \in 0 .. 2 /\ s.max \in 0 .. 2
    BY DEF httpSpecs
<1>2. \A l \in 0 .. 4, v \in {"good", "bad"} : At(l, v) \in Attempts
    BY DEF Attempts, Errors, Latencies
<1>3. s.unreachable \/ s.value \/ s.min > 0 \/ s.max > 0
    BY DEF parseHTTPSpec, Stated
<1>4. CASE s.unreachable
    <2>1. At(0, "good") \in Attempts /\ ~ satisfied(s, At(0, "good"))
        BY <1>2, <1>4 DEF satisfied
    <2> QED
        BY <2>1
<1>5. CASE ~ s.unreachable /\ (s.value \/ s.min > 0)
    <2>1. At(0, "bad") \in Attempts /\ ~ satisfied(s, At(0, "bad"))
        BY <1>1, <1>2, <1>5 DEF satisfied
    <2> QED
        BY <2>1
<1>6. CASE ~ s.unreachable /\ s.max > 0
    <2>1. At(3, "bad") \in Attempts /\ ~ satisfied(s, At(3, "bad"))
        BY <1>1, <1>2, <1>6 DEF satisfied
    <2> QED
        BY <2>1
<1> QED
    BY <1>3, <1>4, <1>5, <1>6

(***************************************************************************)
(* Probe: the inductive invariant.                                         *)
(***************************************************************************)
SawOK ==
    /\ saw = [s \in {"sot", "settle"} |-> saw[s]]
    /\ \A s \in {"sot", "settle"} : \A p \in DOMAIN saw[s] : saw[s][p] \in Nets

\* A hold begins after the last poll that did not see the condition, and Settle with its
\* first probe.
HoldOK == (heldSince >= 0 => falseAt <= heldSince) /\ (stage = "inject" => probeNo = 1)

\* A round begins before the timeout or one wait after it, and takes three ticks for
\* every pod at most.
Paced ==
    Running =>
        /\ pc = "list" => clock <= since + Timeout + Interval
        /\ pc = "hit" => clock + 3 * Cardinality(unasked) <= since + Timeout + Interval + 3 * Cardinality(TPods)
        /\ clock <= since + Timeout + Interval + 3 * Cardinality(TPods)

\* A probe that asks, and one that has passed, parses.
Parsed ==
    /\ Running /\ pc # "list" => parseHTTPSpec(Spec1)
    /\ (stage = "settle" /\ probeNo > 1) \/ stage = "verified" =>
        \A i \in DOMAIN DefaultProbes(manifest).settle : parseHTTPSpec(DefaultProbes(manifest).settle[i])

ShownBefore ==
    manifest.engine # "kube-state" =>
        DOMAIN saw["sot"] # {} /\ \A p \in DOMAIN saw["sot"] : saw["sot"][p] \in Good(manifest)
ShownAfter == DOMAIN saw["settle"] # {} /\ \A p \in DOMAIN saw["settle"] : saw["settle"][p] \in Wanted(manifest)

\* Without a shutdown the answers of a round are those of the pods as they were when they
\* were asked, and a half that has passed has seen what its condition is about.
Told == Running /\ pc \in {"hit", "judge"} =>
            /\ DOMAIN got = DOMAIN saw[stage]
            /\ \A p \in DOMAIN got : got[p] = answer("live", Spec1, saw[stage][p])
Shown ==
    ctx = "live" /\ manifest.own = {} /\ DefaultProbes(manifest).settle # <<>> =>
        /\ Told
        /\ (stage = "sot" /\ probeNo > 1) \/ stage \in {"inject", "settle", "verified"} => ShownBefore
        /\ (stage = "settle" /\ probeNo > 1) \/ stage = "verified" => ShownAfter

ProbeInv == PrTypeOK /\ SawOK /\ HoldOK /\ Paced /\ Parsed /\ Shown

LEMMA RunningOne ==
    ASSUME PrTypeOK, Running
    PROVE  /\ probeNo = 1 /\ Len(Probes) = 1 /\ DOMAIN Probes = {1} /\ Spec1 = Probes[1]
           /\ Spec1 \in httpSpecs /\ stage \in {"sot", "settle"}
<1>1. Half(Probes)
    BY GateHalves DEF PrTypeOK, Probes
<1>2. stage \in {"sot", "settle"} /\ probeNo <= Len(Probes) /\ probeNo \in 1 .. 2
    BY DEF Running, PrTypeOK
<1>3. Len(Probes) = 1 /\ DOMAIN Probes = {1} /\ Probes[1] \in httpSpecs
    BY <1>1, <1>2 DEF Half
<1>4. probeNo = 1
    BY <1>2, <1>3
<1> QED
    BY <1>2, <1>3, <1>4 DEF Spec1

LEMMA PodsCounted == Cardinality(TPods) \in Nat /\ \A S \in SUBSET TPods :
                        IsFiniteSet(S) /\ Cardinality(S) \in Nat /\ Cardinality(S) <= Cardinality(TPods)
    BY ManifestsAssumption, FS_Subset, FS_CardinalityType

LEMMA ProbeInvInit == PrInit => ProbeInv
<1> SUFFICES ASSUME PrInit PROVE ProbeInv
    OBVIOUS
<1>1. PrTypeOK
    <2>1. net \in [TPods -> Nets] /\ DOMAIN got = {} /\ unasked = {}
        BY DEF PrInit, Nets, NoAttempts
    <2>2. 0 \in 0 .. MaxChanges /\ 0 \in 0 .. MaxListErrors /\ -1 \in -1 .. 0 /\ 0 \in 0 .. 0
        BY ProbeAssumption
    <2>3. /\ manifest \in Manifests /\ stage = "sot" /\ probeNo = 1 /\ clock = 0 /\ since = 0 /\ pc = "list"
          /\ heldSince = -1 /\ falseAt = -1 /\ ctx = "live" /\ changes = 0 /\ listErrors = 0
        BY DEF PrInit
    <2>4. lastErr \in BOOLEAN
        BY DEF PrInit
    <2>5. /\ clock \in Nat /\ since \in 0 .. clock /\ heldSince \in -1 .. clock /\ falseAt \in -1 .. clock
          /\ probeNo \in 1 .. 2 /\ changes \in 0 .. MaxChanges /\ listErrors \in 0 .. MaxListErrors
        BY <2>2, <2>3
    <2>6. unasked \subseteq TPods /\ unasked \cap DOMAIN got = {} /\ \A p \in DOMAIN got : got[p] \in Attempts
        BY <2>1
    <2> QED
        BY <2>1, <2>3, <2>4, <2>5, <2>6 DEF PrTypeOK
<1>2. SawOK /\ HoldOK
    BY DEF PrInit, SawOK, HoldOK
<1>3. Paced
    <2>1. clock = 0 /\ since = 0 /\ pc = "list"
        BY DEF PrInit
    <2>2. Cardinality(TPods) \in Nat
        BY PodsCounted
    <2> QED
        BY <2>1, <2>2, ProbeAssumption DEF Paced
<1>4. Parsed
    BY DEF PrInit, Parsed
<1>5. Shown
    BY DEF PrInit, Shown, Told
<1> QED
    BY <1>1, <1>2, <1>3, <1>4, <1>5 DEF ProbeInv

\* What the probes do not decide: pods change, and the caller goes away.
LEMMA ProbeKeptByWorld ==
    ASSUME ProbeInv, Shutdown \/ \E p \in TPods : Lands(p) \/ \E n \in Nets : Changes(p, n)
    PROVE  ProbeInv'
<1>1. /\ UNCHANGED <<manifest, stage, probeNo, clock, since, pc, unasked, got, heldSince, lastErr, listErrors, saw, falseAt>>
      /\ ctx' \in {ctx, "over"}
    BY DEF Shutdown, Lands, Changes
<1>2. net' \in [TPods -> Nets] /\ changes' \in 0 .. MaxChanges
    <2>1. net \in [TPods -> Nets] /\ changes \in 0 .. MaxChanges
        BY DEF ProbeInv, PrTypeOK
    <2>2. Effect \in Nets
        BY DEF Effect, Nets
    <2>3. CASE Shutdown
        BY <2>1, <2>3 DEF Shutdown
    <2>4. ASSUME NEW p \in TPods, Lands(p) PROVE net' \in [TPods -> Nets] /\ changes' \in 0 .. MaxChanges
        BY <2>1, <2>2, <2>4 DEF Lands
    <2>5. ASSUME NEW p \in TPods, NEW n \in Nets, Changes(p, n)
          PROVE  net' \in [TPods -> Nets] /\ changes' \in 0 .. MaxChanges
        BY <2>1, <2>5, ProbeAssumption DEF Changes
    <2> QED
        BY <2>3, <2>4, <2>5
<1>3. PrTypeOK'
    BY <1>1, <1>2 DEF ProbeInv, PrTypeOK
<1>4. (SawOK /\ HoldOK)'
    BY <1>1 DEF ProbeInv, SawOK, HoldOK
<1>5. (Probes' = Probes) /\ (Spec1' = Spec1) /\ (Running' <=> Running)
    BY <1>1 DEF Probes, Spec1, Running
<1>6. Paced' /\ Parsed'
    BY <1>1, <1>5 DEF ProbeInv, Paced, Parsed
<1>7. Shown'
    BY <1>1, <1>5 DEF ProbeInv, PrTypeOK, Shown, Told, ShownBefore, ShownAfter
<1> QED
    BY <1>3, <1>4, <1>6, <1>7 DEF ProbeInv

\* The stage ends, one way or the other.
LEMMA ProbeKeptByRefuse == ASSUME ProbeInv, Unparsed \/ GiveUp PROVE ProbeInv'
<1>1. /\ UNCHANGED <<World, probeNo, clock, since, pc, unasked, got, heldSince, lastErr, saw, falseAt>>
      /\ stage' \in {"rejected", "abandoned"}
    BY DEF Unparsed, GiveUp, Refuse
<1>2. UNCHANGED <<manifest, net, ctx, changes, listErrors>>
    BY <1>1 DEF World
<1>3. PrTypeOK'
    BY <1>1, <1>2 DEF ProbeInv, PrTypeOK, Ended
<1>4. (SawOK /\ HoldOK)'
    BY <1>1 DEF ProbeInv, SawOK, HoldOK
<1>5. ~ Running'
    BY <1>1 DEF Running
<1>6. Paced' /\ Parsed' /\ Shown'
    BY <1>1, <1>5 DEF Paced, Parsed, Shown, Told
<1> QED
    BY <1>3, <1>4, <1>6 DEF ProbeInv

LEMMA ProbeKeptByStageDone == ASSUME ProbeInv, StageDone PROVE ProbeInv'
<1>1. /\ UNCHANGED <<World, clock, since, pc, unasked, got, heldSince, lastErr, saw, falseAt>>
      /\ stage \in {"sot", "settle"} /\ probeNo > Len(Probes) /\ probeNo' = 1
      /\ stage' = IF stage = "sot" THEN "inject" ELSE "verified"
    BY DEF StageDone
<1>2. UNCHANGED <<manifest, net, ctx, changes, listErrors>>
    BY <1>1 DEF World
<1>3. PrTypeOK'
    BY <1>1, <1>2 DEF ProbeInv, PrTypeOK, Ended
<1>4. (SawOK /\ HoldOK)'
    BY <1>1 DEF ProbeInv, SawOK, HoldOK
<1>5. ~ Running' /\ Paced'
    BY <1>1 DEF Running, Paced
<1>6. probeNo \in 1 .. 2 /\ Half(DefaultProbes(manifest).settle) /\ manifest \in Manifests
    BY GateHalves DEF ProbeInv, PrTypeOK
<1>7. Parsed'
    <2>1. stage = "settle" /\ probeNo = 1 => DOMAIN DefaultProbes(manifest).settle = {}
        BY <1>1, <1>6 DEF Probes, Half
    <2>2. stage = "settle" /\ probeNo # 1 => probeNo > 1
        BY <1>6
    <2> QED
        BY <1>1, <1>2, <1>5, <2>1, <2>2 DEF ProbeInv, Parsed
<1>8. Shown'
    <2>1. SUFFICES ASSUME ctx = "live", manifest.own = {}, DefaultProbes(manifest).settle # <<>>
                   PROVE  ShownBefore /\ (stage = "settle" => ShownAfter)
        BY <1>1, <1>2, <1>5 DEF Shown, Told, ShownBefore, ShownAfter
    <2>2. /\ Len(DefaultProbes(manifest).settle) = 1
          /\ manifest.engine # "kube-state" => Len(DefaultProbes(manifest).sot) = 1
        BY <1>6, <2>1, AnswersTell
    <2>3. stage = "settle" => probeNo > 1
        BY <1>1, <2>2 DEF Probes
    <2>4. stage = "sot" /\ manifest.engine # "kube-state" => probeNo > 1
        BY <1>1, <2>2 DEF Probes
    <2>5. stage = "settle" => ShownBefore /\ ShownAfter
        BY <2>1, <2>3 DEF ProbeInv, Shown
    <2>6. stage = "sot" => ShownBefore
        BY <2>1, <2>4 DEF ProbeInv, Shown, ShownBefore
    <2> QED
        BY <1>1, <2>5, <2>6
<1> QED
    BY <1>3, <1>4, <1>5, <1>7, <1>8 DEF ProbeInv

LEMMA ProbeKeptByCallDriver == ASSUME ProbeInv, CallDriver PROVE ProbeInv'
<1>1. /\ UNCHANGED <<World, probeNo, clock, unasked, got, lastErr, saw>>
      /\ stage = "inject" /\ stage' = "settle" /\ since' = clock /\ pc' = "list"
      /\ falseAt' = -1 /\ heldSince' = -1
    BY DEF CallDriver
<1>2. UNCHANGED <<manifest, net, ctx, changes, listErrors>>
    BY <1>1 DEF World
<1>3. PrTypeOK'
    BY <1>1, <1>2 DEF ProbeInv, PrTypeOK
<1>4. (SawOK /\ HoldOK)'
    BY <1>1 DEF ProbeInv, SawOK, HoldOK
<1>5. Paced'
    <2>1. Cardinality(TPods) \in Nat /\ clock \in Nat
        BY PodsCounted DEF ProbeInv, PrTypeOK
    <2> QED
        BY <1>1, <2>1, ProbeAssumption DEF Paced
<1>6. Parsed' /\ Shown'
    <2>1. probeNo = 1 /\ ~ (probeNo > 1)
        BY <1>1 DEF ProbeInv, HoldOK
    <2> QED
        BY <1>1, <1>2, <2>1 DEF ProbeInv, Parsed, Shown, Told, ShownBefore
<1> QED
    BY <1>3, <1>4, <1>5, <1>6 DEF ProbeInv

\* While a probe runs no half of its stage has passed, and its gate stays the same.
LEMMA ProbeRuns ==
    ASSUME ProbeInv, Running, stage' = stage, probeNo' = probeNo, manifest' = manifest, Told' \/ ctx' # "live",
           ctx' \in {ctx, "over"}, saw'["sot"] = saw["sot"] \/ stage = "sot", pc' = "list" \/ parseHTTPSpec(Spec1)
    PROVE  Spec1' = Spec1 /\ Running' /\ Parsed' /\ Shown'
<1>1. probeNo = 1 /\ stage \in {"sot", "settle"}
    BY RunningOne DEF ProbeInv
<1>2. Probes' = Probes /\ Spec1' = Spec1 /\ Running'
    BY DEF Probes, Spec1, Running
<1>3. ~ (probeNo' > 1) /\ stage' # "verified" /\ stage' # "inject"
    BY <1>1
<1>4. Parsed'
    BY <1>2, <1>3 DEF Parsed
<1>5. ASSUME ctx' = "live", manifest.own = {}, DefaultProbes(manifest).settle # <<>>, stage = "settle"
      PROVE  ShownBefore'
    <2>1. ctx = "live" /\ ShownBefore
        BY <1>5 DEF ProbeInv, PrTypeOK, Shown
    <2> QED
        BY <1>5, <2>1 DEF ShownBefore
<1>6. Shown'
    BY <1>1, <1>3, <1>5 DEF Shown
<1> QED
    BY <1>2, <1>4, <1>6

LEMMA ProbeKeptByListPods == ASSUME ProbeInv, ListPods PROVE ProbeInv'
<1>1. /\ Running /\ pc = "list" /\ parseHTTPSpec(Spec1) /\ ctx = "live"
      /\ unasked' = LivePods /\ got' = NoAttempts /\ pc' = "hit" /\ lastErr' \in BOOLEAN
      /\ saw' = [saw EXCEPT ![stage] = [p \in {} |-> "up"]]
      /\ UNCHANGED <<World, stage, probeNo, clock, since, heldSince, falseAt>>
    BY DEF ListPods
<1>2. UNCHANGED <<manifest, net, ctx, changes, listErrors>>
    BY <1>1 DEF World
<1>3. LivePods \subseteq TPods /\ DOMAIN got' = {} /\ stage \in {"sot", "settle"}
    BY <1>1, RunningOne DEF LivePods, NoAttempts, ProbeInv
<1>4. PrTypeOK'
    BY <1>1, <1>2, <1>3 DEF ProbeInv, PrTypeOK
<1>5. /\ saw' = [s \in {"sot", "settle"} |-> saw'[s]] /\ DOMAIN saw'[stage] = {}
      /\ \A s \in {"sot", "settle"} \ {stage} : saw'[s] = saw[s]
    BY <1>1, <1>3 DEF ProbeInv, SawOK
<1>6. (SawOK /\ HoldOK)'
    BY <1>1, <1>5 DEF ProbeInv, SawOK, HoldOK
<1>7. Told'
    BY <1>1, <1>3, <1>5 DEF Told
<1>8. Parsed' /\ Shown' /\ Running'
    <2>1. saw'["sot"] = saw["sot"] \/ stage = "sot"
        BY <1>3, <1>5
    <2> QED
        BY <1>1, <1>2, <1>7, <2>1, ProbeRuns
<1>9. Paced'
    <2>1. PICK c \in Nat : c = Cardinality(LivePods) /\ c <= Cardinality(TPods)
        BY <1>3, PodsCounted
    <2>2. PICK k \in Nat : k = Cardinality(TPods)
        BY PodsCounted
    <2>3. clock \in Nat /\ since \in Nat /\ clock <= since + Timeout + Interval /\ Timeout \in Nat /\ Interval \in Nat
        BY <1>1, ProbeAssumption DEF ProbeInv, PrTypeOK, Paced
    <2>4. /\ clock + 3 * c <= since + Timeout + Interval + 3 * k
          /\ clock <= since + Timeout + Interval + 3 * k
        BY <2>1, <2>2, <2>3
    <2> QED
        BY <1>1, <2>1, <2>2, <2>4 DEF Paced
<1> QED
    BY <1>4, <1>6, <1>8, <1>9 DEF ProbeInv

LEMMA ProbeKeptByListFails == ASSUME ProbeInv, ListFails PROVE ProbeInv'
<1>1. /\ Running /\ pc = "list" /\ parseHTTPSpec(Spec1)
      /\ ctx = "over" \/ LivePods = {} \/ listErrors < MaxListErrors
      /\ listErrors' = IF ctx = "live" /\ LivePods # {} THEN listErrors + 1 ELSE listErrors
      /\ lastErr' \in BOOLEAN /\ pc' = "wait" /\ heldSince' = -1 /\ falseAt' = clock
      /\ UNCHANGED <<manifest, net, ctx, changes, stage, probeNo, clock, since, unasked, got, saw>>
    BY DEF ListFails, DropHold
<1>2. listErrors' \in 0 .. MaxListErrors
    BY <1>1, ProbeAssumption DEF ProbeInv, PrTypeOK
<1>3. PrTypeOK'
    BY <1>1, <1>2 DEF ProbeInv, PrTypeOK
<1>4. (SawOK /\ HoldOK)'
    BY <1>1 DEF ProbeInv, SawOK, HoldOK
<1>5. Told'
    BY <1>1 DEF Told
<1>6. Parsed' /\ Shown' /\ Running'
    BY <1>1, <1>5, ProbeRuns
<1>7. Paced'
    BY <1>1 DEF ProbeInv, Paced
<1> QED
    BY <1>3, <1>4, <1>6, <1>7 DEF ProbeInv

LEMMA ProbeKeptByConnect == ASSUME ProbeInv, NEW p \in TPods, connect(p) PROVE ProbeInv'
<1>0. PICK a : a = answer(ctx, Spec1, net[p])
    OBVIOUS
<1>1. /\ Running /\ pc = "hit" /\ p \in unasked
      /\ unasked' = unasked \ {p}
      /\ got' = [q \in DOMAIN got \cup {p} |-> IF q = p THEN a ELSE got[q]]
      /\ saw' = [saw EXCEPT ![stage] = [q \in DOMAIN saw[stage] \cup {p} |-> IF q = p THEN net[p] ELSE saw[stage][q]]]
      /\ clock' = clock + a.latency
      /\ pc' = IF unasked' = {} THEN "judge" ELSE "hit"
      /\ UNCHANGED <<World, stage, probeNo, since, heldSince, lastErr, falseAt>>
    BY <1>0 DEF connect
<1>2. UNCHANGED <<manifest, net, ctx, changes, listErrors>>
    BY <1>1 DEF World
<1>3. a \in Attempts /\ a.latency \in 0 .. 3 /\ stage \in {"sot", "settle"}
    BY <1>0, <1>1, RunningOne, AnswerTypes DEF ProbeInv
<1>4. PrTypeOK'
    <2>1. clock' \in Nat /\ clock <= clock'
        BY <1>1, <1>3 DEF ProbeInv, PrTypeOK
    <2>2. since' \in 0 .. clock' /\ heldSince' \in -1 .. clock' /\ falseAt' \in -1 .. clock'
        BY <1>1, <2>1 DEF ProbeInv, PrTypeOK
    <2>3. unasked' \subseteq TPods /\ unasked' \cap DOMAIN got' = {} /\ \A q \in DOMAIN got' : got'[q] \in Attempts
        BY <1>1, <1>3 DEF ProbeInv, PrTypeOK
    <2> QED
        BY <1>1, <1>2, <2>1, <2>2, <2>3 DEF ProbeInv, PrTypeOK
<1>5. /\ saw' = [s \in {"sot", "settle"} |-> saw'[s]]
      /\ saw'[stage] = [q \in DOMAIN saw[stage] \cup {p} |-> IF q = p THEN net[p] ELSE saw[stage][q]]
      /\ \A s \in {"sot", "settle"} \ {stage} : saw'[s] = saw[s]
    BY <1>1, <1>3 DEF ProbeInv, SawOK
<1>6. (SawOK /\ HoldOK)'
    <2>1. net[p] \in Nets
        BY DEF ProbeInv, PrTypeOK
    <2>2. \A q \in DOMAIN saw'[stage] : saw'[stage][q] \in Nets
        BY <1>3, <1>5, <2>1 DEF ProbeInv, SawOK
    <2>3. SawOK'
        BY <1>3, <1>5, <2>2 DEF ProbeInv, SawOK
    <2> QED
        BY <1>1, <2>3 DEF ProbeInv, HoldOK
<1>7. Parsed' /\ Shown' /\ Running'
    <2>1. saw'["sot"] = saw["sot"] \/ stage = "sot"
        BY <1>3, <1>5
    <2>2. parseHTTPSpec(Spec1)
        BY <1>1 DEF ProbeInv, Parsed
    <2>3. Spec1' = Spec1
        BY <1>1, <1>2 DEF Spec1, Probes
    <2>4. CASE ctx = "live" /\ Told
        <3>1. DOMAIN got = DOMAIN saw[stage] /\ \A q \in DOMAIN got : got[q] = answer("live", Spec1, saw[stage][q])
            BY <1>1, <2>4 DEF Told
        <3>2. a = answer("live", Spec1, net[p])
            BY <1>0, <2>4
        <3>3. DOMAIN got' = DOMAIN saw'[stage]
            BY <1>1, <1>5, <3>1
        <3>4. ASSUME NEW q \in DOMAIN got' PROVE got'[q] = answer("live", Spec1, saw'[stage][q])
            BY <1>1, <1>5, <3>1, <3>2
        <3>5. Told'
            BY <1>1, <2>3, <3>3, <3>4 DEF Told
        <3> QED
            BY <1>1, <1>2, <2>1, <2>2, <3>5, ProbeRuns
    <2>5. CASE ctx # "live"
        BY <1>1, <1>2, <2>1, <2>2, <2>5, ProbeRuns
    <2>6. CASE ~ (manifest.own = {} /\ DefaultProbes(manifest).settle # <<>>)
        <3>1. Shown'
            BY <1>2, <2>6 DEF Shown
        <3>2. probeNo = 1 /\ Probes' = Probes /\ Running'
            BY <1>1, <1>2, RunningOne DEF ProbeInv, Probes, Running
        <3>3. Parsed'
            BY <1>1, <1>3, <2>2, <2>3, <3>2 DEF Parsed
        <3> QED
            BY <3>1, <3>2, <3>3
    <2> QED
        BY <2>4, <2>5, <2>6 DEF ProbeInv, Shown
<1>8. Paced'
    <2>1. PICK c \in Nat : c = Cardinality(unasked)
        BY PodsCounted DEF ProbeInv, PrTypeOK
    <2>2. PICK k \in Nat : k = Cardinality(TPods)
        BY PodsCounted
    <2>3. PICK d \in Nat : d = Cardinality(unasked') /\ d = c - 1
        <3>1. IsFiniteSet(unasked)
            BY PodsCounted DEF ProbeInv, PrTypeOK
        <3>2. Cardinality(unasked \ {p}) = Cardinality(unasked) - 1
            BY <1>1, <3>1, FS_RemoveElement
        <3>3. Cardinality(unasked \ {p}) \in Nat
            BY PodsCounted DEF ProbeInv, PrTypeOK
        <3> QED
            BY <1>1, <2>1, <3>2, <3>3
    <2>4. clock \in Nat /\ since \in Nat /\ Timeout \in Nat /\ Interval \in Nat /\ clock' = clock + a.latency /\ since' = since
        BY <1>1, ProbeAssumption DEF ProbeInv, PrTypeOK
    <2>5. clock + 3 * c <= since + Timeout + Interval + 3 * k
        BY <1>1, <2>1, <2>2 DEF ProbeInv, Paced
    <2>6. PICK l \in 0 .. 3 : l = a.latency
        BY <1>3
    <2>7. clock + l + 3 * d <= since + Timeout + Interval + 3 * k /\ clock + l <= since + Timeout + Interval + 3 * k
        BY <2>3, <2>4, <2>5, <2>6
    <2>8. pc' # "list"
        BY <1>1
    <2> QED
        BY <2>2, <2>3, <2>4, <2>6, <2>7, <2>8 DEF Paced
<1> QED
    BY <1>4, <1>6, <1>7, <1>8 DEF ProbeInv

LEMMA ProbeKeptByAgain == ASSUME ProbeInv, Again PROVE ProbeInv'
<1>1. /\ Running /\ pc = "wait" /\ ~ (clock > since + Timeout)
      /\ clock' = clock + Interval /\ pc' = "list"
      /\ UNCHANGED <<World, stage, probeNo, since, unasked, got, heldSince, lastErr, saw, falseAt>>
    BY DEF Again, Overdue
<1>2. UNCHANGED <<manifest, net, ctx, changes, listErrors>>
    BY <1>1 DEF World
<1>3. clock \in Nat /\ since \in Nat /\ Timeout \in Nat /\ Interval \in Nat
    BY ProbeAssumption DEF ProbeInv, PrTypeOK
<1>4. clock' \in Nat /\ since' \in 0 .. clock' /\ heldSince' \in -1 .. clock' /\ falseAt' \in -1 .. clock'
    BY <1>1, <1>3 DEF ProbeInv, PrTypeOK
<1>5. PrTypeOK'
    BY <1>1, <1>2, <1>4 DEF ProbeInv, PrTypeOK
<1>6. (SawOK /\ HoldOK)'
    BY <1>1 DEF ProbeInv, SawOK, HoldOK
<1>7. Told'
    BY <1>1 DEF Told
<1>8. Parsed' /\ Shown' /\ Running'
    BY <1>1, <1>2, <1>7, ProbeRuns
<1>9. Paced'
    <2>1. PICK k \in Nat : k = Cardinality(TPods)
        BY PodsCounted
    <2>2. clock' <= since' + Timeout + Interval /\ clock' <= since' + Timeout + Interval + 3 * k
        BY <1>1, <1>3, <2>1
    <2> QED
        BY <1>1, <2>1, <2>2 DEF Paced
<1> QED
    BY <1>5, <1>6, <1>8, <1>9 DEF ProbeInv

\* A round that saw the condition in every pod saw what the fault is about.
LEMMA RoundShows ==
    ASSUME ProbeInv, Running, pc = "judge", allSatisfied(Spec1, got),
           ctx = "live", manifest.own = {}, DefaultProbes(manifest).settle # <<>>
    PROVE  (stage = "sot" => ShownBefore) /\ (stage = "settle" => ShownBefore /\ ShownAfter)
<1>1. /\ DOMAIN got = DOMAIN saw[stage] /\ \A p \in DOMAIN got : got[p] = answer("live", Spec1, saw[stage][p])
      /\ stage = "settle" => ShownBefore
    BY DEF ProbeInv, Shown, Told
<1>2. DOMAIN got # {} /\ \A p \in DOMAIN got : satisfied(Spec1, got[p])
    BY DEF allSatisfied
<1>3. stage \in {"sot", "settle"} /\ Spec1 = Probes[1] /\ manifest \in Manifests
    BY RunningOne DEF ProbeInv, PrTypeOK
<1>4. \A p \in DOMAIN saw[stage] : saw[stage][p] \in Nets /\ satisfied(Spec1, answer("live", Spec1, saw[stage][p]))
    BY <1>1, <1>2, <1>3 DEF ProbeInv, SawOK
<1>5. CASE stage = "sot"
    <2>1. Spec1 = DefaultProbes(manifest).sot[1]
        BY <1>3, <1>5 DEF Probes
    <2>2. manifest.engine # "kube-state" => \A p \in DOMAIN saw["sot"] : saw["sot"][p] \in Good(manifest)
        BY <1>3, <1>4, <1>5, <2>1, AnswersTell
    <2> QED
        BY <1>1, <1>2, <1>5, <2>2 DEF ShownBefore
<1>6. CASE stage = "settle"
    <2>1. Spec1 = DefaultProbes(manifest).settle[1]
        BY <1>3, <1>6 DEF Probes
    <2>2. \A p \in DOMAIN saw["settle"] : saw["settle"][p] \in Wanted(manifest)
        BY <1>3, <1>4, <1>6, <2>1, AnswersTell
    <2> QED
        BY <1>1, <1>2, <1>6, <2>2 DEF ShownAfter
<1> QED
    BY <1>3, <1>5, <1>6

LEMMA ProbeKeptByJudge == ASSUME ProbeInv, Judge PROVE ProbeInv'
<1>0. PICK held : held = IF heldSince < 0 THEN clock ELSE heldSince
    OBVIOUS
<1>1. /\ Running /\ pc = "judge"
      /\ IF allSatisfied(Spec1, got)
         THEN IF clock - held >= Spec1.dwell
              THEN Pass
              ELSE heldSince' = held /\ pc' = "wait" /\ UNCHANGED <<stage, probeNo, since, falseAt>>
         ELSE heldSince' = -1 /\ falseAt' = clock /\ pc' = "wait" /\ UNCHANGED <<stage, probeNo, since>>
      /\ UNCHANGED <<World, clock, unasked, got, lastErr, saw>>
    BY <1>0 DEF Judge
<1>2. UNCHANGED <<manifest, net, ctx, changes, listErrors, clock, unasked, got, lastErr, saw>>
    BY <1>1 DEF World
<1>3. /\ clock \in Nat /\ heldSince \in -1 .. clock /\ falseAt \in -1 .. clock /\ since \in 0 .. clock
      /\ heldSince >= 0 => falseAt <= heldSince
    BY DEF ProbeInv, PrTypeOK, HoldOK
<1>4. held \in 0 .. clock /\ falseAt <= held
    BY <1>0, <1>3
<1>5. SawOK'
    BY <1>2 DEF ProbeInv, SawOK
<1>6. /\ probeNo = 1 /\ stage \in {"sot", "settle"} /\ Len(Probes) = 1 /\ DOMAIN Probes = {1} /\ Spec1 = Probes[1]
      /\ parseHTTPSpec(Spec1)
    BY <1>1, RunningOne DEF ProbeInv, Parsed
<1>7. CASE pc' = "wait" /\ UNCHANGED <<stage, probeNo, since>>
           /\ ((heldSince' = held /\ falseAt' = falseAt) \/ (heldSince' = -1 /\ falseAt' = clock))
    <2>1. heldSince' \in -1 .. clock' /\ falseAt' \in -1 .. clock' /\ HoldOK'
        BY <1>2, <1>3, <1>4, <1>6, <1>7 DEF HoldOK
    <2>2. PrTypeOK'
        BY <1>2, <1>7, <2>1 DEF ProbeInv, PrTypeOK
    <2>3. Told'
        BY <1>7 DEF Told
    <2>4. Parsed' /\ Shown' /\ Running'
        BY <1>1, <1>2, <1>6, <1>7, <2>3, ProbeRuns
    <2>5. Paced'
        BY <1>1, <1>2, <1>7 DEF ProbeInv, Paced
    <2> QED
        BY <1>5, <2>1, <2>2, <2>4, <2>5 DEF ProbeInv
<1>8. CASE allSatisfied(Spec1, got) /\ Pass
    <2>1. /\ probeNo' = 2 /\ since' = clock /\ pc' = "list" /\ heldSince' = -1 /\ falseAt' = -1 /\ stage' = stage
        BY <1>6, <1>8 DEF Pass
    <2>2. PrTypeOK'
        BY <1>2, <1>3, <2>1 DEF ProbeInv, PrTypeOK
    <2>3. HoldOK'
        BY <1>6, <2>1 DEF HoldOK
    <2>4. ~ Running' /\ Paced'
        <3>1. Probes' = Probes
            BY <1>2, <2>1 DEF Probes
        <3>2. ~ (probeNo' <= Len(Probes'))
            <4>1. Len(Probes') = 1
                BY <1>6, <3>1
            <4> QED
                BY <2>1, <4>1
        <3> QED
            BY <3>2 DEF Running, Paced
    <2>5. Parsed'
        <3>1. stage = "settle" => \A i \in DOMAIN DefaultProbes(manifest).settle : parseHTTPSpec(DefaultProbes(manifest).settle[i])
            BY <1>6 DEF Probes
        <3>2. DefaultProbes(manifest') = DefaultProbes(manifest) /\ stage' # "verified"
            BY <1>2, <1>6, <2>1
        <3>3. stage' = "settle" => \A i \in DOMAIN DefaultProbes(manifest').settle :
                                        parseHTTPSpec(DefaultProbes(manifest').settle[i])
            BY <2>1, <3>1, <3>2
        <3> QED
            BY <2>4, <3>2, <3>3 DEF Parsed
    <2>6. Shown'
        <3>1. SUFFICES ASSUME ctx = "live", manifest.own = {}, DefaultProbes(manifest).settle # <<>>
                       PROVE  ShownBefore /\ (stage = "settle" => ShownAfter)
            BY <1>2, <1>6, <2>1, <2>4 DEF Shown, Told, ShownBefore, ShownAfter
        <3> QED
            BY <1>1, <1>6, <1>8, <3>1, RoundShows
    <2> QED
        BY <1>5, <2>2, <2>3, <2>4, <2>5, <2>6 DEF ProbeInv
<1>9. \/ allSatisfied(Spec1, got) /\ Pass
      \/ pc' = "wait" /\ UNCHANGED <<stage, probeNo, since>>
         /\ ((heldSince' = held /\ falseAt' = falseAt) \/ (heldSince' = -1 /\ falseAt' = clock))
    <2>1. CASE ~ allSatisfied(Spec1, got)
        BY <1>1, <2>1
    <2>2. CASE allSatisfied(Spec1, got) /\ clock - held >= Spec1.dwell
        BY <1>1, <2>2
    <2>3. CASE allSatisfied(Spec1, got) /\ ~ (clock - held >= Spec1.dwell)
        BY <1>1, <2>3
    <2> QED
        BY <2>1, <2>2, <2>3
<1> QED
    BY <1>7, <1>8, <1>9

LEMMA ProbeInvStep == ProbeInv /\ [PrNext]_pvars => ProbeInv'
<1> SUFFICES ASSUME ProbeInv, [PrNext]_pvars PROVE ProbeInv'
    OBVIOUS
<1>1. CASE UNCHANGED pvars
    <2>1. /\ UNCHANGED <<manifest, net, stage, probeNo, clock, since, pc, unasked, got, heldSince>>
          /\ UNCHANGED <<lastErr, ctx, changes, listErrors, saw, falseAt>>
        BY <1>1 DEF pvars
    <2>2. (PrTypeOK /\ SawOK /\ HoldOK)'
        BY <2>1 DEF ProbeInv, PrTypeOK, SawOK, HoldOK
    <2>3. (Paced /\ Parsed /\ Shown)'
        BY <2>1 DEF ProbeInv, Paced, Parsed, Shown, Told, ShownBefore, ShownAfter, Running, Spec1, Probes
    <2> QED
        BY <2>2, <2>3 DEF ProbeInv
<1>2. CASE ProbeStep
    <2>1. ASSUME NEW p \in TPods, connect(p) PROVE ProbeInv'
        BY <2>1, ProbeKeptByConnect
    <2> QED
        BY <1>2, <2>1, ProbeKeptByStageDone, ProbeKeptByCallDriver, ProbeKeptByRefuse, ProbeKeptByListPods,
           ProbeKeptByListFails, ProbeKeptByJudge, ProbeKeptByAgain DEF ProbeStep
<1>3. CASE Shutdown \/ \E p \in TPods : Lands(p) \/ \E n \in Nets : Changes(p, n)
    BY <1>3, ProbeKeptByWorld
<1> QED
    BY <1>1, <1>2, <1>3 DEF PrNext

(***************************************************************************)
(* Probe: the theorems.                                                    *)
(***************************************************************************)
\* A Settle probe passes only after its condition was seen by every poll of a whole
\* dwell, for any timeout, interval, manifests and pods: a poll that failed, or saw
\* otherwise, starts the hold over (K8sProber.Run).
THEOREM DwellAlwaysKept == PrSpec => DwellKept
<1>1. ProbeInv /\ [PrNext]_pvars =>
        [stage = "settle" /\ probeNo' = probeNo + 1 => clock - falseAt >= Spec1.dwell]_pvars
    <2> SUFFICES ASSUME ProbeInv, PrNext, stage = "settle", probeNo' = probeNo + 1
                 PROVE  clock - falseAt >= Spec1.dwell
        OBVIOUS
    <2>1. probeNo \in 1 .. 2 /\ probeNo' # probeNo
        BY DEF ProbeInv, PrTypeOK
    <2>2. Judge
        <3>1. ~ StageDone
            <4>1. StageDone => probeNo' = 1
                BY DEF StageDone
            <4> QED
                BY <2>1, <4>1
        <3>2. ~ (CallDriver \/ Unparsed \/ ListPods \/ ListFails \/ GiveUp \/ Again)
            BY <2>1 DEF CallDriver, Unparsed, ListPods, ListFails, GiveUp, Again
        <3>3. ~ \E p \in TPods : connect(p)
            BY <2>1 DEF connect
        <3>4. ~ (Shutdown \/ \E p \in TPods : Lands(p) \/ \E n \in Nets : Changes(p, n))
            BY <2>1 DEF Shutdown, Lands, Changes
        <3> QED
            BY <3>1, <3>2, <3>3, <3>4 DEF PrNext, ProbeStep
    <2>3. PICK held : held = IF heldSince < 0 THEN clock ELSE heldSince
        OBVIOUS
    <2>4. Running /\ clock - held >= Spec1.dwell
        BY <2>1, <2>2, <2>3 DEF Judge
    <2>5. /\ clock \in Nat /\ heldSince \in -1 .. clock /\ falseAt \in -1 .. clock
          /\ heldSince >= 0 => falseAt <= heldSince
        BY DEF ProbeInv, PrTypeOK, HoldOK
    <2>6. held \in 0 .. clock /\ falseAt <= held
        BY <2>3, <2>5
    <2>7. PICK d \in 0 .. 2 : d = Spec1.dwell
        BY <2>4, RunningOne DEF ProbeInv, httpSpecs
    <2>8. clock - held >= d
        BY <2>4, <2>7
    <2>9. clock - falseAt >= d
        BY <2>5, <2>6, <2>8
    <2> QED
        BY <2>7, <2>9
<1> QED
    BY <1>1, ProbeInvInit, ProbeInvStep, PTL DEF PrSpec, DwellKept

\* What a gate verifies is a change that could have failed to happen, and in bounded time:
\* every pod it found struck that was asked before the fault was not struck then, for any
\* pods, manifests, budgets and intervals, however the pods change by themselves between
\* two connections of a round (HTTPProber.run, Executor.runProbes).
THEOREM GateAlwaysTrue == PrSpec => [](PrTypeOK /\ NeverVacuous /\ Differential /\ OverrunBounded)
<1>1. ProbeInv => PrTypeOK /\ NeverVacuous /\ Differential /\ OverrunBounded
    <2> SUFFICES ASSUME ProbeInv PROVE PrTypeOK /\ NeverVacuous /\ Differential /\ OverrunBounded
        OBVIOUS
    <2>1. NeverVacuous
        <3> SUFFICES ASSUME stage = "verified", NEW i \in DOMAIN DefaultProbes(manifest).settle,
                            ~ DefaultProbes(manifest).settle[i].reachable
                     PROVE  \E a \in Attempts : a.err = "none" /\ ~ satisfied(DefaultProbes(manifest).settle[i], a)
            BY DEF NeverVacuous
        <3>1. parseHTTPSpec(DefaultProbes(manifest).settle[i])
            BY DEF ProbeInv, Parsed
        <3>2. DefaultProbes(manifest).settle[i] \in httpSpecs
            BY GateHalves DEF ProbeInv, PrTypeOK, Half
        <3> QED
            BY <3>1, <3>2, CanFail
    <2>2. Differential
        <3>1. Effect = "slow" <=> manifest.engine = "kube-state" \/ Delays(manifest)
            BY DEF Effect, Delays
        <3>2. manifest.engine = "kube-state" => ~ Delays(manifest)
            BY DEF Delays
        <3>3. Wanted(manifest) = Struck
            <4>1. CASE manifest.engine = "kube-state"
                BY <4>1 DEF Wanted, Struck
            <4>2. CASE manifest.engine # "kube-state" /\ Effect = "slow"
                BY <3>1, <4>2 DEF Wanted, Struck
            <4>3. CASE manifest.engine # "kube-state" /\ Effect # "slow"
                <5>1. Sound = Answering
                    BY <4>3 DEF Sound, Answering
                <5>2. Struck = Nets \ Sound /\ Wanted(manifest) = Nets \ Answering
                    BY <3>1, <4>3 DEF Struck, Wanted
                <5> QED
                    BY <5>1, <5>2
            <4> QED
                BY <4>1, <4>2, <4>3
        <3>4. ASSUME manifest.engine # "kube-state" PROVE Good(manifest) = Sound \ Struck
            <4>1. Good(manifest) = Sound
                BY <3>1, <3>4 DEF Good, Sound, Answering
            <4>2. CASE Effect = "slow"
                <5>1. Sound = {"up"} /\ Struck = {"slow", "hole"}
                    BY <3>4, <4>2 DEF Sound, Struck
                <5> QED
                    BY <4>1, <5>1
            <4>3. CASE Effect # "slow"
                <5>1. Struck = Nets \ Sound
                    BY <3>4, <4>3 DEF Struck
                <5>2. Sound \subseteq {"up", "slow"}
                    BY DEF Sound
                <5> QED
                    BY <4>1, <5>1, <5>2
            <4> QED
                BY <4>2, <4>3
        <3> QED
            BY <3>3, <3>4 DEF ProbeInv, Shown, ShownBefore, ShownAfter, Differential
    <2>3. OverrunBounded
        <3>1. PICK k \in Nat : k = Cardinality(TPods)
            BY PodsCounted
        <3>2. 3 * k = k * 3
            OBVIOUS
        <3> QED
            BY <3>1, <3>2 DEF ProbeInv, Paced, OverrunBounded, LatestEnd
    <2> QED
        BY <2>1, <2>2, <2>3 DEF ProbeInv
<1> QED
    BY <1>1, ProbeInvInit, ProbeInvStep, PTL DEF PrSpec
==============================================================================
