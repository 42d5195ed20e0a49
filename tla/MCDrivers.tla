----------------------------- MODULE MCDrivers -----------------------------
(***************************************************************************)
(* Small instances of the two ends of a directed fault for TLC: its        *)
(* submission, and the engines' drivers.  A behaviour is about one of the  *)
(* three: Directed, FaultObjects, or the sidecars of EnvoyFault.           *)
(***************************************************************************)
EXTENDS FaultObjects, EnvoyFault, Directed

CONSTANTS f1, d1, a1, p1, p2, arena

VARIABLE part

dvars == <<part, vars, evars, divars>>

EveryShape == [Faults -> {Policy, Single, Outage, Backend, Rollout, Unstamped}]

EnvoyFaults == {d1, a1}
DelayAndAbort == [f \in EnvoyFaults |-> IF f = d1 THEN "delay" ELSE "abort"]

\* A probe of each kind on the service port, one of them left as it is, and one
\* on a port of its own that is excluded.
EveryProbe ==
    {w \in Workloads :
        /\ ~ w.skip /\ ~ w.named
        /\ w.probe # "none" /\ (w.raw => w.probe = "http")
        /\ w.port = ServicePort <=> w.excludes = {}
        /\ w.port # ServicePort => w.raw}
NamedPort == {w \in Workloads : ~ w.skip /\ w.excludes = {} /\ w.port = ServicePort}

\* An answer that is no manifest, and manifests with one or two targets.
SomeReplies ==
    {[whole |-> FALSE, targets |-> <<>>]} \cup
    {[whole |-> TRUE, targets |-> t] : t \in {<<"blank">>, <<arena, "default">>}}

Objects(A) == part = "objects" /\ A /\ UNCHANGED <<part, evars, divars>>
Sidecars(A) == part = "sidecars" /\ A /\ UNCHANGED <<part, vars, divars>>
Submissions(A) == part = "submissions" /\ A /\ UNCHANGED <<part, vars, evars>>

\* The part a behaviour is not about stands still in one of its initial states.
DInit ==
    /\ part \in {"objects", "sidecars", "submissions"}
    /\ Init /\ EInit /\ DirInit
    /\ part = "objects" \/ shape = CHOOSE s \in ShapesOf : TRUE
    /\ part = "sidecars" \/ workload = CHOOSE w \in {injectDeployment(u) : u \in Deployed} : TRUE
    /\ Cardinality({c \in Clients : ask[c].wish # "nothing"}) = IF part = "submissions" THEN 1 ELSE 0

DNext == Objects(Next) \/ Sidecars(ENext) \/ Submissions(DirNext)

\* The fairness of FaultObjects within its part; and run takes events, and a page
\* that is still there reads them.
DSpec ==
    /\ DInit /\ [][DNext]_dvars
    /\ WF_dvars(Objects(Tick)) /\ WF_dvars(Objects(SweepBegin)) /\ WF_dvars(Objects(SweepResource))
    /\ WF_dvars(Submissions(Stream(FanOut))) /\ \A c \in Conns : WF_dvars(Submissions(Stream(Read(c))))

\* What is left in the cluster goes, what is stuck there is told, and what became of
\* a submission reaches the page that waits for it.
EventuallyTold == ResidueGoes /\ StuckTold /\ OutcomeFollows
=============================================================================
