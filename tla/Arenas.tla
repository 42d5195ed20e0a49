------------------------------- MODULE Arenas -------------------------------
(***************************************************************************)
(* Arenas (pkg/arena): Manager.Create and Manager.Destroy over one         *)
(* namespace.  Each is a sequence of calls to the API server, made by CLI, *)
(* harness and tests side by side, that may fail at any of them.  The      *)
(* operator edits and deletes the namespace by hand meanwhile, and the     *)
(* executor puts fault objects into it.  An update carries the version of  *)
(* the object it read, so a copy that went stale is refused (external).    *)
(***************************************************************************)
EXTENDS FiniteSets, Integers

CONSTANTS
    Callers,    \* who calls the manager
    AFaults,    \* the faults the executor may put into the namespace
    ACounted,   \* those whose kind faultResources lists
    MaxEdits    \* bound: the operator's edits

ASSUME ArenaAssumption == ACounted \subseteq AFaults /\ MaxEdits \in Nat

VARIABLES
    space,    \* the namespace and its eligibility annotation
    role,     \* the rules of the arena's Role
    bound,    \* whether the RoleBinding names the chaos ServiceAccount
    live,     \* the fault objects in the namespace
    spent,    \* the faults that have been applied
    call,     \* the call each caller is in
    settled,  \* history: the spec of a Create that came back, alone, and still stands
    optedOut, \* history: the operator has marked this namespace not eligible
    byHand    \* the operator's edits so far

arvars == <<space, role, bound, live, spent, call, settled, optedOut, byHand>>

Marks == {"unset", "true", "false"}
NoRole == "none"

\* rulesFor: roleRules, and sutRules with SUTInController.
rulesFor(inController) == IF inController THEN "chaos and sut" ELSE "chaos"

\* A caller's copy of the object it means to update is fresh until someone else
\* writes the object; it has seen the counted faults that were there all along.
Idle == [at |-> "idle", spec |-> "chaos", force |-> FALSE, copy |-> "none", fresh |-> FALSE,
         seen |-> {}, alone |-> FALSE]

ArInit ==
    /\ space \in {[phase |-> "absent", mark |-> "unset"]} \cup
                 {[phase |-> "standing", mark |-> m] : m \in Marks}
    /\ role = NoRole /\ bound = FALSE
    /\ live = {} /\ spent = {}
    /\ call = [c \in Callers |-> Idle]
    /\ settled = "none"
    /\ optedOut = (space.mark = "false")
    /\ byHand = 0

Calling(c) == call[c].at # "idle"

\* Everyone else's copy of an object is stale once it is written.
Stale(object, c) ==
    [d \in Callers |-> IF d # c /\ call[d].copy = object THEN [call[d] EXCEPT !.fresh = FALSE] ELSE call[d]]
Gone(object) ==
    [d \in Callers |-> IF call[d].copy = object THEN [call[d] EXCEPT !.fresh = FALSE] ELSE call[d]]

\* From one call to the API server to the next.
At(c, at) == call[c].at = at
To(calls, c, at) == [calls EXCEPT ![c].at = at, ![c].copy = "none", ![c].fresh = FALSE]
Holding(c, object, at) == [call EXCEPT ![c].at = at, ![c].copy = object, ![c].fresh = TRUE]
Return(calls, c) == [calls EXCEPT ![c] = Idle]

(***************************************************************************)
(* A call begins, and any of its requests may fail.                        *)
(***************************************************************************)
Overlap(c) == [d \in Callers |-> IF d = c THEN call[d] ELSE [call[d] EXCEPT !.alone = FALSE]]
Alone(c) == \A d \in Callers \ {c} : ~ Calling(d)

BeginCreate(c) ==
    /\ ~ Calling(c)
    /\ \E inController \in BOOLEAN :
          call' = [Overlap(c) EXCEPT ![c] = [Idle EXCEPT !.at = "get namespace", !.alone = Alone(c),
                                                         !.spec = rulesFor(inController)]]
    /\ settled' = "none"
    /\ UNCHANGED <<space, role, bound, live, spent, optedOut, byHand>>

BeginDestroy(c) ==
    /\ ~ Calling(c)
    /\ \E force \in BOOLEAN :
          call' = [Overlap(c) EXCEPT ![c] = [Idle EXCEPT !.at = "count faults", !.force = force, !.alone = Alone(c),
                                                         !.seen = live \cap ACounted]]
    /\ settled' = "none"
    /\ UNCHANGED <<space, role, bound, live, spent, optedOut, byHand>>

RequestFails(c) ==
    /\ Calling(c)
    /\ call' = Return(call, c)
    /\ UNCHANGED <<space, role, bound, live, spent, settled, optedOut, byHand>>

(***************************************************************************)
(* upsertNamespace                                                         *)
(***************************************************************************)
\* The annotation, or an extra one of the spec, may be missing.
GetNamespace(c) ==
    /\ At(c, "get namespace")
    /\ \/ space.phase = "absent" /\ call' = To(call, c, "create namespace")
       \/ space.phase # "absent" /\ space.mark = "false" /\ call' = Return(call, c)
       \/ space.phase # "absent" /\ space.mark # "false" /\ call' = Holding(c, "namespace", "update namespace")
       \/ space.phase # "absent" /\ space.mark = "true" /\ call' = To(call, c, "create role")
    /\ UNCHANGED <<space, role, bound, live, spent, settled, optedOut, byHand>>

CreateNamespace(c) ==
    /\ At(c, "create namespace")
    /\ IF space.phase = "absent"
       THEN /\ space' = [phase |-> "standing", mark |-> "true"]
            /\ call' = To(Stale("namespace", c), c, "create role")
       ELSE space' = space /\ call' = Return(call, c)
    /\ UNCHANGED <<role, bound, live, spent, settled, optedOut, byHand>>

\* Mutant: the annotations are written whatever became of the namespace since.
UpdateBlindly(c) ==
    /\ At(c, "update namespace")
    /\ IF space.phase # "absent"
       THEN /\ space' = [space EXCEPT !.mark = "true"]
            /\ call' = To(Stale("namespace", c), c, "create role")
       ELSE space' = space /\ call' = Return(call, c)
    /\ UNCHANGED <<role, bound, live, spent, settled, optedOut, byHand>>

UpdateNamespace(c) ==
    /\ At(c, "update namespace")
    /\ IF call[c].fresh
       THEN /\ space' = [space EXCEPT !.mark = "true"]
            /\ call' = To(Stale("namespace", c), c, "create role")
       ELSE space' = space /\ call' = Return(call, c)
    /\ UNCHANGED <<role, bound, live, spent, settled, optedOut, byHand>>

(***************************************************************************)
(* upsertRole and upsertRoleBinding: created, or read and updated.  The    *)
(* API server creates nothing in a namespace that is terminating.          *)
(***************************************************************************)
CreateRole(c) ==
    /\ At(c, "create role")
    /\ \/ /\ space.phase = "standing" /\ role = NoRole
          /\ role' = call[c].spec /\ call' = To(call, c, "bind")
       \/ /\ space.phase = "standing" /\ role # NoRole
          /\ role' = role /\ call' = To(call, c, "get role")
       \/ space.phase # "standing" /\ role' = role /\ call' = Return(call, c)
    /\ UNCHANGED <<space, bound, live, spent, settled, optedOut, byHand>>

GetRole(c) ==
    /\ At(c, "get role")
    /\ call' = IF role = NoRole THEN Return(call, c) ELSE Holding(c, "role", "update role")
    /\ UNCHANGED <<space, role, bound, live, spent, settled, optedOut, byHand>>

UpdateRole(c) ==
    /\ At(c, "update role")
    /\ IF call[c].fresh
       THEN role' = call[c].spec /\ call' = To(Stale("role", c), c, "bind")
       ELSE role' = role /\ call' = Return(call, c)
    /\ UNCHANGED <<space, bound, live, spent, settled, optedOut, byHand>>

\* An existing binding is read and written with the same subject; the write is
\* refused when the binding was deleted in between (RequestFails).
Bind(c) ==
    /\ At(c, "bind")
    /\ IF space.phase = "standing"
       THEN bound' = TRUE /\ settled' = IF call[c].alone THEN call[c].spec ELSE settled
       ELSE UNCHANGED <<bound, settled>>
    /\ call' = Return(call, c)
    /\ UNCHANGED <<space, role, live, spent, optedOut, byHand>>

(***************************************************************************)
(* Destroy: activeFaultCount unless forced, then binding, role, namespace. *)
(***************************************************************************)
CountFaults(c) ==
    /\ At(c, "count faults")
    /\ call' = IF live \cap ACounted # {} /\ ~ call[c].force THEN Return(call, c) ELSE To(call, c, "unbind")
    /\ UNCHANGED <<space, role, bound, live, spent, settled, optedOut, byHand>>

Unbind(c) ==
    /\ At(c, "unbind")
    /\ bound' = FALSE
    /\ call' = To(call, c, "delete role")
    /\ UNCHANGED <<space, role, live, spent, settled, optedOut, byHand>>

DeleteRole(c) ==
    /\ At(c, "delete role")
    /\ role' = NoRole
    /\ call' = To(Gone("role"), c, "delete namespace")
    /\ UNCHANGED <<space, bound, live, spent, settled, optedOut, byHand>>

DeleteNamespace(c) ==
    /\ At(c, "delete namespace")
    /\ space' = IF space.phase = "standing" THEN [space EXCEPT !.phase = "terminating"] ELSE space
    /\ call' = Return(Gone("namespace"), c)
    /\ UNCHANGED <<role, bound, live, spent, settled, optedOut, byHand>>

(***************************************************************************)
(* The rest of the cluster (external).                                     *)
(***************************************************************************)
\* The namespace controller takes everything in the namespace out with it.
Finalized ==
    /\ space.phase = "terminating"
    /\ space' = [phase |-> "absent", mark |-> "unset"]
    /\ role' = NoRole /\ bound' = FALSE /\ live' = {}
    /\ call' = [d \in Callers |-> [call[d] EXCEPT !.fresh = FALSE]]
    /\ settled' = "none" /\ optedOut' = FALSE
    /\ UNCHANGED <<spent, byHand>>

\* The operator sets the annotation, or deletes the namespace.
OperatorMarks ==
    /\ byHand < MaxEdits /\ space.phase = "standing"
    /\ \E m \in {"true", "false"} \ {space.mark} :
          space' = [space EXCEPT !.mark = m] /\ optedOut' = (m = "false")
    /\ call' = Gone("namespace")
    /\ byHand' = byHand + 1
    /\ UNCHANGED <<role, bound, live, spent, settled>>

OperatorDeletes ==
    /\ byHand < MaxEdits /\ space.phase = "standing"
    /\ space' = [space EXCEPT !.phase = "terminating"]
    /\ call' = Gone("namespace")
    /\ settled' = "none"
    /\ byHand' = byHand + 1
    /\ UNCHANGED <<role, bound, live, spent, optedOut>>

\* The executor, on an eligible namespace and with the rights of the Role.
FaultApplied(f) ==
    /\ f \notin spent
    /\ space = [phase |-> "standing", mark |-> "true"] /\ bound /\ role # NoRole
    /\ live' = live \cup {f} /\ spent' = spent \cup {f}
    /\ UNCHANGED <<space, role, bound, call, settled, optedOut, byHand>>

FaultCleared(f) ==
    /\ f \in live
    /\ live' = live \ {f}
    /\ call' = [c \in Callers |-> [call[c] EXCEPT !.seen = @ \ {f}]]
    /\ UNCHANGED <<space, role, bound, spent, settled, optedOut, byHand>>

ArNext ==
    \/ \E c \in Callers :
        \/ BeginCreate(c) \/ BeginDestroy(c) \/ RequestFails(c)
        \/ GetNamespace(c) \/ CreateNamespace(c) \/ UpdateNamespace(c)
        \/ CreateRole(c) \/ GetRole(c) \/ UpdateRole(c) \/ Bind(c)
        \/ CountFaults(c) \/ Unbind(c) \/ DeleteRole(c) \/ DeleteNamespace(c)
    \/ Finalized \/ OperatorMarks \/ OperatorDeletes
    \/ \E f \in AFaults : FaultApplied(f) \/ FaultCleared(f)

ArSpec == ArInit /\ [][ArNext]_arvars

(***************************************************************************)
(* Properties                                                              *)
(***************************************************************************)
\* Type invariant: the cluster's objects, and the calls with the copies they hold.
ArTypeOK ==
    /\ space \in [phase : {"absent", "standing", "terminating"}, mark : Marks]
    /\ role \in {NoRole, rulesFor(TRUE), rulesFor(FALSE)}
    /\ bound \in BOOLEAN /\ optedOut \in BOOLEAN
    /\ live \subseteq spent /\ spent \subseteq AFaults
    /\ settled \in {"none", rulesFor(TRUE), rulesFor(FALSE)}
    /\ byHand \in 0 .. MaxEdits
    /\ space.phase = "absent" => space.mark = "unset" /\ role = NoRole /\ ~ bound /\ live = {}
    /\ \A c \in Callers : call[c].fresh => call[c].copy \in {"namespace", "role"}

\* An operator's opt-out stands: no Create, however it is interleaved with the edit,
\* turns a namespace marked eligible=false back into an arena.
OptOutKept == optedOut => space.mark = "false"

\* A Create that came back without an error, and that nothing overlapped, left an
\* arena with exactly the rights of its own spec: the Role matches the last spec,
\* also when an earlier call had left another Role behind or broke off half way.
CreatedWhole ==
    settled # "none" => space.phase = "standing" /\ space.mark # "unset" /\ role = settled /\ bound

\* A fault that faultResources lists and that was live before an unforced Destroy
\* began, and is live still, keeps the arena: that call gets no further.
FaultsHoldArena ==
    \A c \in Callers :
        call[c].at \in {"unbind", "delete role", "delete namespace"} /\ ~ call[c].force =>
            call[c].seen \cap live = {}

\* Every fault keeps its arena from an unforced Destroy.  Refuted: faults the kube-state
\* and envoy engines leave behind are not listed, and a fault may be applied after the count.
EveryFaultHoldsArena ==
    \A c \in Callers : call[c].at = "delete namespace" /\ ~ call[c].force => live = {}

\* An arena is what its operators and its last Create made it, and outlives its faults.
ArenaSound == ArTypeOK /\ OptOutKept /\ CreatedWhole /\ FaultsHoldArena
=============================================================================
