---------------------------- MODULE FaultObjects ----------------------------
(***************************************************************************)
(* The objects a fault is made of in the cluster, and the drivers that     *)
(* create, confirm, delete, sweep up and list them: chaos-mesh (one CR, or *)
(* the bundle of an outage), network-policy (one policy) and kube-state (a *)
(* bundle of built-in objects, with a second step for a stuck rollout).    *)
(* The API server may refuse a request, or carry it out and lose the       *)
(* answer; a caller may be cancelled; the process may die anywhere.        *)
(***************************************************************************)
EXTENDS Integers, Sequences, FiniteSets, SequencesExt

CONSTANTS
    Faults,
    ShapesOf,     \* the functions from Faults to shapes that a run starts from
    ReapGrace,    \* chaos-mesh's grace past the deadline
    StuckAfter,   \* how long an object may be deleting before it is reported
    MaxTime,      \* bound on the clock
    MaxErrors,    \* bound on the requests that fail
    MaxCrashes    \* bound on the processes that die

ASSUME ObjectsAssumption ==
    /\ ReapGrace \in Nat /\ StuckAfter \in Nat \ {0}
    /\ MaxTime \in Nat /\ MaxErrors \in Nat /\ MaxCrashes \in Nat

Never == -1

\* What Apply creates, in order, and the resource types Clear and the reaper walk.
Resources == <<"networkpolicies", "chaos", "deployments", "services">>
KubeState == {"deployments", "services"}

\* A shape is a driver's way of building one fault; dur is FaultManifest.Duration,
\* 0 when it is not set.
Policy  == [driver |-> "network-policy", objs |-> <<"networkpolicies">>, finish |-> FALSE, dur |-> 1]
Single  == [driver |-> "chaos-mesh", objs |-> <<"chaos">>, finish |-> FALSE, dur |-> 1]
Outage  == [driver |-> "outage", objs |-> <<"chaos", "chaos">>, finish |-> FALSE, dur |-> 1]
Backend == [driver |-> "kube-state", objs |-> <<"deployments", "services">>, finish |-> FALSE, dur |-> 1]
Rollout == [driver |-> "kube-state", objs |-> <<"deployments">>, finish |-> TRUE, dur |-> 1]

Unstamped == [Policy EXCEPT !.dur = 0]

\* Every fault has one of these shapes, with a duration of its own.
ASSUME ShapesAssumption ==
    \A s \in ShapesOf :
        /\ DOMAIN s = Faults
        /\ \A f \in Faults :
            /\ s[f].dur \in Nat
            /\ \E k \in {Policy, Single, Outage, Backend, Rollout} : s[f] = [k EXCEPT !.dur = s[f].dur]

VARIABLES
    now,
    shape,      \* the shape of each fault
    objects,    \* what the cluster holds
    injected,   \* the objects Chaos Mesh has reported injected at some time
    stage,      \* where the calls for a fault stand
    expiry,     \* the deadline Apply computed, Never before
    created,    \* the objects whose create was answered
    todo,       \* the resource types a rollback or a clear has yet to visit
    failed,     \* a request of that rollback or clear failed
    cancelled,  \* the context of the call under way is done
    confirmed,  \* ConfirmInjected answered nil
    sweep,      \* the ReapExpired pass under way
    stuckReported,  \* Driver.stuckReported
    reports,    \* how often each object was reported stuck by this process
    errors,     \* requests that have failed
    crashes     \* processes that have died

objVars   == <<objects, injected>>
callVars  == <<stage, expiry, created, todo, failed, cancelled, confirmed>>
sweepVars == <<sweep, stuckReported, reports>>
vars == <<now, shape, objVars, callVars, sweepVars, errors, crashes>>

Ids == UNION {{f} \X (1 .. Len(shape[f].objs)) : f \in Faults}

Resting == [left |-> <<>>, at |-> Never, cleared |-> <<>>]

\* Type invariant: a rollback or a clear, and only they, have resource types to visit.
TypeOK ==
    /\ now \in 0 .. MaxTime
    /\ objects \in SUBSET [id : Ids, type : Range(Resources), expiry : Int, deletedAt : Int]
    /\ injected \in SUBSET Ids
    /\ stage \in [Faults -> {"idle", "applying", "undoing", "applied", "failed",
                             "clearing", "cleared", "lost"}]
    /\ expiry \in [Faults -> Int]
    /\ created \in [Faults -> 0 .. 2]
    /\ todo \in [Faults -> SUBSET Range(Resources)]
    /\ \A f \in Faults : todo[f] # {} <=> stage[f] \in {"undoing", "clearing"}
    /\ failed \in [Faults -> BOOLEAN] /\ cancelled \in [Faults -> BOOLEAN]
    /\ confirmed \in SUBSET Faults
    /\ sweep.cleared \in Seq(Faults)
    /\ stuckReported \in SUBSET Ids
    /\ reports \in [Ids -> Nat]
    /\ errors \in 0 .. MaxErrors /\ crashes \in 0 .. MaxCrashes

Init ==
    /\ now = 0
    /\ shape \in ShapesOf
    /\ objects = {} /\ injected = {}
    /\ stage = [f \in Faults |-> "idle"]
    /\ expiry = [f \in Faults |-> Never]
    /\ created = [f \in Faults |-> 0]
    /\ todo = [f \in Faults |-> {}]
    /\ failed = [f \in Faults |-> FALSE]
    /\ cancelled = [f \in Faults |-> FALSE]
    /\ confirmed = {}
    /\ sweep = Resting
    /\ stuckReported = {}
    /\ reports = [i \in Ids |-> 0]
    /\ errors = 0 /\ crashes = 0

Of(f) == {o \in objects : o.id[1] = f}
Live(f) == {o \in Of(f) : o.deletedAt = Never}

\* A request fails with the context it runs on, or because the server says so.
Fails(dead) == dead \/ errors < MaxErrors
Count(dead) == errors' = IF dead THEN errors ELSE errors + 1

(***************************************************************************)
(* The cluster.  A Chaos Mesh object is held by its finalizer until the    *)
(* controller has recovered it, which may be never; the rest go at once.   *)
(***************************************************************************)
Deleted(os) == {[o EXCEPT !.deletedAt = IF @ = Never THEN now ELSE @] : o \in {p \in os : p.type = "chaos"}}
Delete(os) == objects' = (objects \ os) \cup Deleted(os)

Tick ==
    /\ now < MaxTime
    /\ now' = now + 1
    /\ UNCHANGED <<shape, objVars, callVars, sweepVars, errors, crashes>>

Inject(o) ==
    /\ o.type = "chaos" /\ o.deletedAt = Never
    /\ o.id \notin injected
    /\ injected' = injected \cup {o.id}
    /\ UNCHANGED <<now, shape, objects, callVars, sweepVars, errors, crashes>>

Release(o) ==
    /\ o.deletedAt # Never
    /\ objects' = objects \ {o}
    /\ UNCHANGED <<now, shape, injected, callVars, sweepVars, errors, crashes>>

(***************************************************************************)
(* Apply.                                                                  *)
(***************************************************************************)
\* Mutant: the stamp is left off.
NoStamp(f) == Never

\* No stamp without a duration: it would be a deadline already past.
expiryAnnotation(f) == IF shape[f].dur > 0 THEN now + shape[f].dur ELSE Never

Begin(f) ==
    /\ stage[f] = "idle"
    /\ now + shape[f].dur + ReapGrace + StuckAfter + 1 <= MaxTime
    /\ stage' = [stage EXCEPT ![f] = "applying"]
    /\ expiry' = [expiry EXCEPT ![f] = expiryAnnotation(f)]
    /\ UNCHANGED <<now, shape, objVars, created, todo, failed, cancelled, confirmed, sweepVars, errors, crashes>>

Stamped(f, n) == [id |-> <<f, n>>, type |-> shape[f].objs[n], expiry |-> expiry[f], deletedAt |-> Never]

\* The last create answers the call, unless the kind has a finisher.
AfterCreate(f, n) == IF n = Len(shape[f].objs) /\ ~ shape[f].finish THEN "applied" ELSE "applying"

Create(f) ==
    LET n == created[f] + 1 IN
    /\ stage[f] = "applying"
    /\ n <= Len(shape[f].objs)
    /\ ~ cancelled[f]
    /\ objects' = objects \cup {Stamped(f, n)}
    /\ created' = [created EXCEPT ![f] = n]
    /\ stage' = [stage EXCEPT ![f] = AfterCreate(f, n)]
    /\ UNCHANGED <<now, shape, injected, expiry, todo, failed, cancelled, confirmed, sweepVars, errors, crashes>>

\* A bundle is rolled back; the single-object drivers have nothing to undo.
UndoBundle(f) ==
    IF shape[f].driver \in {"outage", "kube-state"}
    THEN /\ stage' = [stage EXCEPT ![f] = "undoing"]
         /\ todo' = [todo EXCEPT ![f] = IF shape[f].driver = "outage" THEN {"chaos"} ELSE KubeState]
         /\ failed' = [failed EXCEPT ![f] = FALSE]
    ELSE stage' = [stage EXCEPT ![f] = "failed"] /\ UNCHANGED <<todo, failed>>

\* The server refuses the object, or creates it and the answer is lost.
CreateFails(f) ==
    LET n == created[f] + 1 IN
    /\ stage[f] = "applying"
    /\ n <= Len(shape[f].objs)
    /\ Fails(cancelled[f]) /\ Count(cancelled[f])
    /\ \/ UNCHANGED objects
       \/ ~ cancelled[f] /\ objects' = objects \cup {Stamped(f, n)}
    /\ UndoBundle(f)
    /\ UNCHANGED <<now, shape, injected, expiry, created, cancelled, confirmed, sweepVars, crashes>>

\* wedgeRollout: the Deployment becomes available and is patched.
Wedge(f) ==
    /\ stage[f] = "applying" /\ shape[f].finish /\ created[f] = Len(shape[f].objs)
    /\ ~ cancelled[f]
    /\ Live(f) # {}
    /\ stage' = [stage EXCEPT ![f] = "applied"]
    /\ UNCHANGED <<now, shape, objVars, expiry, created, todo, failed, cancelled, confirmed, sweepVars, errors, crashes>>

\* The Deployment is gone, cannot be read, or did not settle in time.
WedgeFails(f) ==
    /\ stage[f] = "applying" /\ shape[f].finish /\ created[f] = Len(shape[f].objs)
    /\ Fails(cancelled[f] \/ Live(f) = {}) /\ Count(cancelled[f] \/ Live(f) = {})
    /\ UndoBundle(f)
    /\ UNCHANGED <<now, shape, objVars, expiry, created, cancelled, confirmed, sweepVars, crashes>>

\* The caller of Apply or Clear goes away.
Cancel(f) ==
    /\ stage[f] \in {"applying", "undoing", "clearing"}
    /\ ~ cancelled[f]
    /\ cancelled' = [cancelled EXCEPT ![f] = TRUE]
    /\ UNCHANGED <<now, shape, objVars, stage, expiry, created, todo, failed, confirmed, sweepVars, errors, crashes>>

(***************************************************************************)
(* Taking a fault out: the rollback of a failed Apply, and Clear.  Both    *)
(* walk the driver's resource types, list and delete, and go on past an    *)
(* error.  A lister or a deleter that answers NotFound counts as done.     *)
(***************************************************************************)
\* kube-state and Clear find a bundle by its label; an outage's rollback only
\* knows the members whose create was answered.
Found(f, t) ==
    {o \in Of(f) : o.type = t
                   /\ (stage[f] = "undoing" /\ shape[f].driver = "outage" => o.id[2] <= created[f])}

\* An outage rolls back on a context that outlives its caller.
DeadFor(f) == cancelled[f] /\ ~ (stage[f] = "undoing" /\ shape[f].driver = "outage")

\* Mutant: an error while visiting a resource type is dropped.
VisitQuietly(f, found, dead) ==
    \/ ~ dead /\ Delete(found) /\ UNCHANGED <<failed, errors>>
    \/ /\ Fails(dead) /\ Count(dead)
       /\ \E kept \in SUBSET found : (dead => kept = found) /\ Delete(found \ kept)
       /\ UNCHANGED failed

VisitResource(f, found, dead) ==
    \/ ~ dead /\ Delete(found) /\ UNCHANGED <<failed, errors>>
    \/ /\ Fails(dead) /\ Count(dead)
       /\ \E kept \in SUBSET found : (dead => kept = found) /\ Delete(found \ kept)
       /\ failed' = [failed EXCEPT ![f] = TRUE]

Undo(f) ==
    /\ stage[f] = "undoing"
    /\ \E t \in todo[f] :
        /\ VisitResource(f, Found(f, t), DeadFor(f))
        /\ todo' = [todo EXCEPT ![f] = @ \ {t}]
    /\ stage' = [stage EXCEPT ![f] = IF todo'[f] = {} THEN "failed" ELSE @]
    /\ UNCHANGED <<now, shape, injected, expiry, created, cancelled, confirmed, sweepVars, crashes>>

ClearBegin(f) ==
    /\ stage[f] = "applied"
    /\ stage' = [stage EXCEPT ![f] = "clearing"]
    /\ todo' = [todo EXCEPT ![f] = IF shape[f].driver = "kube-state" THEN KubeState ELSE Range(shape[f].objs)]
    /\ failed' = [failed EXCEPT ![f] = FALSE]
    /\ cancelled' = [cancelled EXCEPT ![f] = FALSE]
    /\ UNCHANGED <<now, shape, objVars, expiry, created, confirmed, sweepVars, errors, crashes>>

Clear(f) ==
    /\ stage[f] = "clearing"
    /\ \E t \in todo[f] :
        /\ VisitResource(f, Found(f, t), DeadFor(f))
        /\ todo' = [todo EXCEPT ![f] = @ \ {t}]
    /\ stage' = [stage EXCEPT ![f] =
                   IF todo'[f] # {} THEN @ ELSE IF failed'[f] THEN "applied" ELSE "cleared"]
    /\ UNCHANGED <<now, shape, injected, expiry, created, cancelled, confirmed, sweepVars, crashes>>

(***************************************************************************)
(* ConfirmInjected, one poll that finds the fault injected.                *)
(***************************************************************************)
\* bundleState: every member present, counted against the stamped bundle size,
\* and injected now or in its records.
bundleState(f) ==
    /\ Of(f) # {}
    /\ Len(shape[f].objs) <= Cardinality(Of(f))
    /\ \A o \in Of(f) : o.id \in injected

ConfirmInjected(f) ==
    /\ stage[f] = "applied" /\ shape[f].driver \in {"chaos-mesh", "outage"}
    /\ f \notin confirmed
    /\ bundleState(f)
    /\ confirmed' = confirmed \cup {f}
    /\ UNCHANGED <<now, shape, objVars, stage, expiry, created, todo, failed, cancelled, sweepVars, errors, crashes>>

(***************************************************************************)
(* ReapExpired, one resource type after the other, on the time the pass    *)
(* began.                                                                  *)
(***************************************************************************)
Grace(t) == IF t = "chaos" THEN ReapGrace ELSE 0

\* Never delete on a guess: an object without a deadline is left alone.
Expired(o) == o.expiry # Never /\ o.expiry + Grace(o.type) < sweep.at

\* Mutant: a bundle is reported for each of its resource types.
ReportEach(cleared, fs) == cleared \o SetToSeq(fs)

\* Once per bundle, however many objects it is made of.
ReportOnce(cleared, fs) == cleared \o SetToSeq(fs \ Range(cleared))

\* What this pass did not see terminating is forgotten.
forgetStuckExcept(seen, told) == (stuckReported \cup told) \cap seen

\* A type that no fault is made of lists nothing, and is passed over.
Walk == SelectSeq(Resources, LAMBDA t : \E f \in Faults : t \in Range(shape[f].objs))

\* The pass is over with its last type, and forgets the time it was given.
Visited(cleared) ==
    [left |-> Tail(sweep.left), at |-> IF Len(sweep.left) = 1 THEN Never ELSE sweep.at, cleared |-> cleared]

SweepBegin ==
    /\ sweep.left = <<>>
    /\ sweep' = [left |-> Walk, at |-> now, cleared |-> <<>>]
    /\ UNCHANGED <<now, shape, objVars, callVars, stuckReported, reports, errors, crashes>>

\* Terminating objects are not deleted again; stuck ones are reported once.
Terminating(t) == {o \in objects : o.type = t /\ o.deletedAt # Never}

\* firstStuckReport, for the objects that have been terminating too long.
Stuck(t) == {o \in Terminating(t) : sweep.at - o.deletedAt >= StuckAfter /\ o.id \notin stuckReported}

SweepResource ==
    /\ sweep.left # <<>>
    /\ LET t == Head(sweep.left)
           due == {o \in objects \ Terminating(t) : o.type = t /\ Expired(o)}
           told == {o.id : o \in Stuck(t)}
       IN /\ \E kept \in SUBSET due :
                /\ kept # {} => Fails(FALSE)
                /\ errors' = IF kept = {} THEN errors ELSE errors + 1
                /\ Delete(due \ kept)
                /\ sweep' = Visited(ReportOnce(sweep.cleared, {o.id[1] : o \in due \ kept}))
          /\ stuckReported' = IF t = "chaos"
                              THEN forgetStuckExcept({o.id : o \in Terminating(t)}, told)
                              ELSE stuckReported
          /\ reports' = [i \in Ids |-> IF i \in told THEN reports[i] + 1 ELSE reports[i]]
    /\ UNCHANGED <<now, shape, injected, callVars, crashes>>

\* The listing fails: the pass goes on, and forgets what it did not see.
SweepUnlisted ==
    /\ sweep.left # <<>>
    /\ Fails(FALSE) /\ Count(FALSE)
    /\ sweep' = Visited(sweep.cleared)
    /\ stuckReported' = IF Head(sweep.left) = "chaos" THEN forgetStuckExcept({}, {}) ELSE stuckReported
    /\ UNCHANGED <<now, shape, objVars, callVars, reports, crashes>>

(***************************************************************************)
(* The process dies; the next one adopts what ListLive shows it.           *)
(***************************************************************************)
Crash ==
    /\ crashes < MaxCrashes
    /\ crashes' = crashes + 1
    /\ stage' = [f \in Faults |->
                   IF stage[f] \in {"applying", "undoing", "applied", "clearing"} THEN "lost" ELSE stage[f]]
    /\ todo' = [f \in Faults |-> {}]
    /\ failed' = [f \in Faults |-> FALSE]
    /\ cancelled' = [f \in Faults |-> FALSE]
    /\ confirmed' = {}
    /\ sweep' = Resting
    /\ stuckReported' = {}
    /\ reports' = [i \in Ids |-> 0]
    /\ UNCHANGED <<now, shape, objVars, expiry, created, errors>>

\* Not terminating, and with a deadline ahead.
Listed(o) == o.deletedAt = Never /\ o.expiry # Never /\ o.expiry > now

\* ListLive: one entry per bundle, however many of its objects are listed.
ListLive == {[fault |-> o.id[1], deadline |-> o.expiry] : o \in {p \in objects : Listed(p)}}

Adopt(f) ==
    /\ stage[f] = "lost"
    /\ \E l \in ListLive : l.fault = f
    /\ stage' = [stage EXCEPT ![f] = "applied"]
    /\ UNCHANGED <<now, shape, objVars, expiry, created, todo, failed, cancelled, confirmed, sweepVars, errors, crashes>>

Next ==
    \/ Tick \/ SweepBegin \/ SweepResource \/ SweepUnlisted \/ Crash
    \/ \E o \in objects : Inject(o) \/ Release(o)
    \/ \E f \in Faults :
        \/ Begin(f) \/ Create(f) \/ CreateFails(f) \/ Wedge(f) \/ WedgeFails(f)
        \/ Cancel(f) \/ Undo(f) \/ ClearBegin(f) \/ Clear(f) \/ ConfirmInjected(f) \/ Adopt(f)

Spec == Init /\ [][Next]_vars

\* The reap loop runs on a ticker and the clock advances.  Nothing says that
\* Chaos Mesh recovers an object, nor that a caller clears its fault.
FairSpec == Spec /\ WF_vars(Tick) /\ WF_vars(SweepBegin) /\ WF_vars(SweepResource)

(***************************************************************************)
(* Properties.                                                             *)
(***************************************************************************)
Holds(f) ==
    IF Live(f) = {} THEN "none"
    ELSE IF Cardinality(Live(f)) = Len(shape[f].objs) THEN "all" ELSE "some"

Contract == INSTANCE EngineContract WITH
    stage <- stage,
    holds <- [f \in Faults |-> Holds(f)],
    due <- [f \in Faults |-> expiry[f] # Never /\ expiry[f] < now]

\* The drivers keep the contract of simian.ChaosDriver: a fault made of several
\* objects is whole when Apply answers nil, stays whole until it is taken out or
\* its deadline has passed, and is gone when Clear answers nil, also when a
\* restarted process found it again from the cluster alone.
KeepsContract == Contract!Spec

\* ConfirmInjected vouches for the outage it was asked about: every member of
\* the bundle was injected, none is merely missing.
ConfirmedWhole == \A f \in confirmed : \A n \in 1 .. Len(shape[f].objs) : <<f, n>> \in injected

\* A pass reports a bundle once however many of its objects it deletes, because
\* the caller ends one lease, and writes one audit event, per report.
ReportedOnce == \A i, j \in 1 .. Len(sweep.cleared) : sweep.cleared[i] = sweep.cleared[j] => i = j

\* A stuck object is reported once per process, and again only after a pass that
\* could not list it.
StuckOnce == \A i \in Ids : reports[i] <= 1 + errors

\* What a failed Apply or a dead process leaves behind is swept up once it is
\* due: nobody holds a lease for it.
ResidueGoes ==
    \A f \in Faults :
        (stage[f] \in {"failed", "lost"} /\ shape[f].dur > 0)
            ~> (Live(f) = {} \/ stage[f] \notin {"failed", "lost"})

\* An object whose finalizer nothing removes is brought to somebody's attention.
StuckTold ==
    \A f \in Faults : \A n \in 1 .. 2 :
        (\E o \in Of(f) : o.id[2] = n /\ o.deletedAt # Never /\ o.deletedAt + StuckAfter <= MaxTime)
            ~> (~ (\E o \in Of(f) : o.id[2] = n) \/ reports[<<f, n>>] > 0)

\* What the drivers report of their objects is so, and is reported once.
ReportsTrue == TypeOK /\ ConfirmedWhole /\ ReportedOnce /\ StuckOnce
=============================================================================
