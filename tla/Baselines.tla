----------------------------- MODULE Baselines -----------------------------
(***************************************************************************)
(* Baselines (pkg/sut): what establish_baseline does in the controller,    *)
(* Manager.Deploy for a registered system under test and                   *)
(* EstablishBaselineFromTopology for whatever runs in the namespace.  Both *)
(* poll the workloads until they have been ready for a whole stability     *)
(* window, put the baseline into the cache of the process and mirror it to *)
(* a ConfigMap of the namespace, from where a restarted controller warms   *)
(* its cache.  What a poll finds is the cluster's choice (external).       *)
(***************************************************************************)
EXTENDS FiniteSets, Integers

CONSTANTS
    BSpaces,          \* arena namespaces
    BCalls,           \* calls of establish_baseline, each made once
    Refs,             \* the workloads of a system under test
    NoBaseline,
    StabilityWindow, ReadyTimeout, PollInterval,
    MaxRestarts       \* bound: restarts of the controller

ASSUME BaselineAssumption ==
    /\ NoBaseline \notin BCalls
    /\ StabilityWindow \in Nat /\ ReadyTimeout \in Nat /\ PollInterval \in Nat \ {0}
    /\ MaxRestarts \in Nat

VARIABLES
    cache,     \* the baseline of each namespace in the running process
    stored,    \* the one in the namespace's ConfigMap
    arenas,    \* the namespaces that exist and are annotated
    request,   \* the progress of each call
    unlisted,    \* history: arenas the last start could not read, and no call has captured since
    kept,      \* history: the baseline a call reported as established and saved
    restarts

bvars == <<cache, stored, arenas, request, unlisted, kept, restarts>>

\* A baseline is named after the call that captured it.  "elapsed" is the time
\* since the wait began, "first" the time of the poll since which all were ready;
\* "bad" (history) is the last time a poll found one that was not.
Unready == 0 - 1
NewRequest(ns) ==
    [at |-> "new", ns |-> ns, elapsed |-> 0, first |-> Unready, bad |-> 0, alone |-> TRUE]

BInit ==
    /\ cache = [ns \in BSpaces |-> NoBaseline] /\ stored = cache /\ kept = cache
    /\ arenas = BSpaces /\ unlisted = {}
    /\ request \in [BCalls -> {NewRequest(ns) : ns \in BSpaces}]
    /\ restarts = 0

Update(k, r) == request' = [request EXCEPT ![k] = r]
Concluded(r) == [NewRequest(r.ns) EXCEPT !.at = "over"]
Over(k) == Update(k, Concluded(request[k]))

(***************************************************************************)
(* Before the wait: Deploy applies the manifests, the other call lists the *)
(* workloads.  Any request may fail, and a namespace may have no workload. *)
(***************************************************************************)
Begin(k) ==
    /\ request[k].at = "new"
    /\ \/ request[k].ns \in arenas /\ Update(k, [request[k] EXCEPT !.at = "poll"])
       \/ Over(k)
    /\ UNCHANGED <<cache, stored, arenas, unlisted, kept, restarts>>

(***************************************************************************)
(* waitForBaselineOnRefs                                                   *)
(***************************************************************************)
\* workloadStatuses: a workload that is missing, that is scaled to zero or that
\* lacks a replica is not ready.
Replicas == {[desired |-> 0, ready |-> 0], [desired |-> 1, ready |-> 0], [desired |-> 1, ready |-> 1]}
allReady(statuses) ==
    statuses # <<>> /\ \A w \in DOMAIN statuses : statuses[w].desired # 0 /\ statuses[w].ready >= statuses[w].desired

\* What one poll makes of the time the workloads have been ready.
\* Mutant: a regression within the window goes unnoticed.
ReadySinceFirst(r, ready) ==
    [r EXCEPT !.first = IF ready /\ @ = Unready THEN r.elapsed ELSE @,
              !.bad = IF ready THEN @ ELSE r.elapsed]

ReadySince(r, ready) ==
    [r EXCEPT !.first = IF ~ ready THEN Unready ELSE IF @ = Unready THEN r.elapsed ELSE @,
              !.bad = IF ready THEN @ ELSE r.elapsed]

PastDeadline(r) == r.elapsed > ReadyTimeout

\* Everyone else that has captured a baseline of this namespace and not saved it.
Overlapping(k) == {j \in BCalls \ {k} : request[j].at = "save" /\ request[j].ns = request[k].ns}

Poll(k) ==
    /\ request[k].at = "poll"
    /\ \E statuses \in [Refs -> Replicas] :
          LET ready == allReady(statuses)
              r == ReadySince(request[k], ready)
          IN  \/ /\ ready /\ r.elapsed - r.first >= StabilityWindow
                 /\ cache' = [cache EXCEPT ![r.ns] = k]
                 /\ kept' = [kept EXCEPT ![r.ns] = NoBaseline] /\ unlisted' = unlisted \ {r.ns}
                 /\ request' = [j \in BCalls |->
                       IF j = k THEN [r EXCEPT !.at = "save", !.alone = Overlapping(k) = {}]
                       ELSE [request[j] EXCEPT !.alone = @ /\ j \notin Overlapping(k)]]
              \/ /\ ~ (ready /\ r.elapsed - r.first >= StabilityWindow)
                 /\ Update(k, IF PastDeadline(r) THEN Concluded(r) ELSE [r EXCEPT !.at = "wait"])
                 /\ UNCHANGED <<cache, kept, unlisted>>
    /\ UNCHANGED <<stored, arenas, restarts>>

Wait(k) ==
    /\ request[k].at = "wait"
    /\ Update(k, [request[k] EXCEPT !.at = "poll", !.elapsed = @ + PollInterval])
    /\ UNCHANGED <<cache, stored, arenas, unlisted, kept, restarts>>

\* A status request fails, or the caller goes away.
BreakOff(k) ==
    /\ request[k].at \in {"poll", "wait"}
    /\ Over(k)
    /\ UNCHANGED <<cache, stored, arenas, unlisted, kept, restarts>>

(***************************************************************************)
(* ConfigMapStore                                                          *)
(***************************************************************************)
\* Save: the ConfigMap is updated, or created.
Save(k) ==
    /\ request[k].at = "save" /\ request[k].ns \in arenas
    /\ stored' = [stored EXCEPT ![request[k].ns] = k]
    /\ kept' = [kept EXCEPT ![request[k].ns] = IF request[k].alone THEN k ELSE @]
    /\ Over(k)
    /\ UNCHANGED <<cache, arenas, unlisted, restarts>>

\* The call succeeds all the same; persistFailed puts the failure on the trail.
SaveFails(k) ==
    /\ request[k].at = "save"
    /\ Over(k)
    /\ UNCHANGED <<cache, stored, arenas, unlisted, kept, restarts>>

\* List: the baselines of the arenas that could be read.
List(unreadable) ==
    [ns \in BSpaces |-> IF ns \in arenas \ unreadable THEN stored[ns] ELSE NoBaseline]

\* serve: a new process, whose LoadCachedBaselines keeps what List returned.  The
\* arenas may not even be resolved.
Restart ==
    /\ restarts < MaxRestarts
    /\ \E unreadable \in SUBSET arenas : cache' = List(unreadable) /\ unlisted' = unreadable
    /\ request' = [k \in BCalls |-> IF request[k].at = "new" THEN request[k] ELSE Concluded(request[k])]
    /\ restarts' = restarts + 1
    /\ UNCHANGED <<stored, arenas, kept>>

\* The ConfigMap goes with its namespace (external); the cache is not told.
ArenaGone(ns) ==
    /\ ns \in arenas
    /\ arenas' = arenas \ {ns}
    /\ stored' = [stored EXCEPT ![ns] = NoBaseline]
    /\ kept' = [kept EXCEPT ![ns] = NoBaseline]
    /\ UNCHANGED <<cache, request, unlisted, restarts>>

ArenaMade(ns) ==
    /\ ns \notin arenas
    /\ arenas' = arenas \cup {ns}
    /\ UNCHANGED <<cache, stored, request, unlisted, kept, restarts>>

BNext ==
    \/ \E k \in BCalls : Begin(k) \/ Poll(k) \/ Wait(k) \/ BreakOff(k) \/ Save(k) \/ SaveFails(k)
    \/ Restart
    \/ \E ns \in BSpaces : ArenaGone(ns) \/ ArenaMade(ns)

BSpec == BInit /\ [][BNext]_bvars

(***************************************************************************)
(* Properties                                                              *)
(***************************************************************************)
\* Type invariant, with the bound of a wait: however often the workloads come and
\* go, it is over one interval after ReadyTimeout.
BTypeOK ==
    /\ cache \in [BSpaces -> BCalls \cup {NoBaseline}] /\ stored \in [BSpaces -> BCalls \cup {NoBaseline}]
    /\ kept \in [BSpaces -> BCalls \cup {NoBaseline}]
    /\ arenas \subseteq BSpaces /\ unlisted \subseteq BSpaces
    /\ restarts \in 0 .. MaxRestarts
    /\ \A k \in BCalls :
        /\ request[k].at \in {"new", "poll", "wait", "save", "over"}
        /\ request[k].elapsed \in 0 .. ReadyTimeout + PollInterval
        /\ request[k].first \in {Unready} \cup (0 .. request[k].elapsed)

\* A baseline that is captured describes workloads that every poll of a whole
\* stability window found ready, however they came and went before
\* (waitForBaselineOnRefs).
StableThroughout ==
    \A k \in BCalls : request[k].at = "save" => request[k].elapsed - request[k].bad >= StabilityWindow

\* A baseline that a call reported, that was saved and that no other call of the
\* namespace overlapped, is the one the controller works with, also after restarts,
\* unless the namespace itself could not be read at start-up.
SurvivesRestart ==
    \A ns \in BSpaces \ unlisted : kept[ns] # NoBaseline => cache[ns] = kept[ns]

\* A baseline that was saved is the one that is cached.  Refuted: the cache is written
\* under the lock and the ConfigMap after it, so of two calls the cache may keep one
\* and the ConfigMap the other.
SavedIsCached ==
    \A ns \in arenas :
        stored[ns] # NoBaseline /\ restarts = 0 /\ (\A k \in BCalls : request[k].at # "save") => cache[ns] = stored[ns]

\* A baseline is of a stable system, found in bounded time, and survives a restart.
BaselineSound == BTypeOK /\ StableThroughout /\ SurvivesRestart
=============================================================================
