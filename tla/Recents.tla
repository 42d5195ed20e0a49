------------------------------ MODULE Recents ------------------------------
(***************************************************************************)
(* The ring of recent faults and the lease registry, both keyed by a fault *)
(* UID that a client of the MCP server, or an LLM's plan, may choose and   *)
(* send again.  The ring keeps an index of positions that every eviction   *)
(* shifts.  An Apply registers its lease, waits for the engine and the     *)
(* probes, and only then pushes its entry: a clear or the reaper that ends *)
(* the fault in between finds no entry to mark.                            *)
(***************************************************************************)
EXTENDS Integers, Sequences, FiniteSets

CONSTANTS
    UID,            \* the UIDs clients choose from
    Enders,         \* clears under way at once: clients', and the reaper's, one for each lease it found expired
    Capacity,       \* of the ring
    MaxApplies      \* bound on the faults applied

ASSUME RecentsAssumption == Capacity \in Nat \ {0} /\ MaxApplies \in Nat

VARIABLES
    items,      \* the ring, oldest first: the fault's UID, its object, whether it is marked cleared
    byUID,      \* UID -> position in items
    leases,     \* UID -> the object its lease would clear; 0 means no lease
    objects,    \* the engine's objects, numbered as they were applied
    uidOf,      \* the UID each object was applied under
    sent,       \* object -> how far the Apply that made it is
    ender,      \* the object a clear is about, and how far it is
    pushed,     \* the objects in the order their entries were pushed
    late        \* objects whose end found no entry to mark

rvars == <<items, byUID, leases, objects, uidOf, sent, ender, pushed, late>>

NoEnd == [at |-> "idle", obj |-> 0]

RInit ==
    /\ items = <<>> /\ byUID = [u \in {} |-> 0]
    /\ leases = [u \in UID |-> 0]
    /\ objects = {} /\ uidOf = <<>>
    /\ sent = [k \in 1 .. MaxApplies |-> "none"]
    /\ ender = [e \in Enders |-> NoEnd]
    /\ pushed = <<>> /\ late = {}

Without(f, u) == [x \in DOMAIN f \ {u} |-> f[x]]

\* Mutant: positions stay where they were.
Unshifted(f) == f

Shifted(f) == [x \in DOMAIN f |-> f[x] - 1]

Full == Len(items) >= Capacity

\* Evicts the oldest when full, and its UID's index with it.
Push(item) ==
    LET kept == IF Full THEN Tail(items) ELSE items
        index == IF Full THEN Shifted(Without(byUID, items[1].uid)) ELSE byUID
    IN  /\ items' = Append(kept, item)
        /\ byUID' = [x \in DOMAIN index \cup {item.uid} |-> IF x = item.uid THEN Len(kept) + 1 ELSE index[x]]

\* Apply, after validation: the driver's object, and then its lease, which
\* replaces one of the same UID.
Drive(u) ==
    LET obj == Len(uidOf) + 1
    IN  /\ Len(uidOf) < MaxApplies
        /\ uidOf' = Append(uidOf, u) /\ objects' = objects \cup {obj}
        /\ sent' = [sent EXCEPT ![obj] = "driven"]
        /\ UNCHANGED <<items, byUID, leases, ender, pushed, late>>

Register(k) ==
    /\ sent[k] = "driven"
    /\ leases' = [leases EXCEPT ![uidOf[k]] = k]
    /\ sent' = [sent EXCEPT ![k] = "settling"]
    /\ UNCHANGED <<items, byUID, objects, uidOf, ender, pushed, late>>

\* The engine confirmed and the fault settled: Apply records it, whatever became
\* of it meanwhile.
Record(k) ==
    /\ sent[k] = "settling"
    /\ Push([uid |-> uidOf[k], obj |-> k, cleared |-> FALSE])
    /\ pushed' = Append(pushed, k)
    /\ sent' = [sent EXCEPT ![k] = "recorded"]
    /\ UNCHANGED <<leases, objects, uidOf, ender, late>>

\* It did not: the object is deleted and its UID's lease forgotten, or the delete
\* fails and the lease is left to the reaper.
BackOut(k) ==
    /\ sent[k] = "settling"
    /\ \/ objects' = objects \ {k} /\ sent' = [sent EXCEPT ![k] = "deleted"]
       \/ sent' = [sent EXCEPT ![k] = "left"] /\ UNCHANGED objects
    /\ UNCHANGED <<items, byUID, leases, uidOf, ender, pushed, late>>

BackOutForgets(k) ==
    /\ sent[k] = "deleted"
    /\ leases' = [leases EXCEPT ![uidOf[k]] = 0]
    /\ sent' = [sent EXCEPT ![k] = "left"]
    /\ UNCHANGED <<items, byUID, objects, uidOf, ender, pushed, late>>

\* A clear, or the reaper on a lease that expired: it reads the lease, deletes its
\* object, forgets the UID's lease and marks the UID's entry, if there is one.
GetLease(e, u) ==
    /\ ender[e].at = "idle" /\ leases[u] # 0
    /\ ender' = [ender EXCEPT ![e] = [at |-> "got", obj |-> leases[u]]]
    /\ UNCHANGED <<items, byUID, leases, objects, uidOf, sent, pushed, late>>

DeleteObject(e) ==
    /\ ender[e].at = "got"
    /\ \/ objects' = objects \ {ender[e].obj} /\ ender' = [ender EXCEPT ![e].at = "deleted"]
       \/ ender' = [ender EXCEPT ![e] = NoEnd] /\ UNCHANGED objects
    /\ UNCHANGED <<items, byUID, leases, uidOf, sent, pushed, late>>

ForgetLease(e) ==
    /\ ender[e].at = "deleted"
    /\ leases' = [leases EXCEPT ![uidOf[ender[e].obj]] = 0]
    /\ ender' = [ender EXCEPT ![e].at = "forgotten"]
    /\ UNCHANGED <<items, byUID, objects, uidOf, sent, pushed, late>>

MarkCleared(e) ==
    LET u == uidOf[ender[e].obj]
        known == u \in DOMAIN byUID
    IN  /\ ender[e].at = "forgotten"
        /\ items' = IF known THEN [items EXCEPT ![byUID[u]].cleared = TRUE] ELSE items
        /\ late' = IF known THEN late ELSE late \cup {ender[e].obj}
        /\ ender' = [ender EXCEPT ![e] = NoEnd]
        /\ UNCHANGED <<byUID, leases, objects, uidOf, sent, pushed>>

Applying(k) == Register(k) \/ Record(k) \/ BackOut(k) \/ BackOutForgets(k)
Ending(e) == (\E u \in UID : GetLease(e, u)) \/ DeleteObject(e) \/ ForgetLease(e) \/ MarkCleared(e)

RNext ==
    \/ \E u \in UID : Drive(u)
    \/ \E k \in DOMAIN uidOf : Applying(k)
    \/ \E e \in Enders : Ending(e)

RSpec == RInit /\ [][RNext]_rvars

\* The ring holds the newest entries in the order they were pushed, at most its
\* capacity.
RTypeOK ==
    /\ Len(items) = IF Len(pushed) < Capacity THEN Len(pushed) ELSE Capacity
    /\ \A i \in DOMAIN items : items[i].obj = pushed[Len(pushed) - Len(items) + i] /\ items[i].uid = uidOf[items[i].obj]
    /\ DOMAIN byUID \subseteq UID /\ objects \subseteq DOMAIN uidOf
    /\ \A u \in UID : leases[u] # 0 => leases[u] \in DOMAIN uidOf /\ uidOf[leases[u]] = u

\* Every position of the index is the newest entry of its UID, whatever has been
\* evicted and however UIDs repeat.
IndexSound ==
    \A u \in DOMAIN byUID :
        /\ byUID[u] \in DOMAIN items /\ items[byUID[u]].uid = u
        /\ \A i \in DOMAIN items : items[i].uid = u => i <= byUID[u]

Once(u) == Cardinality({k \in DOMAIN uidOf : uidOf[k] = u}) = 1

EndedBy(k, ats) == \E e \in Enders : ender[e].obj = k /\ ender[e].at \in ats

\* A fault whose UID was sent once is told truly, whatever other clients repeat.
\* From its registration on a live object is leased, and a lease without an object
\* is about to be forgotten by whoever deleted it.  Its entry, while the ring holds
\* it, is found; one marked cleared is gone, and one that is gone is marked, or is
\* about to be, or ended before Apply came to record it.
OnceTold ==
    \A k \in DOMAIN uidOf : Once(uidOf[k]) =>
        /\ k \in objects /\ sent[k] # "driven" => leases[uidOf[k]] = k
        /\ leases[uidOf[k]] = k => k \in objects \/ sent[k] = "deleted" \/ EndedBy(k, {"deleted"})
        /\ \A i \in DOMAIN items : items[i].obj = k =>
            /\ uidOf[k] \in DOMAIN byUID
            /\ items[i].cleared => k \notin objects
            /\ k \notin objects => items[i].cleared \/ k \in late \/ EndedBy(k, {"deleted", "forgotten"})

\* "No-op if the fault is not (or no longer) in the buffer": a fault in the
\* buffer is found.
InBufferFound == \A i \in DOMAIN items : items[i].uid \in DOMAIN byUID

\* The ring, its index and the leases agree on every fault whose UID was its own.
RingSound == RTypeOK /\ IndexSound /\ OnceTold
=============================================================================
