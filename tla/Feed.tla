-------------------------------- MODULE Feed --------------------------------
(***************************************************************************)
(* The web UI's live stream of audit events (webui.Broadcaster).  Emit     *)
(* never waits: an event that finds the queue full is dropped here and     *)
(* stays in the audit trail.  One goroutine, run, takes connections and    *)
(* events in the order they come, replays the recent events to a new       *)
(* connection and copies each event to all of them, again without waiting. *)
(* A connection is one call of serve; a page that reconnects is another.   *)
(***************************************************************************)
EXTENDS Integers, Sequences, FiniteSets, SequencesExt

CONSTANTS
    Conns,       \* the connections
    QueueCap,    \* the capacity of Broadcaster.in
    Replayed,    \* how many recent events a new connection is sent
    Slack        \* the room of a connection's channel beyond them

ASSUME FeedAssumption == QueueCap \in Nat \ {0} /\ Replayed \in Nat \ {0} /\ Slack \in Nat

VARIABLES
    inbox,    \* Broadcaster.in
    running,  \* run has not returned
    recent, subs,
    channel,  \* the events waiting in each connection's channel
    closed,   \* how often each channel was closed
    conn,     \* where serve stands
    got,      \* the events written to each connection
    fanned,   \* history: every event run has taken, in order
    since,    \* history: the first of them that each connection is to see
    behind,   \* history: connections that were full when an event came
    crashed   \* a send on a closed channel, or a second close

feedVars == <<inbox, running, recent, subs, channel, closed, conn, got, fanned, since, behind, crashed>>

Capacity == Replayed + Slack

LastOf(s, n) == SubSeq(s, IF Len(s) > n THEN Len(s) - n + 1 ELSE 1, Len(s))

FeedInit ==
    /\ inbox = <<>> /\ running = TRUE /\ recent = <<>> /\ subs = {}
    /\ channel = [c \in Conns |-> <<>>] /\ closed = [c \in Conns |-> 0]
    /\ conn = [c \in Conns |-> "new"] /\ got = [c \in Conns |-> <<>>]
    /\ fanned = <<>> /\ since = [c \in Conns |-> 0] /\ behind = {} /\ crashed = FALSE

\* Emit, as a conjunct of the step that emits.
Emit(e) == inbox' = IF Len(inbox) < QueueCap THEN Append(inbox, e) ELSE inbox

Quiet == UNCHANGED <<running, recent, subs, channel, closed, conn, got, fanned, since, behind, crashed>>

(***************************************************************************)
(* run                                                                     *)
(***************************************************************************)
Remember(e) == LastOf(Append(recent, e), Replayed)

FanOut ==
    /\ running /\ inbox # <<>>
    /\ LET e == Head(inbox)
           full == {c \in subs : Len(channel[c]) = Capacity}
       IN  /\ recent' = Remember(e)
           /\ channel' = [c \in Conns |-> IF c \in subs \ full THEN Append(channel[c], e) ELSE channel[c]]
           /\ crashed' = (crashed \/ \E c \in subs : closed[c] > 0)
           /\ fanned' = Append(fanned, e)
           /\ behind' = behind \cup full
    /\ inbox' = Tail(inbox)
    /\ UNCHANGED <<running, subs, closed, conn, got, since>>

\* A connection is added, and sent as many recent events as its channel takes.
Join(c) ==
    /\ running /\ conn[c] = "joining"
    /\ subs' = subs \cup {c}
    /\ channel' = [channel EXCEPT ![c] = SubSeq(recent, 1, IF Len(recent) < Capacity THEN Len(recent) ELSE Capacity)]
    /\ since' = [since EXCEPT ![c] = IF Len(fanned) > Replayed THEN Len(fanned) - Replayed + 1 ELSE 1]
    /\ conn' = [conn EXCEPT ![c] = "reading"]
    /\ UNCHANGED <<inbox, running, recent, closed, got, fanned, behind, crashed>>

Close(cs) ==
    /\ closed' = [c \in Conns |-> IF c \in cs THEN closed[c] + 1 ELSE closed[c]]
    /\ crashed' = (crashed \/ \E c \in cs : closed[c] > 0)

\* Mutant: the channel of a connection that leaves is closed and stays listed.
RemoveNothing(c) == subs

Without(c) == subs \ {c}

Leave(c) ==
    /\ running /\ conn[c] = "leaving"
    /\ subs' = Without(c)
    /\ Close({c} \cap subs)
    /\ conn' = [conn EXCEPT ![c] = "gone"]
    /\ UNCHANGED <<inbox, running, recent, channel, got, fanned, since, behind>>

\* The process is told to stop: every channel is closed and run returns.
FeedStops ==
    /\ running /\ running' = FALSE
    /\ Close(subs)
    /\ UNCHANGED <<inbox, recent, subs, channel, conn, got, fanned, since, behind>>

(***************************************************************************)
(* serve                                                                   *)
(***************************************************************************)
Connect(c) ==
    /\ conn[c] = "new"
    /\ conn' = [conn EXCEPT ![c] = "joining"]
    /\ UNCHANGED <<inbox, running, recent, subs, channel, closed, got, fanned, since, behind, crashed>>

Read(c) ==
    /\ conn[c] = "reading" /\ channel[c] # <<>>
    /\ got' = [got EXCEPT ![c] = Append(@, Head(channel[c]))]
    /\ channel' = [channel EXCEPT ![c] = Tail(@)]
    /\ UNCHANGED <<inbox, running, recent, subs, closed, conn, fanned, since, behind, crashed>>

\* The browser goes away, or the channel is closed and empty.
Disconnect(c) ==
    /\ conn[c] = "reading"
    /\ conn' = [conn EXCEPT ![c] = "leaving"]
    /\ UNCHANGED <<inbox, running, recent, subs, channel, closed, got, fanned, since, behind, crashed>>

EndOfStream(c) == closed[c] > 0 /\ channel[c] = <<>> /\ Disconnect(c)

\* run has not taken the notice within a second.
LeaveTimesOut(c) ==
    /\ conn[c] = "leaving"
    /\ conn' = [conn EXCEPT ![c] = "gone"]
    /\ UNCHANGED <<inbox, running, recent, subs, channel, closed, got, fanned, since, behind, crashed>>

FeedStep ==
    \/ FanOut \/ FeedStops
    \/ \E c \in Conns : Join(c) \/ Leave(c) \/ Connect(c) \/ Read(c) \/ Disconnect(c) \/ EndOfStream(c) \/ LeaveTimesOut(c)

(***************************************************************************)
(* Properties                                                              *)
(***************************************************************************)
\* A connection that never fell a full channel behind has been sent, or is about to
\* be, the events before it joined that are replayed and every one after, each once
\* and in the order run took them.
FeedWhole ==
    \A c \in subs \ behind :
        closed[c] = 0 /\ conn[c] = "reading" => got[c] \o channel[c] = SubSeq(fanned, since[c], Len(fanned))

\* The controller outlives its streams: no event is sent to a channel that is
\* closed, and none is closed twice, however connections come, go and time out
\* while run stops.
NeverPanics == ~ crashed

\* A stream ends once the process is told to stop.  Refuted: serve hands itself to
\* run without a way out, so a browser that connects after run has returned waits
\* for good.
StreamsEnd == ~ running ~> \A c \in Conns : conn[c] \in {"new", "gone"}
=============================================================================
