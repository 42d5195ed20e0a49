------------------------------ MODULE Autonomy ------------------------------
(***************************************************************************)
(* Autonomous mode (pkg/loop): the settings an operator may change while   *)
(* the controller runs (Control) and the goroutine that reads them         *)
(* (Loop.Run), with what RunOnce does inside one turn left to the modules  *)
(* PlanRun and Executor.                                                   *)
(*                                                                         *)
(* Set stores the settings under a mutex and then, outside it, offers a    *)
(* token to a channel of capacity one; Run works from its own copy, which  *)
(* it refreshes at the top of a cycle, before every namespace's turn and   *)
(* whenever it takes the token.                                            *)
(***************************************************************************)
EXTENDS Integers, Sequences, SequencesExt

CONSTANTS
    Offered,     \* the settings operators may choose from
    Install,     \* the install's own settings
    MaxEdits,    \* bound on the number of calls of Control.Set
    CycleMod     \* what the cycle number is counted modulo

PauseAll == "*"

ASSUME InstallAssumption == Install \in Offered
ASSUME OfferedAssumption ==
    \A s \in Offered : s.enabled \in BOOLEAN /\ s.interval \in Nat
\* An interval is a time.Duration, so one of those on offer is the longest.
ASSUME LongestAssumption ==
    \E longest \in Offered : \A s \in Offered : s.interval <= longest.interval
ASSUME EditsAssumption == MaxEdits \in Nat
\* cycle % n is exact for every number n of namespaces on offer.
ASSUME CycleAssumption ==
    /\ CycleMod \in Nat \ {0}
    /\ \A s \in Offered : Len(s.namespaces) > 0 => CycleMod % Len(s.namespaces) = 0

VARIABLES
    settings,   \* Control.settings
    changed,    \* whether Control.changed holds a token
    wakes,      \* calls of Set that have stored but not yet offered the token
    edits,      \* calls of Set so far
    synced,     \* the loop's own copy of the settings
    lpc,        \* where Run is
    cycle,      \* the cycle number, modulo CycleMod
    turns,      \* the namespaces whose turn is still to come
    spent,      \* time since the cycle started, capped at the longest interval
    left        \* what is left on the timer

controlVars == <<settings, changed, wakes, edits>>
clockVars   == <<spent, left>>
runVars     == <<synced, lpc, cycle, turns>>
avars       == <<controlVars, clockVars, runVars>>

LongestInterval == CHOOSE n \in {s.interval : s \in Offered} : \A s \in Offered : s.interval <= n

\* Type invariant: settings, token, the loop's place and its clock.
ATypeOK ==
    /\ settings \in Offered
    /\ synced \in Offered
    /\ changed \in BOOLEAN
    /\ wakes \in Nat
    /\ edits \in 0 .. MaxEdits
    /\ lpc \in {"top", "off", "turns", "running", "waiting"}
    /\ cycle \in 0 .. CycleMod - 1
    /\ spent \in 0 .. LongestInterval
    /\ left \in 0 .. LongestInterval

AInit ==
    /\ settings = Install
    /\ changed = FALSE
    /\ wakes = 0
    /\ edits = 0
    /\ synced = Install
    /\ lpc = "top"
    /\ cycle = 0
    /\ turns = <<>>
    /\ spent = LongestInterval      \* the first cycle waits for nothing
    /\ left = 0

(***************************************************************************)
(* Control.Set.                                                            *)
(***************************************************************************)
Store(s) ==
    /\ edits < MaxEdits
    /\ edits' = edits + 1
    /\ settings' = s
    /\ wakes' = wakes + 1
    /\ UNCHANGED <<changed, clockVars, runVars>>

\* The send does not block: a token already there is enough.
Wake ==
    /\ wakes > 0
    /\ wakes' = wakes - 1
    /\ changed' = TRUE
    /\ UNCHANGED <<settings, edits, clockVars, runVars>>

(***************************************************************************)
(* Loop.Run.                                                               *)
(***************************************************************************)
Runnable(s) == s.enabled /\ s.namespaces # <<>> /\ s.interval > 0

\* Mutant: the pause of all namespaces at once is overlooked.
PausedByName(s, ns) == ns \in s.paused

Paused(s, ns) == PauseAll \in s.paused \/ ns \in s.paused

\* Mutant: always the same namespace first.
SameOrder(c, names) == names

CycleOrder(c, names) ==
    [i \in DOMAIN names |-> names[((c + i - 1) % Len(names)) + 1]]

NextCycle == cycle' = (cycle + 1) % CycleMod

Top ==
    /\ lpc = "top"
    /\ synced' = settings
    /\ spent' = 0
    /\ \/ /\ Runnable(settings)
          /\ lpc' = "turns"
          /\ turns' = CycleOrder(cycle, settings.namespaces)
       \/ /\ ~ Runnable(settings)
          /\ lpc' = "off"
          /\ turns' = <<>>
    /\ UNCHANGED <<controlVars, cycle, left>>

\* Mutant: the token is taken, but the copy of before is what decides.
WokenStale ==
    /\ lpc = "off"
    /\ changed
    /\ changed' = FALSE
    /\ lpc' = IF Runnable(synced) THEN "top" ELSE "off"
    /\ NextCycle
    /\ UNCHANGED <<settings, wakes, edits, synced, turns, clockVars>>

\* Off, or nowhere to run: wait for a change.
Woken ==
    /\ lpc = "off"
    /\ changed
    /\ changed' = FALSE
    /\ lpc' = "top"
    /\ NextCycle
    /\ UNCHANGED <<settings, wakes, edits, synced, turns, clockVars>>

TakeTurn(ns) ==
    /\ lpc = "turns"
    /\ turns # <<>>
    /\ ns = Head(turns)
    /\ turns' = Tail(turns)
    /\ synced' = settings
    /\ UNCHANGED <<controlVars, cycle, clockVars>>

HasTurn(s, ns) == Runnable(s) /\ ns \in ToSet(s.namespaces) /\ ~ Paused(s, ns)

\* The settings changed while an earlier namespace ran, or ns is paused.
TurnSkipped(ns) ==
    /\ TakeTurn(ns)
    /\ ~ HasTurn(settings, ns)
    /\ lpc' = "turns"

TurnStarts(ns) ==
    /\ TakeTurn(ns)
    /\ HasTurn(settings, ns)
    /\ lpc' = "running"

TurnEnds ==
    /\ lpc = "running"
    /\ lpc' = "turns"
    /\ UNCHANGED <<controlVars, clockVars, synced, cycle, turns>>

\* A cycle that outran its interval is followed by a full one.
CycleEnds ==
    /\ lpc = "turns"
    /\ turns = <<>>
    /\ lpc' = "waiting"
    /\ left' = IF spent < synced.interval THEN synced.interval - spent ELSE synced.interval
    /\ UNCHANGED <<controlVars, synced, cycle, turns, spent>>

TimerFires ==
    /\ lpc = "waiting"
    /\ left = 0
    /\ lpc' = "top"
    /\ NextCycle
    /\ UNCHANGED <<controlVars, synced, turns, clockVars>>

\* Mutant: every change starts a cycle at once.
ChangedStartsCycle ==
    /\ lpc = "waiting"
    /\ changed
    /\ changed' = FALSE
    /\ synced' = settings
    /\ lpc' = "top"
    /\ NextCycle
    /\ UNCHANGED <<settings, wakes, edits, turns, clockVars>>

\* A change while the loop waits: back to the top when there is nothing left
\* to do, or when the new interval, counted from the start of the cycle, is
\* over; otherwise a timer for the rest of it.
ChangedWhileWaiting ==
    /\ lpc = "waiting"
    /\ changed
    /\ changed' = FALSE
    /\ synced' = settings
    /\ \/ /\ ~ Runnable(settings) \/ settings.interval <= spent
          /\ lpc' = "top"
          /\ NextCycle
          /\ UNCHANGED left
       \/ /\ Runnable(settings) /\ settings.interval > spent
          /\ left' = settings.interval - spent
          /\ UNCHANGED <<lpc, cycle>>
    /\ UNCHANGED <<settings, wakes, edits, turns, spent>>

\* The clock.  A turn may take any time; the timer runs while the loop waits.
Later(t) == IF t < LongestInterval THEN t + 1 ELSE t

APasses ==
    /\ lpc \in {"running", "waiting"}
    /\ spent' = Later(spent)
    /\ left' = IF lpc = "waiting" /\ left > 0 THEN left - 1 ELSE left
    /\ UNCHANGED <<controlVars, runVars>>

SetStep == Wake \/ \E s \in Offered : Store(s)

RunStep ==
    \/ Top \/ Woken \/ TurnEnds \/ CycleEnds \/ TimerFires \/ ChangedWhileWaiting
    \/ \E ns \in ToSet(turns) : TurnSkipped(ns) \/ TurnStarts(ns)

ANext == SetStep \/ RunStep \/ APasses

ASpec == AInit /\ [][ANext]_avars

\* The goroutine runs and the clock moves; a turn ends, since waitForSlot is
\* bounded and the planner and the API server answer; a call of Set that has
\* stored the settings goes on to wake the loop.
AFairness == WF_avars(RunStep) /\ WF_avars(APasses) /\ WF_avars(Wake)

AFairSpec == ASpec /\ AFairness

(***************************************************************************)
(* Properties.                                                             *)
(***************************************************************************)
\* No wake-up is lost: while the loop sleeps because it is off, settings that
\* would let it run always have a token on the way, however the calls of Set
\* interleave with its own reading of them.
WakeNotLost ==
    lpc = "off" /\ Runnable(settings) => changed \/ wakes > 0

\* "Turned off, retargeted or retuned: keep the schedule, with the new interval,
\* unless the loop now has nothing to do": a cycle starts no sooner after the
\* one before than the interval of the settings the loop last read, however often
\* they changed.  Two cycles may be closer: when the loop last read settings that
\* let nothing run, so that off and then on starts one at once, and when a longer
\* interval is stored after the wait is over, which the new cycle only works with.
IntervalKept ==
    [][lpc = "top" /\ lpc' = "turns" /\ Runnable(synced) => spent >= synced.interval]_avars

Leads(ns) == lpc = "turns" /\ Len(turns) = Len(synced.namespaces) /\ Head(turns) = ns

Listed == UNION {ToSet(s.namespaces) : s \in Offered}

\* Every namespace goes first again and again ("always starting with the same
\* one left the others refused cycle after cycle"), once operators leave the
\* settings alone and the loop is on.
RotationFair ==
    \A ns \in Listed :
        <>[](Runnable(settings) /\ ns \in ToSet(settings.namespaces)) => []<>Leads(ns)
=============================================================================
