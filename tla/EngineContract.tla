--------------------------- MODULE EngineContract ---------------------------
(***************************************************************************)
(* What simian.ChaosDriver promises the executor about a fault, whatever   *)
(* the fault is made of: how much of it the cluster holds may only shrink  *)
(* while the driver takes it out or once its deadline has passed, and the  *)
(* two calls answer nil only over a whole fault, or over nothing.          *)
(***************************************************************************)
CONSTANT Faults

VARIABLES
    stage,   \* where the calls for a fault stand
    holds,   \* how much of it the cluster holds and is not deleting
    due      \* its stamped deadline has passed

vars == <<stage, holds, due>>

\* A process that dies takes the call, or the lease of an applied fault, with it; the
\* next process may find the fault again.
Moves == {<<"idle", "applying">>, <<"applying", "undoing">>, <<"applying", "applied">>,
          <<"applying", "failed">>, <<"undoing", "failed">>, <<"applied", "clearing">>,
          <<"clearing", "applied">>, <<"clearing", "cleared">>}
         \cup {<<"lost", "applied">>}
         \cup ({"applying", "undoing", "applied", "clearing"} \X {"lost"})

Init ==
    /\ stage = [f \in Faults |-> "idle"]
    /\ holds = [f \in Faults |-> "none"]
    /\ due = [f \in Faults |-> FALSE]

Shrinks(a, b) == a # b /\ (a = "all" \/ b = "none")

\* What one step may do to one fault.
Step(f) ==
    /\ stage'[f] # stage[f] => <<stage[f], stage'[f]>> \in Moves
    /\ due[f] => due'[f]
    /\ Shrinks(holds'[f], holds[f]) => stage[f] = "applying"
    /\ Shrinks(holds[f], holds'[f]) => stage[f] \in {"undoing", "clearing"} \/ due[f]
    /\ <<stage[f], stage'[f]>> = <<"applying", "applied">> => holds'[f] = "all" \/ due[f]
    /\ <<stage[f], stage'[f]>> = <<"clearing", "cleared">> => holds'[f] = "none"

Next == \A f \in Faults : Step(f)

Spec == Init /\ [][Next]_vars
=============================================================================
