----------------------------- MODULE MCExecutor -----------------------------
(***************************************************************************)
(* Small instances of Executor for TLC.                                    *)
(***************************************************************************)
EXTENDS Executor

CONSTANTS f1, f2, ns1, ns2

TwoFaults   == {f1, f2}
TwoNS       == {ns1, ns2}

\* f1 spans both namespaces, f2 shares the second with it.
SharedTargets == [f \in Faults |-> IF f = f1 THEN {ns1, ns2} ELSE {ns2}]

\* Chaos Mesh ends its own faults; network-policy has only the reaper.
TwoEngines  == [f \in Faults |-> IF f = f1 THEN "network-policy" ELSE "chaos-mesh"]
NoEngine    == [f \in Faults |-> "network-policy"]
OneTick     == [f \in Faults |-> 1]
\* Over at the next tick of the clock.
UnderATick  == [f \in Faults |-> 0]
=============================================================================
