-------------------------- MODULE MCAutonomyAdmin ---------------------------
(***************************************************************************)
(* Small instances of AutonomyAdmin for TLC: one namespace, every setting  *)
(* of the switch and of the pause list.                                    *)
(***************************************************************************)
EXTENDS AutonomyAdmin

CONSTANTS a1, a2, f1

OneAdmin  == {a1}
TwoAdmins == {a1, a2}
OneFault  == {f1}

AllSettings ==
    [enabled : BOOLEAN, namespaces : {<<"a">>}, interval : {1}, paused : SUBSET {"a", PauseAll}]

InstalledOn ==
    [enabled |-> TRUE, namespaces |-> <<"a">>, interval |-> 1, paused |-> {}]
=============================================================================
