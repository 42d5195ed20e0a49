---------------------------- MODULE MCController ----------------------------
(***************************************************************************)
(* Small instances of Controller for TLC.                                  *)
(***************************************************************************)
EXTENDS Controller

CONSTANTS f1, f2, ns1, ns2

OneFault  == {f1}
TwoFaults == {f1, f2}
OneNS     == {ns1}

SameTarget    == [f \in Faults |-> {ns1}]
NetworkPolicy == [f \in Faults |-> "network-policy"]
ChaosMesh     == [f \in Faults |-> "chaos-mesh"]
Envoy         == [f \in Faults |-> "envoy-fault"]
OneTick       == [f \in Faults |-> 1]
TwoTicks      == [f \in Faults |-> 2]
=============================================================================
