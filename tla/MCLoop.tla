------------------------------- MODULE MCLoop -------------------------------
(***************************************************************************)
(* Small instances, for TLC, of what one process of the controller runs by *)
(* itself.  A behaviour is about one of the three: the loop of Autonomy, a *)
(* turn of Turns with its trail, or a declarative fault of StateKinds      *)
(* under its gate.                                                         *)
(***************************************************************************)
EXTENDS Autonomy, Turns, StateKinds

CONSTANTS ar1, ar2

VARIABLE part

lvars == <<part, avars, uvars, kvars>>

(***************************************************************************)
(* Two namespaces, and settings that are off, on, on for one namespace     *)
(* only, paused, and slower.                                               *)
(***************************************************************************)
Conf(on, names, every, pause) ==
    [enabled |-> on, namespaces |-> names, interval |-> every, paused |-> pause]

Off      == Conf(FALSE, <<"a", "b">>, 1, {})
On       == Conf(TRUE, <<"a", "b">>, 1, {})
Slow     == Conf(TRUE, <<"a", "b">>, 2, {})
OnlyB    == Conf(TRUE, <<"b">>, 1, {})
PauseA   == Conf(TRUE, <<"a", "b">>, 1, {"a"})
PausedUp == Conf(TRUE, <<"a", "b">>, 1, {PauseAll})

SomeSettings == {Off, On, Slow, OnlyB, PauseA, PausedUp}

(***************************************************************************)
(* Drafts of one or two steps: broken, without orders or durations, too    *)
(* long, unfit, with a shared order, in a circle, dangling, and in order   *)
(* with an id of the LLM's own.                                            *)
(***************************************************************************)
Step(o, d, t) == [order |-> o, deps |-> d, dur |-> t, ns |-> Unset, whole |-> TRUE, fits |-> TRUE]
Draft(s) == [json |-> TRUE, id |-> Unset, steps |-> s]

SomeDrafts ==
    {[Draft(<<>>) EXCEPT !.json = FALSE], Draft(<<Step(0, {}, 0)>>), Draft(<<Step(1, {}, 2)>>),
     Draft(<<[Step(1, {}, 1) EXCEPT !.fits = FALSE]>>), Draft(<<[Step(1, {}, 1) EXCEPT !.whole = FALSE]>>),
     Draft(<<Step(2, {}, 1), Step(0, {}, 1)>>), Draft(<<Step(1, {2}, 1), Step(2, {1}, 1)>>),
     Draft(<<Step(1, {3}, 1)>>), [Draft(<<Step(1, {2}, 1), Step(2, {}, 1)>>) EXCEPT !.id = 9]}

Sight(b, a, r) == [baseline |-> b, active |-> a, ready |-> r, desired |-> 1]
SomeSights == {Sight(TRUE, 0, 1), Sight(FALSE, 0, 1), Sight(TRUE, 1, 1), Sight(TRUE, 0, 0)}

\* Every kind's bundle under every kind's gate.
Pairs == Kinds \X Kinds

Running(A) == part = "loop" /\ A /\ UNCHANGED <<part, uvars, kvars>>
InTurn(A) == part = "turn" /\ A /\ UNCHANGED <<part, avars, kvars>>
InCluster(A) == part = "kinds" /\ A /\ UNCHANGED <<part, avars, uvars>>

\* The parts a behaviour is not about stand still in one of their initial
\* states, a bundle under another kind's gate.
LInit ==
    /\ part \in {"loop", "turn", "kinds"}
    /\ AInit /\ UInit /\ arena = ar1
    /\ IF part = "kinds" THEN KInit ELSE KInit /\ kind = "NoOp" /\ asked = "JobFailure"

\* The two arenas are alike, so the first turn may as well be ar1's.
Ar1First == Len(truth') = 1 => truth'[1].ns = ar1

LNext == Running(ANext) \/ InTurn(UNext /\ Ar1First) \/ InCluster(KNext)

\* The modules' own fairness.  A behaviour stays in its part, so one conjunct
\* may hold the fairness of several.
LSpec ==
    /\ LInit /\ [][LNext]_lvars
    /\ WF_lvars(Running(RunStep) \/ InTurn(TurnStep) \/ InCluster(0 \in PodIds /\ PodMoves(0)))
    /\ WF_lvars(Running(APasses) \/ InCluster(\E p \in PodIds : WritesLog(p)))
    /\ WF_lvars(Running(Wake) \/ InCluster(wedgeRollout \/ DeadlinePasses))
    /\ \A p \in 1 .. MaxReplicas : WF_lvars(InCluster(p \in PodIds /\ PodMoves(p)))
    /\ SF_lvars(InCluster(DeploymentObserves)) /\ SF_lvars(InCluster(EndpointsObserve \/ DisruptionObserves))
    /\ SF_lvars(InCluster(Poll))
=============================================================================
