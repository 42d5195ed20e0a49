--------------------------- MODULE ExecutorProofs ---------------------------
(***************************************************************************)
(* Machine-checked proofs of the safety properties of Executor, and of the *)
(* process around it that dies and starts again (Controller), for every    *)
(* set of faults, every policy and every bound on the clock.               *)
(***************************************************************************)
EXTENDS Controller, FiniteSetTheorems, TLAPS

USE FaultsAssumption, TargetsAssumption, EngineAssumption, DurationAssumption, PolicyAssumption

(***************************************************************************)
(* Types.                                                                  *)
(***************************************************************************)
\* The state Apply, Clear and the reaper start from is well typed.
LEMMA TypeInit == Init => TypeOK
  BY DEF Init, TypeOK, Calls, Pending, Returned, Booking, Causes, Outcomes, Reasons, Never

\* No step of Apply, Clear, the reaper or the cluster leaves the types.
LEMMA TypeStep == TypeOK /\ [Next]_vars => TypeOK'
<1> SUFFICES ASSUME TypeOK, [Next]_vars PROVE TypeOK'
  OBVIOUS
<1> USE DEF TypeOK, Calls, Pending, Returned, Booking, Causes, Outcomes, Reasons, Never,
            callVars, slotVars, leaseVars, histVars, sweepVars, objVars, trailVars
<1>1. ASSUME NEW f \in Faults, Receive(f) PROVE TypeOK'
  BY <1>1 DEF Receive, Advance, Return
<1>2. ASSUME NEW f \in Faults, RejectEarly(f) PROVE TypeOK'
  BY <1>2 DEF RejectEarly, Advance, Return, EndRow
<1>3. ASSUME NEW f \in Faults, Reserve(f) PROVE TypeOK'
  BY <1>3 DEF Reserve, Advance, Return, Book
<1>4. ASSUME NEW f \in Faults, OverBudget(f) PROVE TypeOK'
  BY <1>4 DEF OverBudget, Advance, Return, EndRow
<1>5. ASSUME NEW f \in Faults, RejectBooked(f) PROVE TypeOK'
  BY <1>5 DEF RejectBooked, Advance, Return, EndRow, Unbook
<1>6. ASSUME NEW f \in Faults, DriverApply(f) PROVE TypeOK'
  BY <1>6 DEF DriverApply, Advance, Return
<1>7. ASSUME NEW f \in Faults, DriverFailed(f) PROVE TypeOK'
  BY <1>7 DEF DriverFailed, Return, EndRow, Unbook, MaybeCleared, Cleared, Becomes
<1>8. ASSUME NEW f \in Faults, PushRefused(f) PROVE TypeOK'
  BY <1>8 DEF PushRefused, Advance, Return
<1>9. ASSUME NEW f \in Faults, Register(f) PROVE TypeOK'
  BY <1>9 DEF Register, Advance, Return
<1>10. ASSUME NEW f \in Faults, RecordApply(f) PROVE TypeOK'
  BY <1>10 DEF RecordApply, Advance, Return
<1>11. ASSUME NEW f \in Faults, Release(f) PROVE TypeOK'
  BY <1>11 DEF Release, Advance, Return, Unbook
<1>12. ASSUME NEW f \in Faults, EmitApplied(f) PROVE TypeOK'
  BY <1>12 DEF EmitApplied, Advance, Return
<1>13. ASSUME NEW f \in Faults, HistoryPush(f) PROVE TypeOK'
  BY <1>13 DEF HistoryPush, Advance, Return
<1>14. ASSUME NEW f \in Faults, AbandonClear(f) PROVE TypeOK'
  BY <1>14 DEF AbandonClear, Cleared, Becomes
<1>15. ASSUME NEW f \in Faults, AbandonClearFails(f) PROVE TypeOK'
  BY <1>15 DEF AbandonClearFails, Advance, Return, MaybeCleared, Cleared, Becomes
<1>16. ASSUME NEW f \in Faults, AbandonForget(f) PROVE TypeOK'
  BY <1>16 DEF AbandonForget, Advance, Return, Forget
<1>17. ASSUME NEW f \in Faults, AbandonEmit(f) PROVE TypeOK'
  BY <1>17 DEF AbandonEmit, EndRow
<1>18. ASSUME NEW f \in Faults, AbandonLeaves(f) PROVE TypeOK'
  BY <1>18 DEF AbandonLeaves, Advance, Return
<1>19. ASSUME NEW f \in Faults, ClearGet(f) PROVE TypeOK'
  BY <1>19 DEF ClearGet
<1>20. ASSUME NEW f \in Faults, ClearDriver(f) PROVE TypeOK'
  BY <1>20 DEF ClearDriver, Cleared, Becomes
<1>21. ASSUME NEW f \in Faults, ClearFails(f) PROVE TypeOK'
  BY <1>21 DEF ClearFails, MaybeCleared, Cleared, Becomes
<1>22. ASSUME NEW f \in Faults, ClearForget(f) PROVE TypeOK'
  BY <1>22 DEF ClearForget, Forget
<1>23. ASSUME NEW f \in Faults, ClearNote(f) PROVE TypeOK'
  BY <1>23 DEF ClearNote, UpdateCleared
<1>24. ASSUME NEW f \in Faults, ClearEmit(f) PROVE TypeOK'
  BY <1>24 DEF ClearEmit, EndRow
<1>25. CASE SweepStart
  BY <1>25 DEF SweepStart, Expired
<1>26. ASSUME NEW f \in Faults, ReapClear(f) PROVE TypeOK'
  BY <1>26 DEF ReapClear, Cleared, Becomes
<1>27. ASSUME NEW f \in Faults, ReapFails(f) PROVE TypeOK'
  BY <1>27 DEF ReapFails, MaybeCleared, Cleared, Becomes
<1>28. ASSUME NEW f \in Faults, ReapForget(f) PROVE TypeOK'
  BY <1>28 DEF ReapForget, Forget
<1>29. ASSUME NEW f \in Faults, ReapNote(f) PROVE TypeOK'
  BY <1>29 DEF ReapNote, UpdateCleared
<1>30. ASSUME NEW f \in Faults, ReapEmit(f) PROVE TypeOK'
  BY <1>30 DEF ReapEmit, EndRow
<1>31. ASSUME NEW f \in Faults, ReapOrphan(f) PROVE TypeOK'
  BY <1>31 DEF ReapOrphan, ReapableAt, Cleared, Becomes
<1>32. CASE SweepOrphansStart
  BY <1>32 DEF SweepOrphansStart
<1>33. CASE SweepEnd
  BY <1>33 DEF SweepEnd
<1>34. CASE Tick
  BY <1>34 DEF Tick
<1>35. ASSUME NEW f \in Faults, EngineRecover(f) PROVE TypeOK'
  BY <1>35 DEF EngineRecover, Becomes
<1>36. ASSUME NEW f \in Faults, EngineFinalize(f) PROVE TypeOK'
  BY <1>36 DEF EngineFinalize, Becomes
<1>37. CASE UNCHANGED vars
  BY <1>37 DEF vars
<1> QED
  BY <1>1, <1>2, <1>3, <1>4, <1>5, <1>6, <1>7, <1>8, <1>9, <1>10, <1>11, <1>12, <1>13, <1>14, <1>15, <1>16, <1>17, <1>18, <1>19, <1>20, <1>21, <1>22, <1>23, <1>24, <1>25, <1>26, <1>27, <1>28, <1>29, <1>30, <1>31, <1>32, <1>33, <1>34, <1>35, <1>36, <1>37
  DEF Next, ProcessStep, EnvStep, ReaperStep, ApplyStep, ClearStep

\* Every variable of the executor, the registry, the reaper, the cluster and
\* the trail keeps its type in every behaviour.
THEOREM TypeCorrect == Spec => []TypeOK
<1> QED
  BY TypeInit, TypeStep, PTL DEF Spec

(***************************************************************************)
(* Leases, rows and what is in the cluster.                                *)
(*                                                                         *)
(* RunningIsLeased is not inductive: a Clear, an abandon and a sweep may   *)
(* all be about to forget one lease, and each forgets it on the strength   *)
(* of a delete made earlier.  What carries the argument is that none of    *)
(* them gets that far before the object is on its way out, and that only   *)
(* DriverApply, which needs a call that has not landed, puts one there.    *)
(***************************************************************************)
\* The calls past Register.
Landed == {"registered", "recorded", "released", "applied", "done",
           "backedOut", "forgotten", "leftToReaper", "returning", "abandoned"}

\* Only a call past Register has a lease, and only a leased fault is cleared.
OnlyLanded(f) ==
    /\ f \in leased => pc[f] \in Landed
    /\ clearer[f] # "idle" => pc[f] \in Landed
    /\ f \in todo \cup reaped => pc[f] \in Landed
    /\ applied[f] => pc[f] \in Landed
    /\ outcome[f] \in {"cleared", "expired"} => pc[f] \in Landed

\* Whoever forgets the lease has seen the delete accepted.
DeletedFirst(f) ==
    /\ clearer[f] \in {"deleted", "forgotten", "noted"} => ~ Running(f)
    /\ f \in reaped => ~ Running(f)
    /\ pc[f] \in {"backedOut", "forgotten"} => ~ Running(f)
    /\ outcome[f] \in {"cleared", "expired"} => ~ Running(f)

\* A landed fault whose row is open, and a running fault, are held, or were and the
\* event is on its way; the sweep is in the middle of one fault at most.
Held(f) ==
    /\ Running(f) => f \in leased \/ pc[f] \in {"created", "failing", "failed"}
    /\ pc[f] \in Landed /\ outcome[f] = "open" => f \in leased \/ Ending(f)
    /\ f \in reaped => reaped = {f} /\ reaper \in {"deleted", "forgotten", "noted"}

LeaseInv == \A f \in Faults : OnlyLanded(f) /\ DeletedFirst(f) /\ Held(f)

\* No fault has a lease, a row or an object before the first Apply.
LEMMA LeaseInit == Init => LeaseInv
<1> SUFFICES ASSUME Init, NEW f \in Faults PROVE OnlyLanded(f) /\ DeletedFirst(f) /\ Held(f)
  BY DEF LeaseInv
<1> USE DEF Init, Running, Landed
<1>1. OnlyLanded(f)
  BY DEF OnlyLanded
<1>2. DeletedFirst(f)
  BY DEF DeletedFirst
<1>3. ~ Running(f) /\ f \notin reaped /\ pc[f] \notin Landed
  OBVIOUS
<1>4. Held(f)
  BY <1>3 DEF Held
<1> QED
  BY <1>1, <1>2, <1>4

\* Every step of Apply, Clear, the reaper and the cluster keeps LeaseInv.
LEMMA LeaseStep == TypeOK /\ LeaseInv /\ [Next]_vars => LeaseInv'
<1> SUFFICES ASSUME TypeOK, LeaseInv, [Next]_vars PROVE LeaseInv'
  OBVIOUS
<1> USE DEF TypeOK, LeaseInv, OnlyLanded, DeletedFirst, Held, Ending, Running, Landed,
            callVars, slotVars, leaseVars, histVars, sweepVars, objVars, trailVars
<1>1. ASSUME NEW f \in Faults, Receive(f) PROVE LeaseInv'
  BY <1>1 DEF Receive, Advance, Return
<1>2. ASSUME NEW f \in Faults, RejectEarly(f) PROVE LeaseInv'
  BY <1>2 DEF RejectEarly, Advance, Return, EndRow
<1>3. ASSUME NEW f \in Faults, Reserve(f) PROVE LeaseInv'
  BY <1>3 DEF Reserve, Advance, Return, Book
<1>4. ASSUME NEW f \in Faults, OverBudget(f) PROVE LeaseInv'
  BY <1>4 DEF OverBudget, Advance, Return, EndRow
<1>5. ASSUME NEW f \in Faults, RejectBooked(f) PROVE LeaseInv'
  BY <1>5 DEF RejectBooked, Advance, Return, EndRow, Unbook
<1>6. ASSUME NEW f \in Faults, DriverApply(f) PROVE LeaseInv'
  BY <1>6 DEF DriverApply, Advance, Return
<1>7. ASSUME NEW f \in Faults, DriverFailed(f) PROVE LeaseInv'
  BY <1>7 DEF DriverFailed, Return, EndRow, Unbook, MaybeCleared, Cleared, Becomes
<1>8. ASSUME NEW f \in Faults, PushRefused(f) PROVE LeaseInv'
  BY <1>8 DEF PushRefused, Advance, Return
<1>9. ASSUME NEW f \in Faults, Register(f) PROVE LeaseInv'
  BY <1>9 DEF Register, Advance, Return
<1>10. ASSUME NEW f \in Faults, RecordApply(f) PROVE LeaseInv'
  BY <1>10 DEF RecordApply, Advance, Return
<1>11. ASSUME NEW f \in Faults, Release(f) PROVE LeaseInv'
  BY <1>11 DEF Release, Advance, Return, Unbook
<1>12. ASSUME NEW f \in Faults, EmitApplied(f) PROVE LeaseInv'
  BY <1>12 DEF EmitApplied, Advance, Return
<1>13. ASSUME NEW f \in Faults, HistoryPush(f) PROVE LeaseInv'
  BY <1>13 DEF HistoryPush, Advance, Return
<1>14. ASSUME NEW f \in Faults, AbandonClear(f) PROVE LeaseInv'
  BY <1>14 DEF AbandonClear, Cleared, Becomes
<1>15. ASSUME NEW f \in Faults, AbandonClearFails(f) PROVE LeaseInv'
  BY <1>15 DEF AbandonClearFails, Advance, Return, MaybeCleared, Cleared, Becomes
<1>16. ASSUME NEW f \in Faults, AbandonForget(f) PROVE LeaseInv'
  BY <1>16 DEF AbandonForget, Advance, Return, Forget
<1>17. ASSUME NEW f \in Faults, AbandonEmit(f) PROVE LeaseInv'
  BY <1>17 DEF AbandonEmit, EndRow
<1>18. ASSUME NEW f \in Faults, AbandonLeaves(f) PROVE LeaseInv'
  BY <1>18 DEF AbandonLeaves, Advance, Return
<1>19. ASSUME NEW f \in Faults, ClearGet(f) PROVE LeaseInv'
  BY <1>19 DEF ClearGet
<1>20. ASSUME NEW f \in Faults, ClearDriver(f) PROVE LeaseInv'
  BY <1>20 DEF ClearDriver, Cleared, Becomes
<1>21. ASSUME NEW f \in Faults, ClearFails(f) PROVE LeaseInv'
  BY <1>21 DEF ClearFails, MaybeCleared, Cleared, Becomes
<1>22. ASSUME NEW f \in Faults, ClearForget(f) PROVE LeaseInv'
  BY <1>22 DEF ClearForget, Forget
<1>23. ASSUME NEW f \in Faults, ClearNote(f) PROVE LeaseInv'
  BY <1>23 DEF ClearNote, UpdateCleared
<1>24. ASSUME NEW f \in Faults, ClearEmit(f) PROVE LeaseInv'
  BY <1>24 DEF ClearEmit, EndRow
<1>25. CASE SweepStart
  BY <1>25 DEF SweepStart, Expired
<1>26. ASSUME NEW f \in Faults, ReapClear(f) PROVE LeaseInv'
  BY <1>26 DEF ReapClear, Cleared, Becomes
<1>27. ASSUME NEW f \in Faults, ReapFails(f) PROVE LeaseInv'
  BY <1>27 DEF ReapFails, MaybeCleared, Cleared, Becomes
<1>28. ASSUME NEW f \in Faults, ReapForget(f) PROVE LeaseInv'
  BY <1>28 DEF ReapForget, Forget
<1>29. ASSUME NEW f \in Faults, ReapNote(f) PROVE LeaseInv'
  BY <1>29 DEF ReapNote, UpdateCleared
<1>30. ASSUME NEW f \in Faults, ReapEmit(f) PROVE LeaseInv'
  BY <1>30 DEF ReapEmit, EndRow
<1>31. ASSUME NEW f \in Faults, ReapOrphan(f) PROVE LeaseInv'
  BY <1>31 DEF ReapOrphan, ReapableAt, Cleared, Becomes
<1>32. CASE SweepOrphansStart
  BY <1>32 DEF SweepOrphansStart
<1>33. CASE SweepEnd
  BY <1>33 DEF SweepEnd
<1>34. CASE Tick
  BY <1>34 DEF Tick
<1>35. ASSUME NEW f \in Faults, EngineRecover(f) PROVE LeaseInv'
  BY <1>35 DEF EngineRecover, Becomes
<1>36. ASSUME NEW f \in Faults, EngineFinalize(f) PROVE LeaseInv'
  BY <1>36 DEF EngineFinalize, Becomes
<1>37. CASE UNCHANGED vars
  BY <1>37 DEF vars
<1> HIDE DEF LeaseInv, TypeOK
<1> QED
  BY <1>1, <1>2, <1>3, <1>4, <1>5, <1>6, <1>7, <1>8, <1>9, <1>10, <1>11, <1>12, <1>13, <1>14, <1>15, <1>16, <1>17, <1>18, <1>19, <1>20, <1>21, <1>22, <1>23, <1>24, <1>25, <1>26, <1>27, <1>28, <1>29, <1>30, <1>31, <1>32, <1>33, <1>34, <1>35, <1>36, <1>37
  DEF Next, ProcessStep, EnvStep, ReaperStep, ApplyStep, ClearStep

\* The inductive invariant holds in every behaviour.
LEMMA LeaseCorrect == Spec => [](TypeOK /\ LeaseInv)
<1>1. TypeOK /\ LeaseInv /\ [Next]_vars => (TypeOK /\ LeaseInv)'
  BY TypeStep, LeaseStep
<1> QED
  BY <1>1, TypeInit, LeaseInit, PTL DEF Spec

\* Whatever the drivers put in the cluster is held by a lease until it is
\* deleted, in every interleaving of Apply, Clear, abandon and the reaper.
THEOREM RunningAlwaysLeased == Spec => []RunningIsLeased
<1>1. TypeOK /\ LeaseInv => RunningIsLeased
  BY DEF LeaseInv, Held, RunningIsLeased
<1> QED
  BY <1>1, LeaseCorrect, PTL

\* The audit trail closes no row of a fault still in the cluster.
THEOREM ClosedAlwaysGone == Spec => []ClosedIsGone
<1>1. TypeOK /\ LeaseInv => ClosedIsGone
  BY DEF LeaseInv, DeletedFirst, ClosedIsGone
<1> QED
  BY <1>1, LeaseCorrect, PTL

\* A row the trail leaves open belongs to a fault that has its lease, or one that is
\* gone and whose end Clear, the reaper or abandon has yet to write.
THEOREM OpenAlwaysHeld == Spec => []OpenIsHeld
<1>1. TypeOK /\ LeaseInv => OpenIsHeld
  BY DEF LeaseInv, OnlyLanded, DeletedFirst, Held, Ending, OpenIsHeld
<1> QED
  BY <1>1, LeaseCorrect, PTL

\* So the trail is true in both directions, whatever Apply, Clear, the back-out
\* and the reaper do to one fault at once, and whatever deletes fail.
THEOREM RowsAlwaysTrue == Spec => []RowsTrue
<1>1. ClosedIsGone /\ OpenIsHeld => RowsTrue
  BY DEF RowsTrue
<1> QED
  BY <1>1, ClosedAlwaysGone, OpenAlwaysHeld, PTL

(***************************************************************************)
(* Slots and the concurrency budget.                                       *)
(***************************************************************************)
BookedIn(ns) == {f \in Booked : ns \in Targets[f]}

\* What a step may do to the bookings: nothing, and then only a booked call
\* takes a lease; one more, past both of reserve's checks; or one fewer.
KeepsSlots ==
    /\ Booked' = Booked
    /\ UNCHANGED <<inFlight, inFlightNS>>
    /\ leased' \subseteq leased \cup Booked

TakesSlot(f) ==
    /\ f \notin Booked
    /\ Booked' = Booked \cup {f}
    /\ HasRoom /\ CooledDown(f) /\ Book(f)
    /\ UNCHANGED <<now, leased>>

GivesSlot(f) ==
    /\ f \in Booked
    /\ Booked' = Booked \ {f}
    /\ Unbook(f)
    /\ UNCHANGED <<now, leased>>

SlotStep == KeepsSlots \/ \E f \in Faults : TakesSlot(f) \/ GivesSlot(f)

\* Every step of Apply, Clear, the reaper and the cluster is one of these.
LEMMA SlotSteps == TypeOK /\ [Next]_vars => SlotStep
<1> SUFFICES ASSUME TypeOK, [Next]_vars PROVE SlotStep
  OBVIOUS
<1> USE DEF TypeOK, Booked, Booking, SlotStep, KeepsSlots,
            callVars, slotVars, leaseVars, histVars, sweepVars, objVars, trailVars
<1>1. ASSUME NEW f \in Faults, Receive(f) PROVE SlotStep
  BY <1>1 DEF Receive, Advance, Return
<1>2. ASSUME NEW f \in Faults, RejectEarly(f) PROVE SlotStep
  BY <1>2 DEF RejectEarly, Advance, Return, EndRow
<1>3. ASSUME NEW f \in Faults, Reserve(f) PROVE SlotStep
  <2>1. TakesSlot(f)
    BY <1>3 DEF Reserve, Advance, Return, Book, TakesSlot
  <2> QED
    BY <2>1
<1>4. ASSUME NEW f \in Faults, OverBudget(f) PROVE SlotStep
  BY <1>4 DEF OverBudget, Advance, Return, EndRow
<1>5. ASSUME NEW f \in Faults, RejectBooked(f) PROVE SlotStep
  <2>1. GivesSlot(f)
    BY <1>5 DEF RejectBooked, Advance, Return, Unbook, GivesSlot
  <2> QED
    BY <2>1
<1>6. ASSUME NEW f \in Faults, DriverApply(f) PROVE SlotStep
  BY <1>6 DEF DriverApply, Advance, Return
<1>7. ASSUME NEW f \in Faults, DriverFailed(f) PROVE SlotStep
  <2>1. GivesSlot(f)
    BY <1>7 DEF DriverFailed, Return, Unbook, GivesSlot
  <2> QED
    BY <2>1
<1>8. ASSUME NEW f \in Faults, PushRefused(f) PROVE SlotStep
  BY <1>8 DEF PushRefused, Advance, Return
<1>9. ASSUME NEW f \in Faults, Register(f) PROVE SlotStep
  BY <1>9 DEF Register, Advance, Return
<1>10. ASSUME NEW f \in Faults, RecordApply(f) PROVE SlotStep
  BY <1>10 DEF RecordApply, Advance, Return
<1>11. ASSUME NEW f \in Faults, Release(f) PROVE SlotStep
  <2>1. GivesSlot(f)
    BY <1>11 DEF Release, Advance, Return, Unbook, GivesSlot
  <2> QED
    BY <2>1
<1>12. ASSUME NEW f \in Faults, EmitApplied(f) PROVE SlotStep
  BY <1>12 DEF EmitApplied, Advance, Return
<1>13. ASSUME NEW f \in Faults, HistoryPush(f) PROVE SlotStep
  BY <1>13 DEF HistoryPush, Advance, Return
<1>14. ASSUME NEW f \in Faults, AbandonClear(f) PROVE SlotStep
  BY <1>14 DEF AbandonClear, Cleared, Becomes
<1>15. ASSUME NEW f \in Faults, AbandonClearFails(f) PROVE SlotStep
  BY <1>15 DEF AbandonClearFails, Advance, Return, MaybeCleared, Cleared, Becomes
<1>16. ASSUME NEW f \in Faults, AbandonForget(f) PROVE SlotStep
  BY <1>16 DEF AbandonForget, Advance, Return, Forget
<1>17. ASSUME NEW f \in Faults, AbandonEmit(f) PROVE SlotStep
  BY <1>17 DEF AbandonEmit, EndRow
<1>18. ASSUME NEW f \in Faults, AbandonLeaves(f) PROVE SlotStep
  BY <1>18 DEF AbandonLeaves, Advance, Return
<1>19. ASSUME NEW f \in Faults, ClearGet(f) PROVE SlotStep
  BY <1>19 DEF ClearGet
<1>20. ASSUME NEW f \in Faults, ClearDriver(f) PROVE SlotStep
  BY <1>20 DEF ClearDriver, Cleared, Becomes
<1>21. ASSUME NEW f \in Faults, ClearFails(f) PROVE SlotStep
  BY <1>21 DEF ClearFails, MaybeCleared, Cleared, Becomes
<1>22. ASSUME NEW f \in Faults, ClearForget(f) PROVE SlotStep
  BY <1>22 DEF ClearForget, Forget
<1>23. ASSUME NEW f \in Faults, ClearNote(f) PROVE SlotStep
  BY <1>23 DEF ClearNote, UpdateCleared
<1>24. ASSUME NEW f \in Faults, ClearEmit(f) PROVE SlotStep
  BY <1>24 DEF ClearEmit, EndRow
<1>25. CASE SweepStart
  BY <1>25 DEF SweepStart, Expired
<1>26. ASSUME NEW f \in Faults, ReapClear(f) PROVE SlotStep
  BY <1>26 DEF ReapClear, Cleared, Becomes
<1>27. ASSUME NEW f \in Faults, ReapFails(f) PROVE SlotStep
  BY <1>27 DEF ReapFails, MaybeCleared, Cleared, Becomes
<1>28. ASSUME NEW f \in Faults, ReapForget(f) PROVE SlotStep
  BY <1>28 DEF ReapForget, Forget
<1>29. ASSUME NEW f \in Faults, ReapNote(f) PROVE SlotStep
  BY <1>29 DEF ReapNote, UpdateCleared
<1>30. ASSUME NEW f \in Faults, ReapEmit(f) PROVE SlotStep
  BY <1>30 DEF ReapEmit, EndRow
<1>31. ASSUME NEW f \in Faults, ReapOrphan(f) PROVE SlotStep
  BY <1>31 DEF ReapOrphan, ReapableAt, Cleared, Becomes
<1>32. CASE SweepOrphansStart
  BY <1>32 DEF SweepOrphansStart
<1>33. CASE SweepEnd
  BY <1>33 DEF SweepEnd
<1>34. CASE Tick
  BY <1>34 DEF Tick
<1>35. ASSUME NEW f \in Faults, EngineRecover(f) PROVE SlotStep
  BY <1>35 DEF EngineRecover, Becomes
<1>36. ASSUME NEW f \in Faults, EngineFinalize(f) PROVE SlotStep
  BY <1>36 DEF EngineFinalize, Becomes
<1>37. CASE UNCHANGED vars
  BY <1>37 DEF vars
<1> QED
  BY <1>1, <1>2, <1>3, <1>4, <1>5, <1>6, <1>7, <1>8, <1>9, <1>10, <1>11, <1>12, <1>13, <1>14, <1>15, <1>16, <1>17, <1>18, <1>19, <1>20, <1>21, <1>22, <1>23, <1>24, <1>25, <1>26, <1>27, <1>28, <1>29, <1>30, <1>31, <1>32, <1>33, <1>34, <1>35, <1>36, <1>37
  DEF Next, ProcessStep, EnvStep, ReaperStep, ApplyStep, ClearStep

\* No call of Apply is under way at first.
LEMMA SlotInit == Init => SlotsAccounted
<1> SUFFICES ASSUME Init PROVE SlotsAccounted
  OBVIOUS
<1>1. Booked = {} /\ \A ns \in Namespaces : BookedIn(ns) = {}
  BY DEF Init, Booked, Booking, BookedIn
<1> QED
  BY <1>1, FS_EmptySet DEF Init, SlotsAccounted, BookedIn

\* The booked calls are finitely many, so counting them makes sense.
LEMMA BookedFinite ==
    /\ IsFiniteSet(Booked) /\ Cardinality(Booked) \in Nat
    /\ \A ns : IsFiniteSet(BookedIn(ns)) /\ Cardinality(BookedIn(ns)) \in Nat
<1>1. Booked \in SUBSET Faults /\ \A ns : BookedIn(ns) \in SUBSET Faults
  BY DEF Booked, BookedIn
<1> QED
  BY <1>1, FS_Subset, FS_CardinalityType

\* The counts stay exact through every reservation and every release.
LEMMA SlotPreserved == TypeOK /\ SlotsAccounted /\ SlotStep => SlotsAccounted'
<1> SUFFICES ASSUME TypeOK, SlotsAccounted, SlotStep PROVE SlotsAccounted'
  OBVIOUS
<1> USE DEF TypeOK
<1>0. /\ inFlight = Cardinality(Booked)
      /\ \A ns \in Namespaces : inFlightNS[ns] = Cardinality(BookedIn(ns))
  BY DEF SlotsAccounted, BookedIn
<1>1. CASE KeepsSlots
  BY <1>1 DEF KeepsSlots, SlotsAccounted
<1>2. ASSUME NEW f \in Faults, TakesSlot(f) PROVE SlotsAccounted'
  <2>1. inFlight' = Cardinality(Booked')
    BY <1>0, <1>2, BookedFinite, FS_AddElement DEF TakesSlot, Book
  <2>2. ASSUME NEW ns \in Namespaces PROVE inFlightNS'[ns] = Cardinality(BookedIn(ns)')
    <3>1. CASE ns \in Targets[f]
      <4>1. BookedIn(ns)' = BookedIn(ns) \cup {f} /\ f \notin BookedIn(ns)
        BY <1>2, <3>1 DEF TakesSlot, BookedIn
      <4>2. Cardinality(BookedIn(ns)') = Cardinality(BookedIn(ns)) + 1
        <5> HIDE DEF TypeOK
        <5>1. IsFiniteSet(BookedIn(ns))
          BY BookedFinite
        <5>2. Cardinality(BookedIn(ns) \cup {f}) = Cardinality(BookedIn(ns)) + 1
          BY <4>1, <5>1, FS_AddElement
        <5> QED
          BY <4>1, <5>2
      <4> QED
        BY <1>0, <1>2, <3>1, <4>2 DEF TakesSlot, Book
    <3>2. CASE ns \notin Targets[f]
      <4>1. BookedIn(ns)' = BookedIn(ns)
        BY <1>2, <3>2 DEF TakesSlot, BookedIn
      <4> QED
        BY <1>0, <1>2, <3>2, <4>1 DEF TakesSlot, Book
    <3> QED
      BY <3>1, <3>2
  <2> QED
    BY <2>1, <2>2 DEF SlotsAccounted, BookedIn
<1>3. ASSUME NEW f \in Faults, GivesSlot(f) PROVE SlotsAccounted'
  <2>1. inFlight' = Cardinality(Booked')
    BY <1>0, <1>3, BookedFinite, FS_RemoveElement DEF GivesSlot, Unbook
  <2>2. ASSUME NEW ns \in Namespaces PROVE inFlightNS'[ns] = Cardinality(BookedIn(ns)')
    <3>1. CASE ns \in Targets[f]
      <4>1. BookedIn(ns)' = BookedIn(ns) \ {f} /\ f \in BookedIn(ns)
        BY <1>3, <3>1 DEF GivesSlot, BookedIn
      <4>2. Cardinality(BookedIn(ns)') = Cardinality(BookedIn(ns)) - 1
        <5> HIDE DEF TypeOK
        <5>1. IsFiniteSet(BookedIn(ns))
          BY BookedFinite
        <5>2. Cardinality(BookedIn(ns) \ {f}) = Cardinality(BookedIn(ns)) - 1
          BY <4>1, <5>1, FS_RemoveElement
        <5> QED
          BY <4>1, <5>2
      <4>3. Cardinality(BookedIn(ns)) # 0
        BY <4>1, BookedFinite, FS_EmptySet
      <4> QED
        BY <1>0, <1>3, <3>1, <4>2, <4>3, BookedFinite DEF GivesSlot, Unbook
    <3>2. CASE ns \notin Targets[f]
      <4>1. BookedIn(ns)' = BookedIn(ns)
        BY <1>3, <3>2 DEF GivesSlot, BookedIn
      <4> QED
        BY <1>0, <1>3, <3>2, <4>1 DEF GivesSlot, Unbook
    <3> QED
      BY <3>1, <3>2
  <2> QED
    BY <2>1, <2>2 DEF SlotsAccounted, BookedIn
<1> QED
  BY <1>1, <1>2, <1>3 DEF SlotStep

\* reserve's bookings are given back exactly once on every path out of apply.
THEOREM SlotsAlwaysAccounted == Spec => [](TypeOK /\ SlotsAccounted)
<1>1. TypeOK /\ SlotsAccounted /\ [Next]_vars => (TypeOK /\ SlotsAccounted)'
  BY TypeStep, SlotSteps, SlotPreserved
<1> QED
  BY <1>1, TypeInit, SlotInit, PTL DEF Spec

\* Adding one element to a finite set adds at most one to its cardinality.
LEMMA AddAtMostOne ==
    ASSUME NEW S, IsFiniteSet(S), NEW x
    PROVE  Cardinality(S \cup {x}) \in Nat /\ Cardinality(S \cup {x}) <= Cardinality(S) + 1
<1>1. IsFiniteSet(S \cup {x}) /\ Cardinality(S) \in Nat
  BY FS_AddElement, FS_CardinalityType
<1>2. Cardinality(S \cup {x}) = IF x \in S THEN Cardinality(S) ELSE Cardinality(S) + 1
  BY FS_AddElement
<1> QED
  BY <1>1, <1>2

\* A union has at most as many elements as its parts together.
LEMMA UnionAtMostSum ==
    ASSUME NEW S, IsFiniteSet(S), NEW T, IsFiniteSet(T)
    PROVE  Cardinality(S \cup T) <= Cardinality(S) + Cardinality(T)
<1>1. Cardinality(S \cup T) = Cardinality(S) + Cardinality(T) - Cardinality(S \cap T)
  BY FS_Union
<1>2. IsFiniteSet(S \cap T)
  BY FS_Intersection
<1>3. Cardinality(S) \in Nat /\ Cardinality(T) \in Nat /\ Cardinality(S \cap T) \in Nat
  BY <1>2, FS_CardinalityType
<1> QED
  BY <1>1, <1>3

\* A step keeps the leases and bookings within the cap: reserve counts both,
\* so the slot it takes is free, and a lease is only taken by a booked call.
LEMMA BudgetStep ==
    TypeOK /\ SlotsAccounted /\ BudgetRespected /\ SlotStep => BudgetRespected'
<1> SUFFICES ASSUME TypeOK, SlotsAccounted, BudgetRespected, SlotStep, MaxConcurrentFaults > 0
             PROVE  Cardinality((leased \cup Booked)') <= MaxConcurrentFaults
  BY DEF BudgetRespected
<1> DEFINE Claimed == leased \cup Booked
<1>0. /\ leased \in SUBSET Faults /\ Claimed \in SUBSET Faults
      /\ IsFiniteSet(leased) /\ IsFiniteSet(Claimed)
      /\ Cardinality(leased) \in Nat /\ Cardinality(Claimed) \in Nat
      /\ Cardinality(Claimed) <= MaxConcurrentFaults
  <2>1. leased \in SUBSET Faults /\ Claimed \in SUBSET Faults
    BY DEF TypeOK, Booked
  <2> QED
    BY <2>1, FS_Subset, FS_CardinalityType DEF BudgetRespected
<1>1. ASSUME Claimed' \subseteq Claimed PROVE Cardinality(Claimed') <= MaxConcurrentFaults
  <2>1. Claimed' \in SUBSET Claimed
    BY <1>1
  <2>2. Cardinality(Claimed') <= Cardinality(Claimed) /\ Cardinality(Claimed') \in Nat
    BY <1>0, <2>1, FS_Subset, FS_CardinalityType
  <2> QED
    BY <1>0, <2>2
<1>2. CASE KeepsSlots
  BY <1>1, <1>2 DEF KeepsSlots
<1>3. ASSUME NEW f \in Faults, GivesSlot(f) PROVE Cardinality(Claimed') <= MaxConcurrentFaults
  BY <1>1, <1>3 DEF GivesSlot
<1>4. ASSUME NEW f \in Faults, TakesSlot(f) PROVE Cardinality(Claimed') <= MaxConcurrentFaults
  <2>1. Claimed' = Claimed \cup {f}
    BY <1>4 DEF TakesSlot
  <2>2. Cardinality(Claimed') \in Nat /\ Cardinality(Claimed') <= Cardinality(Claimed) + 1
    BY <1>0, <2>1, AddAtMostOne
  <2>3. Cardinality(Claimed) <= Cardinality(leased) + Cardinality(Booked)
    BY <1>0, BookedFinite, UnionAtMostSum
  <2>4. Cardinality(leased) + Cardinality(Booked) < MaxConcurrentFaults
    BY <1>4 DEF TakesSlot, HasRoom, SlotsAccounted
  <2> QED
    BY <1>0, <2>2, <2>3, <2>4, BookedFinite
<1> QED
  BY <1>2, <1>3, <1>4 DEF SlotStep

\* However many calls of Apply race for the last slot, the leases and the
\* calls on the way to one never exceed --max-concurrent-faults.
THEOREM BudgetAlwaysRespected == Spec => []BudgetRespected
<1>1. Init => BudgetRespected
  <2>1. Init => leased \cup Booked = {}
    BY DEF Init, Booked, Booking
  <2> QED
    BY <2>1, FS_EmptySet DEF BudgetRespected
<1>2. TypeOK /\ SlotsAccounted /\ BudgetRespected /\ [Next]_vars => BudgetRespected'
  BY SlotSteps, BudgetStep
<1> QED
  BY <1>1, <1>2, SlotsAlwaysAccounted, PTL DEF Spec

(***************************************************************************)
(* The cooldown.  reserve checks it long before recordApply runs; what     *)
(* keeps it true in between is that no other call aimed at one of the      *)
(* fault's namespaces can be booked at the same time.                      *)
(***************************************************************************)
\* Two booked calls aim at different namespaces.
Apart ==
    \A f, g \in Booked : f # g => Targets[f] \cap Targets[g] = {}

\* What reserve checked still holds for a call that has not recorded itself.
StillCool ==
    \A f \in Faults :
        pc[f] \in {"reserved", "created", "registered"} =>
            \A ns \in Targets[f] : lastApply[ns] # Never => now - lastApply[ns] >= MinCooldown

CooldownInv == MinCooldown > 0 => Apart /\ StillCool

\* A call that reserve lets through shares no namespace with a booked one.
LEMMA ApartStep ==
    TypeOK /\ SlotsAccounted /\ Apart /\ MinCooldown > 0 /\ SlotStep => Apart'
<1> SUFFICES ASSUME TypeOK, SlotsAccounted, Apart, MinCooldown > 0, SlotStep PROVE Apart'
  OBVIOUS
<1>1. CASE KeepsSlots
  BY <1>1 DEF KeepsSlots, Apart
<1>2. ASSUME NEW f \in Faults, GivesSlot(f) PROVE Apart'
  BY <1>2 DEF GivesSlot, Apart
<1>3. ASSUME NEW f \in Faults, TakesSlot(f) PROVE Apart'
  <2>1. ASSUME NEW g \in Booked, NEW ns \in Targets[f] \cap Targets[g] PROVE FALSE
    <3>1. ns \in Namespaces /\ g \in BookedIn(ns)
      BY <2>1 DEF BookedIn
    <3>2. Cardinality(BookedIn(ns)) # 0 /\ Cardinality(BookedIn(ns)) \in Nat
      BY <3>1, BookedFinite, FS_EmptySet
    <3>3. inFlightNS[ns] = Cardinality(BookedIn(ns))
      BY <3>1 DEF SlotsAccounted, BookedIn
    <3>4. inFlightNS[ns] <= 0
      BY <1>3, <2>1 DEF TakesSlot, CooledDown
    <3> QED
      BY <3>2, <3>3, <3>4
  <2>2. \A g \in Booked : Targets[f] \cap Targets[g] = {}
    BY <2>1
  <2>3. Booked' = Booked \cup {f}
    BY <1>3 DEF TakesSlot
  <2> QED
    BY <2>2, <2>3 DEF Apart
<1> QED
  BY <1>1, <1>2, <1>3 DEF SlotStep

\* Only Reserve makes the check apply to a call, and only RecordApply and the
\* clock change what it is about.
LEMMA StillCoolStep ==
    TypeOK /\ Apart /\ StillCool /\ MinCooldown > 0 /\ [Next]_vars => StillCool'
<1> SUFFICES ASSUME TypeOK, Apart, StillCool, MinCooldown > 0, [Next]_vars PROVE StillCool'
  OBVIOUS
<1> USE DEF TypeOK, StillCool, Never,
            callVars, slotVars, leaseVars, histVars, sweepVars, objVars, trailVars
<1>1. ASSUME NEW f \in Faults, Receive(f) PROVE StillCool'
  BY <1>1 DEF Receive, Advance, Return
<1>2. ASSUME NEW f \in Faults, RejectEarly(f) PROVE StillCool'
  BY <1>2 DEF RejectEarly, Advance, Return, EndRow
<1>3. ASSUME NEW f \in Faults, Reserve(f) PROVE StillCool'
  BY <1>3 DEF Reserve, Advance, Return, Book, CooledDown
<1>4. ASSUME NEW f \in Faults, OverBudget(f) PROVE StillCool'
  BY <1>4 DEF OverBudget, Advance, Return, EndRow
<1>5. ASSUME NEW f \in Faults, RejectBooked(f) PROVE StillCool'
  BY <1>5 DEF RejectBooked, Advance, Return, EndRow, Unbook
<1>6. ASSUME NEW f \in Faults, DriverApply(f) PROVE StillCool'
  BY <1>6 DEF DriverApply, Advance, Return
<1>7. ASSUME NEW f \in Faults, DriverFailed(f) PROVE StillCool'
  BY <1>7 DEF DriverFailed, Return, EndRow, Unbook, MaybeCleared, Cleared, Becomes
<1>8. ASSUME NEW f \in Faults, PushRefused(f) PROVE StillCool'
  BY <1>8 DEF PushRefused, Advance, Return
<1>9. ASSUME NEW f \in Faults, Register(f) PROVE StillCool'
  BY <1>9 DEF Register, Advance, Return
<1>10. ASSUME NEW f \in Faults, RecordApply(f) PROVE StillCool'
  BY <1>10 DEF RecordApply, Advance, Return, Apart, Booked, Booking
<1>11. ASSUME NEW f \in Faults, Release(f) PROVE StillCool'
  BY <1>11 DEF Release, Advance, Return, Unbook
<1>12. ASSUME NEW f \in Faults, EmitApplied(f) PROVE StillCool'
  BY <1>12 DEF EmitApplied, Advance, Return
<1>13. ASSUME NEW f \in Faults, HistoryPush(f) PROVE StillCool'
  BY <1>13 DEF HistoryPush, Advance, Return
<1>14. ASSUME NEW f \in Faults, AbandonClear(f) PROVE StillCool'
  BY <1>14 DEF AbandonClear, Cleared, Becomes
<1>15. ASSUME NEW f \in Faults, AbandonClearFails(f) PROVE StillCool'
  BY <1>15 DEF AbandonClearFails, Advance, Return, MaybeCleared, Cleared, Becomes
<1>16. ASSUME NEW f \in Faults, AbandonForget(f) PROVE StillCool'
  BY <1>16 DEF AbandonForget, Advance, Return, Forget
<1>17. ASSUME NEW f \in Faults, AbandonEmit(f) PROVE StillCool'
  BY <1>17 DEF AbandonEmit, EndRow
<1>18. ASSUME NEW f \in Faults, AbandonLeaves(f) PROVE StillCool'
  BY <1>18 DEF AbandonLeaves, Advance, Return
<1>19. ASSUME NEW f \in Faults, ClearGet(f) PROVE StillCool'
  BY <1>19 DEF ClearGet
<1>20. ASSUME NEW f \in Faults, ClearDriver(f) PROVE StillCool'
  BY <1>20 DEF ClearDriver, Cleared, Becomes
<1>21. ASSUME NEW f \in Faults, ClearFails(f) PROVE StillCool'
  BY <1>21 DEF ClearFails, MaybeCleared, Cleared, Becomes
<1>22. ASSUME NEW f \in Faults, ClearForget(f) PROVE StillCool'
  BY <1>22 DEF ClearForget, Forget
<1>23. ASSUME NEW f \in Faults, ClearNote(f) PROVE StillCool'
  BY <1>23 DEF ClearNote, UpdateCleared
<1>24. ASSUME NEW f \in Faults, ClearEmit(f) PROVE StillCool'
  BY <1>24 DEF ClearEmit, EndRow
<1>25. CASE SweepStart
  BY <1>25 DEF SweepStart, Expired
<1>26. ASSUME NEW f \in Faults, ReapClear(f) PROVE StillCool'
  BY <1>26 DEF ReapClear, Cleared, Becomes
<1>27. ASSUME NEW f \in Faults, ReapFails(f) PROVE StillCool'
  BY <1>27 DEF ReapFails, MaybeCleared, Cleared, Becomes
<1>28. ASSUME NEW f \in Faults, ReapForget(f) PROVE StillCool'
  BY <1>28 DEF ReapForget, Forget
<1>29. ASSUME NEW f \in Faults, ReapNote(f) PROVE StillCool'
  BY <1>29 DEF ReapNote, UpdateCleared
<1>30. ASSUME NEW f \in Faults, ReapEmit(f) PROVE StillCool'
  BY <1>30 DEF ReapEmit, EndRow
<1>31. ASSUME NEW f \in Faults, ReapOrphan(f) PROVE StillCool'
  BY <1>31 DEF ReapOrphan, ReapableAt, Cleared, Becomes
<1>32. CASE SweepOrphansStart
  BY <1>32 DEF SweepOrphansStart
<1>33. CASE SweepEnd
  BY <1>33 DEF SweepEnd
<1>34. CASE Tick
  BY <1>34 DEF Tick
<1>35. ASSUME NEW f \in Faults, EngineRecover(f) PROVE StillCool'
  BY <1>35 DEF EngineRecover, Becomes
<1>36. ASSUME NEW f \in Faults, EngineFinalize(f) PROVE StillCool'
  BY <1>36 DEF EngineFinalize, Becomes
<1>37. CASE UNCHANGED vars
  BY <1>37 DEF vars
<1> QED
  BY <1>1, <1>2, <1>3, <1>4, <1>5, <1>6, <1>7, <1>8, <1>9, <1>10, <1>11, <1>12, <1>13, <1>14, <1>15, <1>16, <1>17, <1>18, <1>19, <1>20, <1>21, <1>22, <1>23, <1>24, <1>25, <1>26, <1>27, <1>28, <1>29, <1>30, <1>31, <1>32, <1>33, <1>34, <1>35, <1>36, <1>37
  DEF Next, ProcessStep, EnvStep, ReaperStep, ApplyStep, ClearStep

\* A fault never lands in a namespace within --min-cooldown of the previous
\* one recorded there, whatever ran between reserve and recordApply.
THEOREM CooldownAlwaysRespected == Spec => CooldownRespected
<1>1. Init => CooldownInv
  BY DEF Init, CooldownInv, Apart, StillCool, Booked, Booking
<1>2. TypeOK /\ SlotsAccounted /\ CooldownInv /\ [Next]_vars => CooldownInv'
  BY SlotSteps, ApartStep, StillCoolStep DEF CooldownInv
<1>3. CooldownInv /\ [Next]_vars => [CooldownStep]_vars
  BY DEF CooldownInv, StillCool, CooldownStep
<1> QED
  BY <1>1, <1>2, <1>3, SlotsAlwaysAccounted, PTL DEF Spec, CooldownRespected

(***************************************************************************)
(* Theorems about Controller: what a new process counts, for how long, and *)
(* what it remembers as refused, whenever the one before it died and       *)
(* whether or not the audit file survived it.                              *)
(***************************************************************************)
USE CrashAssumption, DurationAssumption

(***************************************************************************)
(* Types.                                                                  *)
(***************************************************************************)
LEMMA CTypeInit == CInit => CTypeOK
  BY TypeInit DEF CInit, CTypeOK, Never

LEMMA CrashTyped == CTypeOK /\ Crash => CTypeOK'
<1> SUFFICES ASSUME CTypeOK, Crash PROVE CTypeOK'
  OBVIOUS
<1> USE DEF CTypeOK, TypeOK
<1>1. pc' \in [Faults -> Calls] /\ cause' \in [Faults -> Causes]
  BY DEF Crash, Calls, Returned, Causes
<1>2. deadline' \in [Faults -> Int] /\ inFlightNS' \in [Namespaces -> Int] /\ lastApply' \in [Namespaces -> Int]
  BY DEF Crash, Never
<1>3. outcome' \in [Faults -> Outcomes] /\ reason' \in [Faults -> Reasons]
  BY DEF Crash, Outcomes, Reasons, Causes, trailVars
<1>5. applied' \in [Faults -> BOOLEAN]
  <2>1. CASE UNCHANGED trailVars
    BY <2>1 DEF trailVars
  <2>2. CASE applied' = [f \in Faults |-> FALSE]
    BY <2>2
  <2> QED
    BY <2>1, <2>2 DEF Crash
<1>4. rowDeadline' \in [Faults -> Int] /\ crashes' \in 0 .. MaxCrashes
  BY DEF Crash, Never
<1> QED
  BY <1>1, <1>2, <1>3, <1>4, <1>5 DEF Crash, histVars, objVars

LEMMA TakeOverTyped == CTypeOK /\ TakeOver => CTypeOK'
<1> SUFFICES ASSUME CTypeOK, TakeOver PROVE CTypeOK'
  OBVIOUS
<1> USE DEF CTypeOK, TypeOK
<1>1. history' \in [Faults -> {"absent", "running", "cleared"}]
  BY DEF TakeOver, RecentFromAudit
<1>2. refused' \in SUBSET Faults /\ leased' \in SUBSET Faults /\ missed' \in SUBSET Faults
  BY DEF TakeOver
<1>3. deadline' \in [Faults -> Int]
  BY DEF TakeOver, Never
<1>4. outcome' \in [Faults -> Outcomes]
  BY DEF TakeOver, Outcomes
<1>5. reason' \in [Faults -> Reasons]
  BY DEF TakeOver, Reasons
<1> QED
  BY <1>1, <1>2, <1>3, <1>4, <1>5 DEF TakeOver, callVars, slotVars, sweepVars, objVars

LEMMA AdoptLiveTyped == CTypeOK /\ AdoptLive => CTypeOK'
<1> SUFFICES ASSUME CTypeOK, AdoptLive PROVE CTypeOK'
  OBVIOUS
<1> USE DEF CTypeOK, TypeOK
<1>1. PICK listed \in SUBSET {f \in Faults : Listable(f)} :
        LET found == listed \ leased IN
        /\ leased' = leased \cup found
        /\ deadline' = [f \in Faults |-> IF f \in found THEN expires[f] ELSE deadline[f]]
        /\ history' = [f \in Faults |->
                         IF f \in leased' /\ history[f] = "absent" THEN "running" ELSE history[f]]
        /\ outcome' = [f \in Faults |->
                         IF f \in found /\ outcome[f] = "unseen" THEN "open" ELSE outcome[f]]
        /\ missed' = {f \in missed : Running(f)} \ listed
  BY DEF AdoptLive
<1>2. leased' \in SUBSET Faults /\ deadline' \in [Faults -> Int] /\ missed' \in SUBSET Faults
  BY <1>1
<1>3. history' \in [Faults -> {"absent", "running", "cleared"}] /\ outcome' \in [Faults -> Outcomes]
  BY <1>1 DEF Outcomes
<1> QED
  BY <1>2, <1>3 DEF AdoptLive, callVars, slotVars, objVars

LEMMA CTypeStep == CTypeOK /\ [CNext]_cvars => CTypeOK'
<1> SUFFICES ASSUME CTypeOK, [CNext]_cvars PROVE CTypeOK'
  OBVIOUS
<1>1. TypeOK
  BY DEF CTypeOK
<1>2. CASE Work
  <2>1. TypeOK'
    BY <1>1, <1>2, TypeStep DEF Work, Next
  <2>2. rowDeadline' \in [Faults -> Int]
    BY <1>2, <2>1 DEF Work, NoteDeadline, CTypeOK, TypeOK
  <2> QED
    BY <1>2, <2>1, <2>2 DEF Work, procVars, CTypeOK
<1>3. CASE Environment
  BY <1>1, <1>3, TypeStep DEF Environment, Next, procVars, CTypeOK
<1>4. ASSUME NEW f \in Faults, StartupReap(f) PROVE CTypeOK'
  BY <1>1, <1>4, TypeStep DEF StartupReap, Next, ProcessStep, ReaperStep, procVars, CTypeOK
<1>5. CASE StartupDone
  BY <1>1, <1>5, TypeStep DEF StartupDone, Next, ProcessStep, ReaperStep, CTypeOK
<1>6. CASE UNCHANGED cvars
  BY <1>1, <1>6, TypeStep DEF cvars, procVars, CTypeOK
<1> QED
  BY <1>2, <1>3, <1>4, <1>5, <1>6, CrashTyped, TakeOverTyped, AdoptLiveTyped DEF CNext

\* The process, its start-up and the deadlines on record keep their types.
THEOREM ControllerTypes == CSpec => []CTypeOK
  BY CTypeInit, CTypeStep, PTL DEF CSpec

(***************************************************************************)
(* The inductive invariant, for one fault.                                 *)
(*                                                                         *)
(* A start-up counts a fault by the deadline on its row, or by the expiry  *)
(* on its object.  So a row that is open after driver.applied must carry a *)
(* deadline no earlier than the expiry, wherever the process died after    *)
(* Register, and a lease must end no earlier than the object it holds.     *)
(***************************************************************************)
Registering == {"registered", "recorded", "released"}
Emitted == {"applied", "done", "backedOut", "forgotten", "leftToReaper", "returning", "abandoned", "lost"}
Past == Registering \cup Emitted \cup {"failing", "failed"}

\* Only a call past the driver has a lease or an object, and only what is leased is
\* cleared or reaped.
OnlyPast(f) ==
    /\ f \in leased => pc[f] \in Past
    /\ clearer[f] # "idle" => pc[f] \in Past
    /\ f \in todo \cup reaped => pc[f] \in Past
    /\ Running(f) => pc[f] \in Past \cup {"created"}
    /\ applied[f] => pc[f] \in Emitted

\* Whoever forgets the lease has seen the delete accepted; the sweep is in the middle
\* of one fault at most.
GoneFirst(f) ==
    /\ clearer[f] \in {"deleted", "forgotten", "noted"} => ~ Running(f)
    /\ f \in reaped => ~ Running(f) /\ reaped = {f} /\ reaper \in {"deleted", "forgotten", "noted"}
    /\ pc[f] \in {"backedOut", "forgotten"} => ~ Running(f)

\* Once the driver has answered, the deadline that goes on record is late enough, and
\* an open row is held or its end is on its way.
RowKept(f) ==
    /\ outcome[f] = "unseen" => ~ applied[f]
    /\ pc[f] \in Pending => outcome[f] # "unseen"
    /\ pc[f] \in Registering \/ (applied[f] /\ outcome[f] = "open") => rowDeadline[f] >= expires[f]
    /\ (\/ pc[f] \in Registering
        \/ applied[f] /\ proc # "down") /\ outcome[f] = "open" => f \in leased \/ Ending(f)

\* A lease ends no earlier than its object, and at the deadline Apply computed or the
\* one on the object.
LeaseKept(f) ==
    /\ deadline[f] >= Never /\ expires[f] >= Never /\ rowDeadline[f] >= Never
    /\ pc[f] = "created" => expires[f] <= now + Duration[f]
    /\ f \in leased => deadline[f] >= expires[f]
    /\ f \in leased /\ Running(f) => deadline[f] \in {rowDeadline[f], expires[f]}

\* While no process is up no call and no sweep is under way; once one has read the audit file,
\* every fault in force is leased, or on neither list.
Counts(f) ==
    /\ proc # "up" => pc[f] \notin Pending /\ f \notin reaped
    /\ proc # "down" /\ Running(f) /\ now < expires[f] =>
          f \in leased \/ pc[f] \in {"created", "failing", "failed"} \/ f \in missed

\* A row that will be read as a refusal is one of a refused, failed or backed-out call,
\* whether or not it has been remembered yet; what has been remembered reads as one.
TurnedDown(f) == outcome[f] \in {"refused", "driver-failed"}

RefusalKept(f) ==
    /\ RefusedInAudit(f) => f \in refused \/ pc[f] \in {"refusing", "failing", "returning", "lost"}
    /\ TurnedDown(f) => ~ applied[f] /\ pc[f] \in {"refusing", "refused", "failing", "failed", "lost"}
    /\ pc[f] \in {"idle", "received", "reserved", "created"} => f \notin refused /\ ~ TurnedDown(f)
    /\ TurnedDown(f) /\ (f \in refused \/ pc[f] \in {"refusing", "failing"}) => reason[f] # "budget-exceeded"

FaultInv(f) == OnlyPast(f) /\ GoneFirst(f) /\ RowKept(f) /\ LeaseKept(f) /\ Counts(f) /\ RefusalKept(f)

ControllerInv == \A f \in Faults : FaultInv(f)

LEMMA ControllerInit == CInit => ControllerInv
<1> SUFFICES ASSUME CInit, NEW f \in Faults PROVE FaultInv(f)
  BY DEF ControllerInv
<1>1. /\ pc[f] = "idle" /\ f \notin leased /\ clearer[f] = "idle" /\ f \notin todo /\ f \notin reaped
      /\ ~ Running(f) /\ ~ applied[f] /\ outcome[f] = "unseen" /\ proc = "up" /\ f \notin refused
  BY DEF CInit, Init, Running
<1>2. deadline[f] = Never /\ expires[f] = Never /\ rowDeadline[f] = Never /\ Never \in Int
  BY DEF CInit, Init, Never
<1>3. OnlyPast(f) /\ GoneFirst(f)
  BY <1>1 DEF OnlyPast, GoneFirst
<1>4. RowKept(f)
  BY <1>1 DEF RowKept, Pending, Booking, Registering
<1>5. LeaseKept(f)
  BY <1>1, <1>2 DEF LeaseKept
<1>6. Counts(f) /\ RefusalKept(f)
  BY <1>1 DEF Counts, RefusalKept, RefusedInAudit, TurnedDown, BackedOut
<1> QED
  BY <1>3, <1>4, <1>5, <1>6 DEF FaultInv

\* One fault under one step of a running process.
LEMMA WorkKeeps ==
  ASSUME CTypeOK, NEW g \in Faults, FaultInv(g), Work
  PROVE  FaultInv(g)'
<1> USE DEF CTypeOK, TypeOK, FaultInv, OnlyPast, GoneFirst, RowKept, LeaseKept, Counts, RefusalKept,
            RefusedInAudit, TurnedDown, BackedOut, Ending, Running, Registering, Emitted, Past, Pending, Booking, Never,
            Work, NoteDeadline, procVars,
            callVars, slotVars, leaseVars, histVars, sweepVars, objVars, trailVars
<1>1. ASSUME NEW f \in Faults, Receive(f) PROVE FaultInv(g)'
  BY <1>1 DEF Receive, Advance, Return
<1>2. ASSUME NEW f \in Faults, RejectEarly(f) PROVE FaultInv(g)'
  BY <1>2 DEF RejectEarly, Advance, Return, EndRow
<1>3. ASSUME NEW f \in Faults, Reserve(f) PROVE FaultInv(g)'
  BY <1>3 DEF Reserve, Advance, Return, Book
<1>4. ASSUME NEW f \in Faults, OverBudget(f) PROVE FaultInv(g)'
  BY <1>4 DEF OverBudget, Advance, Return, EndRow
<1>5. ASSUME NEW f \in Faults, RejectBooked(f) PROVE FaultInv(g)'
  BY <1>5 DEF RejectBooked, Advance, Return, EndRow, Unbook
<1>6. ASSUME NEW f \in Faults, DriverApply(f) PROVE FaultInv(g)'
  BY <1>6 DEF DriverApply, Advance, Return
<1>7. ASSUME NEW f \in Faults, DriverFailed(f) PROVE FaultInv(g)'
  BY <1>7 DEF DriverFailed, Return, EndRow, Unbook, MaybeCleared, Cleared, Becomes
<1>8. ASSUME NEW f \in Faults, PushRefused(f) PROVE FaultInv(g)'
  BY <1>8 DEF PushRefused, Advance, Return
<1>9. ASSUME NEW f \in Faults, Register(f) PROVE FaultInv(g)'
  BY <1>9 DEF Register, Advance, Return
<1>10. ASSUME NEW f \in Faults, RecordApply(f) PROVE FaultInv(g)'
  BY <1>10 DEF RecordApply, Advance, Return
<1>11. ASSUME NEW f \in Faults, Release(f) PROVE FaultInv(g)'
  BY <1>11 DEF Release, Advance, Return, Unbook
<1>12. ASSUME NEW f \in Faults, EmitApplied(f) PROVE FaultInv(g)'
  BY <1>12 DEF EmitApplied, Advance, Return
<1>13. ASSUME NEW f \in Faults, HistoryPush(f) PROVE FaultInv(g)'
  BY <1>13 DEF HistoryPush, Advance, Return
<1>14. ASSUME NEW f \in Faults, AbandonClear(f) PROVE FaultInv(g)'
  BY <1>14 DEF AbandonClear, Cleared, Becomes
<1>15. ASSUME NEW f \in Faults, AbandonClearFails(f) PROVE FaultInv(g)'
  BY <1>15 DEF AbandonClearFails, Advance, Return, MaybeCleared, Cleared, Becomes
<1>16. ASSUME NEW f \in Faults, AbandonForget(f) PROVE FaultInv(g)'
  BY <1>16 DEF AbandonForget, Advance, Return, Forget
<1>17. ASSUME NEW f \in Faults, AbandonEmit(f) PROVE FaultInv(g)'
  BY <1>17 DEF AbandonEmit, EndRow
<1>18. ASSUME NEW f \in Faults, AbandonLeaves(f) PROVE FaultInv(g)'
  BY <1>18 DEF AbandonLeaves, Advance, Return
<1>19. ASSUME NEW f \in Faults, ClearGet(f) PROVE FaultInv(g)'
  BY <1>19 DEF ClearGet
<1>20. ASSUME NEW f \in Faults, ClearDriver(f) PROVE FaultInv(g)'
  BY <1>20 DEF ClearDriver, Cleared, Becomes
<1>21. ASSUME NEW f \in Faults, ClearFails(f) PROVE FaultInv(g)'
  BY <1>21 DEF ClearFails, MaybeCleared, Cleared, Becomes
<1>22. ASSUME NEW f \in Faults, ClearForget(f) PROVE FaultInv(g)'
  BY <1>22 DEF ClearForget, Forget
<1>23. ASSUME NEW f \in Faults, ClearNote(f) PROVE FaultInv(g)'
  BY <1>23 DEF ClearNote, UpdateCleared
<1>24. ASSUME NEW f \in Faults, ClearEmit(f) PROVE FaultInv(g)'
  BY <1>24 DEF ClearEmit, EndRow
<1>25. CASE SweepStart
  BY <1>25 DEF SweepStart
<1>26. ASSUME NEW f \in Faults, ReapClear(f) PROVE FaultInv(g)'
  BY <1>26 DEF ReapClear, Cleared, Becomes
<1>27. ASSUME NEW f \in Faults, ReapFails(f) PROVE FaultInv(g)'
  BY <1>27 DEF ReapFails, MaybeCleared, Cleared, Becomes
<1>28. ASSUME NEW f \in Faults, ReapForget(f) PROVE FaultInv(g)'
  BY <1>28 DEF ReapForget, Forget
<1>29. ASSUME NEW f \in Faults, ReapNote(f) PROVE FaultInv(g)'
  BY <1>29 DEF ReapNote, UpdateCleared
<1>30. ASSUME NEW f \in Faults, ReapEmit(f) PROVE FaultInv(g)'
  BY <1>30 DEF ReapEmit, EndRow
<1>31. ASSUME NEW f \in Faults, ReapOrphan(f) PROVE FaultInv(g)'
  BY <1>31 DEF ReapOrphan, ReapableAt, Cleared, Becomes
<1>32. CASE SweepOrphansStart
  BY <1>32 DEF SweepOrphansStart
<1>33. CASE SweepEnd
  BY <1>33 DEF SweepEnd
<1> HIDE DEF FaultInv
<1> QED
  BY <1>1, <1>2, <1>3, <1>4, <1>5, <1>6, <1>7, <1>8, <1>9, <1>10, <1>11, <1>12, <1>13, <1>14, <1>15, <1>16, <1>17, <1>18, <1>19, <1>20, <1>21, <1>22, <1>23, <1>24, <1>25, <1>26, <1>27, <1>28, <1>29, <1>30, <1>31, <1>32, <1>33
  DEF Work, ProcessStep, ReaperStep, ApplyStep, ClearStep

LEMMA EnvironmentKeeps ==
  ASSUME CTypeOK, NEW g \in Faults, FaultInv(g), Environment
  PROVE  FaultInv(g)'
<1> USE DEF CTypeOK, TypeOK, FaultInv, OnlyPast, GoneFirst, RowKept, LeaseKept, Counts, RefusalKept,
            RefusedInAudit, TurnedDown, BackedOut, Ending, Running, Registering, Emitted, Past, Pending, Booking, Never,
            Environment, procVars,
            callVars, slotVars, leaseVars, histVars, sweepVars, objVars, trailVars
<1>1. CASE Tick
  BY <1>1 DEF Tick
<1>2. ASSUME NEW f \in Faults, EngineRecover(f) PROVE FaultInv(g)'
  BY <1>2 DEF EngineRecover, Becomes
<1>3. ASSUME NEW f \in Faults, EngineFinalize(f) PROVE FaultInv(g)'
  BY <1>3 DEF EngineFinalize, Becomes
<1> HIDE DEF FaultInv
<1> QED
  BY <1>1, <1>2, <1>3 DEF EnvStep

\* The process dies: the calls under way are lost, with or without their rows.
LEMMA CrashKeeps ==
  ASSUME CTypeOK, NEW g \in Faults, FaultInv(g), Crash
  PROVE  FaultInv(g)'
<1>1. /\ pc'[g] = IF pc[g] \in Pending THEN "lost" ELSE pc[g]
      /\ leased' = {} /\ deadline'[g] = Never /\ clearer'[g] = "idle" /\ todo' = {} /\ reaped' = {}
      /\ proc' = "down" /\ UNCHANGED <<object, expires, refused, now>> /\ Never \in Int
  BY DEF Crash, histVars, objVars, Never
<1>2. \/ outcome'[g] = outcome[g] /\ reason'[g] = reason[g] /\ applied'[g] = applied[g] /\ rowDeadline'[g] = rowDeadline[g]
      \/ outcome'[g] = "unseen" /\ reason'[g] = "none" /\ ~ applied'[g] /\ rowDeadline'[g] = Never
  BY DEF Crash, trailVars
<1>3. Running(g)' <=> Running(g)
  BY <1>1 DEF Running
<1>4. OnlyPast(g)' /\ GoneFirst(g)'
  BY <1>1, <1>2, <1>3 DEF FaultInv, OnlyPast, GoneFirst, Past, Emitted, Registering, Pending, Booking
<1>5. RowKept(g)'
  BY <1>1, <1>2 DEF FaultInv, RowKept, Registering, Pending, Booking
<1>6. LeaseKept(g)'
  BY <1>1, <1>2 DEF FaultInv, LeaseKept, Pending, Booking
<1>7. Counts(g)'
  BY <1>1 DEF Counts, Pending, Booking
<1>8. RefusalKept(g)'
  BY <1>1, <1>2 DEF FaultInv, RefusalKept, RefusedInAudit, TurnedDown, BackedOut, Pending, Booking
<1> QED
  BY <1>4, <1>5, <1>6, <1>7, <1>8 DEF FaultInv

\* A new process reads the audit file.  A fault in force whose row is open has its
\* deadline ahead, since the row's is no earlier than the object's.
LEMMA TakeOverKeeps ==
  ASSUME CTypeOK, NEW g \in Faults, FaultInv(g), TakeOver
  PROVE  FaultInv(g)'
<1>1. /\ pc' = pc /\ clearer' = clearer /\ todo' = todo /\ reaped' = reaped /\ reaper' = reaper /\ proc' = "taken" /\ proc = "down"
      /\ UNCHANGED <<object, expires, now, applied, rowDeadline>>
  BY DEF TakeOver, callVars, sweepVars, objVars
<1>2. /\ g \in leased' <=> StillActive(g)
      /\ deadline'[g] = IF StillActive(g) THEN rowDeadline[g] ELSE Never
      /\ outcome'[g] = IF Closable(g) THEN "expired" ELSE outcome[g]
      /\ reason'[g] = IF Closable(g) THEN "untracked-after-restart" ELSE reason[g]
      /\ g \in missed' <=> ~ (applied[g] /\ outcome[g] = "open")
      /\ g \in refused' <=> RefusedInAudit(g)
  BY DEF TakeOver
<1>3. (Running(g)' <=> Running(g)) /\ Never \in Int /\ now \in Int /\ rowDeadline[g] \in Int /\ expires[g] \in Int
  BY <1>1 DEF Running, Never, CTypeOK, TypeOK
<1>4. OnlyPast(g)' /\ GoneFirst(g)'
  BY <1>1, <1>2, <1>3 DEF FaultInv, OnlyPast, GoneFirst, StillActive, Past
<1>5. RowKept(g)'
  BY <1>1, <1>2 DEF FaultInv, RowKept, Counts, StillActive, Closable, Registering, Pending, Booking
<1>6. LeaseKept(g)'
  BY <1>1, <1>2, <1>3 DEF FaultInv, LeaseKept, RowKept, StillActive
<1>7. Counts(g)'
  BY <1>1, <1>2, <1>3 DEF FaultInv, RowKept, Counts, StillActive
<1>8. RefusalKept(g)'
  BY <1>1, <1>2 DEF FaultInv, RefusalKept, RefusedInAudit, TurnedDown, BackedOut
<1> QED
  BY <1>4, <1>5, <1>6, <1>7, <1>8 DEF FaultInv

\* It lists the cluster.
LEMMA AdoptLiveKeeps ==
  ASSUME CTypeOK, NEW g \in Faults, FaultInv(g), AdoptLive
  PROVE  FaultInv(g)'
<1>1. /\ UNCHANGED <<pc, clearer, todo, reaped, object, expires, now, applied, rowDeadline, refused, reason>>
      /\ proc' = "sweeping" /\ proc = "taken"
  BY DEF AdoptLive, callVars, objVars
<1>2. PICK listed \in SUBSET {f \in Faults : Listable(f)} :
        /\ leased' = leased \cup (listed \ leased)
        /\ deadline' = [f \in Faults |-> IF f \in listed \ leased THEN expires[f] ELSE deadline[f]]
        /\ outcome' = [f \in Faults |->
                         IF f \in listed \ leased /\ outcome[f] = "unseen" THEN "open" ELSE outcome[f]]
        /\ missed' = {f \in missed : Running(f)} \ listed
  BY DEF AdoptLive
<1>3. /\ g \in leased' <=> g \in leased \/ g \in listed
      /\ deadline'[g] = IF g \in listed \ leased THEN expires[g] ELSE deadline[g]
      /\ outcome'[g] = IF g \in listed \ leased /\ outcome[g] = "unseen" THEN "open" ELSE outcome[g]
      /\ g \in missed' <=> g \in missed /\ Running(g) /\ g \notin listed
      /\ g \in listed => Running(g)
  BY <1>2 DEF Listable
<1>4. /\ Running(g)' <=> Running(g)
      /\ Never \in Int /\ rowDeadline[g] \in Int /\ expires[g] \in Int /\ deadline[g] \in Int
  BY <1>1 DEF Running, Never, CTypeOK, TypeOK
<1>5. pc[g] \notin Pending /\ g \notin reaped
  BY <1>1 DEF FaultInv, Counts
<1>6. OnlyPast(g)' /\ GoneFirst(g)'
  BY <1>1, <1>3, <1>4, <1>5 DEF FaultInv, OnlyPast, GoneFirst, Pending, Booking
<1>7. RowKept(g)'
  BY <1>1, <1>3, <1>5 DEF FaultInv, RowKept, Ending, Registering, Pending, Booking
<1>8. LeaseKept(g)'
  BY <1>1, <1>3, <1>4 DEF FaultInv, LeaseKept
<1>9. Counts(g)'
  BY <1>1, <1>3, <1>4, <1>5 DEF FaultInv, Counts
<1>10. RefusalKept(g)'
  BY <1>1, <1>3 DEF FaultInv, RefusalKept, RefusedInAudit, TurnedDown, BackedOut
<1> QED
  BY <1>6, <1>7, <1>8, <1>9, <1>10 DEF FaultInv

\* Its first scan, and the first tick.
LEMMA StartupKeeps ==
  ASSUME CTypeOK, NEW g \in Faults, FaultInv(g), StartupDone \/ \E f \in Faults : StartupReap(f)
  PROVE  FaultInv(g)'
<1> USE DEF CTypeOK, TypeOK, FaultInv, OnlyPast, GoneFirst, RowKept, LeaseKept, Counts, RefusalKept,
            RefusedInAudit, TurnedDown, BackedOut, Ending, Running, Registering, Emitted, Past, Pending, Booking, Never,
            procVars, callVars, slotVars, leaseVars, histVars, sweepVars, objVars, trailVars
<1>1. ASSUME NEW f \in Faults, StartupReap(f) PROVE FaultInv(g)'
  BY <1>1 DEF StartupReap, ReapOrphan, ReapableAt, Cleared, Becomes
<1>2. CASE StartupDone
  BY <1>2 DEF StartupDone, SweepEnd
<1> QED
  BY <1>1, <1>2

LEMMA ControllerStep == CTypeOK /\ ControllerInv /\ [CNext]_cvars => ControllerInv'
<1> SUFFICES ASSUME CTypeOK, ControllerInv, [CNext]_cvars, NEW g \in Faults PROVE FaultInv(g)'
  BY DEF ControllerInv
<1>1. FaultInv(g)
  BY DEF ControllerInv
<1>2. CASE UNCHANGED cvars
  BY <1>1, <1>2
     DEF FaultInv, OnlyPast, GoneFirst, RowKept, LeaseKept, Counts, RefusalKept, RefusedInAudit, TurnedDown, BackedOut,
         Ending, Running, cvars, vars, procVars, callVars, slotVars, leaseVars, histVars, sweepVars, objVars, trailVars
<1> QED
  BY <1>1, <1>2, WorkKeeps, EnvironmentKeeps, CrashKeeps, TakeOverKeeps, AdoptLiveKeeps, StartupKeeps DEF CNext

LEMMA ControllerCorrect == CSpec => [](CTypeOK /\ ControllerInv)
<1>1. CTypeOK /\ ControllerInv /\ [CNext]_cvars => (CTypeOK /\ ControllerInv)'
  BY CTypeStep, ControllerStep
<1> QED
  BY <1>1, CTypeInit, ControllerInit, PTL DEF CSpec

(***************************************************************************)
(* The theorems.                                                           *)
(***************************************************************************)
\* Whenever processes die, at any step, with the audit file or without it: once a new
\* one is up it holds a lease on every fault in force that the file or the cluster
\* showed it, and no fault is given longer than the deadline on record or on its
\* object (serve, FaultRow.ActiveFault, lease.AdoptLive).
THEOREM AlwaysRecounted == CSpec => []Recounted
<1>1. CTypeOK /\ ControllerInv => LiveIsCounted
  BY DEF ControllerInv, FaultInv, Counts, LiveIsCounted
<1>2. CTypeOK /\ ControllerInv => DeadlineKept
  BY DEF CTypeOK, TypeOK, ControllerInv, FaultInv, LeaseKept, DeadlineKept
<1>3. CTypeOK /\ ControllerInv => OpenIsKept
  BY DEF ControllerInv, FaultInv, GoneFirst, RowKept, Ending, OpenIsKept, OpenIsHeld
<1>4. CTypeOK /\ ControllerInv => Recounted
  BY <1>1, <1>2, <1>3 DEF Recounted
<1> QED
  BY <1>4, ControllerCorrect, PTL

\* What a new process is told was refused is what an earlier one refused, saw fail or
\* backed out, none of it is remembered as having run or was interrupted once applied,
\* and nothing that the file still shows so is forgotten.
THEOREM RefusalsAlwaysGenuine == CSpec => RefusalsGenuine
<1> DEFINE Told == \A f \in refused' :
              /\ f \in refused \/ pc[f] = "lost"
              /\ history'[f] = "absent"
              /\ applied[f] => reason[f] # "interrupted"
           ToldAgain == \A f \in refused :
              outcome[f] \in {"refused", "driver-failed"} \/ BackedOut(f) => f \in refused'
<1>1. ASSUME CTypeOK, ControllerInv, CNext, Restored PROVE Told /\ ToldAgain
  <2>1. TakeOver
    BY <1>1 DEF CNext, Restored, Work, Environment, Crash, AdoptLive, StartupReap, StartupDone, procVars
  <2>2. \A f \in Faults : FaultInv(f)
    BY <1>1 DEF ControllerInv
  <2>3. ASSUME NEW f \in refused'
        PROVE  /\ f \in refused \/ pc[f] = "lost"
               /\ history'[f] = "absent"
               /\ applied[f] => reason[f] # "interrupted"
    <3>1. f \in Faults /\ RefusedInAudit(f) /\ FaultInv(f)
      BY <2>1, <2>2, <2>3 DEF TakeOver
    <3>2. f \in refused \/ pc[f] = "lost"
      BY <2>1, <3>1 DEF TakeOver, FaultInv, RefusalKept, Counts, Pending
    <3>3. history'[f] = RecentFromAudit(f)
      BY <2>1, <3>1 DEF TakeOver
    <3>4. ~ applied[f] \/ BackedOut(f)
      BY <3>1 DEF RefusedInAudit, FaultInv, RefusalKept, TurnedDown
    <3> QED
      BY <3>2, <3>3, <3>4 DEF RecentFromAudit, BackedOut
  <2>4. ASSUME NEW f \in refused, outcome[f] \in {"refused", "driver-failed"} \/ BackedOut(f)
        PROVE  f \in refused'
    <3>1. f \in Faults /\ FaultInv(f)
      BY <1>1, <2>2 DEF CTypeOK, TypeOK
    <3>2. RefusedInAudit(f)
      BY <2>4, <3>1 DEF FaultInv, RefusalKept, TurnedDown, RefusedInAudit, BackedOut
    <3> QED
      BY <2>1, <3>1, <3>2 DEF TakeOver
  <2> QED
    BY <2>3, <2>4
<1>2. CTypeOK /\ ControllerInv /\ [CNext]_cvars => [Restored => Told /\ ToldAgain]_cvars
  BY <1>1
<1> QED
  BY <1>2, ControllerCorrect, PTL DEF CSpec, RefusalsGenuine
=============================================================================
