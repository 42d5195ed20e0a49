----------------------------- MODULE PartsProofs -----------------------------
(***************************************************************************)
(* Theorems about the parts that stand for themselves: the arenas          *)
(* (Arenas), the baselines (Baselines) and the ring of recent faults       *)
(* (Recents), for any callers, namespaces, faults and bounds.              *)
(***************************************************************************)
EXTENDS Arenas, Baselines, Recents, TLAPS, FiniteSetTheorems, SequenceTheorems

(***************************************************************************)
(* Arenas: types.                                                          *)
(***************************************************************************)
RoleSteps == {"create role", "get role", "update role", "bind"}
DestroySteps == {"unbind", "delete role", "delete namespace"}
CallSteps == {"idle", "get namespace", "create namespace", "update namespace", "count faults"}
                \cup RoleSteps \cup DestroySteps

Specs == {"chaos", "chaos and sut"}

Copies == {"none", "namespace", "role"}

CallOK == [at : CallSteps, spec : Specs, force : BOOLEAN, copy : Copies,
           fresh : BOOLEAN, seen : SUBSET AFaults, alone : BOOLEAN]

SpaceOK ==
    /\ space \in [phase : {"absent", "standing", "terminating"}, mark : Marks]
    /\ role \in Specs \cup {NoRole}
    /\ bound \in BOOLEAN /\ optedOut \in BOOLEAN
    /\ live \subseteq spent /\ spent \subseteq AFaults
    /\ settled \in Specs \cup {"none"}
    /\ byHand \in 0 .. MaxEdits
    /\ space.phase = "absent" => space.mark = "unset" /\ role = NoRole /\ ~ bound /\ live = {}

(***************************************************************************)
(* Arenas: the inductive invariant.                                        *)
(***************************************************************************)
\* What is true of a call under way, given the namespace, the Role and the faults
\* that are live and that were ever applied: it holds a copy exactly while it is
\* about to update the object, a fresh copy of the namespace shows no opt-out, what a
\* Create has done by the time it comes to the role and to the binding, and what a
\* Destroy has seen and not seen go.
CallTrue(q, sp, ro, li, sn) ==
    /\ q \in CallOK
    /\ q.copy = "namespace" <=> q.at = "update namespace"
    /\ q.copy = "role" <=> q.at = "update role"
    /\ q.fresh => q.copy # "none" /\ sp.phase # "absent"
    /\ q.fresh /\ q.copy = "namespace" => sp.mark # "false"
    /\ q.alone => q.at # "idle"
    /\ q.at \in RoleSteps /\ sp.phase # "absent" => sp.mark # "unset"
    /\ q.at = "bind" /\ q.alone /\ sp.phase = "standing" => ro = q.spec
    /\ q.seen \subseteq ACounted \cap sn
    /\ q.at \in DestroySteps /\ ~ q.force => q.seen \cap li = {}

CallsTrue == call \in [Callers -> CallOK] /\ \A c \in Callers : CallTrue(call[c], space, role, live, spent)

\* "alone" means what it says, and what is settled was settled with no call under way.
AloneTrue ==
    /\ \A c, d \in Callers : call[c].alone /\ c # d => call[d].at = "idle"
    /\ settled # "none" => \A c \in Callers : call[c].at = "idle"

ArenaInv == SpaceOK /\ CallsTrue /\ AloneTrue /\ OptOutKept /\ CreatedWhole

LEMMA IdleTyped ==
  /\ Idle \in CallOK /\ Idle.at = "idle" /\ Idle.copy = "none" /\ ~ Idle.fresh /\ Idle.seen = {} /\ ~ Idle.alone
  /\ \A b \in BOOLEAN : rulesFor(b) \in Specs
  BY DEF Idle, CallOK, CallSteps, Specs, Copies, rulesFor

\* A caller that is in no call claims nothing.
LEMMA IdleTrue ==
  ASSUME NEW sp, NEW ro, NEW li, NEW sn
  PROVE  CallTrue(Idle, sp, ro, li, sn)
  BY IdleTyped DEF CallTrue, RoleSteps, DestroySteps

LEMMA ArenaInvInit == ArInit => ArenaInv
<1> SUFFICES ASSUME ArInit PROVE ArenaInv
  OBVIOUS
<1>1. byHand \in 0 .. MaxEdits
  BY ArenaAssumption DEF ArInit
<1>2. SpaceOK
  <2>1. space \in [phase : {"absent", "standing", "terminating"}, mark : Marks]
    BY DEF ArInit, Marks
  <2>2. space.phase = "absent" => space.mark = "unset"
    BY DEF ArInit
  <2>3. optedOut \in BOOLEAN
    BY DEF ArInit
  <2> QED
    BY <1>1, <2>1, <2>2, <2>3 DEF ArInit, SpaceOK
<1>3. call \in [Callers -> CallOK] /\ \A c \in Callers : call[c] = Idle
  BY IdleTyped DEF ArInit
<1>4. CallsTrue /\ AloneTrue
  BY <1>3, IdleTrue, IdleTyped DEF ArInit, CallsTrue, AloneTrue
<1>5. OptOutKept /\ CreatedWhole
  BY DEF ArInit, OptOutKept, CreatedWhole
<1> QED
  BY <1>2, <1>4, <1>5 DEF ArenaInv

(***************************************************************************)
(* Arenas: the steps of a call.                                            *)
(***************************************************************************)
\* A caller's record q after a step from r, in the parts a step may change and the
\* parts it may not.
Moved(q, r, at, copy, fresh) ==
    /\ q \in CallOK /\ q.at = at /\ q.copy = copy /\ q.fresh = fresh
    /\ q.spec = r.spec /\ q.force = r.force /\ q.seen = r.seen /\ q.alone = r.alone

\* A copy that goes stale is all that changes for a caller.
Staled(q, r, object) == Moved(q, r, r.at, r.copy, IF r.copy = object THEN FALSE ELSE r.fresh)

LEMMA RecordMoved ==
  ASSUME NEW r \in CallOK, NEW at \in CallSteps, NEW copy \in Copies, NEW fresh \in BOOLEAN
  PROVE  Moved([r EXCEPT !.at = at, !.copy = copy, !.fresh = fresh], r, at, copy, fresh)
  BY DEF CallOK, Moved

LEMMA RecordStaled ==
  ASSUME NEW r \in CallOK, NEW object
  PROVE  /\ Staled(r, r, object) \/ r.copy = object
         /\ Staled([r EXCEPT !.fresh = FALSE], r, object) \/ r.copy # object
         /\ [r EXCEPT !.fresh = FALSE] \in CallOK
  BY DEF CallOK, Moved, Staled

\* From one request to the next: the caller moves, the others stand.
LEMMA ToMoves ==
  ASSUME NEW calls \in [Callers -> CallOK], NEW c \in Callers, NEW at \in CallSteps
  PROVE  /\ To(calls, c, at) \in [Callers -> CallOK]
         /\ Moved(To(calls, c, at)[c], calls[c], at, "none", FALSE)
         /\ \A d \in Callers : d # c => To(calls, c, at)[d] = calls[d]
<1> DEFINE q == [calls[c] EXCEPT !.at = at, !.copy = "none", !.fresh = FALSE]
<1>1. Moved(q, calls[c], at, "none", FALSE)
  BY RecordMoved DEF Copies
<1>2. q \in CallOK
  BY <1>1 DEF Moved
<1>3. To(calls, c, at) = [calls EXCEPT ![c] = q]
  BY DEF To
<1> HIDE DEF q
<1> QED
  BY <1>1, <1>2, <1>3

LEMMA HoldingMoves ==
  ASSUME call \in [Callers -> CallOK], NEW c \in Callers, NEW at \in CallSteps, NEW object \in Copies
  PROVE  /\ Holding(c, object, at) \in [Callers -> CallOK]
         /\ Moved(Holding(c, object, at)[c], call[c], at, object, TRUE)
         /\ \A d \in Callers : d # c => Holding(c, object, at)[d] = call[d]
<1> DEFINE q == [call[c] EXCEPT !.at = at, !.copy = object, !.fresh = TRUE]
<1>1. Moved(q, call[c], at, object, TRUE)
  BY RecordMoved
<1>2. q \in CallOK
  BY <1>1 DEF Moved
<1>3. Holding(c, object, at) = [call EXCEPT ![c] = q]
  BY DEF Holding
<1> HIDE DEF q
<1> QED
  BY <1>1, <1>2, <1>3

LEMMA ReturnMoves ==
  ASSUME NEW calls \in [Callers -> CallOK], NEW c \in Callers
  PROVE  /\ Return(calls, c) \in [Callers -> CallOK]
         /\ Return(calls, c)[c] = Idle
         /\ \A d \in Callers : d # c => Return(calls, c)[d] = calls[d]
  BY IdleTyped DEF Return

\* A write leaves every other caller's copy of the object stale.
LEMMA GoneStales ==
  ASSUME call \in [Callers -> CallOK], NEW object
  PROVE  Gone(object) \in [Callers -> CallOK] /\ \A d \in Callers : Staled(Gone(object)[d], call[d], object)
  BY RecordStaled DEF Gone

LEMMA StaleStales ==
  ASSUME call \in [Callers -> CallOK], NEW object, NEW c \in Callers
  PROVE  /\ Stale(object, c) \in [Callers -> CallOK] /\ Stale(object, c)[c] = call[c]
         /\ \A d \in Callers : d # c => Staled(Stale(object, c)[d], call[d], object)
  BY RecordStaled DEF Stale

\* A copy that goes stale, or a fault that is cleared, makes no claim false.
LEMMA StaledTrue ==
  ASSUME NEW q, NEW r, NEW sp, NEW ro, NEW li, NEW sn, NEW object,
         CallTrue(r, sp, ro, li, sn), Staled(q, r, object)
  PROVE  CallTrue(q, sp, ro, li, sn)
  BY DEF CallTrue, Staled, Moved

\* Steps of one call that write nothing in the cluster.
LEMMA CallerMoves ==
  ASSUME ArenaInv, NEW c \in Callers, Calling(c),
         UNCHANGED <<space, role, bound, live, spent, optedOut, byHand, settled>>,
         call' \in [Callers -> CallOK], \A d \in Callers : d # c => call'[d] = call[d],
         CallTrue(call'[c], space, role, live, spent), call'[c].alone => call[c].alone
  PROVE  ArenaInv'
<1>1. SpaceOK' /\ OptOutKept' /\ CreatedWhole'
  BY DEF ArenaInv, SpaceOK, OptOutKept, CreatedWhole
<1>2. CallsTrue'
  BY DEF ArenaInv, CallsTrue
<1>3. settled = "none"
  BY DEF ArenaInv, AloneTrue, Calling
<1>4. AloneTrue'
  BY <1>3 DEF ArenaInv, AloneTrue, Calling
<1> QED
  BY <1>1, <1>2, <1>4 DEF ArenaInv

LEMMA ReturnKeeps ==
  ASSUME ArenaInv, NEW c \in Callers, Calling(c), call' = Return(call, c),
         UNCHANGED <<space, role, bound, live, spent, optedOut, byHand, settled>>
  PROVE  ArenaInv'
<1>1. call \in [Callers -> CallOK]
  BY DEF ArenaInv, CallsTrue
<1>2. /\ call' \in [Callers -> CallOK] /\ call'[c] = Idle
      /\ \A d \in Callers : d # c => call'[d] = call[d]
  BY <1>1, ReturnMoves
<1> QED
  BY <1>2, CallerMoves, IdleTrue, IdleTyped

LEMMA ToKeeps ==
  ASSUME ArenaInv, NEW c \in Callers, NEW at \in CallSteps \ {"idle", "update namespace", "update role"},
         Calling(c), call' = To(call, c, at),
         UNCHANGED <<space, role, bound, live, spent, optedOut, byHand, settled>>,
         at \in RoleSteps /\ space.phase # "absent" => space.mark # "unset",
         at # "bind",
         at \in DestroySteps /\ ~ call[c].force => call[c].seen \cap live = {}
  PROVE  ArenaInv'
<1>1. call \in [Callers -> CallOK] /\ CallTrue(call[c], space, role, live, spent) /\ at \in CallSteps
  BY DEF ArenaInv, CallsTrue
<1>2. /\ To(call, c, at) \in [Callers -> CallOK] /\ Moved(To(call, c, at)[c], call[c], at, "none", FALSE)
      /\ \A d \in Callers : d # c => To(call, c, at)[d] = call[d]
  BY <1>1, ToMoves
<1> DEFINE q == call'[c]
<1>3. /\ q \in CallOK /\ q.at = at /\ q.copy = "none" /\ ~ q.fresh
      /\ q.force = call[c].force /\ q.seen = call[c].seen /\ q.alone = call[c].alone
  BY <1>2 DEF Moved
<1>4. q.seen \subseteq ACounted \cap spent
  BY <1>1, <1>3 DEF CallTrue
<1> HIDE DEF q
<1>5. CallTrue(q, space, role, live, spent)
  BY <1>3, <1>4 DEF CallTrue
<1> QED
  BY <1>2, <1>3, <1>5, CallerMoves DEF q

LEMMA HoldingKeeps ==
  ASSUME ArenaInv, NEW c \in Callers, Calling(c),
         UNCHANGED <<space, role, bound, live, spent, optedOut, byHand, settled>>,
         space.phase # "absent",
         \/ call' = Holding(c, "role", "update role") /\ call[c].at \in RoleSteps
         \/ call' = Holding(c, "namespace", "update namespace") /\ space.mark # "false"
  PROVE  ArenaInv'
<1>1. call \in [Callers -> CallOK] /\ CallTrue(call[c], space, role, live, spent)
  BY DEF ArenaInv, CallsTrue
<1>2. CASE call' = Holding(c, "role", "update role") /\ call[c].at \in RoleSteps
  <2>1. /\ call' \in [Callers -> CallOK] /\ Moved(call'[c], call[c], "update role", "role", TRUE)
        /\ \A d \in Callers : d # c => call'[d] = call[d]
    BY <1>1, <1>2, HoldingMoves DEF Copies, CallSteps, RoleSteps
  <2>2. CallTrue(call'[c], space, role, live, spent)
    BY <1>1, <1>2, <2>1 DEF CallTrue, Moved, DestroySteps
  <2> QED
    BY <2>1, <2>2, CallerMoves DEF Moved
<1>3. CASE call' = Holding(c, "namespace", "update namespace") /\ space.mark # "false"
  <2>1. /\ call' \in [Callers -> CallOK] /\ Moved(call'[c], call[c], "update namespace", "namespace", TRUE)
        /\ \A d \in Callers : d # c => call'[d] = call[d]
    BY <1>1, <1>3, HoldingMoves DEF Copies, CallSteps, RoleSteps
  <2>2. CallTrue(call'[c], space, role, live, spent)
    BY <1>1, <1>3, <2>1 DEF CallTrue, Moved, DestroySteps, RoleSteps
  <2> QED
    BY <2>1, <2>2, CallerMoves DEF Moved
<1> QED
  BY <1>2, <1>3

\* Steps of one call that write to the cluster: with a call under way nothing is settled.
LEMMA CallerWrites ==
  ASSUME ArenaInv, NEW c \in Callers, Calling(c), settled' = settled, SpaceOK', OptOutKept',
         call' \in [Callers -> CallOK], \A d \in Callers : CallTrue(call'[d], space', role', live', spent'),
         \A d \in Callers : call'[d].alone => call[d].alone,
         \A d \in Callers : d # c => call'[d].at = call[d].at
  PROVE  ArenaInv'
<1>1. settled' = "none"
  BY DEF ArenaInv, AloneTrue, Calling
<1>2. CreatedWhole' /\ AloneTrue'
  BY <1>1 DEF ArenaInv, AloneTrue, CreatedWhole, Calling
<1> QED
  BY <1>2 DEF ArenaInv, CallsTrue

\* While c is in a call no other caller is alone.
LEMMA NotAlone ==
  ASSUME ArenaInv, NEW c \in Callers, Calling(c)
  PROVE  \A d \in Callers : d # c => ~ call[d].alone
  BY DEF ArenaInv, AloneTrue, Calling

LEMMA NamespaceWritten ==
  ASSUME ArenaInv, NEW c \in Callers, Calling(c),
         call' = To(Stale("namespace", c), c, "create role"),
         \/ space.phase = "absent" /\ space' = [phase |-> "standing", mark |-> "true"]
         \/ call[c].fresh /\ call[c].copy = "namespace" /\ space' = [space EXCEPT !.mark = "true"],
         UNCHANGED <<role, bound, live, spent, settled, optedOut, byHand>>
  PROVE  ArenaInv'
<1>1. /\ SpaceOK /\ OptOutKept /\ call \in [Callers -> CallOK]
      /\ \A d \in Callers : CallTrue(call[d], space, role, live, spent)
  BY DEF ArenaInv, CallsTrue
<1>2. space'.mark = "true" /\ space'.phase # "absent" /\ space' \in [phase : {"absent", "standing", "terminating"}, mark : Marks]
  <2>1. call[c].fresh => space.phase # "absent"
    BY <1>1 DEF CallTrue
  <2>2. space \in [phase : {"absent", "standing", "terminating"}, mark : Marks]
    BY <1>1 DEF SpaceOK
  <2>3. CASE space' = [phase |-> "standing", mark |-> "true"]
    BY <2>3 DEF Marks
  <2>4. CASE call[c].fresh /\ space' = [space EXCEPT !.mark = "true"]
    BY <2>1, <2>2, <2>4 DEF Marks
  <2> QED
    BY <2>3, <2>4
<1>3. ~ optedOut
  BY <1>1 DEF OptOutKept, SpaceOK, CallTrue
<1>4. SpaceOK' /\ OptOutKept'
  BY <1>1, <1>2, <1>3 DEF SpaceOK, OptOutKept
<1> DEFINE stale == Stale("namespace", c)
<1>5. /\ stale \in [Callers -> CallOK] /\ stale[c] = call[c]
      /\ \A d \in Callers : d # c => Staled(stale[d], call[d], "namespace")
  BY <1>1, StaleStales
<1> HIDE DEF stale
<1>6. /\ To(stale, c, "create role") \in [Callers -> CallOK]
      /\ Moved(To(stale, c, "create role")[c], stale[c], "create role", "none", FALSE)
      /\ \A d \in Callers : d # c => To(stale, c, "create role")[d] = stale[d]
  <2>1. "create role" \in CallSteps
    BY DEF CallSteps, RoleSteps
  <2> QED
    BY <1>5, <2>1, ToMoves
<1>7. /\ call' \in [Callers -> CallOK] /\ Moved(call'[c], call[c], "create role", "none", FALSE)
      /\ \A d \in Callers : d # c => Staled(call'[d], call[d], "namespace")
  <2>1. call' = To(stale, c, "create role")
    BY DEF stale
  <2> QED
    BY <1>5, <1>6, <2>1
<1>8. ASSUME NEW d \in Callers, d # c PROVE CallTrue(call'[d], space', role', live', spent')
  <2>1. CallTrue(call[d], space, role, live, spent) /\ ~ call[d].alone /\ Staled(call'[d], call[d], "namespace")
    BY <1>1, <1>7, <1>8, NotAlone
  <2> QED
    BY <1>2, <2>1 DEF CallTrue, Staled, Moved
<1>9. CallTrue(call'[c], space', role', live', spent')
  BY <1>1, <1>2, <1>7 DEF CallTrue, Moved, RoleSteps, DestroySteps
<1>10. \A d \in Callers : (call'[d].alone => call[d].alone) /\ (d # c => call'[d].at = call[d].at)
  BY <1>7 DEF Staled, Moved
<1> QED
  BY <1>4, <1>7, <1>8, <1>9, <1>10, CallerWrites

LEMMA CreateSteps ==
  ASSUME ArenaInv, NEW c \in Callers,
         RequestFails(c) \/ GetNamespace(c) \/ CreateNamespace(c) \/ UpdateNamespace(c) \/ GetRole(c)
  PROVE  ArenaInv'
<1>1. call \in [Callers -> CallOK] /\ CallTrue(call[c], space, role, live, spent) /\ SpaceOK
  BY DEF ArenaInv, CallsTrue
<1>2. CASE RequestFails(c)
  BY <1>2, ReturnKeeps DEF RequestFails
<1>3. CASE GetNamespace(c)
  <2>1. Calling(c) /\ UNCHANGED <<space, role, bound, live, spent, optedOut, byHand, settled>>
    BY <1>3 DEF GetNamespace, At, Calling
  <2>2. CASE space.phase = "absent" /\ call' = To(call, c, "create namespace")
    BY <2>1, <2>2, ToKeeps DEF CallSteps, RoleSteps, DestroySteps
  <2>3. CASE call' = Return(call, c)
    BY <2>1, <2>3, ReturnKeeps
  <2>4. CASE space.phase # "absent" /\ space.mark # "false" /\ call' = Holding(c, "namespace", "update namespace")
    BY <2>1, <2>4, HoldingKeeps
  <2>5. CASE space.mark = "true" /\ call' = To(call, c, "create role")
    BY <2>1, <2>5, ToKeeps DEF CallSteps, RoleSteps, DestroySteps
  <2> QED
    BY <1>3, <2>2, <2>3, <2>4, <2>5 DEF GetNamespace
<1>4. CASE CreateNamespace(c)
  BY <1>4, NamespaceWritten, ReturnKeeps DEF CreateNamespace, At, Calling
<1>5. CASE UpdateNamespace(c)
  <2>1. call[c].copy = "namespace"
    BY <1>1, <1>5 DEF UpdateNamespace, At, CallTrue
  <2> QED
    BY <1>5, <2>1, NamespaceWritten, ReturnKeeps DEF UpdateNamespace, At, Calling
<1>6. CASE GetRole(c)
  <2>1. role # NoRole => space.phase # "absent"
    BY <1>1 DEF SpaceOK
  <2>2. call[c].at \in RoleSteps
    BY <1>6 DEF GetRole, At, RoleSteps
  <2> QED
    BY <1>6, <2>1, <2>2, ReturnKeeps, HoldingKeeps DEF GetRole, At, Calling
<1> QED
  BY <1>2, <1>3, <1>4, <1>5, <1>6

\* The Role is written by a caller that comes to the binding next.
LEMMA RoleWritten ==
  ASSUME ArenaInv, NEW c \in Callers, call[c].at \in RoleSteps, space.phase # "absent", role' = call[c].spec,
         call' = To(call, c, "bind") \/ call' = To(Stale("role", c), c, "bind"),
         UNCHANGED <<space, bound, live, spent, settled, optedOut, byHand>>
  PROVE  ArenaInv'
<1>1. /\ SpaceOK /\ OptOutKept /\ call \in [Callers -> CallOK] /\ Calling(c)
      /\ \A d \in Callers : CallTrue(call[d], space, role, live, spent)
  BY DEF ArenaInv, CallsTrue, Calling, RoleSteps
<1>2. call[c].spec \in Specs
  BY <1>1 DEF CallOK
<1>3. SpaceOK' /\ OptOutKept'
  BY <1>1, <1>2 DEF SpaceOK, OptOutKept
<1>4. PICK calls \in {call, Stale("role", c)} : call' = To(calls, c, "bind")
  OBVIOUS
<1>5. /\ Stale("role", c) \in [Callers -> CallOK] /\ Stale("role", c)[c] = call[c]
      /\ \A d \in Callers : d # c => Staled(Stale("role", c)[d], call[d], "role")
  BY <1>1, StaleStales
<1>6. calls \in [Callers -> CallOK] /\ calls[c] = call[c] /\ "bind" \in CallSteps
  BY <1>1, <1>5 DEF CallSteps, RoleSteps
<1>7. /\ call' \in [Callers -> CallOK] /\ Moved(call'[c], call[c], "bind", "none", FALSE)
      /\ \A d \in Callers : d # c => call'[d] = call[d] \/ Staled(call'[d], call[d], "role")
  <2>1. /\ To(calls, c, "bind") \in [Callers -> CallOK]
        /\ Moved(To(calls, c, "bind")[c], calls[c], "bind", "none", FALSE)
        /\ \A d \in Callers : d # c => To(calls, c, "bind")[d] = calls[d]
    BY <1>6, ToMoves
  <2>2. \A d \in Callers : d # c => calls[d] = call[d] \/ Staled(calls[d], call[d], "role")
    BY <1>5
  <2> QED
    BY <1>4, <1>6, <2>1, <2>2
<1>8. ASSUME NEW d \in Callers, d # c
      PROVE  /\ CallTrue(call'[d], space', role', live', spent')
             /\ call'[d].at = call[d].at /\ (call'[d].alone => call[d].alone)
  <2>1. CallTrue(call[d], space, role, live, spent) /\ ~ call[d].alone
    BY <1>1, <1>8, NotAlone
  <2> QED
    BY <1>7, <1>8, <2>1 DEF CallTrue, Staled, Moved
<1>9. CallTrue(call'[c], space', role', live', spent') /\ call'[c].alone = call[c].alone
  BY <1>1, <1>7 DEF CallTrue, Moved, RoleSteps, DestroySteps
<1> QED
  BY <1>1, <1>3, <1>7, <1>8, <1>9, CallerWrites

LEMMA BindSettles ==
  ASSUME ArenaInv, NEW c \in Callers, Bind(c)
  PROVE  ArenaInv'
<1>1. /\ SpaceOK /\ OptOutKept /\ call \in [Callers -> CallOK] /\ Calling(c) /\ call[c].at = "bind"
      /\ \A d \in Callers : CallTrue(call[d], space, role, live, spent)
  BY DEF ArenaInv, CallsTrue, Bind, At, Calling
<1>2. call' = Return(call, c) /\ UNCHANGED <<space, role, live, spent, optedOut, byHand>>
  BY DEF Bind
<1>3. CASE space.phase # "standing"
  BY <1>1, <1>2, <1>3, ReturnKeeps DEF Bind
<1>4. CASE space.phase = "standing"
  <2>1. bound' = TRUE /\ settled' = IF call[c].alone THEN call[c].spec ELSE settled
    BY <1>4 DEF Bind
  <2>2. /\ call' \in [Callers -> CallOK] /\ call'[c] = Idle
        /\ \A d \in Callers : d # c => call'[d] = call[d]
    BY <1>1, <1>2, ReturnMoves
  <2>3. call[c].spec \in Specs
    BY <1>1 DEF CallOK
  <2>4. SpaceOK' /\ OptOutKept'
    BY <1>1, <1>2, <1>4, <2>1, <2>3 DEF SpaceOK, OptOutKept
  <2>5. CallsTrue'
    BY <1>1, <1>2, <2>2, IdleTrue DEF CallsTrue
  <2>6. settled = "none"
    BY <1>1 DEF ArenaInv, AloneTrue, Calling
  <2>7. call[c].alone => role = call[c].spec /\ space.mark # "unset"
    BY <1>1, <1>4 DEF CallTrue, RoleSteps
  <2>8. CreatedWhole'
    BY <1>2, <1>4, <2>1, <2>6, <2>7 DEF CreatedWhole
  <2>9. AloneTrue'
    BY <1>1, <2>1, <2>2, <2>6, IdleTyped DEF ArenaInv, AloneTrue
  <2> QED
    BY <2>4, <2>5, <2>8, <2>9 DEF ArenaInv
<1> QED
  BY <1>3, <1>4

LEMMA RoleStepsKeep ==
  ASSUME ArenaInv, NEW c \in Callers, CreateRole(c) \/ UpdateRole(c)
  PROVE  ArenaInv'
<1>1. CallTrue(call[c], space, role, live, spent)
  BY DEF ArenaInv, CallsTrue
<1>2. CASE CreateRole(c)
  <2>1. call[c].at = "create role" /\ UNCHANGED <<space, bound, live, spent, settled, optedOut, byHand>>
    BY <1>2 DEF CreateRole, At
  <2>2. call[c].at \in RoleSteps /\ Calling(c) /\ (space.phase # "absent" => space.mark # "unset")
    BY <1>1, <2>1 DEF CallTrue, RoleSteps, Calling
  <2>3. CASE space.phase = "standing" /\ role' = call[c].spec /\ call' = To(call, c, "bind")
    BY <2>1, <2>2, <2>3, RoleWritten
  <2>4. CASE role' = role /\ call' = To(call, c, "get role")
    BY <2>1, <2>2, <2>4, ToKeeps DEF CallSteps, RoleSteps, DestroySteps
  <2>5. CASE role' = role /\ call' = Return(call, c)
    BY <2>1, <2>2, <2>5, ReturnKeeps
  <2> QED
    BY <1>2, <2>3, <2>4, <2>5 DEF CreateRole
<1>3. CASE UpdateRole(c)
  <2>1. call[c].at = "update role" /\ UNCHANGED <<space, bound, live, spent, settled, optedOut, byHand>>
    BY <1>3 DEF UpdateRole, At
  <2>2. call[c].at \in RoleSteps /\ Calling(c) /\ (call[c].fresh => space.phase # "absent")
    BY <1>1, <2>1 DEF CallTrue, RoleSteps, Calling
  <2> QED
    BY <1>3, <2>1, <2>2, RoleWritten, ReturnKeeps DEF UpdateRole
<1> QED
  BY <1>2, <1>3

LEMMA DestroyStepsKeep ==
  ASSUME ArenaInv, NEW c \in Callers, CountFaults(c) \/ Unbind(c) \/ DeleteRole(c) \/ DeleteNamespace(c)
  PROVE  ArenaInv'
<1>1. /\ SpaceOK /\ OptOutKept /\ call \in [Callers -> CallOK]
      /\ \A d \in Callers : CallTrue(call[d], space, role, live, spent)
  BY DEF ArenaInv, CallsTrue
<1>2. Calling(c) /\ UNCHANGED <<live, spent, settled, optedOut, byHand>>
  BY DEF CountFaults, Unbind, DeleteRole, DeleteNamespace, At, Calling
<1>3. CASE CountFaults(c)
  <2>1. call[c].seen \subseteq ACounted
    BY <1>1 DEF CallTrue
  <2>2. CASE call' = Return(call, c)
    BY <1>2, <1>3, <2>2, ReturnKeeps DEF CountFaults
  <2>3. CASE call' # Return(call, c)
    <3>1. call' = To(call, c, "unbind") /\ (~ call[c].force => call[c].seen \cap live = {})
      BY <1>3, <2>1, <2>3 DEF CountFaults
    <3> QED
      BY <1>2, <1>3, <3>1, ToKeeps DEF CountFaults, CallSteps, RoleSteps, DestroySteps
  <2> QED
    BY <2>2, <2>3
<1>4. CASE Unbind(c)
  <2>1. /\ call' = To(call, c, "delete role") /\ call[c].at = "unbind" /\ bound' = FALSE
        /\ UNCHANGED <<space, role>>
    BY <1>4 DEF Unbind, At
  <2>2. SpaceOK' /\ OptOutKept'
    BY <1>1, <1>2, <2>1 DEF SpaceOK, OptOutKept
  <2>3. "delete role" \in CallSteps
    BY DEF CallSteps, DestroySteps
  <2>4. /\ call' \in [Callers -> CallOK] /\ Moved(call'[c], call[c], "delete role", "none", FALSE)
        /\ \A d \in Callers : d # c => call'[d] = call[d]
    BY <1>1, <2>1, <2>3, ToMoves
  <2>5. CallTrue(call'[c], space', role', live', spent') /\ call'[c].alone = call[c].alone
    BY <1>1, <1>2, <2>1, <2>4 DEF CallTrue, Moved, RoleSteps, DestroySteps
  <2>6. \A d \in Callers : CallTrue(call'[d], space', role', live', spent')
    BY <1>1, <1>2, <2>1, <2>4, <2>5
  <2> QED
    BY <1>2, <2>2, <2>4, <2>5, <2>6, CallerWrites
<1>5. CASE DeleteRole(c)
  <2>1. /\ call' = To(Gone("role"), c, "delete namespace") /\ call[c].at = "delete role"
        /\ role' = NoRole /\ UNCHANGED <<space, bound>>
    BY <1>5 DEF DeleteRole, At
  <2>2. SpaceOK' /\ OptOutKept'
    BY <1>1, <1>2, <2>1 DEF SpaceOK, OptOutKept
  <2>3. /\ Gone("role") \in [Callers -> CallOK] /\ "delete namespace" \in CallSteps
        /\ \A d \in Callers : Staled(Gone("role")[d], call[d], "role")
    BY <1>1, GoneStales DEF CallSteps, DestroySteps
  <2>4. /\ call' \in [Callers -> CallOK] /\ Moved(call'[c], Gone("role")[c], "delete namespace", "none", FALSE)
        /\ \A d \in Callers : d # c => call'[d] = Gone("role")[d]
    BY <2>1, <2>3, ToMoves
  <2>5. Moved(call'[c], call[c], "delete namespace", "none", FALSE)
    BY <2>3, <2>4 DEF Staled, Moved
  <2>6. CallTrue(call'[c], space', role', live', spent') /\ call'[c].alone = call[c].alone
    BY <1>1, <1>2, <2>1, <2>5 DEF CallTrue, Moved, RoleSteps, DestroySteps
  <2>7. ASSUME NEW d \in Callers, d # c
        PROVE  /\ CallTrue(call'[d], space', role', live', spent')
               /\ call'[d].at = call[d].at /\ (call'[d].alone => call[d].alone)
    <3>1. /\ CallTrue(call[d], space, role, live, spent) /\ ~ call[d].alone
          /\ Staled(call'[d], call[d], "role")
      BY <1>1, <1>2, <2>3, <2>4, <2>7, NotAlone
    <3> QED
      BY <1>2, <2>1, <3>1 DEF CallTrue, Staled, Moved
  <2> QED
    BY <1>2, <2>2, <2>4, <2>6, <2>7, CallerWrites
<1>6. CASE DeleteNamespace(c)
  <2>1. /\ call' = Return(Gone("namespace"), c) /\ UNCHANGED <<role, bound>>
        /\ space' = IF space.phase = "standing" THEN [space EXCEPT !.phase = "terminating"] ELSE space
    BY <1>6 DEF DeleteNamespace
  <2>2. /\ space' \in [phase : {"absent", "standing", "terminating"}, mark : Marks]
        /\ space'.mark = space.mark /\ (space'.phase = "absent" <=> space.phase = "absent")
        /\ space'.phase = "standing" => space.phase = "standing"
    BY <1>1, <2>1 DEF SpaceOK
  <2>3. SpaceOK' /\ OptOutKept'
    BY <1>1, <1>2, <2>1, <2>2 DEF SpaceOK, OptOutKept
  <2>4. /\ Gone("namespace") \in [Callers -> CallOK]
        /\ \A d \in Callers : Staled(Gone("namespace")[d], call[d], "namespace")
    BY <1>1, GoneStales
  <2>5. /\ call' \in [Callers -> CallOK] /\ call'[c] = Idle
        /\ \A d \in Callers : d # c => call'[d] = Gone("namespace")[d]
    BY <2>1, <2>4, ReturnMoves
  <2>6. CallTrue(call'[c], space', role', live', spent') /\ ~ call'[c].alone
    BY <2>5, IdleTrue, IdleTyped
  <2>7. ASSUME NEW d \in Callers, d # c
        PROVE  /\ CallTrue(call'[d], space', role', live', spent')
               /\ call'[d].at = call[d].at /\ (call'[d].alone => call[d].alone)
    <3>1. CallTrue(call[d], space, role, live, spent) /\ Staled(call'[d], call[d], "namespace")
      BY <1>1, <2>4, <2>5, <2>7
    <3> QED
      BY <1>2, <2>1, <2>2, <3>1 DEF CallTrue, Staled, Moved
  <2> QED
    BY <1>2, <2>3, <2>5, <2>6, <2>7, CallerWrites
<1> QED
  BY <1>3, <1>4, <1>5, <1>6

\* A call begins: nothing is settled any more, and nobody else is alone.
LEMMA BeginKeeps ==
  ASSUME ArenaInv, NEW c \in Callers, BeginCreate(c) \/ BeginDestroy(c)
  PROVE  ArenaInv'
<1>1. /\ SpaceOK /\ OptOutKept /\ call \in [Callers -> CallOK] /\ live \subseteq spent /\ spent \subseteq AFaults
      /\ \A d \in Callers : CallTrue(call[d], space, role, live, spent)
  BY DEF ArenaInv, CallsTrue, SpaceOK
<1>2. settled' = "none" /\ UNCHANGED <<space, role, bound, live, spent, optedOut, byHand>>
  BY DEF BeginCreate, BeginDestroy
<1>3. SpaceOK' /\ OptOutKept' /\ CreatedWhole'
  BY <1>1, <1>2 DEF SpaceOK, OptOutKept, CreatedWhole
<1>4. PICK q : /\ call' = [Overlap(c) EXCEPT ![c] = q]
               /\ q \in CallOK /\ q.at \in {"get namespace", "count faults"} /\ q.copy = "none" /\ ~ q.fresh
               /\ q.alone = Alone(c) /\ q.seen \subseteq ACounted \cap spent
  <2>1. CASE BeginCreate(c)
    <3>1. PICK b \in BOOLEAN : call' = [Overlap(c) EXCEPT ![c] =
            [Idle EXCEPT !.at = "get namespace", !.alone = Alone(c), !.spec = rulesFor(b)]]
      BY <2>1 DEF BeginCreate
    <3>2. rulesFor(b) \in Specs /\ Alone(c) \in BOOLEAN /\ "get namespace" \in CallSteps
      BY IdleTyped DEF Alone, CallSteps
    <3> DEFINE q == [Idle EXCEPT !.at = "get namespace", !.alone = Alone(c), !.spec = rulesFor(b)]
    <3>3. /\ q \in CallOK /\ q.at = "get namespace" /\ q.copy = "none" /\ ~ q.fresh
          /\ q.alone = Alone(c) /\ q.seen = {}
      BY <3>2, IdleTyped DEF CallOK
    <3> HIDE DEF q
    <3>4. call' = [Overlap(c) EXCEPT ![c] = q]
      BY <3>1 DEF q
    <3> QED
      BY <3>3, <3>4
  <2>2. CASE BeginDestroy(c)
    <3>1. PICK b \in BOOLEAN : call' = [Overlap(c) EXCEPT ![c] =
            [Idle EXCEPT !.at = "count faults", !.force = b, !.alone = Alone(c), !.seen = live \cap ACounted]]
      BY <2>2 DEF BeginDestroy
    <3>2. live \cap ACounted \in SUBSET AFaults /\ Alone(c) \in BOOLEAN /\ "count faults" \in CallSteps
      BY <1>1 DEF Alone, CallSteps
    <3> DEFINE q == [Idle EXCEPT !.at = "count faults", !.force = b, !.alone = Alone(c), !.seen = live \cap ACounted]
    <3>3. /\ q \in CallOK /\ q.at = "count faults" /\ q.copy = "none" /\ ~ q.fresh
          /\ q.alone = Alone(c) /\ q.seen = live \cap ACounted
      BY <3>2, IdleTyped DEF CallOK
    <3> HIDE DEF q
    <3>4. call' = [Overlap(c) EXCEPT ![c] = q]
      BY <3>1 DEF q
    <3> QED
      BY <1>1, <3>3, <3>4
  <2> QED
    BY <2>1, <2>2
<1>5. /\ Overlap(c) \in [Callers -> CallOK]
      /\ \A d \in Callers : d # c => Overlap(c)[d] = [call[d] EXCEPT !.alone = FALSE]
  BY <1>1 DEF Overlap, CallOK
<1>6. /\ call' \in [Callers -> CallOK] /\ call'[c] = q
      /\ \A d \in Callers : d # c => call'[d] = [call[d] EXCEPT !.alone = FALSE]
  BY <1>4, <1>5
<1>7. CallTrue(q, space, role, live, spent)
  BY <1>4 DEF CallTrue, RoleSteps, DestroySteps
<1>8. ASSUME NEW d \in Callers, d # c
      PROVE  CallTrue(call'[d], space, role, live, spent) /\ ~ call'[d].alone /\ call'[d].at = call[d].at
  <2>1. CallTrue(call[d], space, role, live, spent) /\ call[d] \in CallOK
    BY <1>1
  <2>2. /\ call'[d] \in CallOK /\ ~ call'[d].alone /\ call'[d].at = call[d].at /\ call'[d].copy = call[d].copy
        /\ call'[d].fresh = call[d].fresh /\ call'[d].seen = call[d].seen /\ call'[d].force = call[d].force
    BY <1>6, <1>8, <2>1 DEF CallOK
  <2> QED
    BY <2>1, <2>2 DEF CallTrue
<1>9. CallsTrue'
  BY <1>2, <1>6, <1>7, <1>8 DEF CallsTrue
<1>10. AloneTrue'
  BY <1>2, <1>4, <1>6, <1>8 DEF AloneTrue, Alone, Calling
<1> QED
  BY <1>3, <1>9, <1>10 DEF ArenaInv

(***************************************************************************)
(* Arenas: the rest of the cluster.                                        *)
(***************************************************************************)
\* A step of the cluster leaves every call where it is.
LEMMA ClusterMoves ==
  ASSUME ArenaInv, SpaceOK', OptOutKept', CreatedWhole', settled' \in {settled, "none"},
         call' \in [Callers -> CallOK],
         \A d \in Callers : /\ CallTrue(call'[d], space', role', live', spent')
                            /\ call'[d].at = call[d].at /\ call'[d].alone = call[d].alone
  PROVE  ArenaInv'
<1>1. AloneTrue'
  BY DEF ArenaInv, AloneTrue
<1> QED
  BY <1>1 DEF ArenaInv, CallsTrue

LEMMA FinalizedKeeps ==
  ASSUME ArenaInv, Finalized
  PROVE  ArenaInv'
<1>1. /\ SpaceOK /\ call \in [Callers -> CallOK]
      /\ \A d \in Callers : CallTrue(call[d], space, role, live, spent)
  BY DEF ArenaInv, CallsTrue
<1>2. /\ space'.phase = "absent" /\ space'.mark = "unset" /\ role' = NoRole /\ bound' = FALSE /\ live' = {}
      /\ space' \in [phase : {"absent", "standing", "terminating"}, mark : Marks]
      /\ settled' = "none" /\ optedOut' = FALSE /\ UNCHANGED <<spent, byHand>>
      /\ call' = [d \in Callers |-> [call[d] EXCEPT !.fresh = FALSE]]
  BY DEF Finalized, Marks
<1>3. SpaceOK' /\ OptOutKept' /\ CreatedWhole'
  BY <1>1, <1>2 DEF SpaceOK, OptOutKept, CreatedWhole
<1>4. ASSUME NEW d \in Callers
      PROVE  Moved(call'[d], call[d], call[d].at, call[d].copy, FALSE)
  <2>1. call[d] \in CallOK /\ call'[d] = [call[d] EXCEPT !.fresh = FALSE]
    BY <1>1, <1>2
  <2> QED
    BY <2>1 DEF CallOK, Moved
<1>5. call' \in [Callers -> CallOK]
  BY <1>2, <1>4 DEF Moved
<1>6. ASSUME NEW d \in Callers
      PROVE  /\ CallTrue(call'[d], space', role', live', spent')
             /\ call'[d].at = call[d].at /\ call'[d].alone = call[d].alone
  <2>1. CallTrue(call[d], space, role, live, spent) /\ Moved(call'[d], call[d], call[d].at, call[d].copy, FALSE)
    BY <1>1, <1>4
  <2> QED
    BY <1>2, <2>1 DEF CallTrue, Moved
<1> QED
  BY <1>2, <1>3, <1>5, <1>6, ClusterMoves

LEMMA OperatorKeeps ==
  ASSUME ArenaInv, OperatorMarks \/ OperatorDeletes
  PROVE  ArenaInv'
<1>1. /\ SpaceOK /\ OptOutKept /\ CreatedWhole /\ call \in [Callers -> CallOK]
      /\ \A d \in Callers : CallTrue(call[d], space, role, live, spent)
  BY DEF ArenaInv, CallsTrue
<1>2. /\ call' = Gone("namespace") /\ UNCHANGED <<role, bound, live, spent>>
      /\ byHand' = byHand + 1 /\ byHand < MaxEdits /\ space.phase = "standing"
  BY DEF OperatorMarks, OperatorDeletes
<1>3. \/ /\ space'.phase = "standing" /\ space'.mark # "unset" /\ settled' = settled
         /\ optedOut' \in BOOLEAN /\ (optedOut' => space'.mark = "false")
      \/ space'.phase = "terminating" /\ space'.mark = space.mark /\ settled' = "none" /\ optedOut' = optedOut
  <2>1. CASE OperatorMarks
    BY <1>1, <1>2, <2>1 DEF OperatorMarks, SpaceOK
  <2>2. CASE OperatorDeletes
    BY <1>1, <2>2 DEF OperatorDeletes, SpaceOK
  <2> QED
    BY <2>1, <2>2
<1>4. space' \in [phase : {"absent", "standing", "terminating"}, mark : Marks]
  <2>1. CASE OperatorMarks
    BY <1>1, <2>1 DEF OperatorMarks, SpaceOK, Marks
  <2>2. CASE OperatorDeletes
    BY <1>1, <2>2 DEF OperatorDeletes, SpaceOK
  <2> QED
    BY <2>1, <2>2
<1>5. byHand' \in 0 .. MaxEdits
  BY <1>1, <1>2, ArenaAssumption DEF SpaceOK
<1>6. SpaceOK'
  BY <1>1, <1>2, <1>3, <1>4, <1>5 DEF SpaceOK
<1>7. OptOutKept' /\ CreatedWhole'
  <2>1. OptOutKept'
    BY <1>1, <1>3 DEF OptOutKept
  <2>2. CreatedWhole'
    BY <1>1, <1>2, <1>3 DEF CreatedWhole
  <2> QED
    BY <2>1, <2>2
<1>8. call' \in [Callers -> CallOK] /\ \A d \in Callers : Staled(call'[d], call[d], "namespace")
  BY <1>1, <1>2, GoneStales
<1>9. ASSUME NEW d \in Callers
      PROVE  /\ CallTrue(call'[d], space', role', live', spent')
             /\ call'[d].at = call[d].at /\ call'[d].alone = call[d].alone
  <2>1. CallTrue(call[d], space, role, live, spent) /\ Staled(call'[d], call[d], "namespace")
    BY <1>1, <1>8
  <2> QED
    BY <1>2, <1>3, <2>1 DEF CallTrue, Staled, Moved
<1> QED
  BY <1>3, <1>6, <1>7, <1>8, <1>9, ClusterMoves

LEMMA FaultsKeep ==
  ASSUME ArenaInv, NEW f \in AFaults, FaultApplied(f) \/ FaultCleared(f)
  PROVE  ArenaInv'
<1>1. /\ SpaceOK /\ OptOutKept /\ CreatedWhole /\ call \in [Callers -> CallOK]
      /\ \A d \in Callers : CallTrue(call[d], space, role, live, spent)
  BY DEF ArenaInv, CallsTrue
<1>2. UNCHANGED <<space, role, bound, settled, optedOut, byHand>>
  BY DEF FaultApplied, FaultCleared
<1>3. OptOutKept' /\ CreatedWhole'
  BY <1>1, <1>2 DEF OptOutKept, CreatedWhole
<1>4. CASE FaultApplied(f)
  <2>1. /\ f \notin spent /\ live' = live \cup {f} /\ spent' = spent \cup {f} /\ call' = call
        /\ space.phase = "standing"
    BY <1>4 DEF FaultApplied
  <2>2. SpaceOK'
    BY <1>1, <1>2, <2>1 DEF SpaceOK
  <2>3. ASSUME NEW d \in Callers PROVE CallTrue(call'[d], space', role', live', spent')
    <3>1. CallTrue(call[d], space, role, live, spent)
      BY <1>1
    <3> QED
      BY <1>2, <2>1, <3>1 DEF CallTrue
  <2> QED
    BY <1>1, <1>2, <1>3, <2>1, <2>2, <2>3, ClusterMoves
<1>5. CASE FaultCleared(f)
  <2>1. /\ live' = live \ {f} /\ spent' = spent
        /\ call' = [c \in Callers |-> [call[c] EXCEPT !.seen = @ \ {f}]]
    BY <1>5 DEF FaultCleared
  <2>2. SpaceOK'
    BY <1>1, <1>2, <2>1 DEF SpaceOK
  <2>3. ASSUME NEW d \in Callers
        PROVE  /\ call'[d] \in CallOK /\ CallTrue(call'[d], space', role', live', spent')
               /\ call'[d].at = call[d].at /\ call'[d].alone = call[d].alone
    <3>1. CallTrue(call[d], space, role, live, spent) /\ call[d] \in CallOK
      BY <1>1
    <3>2. /\ call'[d] \in CallOK /\ call'[d].seen = call[d].seen \ {f} /\ call'[d].at = call[d].at
          /\ call'[d].copy = call[d].copy /\ call'[d].fresh = call[d].fresh /\ call'[d].spec = call[d].spec
          /\ call'[d].alone = call[d].alone /\ call'[d].force = call[d].force
      BY <2>1, <3>1 DEF CallOK
    <3> QED
      BY <1>2, <2>1, <3>1, <3>2 DEF CallTrue
  <2> QED
    BY <1>2, <1>3, <2>1, <2>2, <2>3, ClusterMoves
<1> QED
  BY <1>4, <1>5

LEMMA ArenaInvStep == ArenaInv /\ [ArNext]_arvars => ArenaInv'
<1> SUFFICES ASSUME ArenaInv, [ArNext]_arvars PROVE ArenaInv'
  OBVIOUS
<1>1. CASE UNCHANGED arvars
  BY <1>1 DEF ArenaInv, SpaceOK, CallsTrue, AloneTrue, OptOutKept, CreatedWhole, arvars
<1> QED
  BY <1>1, BeginKeeps, CreateSteps, RoleStepsKeep, BindSettles, DestroyStepsKeep, FinalizedKeeps,
     OperatorKeeps, FaultsKeep DEF ArNext

LEMMA ArenaInvGives == ArenaInv => ArenaSound
<1> SUFFICES ASSUME ArenaInv PROVE ArenaSound
  OBVIOUS
<1>1. rulesFor(TRUE) = "chaos and sut" /\ rulesFor(FALSE) = "chaos"
  BY DEF rulesFor
<1>2. \A c \in Callers : call[c].fresh => call[c].copy \in {"namespace", "role"}
  BY DEF ArenaInv, CallsTrue, CallTrue, CallOK, Copies
<1>3. SpaceOK /\ Specs = {rulesFor(TRUE), rulesFor(FALSE)}
  BY <1>1 DEF ArenaInv, Specs
<1>4. ArTypeOK
  BY <1>2, <1>3 DEF SpaceOK, ArTypeOK
<1>5. FaultsHoldArena
  BY DEF ArenaInv, CallsTrue, CallTrue, FaultsHoldArena, DestroySteps
<1> QED
  BY <1>4, <1>5 DEF ArenaInv, ArenaSound

\* However creates, destroys, an operator's edits and the executor's faults interleave
\* on one namespace, and whichever requests fail: an opt-out stands, a Create that ran
\* alone and came back leaves the rights of its own spec, and a fault that was there
\* before an unforced Destroy keeps its arena.
THEOREM ArenaAlwaysSound == ArSpec => []ArenaSound
  BY ArenaInvInit, ArenaInvStep, ArenaInvGives, PTL DEF ArSpec

(***************************************************************************)
(* Baselines: a call.                                                      *)
(***************************************************************************)
RequestOK ==
    [at : {"new", "poll", "wait", "save", "over"}, ns : BSpaces, elapsed : 0 .. ReadyTimeout + PollInterval,
     first : {Unready} \cup Nat, bad : Nat, alone : BOOLEAN]

\* What is true of a call under way: the workloads have been ready since "first" and
\* were last seen otherwise before that, a wait is not past its deadline, and what is
\* captured was stable for the whole window.
RequestTrue(r) ==
    /\ r \in RequestOK
    /\ r.first # Unready => r.bad <= r.first /\ r.first <= r.elapsed
    /\ r.bad <= r.elapsed
    /\ r.at = "wait" => r.elapsed <= ReadyTimeout
    /\ r.at = "save" => r.elapsed - r.bad >= StabilityWindow

RequestsTrue == request \in [BCalls -> RequestOK] /\ \A k \in BCalls : RequestTrue(request[k])

StoresOK ==
    /\ cache \in [BSpaces -> BCalls \cup {NoBaseline}] /\ stored \in [BSpaces -> BCalls \cup {NoBaseline}]
    /\ kept \in [BSpaces -> BCalls \cup {NoBaseline}]
    /\ arenas \subseteq BSpaces /\ unlisted \subseteq BSpaces
    /\ restarts \in 0 .. MaxRestarts

(***************************************************************************)
(* Baselines: the inductive invariant.                                     *)
(***************************************************************************)
\* A captured baseline that waits to be saved: none is kept meanwhile, and of one that
\* nothing overlaps the cache is its own.
CapturedTrue ==
    \A k \in BCalls : request[k].at = "save" =>
        /\ kept[request[k].ns] = NoBaseline
        /\ request[k].alone =>
            /\ cache[request[k].ns] = k
            /\ \A j \in BCalls : j # k /\ request[j].at = "save" => request[j].ns # request[k].ns

\* What is kept is in the ConfigMap of a namespace that stands.
KeptStored == \A ns \in BSpaces : kept[ns] # NoBaseline => ns \in arenas /\ stored[ns] = kept[ns]

BaselineInv == StoresOK /\ RequestsTrue /\ CapturedTrue /\ KeptStored /\ SurvivesRestart

USE BaselineAssumption

LEMMA NewTrue ==
  ASSUME NEW ns \in BSpaces
  PROVE  /\ RequestTrue(NewRequest(ns)) /\ NewRequest(ns) \in RequestOK /\ NewRequest(ns).at = "new"
         /\ NewRequest(ns).elapsed = 0 /\ NewRequest(ns).bad = 0 /\ NewRequest(ns).first = Unready
<1> DEFINE r == NewRequest(ns)
<1>1. 0 \in 0 .. ReadyTimeout + PollInterval /\ 0 \in Nat /\ 0 <= 0
  OBVIOUS
<1>2. r \in RequestOK /\ r.at = "new" /\ r.elapsed = 0 /\ r.first = Unready /\ r.bad = 0
  BY <1>1 DEF RequestOK, NewRequest
<1> HIDE DEF r
<1>3. RequestTrue(r)
  BY <1>1, <1>2 DEF RequestTrue
<1> QED
  BY <1>2, <1>3 DEF r

LEMMA ConcludedTrue ==
  ASSUME NEW r, r.ns \in BSpaces
  PROVE  RequestTrue(Concluded(r)) /\ Concluded(r).at = "over"
<1> DEFINE n == NewRequest(r.ns)
           q == [n EXCEPT !.at = "over"]
<1>1. n \in RequestOK /\ n.elapsed = 0 /\ n.bad = 0 /\ n.first = Unready
  BY NewTrue
<1>2. Concluded(r) = q
  BY DEF Concluded
<1> HIDE DEF n
<1>3. q \in RequestOK /\ q.at = "over" /\ q.elapsed = 0 /\ q.bad = 0 /\ q.first = Unready
  BY <1>1 DEF RequestOK
<1> HIDE DEF q
<1>4. RequestTrue(q)
  BY <1>3 DEF RequestTrue
<1> QED
  BY <1>2, <1>3, <1>4

LEMMA BaselineInvInit == BInit => BaselineInv
<1> SUFFICES ASSUME BInit PROVE BaselineInv
  OBVIOUS
<1>1. ASSUME NEW k \in BCalls PROVE RequestTrue(request[k]) /\ request[k].at = "new"
  <2>1. PICK ns \in BSpaces : request[k] = NewRequest(ns)
    BY DEF BInit
  <2> QED
    BY <2>1, NewTrue
<1>2. request \in [BCalls -> RequestOK]
  BY <1>1 DEF BInit, RequestTrue
<1>3. StoresOK
  BY DEF BInit, StoresOK
<1>4. CapturedTrue
  BY <1>1 DEF CapturedTrue
<1>5. KeptStored /\ SurvivesRestart
  BY DEF BInit, KeptStored, SurvivesRestart
<1> QED
  BY <1>1, <1>2, <1>3, <1>4, <1>5 DEF BaselineInv, RequestsTrue

\* A call goes on, or ends, without touching the cache or the ConfigMap.
LEMMA RequestMoves ==
  ASSUME BaselineInv, NEW k \in BCalls, NEW r, RequestTrue(r), r.at # "save", Update(k, r),
         UNCHANGED <<cache, stored, arenas, unlisted, kept, restarts>>
  PROVE  BaselineInv'
<1>1. request' = [request EXCEPT ![k] = r] /\ r \in RequestOK /\ request \in [BCalls -> RequestOK]
  BY DEF Update, RequestTrue, BaselineInv, RequestsTrue
<1>2. request'[k] = r /\ \A j \in BCalls : j # k => request'[j] = request[j]
  BY <1>1
<1>3. RequestsTrue'
  BY <1>1, <1>2 DEF BaselineInv, RequestsTrue
<1>4. CapturedTrue'
  BY <1>2 DEF BaselineInv, CapturedTrue
<1>5. StoresOK' /\ KeptStored' /\ SurvivesRestart'
  BY DEF BaselineInv, StoresOK, KeptStored, SurvivesRestart
<1> QED
  BY <1>3, <1>4, <1>5 DEF BaselineInv

LEMMA OverKeeps ==
  ASSUME BaselineInv, NEW k \in BCalls, Over(k),
         UNCHANGED <<cache, stored, arenas, unlisted, kept, restarts>>
  PROVE  BaselineInv'
<1>1. request[k].ns \in BSpaces
  BY DEF BaselineInv, RequestsTrue, RequestOK
<1>2. RequestTrue(Concluded(request[k])) /\ Concluded(request[k]).at # "save"
  BY <1>1, ConcludedTrue
<1> QED
  BY <1>2, RequestMoves DEF Over

Captured(q, ready, s, a) ==
    ready /\ q.elapsed - q.first >= StabilityWindow =>
        RequestTrue(s) /\ s.at = "save" /\ s.ns = q.ns /\ s.alone = a

Waits(q, s) == q.elapsed <= ReadyTimeout => RequestTrue(s) /\ s.at = "wait"

\* One poll: what the readiness of the workloads makes of a call.
LEMMA ReadySinceTrue ==
  ASSUME NEW r, RequestTrue(r), r.at = "poll", NEW ready \in BOOLEAN, NEW q, q = ReadySince(r, ready)
  PROVE  /\ q.ns = r.ns /\ q.elapsed = r.elapsed /\ q.ns \in BSpaces /\ q.elapsed \in Nat
         /\ \A a \in BOOLEAN : Captured(q, ready, [q EXCEPT !.at = "save", !.alone = a], a)
         /\ Waits(q, [q EXCEPT !.at = "wait"])
<1>1. r \in RequestOK /\ r.elapsed \in Nat /\ r.bad \in Nat /\ r.first \in {Unready} \cup Nat
  BY DEF RequestTrue, RequestOK
<1> DEFINE first == IF ~ ready THEN Unready ELSE IF r.first = Unready THEN r.elapsed ELSE r.first
           bad == IF ready THEN r.bad ELSE r.elapsed
<1>2. /\ first \in {Unready} \cup Nat /\ bad \in Nat /\ bad <= r.elapsed
      /\ first # Unready => bad <= first /\ first <= r.elapsed
      /\ ready => first # Unready
  BY <1>1 DEF RequestTrue, Unready
<1>3. q = [r EXCEPT !.first = first, !.bad = bad]
  BY DEF ReadySince
<1> HIDE DEF first, bad
<1>4. /\ q \in RequestOK /\ q.at = "poll" /\ q.ns = r.ns /\ q.elapsed = r.elapsed
      /\ q.first = first /\ q.bad = bad
  BY <1>1, <1>2, <1>3 DEF RequestOK
<1>5. ASSUME ready, q.elapsed - q.first >= StabilityWindow, NEW a \in BOOLEAN, NEW s,
             s = [q EXCEPT !.at = "save", !.alone = a]
      PROVE  RequestTrue(s) /\ s.at = "save" /\ s.ns = q.ns /\ s.alone = a
  <2>1. /\ s \in RequestOK /\ s.at = "save" /\ s.ns = q.ns /\ s.elapsed = q.elapsed /\ s.first = q.first
        /\ s.bad = q.bad /\ s.alone = a
    BY <1>4, <1>5 DEF RequestOK
  <2>2. first # Unready
    BY <1>2, <1>5, Zenon
  <2>3. first \in Nat /\ bad <= first /\ first <= r.elapsed
    BY <1>2, <2>2
  <2>4. r.elapsed - bad >= StabilityWindow
    BY <1>1, <1>2, <1>4, <1>5, <2>3
  <2> QED
    BY <1>2, <1>4, <2>1, <2>3, <2>4 DEF RequestTrue
<1>6. ASSUME q.elapsed <= ReadyTimeout, NEW s, s = [q EXCEPT !.at = "wait"]
      PROVE  RequestTrue(s) /\ s.at = "wait"
  <2>1. /\ s \in RequestOK /\ s.at = "wait" /\ s.elapsed = q.elapsed /\ s.first = q.first /\ s.bad = q.bad
    BY <1>4, <1>6 DEF RequestOK
  <2> QED
    BY <1>1, <1>2, <1>4, <1>6, <2>1 DEF RequestTrue
<1>7. q.ns \in BSpaces /\ q.elapsed \in Nat
  BY <1>1, <1>4 DEF RequestOK
<1> QED
  BY <1>4, <1>5, <1>6, <1>7 DEF Captured, Waits

LEMMA BaselineBegins ==
  ASSUME BaselineInv, NEW k \in BCalls, Begin(k)
  PROVE  BaselineInv'
<1>1. CASE Over(k)
  BY <1>1, OverKeeps DEF Begin
<1>2. CASE Update(k, [request[k] EXCEPT !.at = "poll"])
  <2> DEFINE q == request[k]
             r == [q EXCEPT !.at = "poll"]
  <2>1. RequestTrue(q) /\ q.at = "new"
    BY DEF BaselineInv, RequestsTrue, Begin
  <2>2. /\ r \in RequestOK /\ r.at = "poll" /\ r.elapsed = q.elapsed /\ r.first = q.first /\ r.bad = q.bad
    BY <2>1 DEF RequestTrue, RequestOK
  <2>3. Update(k, r) /\ UNCHANGED <<cache, stored, arenas, unlisted, kept, restarts>>
    BY <1>2 DEF Begin
  <2> HIDE DEF q, r
  <2>4. RequestTrue(r)
    BY <2>1, <2>2 DEF RequestTrue
  <2> QED
    BY <2>2, <2>3, <2>4, RequestMoves
<1> QED
  BY <1>1, <1>2 DEF Begin

LEMMA WaitKeeps ==
  ASSUME BaselineInv, NEW k \in BCalls, Wait(k)
  PROVE  BaselineInv'
<1> DEFINE q == request[k]
           r == [q EXCEPT !.at = "poll", !.elapsed = @ + PollInterval]
<1>1. RequestTrue(q) /\ q.at = "wait"
  BY DEF BaselineInv, RequestsTrue, Wait
<1>2. /\ q.elapsed \in Nat /\ q.elapsed <= ReadyTimeout /\ q.elapsed + PollInterval \in 0 .. ReadyTimeout + PollInterval
      /\ q.first \in {Unready} \cup Nat /\ q.bad \in Nat
  BY <1>1 DEF RequestTrue, RequestOK
<1>3. /\ r \in RequestOK /\ r.at = "poll" /\ r.elapsed = q.elapsed + PollInterval /\ r.first = q.first /\ r.bad = q.bad
  BY <1>1, <1>2 DEF RequestTrue, RequestOK
<1>4. Update(k, r) /\ UNCHANGED <<cache, stored, arenas, unlisted, kept, restarts>>
  BY DEF Wait
<1> HIDE DEF q, r
<1>5. RequestTrue(r)
  BY <1>1, <1>2, <1>3 DEF RequestTrue, Unready
<1> QED
  BY <1>3, <1>4, <1>5, RequestMoves

\* A capture: the cache is the call's own, nothing is kept until it is saved, and a
\* call that had captured before is not alone any more.
LEMMA CaptureKeeps ==
  ASSUME BaselineInv, NEW k \in BCalls, NEW s, RequestTrue(s), s.at = "save", s.ns = request[k].ns,
         s.alone => Overlapping(k) = {}, request[k].at = "poll",
         cache' = [cache EXCEPT ![s.ns] = k], kept' = [kept EXCEPT ![s.ns] = NoBaseline],
         unlisted' = unlisted \ {s.ns},
         request' = [j \in BCalls |->
             IF j = k THEN s ELSE [request[j] EXCEPT !.alone = @ /\ j \notin Overlapping(k)]],
         UNCHANGED <<stored, arenas, restarts>>
  PROVE  BaselineInv'
<1>1. /\ s \in RequestOK /\ s.ns \in BSpaces /\ StoresOK
      /\ \A j \in BCalls : RequestTrue(request[j]) /\ request[j] \in RequestOK
  BY DEF RequestTrue, RequestOK, BaselineInv, RequestsTrue
<1>2. request'[k] = s
  OBVIOUS
<1>3. ASSUME NEW j \in BCalls, j # k
      PROVE  /\ request'[j] \in RequestOK /\ RequestTrue(request'[j])
             /\ request'[j].at = request[j].at /\ request'[j].ns = request[j].ns
             /\ request'[j].alone => request[j].alone /\ j \notin Overlapping(k)
  <2> DEFINE q == request[j]
             b == q.alone /\ j \notin Overlapping(k)
             r == [q EXCEPT !.alone = b]
  <2>1. q \in RequestOK /\ RequestTrue(q)
    BY <1>1
  <2>2. request'[j] = r
    BY <1>3
  <2>3. b \in BOOLEAN /\ (b => q.alone /\ j \notin Overlapping(k))
    OBVIOUS
  <2> HIDE DEF b, q
  <2>4. r \in RequestOK /\ r.at = q.at /\ r.ns = q.ns /\ r.elapsed = q.elapsed /\ r.first = q.first
        /\ r.bad = q.bad /\ r.alone = b
    BY <2>1, <2>3 DEF RequestOK
  <2> HIDE DEF r
  <2>5. RequestTrue(r)
    BY <2>1, <2>4 DEF RequestTrue
  <2>6. b => q.alone /\ j \notin Overlapping(k)
    BY <2>3
  <2> QED
    BY <2>2, <2>4, <2>5, <2>6 DEF q
<1>4. RequestsTrue'
  BY <1>1, <1>2, <1>3 DEF RequestsTrue
<1>5. /\ cache'[s.ns] = k /\ kept'[s.ns] = NoBaseline
      /\ \A ns \in BSpaces : ns # s.ns => cache'[ns] = cache[ns] /\ kept'[ns] = kept[ns]
      /\ StoresOK'
  BY <1>1 DEF StoresOK
<1>6. CapturedTrue'
  <2> SUFFICES ASSUME NEW j \in BCalls, request'[j].at = "save"
      PROVE  /\ kept'[request'[j].ns] = NoBaseline
             /\ request'[j].alone =>
                 /\ cache'[request'[j].ns] = j
                 /\ \A l \in BCalls : l # j /\ request'[l].at = "save" => request'[l].ns # request'[j].ns
    BY DEF CapturedTrue
  <2>1. CASE j = k
    BY <1>2, <1>3, <1>5, <2>1, SMTT(30) DEF Overlapping
  <2>2. CASE j # k
    <3>1. /\ request[j].at = "save" /\ request'[j].ns = request[j].ns /\ request[j].ns \in BSpaces
          /\ request'[j].alone => request[j].alone /\ j \notin Overlapping(k)
      BY <1>1, <1>3, <2>2 DEF RequestOK
    <3>2. kept[request[j].ns] = NoBaseline
      BY <3>1 DEF BaselineInv, CapturedTrue
    <3>3. request'[j].alone => request[j].ns # s.ns
      BY <2>2, <3>1 DEF Overlapping
    <3>4. request[j].alone =>
            /\ cache[request[j].ns] = j
            /\ \A l \in BCalls : l # j /\ request[l].at = "save" => request[l].ns # request[j].ns
      BY <3>1 DEF BaselineInv, CapturedTrue
    <3> QED
      BY <1>2, <1>3, <1>5, <2>2, <3>1, <3>2, <3>3, <3>4
  <2> QED
    BY <2>1, <2>2
<1>7. KeptStored' /\ SurvivesRestart'
  BY <1>5 DEF BaselineInv, KeptStored, SurvivesRestart
<1> QED
  BY <1>4, <1>5, <1>6, <1>7 DEF BaselineInv

LEMMA PollKeeps ==
  ASSUME BaselineInv, NEW k \in BCalls, Poll(k)
  PROVE  BaselineInv'
<1>1. request[k].at = "poll" /\ RequestTrue(request[k]) /\ UNCHANGED <<stored, arenas, restarts>>
  BY DEF Poll, BaselineInv, RequestsTrue
<1>2. PICK statuses \in [Refs -> Replicas] :
        LET ready == allReady(statuses)
            r == ReadySince(request[k], ready)
        IN  \/ /\ ready /\ r.elapsed - r.first >= StabilityWindow
               /\ cache' = [cache EXCEPT ![r.ns] = k]
               /\ kept' = [kept EXCEPT ![r.ns] = NoBaseline] /\ unlisted' = unlisted \ {r.ns}
               /\ request' = [j \in BCalls |->
                     IF j = k THEN [r EXCEPT !.at = "save", !.alone = Overlapping(k) = {}]
                     ELSE [request[j] EXCEPT !.alone = @ /\ j \notin Overlapping(k)]]
            \/ /\ Update(k, IF PastDeadline(r) THEN Concluded(r) ELSE [r EXCEPT !.at = "wait"])
               /\ UNCHANGED <<cache, kept, unlisted>>
  BY Zenon DEF Poll
<1> DEFINE ready == allReady(statuses)
           r == ReadySince(request[k], ready)
<1>6. ready \in BOOLEAN
  BY DEF allReady
<1> HIDE DEF ready
<1>3. /\ r.ns = request[k].ns /\ r.elapsed = request[k].elapsed /\ r.ns \in BSpaces /\ r.elapsed \in Nat
      /\ \A a \in BOOLEAN : Captured(r, ready, [r EXCEPT !.at = "save", !.alone = a], a)
      /\ Waits(r, [r EXCEPT !.at = "wait"])
  BY <1>1, <1>6, ReadySinceTrue, ZenonT(30)
<1> HIDE DEF r
<1>7. r.elapsed \in Nat
  BY <1>3
<1>4. CASE /\ ready /\ r.elapsed - r.first >= StabilityWindow
           /\ cache' = [cache EXCEPT ![r.ns] = k]
           /\ kept' = [kept EXCEPT ![r.ns] = NoBaseline] /\ unlisted' = unlisted \ {r.ns}
           /\ request' = [j \in BCalls |->
                 IF j = k THEN [r EXCEPT !.at = "save", !.alone = Overlapping(k) = {}]
                 ELSE [request[j] EXCEPT !.alone = @ /\ j \notin Overlapping(k)]]
  <2> DEFINE a == Overlapping(k) = {}
             s == [r EXCEPT !.at = "save", !.alone = a]
  <2>1. a \in BOOLEAN
    OBVIOUS
  <2>2. RequestTrue(s) /\ s.at = "save" /\ s.ns = request[k].ns /\ s.alone = a
    BY <1>3, <1>4, <2>1 DEF Captured
  <2>3. /\ cache' = [cache EXCEPT ![s.ns] = k] /\ kept' = [kept EXCEPT ![s.ns] = NoBaseline]
        /\ unlisted' = unlisted \ {s.ns}
    BY <1>3, <1>4, <2>2
  <2>4. request' = [j \in BCalls |->
             IF j = k THEN s ELSE [request[j] EXCEPT !.alone = @ /\ j \notin Overlapping(k)]]
    BY <1>4
  <2>5. s.alone => Overlapping(k) = {}
    BY <2>2
  <2> HIDE DEF a, s
  <2> QED
    BY <1>1, <2>2, <2>3, <2>4, <2>5, CaptureKeeps
<1>5. CASE /\ Update(k, IF PastDeadline(r) THEN Concluded(r) ELSE [r EXCEPT !.at = "wait"])
           /\ UNCHANGED <<cache, kept, unlisted>>
  <2>1. CASE PastDeadline(r)
    <3>1. RequestTrue(Concluded(r)) /\ Concluded(r).at # "save" /\ Update(k, Concluded(r))
      BY <1>3, <1>5, <2>1, ConcludedTrue
    <3> QED
      BY <1>1, <1>5, <3>1, RequestMoves
  <2>2. CASE ~ PastDeadline(r)
    <3>1. r.elapsed <= ReadyTimeout
      BY <1>7, <2>2 DEF PastDeadline
    <3>2. RequestTrue([r EXCEPT !.at = "wait"]) /\ [r EXCEPT !.at = "wait"].at # "save"
      <4>1. Waits(r, [r EXCEPT !.at = "wait"])
        BY <1>3
      <4> QED
        BY <3>1, <4>1, Zenon DEF Waits
    <3> QED
      BY <1>1, <1>5, <2>2, <3>2, RequestMoves
  <2> QED
    BY <2>1, <2>2
<1> QED
  BY <1>2, <1>4, <1>5, Zenon DEF ready, r

LEMMA SaveKeeps ==
  ASSUME BaselineInv, NEW k \in BCalls, Save(k)
  PROVE  BaselineInv'
<1> DEFINE ns == request[k].ns
           r == Concluded(request[k])
<1>1. /\ ns \in BSpaces /\ ns \in arenas /\ StoresOK /\ kept[ns] = NoBaseline
      /\ request[k].alone =>
          /\ cache[ns] = k
          /\ \A j \in BCalls : j # k /\ request[j].at = "save" => request[j].ns # ns
  BY DEF BaselineInv, RequestsTrue, RequestOK, CapturedTrue, Save
<1>2. RequestTrue(r) /\ r.at = "over"
  BY <1>1, ConcludedTrue
<1>3. /\ request' = [request EXCEPT ![k] = r] /\ request \in [BCalls -> RequestOK] /\ r \in RequestOK
      /\ stored' = [stored EXCEPT ![ns] = k]
      /\ kept' = [kept EXCEPT ![ns] = IF request[k].alone THEN k ELSE @]
      /\ UNCHANGED <<cache, arenas, unlisted, restarts>>
  BY <1>2 DEF Save, Over, Update, RequestTrue, BaselineInv, RequestsTrue
<1>4. /\ stored'[ns] = k /\ kept'[ns] = (IF request[k].alone THEN k ELSE NoBaseline)
      /\ \A m \in BSpaces : m # ns => stored'[m] = stored[m] /\ kept'[m] = kept[m]
      /\ StoresOK'
  BY <1>1, <1>3 DEF StoresOK
<1>5. request'[k] = r /\ \A j \in BCalls : j # k => request'[j] = request[j]
  BY <1>3
<1> HIDE DEF ns, r
<1>6. RequestsTrue'
  BY <1>2, <1>3, <1>5 DEF BaselineInv, RequestsTrue
<1>7. CapturedTrue'
  <2> SUFFICES ASSUME NEW j \in BCalls, request'[j].at = "save"
      PROVE  /\ kept'[request'[j].ns] = NoBaseline
             /\ request'[j].alone =>
                 /\ cache'[request'[j].ns] = j
                 /\ \A l \in BCalls : l # j /\ request'[l].at = "save" => request'[l].ns # request'[j].ns
    BY DEF CapturedTrue
  <2>1. j # k /\ request'[j] = request[j] /\ request[j].at = "save"
    BY <1>2, <1>5
  <2>2. request[j].ns \in BSpaces
    BY <1>3 DEF RequestOK
  <2>3. kept'[request[j].ns] = NoBaseline
    BY <1>1, <1>4, <2>1, <2>2 DEF BaselineInv, CapturedTrue
  <2> QED
    BY <1>2, <1>3, <1>5, <2>1, <2>3 DEF BaselineInv, CapturedTrue
<1>8. KeptStored' /\ SurvivesRestart'
  BY <1>1, <1>3, <1>4 DEF BaselineInv, KeptStored, SurvivesRestart
<1> QED
  BY <1>4, <1>6, <1>7, <1>8 DEF BaselineInv

\* A restart drops every call that is under way and reads the ConfigMaps again.
LEMMA RestartKeeps == BaselineInv /\ Restart => BaselineInv'
<1> SUFFICES ASSUME BaselineInv, Restart PROVE BaselineInv'
  OBVIOUS
<1>1. PICK unreadable \in SUBSET arenas : cache' = List(unreadable) /\ unlisted' = unreadable
  BY DEF Restart
<1>2. StoresOK /\ restarts' \in 0 .. MaxRestarts /\ UNCHANGED <<stored, arenas, kept>>
  BY DEF Restart, BaselineInv, StoresOK
<1>3. \A ns \in BSpaces : cache'[ns] = IF ns \in arenas \ unreadable THEN stored[ns] ELSE NoBaseline
  BY <1>1 DEF List
<1>4. StoresOK'
  BY <1>1, <1>2 DEF StoresOK, List
<1>5. ASSUME NEW k \in BCalls
      PROVE  request'[k] \in RequestOK /\ RequestTrue(request'[k]) /\ request'[k].at # "save"
  <2>1. request'[k] = IF request[k].at = "new" THEN request[k] ELSE Concluded(request[k])
    BY DEF Restart
  <2>2. RequestTrue(request[k]) /\ request[k].ns \in BSpaces
    BY DEF BaselineInv, RequestsTrue, RequestOK
  <2>3. RequestTrue(Concluded(request[k])) /\ Concluded(request[k]).at = "over"
    BY <2>2, ConcludedTrue
  <2>4. RequestTrue(request'[k]) /\ request'[k].at # "save"
    BY <2>1, <2>2, <2>3
  <2> QED
    BY <2>4 DEF RequestTrue
<1>6. RequestsTrue'
  BY <1>5 DEF RequestsTrue, Restart
<1>7. CapturedTrue'
  BY <1>5 DEF CapturedTrue
<1>8. KeptStored' /\ SurvivesRestart'
  BY <1>1, <1>2, <1>3 DEF BaselineInv, KeptStored, SurvivesRestart
<1> QED
  BY <1>4, <1>6, <1>7, <1>8 DEF BaselineInv

LEMMA SpacesKeep ==
  ASSUME BaselineInv, NEW ns \in BSpaces, ArenaGone(ns) \/ ArenaMade(ns)
  PROVE  BaselineInv'
<1>1. StoresOK' /\ RequestsTrue'
  BY DEF BaselineInv, StoresOK, RequestsTrue, ArenaGone, ArenaMade
<1>2. \A m \in BSpaces : kept'[m] = kept[m] \/ (m = ns /\ kept'[m] = NoBaseline)
  BY DEF BaselineInv, StoresOK, ArenaGone, ArenaMade
<1>3. request' = request /\ cache' = cache /\ unlisted' = unlisted
      /\ \A k \in BCalls : request[k].ns \in BSpaces
  BY DEF BaselineInv, RequestsTrue, RequestOK, ArenaGone, ArenaMade
<1>4. CapturedTrue' /\ SurvivesRestart'
  BY <1>2, <1>3 DEF BaselineInv, CapturedTrue, SurvivesRestart
<1>5. KeptStored'
  BY DEF BaselineInv, KeptStored, StoresOK, ArenaGone, ArenaMade
<1> QED
  BY <1>1, <1>4, <1>5 DEF BaselineInv

LEMMA BaselineInvStep == BaselineInv /\ [BNext]_bvars => BaselineInv'
<1> SUFFICES ASSUME BaselineInv, [BNext]_bvars PROVE BaselineInv'
  OBVIOUS
<1>1. CASE UNCHANGED bvars
  BY <1>1 DEF BaselineInv, StoresOK, RequestsTrue, CapturedTrue, KeptStored, SurvivesRestart, bvars
<1>2. ASSUME NEW k \in BCalls, BreakOff(k) \/ SaveFails(k) PROVE BaselineInv'
  BY <1>2, OverKeeps DEF BreakOff, SaveFails
<1> QED
  BY <1>1, <1>2, BaselineBegins, PollKeeps, WaitKeeps, SaveKeeps, RestartKeeps, SpacesKeep DEF BNext

LEMMA BaselineInvGives == BaselineInv => BaselineSound
<1> SUFFICES ASSUME BaselineInv PROVE BaselineSound
  OBVIOUS
<1>1. ASSUME NEW k \in BCalls
      PROVE  /\ request[k].at \in {"new", "poll", "wait", "save", "over"}
             /\ request[k].elapsed \in 0 .. ReadyTimeout + PollInterval
             /\ request[k].first \in {Unready} \cup (0 .. request[k].elapsed)
  <2>1. RequestTrue(request[k])
    BY DEF BaselineInv, RequestsTrue
  <2> QED
    BY <2>1 DEF RequestTrue, RequestOK, Unready
<1>2. BTypeOK
  BY <1>1 DEF BaselineInv, StoresOK, BTypeOK
<1>3. StableThroughout
  BY DEF BaselineInv, RequestsTrue, RequestTrue, StableThroughout
<1> QED
  BY <1>2, <1>3 DEF BaselineInv, BaselineSound

\* For any calls, namespaces, workloads and durations, whatever the polls find,
\* however calls of one namespace overlap and whenever the controller restarts: a
\* captured baseline was ready for a whole stability window, and one that was
\* reported, saved and not overlapped is the one in the cache.
THEOREM BaselineAlwaysSound == BSpec => []BaselineSound
  BY BaselineInvInit, BaselineInvStep, BaselineInvGives, PTL DEF BSpec

(***************************************************************************)
(* The ring of recent faults: types, and the inductive invariant.          *)
(***************************************************************************)
ItemOK == [uid : UID, obj : Nat, cleared : BOOLEAN]

ApplySteps == {"none", "driven", "settling", "recorded", "deleted", "left"}
EndSteps == {"idle", "got", "deleted", "forgotten"}

HistoryOK ==
    /\ items \in Seq(ItemOK) /\ uidOf \in Seq(UID) /\ pushed \in Seq(Nat)
    /\ byUID \in [DOMAIN byUID -> Nat]
    /\ leases \in [UID -> Nat] /\ objects \subseteq Nat
    /\ Len(uidOf) <= MaxApplies
    /\ sent \in [1 .. MaxApplies -> ApplySteps]
    /\ ender \in [Enders -> [at : EndSteps, obj : Nat]]

\* What an Apply under way, a lease and a clear under way say of their object.
AppliesTrue ==
    \A k \in 1 .. MaxApplies :
        /\ sent[k] = "none" <=> k \notin DOMAIN uidOf
        /\ sent[k] = "driven" => k \in objects
        /\ sent[k] = "deleted" => k \notin objects

LeaseTrue == \A u \in UID : leases[u] # 0 => sent[leases[u]] # "driven"

EndersTrue ==
    \A e \in Enders : ender[e].at # "idle" =>
        /\ ender[e].obj \in DOMAIN uidOf /\ sent[ender[e].obj] # "driven"
        /\ ender[e].at # "got" => ender[e].obj \notin objects

\* Only recorded faults have an entry, and each has one.
PushedTrue ==
    /\ \A i \in DOMAIN pushed : pushed[i] \in DOMAIN uidOf /\ sent[pushed[i]] = "recorded"
    /\ \A i, j \in DOMAIN pushed : pushed[i] = pushed[j] => i = j

\* Once(uidOf[k]), said of the objects.
Single(k) == \A j \in DOMAIN uidOf : uidOf[j] = uidOf[k] => j = k

\* An object that is gone is being ended, or its end came before its entry.
Missed(k) == k \in late \/ EndedBy(k, {"deleted", "forgotten"})

EntryTrue(t) ==
    /\ t.cleared => t.obj \notin objects
    /\ t.obj \notin objects => t.cleared \/ Missed(t.obj)

EntriesTold == \A i \in DOMAIN items : Single(items[i].obj) => items[i].uid \in DOMAIN byUID /\ EntryTrue(items[i])

LeasesTold ==
    \A k \in DOMAIN uidOf : Single(k) =>
        /\ k \in objects /\ sent[k] # "driven" => leases[uidOf[k]] = k
        /\ leases[uidOf[k]] = k => k \in objects \/ sent[k] = "deleted" \/ EndedBy(k, {"deleted"})
        /\ sent[k] = "settling" /\ k \notin objects => Missed(k)

RingInv ==
    /\ HistoryOK /\ RTypeOK /\ IndexSound
    /\ AppliesTrue /\ LeaseTrue /\ EndersTrue /\ PushedTrue
    /\ EntriesTold /\ LeasesTold

USE RecentsAssumption

LEMMA RingInvInit == RInit => RingInv
<1> SUFFICES ASSUME RInit PROVE RingInv
  OBVIOUS
<1>1. /\ items = <<>> /\ uidOf = <<>> /\ pushed = <<>> /\ byUID = [u \in {} |-> 0] /\ leases = [u \in UID |-> 0]
      /\ objects = {} /\ sent = [k \in 1 .. MaxApplies |-> "none"] /\ ender = [e \in Enders |-> NoEnd]
  BY DEF RInit
<1>2. /\ DOMAIN items = {} /\ DOMAIN uidOf = {} /\ DOMAIN pushed = {} /\ DOMAIN byUID = {}
      /\ Len(items) = 0 /\ Len(uidOf) = 0 /\ Len(pushed) = 0
  BY <1>1
<1>3. HistoryOK
  BY <1>1, <1>2 DEF HistoryOK, NoEnd, ApplySteps, EndSteps
<1>4. RTypeOK
  BY <1>1, <1>2 DEF RTypeOK
<1>5. IndexSound /\ AppliesTrue /\ LeaseTrue /\ EndersTrue
  BY <1>1, <1>2 DEF IndexSound, AppliesTrue, LeaseTrue, EndersTrue, NoEnd
<1>6. PushedTrue /\ EntriesTold /\ LeasesTold
  BY <1>1, <1>2 DEF PushedTrue, EntriesTold, LeasesTold
<1> QED
  BY <1>3, <1>4, <1>5, <1>6 DEF RingInv

LEMMA Bounds ==
  ASSUME RingInv
  PROVE  /\ Len(items) \in Nat /\ Len(pushed) \in Nat /\ Len(uidOf) \in Nat
         /\ Len(items) <= Len(pushed) /\ Len(items) <= Capacity
         /\ DOMAIN items = 1 .. Len(items) /\ DOMAIN uidOf = 1 .. Len(uidOf) /\ DOMAIN pushed = 1 .. Len(pushed)
         /\ \A i \in 1 .. Len(items) :
              /\ items[i] \in ItemOK /\ Len(pushed) - Len(items) + i \in 1 .. Len(pushed)
              /\ items[i].obj = pushed[Len(pushed) - Len(items) + i]
              /\ items[i].obj \in 1 .. Len(uidOf) /\ items[i].uid = uidOf[items[i].obj]
              /\ sent[items[i].obj] = "recorded"
         /\ \A i, j \in 1 .. Len(items) : items[i].obj = items[j].obj => i = j
         /\ Full => Len(items) = Capacity /\ Len(items) \in Nat \ {0}
<1>1. /\ items \in Seq(ItemOK) /\ uidOf \in Seq(UID) /\ pushed \in Seq(Nat)
      /\ Len(items) = IF Len(pushed) < Capacity THEN Len(pushed) ELSE Capacity
      /\ \A i \in DOMAIN items : items[i].obj = pushed[Len(pushed) - Len(items) + i] /\ items[i].uid = uidOf[items[i].obj]
  BY DEF RingInv, HistoryOK, RTypeOK
<1>2. /\ Len(items) \in Nat /\ Len(uidOf) \in Nat /\ Len(pushed) \in Nat /\ DOMAIN items = 1 .. Len(items)
      /\ DOMAIN uidOf = 1 .. Len(uidOf) /\ DOMAIN pushed = 1 .. Len(pushed)
  BY <1>1
<1>3. Len(items) <= Len(pushed) /\ Len(items) <= Capacity
  BY <1>1, <1>2
<1>4. ASSUME NEW i \in 1 .. Len(items)
      PROVE  /\ items[i] \in ItemOK /\ Len(pushed) - Len(items) + i \in 1 .. Len(pushed)
             /\ items[i].obj = pushed[Len(pushed) - Len(items) + i]
             /\ items[i].obj \in 1 .. Len(uidOf) /\ items[i].uid = uidOf[items[i].obj]
             /\ sent[items[i].obj] = "recorded"
  <2>1. items[i] \in ItemOK
    BY <1>1, <1>2
  <2>2. items[i].obj = pushed[Len(pushed) - Len(items) + i] /\ items[i].uid = uidOf[items[i].obj]
    BY <1>1, <1>2
  <2>3. Len(pushed) - Len(items) + i \in 1 .. Len(pushed)
    BY <1>2, <1>3
  <2> QED
    BY <1>2, <2>1, <2>2, <2>3 DEF RingInv, PushedTrue
<1>5. ASSUME NEW i \in 1 .. Len(items), NEW j \in 1 .. Len(items), items[i].obj = items[j].obj
      PROVE  i = j
  <2>1. Len(pushed) - Len(items) + i = Len(pushed) - Len(items) + j
    BY <1>2, <1>4, <1>5 DEF RingInv, PushedTrue
  <2> QED
    BY <1>2, <2>1
<1>6. ASSUME Full PROVE Len(items) = Capacity
  <2>1. Len(items) >= Capacity /\ Len(items) <= Capacity /\ Len(items) \in Int /\ Capacity \in Int
    BY <1>2, <1>3, <1>6 DEF Full
  <2> QED
    BY <2>1
<1> QED
  BY <1>2, <1>3, <1>4, <1>5, <1>6, Zenon

\* What the ring and its index are once the oldest made room, if it had to: the newest
\* entries but one, every index entry still pointing at its own, and only the evicted
\* UID gone from the index.
Room(ring, index) ==
    /\ ring \in Seq(ItemOK) /\ index \in [DOMAIN index -> Nat] /\ DOMAIN index \subseteq UID
    /\ Len(ring) + 1 = IF Len(pushed) + 1 < Capacity THEN Len(pushed) + 1 ELSE Capacity
    /\ \A i \in DOMAIN ring : /\ ring[i].obj = pushed[Len(pushed) - Len(ring) + i]
                              /\ ring[i].uid = uidOf[ring[i].obj]
                              /\ ring[i].obj \in DOMAIN uidOf /\ sent[ring[i].obj] = "recorded"
    /\ \A u \in DOMAIN index :
        /\ index[u] \in DOMAIN ring /\ ring[index[u]].uid = u
        /\ \A i \in DOMAIN ring : ring[i].uid = u => i <= index[u]
    /\ \A i \in DOMAIN ring : Single(ring[i].obj) => ring[i].uid \in DOMAIN index /\ EntryTrue(ring[i])

LEMMA NoEviction ==
  ASSUME RingInv, ~ Full
  PROVE  Room(items, byUID)
<1>1. /\ items \in Seq(ItemOK) /\ byUID \in [DOMAIN byUID -> Nat] /\ DOMAIN byUID \subseteq UID
      /\ Len(items) = IF Len(pushed) < Capacity THEN Len(pushed) ELSE Capacity
  BY DEF RingInv, HistoryOK, RTypeOK
<1>2. Len(items) + 1 = IF Len(pushed) + 1 < Capacity THEN Len(pushed) + 1 ELSE Capacity
  <2>1. Len(items) \in Nat /\ Len(pushed) \in Nat /\ Capacity \in Nat /\ ~ Len(items) >= Capacity
    BY Bounds DEF Full
  <2> QED
    BY <1>1, <2>1
<1>3. \A i \in DOMAIN items : Single(items[i].obj) => items[i].uid \in DOMAIN byUID /\ EntryTrue(items[i])
  BY DEF RingInv, EntriesTold
<1>4. \A u \in DOMAIN byUID :
        /\ byUID[u] \in DOMAIN items /\ items[byUID[u]].uid = u
        /\ \A i \in DOMAIN items : items[i].uid = u => i <= byUID[u]
  BY SMTT(30) DEF RingInv, IndexSound
<1>5. \A i \in DOMAIN items : /\ items[i].obj = pushed[Len(pushed) - Len(items) + i]
                              /\ items[i].uid = uidOf[items[i].obj]
                              /\ items[i].obj \in DOMAIN uidOf /\ sent[items[i].obj] = "recorded"
  BY Bounds
<1> QED
  BY <1>1, <1>2, <1>3, <1>4, <1>5 DEF Room

LEMMA Eviction ==
  ASSUME RingInv, Full
  PROVE  Room(Tail(items), Shifted(Without(byUID, items[1].uid)))
<1> DEFINE ring == Tail(items)
           index == Shifted(Without(byUID, items[1].uid))
<1>1. /\ items \in Seq(ItemOK) /\ byUID \in [DOMAIN byUID -> Nat] /\ DOMAIN byUID \subseteq UID
      /\ Len(items) = IF Len(pushed) < Capacity THEN Len(pushed) ELSE Capacity
  BY DEF RingInv, HistoryOK, RTypeOK
<1>2. /\ Len(items) \in Nat \ {0} /\ items # <<>> /\ Len(items) = Capacity /\ Len(pushed) \in Nat
      /\ Len(pushed) >= Capacity
  BY <1>1, Bounds
<1>3. /\ ring \in Seq(ItemOK) /\ Len(ring) = Len(items) - 1 /\ DOMAIN ring = 1 .. Len(items) - 1
      /\ \A i \in 1 .. Len(items) - 1 : ring[i] = items[i + 1]
  BY <1>1, <1>2
<1>4. Len(ring) + 1 = IF Len(pushed) + 1 < Capacity THEN Len(pushed) + 1 ELSE Capacity
  BY <1>2, <1>3
<1>5. DOMAIN index = DOMAIN byUID \ {items[1].uid} /\ \A u \in DOMAIN index : index[u] = byUID[u] - 1
  BY DEF Shifted, Without
<1>6. ASSUME NEW u \in DOMAIN index
      PROVE  /\ index[u] \in DOMAIN ring /\ index[u] \in Nat /\ ring[index[u]].uid = u
             /\ \A i \in DOMAIN ring : ring[i].uid = u => i <= index[u]
  <2>1. /\ u \in DOMAIN byUID /\ u # items[1].uid /\ index[u] = byUID[u] - 1
    BY <1>5
  <2>2. /\ byUID[u] \in 1 .. Len(items) /\ items[byUID[u]].uid = u
        /\ \A i \in 1 .. Len(items) : items[i].uid = u => i <= byUID[u]
    BY <2>1, Bounds DEF RingInv, IndexSound
  <2>3. byUID[u] # 1
    BY <2>1, <2>2
  <2>4. index[u] \in 1 .. Len(items) - 1 /\ index[u] + 1 = byUID[u]
    BY <1>2, <2>1, <2>2, <2>3
  <2>5. ASSUME NEW i \in 1 .. Len(items) - 1, ring[i].uid = u PROVE i <= index[u]
    BY <1>2, <1>3, <2>1, <2>2, <2>4, <2>5
  <2> HIDE DEF ring, index
  <2> QED
    BY <1>3, <2>2, <2>4, <2>5
<1> HIDE DEF ring, index
<1>7. ASSUME NEW i \in DOMAIN ring
      PROVE  /\ ring[i].obj = pushed[Len(pushed) - Len(ring) + i] /\ ring[i].uid = uidOf[ring[i].obj]
             /\ ring[i].obj \in DOMAIN uidOf /\ sent[ring[i].obj] = "recorded"
             /\ Single(ring[i].obj) => ring[i].uid \in DOMAIN index /\ EntryTrue(ring[i])
  <2>1. i + 1 \in 1 .. Len(items) /\ 1 \in 1 .. Len(items) /\ i + 1 # 1 /\ ring[i] = items[i + 1]
    BY <1>2, <1>3
  <2>2. /\ items[i + 1].obj = pushed[Len(pushed) - Len(items) + (i + 1)]
        /\ items[i + 1].obj \in 1 .. Len(uidOf) /\ items[i + 1].uid = uidOf[items[i + 1].obj]
        /\ sent[items[i + 1].obj] = "recorded"
        /\ items[1].obj \in 1 .. Len(uidOf) /\ items[1].uid = uidOf[items[1].obj]
        /\ items[i + 1].obj # items[1].obj
    BY <2>1, Bounds
  <2>3. Len(pushed) - Len(items) + (i + 1) = Len(pushed) - Len(ring) + i
    BY <1>2, <1>3, <2>1
  <2>4. DOMAIN items = 1 .. Len(items) /\ DOMAIN uidOf = 1 .. Len(uidOf)
    BY Bounds
  <2>5. ASSUME Single(items[i + 1].obj) PROVE items[i + 1].uid \in DOMAIN index /\ EntryTrue(items[i + 1])
    <3>1. items[i + 1].uid \in DOMAIN byUID /\ EntryTrue(items[i + 1])
      BY <2>1, <2>4, <2>5 DEF RingInv, EntriesTold
    <3>2. items[i + 1].uid # items[1].uid
      BY <2>2, <2>4, <2>5 DEF Single
    <3> QED
      BY <1>5, <3>1, <3>2
  <2> QED
    BY <2>1, <2>2, <2>3, <2>4, <2>5
<1>8. index \in [DOMAIN index -> Nat] /\ DOMAIN index \subseteq UID
  <2>1. index = [u \in DOMAIN index |-> index[u]]
    BY DEF index, Shifted
  <2> QED
    BY <1>1, <1>5, <1>6, <2>1
<1>9. Room(ring, index)
  BY <1>3, <1>4, <1>6, <1>7, <1>8 DEF Room
<1> QED
  BY <1>9 DEF ring, index

\* An ender's step takes no object from those being ended but its own.
LEMMA EndersMove ==
  ASSUME NEW e \in Enders, NEW x, ender \in [Enders -> [at : EndSteps, obj : Nat]], ender' = [ender EXCEPT ![e] = x],
         NEW k, NEW S, EndedBy(k, S), ~ (ender[e].obj = k /\ ender[e].at \in S)
  PROVE  EndedBy(k, S)'
<1>1. PICK d \in Enders : ender[d].obj = k /\ ender[d].at \in S
  BY DEF EndedBy
<1>2. ender'[d] = ender[d]
  BY <1>1
<1> QED
  BY <1>1, <1>2 DEF EndedBy

LEMMA EndersStay ==
  ASSUME UNCHANGED <<ender, late>>
  PROVE  /\ \A k : Missed(k)' <=> Missed(k)
         /\ \A k : EndedBy(k, {"deleted"})' <=> EndedBy(k, {"deleted"})
  BY DEF Missed, EndedBy

\* What the entries say survives a step that touches none of them, when every recorded
\* object it deletes is being ended.
LEMMA EntriesStay ==
  ASSUME RingInv, UNCHANGED <<items, byUID, uidOf>>, objects' \subseteq objects,
         \A k : Missed(k) => Missed(k)',
         \A k \in objects : k \notin objects' /\ sent[k] = "recorded" => Missed(k)'
  PROVE  EntriesTold'
<1> SUFFICES ASSUME NEW i \in DOMAIN items, Single(items[i].obj)
    PROVE  items[i].uid \in DOMAIN byUID /\ EntryTrue(items[i])'
  BY DEF EntriesTold, Single
<1>1. items[i].uid \in DOMAIN byUID /\ EntryTrue(items[i])
  BY SMTT(30) DEF RingInv, EntriesTold
<1>2. sent[items[i].obj] = "recorded"
  BY Bounds
<1>3. EntryTrue(items[i])'
  BY <1>1, <1>2 DEF EntryTrue
<1> QED
  BY <1>1, <1>3

\* A new object.
LEMMA DriveKeeps ==
  ASSUME RingInv, NEW u \in UID, Drive(u)
  PROVE  RingInv'
<1> DEFINE n == Len(uidOf)
<1>1. /\ uidOf \in Seq(UID) /\ n \in Nat /\ DOMAIN uidOf = 1 .. n /\ n < MaxApplies /\ n + 1 \in 1 .. MaxApplies
      /\ objects \subseteq 1 .. n /\ sent \in [1 .. MaxApplies -> ApplySteps]
  <2>1. uidOf \in Seq(UID) /\ objects \subseteq DOMAIN uidOf /\ sent \in [1 .. MaxApplies -> ApplySteps] /\ n < MaxApplies
    BY DEF RingInv, HistoryOK, RTypeOK, Drive
  <2>2. n \in Nat /\ DOMAIN uidOf = 1 .. n /\ n + 1 \in 1 .. MaxApplies
    BY <2>1
  <2> QED
    BY <2>1, <2>2
<1>2. /\ uidOf' = Append(uidOf, u) /\ objects' = objects \cup {n + 1} /\ sent' = [sent EXCEPT ![n + 1] = "driven"]
      /\ UNCHANGED <<items, byUID, leases, ender, pushed, late>>
  BY DEF Drive
<1> HIDE DEF n
<1>3. /\ uidOf' \in Seq(UID) /\ Len(uidOf') = n + 1 /\ DOMAIN uidOf' = 1 .. n + 1 /\ uidOf'[n + 1] = u
      /\ \A j \in 1 .. n : uidOf'[j] = uidOf[j]
  BY <1>1, <1>2 DEF n
<1>4. /\ sent' \in [1 .. MaxApplies -> ApplySteps] /\ sent'[n + 1] = "driven"
      /\ \A j \in 1 .. MaxApplies : j # n + 1 => sent'[j] = sent[j]
  BY <1>1, <1>2 DEF ApplySteps
<1>5. HistoryOK'
  BY <1>1, <1>2, <1>3, <1>4 DEF RingInv, HistoryOK
<1>6. \A i \in 1 .. Len(items) : /\ items[i].obj \in 1 .. n /\ items[i].uid = uidOf'[items[i].obj]
                                 /\ items[i].obj = pushed[Len(pushed) - Len(items) + i]
  BY <1>3, Bounds DEF n
<1>7. \A v \in UID : leases[v] # 0 => leases[v] \in 1 .. n /\ uidOf'[leases[v]] = v
  BY <1>1, <1>3 DEF RingInv, RTypeOK
<1>8. RTypeOK'
  <2>1. \A i \in DOMAIN items' : items'[i].obj = pushed'[Len(pushed') - Len(items') + i]
                                  /\ items'[i].uid = uidOf'[items'[i].obj]
    BY <1>2, <1>6, Bounds
  <2>2. objects' \subseteq DOMAIN uidOf' /\ \A v \in UID : leases'[v] # 0 => leases'[v] \in DOMAIN uidOf' /\ uidOf'[leases'[v]] = v
    BY <1>1, <1>2, <1>3, <1>7
  <2> QED
    BY <1>2, <2>1, <2>2 DEF RingInv, RTypeOK
<1>9. IndexSound'
  BY <1>2 DEF RingInv, IndexSound
<1>10. AppliesTrue'
  BY <1>1, <1>2, <1>3, <1>4 DEF RingInv, AppliesTrue
<1>11. LeaseTrue'
  <2> SUFFICES ASSUME NEW v \in UID, leases[v] # 0 PROVE sent'[leases[v]] # "driven"
    BY <1>2 DEF LeaseTrue
  <2>1. leases[v] \in 1 .. n /\ sent[leases[v]] # "driven"
    BY <1>7 DEF RingInv, LeaseTrue
  <2> QED
    BY <1>1, <1>4, <2>1
<1>12. EndersTrue'
  <2> SUFFICES ASSUME NEW e \in Enders, ender[e].at # "idle"
      PROVE  /\ ender[e].obj \in 1 .. n + 1 /\ sent'[ender[e].obj] # "driven"
             /\ ender[e].at # "got" => ender[e].obj \notin objects'
    BY <1>2, <1>3 DEF EndersTrue
  <2>1. /\ ender[e].obj \in 1 .. n /\ sent[ender[e].obj] # "driven"
        /\ ender[e].at # "got" => ender[e].obj \notin objects
    BY <1>1 DEF RingInv, EndersTrue
  <2>2. ender[e].obj # n + 1 /\ ender[e].obj \in 1 .. n + 1 /\ ender[e].obj \in 1 .. MaxApplies
    BY <1>1, <2>1
  <2> QED
    BY <1>2, <1>4, <2>1, <2>2
<1>13. PushedTrue'
  <2>1. ASSUME NEW i \in DOMAIN pushed PROVE pushed[i] \in 1 .. n + 1 /\ sent'[pushed[i]] = "recorded"
    <3>1. pushed[i] \in 1 .. n /\ sent[pushed[i]] = "recorded"
      BY <1>1 DEF RingInv, PushedTrue
    <3>2. pushed[i] # n + 1 /\ pushed[i] \in 1 .. n + 1 /\ pushed[i] \in 1 .. MaxApplies
      BY <1>1, <3>1
    <3> QED
      BY <1>4, <3>1, <3>2
  <2> QED
    BY <1>2, <1>3, <2>1 DEF RingInv, PushedTrue
<1>14. ASSUME NEW k \in 1 .. n, Single(k)' PROVE Single(k) /\ uidOf[k] # u /\ k # n + 1
  BY <1>1, <1>3, <1>14 DEF Single
<1>15. EntriesTold'
  <2> SUFFICES ASSUME NEW i \in DOMAIN items, Single(items[i].obj)'
      PROVE  items[i].uid \in DOMAIN byUID /\ EntryTrue(items[i])'
    BY <1>2, SMTT(30) DEF EntriesTold
  <2>1. i \in 1 .. Len(items)
    BY Bounds
  <2>2. items[i].obj \in 1 .. n /\ Single(items[i].obj) /\ items[i].obj # n + 1
    <3>1. PICK k \in 1 .. n : k = items[i].obj
      BY <1>6, <2>1
    <3>2. Single(k)'
      BY <1>2, <3>1 DEF Single
    <3> QED
      BY <1>14, <3>1, <3>2
  <2>3. items[i].uid \in DOMAIN byUID /\ EntryTrue(items[i])
    BY <2>2 DEF RingInv, EntriesTold
  <2>4. items[i].obj \in objects' <=> items[i].obj \in objects
    BY <1>2, <2>2
  <2> QED
    BY <1>2, <2>3, <2>4, EndersStay DEF EntryTrue
<1>16. LeasesTold'
  <2> SUFFICES ASSUME NEW k \in 1 .. n + 1, Single(k)'
      PROVE  /\ k \in objects' /\ sent'[k] # "driven" => leases'[uidOf'[k]] = k
             /\ leases'[uidOf'[k]] = k => k \in objects' \/ sent'[k] = "deleted" \/ EndedBy(k, {"deleted"})'
             /\ sent'[k] = "settling" /\ k \notin objects' => Missed(k)'
    BY <1>3 DEF LeasesTold
  <2>1. CASE k = n + 1
    BY <1>2, <1>4, <2>1
  <2>2. CASE k # n + 1
    <3>1. k \in 1 .. n /\ k \in 1 .. MaxApplies
      BY <1>1, <2>2
    <3>2. Single(k)
      BY <1>14, <3>1
    <3>3. /\ k \in objects /\ sent[k] # "driven" => leases[uidOf[k]] = k
          /\ leases[uidOf[k]] = k => k \in objects \/ sent[k] = "deleted" \/ EndedBy(k, {"deleted"})
          /\ sent[k] = "settling" /\ k \notin objects => Missed(k)
      BY <1>1, <3>1, <3>2 DEF RingInv, LeasesTold
    <3>4. sent'[k] = sent[k] /\ uidOf'[k] = uidOf[k] /\ (k \in objects' <=> k \in objects)
      BY <1>2, <1>3, <1>4, <2>2, <3>1
    <3> QED
      BY <1>2, <3>3, <3>4, EndersStay
  <2> QED
    BY <2>1, <2>2
<1> QED
  BY <1>5, <1>8, <1>9, <1>10, <1>11, <1>12, <1>13, <1>15, <1>16 DEF RingInv

\* An object is one an Apply knows, and its UID is a UID.
LEMMA ObjectsKnown ==
  ASSUME RingInv
  PROVE  /\ leases \in [UID -> Nat] /\ sent \in [1 .. MaxApplies -> ApplySteps] /\ 0 \notin DOMAIN uidOf
         /\ \A k \in DOMAIN uidOf : k \in 1 .. MaxApplies /\ k \in Nat /\ uidOf[k] \in UID
<1>1. /\ uidOf \in Seq(UID) /\ Len(uidOf) <= MaxApplies /\ MaxApplies \in Nat
      /\ leases \in [UID -> Nat] /\ sent \in [1 .. MaxApplies -> ApplySteps]
  BY DEF RingInv, HistoryOK
<1>2. DOMAIN uidOf = 1 .. Len(uidOf) /\ Len(uidOf) \in Nat
  BY <1>1
<1>3. \A k \in DOMAIN uidOf : k \in 1 .. MaxApplies /\ k \in Nat /\ uidOf[k] \in UID
  BY <1>1, <1>2
<1> QED
  BY <1>1, <1>2, <1>3

\* Its lease.
LEMMA RegisterKeeps ==
  ASSUME RingInv, NEW k \in DOMAIN uidOf, Register(k)
  PROVE  RingInv'
<1>1. /\ k \in 1 .. MaxApplies /\ k \in Nat /\ k # 0 /\ uidOf[k] \in UID
      /\ leases \in [UID -> Nat] /\ sent \in [1 .. MaxApplies -> ApplySteps]
  BY ObjectsKnown
<1>2. /\ sent[k] = "driven" /\ sent' = [sent EXCEPT ![k] = "settling"] /\ leases' = [leases EXCEPT ![uidOf[k]] = k]
      /\ UNCHANGED <<items, byUID, objects, uidOf, ender, pushed, late>>
  BY DEF Register
<1>3. /\ sent' \in [1 .. MaxApplies -> ApplySteps] /\ sent'[k] = "settling"
      /\ \A j \in 1 .. MaxApplies : j # k => sent'[j] = sent[j]
  BY <1>1, <1>2 DEF ApplySteps
<1>4. /\ leases' \in [UID -> Nat] /\ leases'[uidOf[k]] = k
      /\ \A v \in UID : v # uidOf[k] => leases'[v] = leases[v]
  BY <1>1, <1>2
<1>5. HistoryOK'
  BY <1>2, <1>3, <1>4 DEF RingInv, HistoryOK
<1>6. RTypeOK' /\ IndexSound'
  <2>1. \A v \in UID : leases'[v] # 0 => leases'[v] \in DOMAIN uidOf /\ uidOf[leases'[v]] = v
    BY <1>4 DEF RingInv, RTypeOK
  <2> QED
    BY <1>2, <2>1 DEF RingInv, RTypeOK, IndexSound
<1>7. k \in objects
  BY <1>1, <1>2 DEF RingInv, AppliesTrue
<1>8. AppliesTrue'
  BY <1>2, <1>3 DEF RingInv, AppliesTrue
<1>9. \A j \in 1 .. MaxApplies : sent'[j] = "driven" => sent[j] = "driven" /\ j # k
  BY <1>3
<1>10. LeaseTrue'
  <2> SUFFICES ASSUME NEW v \in UID, leases'[v] # 0 PROVE sent'[leases'[v]] # "driven"
    BY DEF LeaseTrue
  <2>1. CASE v = uidOf[k]
    BY <1>3, <1>4, <2>1
  <2>2. CASE v # uidOf[k]
    <3>1. leases'[v] = leases[v] /\ leases[v] \in DOMAIN uidOf /\ sent[leases[v]] # "driven"
      BY <1>4, <2>2 DEF RingInv, LeaseTrue, RTypeOK
    <3> QED
      BY <1>9, <3>1, ObjectsKnown
  <2> QED
    BY <2>1, <2>2
<1>11. EndersTrue'
  BY <1>2, <1>9, ObjectsKnown DEF RingInv, EndersTrue
<1>12. PushedTrue'
  <2>1. ASSUME NEW i \in DOMAIN pushed PROVE sent'[pushed[i]] = "recorded"
    <3>1. pushed[i] \in 1 .. MaxApplies /\ sent[pushed[i]] = "recorded"
      BY ObjectsKnown DEF RingInv, PushedTrue
    <3> QED
      BY <1>2, <1>3, <3>1
  <2> QED
    BY <1>2, <2>1 DEF RingInv, PushedTrue
<1>13. EntriesTold'
  BY <1>2, EntriesStay, EndersStay
<1>14. LeasesTold'
  <2> SUFFICES ASSUME NEW j \in DOMAIN uidOf, Single(j)
      PROVE  /\ j \in objects /\ sent'[j] # "driven" => leases'[uidOf[j]] = j
             /\ leases'[uidOf[j]] = j => j \in objects \/ sent'[j] = "deleted" \/ EndedBy(j, {"deleted"})
             /\ sent'[j] = "settling" /\ j \notin objects => Missed(j)
    BY <1>2, EndersStay DEF LeasesTold, Single
  <2>1. CASE j = k
    BY <1>4, <1>7, <2>1
  <2>2. CASE j # k
    <3>1. uidOf[j] \in UID /\ uidOf[j] # uidOf[k] /\ sent'[j] = sent[j]
      BY <1>3, <2>2, ObjectsKnown DEF Single
    <3>2. leases'[uidOf[j]] = leases[uidOf[j]]
      BY <1>4, <3>1
    <3> QED
      BY <3>1, <3>2 DEF RingInv, LeasesTold
  <2> QED
    BY <2>1, <2>2
<1> QED
  BY <1>5, <1>6, <1>8, <1>10, <1>11, <1>12, <1>13, <1>14 DEF RingInv

\* Backing out: the object, unless the delete fails.
LEMMA BackOutKeeps ==
  ASSUME RingInv, NEW k \in DOMAIN uidOf, BackOut(k)
  PROVE  RingInv'
<1>1. k \in 1 .. MaxApplies /\ sent \in [1 .. MaxApplies -> ApplySteps]
  BY ObjectsKnown
<1>2. /\ sent[k] = "settling" /\ UNCHANGED <<items, byUID, leases, uidOf, ender, pushed, late>>
      /\ objects' \subseteq objects
      /\ \/ objects' = objects \ {k} /\ sent' = [sent EXCEPT ![k] = "deleted"]
         \/ objects' = objects /\ sent' = [sent EXCEPT ![k] = "left"]
  BY DEF BackOut
<1>3. /\ sent' \in [1 .. MaxApplies -> ApplySteps] /\ sent'[k] \in {"deleted", "left"}
      /\ sent'[k] = "deleted" => k \notin objects'
      /\ \A j \in 1 .. MaxApplies : j # k => sent'[j] = sent[j] /\ (j \in objects' <=> j \in objects)
      /\ k \notin objects' /\ k \in objects => sent'[k] = "deleted"
  BY <1>1, <1>2 DEF ApplySteps
<1>4. HistoryOK'
  BY <1>2, <1>3 DEF RingInv, HistoryOK
<1>5. RTypeOK' /\ IndexSound'
  BY <1>2 DEF RingInv, RTypeOK, IndexSound
<1>6. AppliesTrue'
  BY <1>1, <1>2, <1>3 DEF RingInv, AppliesTrue
<1>7. \A j \in 1 .. MaxApplies : sent'[j] = "driven" => sent[j] = "driven"
  BY <1>3
<1>8. LeaseTrue'
  <2> SUFFICES ASSUME NEW v \in UID, leases[v] # 0 PROVE sent'[leases[v]] # "driven"
    BY <1>2 DEF LeaseTrue
  <2>1. leases[v] \in DOMAIN uidOf /\ sent[leases[v]] # "driven"
    BY DEF RingInv, LeaseTrue, RTypeOK
  <2> QED
    BY <1>7, <2>1, ObjectsKnown
<1>9. EndersTrue'
  BY <1>2, <1>7, ObjectsKnown DEF RingInv, EndersTrue
<1>10. PushedTrue'
  <2>1. ASSUME NEW i \in DOMAIN pushed PROVE sent'[pushed[i]] = "recorded"
    <3>1. pushed[i] \in 1 .. MaxApplies /\ sent[pushed[i]] = "recorded"
      BY ObjectsKnown DEF RingInv, PushedTrue
    <3> QED
      BY <1>2, <1>3, <3>1
  <2> QED
    BY <1>2, <2>1 DEF RingInv, PushedTrue
<1>11. EntriesTold'
  <2>1. \A j \in objects : j \notin objects' => sent[j] = "settling"
    BY <1>2
  <2>2. \A j \in objects : j \notin objects' /\ sent[j] = "recorded" => Missed(j)'
    BY <2>1
  <2> QED
    BY <1>2, <2>2, EntriesStay, EndersStay
<1>12. LeasesTold'
  <2> SUFFICES ASSUME NEW j \in DOMAIN uidOf, Single(j)
      PROVE  /\ j \in objects' /\ sent'[j] # "driven" => leases[uidOf[j]] = j
             /\ leases[uidOf[j]] = j => j \in objects' \/ sent'[j] = "deleted" \/ EndedBy(j, {"deleted"})
             /\ sent'[j] = "settling" /\ j \notin objects' => Missed(j)
    BY <1>2, EndersStay DEF LeasesTold, Single
  <2>1. /\ j \in objects /\ sent[j] # "driven" => leases[uidOf[j]] = j
        /\ leases[uidOf[j]] = j => j \in objects \/ sent[j] = "deleted" \/ EndedBy(j, {"deleted"})
        /\ sent[j] = "settling" /\ j \notin objects => Missed(j)
    BY DEF RingInv, LeasesTold
  <2>2. CASE j = k
    BY <1>2, <1>3, <2>1, <2>2
  <2>3. CASE j # k
    BY <1>3, <2>1, <2>3, ObjectsKnown
  <2> QED
    BY <2>2, <2>3
<1> QED
  BY <1>4, <1>5, <1>6, <1>8, <1>9, <1>10, <1>11, <1>12 DEF RingInv

\* A lease forgotten, by whoever deleted an object of its UID.
LEMMA LeaseForgotten ==
  ASSUME RingInv, NEW k \in DOMAIN uidOf, k \notin objects, leases' = [leases EXCEPT ![uidOf[k]] = 0]
  PROVE  /\ leases' \in [UID -> Nat]
         /\ \A v \in UID : leases'[v] # 0 => leases'[v] = leases[v]
         /\ \A j \in DOMAIN uidOf : Single(j) /\ j # k => leases'[uidOf[j]] = leases[uidOf[j]]
         /\ leases'[uidOf[k]] = 0
<1>1. leases \in [UID -> Nat] /\ uidOf[k] \in UID
  BY ObjectsKnown
<1>2. leases'[uidOf[k]] = 0 /\ \A v \in UID : v # uidOf[k] => leases'[v] = leases[v]
  BY <1>1
<1>3. \A j \in DOMAIN uidOf : Single(j) /\ j # k => uidOf[j] # uidOf[k] /\ uidOf[j] \in UID
  BY ObjectsKnown DEF Single
<1>4. leases' \in [UID -> Nat]
  BY <1>1
<1>5. \A v \in UID : leases'[v] # 0 => leases'[v] = leases[v]
  BY <1>2
<1>6. \A j \in DOMAIN uidOf : Single(j) /\ j # k => leases'[uidOf[j]] = leases[uidOf[j]]
  BY <1>2, <1>3
<1> QED
  BY <1>2, <1>4, <1>5, <1>6

LEMMA BackOutForgetsKeeps ==
  ASSUME RingInv, NEW k \in DOMAIN uidOf, BackOutForgets(k)
  PROVE  RingInv'
<1>1. k \in 1 .. MaxApplies /\ k # 0 /\ sent \in [1 .. MaxApplies -> ApplySteps] /\ uidOf[k] \in UID
  BY ObjectsKnown
<1>2. /\ sent[k] = "deleted" /\ sent' = [sent EXCEPT ![k] = "left"] /\ leases' = [leases EXCEPT ![uidOf[k]] = 0]
      /\ UNCHANGED <<items, byUID, objects, uidOf, ender, pushed, late>>
  BY DEF BackOutForgets
<1>3. k \notin objects
  BY <1>1, <1>2 DEF RingInv, AppliesTrue
<1>4. /\ leases' \in [UID -> Nat] /\ leases'[uidOf[k]] = 0
      /\ \A v \in UID : leases'[v] # 0 => leases'[v] = leases[v]
      /\ \A j \in DOMAIN uidOf : Single(j) /\ j # k => leases'[uidOf[j]] = leases[uidOf[j]]
  BY <1>2, <1>3, LeaseForgotten
<1>5. /\ sent' \in [1 .. MaxApplies -> ApplySteps] /\ sent'[k] = "left"
      /\ \A j \in 1 .. MaxApplies : j # k => sent'[j] = sent[j]
  BY <1>1, <1>2 DEF ApplySteps
<1>6. HistoryOK'
  BY <1>2, <1>4, <1>5 DEF RingInv, HistoryOK
<1>7. RTypeOK' /\ IndexSound'
  <2>1. \A v \in UID : leases'[v] # 0 => leases'[v] \in DOMAIN uidOf /\ uidOf[leases'[v]] = v
    BY <1>4 DEF RingInv, RTypeOK
  <2> QED
    BY <1>2, <2>1 DEF RingInv, RTypeOK, IndexSound
<1>8. AppliesTrue'
  <2>1. ASSUME NEW j \in 1 .. MaxApplies
        PROVE  /\ sent'[j] = "none" <=> j \notin DOMAIN uidOf
               /\ sent'[j] = "driven" => j \in objects
               /\ sent'[j] = "deleted" => j \notin objects
    BY <1>2, <1>3, <1>5 DEF RingInv, AppliesTrue
  <2> QED
    BY <1>2, <2>1 DEF AppliesTrue
<1>9. \A j \in 1 .. MaxApplies : sent'[j] = "driven" => sent[j] = "driven"
  BY <1>5
<1>10. LeaseTrue'
  <2> SUFFICES ASSUME NEW v \in UID, leases'[v] # 0 PROVE sent'[leases'[v]] # "driven"
    BY DEF LeaseTrue
  <2>1. leases'[v] = leases[v] /\ leases[v] \in DOMAIN uidOf /\ sent[leases[v]] # "driven"
    BY <1>4 DEF RingInv, LeaseTrue, RTypeOK
  <2> QED
    BY <1>9, <2>1, ObjectsKnown
<1>11. EndersTrue'
  BY <1>2, <1>9, ObjectsKnown DEF RingInv, EndersTrue
<1>12. PushedTrue'
  <2>1. ASSUME NEW i \in DOMAIN pushed PROVE sent'[pushed[i]] = "recorded"
    <3>1. pushed[i] \in 1 .. MaxApplies /\ sent[pushed[i]] = "recorded"
      BY ObjectsKnown DEF RingInv, PushedTrue
    <3> QED
      BY <1>2, <1>5, <3>1
  <2> QED
    BY <1>2, <2>1 DEF RingInv, PushedTrue
<1>13. EntriesTold'
  BY <1>2, EntriesStay, EndersStay
<1>14. LeasesTold'
  <2> SUFFICES ASSUME NEW j \in DOMAIN uidOf, Single(j)
      PROVE  /\ j \in objects /\ sent'[j] # "driven" => leases'[uidOf[j]] = j
             /\ leases'[uidOf[j]] = j => j \in objects \/ sent'[j] = "deleted" \/ EndedBy(j, {"deleted"})
             /\ sent'[j] = "settling" /\ j \notin objects => Missed(j)
    BY <1>2, EndersStay DEF LeasesTold, Single
  <2>1. CASE j = k
    BY <1>1, <1>3, <1>4, <1>5, <2>1
  <2>2. CASE j # k
    <3>1. leases'[uidOf[j]] = leases[uidOf[j]] /\ sent'[j] = sent[j]
      BY <1>4, <1>5, <2>2, ObjectsKnown
    <3> QED
      BY <3>1 DEF RingInv, LeasesTold
  <2> QED
    BY <2>1, <2>2
<1> QED
  BY <1>6, <1>7, <1>8, <1>10, <1>11, <1>12, <1>13, <1>14 DEF RingInv

\* A clear reads a lease: what it is about is the object of that lease.
LEMMA GetLeaseKeeps ==
  ASSUME RingInv, NEW e \in Enders, NEW u \in UID, GetLease(e, u)
  PROVE  RingInv'
<1> DEFINE x == [at |-> "got", obj |-> leases[u]]
<1>1. /\ ender[e].at = "idle" /\ leases[u] # 0 /\ ender' = [ender EXCEPT ![e] = x]
      /\ UNCHANGED <<items, byUID, leases, objects, uidOf, sent, pushed, late>>
  BY DEF GetLease
<1>2. /\ leases[u] \in DOMAIN uidOf /\ sent[leases[u]] # "driven" /\ leases[u] \in Nat
      /\ ender \in [Enders -> [at : EndSteps, obj : Nat]]
  BY <1>1 DEF RingInv, HistoryOK, RTypeOK, LeaseTrue
<1>3. x.at = "got" /\ x.obj = leases[u] /\ x \in [at : EndSteps, obj : Nat]
  BY <1>2 DEF EndSteps
<1> HIDE DEF x
<1>4. ender' \in [Enders -> [at : EndSteps, obj : Nat]] /\ ender'[e] = x /\ \A d \in Enders : d # e => ender'[d] = ender[d]
  BY <1>1, <1>2, <1>3
<1>5. HistoryOK'
  BY <1>1, <1>4 DEF RingInv, HistoryOK
<1>6. RTypeOK' /\ IndexSound' /\ AppliesTrue' /\ LeaseTrue' /\ PushedTrue'
  BY <1>1 DEF RingInv, RTypeOK, IndexSound, AppliesTrue, LeaseTrue, PushedTrue
<1>7. EndersTrue'
  <2> SUFFICES ASSUME NEW d \in Enders, ender'[d].at # "idle"
      PROVE  /\ ender'[d].obj \in DOMAIN uidOf /\ sent[ender'[d].obj] # "driven"
             /\ ender'[d].at # "got" => ender'[d].obj \notin objects
    BY <1>1 DEF EndersTrue
  <2>1. CASE d = e
    BY <1>2, <1>3, <1>4, <2>1
  <2>2. CASE d # e
    BY <1>4, <2>2 DEF RingInv, EndersTrue
  <2> QED
    BY <2>1, <2>2
<1>8. \A k : EndedBy(k, {"deleted"}) => EndedBy(k, {"deleted"})'
  BY <1>1, <1>2, EndersMove
<1>9. \A k : Missed(k) => Missed(k)'
  <2>1. \A k : EndedBy(k, {"deleted", "forgotten"}) => EndedBy(k, {"deleted", "forgotten"})'
    BY <1>1, <1>2, EndersMove
  <2> QED
    BY <1>1, <2>1 DEF Missed
<1>10. EntriesTold'
  BY <1>1, <1>9, EntriesStay
<1>11. LeasesTold'
  BY <1>1, <1>8, <1>9 DEF RingInv, LeasesTold, Single
<1> QED
  BY <1>5, <1>6, <1>7, <1>10, <1>11 DEF RingInv

\* It deletes the object, which is thereby being ended, or fails and is over.
LEMMA DeleteObjectKeeps ==
  ASSUME RingInv, NEW e \in Enders, DeleteObject(e)
  PROVE  RingInv'
<1> DEFINE o == ender[e].obj
<1>1. /\ ender[e].at = "got" /\ UNCHANGED <<items, byUID, leases, uidOf, sent, pushed, late>>
      /\ \/ objects' = objects \ {o} /\ ender' = [ender EXCEPT ![e].at = "deleted"]
         \/ objects' = objects /\ ender' = [ender EXCEPT ![e] = NoEnd]
  BY DEF DeleteObject
<1>2. /\ ender \in [Enders -> [at : EndSteps, obj : Nat]] /\ ender[e] \in [at : EndSteps, obj : Nat]
      /\ o \in DOMAIN uidOf /\ sent[o] # "driven"
  BY <1>1 DEF RingInv, HistoryOK, EndersTrue
<1> HIDE DEF o
<1>3. PICK x \in [at : EndSteps, obj : Nat] :
        /\ ender' = [ender EXCEPT ![e] = x]
        /\ x.at # "idle" => x.obj = o /\ x.at = "deleted" /\ o \notin objects'
        /\ o \notin objects' => objects' = objects \/ x.at # "idle"
  <2>1. CASE objects' = objects \ {o} /\ ender' = [ender EXCEPT ![e].at = "deleted"]
    <3> DEFINE x == [ender[e] EXCEPT !.at = "deleted"]
    <3>1. x \in [at : EndSteps, obj : Nat] /\ x.at = "deleted" /\ x.obj = o
      BY <1>2 DEF EndSteps, o
    <3>2. ender' = [ender EXCEPT ![e] = x]
      BY <1>2, <2>1
    <3> HIDE DEF x
    <3> QED
      BY <2>1, <3>1, <3>2
  <2>2. CASE objects' = objects /\ ender' = [ender EXCEPT ![e] = NoEnd]
    <3>1. NoEnd \in [at : EndSteps, obj : Nat] /\ NoEnd.at = "idle"
      BY DEF NoEnd, EndSteps
    <3> HIDE DEF NoEnd
    <3> QED
      BY <2>2, <3>1
  <2> QED
    BY <1>1, <2>1, <2>2
<1>4. ender' \in [Enders -> [at : EndSteps, obj : Nat]] /\ ender'[e] = x /\ \A d \in Enders : d # e => ender'[d] = ender[d]
  BY <1>2, <1>3
<1>5. objects' \subseteq objects /\ \A k \in objects : k \notin objects' => k = o /\ x.at # "idle"
  BY <1>1, <1>3
<1>6. HistoryOK' /\ RTypeOK' /\ IndexSound' /\ LeaseTrue' /\ PushedTrue'
  BY <1>1, <1>4, <1>5 DEF RingInv, HistoryOK, RTypeOK, IndexSound, LeaseTrue, PushedTrue
<1>7. AppliesTrue'
  BY <1>1, <1>2, <1>5 DEF RingInv, AppliesTrue
<1>8. EndersTrue'
  <2> SUFFICES ASSUME NEW d \in Enders, ender'[d].at # "idle"
      PROVE  /\ ender'[d].obj \in DOMAIN uidOf /\ sent[ender'[d].obj] # "driven"
             /\ ender'[d].at # "got" => ender'[d].obj \notin objects'
    BY <1>1 DEF EndersTrue
  <2>1. CASE d = e
    BY <1>2, <1>3, <1>4, <2>1
  <2>2. CASE d # e
    BY <1>4, <1>5, <2>2 DEF RingInv, EndersTrue
  <2> QED
    BY <2>1, <2>2
<1>9. \A k : EndedBy(k, {"deleted"}) => EndedBy(k, {"deleted"})'
  BY <1>1, <1>2, <1>3, EndersMove
<1>10. \A k : Missed(k) => Missed(k)'
  <2>1. \A k : EndedBy(k, {"deleted", "forgotten"}) => EndedBy(k, {"deleted", "forgotten"})'
    BY <1>1, <1>2, <1>3, EndersMove
  <2> QED
    BY <1>1, <2>1 DEF Missed
<1>11. \A k \in objects : k \notin objects' => EndedBy(k, {"deleted"})' /\ Missed(k)'
  <2> SUFFICES ASSUME NEW k \in objects, k \notin objects' PROVE EndedBy(k, {"deleted"})' /\ Missed(k)'
    OBVIOUS
  <2>1. ender'[e].obj = k /\ ender'[e].at = "deleted"
    BY <1>3, <1>4, <1>5
  <2> QED
    BY <2>1 DEF EndedBy, Missed
<1>12. EntriesTold'
  BY <1>1, <1>5, <1>10, <1>11, EntriesStay
<1>13. LeasesTold'
  <2> SUFFICES ASSUME NEW j \in DOMAIN uidOf, Single(j)
      PROVE  /\ j \in objects' /\ sent[j] # "driven" => leases[uidOf[j]] = j
             /\ leases[uidOf[j]] = j => j \in objects' \/ sent[j] = "deleted" \/ EndedBy(j, {"deleted"})'
             /\ sent[j] = "settling" /\ j \notin objects' => Missed(j)'
    BY <1>1 DEF LeasesTold, Single
  <2>1. /\ j \in objects /\ sent[j] # "driven" => leases[uidOf[j]] = j
        /\ leases[uidOf[j]] = j => j \in objects \/ sent[j] = "deleted" \/ EndedBy(j, {"deleted"})
        /\ sent[j] = "settling" /\ j \notin objects => Missed(j)
    BY DEF RingInv, LeasesTold
  <2> QED
    BY <1>5, <1>9, <1>10, <1>11, <2>1
<1> QED
  BY <1>6, <1>7, <1>8, <1>12, <1>13 DEF RingInv

\* It forgets the lease of the object's UID.
LEMMA ForgetLeaseKeeps ==
  ASSUME RingInv, NEW e \in Enders, ForgetLease(e)
  PROVE  RingInv'
<1> DEFINE o == ender[e].obj
           x == [ender[e] EXCEPT !.at = "forgotten"]
<1>1. /\ ender[e].at = "deleted" /\ leases' = [leases EXCEPT ![uidOf[o]] = 0]
      /\ ender' = [ender EXCEPT ![e].at = "forgotten"]
      /\ UNCHANGED <<items, byUID, objects, uidOf, sent, pushed, late>>
  BY DEF ForgetLease
<1>2. /\ ender \in [Enders -> [at : EndSteps, obj : Nat]] /\ ender[e] \in [at : EndSteps, obj : Nat]
      /\ o \in DOMAIN uidOf /\ o # 0 /\ o \notin objects /\ sent[o] # "driven"
  BY <1>1, ObjectsKnown DEF RingInv, HistoryOK, EndersTrue
<1>3. x \in [at : EndSteps, obj : Nat] /\ x.at = "forgotten" /\ x.obj = o /\ ender' = [ender EXCEPT ![e] = x]
  BY <1>1, <1>2 DEF EndSteps
<1> HIDE DEF o, x
<1>4. ender' \in [Enders -> [at : EndSteps, obj : Nat]] /\ ender'[e] = x /\ \A d \in Enders : d # e => ender'[d] = ender[d]
  BY <1>2, <1>3
<1>5. /\ leases' \in [UID -> Nat] /\ leases'[uidOf[o]] = 0
      /\ \A v \in UID : leases'[v] # 0 => leases'[v] = leases[v]
      /\ \A j \in DOMAIN uidOf : Single(j) /\ j # o => leases'[uidOf[j]] = leases[uidOf[j]]
  BY <1>1, <1>2, LeaseForgotten
<1>6. HistoryOK'
  BY <1>1, <1>4, <1>5 DEF RingInv, HistoryOK
<1>7. RTypeOK' /\ IndexSound'
  <2>1. \A v \in UID : leases'[v] # 0 => leases'[v] \in DOMAIN uidOf /\ uidOf[leases'[v]] = v
    BY <1>5 DEF RingInv, RTypeOK
  <2> QED
    BY <1>1, <2>1 DEF RingInv, RTypeOK, IndexSound
<1>8. AppliesTrue' /\ PushedTrue'
  BY <1>1 DEF RingInv, AppliesTrue, PushedTrue
<1>9. LeaseTrue'
  BY <1>1, <1>5 DEF RingInv, LeaseTrue
<1>10. EndersTrue'
  <2> SUFFICES ASSUME NEW d \in Enders, ender'[d].at # "idle"
      PROVE  /\ ender'[d].obj \in DOMAIN uidOf /\ sent[ender'[d].obj] # "driven"
             /\ ender'[d].at # "got" => ender'[d].obj \notin objects
    BY <1>1 DEF EndersTrue
  <2>1. CASE d = e
    BY <1>2, <1>3, <1>4, <2>1
  <2>2. CASE d # e
    BY <1>4, <2>2 DEF RingInv, EndersTrue
  <2> QED
    BY <2>1, <2>2
<1>11. ender[e].obj = o
  BY DEF o
<1>12. \A k : k # o /\ EndedBy(k, {"deleted"}) => EndedBy(k, {"deleted"})'
  BY <1>2, <1>3, <1>11, EndersMove
<1>13. \A k : Missed(k) => Missed(k)'
  <2>1. ASSUME NEW k, EndedBy(k, {"deleted", "forgotten"}) PROVE EndedBy(k, {"deleted", "forgotten"})'
    <3>1. CASE k = o
      BY <1>3, <1>4, <3>1 DEF EndedBy
    <3>2. CASE k # o
      BY <1>2, <1>3, <1>11, <2>1, <3>2, EndersMove
    <3> QED
      BY <3>1, <3>2
  <2> QED
    BY <1>1, <2>1 DEF Missed
<1>14. EntriesTold'
  BY <1>1, <1>13, EntriesStay
<1>15. LeasesTold'
  <2> SUFFICES ASSUME NEW j \in DOMAIN uidOf, Single(j)
      PROVE  /\ j \in objects /\ sent[j] # "driven" => leases'[uidOf[j]] = j
             /\ leases'[uidOf[j]] = j => j \in objects \/ sent[j] = "deleted" \/ EndedBy(j, {"deleted"})'
             /\ sent[j] = "settling" /\ j \notin objects => Missed(j)'
    BY <1>1 DEF LeasesTold, Single
  <2>1. /\ j \in objects /\ sent[j] # "driven" => leases[uidOf[j]] = j
        /\ leases[uidOf[j]] = j => j \in objects \/ sent[j] = "deleted" \/ EndedBy(j, {"deleted"})
        /\ sent[j] = "settling" /\ j \notin objects => Missed(j)
    BY DEF RingInv, LeasesTold
  <2>2. CASE j = o
    BY <1>2, <1>5, <1>13, <2>1, <2>2, ObjectsKnown
  <2>3. CASE j # o
    BY <1>5, <1>12, <1>13, <2>1, <2>3
  <2> QED
    BY <2>2, <2>3
<1> QED
  BY <1>6, <1>7, <1>8, <1>9, <1>10, <1>14, <1>15 DEF RingInv

\* It marks the newest entry of the UID, or finds none.
LEMMA MarkClearedKeeps ==
  ASSUME RingInv, NEW e \in Enders, MarkCleared(e)
  PROVE  RingInv'
<1>a. PICK o : o = ender[e].obj
  OBVIOUS
<1>b. PICK u : u = uidOf[o]
  OBVIOUS
<1>1. /\ ender[e].at = "forgotten" /\ ender' = [ender EXCEPT ![e] = NoEnd]
      /\ items' = IF u \in DOMAIN byUID THEN [items EXCEPT ![byUID[u]].cleared = TRUE] ELSE items
      /\ late' = IF u \in DOMAIN byUID THEN late ELSE late \cup {o}
      /\ UNCHANGED <<byUID, leases, objects, uidOf, sent, pushed>>
  BY <1>a, <1>b DEF MarkCleared
<1>2. /\ ender \in [Enders -> [at : EndSteps, obj : Nat]] /\ items \in Seq(ItemOK)
      /\ o \in DOMAIN uidOf /\ o \notin objects
  <2>1. ender \in [Enders -> [at : EndSteps, obj : Nat]] /\ items \in Seq(ItemOK)
    BY DEF RingInv, HistoryOK
  <2>2. o \in DOMAIN uidOf /\ o \notin objects
    BY <1>a, <1>1 DEF RingInv, EndersTrue
  <2> QED
    BY <2>1, <2>2
<1>3. NoEnd \in [at : EndSteps, obj : Nat] /\ NoEnd.at = "idle"
  BY SMTT(30) DEF NoEnd, EndSteps
<1>4. DOMAIN items = 1 .. Len(items) /\ Len(items) \in Nat
  BY Bounds
<1> HIDE DEF NoEnd
<1>5. ender' \in [Enders -> [at : EndSteps, obj : Nat]] /\ ender'[e] = NoEnd /\ \A d \in Enders : d # e => ender'[d] = ender[d]
  BY <1>1, <1>2, <1>3
<1>6. u \in DOMAIN byUID => byUID[u] \in 1 .. Len(items) /\ items[byUID[u]].uid = u
  BY <1>4 DEF RingInv, IndexSound
<1>7. ASSUME NEW i \in 1 .. Len(items)
      PROVE  /\ items'[i] \in ItemOK /\ items'[i].obj = items[i].obj /\ items'[i].uid = items[i].uid
             /\ ~ (u \in DOMAIN byUID /\ i = byUID[u]) => items'[i] = items[i]
             /\ u \in DOMAIN byUID /\ i = byUID[u] => items'[i].cleared = TRUE
  <2>1. items[i] \in ItemOK
    BY <1>2, <1>4
  <2>2. CASE u \in DOMAIN byUID /\ i = byUID[u]
    <3>1. items'[i] = [items[i] EXCEPT !.cleared = TRUE]
      BY <1>1, <1>2, <1>4, <2>2
    <3> QED
      BY <2>1, <2>2, <3>1 DEF ItemOK
  <2>3. CASE ~ (u \in DOMAIN byUID /\ i = byUID[u])
    <3>1. items'[i] = items[i]
      BY <1>1, <1>2, <1>4, <1>6, <2>3
    <3> QED
      BY <2>1, <2>3, <3>1
  <2> QED
    BY <2>2, <2>3
<1>8. items' \in Seq(ItemOK) /\ Len(items') = Len(items) /\ DOMAIN items' = 1 .. Len(items)
  <2>1. CASE u \in DOMAIN byUID
    <3> DEFINE p == byUID[u]
               t == [items[p] EXCEPT !.cleared = TRUE]
    <3>1. p \in 1 .. Len(items) /\ items' = [items EXCEPT ![p] = t]
      BY <1>1, <1>6, <2>1
    <3>2. t \in ItemOK
      <4>1. items[p] \in ItemOK
        BY <1>2, <1>4, <3>1
      <4> HIDE DEF p
      <4> QED
        BY <4>1 DEF ItemOK
    <3> HIDE DEF p, t
    <3>3. /\ [items EXCEPT ![p] = t] \in Seq(ItemOK)
          /\ Len([items EXCEPT ![p] = t]) = Len(items)
      BY <1>2, <1>4, <3>1, <3>2, ExceptSeq
    <3> QED
      BY <1>4, <3>1, <3>3
  <2>2. CASE u \notin DOMAIN byUID
    BY <1>1, <1>2, <1>4, <2>2
  <2> QED
    BY <2>1, <2>2
<1>9. HistoryOK'
  BY <1>1, <1>5, <1>8 DEF RingInv, HistoryOK
<1>10. RTypeOK'
  <2>1. \A i \in 1 .. Len(items) :
          items'[i].obj = pushed[Len(pushed) - Len(items) + i] /\ items'[i].uid = uidOf[items'[i].obj]
    BY <1>7, Bounds
  <2> QED
    BY <1>1, <1>8, <2>1, SMTT(30) DEF RingInv, RTypeOK
<1>11. IndexSound'
  BY <1>1, <1>4, <1>7, <1>8 DEF RingInv, IndexSound
<1>12. AppliesTrue' /\ LeaseTrue' /\ PushedTrue'
  BY <1>1 DEF RingInv, AppliesTrue, LeaseTrue, PushedTrue
<1>13. EndersTrue'
  <2> SUFFICES ASSUME NEW d \in Enders, ender'[d].at # "idle"
      PROVE  /\ ender'[d].obj \in DOMAIN uidOf /\ sent[ender'[d].obj] # "driven"
             /\ ender'[d].at # "got" => ender'[d].obj \notin objects
    BY <1>1 DEF EndersTrue
  <2>1. d # e
    BY <1>3, <1>5
  <2> QED
    BY <1>5, <2>1 DEF RingInv, EndersTrue
<1>14. ender[e].obj = o
  BY <1>a
<1>15. \A k : EndedBy(k, {"deleted"}) => EndedBy(k, {"deleted"})'
  BY <1>1, <1>2, EndersMove
<1>16. ASSUME NEW k, Missed(k) PROVE Missed(k)' \/ k = o
  <2>1. CASE k \in late
    BY <1>1, <2>1 DEF Missed
  <2>2. CASE EndedBy(k, {"deleted", "forgotten"}) /\ k # o
    <3>1. EndedBy(k, {"deleted", "forgotten"})'
      BY <1>1, <1>2, <1>14, <2>2, EndersMove
    <3> QED
      BY <3>1 DEF Missed
  <2> QED
    BY <1>16, <2>1, <2>2 DEF Missed
<1>17. u \notin DOMAIN byUID => Missed(o)'
  BY <1>1 DEF Missed
\* An entry of an object sent once under the UID is the one the index points at.
<1>18. ASSUME NEW i \in 1 .. Len(items), Single(o), items[i].obj = o
       PROVE  u \in DOMAIN byUID /\ i = byUID[u]
  <2>1. items[i].uid = u /\ items[i].uid \in DOMAIN byUID
    BY <1>4, <1>b, <1>18, Bounds DEF RingInv, EntriesTold
  <2>2. byUID[u] \in 1 .. Len(items) /\ items[byUID[u]].uid = u
    BY <1>6, <2>1
  <2>3. /\ items[byUID[u]].obj \in DOMAIN uidOf /\ uidOf[items[byUID[u]].obj] = u
    BY <2>2, Bounds
  <2>4. items[byUID[u]].obj = o
    BY <1>b, <1>18, <2>3 DEF Single
  <2>5. \A j \in 1 .. Len(items) : items[i].obj = items[j].obj => i = j
    BY Bounds
  <2> QED
    BY <1>18, <2>1, <2>2, <2>4, <2>5
<1>19. EntriesTold'
  <2> SUFFICES ASSUME NEW i \in 1 .. Len(items), Single(items[i].obj)'
      PROVE  (items[i].uid \in DOMAIN byUID /\ EntryTrue(items[i]))'
    BY <1>8 DEF EntriesTold
  <2>1. PICK k : k = items[i].obj
    OBVIOUS
  <2>2. k = items'[i].obj /\ items'[i].uid = items[i].uid
    BY <1>7, <2>1
  <2>3. Single(k)
    BY <1>1, <2>2 DEF Single
  <2>4. /\ items[i].uid \in DOMAIN byUID
        /\ items[i].cleared => k \notin objects
        /\ k \notin objects => items[i].cleared \/ Missed(k)
    BY <1>4, <2>1, <2>3 DEF RingInv, EntriesTold, EntryTrue
  <2>5. items'[i].cleared => k \notin objects
    <3>1. CASE k = o
      BY <1>2, <3>1
    <3>2. CASE k # o
      <4>1. items[i].obj \in DOMAIN uidOf /\ items[i].uid = uidOf[items[i].obj]
        BY Bounds
      <4>2. items[i].uid # u
        BY <1>2, <1>b, <2>1, <2>3, <3>2, <4>1 DEF Single
      <4>3. items'[i].cleared = items[i].cleared
        BY <1>6, <1>7, <4>2
      <4> QED
        BY <2>4, <4>3, Zenon
    <3> QED
      BY <3>1, <3>2
  <2>6. k \notin objects => items'[i].cleared \/ Missed(k)'
    <3>1. CASE k = o
      BY <1>7, <1>18, <2>1, <2>3, <3>1
    <3>2. CASE k # o
      <4>1. items[i].cleared => items'[i].cleared
        BY <1>7
      <4> QED
        BY <1>16, <2>4, <3>2, <4>1
    <3> QED
      BY <3>1, <3>2
  <2>7. items'[i].uid \in DOMAIN byUID' /\ objects' = objects
    BY <1>1, <2>2, <2>4
  <2> QED
    BY <2>2, <2>5, <2>6, <2>7 DEF EntryTrue, Missed, EndedBy
<1>20. LeasesTold'
  <2> SUFFICES ASSUME NEW j \in DOMAIN uidOf, Single(j)
      PROVE  /\ j \in objects /\ sent[j] # "driven" => leases[uidOf[j]] = j
             /\ leases[uidOf[j]] = j => j \in objects \/ sent[j] = "deleted" \/ EndedBy(j, {"deleted"})'
             /\ sent[j] = "settling" /\ j \notin objects => Missed(j)'
    BY <1>1 DEF LeasesTold, Single
  <2>1. /\ j \in objects /\ sent[j] # "driven" => leases[uidOf[j]] = j
        /\ leases[uidOf[j]] = j => j \in objects \/ sent[j] = "deleted" \/ EndedBy(j, {"deleted"})
        /\ sent[j] = "settling" /\ j \notin objects => Missed(j)
    BY DEF RingInv, LeasesTold
  \* The index points at a recorded object, and this is the only one of its UID.
  <2>2. ASSUME j = o, sent[j] = "settling" PROVE u \notin DOMAIN byUID
    <3> SUFFICES ASSUME u \in DOMAIN byUID PROVE FALSE
      OBVIOUS
    <3>1. byUID[u] \in 1 .. Len(items) /\ items[byUID[u]].uid = u
      BY <1>6
    <3>2. /\ items[byUID[u]].obj \in DOMAIN uidOf /\ uidOf[items[byUID[u]].obj] = u
          /\ sent[items[byUID[u]].obj] = "recorded"
      BY <3>1, Bounds
    <3>3. items[byUID[u]].obj = j
      BY <1>b, <2>2, <3>2 DEF Single
    <3> QED
      BY <2>2, <3>2, <3>3
  <2> QED
    BY <1>15, <1>16, <1>17, <2>1, <2>2
<1> QED
  BY <1>9, <1>10, <1>11, <1>12, <1>13, <1>19, <1>20 DEF RingInv

\* Apply records the fault: its entry at the end of what had room.
LEMMA RecordKeeps ==
  ASSUME RingInv, NEW k \in DOMAIN uidOf, Record(k)
  PROVE  RingInv'
<1> DEFINE u == uidOf[k]
           item == [uid |-> u, obj |-> k, cleared |-> FALSE]
           ring == IF Full THEN Tail(items) ELSE items
           index == IF Full THEN Shifted(Without(byUID, items[1].uid)) ELSE byUID
<1>1. Room(ring, index)
  BY NoEviction, Eviction
<1>2. /\ pushed \in Seq(Nat) /\ sent \in [1 .. MaxApplies -> ApplySteps] /\ Len(pushed) \in Nat
      /\ DOMAIN pushed = 1 .. Len(pushed) /\ k \in 1 .. MaxApplies /\ k \in Nat /\ u \in UID
  BY Bounds, ObjectsKnown DEF RingInv, HistoryOK
<1>3. /\ sent[k] = "settling" /\ pushed' = Append(pushed, k) /\ sent' = [sent EXCEPT ![k] = "recorded"]
      /\ items' = Append(ring, item)
      /\ byUID' = [x \in DOMAIN index \cup {u} |-> IF x = u THEN Len(ring) + 1 ELSE index[x]]
      /\ UNCHANGED <<leases, objects, uidOf, ender, late>>
  BY DEF Record, Push
<1>4. item \in ItemOK /\ item.uid = u /\ item.obj = k /\ item.cleared = FALSE
  BY <1>2 DEF ItemOK
<1>5. u = uidOf[k]
  OBVIOUS
<1> HIDE DEF u, item, ring, index
<1>6. /\ pushed' \in Seq(Nat) /\ Len(pushed') = Len(pushed) + 1 /\ DOMAIN pushed' = 1 .. Len(pushed) + 1
      /\ pushed'[Len(pushed) + 1] = k /\ \A j \in 1 .. Len(pushed) : pushed'[j] = pushed[j]
  BY <1>2, <1>3
<1>7. ring \in Seq(ItemOK) /\ Len(ring) \in Nat /\ DOMAIN ring = 1 .. Len(ring)
  BY <1>1 DEF Room
<1>8. /\ items' \in Seq(ItemOK) /\ Len(items') = Len(ring) + 1 /\ DOMAIN items' = 1 .. Len(ring) + 1
      /\ items'[Len(ring) + 1] = item /\ \A i \in 1 .. Len(ring) : items'[i] = ring[i]
  BY <1>3, <1>4, <1>7
<1>9. /\ DOMAIN byUID' = DOMAIN index \cup {u} /\ byUID'[u] = Len(ring) + 1
      /\ \A x \in DOMAIN index : x # u => byUID'[x] = index[x]
  BY <1>3
<1>10. /\ sent' \in [1 .. MaxApplies -> ApplySteps] /\ sent'[k] = "recorded"
       /\ \A j \in 1 .. MaxApplies : j # k => sent'[j] = sent[j]
  BY <1>2, <1>3 DEF ApplySteps
<1>11. HistoryOK'
  <2>1. \A x \in DOMAIN index : index[x] \in Nat
    BY <1>1 DEF Room
  <2>2. \A x \in DOMAIN byUID' : byUID'[x] \in Nat
    BY <1>7, <1>9, <2>1
  <2>3. byUID' \in [DOMAIN byUID' -> Nat]
    BY <1>3, <2>2
  <2> QED
    BY <1>3, <1>6, <1>8, <1>10, <2>3 DEF RingInv, HistoryOK
<1>12. \A i \in 1 .. Len(ring) :
         /\ ring[i].obj = pushed[Len(pushed) - Len(ring) + i] /\ ring[i].uid = uidOf[ring[i].obj]
         /\ ring[i].obj \in DOMAIN uidOf /\ sent[ring[i].obj] = "recorded" /\ ring[i].obj # k
  BY <1>1, <1>3, <1>7 DEF Room
<1>13. /\ Len(ring) + 1 = IF Len(pushed) + 1 < Capacity THEN Len(pushed) + 1 ELSE Capacity
       /\ Len(ring) <= Len(pushed)
  <2>1. Len(ring) + 1 = IF Len(pushed) + 1 < Capacity THEN Len(pushed) + 1 ELSE Capacity
    BY <1>1 DEF Room
  <2> QED
    BY <1>2, <1>7, <2>1
<1>14. ASSUME NEW i \in 1 .. Len(ring) + 1
       PROVE  items'[i].obj = pushed'[Len(pushed) + 1 - (Len(ring) + 1) + i] /\ items'[i].uid = uidOf[items'[i].obj]
  <2>1. CASE i = Len(ring) + 1
    BY <1>2, <1>4, <1>5, <1>6, <1>7, <1>8, <2>1
  <2>2. CASE i # Len(ring) + 1
    <3>1. i \in 1 .. Len(ring) /\ items'[i] = ring[i]
      BY <1>7, <1>8, <2>2
    <3>2. PICK p : p = Len(pushed) - Len(ring) + i
      OBVIOUS
    <3>3. p = Len(pushed) + 1 - (Len(ring) + 1) + i /\ p \in 1 .. Len(pushed)
      BY <1>2, <1>7, <1>13, <3>1, <3>2
    <3> QED
      BY <1>6, <1>12, <3>1, <3>2, <3>3
  <2> QED
    BY <2>1, <2>2
<1>15. RTypeOK'
  <2>1. DOMAIN byUID' \subseteq UID
    BY <1>1, <1>2, <1>9 DEF Room
  <2>2. \A i \in DOMAIN items' : items'[i].obj = pushed'[Len(pushed') - Len(items') + i]
                                  /\ items'[i].uid = uidOf'[items'[i].obj]
    <3>1. Len(pushed') = Len(pushed) + 1 /\ Len(items') = Len(ring) + 1 /\ DOMAIN items' = 1 .. Len(ring) + 1 /\ uidOf' = uidOf
      BY <1>3, <1>6, <1>8
    <3> QED
      BY <1>14, <3>1
  <2>3. Len(items') = IF Len(pushed') < Capacity THEN Len(pushed') ELSE Capacity
    BY <1>6, <1>8, <1>13
  <2> QED
    BY <1>3, <2>1, <2>2, <2>3 DEF RingInv, RTypeOK
<1>16. IndexSound'
  <2> SUFFICES ASSUME NEW x \in DOMAIN byUID'
      PROVE  /\ byUID'[x] \in 1 .. Len(ring) + 1 /\ items'[byUID'[x]].uid = x
             /\ \A i \in 1 .. Len(ring) + 1 : items'[i].uid = x => i <= byUID'[x]
    BY <1>8 DEF IndexSound
  <2>1. CASE x = u
    BY <1>4, <1>7, <1>8, <1>9, <2>1
  <2>2. CASE x # u
    <3>1. /\ x \in DOMAIN index /\ byUID'[x] = index[x] /\ index[x] \in 1 .. Len(ring) /\ ring[index[x]].uid = x
          /\ \A i \in 1 .. Len(ring) : ring[i].uid = x => i <= index[x]
      BY <1>1, <1>7, <1>9, <2>2 DEF Room
    <3>2. ASSUME NEW i \in 1 .. Len(ring) + 1, items'[i].uid = x PROVE i \in 1 .. Len(ring)
      BY <1>4, <1>7, <1>8, <2>2, <3>2
    <3> QED
      BY <1>7, <1>8, <3>1, <3>2
  <2> QED
    BY <2>1, <2>2
<1>17. \A j \in 1 .. MaxApplies : sent'[j] = "driven" => sent[j] = "driven"
  BY <1>10
<1>18. AppliesTrue'
  <2>1. ASSUME NEW j \in 1 .. MaxApplies
        PROVE  /\ sent'[j] = "none" <=> j \notin DOMAIN uidOf
               /\ sent'[j] = "driven" => j \in objects
               /\ sent'[j] = "deleted" => j \notin objects
    BY <1>3, <1>10 DEF RingInv, AppliesTrue
  <2> QED
    BY <1>3, <2>1 DEF AppliesTrue
<1>19. LeaseTrue'
  <2> SUFFICES ASSUME NEW v \in UID, leases[v] # 0 PROVE sent'[leases[v]] # "driven"
    BY <1>3 DEF LeaseTrue
  <2>1. leases[v] \in DOMAIN uidOf /\ sent[leases[v]] # "driven"
    BY DEF RingInv, LeaseTrue, RTypeOK
  <2> QED
    BY <1>17, <2>1, ObjectsKnown
<1>20. EndersTrue'
  BY <1>3, <1>17, ObjectsKnown DEF RingInv, EndersTrue
<1>21. PushedTrue'
  <2>1. \A i \in 1 .. Len(pushed) : pushed[i] \in DOMAIN uidOf /\ sent[pushed[i]] = "recorded" /\ pushed[i] # k
    BY <1>2, <1>3 DEF RingInv, PushedTrue
  <2>2. \A i \in 1 .. Len(pushed) + 1 : i \in 1 .. Len(pushed) \/ i = Len(pushed) + 1
    BY <1>2
  <2>3. ASSUME NEW i \in 1 .. Len(pushed) + 1 PROVE pushed'[i] \in DOMAIN uidOf /\ sent'[pushed'[i]] = "recorded"
    <3>1. CASE i \in 1 .. Len(pushed)
      BY <1>6, <1>10, <2>1, <3>1, ObjectsKnown
    <3>2. CASE i = Len(pushed) + 1
      BY <1>6, <1>10, <3>2
    <3> QED
      BY <2>2, <3>1, <3>2
  <2>4. ASSUME NEW i \in 1 .. Len(pushed) + 1, NEW j \in 1 .. Len(pushed) + 1, pushed'[i] = pushed'[j] PROVE i = j
    <3>1. CASE i \in 1 .. Len(pushed) /\ j \in 1 .. Len(pushed)
      BY <1>2, <1>6, <2>4, <3>1 DEF RingInv, PushedTrue
    <3>2. CASE i = Len(pushed) + 1 \/ j = Len(pushed) + 1
      BY <1>6, <2>1, <2>2, <2>4, <3>2
    <3> QED
      BY <2>2, <3>1, <3>2
  <2> QED
    BY <1>3, <1>6, <2>3, <2>4 DEF PushedTrue
<1>22. EntriesTold'
  <2> SUFFICES ASSUME NEW i \in 1 .. Len(ring) + 1, Single(items[i].obj)'
      PROVE  (items[i].uid \in DOMAIN byUID /\ EntryTrue(items[i]))'
    BY <1>8 DEF EntriesTold
  <2>1. CASE i = Len(ring) + 1
    <3>1. items'[i].obj = k /\ items'[i].uid = u /\ items'[i].cleared = FALSE
      BY <1>4, <1>8, <2>1
    <3>2. Single(k)
      BY <1>3, <3>1 DEF Single
    <3>3. k \notin objects => Missed(k)
      BY <1>3, <3>2 DEF RingInv, LeasesTold
    <3>4. u \in DOMAIN byUID'
      BY <1>9
    <3> QED
      BY <1>3, <3>1, <3>3, <3>4 DEF EntryTrue, Missed, EndedBy
  <2>2. CASE i # Len(ring) + 1
    <3>1. i \in 1 .. Len(ring) /\ items'[i] = ring[i]
      BY <1>7, <1>8, <2>2
    <3>2. Single(ring[i].obj)
      BY <1>3, <3>1 DEF Single
    <3>3. ring[i].uid \in DOMAIN index /\ EntryTrue(ring[i])
      BY <1>1, <1>7, <3>1, <3>2 DEF Room
    <3> QED
      BY <1>3, <1>9, <3>1, <3>3 DEF EntryTrue, Missed, EndedBy
  <2> QED
    BY <2>1, <2>2
<1>23. LeasesTold'
  <2> SUFFICES ASSUME NEW j \in DOMAIN uidOf, Single(j)
      PROVE  /\ j \in objects /\ sent'[j] # "driven" => leases[uidOf[j]] = j
             /\ leases[uidOf[j]] = j => j \in objects \/ sent'[j] = "deleted" \/ EndedBy(j, {"deleted"})
             /\ sent'[j] = "settling" /\ j \notin objects => Missed(j)
    BY <1>3, EndersStay DEF LeasesTold, Single
  <2>1. /\ j \in objects /\ sent[j] # "driven" => leases[uidOf[j]] = j
        /\ leases[uidOf[j]] = j => j \in objects \/ sent[j] = "deleted" \/ EndedBy(j, {"deleted"})
        /\ sent[j] = "settling" /\ j \notin objects => Missed(j)
    BY DEF RingInv, LeasesTold
  <2>2. CASE j = k
    BY <1>3, <1>10, <2>1, <2>2
  <2>3. CASE j # k
    BY <1>10, <2>1, <2>3, ObjectsKnown
  <2> QED
    BY <2>2, <2>3
<1> QED
  BY <1>11, <1>15, <1>16, <1>18, <1>19, <1>20, <1>21, <1>22, <1>23 DEF RingInv

LEMMA RingInvStep == RingInv /\ [RNext]_rvars => RingInv'
<1> SUFFICES ASSUME RingInv, [RNext]_rvars PROVE RingInv'
  OBVIOUS
<1>1. CASE UNCHANGED rvars
  <2>1. UNCHANGED <<items, byUID, leases, objects, uidOf, sent, ender, pushed, late>>
    BY <1>1 DEF rvars
  <2>2. HistoryOK' /\ RTypeOK' /\ IndexSound' /\ AppliesTrue' /\ LeaseTrue' /\ EndersTrue' /\ PushedTrue'
    BY <2>1 DEF RingInv, HistoryOK, RTypeOK, IndexSound, AppliesTrue, LeaseTrue, EndersTrue, PushedTrue
  <2>3. EntriesTold'
    BY <2>1, EntriesStay, EndersStay
  <2>4. LeasesTold'
    BY <2>1, EndersStay DEF RingInv, LeasesTold, Single
  <2> QED
    BY <2>2, <2>3, <2>4 DEF RingInv
<1>2. ASSUME NEW u \in UID, Drive(u) PROVE RingInv'
  BY <1>2, DriveKeeps
<1>3. ASSUME NEW k \in DOMAIN uidOf, Applying(k) PROVE RingInv'
  BY <1>3, RegisterKeeps, RecordKeeps, BackOutKeeps, BackOutForgetsKeeps DEF Applying
<1>4. ASSUME NEW e \in Enders, Ending(e) PROVE RingInv'
  BY <1>4, GetLeaseKeeps, DeleteObjectKeeps, ForgetLeaseKeeps, MarkClearedKeeps DEF Ending
<1> QED
  BY <1>1, <1>2, <1>3, <1>4 DEF RNext

\* A UID was sent once exactly when its object is the only one under it.
LEMMA OnceSingle ==
  ASSUME uidOf \in Seq(UID), NEW k \in DOMAIN uidOf, Once(uidOf[k])
  PROVE  Single(k)
<1> DEFINE S == {j \in DOMAIN uidOf : uidOf[j] = uidOf[k]}
<1>1. DOMAIN uidOf = 1 .. Len(uidOf) /\ Len(uidOf) \in Nat
  OBVIOUS
<1>2. IsFiniteSet(1 .. Len(uidOf))
  BY <1>1, FS_Interval
<1>3. IsFiniteSet(S)
  BY <1>1, <1>2, FS_Subset
<1>4. Cardinality(S) = 1
  BY DEF Once
<1>5. PICK x : S = {x}
  BY <1>3, <1>4, FS_Singleton
<1> QED
  BY <1>5 DEF Single

LEMMA RingInvGives == RingInv => RingSound
<1> SUFFICES ASSUME RingInv PROVE RingSound
  OBVIOUS
<1>1. \A k \in DOMAIN uidOf : Once(uidOf[k]) => Single(k)
  BY OnceSingle DEF RingInv, HistoryOK
<1>2. OnceTold
  <2> SUFFICES ASSUME NEW k \in DOMAIN uidOf, Single(k)
      PROVE  /\ k \in objects /\ sent[k] # "driven" => leases[uidOf[k]] = k
             /\ leases[uidOf[k]] = k => k \in objects \/ sent[k] = "deleted" \/ EndedBy(k, {"deleted"})
             /\ \A i \in DOMAIN items : items[i].obj = k =>
                 /\ uidOf[k] \in DOMAIN byUID
                 /\ items[i].cleared => k \notin objects
                 /\ k \notin objects => items[i].cleared \/ k \in late \/ EndedBy(k, {"deleted", "forgotten"})
    BY <1>1 DEF OnceTold
  <2>1. ASSUME NEW i \in DOMAIN items, items[i].obj = k
        PROVE  /\ uidOf[k] \in DOMAIN byUID
               /\ items[i].cleared => k \notin objects
               /\ k \notin objects => items[i].cleared \/ k \in late \/ EndedBy(k, {"deleted", "forgotten"})
    <3>1. items[i].uid \in DOMAIN byUID /\ EntryTrue(items[i])
      BY <2>1 DEF RingInv, EntriesTold
    <3>2. items[i].uid = uidOf[k]
      BY <2>1 DEF RingInv, RTypeOK
    <3> QED
      BY <2>1, <3>1, <3>2 DEF EntryTrue, Missed
  <2> QED
    BY <2>1 DEF RingInv, LeasesTold
<1> QED
  BY <1>2 DEF RingInv, RingSound

\* For any UIDs, any capacity, any number of faults and of clears under way: the ring
\* holds the newest entries in the order they were pushed, its index survives every
\* eviction, and a fault whose UID was its own is leased while it is live and told
\* cleared only when it is gone; one gone and not told so is being ended, or ended
\* before Apply came to record it.
THEOREM RingAlwaysSound == RSpec => []RingSound
  BY RingInvInit, RingInvStep, RingInvGives, PTL DEF RSpec
=============================================================================
