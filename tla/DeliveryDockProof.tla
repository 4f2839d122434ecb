--------------------------- MODULE DeliveryDockProof ---------------------------
(***************************************************************************)
(* Proofs about DeliveryDock: the safety of the dock protocol, and that no *)
(* robot is sent out with the items of two trucks, although the handler    *)
(* keeps its load from one task to the next.                               *)
(* The threads implement CargoService; and where every truck fits one      *)
(* robot, the locations suffice and are those that are taken out.          *)
(***************************************************************************)
EXTENDS DeliveryDock, DockHandlerProof

-----------------------------------------------------------------------------
(* The steps that make tasks of loads.                                     *)

LEMMA PlanOverloadInv == ASSUME IInv, PlanOverload PROVE IInv'
<1> USE DEF IInv
<1>1. planned' = <<>> /\ planned' \in Seq(Seq(Items)) /\ DOMAIN planned' = {}
  BY DEF PlanOverload
<1>2. GateInv'
  <2>1. GateFrame
    BY DEF PlanOverload, GateFrame, GateInv, GateTypeOK
  <2>2. hpc \in HandlerBusy /\ hpc' \in HandlerBusy /\ UNCHANGED buffMutex
    BY DEF PlanOverload, HandlerGo, HandlerBusy
  <2> QED BY <2>1, <2>2, FrameKeepsGate
<1>3. PoolTypeOK' BY DEF PlanOverload, PoolTypeOK, poolVars
<1>4. PlanTypeOK' BY <1>1 DEF PlanOverload, PlanTypeOK, GateInv, GateTypeOK
<1>5. BufferReady'
  BY DEF PlanOverload, HandlerGo, BufferReady, GateInv, OneTruckAtDock, AtDock, GateTypeOK
<1>6. TasksOfOneTruck'
  BY <1>1 DEF PlanOverload, TasksOfOneTruck, FromOneTruck, poolVars
<1> QED BY <1>2, <1>3, <1>4, <1>5, <1>6

LEMMA CountTaskInv == ASSUME IInv, CountTask PROVE IInv'
<1> USE DEF IInv
<1>1. buff # <<>>
  BY DEF CountTask, HandlerGo, BufferReady
<1>2. /\ load' \in Seq(Items) /\ buff' \in Seq(Items) /\ weight' \in Nat
      /\ Range(load)' \cup Range(buff)' \subseteq Range(load) \cup Range(buff)
  <2>1. TakeItem(load) BY DEF CountTask
  <2> QED BY <1>1, <2>1, TakeItemElements DEF GateInv, GateTypeOK, PlanTypeOK
<1>3. taskcount' \in 0 .. CounterMod - 1
  <2>1. hreg + 1 \in Nat /\ CounterMod \in Nat /\ CounterMod > 0
    BY GateAssumption DEF PlanTypeOK
  <2>2. (hreg + 1) % CounterMod \in 0 .. CounterMod - 1
    BY <2>1
  <2> QED BY <2>2 DEF CountTask
<1>4. GateInv'
  <2>1. GateFrame
    BY <1>2, <1>3 DEF CountTask, GateFrame
  <2>2. hpc \in HandlerBusy /\ hpc' \in HandlerBusy /\ UNCHANGED buffMutex
    BY DEF CountTask, HandlerGo, HandlerBusy
  <2> QED BY <2>1, <2>2, FrameKeepsGate
<1>5. PoolTypeOK' BY DEF CountTask, PoolTypeOK, poolVars
<1>6. PlanTypeOK' BY <1>2 DEF CountTask, PlanTypeOK
<1>7. BufferReady'
  <2>1. dock = 0 /\ \A t \in Trucks : tpc[t] # "moored"
    BY DEF CountTask, HandlerGo, GateInv, OneTruckAtDock, AtDock, GateTypeOK
  <2>2. \A t \in Trucks : tpc'[t] # "moored"
    BY <2>1 DEF CountTask, NotifyOne, TruckGo, GateInv, GateTypeOK
  <2> QED BY <2>1, <2>2 DEF CountTask, HandlerGo, BufferReady
<1>8. TasksOfOneTruck'
  <2>1. FromOneTruck(Range(load)' \cup Range(buff)')
    BY <1>2, FewerOfOneTruck DEF TasksOfOneTruck
  <2> QED BY <2>1 DEF CountTask, TasksOfOneTruck, FromOneTruck, poolVars
<1> QED BY <1>4, <1>5, <1>6, <1>7, <1>8

LEMMA PlanRestInv ==
    ASSUME IInv, PlanRest PROVE IInv'
<1> USE DEF IInv
<1>1. buff = <<>> /\ buff' = <<>> /\ load' = <<>> /\ Range(<<>>) = {}
  BY DEF PlanRest, Range
<1>2. /\ planned' \in Seq(Seq(Items))
      /\ \A k \in DOMAIN planned' : (k \in DOMAIN planned /\ planned'[k] = planned[k]) \/ planned'[k] = load
  <2>1. CASE load = <<>> BY <2>1 DEF PlanRest, PlanTypeOK
  <2>2. CASE load # <<>>
    <3>1. planned' = Append(planned, load) BY <2>2 DEF PlanRest
    <3>2. planned \in Seq(Seq(Items)) /\ load \in Seq(Items) BY DEF PlanTypeOK
    <3> QED BY <3>1, <3>2, AppendElements
  <2> QED BY <2>1, <2>2
<1>3. taskid' \in 0 .. CounterMod - 1
  <2>1. taskid + 1 \in Nat /\ CounterMod \in Nat /\ CounterMod > 0
    BY GateAssumption DEF PlanTypeOK
  <2>2. (taskid + 1) % CounterMod \in 0 .. CounterMod - 1
    BY <2>1
  <2> QED BY <2>2 DEF PlanRest, PlanTypeOK
<1>4. GateInv'
  <2>1. GateFrame
    BY DEF PlanRest, GateFrame, GateInv, GateTypeOK
  <2>2. hpc \in HandlerBusy /\ hpc' \in HandlerBusy /\ UNCHANGED buffMutex
    BY DEF PlanRest, HandlerGo, HandlerBusy
  <2> QED BY <2>1, <2>2, FrameKeepsGate
<1>5. PoolTypeOK' BY DEF PlanRest, PoolTypeOK, poolVars
<1>6. PlanTypeOK' BY <1>1, <1>2, <1>3 DEF PlanRest, PlanTypeOK
<1>7. BufferReady'
  BY <1>1 DEF PlanRest, HandlerGo, BufferReady
<1>8. TasksOfOneTruck'
  <2>1. FromOneTruck(Range(load)) /\ FromOneTruck({})
    BY FewerOfOneTruck DEF TasksOfOneTruck, FromOneTruck
  <2>2. \A k \in DOMAIN planned' : FromOneTruck(Range(planned'[k]))
    BY <1>2, <2>1 DEF TasksOfOneTruck
  <2>3. Range(load)' \cup Range(buff)' = {}
    BY <1>1 DEF Range
  <2> QED BY <2>1, <2>2, <2>3 DEF PlanRest, TasksOfOneTruck, FromOneTruck, poolVars
<1> QED BY <1>4, <1>5, <1>6, <1>7, <1>8

LEMMA AstrayStepInv == ASSUME IInv, PlanHang \/ PlanUndefined PROVE IInv'
  BY AstrayInv DEF PlanHang, PlanUndefined, HandlerGo

-----------------------------------------------------------------------------
(* The robots at the truck.                                                *)

LEMMA RobotExchangeInv == ASSUME IInv, NEW r \in Robots, RobotExchange(r) PROVE IInv'
<1> USE DEF IInv
<1>1. GateInv' BY StutterKeepsGate DEF RobotExchange
<1>2. PoolTypeOK' BY DEF RobotExchange, RobotGo, PoolTypeOK, RobotPC
<1>3. PlanTypeOK' BY DEF RobotExchange, PlanTypeOK, planVars
<1>4. BufferReady' BY DEF RobotExchange, BufferReady, planVars, gateVars
<1>5. TasksOfOneTruck'
  <2>1. FromOneTruck(Range(<<>>)) BY DEF FromOneTruck, Range
  <2>2. \A q \in Robots : FromOneTruck(Range(job'[q]))
    BY <2>1 DEF RobotExchange, TasksOfOneTruck, PoolTypeOK
  <2> QED BY <2>2 DEF RobotExchange, TasksOfOneTruck, FromOneTruck, planVars, gateVars
<1> QED BY <1>1, <1>2, <1>3, <1>4, <1>5

-----------------------------------------------------------------------------
(* The theorems.                                                           *)

LEMMA NextInv == ASSUME IInv, [Next]_vars PROVE IInv'
<1>1. ASSUME NEW t \in Trucks, TruckThread(t) \/ SpuriousThread(t) PROVE IInv'
  BY <1>1, TruckStepInv
<1>2. CASE HandlerStep
  BY <1>2, HandlerGateInv, PlanItemInv, PlanOverloadInv, CountTaskInv, PlanRestInv,
     AstrayStepInv, PushTaskInv, EndIterationInv DEF HandlerStep, HandlerPlan
<1>3. CASE PlanHang
  BY <1>3, AstrayStepInv
<1>4. ASSUME NEW r \in Robots, RobotStep(r) PROVE IInv'
  BY <1>4, RobotSharedInv, RobotExchangeInv DEF RobotStep
<1>5. CASE MenuStep
  BY <1>5, MenuInv
<1>6. CASE UNCHANGED vars
  BY <1>6, StutterInv DEF vars
<1>7. CASE \E t \in Trucks : TruckThread(t) \/ SpuriousThread(t)
  BY <1>1, <1>7
<1>8. CASE \E r \in Robots : RobotStep(r)
  BY <1>4, <1>8
<1> QED BY <1>2, <1>3, <1>5, <1>6, <1>7, <1>8 DEF Next

\* The invariant holds in every reachable state.
THEOREM Invariance == Spec => []IInv
<1>1. Init => IInv BY HandlerInitInv DEF Init
<1>2. IInv /\ [Next]_vars => IInv' BY NextInv
<1> QED BY <1>1, <1>2, PTL DEF Spec

\* Whatever the trucks, robots and menu do, at most one truck is between
\* taking the dock and announcing itself, and none is while the handler is
\* planning.
THEOREM OneTruck == Spec => []OneTruckAtDock
<1>1. IInv => OneTruckAtDock BY DEF IInv, GateInv
<1> QED BY <1>1, Invariance, PTL

\* mutex_dbuff is held by exactly the thread whose program point says so.
THEOREM MutexCorrect == Spec => []MutexOwned
<1>1. IInv => MutexOwned BY DEF IInv, GateInv
<1> QED BY <1>1, Invariance, PTL

\* No task, planned, queued or in work, carries the items of two trucks,
\* although an overload keeps its load for the next task.
THEOREM OneTruckPerTask == Spec => []TasksOfOneTruck
<1>1. IInv => TasksOfOneTruck BY DEF IInv
<1> QED BY <1>1, Invariance, PTL
-----------------------------------------------------------------------------
(* The stock, and the types.                                               *)

LEMMA UnitsOfIn == ASSUME NEW s, NEW i PROVE UnitsOf(s, i) = UnitsIn(i, s)
  BY DEF UnitsOf, UnitsIn

StockOK == located \in [Items -> Nat] /\ delivered \in [Items -> Nat]

LEMMA StockInv ==
    ASSUME IInv, StockOK, [Next]_vars PROVE StockOK'
<1> USE DEF StockOK
<1>1. CASE UNCHANGED stockVars
  BY <1>1 DEF stockVars
<1>2. ASSUME Locatable, PopLocations PROVE located' \in [Items -> Nat]
  <2>1. load \in Seq(Items) BY DEF IInv, PlanTypeOK
  <2>2. \A i \in Items : UnitsOf(load, i) \in Nat
    BY <2>1, UnitsOfSequence, UnitsOfIn
  <2> QED BY <1>2, <2>2 DEF Locatable, PopLocations
<1>3. CASE PlanOverload \/ PlanRest \/ PlanHang
  <2>1. \/ Locatable /\ PopLocations
        \/ UNCHANGED located
    BY <1>3 DEF PlanOverload, PlanRest, PlanHang
  <2>2. UNCHANGED delivered
    BY <1>3 DEF PlanOverload, PlanRest, PlanHang
  <2> QED BY <1>2, <2>1, <2>2
<1>4. ASSUME NEW r \in Robots, RobotExchange(r) PROVE StockOK'
  <2>1. job[r] \in Seq(Items) BY DEF IInv, PoolTypeOK
  <2>2. \A i \in Items : UnitsOf(job[r], i) \in Nat
    BY <2>1, UnitsOfSequence, UnitsOfIn
  <2> QED BY <1>4, <2>2 DEF RobotExchange
<1>5. \/ UNCHANGED stockVars
      \/ PlanOverload \/ PlanRest \/ PlanHang
      \/ \E r \in Robots : RobotExchange(r)
  BY DEF Next, vars, HandlerStep, HandlerPlan, CountTask, PlanUndefined, RobotStep
<1> QED BY <1>1, <1>3, <1>4, <1>5

\* The locations and the deliveries are counted by natural numbers.
THEOREM StockInvariance == Spec => []StockOK
<1>1. Init => StockOK
  <2>1. Stored \in [Items -> Nat] BY StoredAssumption, Zenon
  <2> QED BY <2>1 DEF Init, StockOK
<1>2. IInv /\ StockOK /\ [Next]_vars => StockOK' BY StockInv
<1> QED BY <1>1, <1>2, Invariance, PTL DEF Spec

\* Every variable of the delivery dock stays in its type; no location is
\* taken that is not there.
THEOREM TypeCorrect == Spec => []TypeOK
<1>1. IInv /\ StockOK => TypeOK BY DEF IInv, GateInv, StockOK, HandlerTypeOK, TypeOK
<1> QED BY <1>1, Invariance, StockInvariance, PTL

-----------------------------------------------------------------------------
(* The refinement of CargoService.                                         *)

\* The handler has no task until its buffer is empty: those of an overload
\* are dropped.
PlannedLate == hpc \in {"open", "await", "lock", "plan", "count"} => planned = <<>>

RefinementInv == IInv /\ StockOK /\ EmptyHanded /\ PlannedLate

LEMMA RefinementInvHolds == Spec => []RefinementInv
<1>1. Init => EmptyHanded /\ PlannedLate
  BY DEF Init, HandlerInit, PoolInit, EmptyHanded, PlannedLate
<1>2. ASSUME IInv, EmptyHanded, [Next]_vars PROVE EmptyHanded'
  <2>1. ASSUME NEW r \in Robots, RobotShared(r) PROVE EmptyHanded'
    BY <1>2, <2>1, SharedEmptyHanded
  <2>2. ASSUME NEW r \in Robots, RobotExchange(r) PROVE EmptyHanded'
    BY <1>2, <2>2 DEF RobotExchange, RobotGo, EmptyHanded, IInv, PoolTypeOK
  <2>3. CASE UNCHANGED <<rpc, job>>
    BY <1>2, <2>3, SharedEmptyHanded
  <2>4. \/ \E r \in Robots : RobotShared(r)
        \/ \E r \in Robots : RobotExchange(r)
        \/ MenuStep
        \/ UNCHANGED <<rpc, job>>
    BY <1>2 DEF Next, vars, TruckThread, SpuriousThread, HandlerStep, HandlerGate, HandlerPlan,
       PlanItem, PlanOverload, CountTask, PlanRest, PlanUndefined, PushTask, EndIteration,
       PlanHang, RobotStep, poolVars
  <2>5. CASE MenuStep
    BY <1>2, <2>5, SharedEmptyHanded
  <2> QED BY <2>1, <2>2, <2>3, <2>4, <2>5
<1>3. ASSUME IInv, PlannedLate, [Next]_vars PROVE PlannedLate'
  <2>1. CASE HandlerStep
    <3>1. CASE HandlerGate
      BY <1>3, <3>1 DEF HandlerGate, OpenDock, AwaitTruck, LockBuffer, PlannedLate, planVars
    <3>2. CASE PlanItem \/ PlanOverload \/ CountTask
      BY <1>3, <3>2 DEF PlanItem, PlanOverload, CountTask, HandlerGo, PlannedLate
    <3>3. CASE PlanRest \/ PlanUndefined \/ PushTask("TTdelivery") \/ EndIteration
      BY <3>3 DEF PlanRest, PlanUndefined, PushTask, EndIteration, HandlerGo, PlannedLate
    <3> QED BY <2>1, <3>1, <3>2, <3>3 DEF HandlerStep, HandlerPlan
  <2>2. CASE PlanHang
    BY <2>2 DEF PlanHang, HandlerGo, PlannedLate
  <2>3. CASE \E t \in Trucks : TruckThread(t) \/ SpuriousThread(t)
    BY <1>3, <2>3 DEF TruckThread, SpuriousThread, TruckStep, TruckMoor, TruckUnload,
       TruckAnnounce, TruckLock, TruckPass, TruckFail, TruckSleep, SpuriousWake, PlannedLate,
       planVars
  <2>4. CASE \E r \in Robots : RobotStep(r)
    BY <1>3, <2>4 DEF RobotStep, RobotShared, RobotTake, CountDown, RobotCheck, RobotLoad,
       RobotStore, RobotNotify, RobotExchange, PlannedLate, planVars, gateVars
  <2>5. CASE MenuStep
    BY <1>3, <2>5 DEF MenuStep, MenuRobotMinus, MenuRobotPlus, PlannedLate, planVars, gateVars
  <2>6. CASE UNCHANGED vars
    BY <1>3, <2>6 DEF vars, planVars, gateVars, PlannedLate
  <2> QED BY <1>3, <2>1, <2>2, <2>3, <2>4, <2>5, <2>6 DEF Next
<1>4. IInv /\ EmptyHanded /\ [Next]_vars => EmptyHanded' BY <1>2
<1>5. IInv /\ PlannedLate /\ [Next]_vars => PlannedLate' BY <1>3
<1> QED BY <1>1, <1>4, <1>5, Invariance, StockInvariance, PTL DEF RefinementInv, Spec

\* What is pending is what is inside: a load stays with the handler until
\* the last task is made.
PendingAt(i) == UnitsOf(buff, i) + UnitsOf(load, i) + UnitsInTasks(i)

LEMMA Pending == ASSUME NEW i PROVE PendingAt(i) = Inside(i)
<1>1. UnitsInTasks(i) = Tasked(i)
  BY DEF UnitsInTasks, Tasked, InPlanned, InQueue, InHands, UnitsOf, UnitsIn
<1> QED BY <1>1, UnitsOfIn DEF PendingAt, Inside

LEMMA NextPending == ASSUME NEW i PROVE PendingAt(i)' = Inside(i)'
  BY DEF PendingAt, UnitsInTasks, Inside, Tasked, InPlanned, InQueue, InHands, UnitsOf, UnitsIn

\* Making tasks, and dropping them, neither loses nor invents a unit.
LEMMA PlanningKeepsUnits ==
    ASSUME IInv, PlannedLate, IsFiniteSet(Robots), PlanOverload \/ CountTask \/ PlanRest,
           NEW i \in Items
    PROVE  Inside(i)' = Inside(i)
<1>1. CASE PlanOverload
  <2>1. UNCHANGED <<buff, load, tasksQ, job>> /\ planned' = <<>> /\ planned = <<>>
    BY <1>1 DEF PlanOverload, HandlerGo, poolVars, PlannedLate
  <2> QED BY <2>1 DEF Inside, Tasked, InPlanned, InQueue, InHands, UnitsIn
<1>2. CASE CountTask
  <2>1. /\ buff # <<>> /\ TakeItem(load) /\ load \in Seq(Items)
        /\ UNCHANGED <<planned, tasksQ, job>>
    BY <1>2 DEF CountTask, HandlerGo, poolVars, IInv, BufferReady, PlanTypeOK
  <2>2. UnitsIn(i, buff)' + UnitsIn(i, load)' = UnitsIn(i, buff) + UnitsIn(i, load)
    BY <2>1, TakeItemUnits
  <2>3. Tasked(i)' = Tasked(i)
    BY <2>1 DEF Tasked, InPlanned, InQueue, InHands, UnitsIn
  <2>4. Inside(i)' = UnitsIn(i, buff)' + UnitsIn(i, load)' + Tasked(i)'
    BY DEF Inside
  <2> QED BY <2>2, <2>3, <2>4 DEF Inside
<1>3. CASE PlanRest
  <2>1. /\ UNCHANGED <<buff, tasksQ, job>> /\ load' = <<>>
        /\ planned' = IF load # <<>> THEN Append(planned, load) ELSE planned
    BY <1>3 DEF PlanRest, HandlerGo, poolVars
  <2>2. Tasked(i)' = Tasked(i) + UnitsIn(i, load)
    <3>1. CASE load # <<>>
      BY <2>1, <3>1, PlanUnits
    <3>2. CASE load = <<>>
      <4>1. Tasked(i)' = Tasked(i)
        BY <2>1, <3>2 DEF Tasked, InPlanned, InQueue, InHands, UnitsIn
      <4> QED BY <3>2, <4>1, UnitsEmpty, UnitsNat
    <3> QED BY <3>1, <3>2
  <2>3. UnitsIn(i, buff)' = UnitsIn(i, buff) /\ UnitsIn(i, load)' = 0
    <3>1. UnitsIn(i, load') = 0 BY <2>1, UnitsEmpty
    <3> QED BY <2>1, <3>1 DEF UnitsIn
  <2> QED BY <2>2, <2>3, UnitsNat DEF Inside
<1> QED BY <1>1, <1>2, <1>3

\* The exchange with the truck takes what the robot has out of what is
\* pending.
LEMMA ExchangeKeepsUnits ==
    ASSUME IInv, IInv', StockOK, IsFiniteSet(Robots), NEW r \in Robots, RobotExchange(r),
           NEW i \in Items
    PROVE  /\ Inside(i)' \in Nat /\ Inside(i)' =< Inside(i)
           /\ delivered'[i] = delivered[i] + (Inside(i) - Inside(i)')
<1>1. UNCHANGED <<buff, load, planned, tasksQ>> /\ job' = [job EXCEPT ![r] = <<>>]
  BY DEF RobotExchange, gateVars, planVars
<1>2. <<>> \in Seq(Items) OBVIOUS
<1>3. /\ Tasked(i)' = Tasked(i) - UnitsIn(i, job[r]) + UnitsIn(i, <<>>)
      /\ UnitsIn(i, job[r]) \in Nat
  BY <1>1, <1>2, HandleUnits
<1>4. UnitsIn(i, buff)' = UnitsIn(i, buff) /\ UnitsIn(i, load)' = UnitsIn(i, load)
  BY <1>1 DEF UnitsIn
<1>5. Inside(i)' = Inside(i) - UnitsIn(i, job[r])
  BY <1>3, <1>4, UnitsEmpty, UnitsNat DEF Inside
<1>6. Inside(i)' \in Nat
  <2>1. Inside(i)' = UnitsIn(i, buff)' + UnitsIn(i, load)' + Tasked(i)' BY DEF Inside
  <2> QED BY <2>1, UnitsNatNext
<1>7. delivered'[i] = delivered[i] + UnitsIn(i, job[r])
  BY UnitsOfIn DEF RobotExchange
<1>8. Inside(i) \in Nat BY UnitsNat
<1> QED BY <1>3, <1>5, <1>6, <1>7, <1>8 DEF StockOK

LEMMA ServiceStarts ==
    ASSUME Init, IsFiniteSet(Robots) PROVE Deliver!Init
<1>1. IInv BY HandlerInitInv DEF Init
<1>2. /\ buff = <<>> /\ load = <<>> /\ planned = <<>> /\ tasksQ = <<>>
      /\ job = [r \in Robots |-> <<>>]
      /\ tpc = [t \in Trucks |-> "called"] /\ delivered = [i \in Items |-> 0]
  BY DEF Init, HandlerInit, GateInit, PoolInit
<1>3. ASSUME NEW i \in Items PROVE PendingAt(i) = 0
  BY <1>2, NothingInside, Pending
<1> QED BY <1>2, <1>3 DEF Deliver!Init, PendingAt

LEMMA ServiceSteps ==
    ASSUME RefinementInv, RefinementInv', IsFiniteSet(Robots), [Next]_vars
    PROVE  [Deliver!Next]_(Deliver!vars)
<1> USE DEF RefinementInv
<1>1. \A i : PendingAt(i) = Inside(i) /\ PendingAt(i)' = Inside(i)'
  BY Pending, NextPending
<1>2. ASSUME Waiting' = Waiting, \A i \in Items : Inside(i)' = Inside(i), UNCHANGED delivered
      PROVE  UNCHANGED Deliver!vars
  BY <1>1, <1>2 DEF Deliver!vars, Waiting, PendingAt
<1>3. ASSUME SharedStep, UNCHANGED delivered PROVE UNCHANGED Deliver!vars
  BY <1>2, <1>3, SharedKeepsUnits
<1>4. ASSUME NEW t \in Trucks, TruckThread(t), TruckUnload(t), UNCHANGED delivered
      PROVE  Deliver!Next
  <2>1. /\ t \in Waiting /\ Waiting' = Waiting \ {t}
        /\ \A i \in Items : Inside(i)' = Inside(i) + UnitsIn(i, Cargo[t])
    BY <1>4, UnloadUnits
  <2>2. ASSUME NEW i PROVE Deliver!Units(Cargo[t], i) = UnitsIn(i, Cargo[t])
    <3>1. Deliver!Units(Cargo[t], i) = Cardinality({k \in DOMAIN Cargo[t] : Cargo[t][k] = i})
      BY DEF Deliver!Units, Cardinality, Deliver!Cardinality
    <3> QED BY <3>1 DEF UnitsIn
  <2>3. [i \in Items |-> PendingAt(i)']
          = [i \in Items |-> [j \in Items |-> PendingAt(j)][i] + Deliver!Units(Cargo[t], i)]
    BY <1>1, <2>1, <2>2
  <2>4. Deliver!Unload(t)
    BY <1>4, <2>1, <2>3 DEF Deliver!Unload, Waiting, PendingAt
  <2> QED BY <2>4 DEF Deliver!Next
<1>5. ASSUME NEW r \in Robots, RobotExchange(r) PROVE Deliver!Next
  <2>1. \A i \in Items : /\ PendingAt(i)' \in Nat /\ PendingAt(i)' =< PendingAt(i)
                         /\ delivered'[i] = delivered[i] + (PendingAt(i) - PendingAt(i)')
    BY <1>1, <1>5, ExchangeKeepsUnits
  <2>2. UNCHANGED tpc BY <1>5 DEF RobotExchange, gateVars
  <2>3. delivered' \in [Items -> Nat] BY DEF StockOK
  <2>4. \A i \in Items : delivered[i] =< delivered'[i]
    <3>1. \A i \in Items : PendingAt(i) \in Nat BY <1>1, UnitsNat
    <3> QED BY <2>1, <3>1 DEF StockOK
  <2>5. Deliver!Handle
    BY <2>1, <2>2, <2>3, <2>4 DEF Deliver!Handle, PendingAt
  <2> QED BY <2>5 DEF Deliver!Next
<1>6. ASSUME PlanOverload \/ CountTask \/ PlanRest PROVE UNCHANGED Deliver!vars
  <2>1. \A i \in Items : Inside(i)' = Inside(i)
    BY <1>6, PlanningKeepsUnits
  <2>2. (UNCHANGED tpc \/ NotifyOne) /\ UNCHANGED delivered
    BY <1>6 DEF PlanOverload, CountTask, PlanRest, stockVars
  <2> QED BY <1>2, <2>1, <2>2, WaitingKept
<1>7. ASSUME UNCHANGED <<tpc, buff, load, planned, tasksQ, job, delivered>>
      PROVE  UNCHANGED Deliver!vars
  <2>1. \A i \in Items : Inside(i)' = Inside(i)
    BY <1>7 DEF Inside, Tasked, InPlanned, InQueue, InHands, UnitsIn
  <2> QED BY <1>2, <1>7, <2>1, WaitingKept
<1>8. CASE PlanHang \/ PlanUndefined
  BY <1>7, <1>8 DEF PlanHang, PlanUndefined, planVars, poolVars, stockVars
<1>9. CASE UNCHANGED vars
  BY <1>7, <1>9 DEF vars, gateVars, planVars, poolVars, stockVars
<1>10. ASSUME NEW t \in Trucks, TruckThread(t) \/ SpuriousThread(t), UNCHANGED stockVars
       PROVE  [Deliver!Next]_(Deliver!vars)
  BY <1>3, <1>4, <1>10 DEF SharedStep, SpuriousThread, stockVars
<1>11. CASE HandlerStep
  BY <1>3, <1>6, <1>8, <1>11 DEF SharedStep, HandlerStep, HandlerPlan, stockVars
<1>12. ASSUME NEW r \in Robots, RobotStep(r) PROVE [Deliver!Next]_(Deliver!vars)
  BY <1>3, <1>5, <1>12 DEF SharedStep, RobotStep, stockVars
<1>13. CASE MenuStep /\ UNCHANGED stockVars
  BY <1>3, <1>13 DEF SharedStep, stockVars
<1> HIDE DEF RefinementInv
<1> QED BY <1>8, <1>9, <1>10, <1>11, <1>12, <1>13 DEF Next

\* The threads of the delivery dock implement the cargo service: although the
\* tasks of an overload are dropped and their locations deleted, each item a
\* truck asks for is brought to a truck at most once, and none is lost.
THEOREM BringsWhatIsAsked ==
    ASSUME IsFiniteSet(Robots) PROVE Spec => ImplementsCargoService
<1>1. Init => Deliver!Init BY ServiceStarts
<1>2. RefinementInv /\ RefinementInv' /\ [Next]_vars => [Deliver!Next]_(Deliver!vars)
  BY ServiceSteps
<1> QED BY <1>1, <1>2, RefinementInvHolds, PTL DEF Spec, ImplementsCargoService, Deliver!Spec
-----------------------------------------------------------------------------
(* Locations.  Where every truck fits one robot, the handler deletes one   *)
(* location per unit it sends a robot for.                                 *)

EachFits == \A t \in Trucks : Light(Cargo[t])

\* What is weighed together with what is still in the buffer, which came
\* with one truck, stays below the capacity: no task is made before the last.
FitsSoFar ==
    /\ hpc # "count"
    /\ hpc \in {"open", "await", "lock"} => weight = 0
    /\ hpc \in {"await", "lock", "plan"} => weight + MassOf(buff) < Capacity

LEMMA LightLoads ==
    ASSUME EachFits, IInv, FitsSoFar, [Next]_vars
    PROVE  FitsSoFar' /\ ~ PlanOverload /\ ~ CountTask
<1>1. /\ buff \in Seq(Items) /\ weight \in Nat /\ MassOf(buff) \in Nat /\ Capacity \in Nat \ {0}
  BY Masses, HandlerAssumption DEF IInv, GateInv, GateTypeOK, PlanTypeOK
<1>2. ~ CountTask BY DEF CountTask, HandlerGo, FitsSoFar
<1>3. buff # <<>> => /\ Front(buff) \in Seq(Items) /\ Last(buff) \in Items
                     /\ MassOf(buff) = MassOf(Front(buff)) + Mass[Last(buff)]
                     /\ MassOf(Front(buff)) \in Nat /\ Mass[Last(buff)] \in Nat
  BY <1>1, Masses
<1>4. ~ PlanOverload
  <2> SUFFICES ASSUME PlanOverload PROVE FALSE OBVIOUS
  <2>1. hpc = "plan" /\ buff # <<>> /\ weight + Mass[Last(buff)] >= Capacity
    BY DEF PlanOverload, HandlerGo, Overloaded
  <2> QED BY <1>1, <1>3, <2>1 DEF FitsSoFar
<1> SUFFICES FitsSoFar' BY <1>2, <1>4
<1>5. CASE UNCHANGED <<hpc, weight, buff>>
  BY <1>5 DEF FitsSoFar, MassOf
<1>6. ASSUME NEW t \in Trucks, TruckUnload(t), UNCHANGED planVars PROVE FitsSoFar'
  <2>1. tpc[t] = "moored" /\ buff' = (buff \o Cargo[t]) /\ UNCHANGED <<hpc, weight>>
    BY <1>6 DEF TruckUnload, TruckGo, planVars
  <2>2. hpc = "await" /\ buff = <<>>
    BY <2>1 DEF IInv, GateInv, OneTruckAtDock, AtDock, BufferReady
  <2>3. buff' = Cargo[t] BY <2>1, <2>2, GateAssumption
  <2>4. MassOf(buff') < Capacity BY <2>3 DEF EachFits, Light
  <2>5. MassOf(buff') \in Nat BY <2>3, GateAssumption, Masses
  <2> QED BY <2>1, <2>2, <2>4, <2>5 DEF FitsSoFar, MassOf
<1>7. CASE OpenDock /\ UNCHANGED planVars
  <2>1. hpc = "open" /\ hpc' = "await" /\ UNCHANGED <<weight, buff>> /\ buff = <<>>
    BY <1>7 DEF OpenDock, planVars, IInv, BufferReady
  <2>2. MassOf(buff) = 0 BY <2>1, Masses
  <2> QED BY <1>1, <2>1, <2>2 DEF FitsSoFar, MassOf
<1>8. CASE (AwaitTruck \/ LockBuffer) /\ UNCHANGED planVars
  BY <1>8 DEF AwaitTruck, LockBuffer, planVars, FitsSoFar, MassOf
<1>9. CASE PlanItem
  <2>1. /\ hpc = "plan" /\ hpc' = "plan" /\ buff # <<>>
        /\ weight' = weight + Mass[Last(buff)] /\ buff' = Front(buff)
    BY <1>9 DEF PlanItem, HandlerGo, TakeItem
  <2>2. weight' + MassOf(buff') < Capacity BY <1>1, <1>3, <2>1 DEF FitsSoFar
  <2> QED BY <2>1, <2>2 DEF FitsSoFar, MassOf
<1>10. CASE PlanRest \/ PushTask("TTdelivery") \/ PlanHang \/ PlanUndefined
  BY <1>10 DEF PlanRest, PushTask, PlanHang, PlanUndefined, HandlerGo, FitsSoFar
<1>11. CASE EndIteration
  BY <1>11 DEF EndIteration, HandlerGo, FitsSoFar
<1>12. \/ UNCHANGED <<hpc, weight, buff>>
       \/ \E t \in Trucks : TruckUnload(t) /\ UNCHANGED planVars
       \/ (OpenDock \/ AwaitTruck \/ LockBuffer) /\ UNCHANGED planVars
       \/ PlanItem \/ PlanOverload \/ CountTask \/ PlanRest \/ PushTask("TTdelivery") \/ PlanHang
       \/ PlanUndefined \/ EndIteration
  <2>1. ASSUME NEW t \in Trucks, TruckThread(t) \/ SpuriousThread(t), ~ TruckUnload(t)
        PROVE  UNCHANGED <<hpc, weight, buff>>
    BY <2>1 DEF TruckThread, SpuriousThread, TruckStep, TruckMoor, TruckAnnounce, TruckLock,
       TruckPass, TruckFail, TruckSleep, SpuriousWake, planVars
  <2>2. ASSUME NEW r \in Robots, RobotStep(r) PROVE UNCHANGED <<hpc, weight, buff>>
    BY <2>2 DEF RobotStep, RobotShared, RobotTake, CountDown, RobotCheck, RobotLoad, RobotStore,
       RobotNotify, RobotExchange, gateVars, planVars
  <2>3. CASE MenuStep
    BY <2>3 DEF MenuStep, MenuRobotMinus, MenuRobotPlus, gateVars, planVars
  <2>4. CASE UNCHANGED vars BY <2>4 DEF vars, gateVars, planVars
  <2>5. CASE HandlerStep BY <2>5 DEF HandlerStep, HandlerGate, HandlerPlan
  <2>6. ASSUME NEW t \in Trucks, TruckThread(t) \/ SpuriousThread(t), TruckUnload(t)
        PROVE  UNCHANGED planVars
    BY <2>6 DEF TruckThread, SpuriousThread
  <2> QED BY <2>1, <2>2, <2>3, <2>4, <2>5, <2>6 DEF Next
<1> QED BY <1>2, <1>4, <1>5, <1>6, <1>7, <1>8, <1>9, <1>10, <1>11, <1>12

\* The units that trucks not yet unloaded will ask for, and all together
Outside(i) == SumFunction([t \in Trucks |-> IF t \in Waiting THEN UnitsIn(i, Cargo[t]) ELSE 0])
AskedFor(i) == SumFunction([t \in Trucks |-> UnitsIn(i, Cargo[t])])

Conserved == \A i \in Items : Outside(i) + Inside(i) + delivered[i] = AskedFor(i)

Balanced == hpc \notin {"hung", "undefined"} =>
                \A i \in Items : located[i] + Tasked(i) + delivered[i] = Stored[i]

LEMMA AskedNat ==
    ASSUME IsFiniteSet(Trucks), NEW i \in Items
    PROVE  /\ Outside(i) \in Nat /\ AskedFor(i) \in Nat
           /\ AskedFor(i)' = AskedFor(i) /\ AskedFor(i) =< Stored[i]
<1>1. \A t \in Trucks : UnitsIn(i, Cargo[t]) \in Nat
  BY GateAssumption, UnitsOfSequence
<1> DEFINE f == [t \in Trucks |-> IF t \in Waiting THEN UnitsIn(i, Cargo[t]) ELSE 0]
           g == [t \in Trucks |-> UnitsIn(i, Cargo[t])]
<1>2. f \in [Trucks -> Nat] /\ g \in [Trucks -> Nat] BY <1>1
<1>3. AskedFor(i)' = AskedFor(i) BY DEF AskedFor, UnitsIn
<1>4. AskedFor(i) =< Stored[i]
  <2>1. g = [t \in Trucks |-> UnitsOf(Cargo[t], i)] BY UnitsOfIn
  <2> QED BY <2>1, StoredAssumption DEF AskedFor
<1> HIDE DEF f, g
<1>5. SumFunction(f) \in Nat /\ SumFunction(g) \in Nat BY <1>2, FunctionSum, TotalNat
<1> QED BY <1>3, <1>4, <1>5 DEF f, g, Outside, AskedFor

LEMMA OutsideKept ==
    ASSUME Waiting' = Waiting, NEW i PROVE Outside(i)' = Outside(i)
  BY DEF Outside, UnitsIn

LEMMA OutsideUnload ==
    ASSUME IsFiniteSet(Trucks), NEW t \in Waiting, Waiting' = Waiting \ {t}, NEW i \in Items
    PROVE  Outside(i) = Outside(i)' + UnitsIn(i, Cargo[t])
<1>1. t \in Trucks /\ \A u \in Trucks : UnitsIn(i, Cargo[u]) \in Nat
  BY GateAssumption, UnitsOfSequence DEF Waiting
<1> DEFINE n == UnitsIn(i, Cargo[t])
           f == [u \in Trucks |-> IF u \in Waiting THEN UnitsIn(i, Cargo[u]) ELSE 0]
           g == [u \in Trucks |-> IF u \in Waiting' THEN UnitsIn(i, Cargo[u]) ELSE 0]
<1>2. f \in [Trucks -> Nat] /\ g \in [Trucks -> Nat] /\ n \in Nat
  BY <1>1
<1>3. f[t] = n /\ g[t] = 0 /\ \A u \in Trucks : u # t => g[u] = f[u]
  BY <1>1
<1>4. Outside(i) = SumFunction(f) /\ Outside(i)' = SumFunction(g)
  BY DEF Outside, UnitsIn
<1> HIDE DEF f, g, n
<1>5. SumFunction(f) = Total(f, Trucks) /\ SumFunction(g) = Total(g, Trucks)
  BY <1>2, FunctionSum
<1>6. Total(g, Trucks) = Total(f, Trucks) - f[t] + g[t]
  BY ONLY <1>1, <1>2, <1>3, IsFiniteSet(Trucks), TotalMove
<1>7. Total(f, Trucks) \in Nat BY <1>2, TotalNat
<1> QED BY <1>2, <1>3, <1>4, <1>5, <1>6, <1>7 DEF n

\* Every step accounts for what is asked for ...
LEMMA ConservedStep ==
    ASSUME RefinementInv, RefinementInv', IsFiniteSet(Robots), IsFiniteSet(Trucks), Conserved,
           [Next]_vars
    PROVE  Conserved'
<1> USE DEF RefinementInv
<1>1. \A i \in Items : /\ Outside(i) \in Nat /\ Inside(i) \in Nat /\ delivered[i] \in Nat
                       /\ AskedFor(i)' = AskedFor(i)
  BY AskedNat, UnitsNat DEF StockOK
<1>2. ASSUME Waiting' = Waiting, \A i \in Items : Inside(i)' = Inside(i), UNCHANGED delivered
      PROVE  Conserved'
  BY <1>1, <1>2, OutsideKept DEF Conserved
<1>3. ASSUME SharedStep, UNCHANGED delivered PROVE Conserved'
  BY <1>2, <1>3, SharedKeepsUnits
<1>4. ASSUME NEW t \in Trucks, TruckThread(t), TruckUnload(t), UNCHANGED delivered
      PROVE  Conserved'
  <2>1. /\ t \in Waiting /\ Waiting' = Waiting \ {t}
        /\ \A i \in Items : Inside(i)' = Inside(i) + UnitsIn(i, Cargo[t])
    BY <1>4, UnloadUnits
  <2>2. \A i \in Items : Outside(i) = Outside(i)' + UnitsIn(i, Cargo[t])
    BY <2>1, OutsideUnload
  <2>3. \A i \in Items : UnitsIn(i, Cargo[t]) \in Nat /\ Outside(i)' \in Nat
    <3>1. ASSUME NEW i \in Items PROVE Outside(i)' \in Nat
      <4> DEFINE g == [u \in Trucks |-> IF u \in Waiting' THEN UnitsIn(i, Cargo[u]) ELSE 0]
      <4>1. g \in [Trucks -> Nat] BY GateAssumption, UnitsOfSequence
      <4>2. Outside(i)' = SumFunction(g) BY DEF Outside, UnitsIn
      <4> HIDE DEF g
      <4> QED BY <4>1, <4>2, FunctionSum, TotalNat
    <3> QED BY <3>1, GateAssumption, UnitsOfSequence
  <2>4. ASSUME NEW i \in Items PROVE Outside(i)' + Inside(i)' + delivered'[i] = AskedFor(i)'
    <3>1. /\ Outside(i) + Inside(i) + delivered[i] = AskedFor(i) /\ delivered' = delivered
          /\ Inside(i)' = Inside(i) + UnitsIn(i, Cargo[t])
      BY <1>4, <2>1 DEF Conserved
    <3> QED BY <1>1, <2>2, <2>3, <3>1
  <2> QED BY <2>4 DEF Conserved
<1>5. ASSUME NEW r \in Robots, RobotExchange(r) PROVE Conserved'
  <2>1. \A i \in Items : /\ Inside(i)' \in Nat /\ Inside(i)' =< Inside(i)
                         /\ delivered'[i] = delivered[i] + (Inside(i) - Inside(i)')
    BY <1>5, ExchangeKeepsUnits
  <2>2. Waiting' = Waiting BY <1>5 DEF RobotExchange, gateVars, Waiting
  <2>3. ASSUME NEW i \in Items PROVE Outside(i)' + Inside(i)' + delivered'[i] = AskedFor(i)'
    <3>1. Outside(i)' = Outside(i) BY <2>2, OutsideKept
    <3>2. Outside(i) + Inside(i) + delivered[i] = AskedFor(i) BY DEF Conserved
    <3> QED BY <1>1, <2>1, <3>1, <3>2
  <2> QED BY <2>3 DEF Conserved
<1>6. ASSUME PlanOverload \/ CountTask \/ PlanRest PROVE Conserved'
  <2>1. \A i \in Items : Inside(i)' = Inside(i)
    BY <1>6, PlanningKeepsUnits
  <2>2. (UNCHANGED tpc \/ NotifyOne) /\ UNCHANGED delivered
    BY <1>6 DEF PlanOverload, CountTask, PlanRest, stockVars
  <2> QED BY <1>2, <2>1, <2>2, WaitingKept
<1>7. ASSUME UNCHANGED <<tpc, buff, load, planned, tasksQ, job, delivered>> PROVE Conserved'
  <2>1. \A i \in Items : Inside(i)' = Inside(i)
    BY <1>7 DEF Inside, Tasked, InPlanned, InQueue, InHands, UnitsIn
  <2> QED BY <1>2, <1>7, <2>1, WaitingKept
<1>8. CASE PlanHang \/ PlanUndefined
  BY <1>7, <1>8 DEF PlanHang, PlanUndefined, planVars, poolVars, stockVars
<1>9. CASE UNCHANGED vars
  BY <1>7, <1>9 DEF vars, gateVars, planVars, poolVars, stockVars
<1>10. ASSUME NEW t \in Trucks, TruckThread(t) \/ SpuriousThread(t), UNCHANGED stockVars
       PROVE  Conserved'
  BY <1>3, <1>4, <1>10 DEF SharedStep, SpuriousThread, stockVars
<1>11. CASE HandlerStep
  BY <1>3, <1>6, <1>8, <1>11 DEF SharedStep, HandlerStep, HandlerPlan, stockVars
<1>12. ASSUME NEW r \in Robots, RobotStep(r) PROVE Conserved'
  BY <1>3, <1>5, <1>12 DEF SharedStep, RobotStep, stockVars
<1>13. CASE MenuStep /\ UNCHANGED stockVars
  BY <1>3, <1>13 DEF SharedStep, stockVars
<1> HIDE DEF RefinementInv
<1> QED BY <1>8, <1>9, <1>10, <1>11, <1>12, <1>13 DEF Next

\* ... and, unless a task is made of an overload, for the locations.
LEMMA BalancedStep ==
    ASSUME RefinementInv, RefinementInv', IsFiniteSet(Robots), Balanced,
           [Next]_vars, ~ PlanOverload, ~ CountTask
    PROVE  Balanced'
<1> USE DEF RefinementInv
<1>1. \A i \in Items : /\ located[i] \in Nat /\ delivered[i] \in Nat /\ Tasked(i) \in Nat
                       /\ UnitsIn(i, buff) \in Nat /\ UnitsIn(i, load) \in Nat
                       /\ Stored[i] \in Nat
  <2>1. Stored \in [Items -> Nat] BY StoredAssumption, Zenon
  <2> QED BY <2>1, UnitsNat DEF StockOK
<1>2. ASSUME UNCHANGED <<located, delivered>>, \A i \in Items : Tasked(i)' = Tasked(i),
             hpc \notin {"hung", "undefined"}
      PROVE  Balanced'
  BY <1>2 DEF Balanced
<1>3. ASSUME UNCHANGED <<planned, tasksQ, job>>, NEW i \in Items PROVE Tasked(i)' = Tasked(i)
  BY <1>3 DEF Tasked, InPlanned, InQueue, InHands, UnitsIn
<1>4. ASSUME NEW r \in Robots, RobotExchange(r) PROVE Balanced'
  <2>1. /\ UNCHANGED <<buff, load, planned, tasksQ, located, hpc>>
        /\ job' = [job EXCEPT ![r] = <<>>]
        /\ \A i \in Items : delivered'[i] = delivered[i] + UnitsIn(i, job[r])
    BY <1>4, UnitsOfIn DEF RobotExchange, gateVars, planVars
  <2>2. <<>> \in Seq(Items) OBVIOUS
  <2>3. \A i \in Items : /\ Tasked(i)' = Tasked(i) - UnitsIn(i, job[r]) + UnitsIn(i, <<>>)
                         /\ UnitsIn(i, job[r]) \in Nat /\ UnitsIn(i, <<>>) = 0
    BY <2>1, <2>2, HandleUnits, UnitsEmpty
  <2>4. ASSUME NEW i \in Items, located[i] + Tasked(i) + delivered[i] = Stored[i]
        PROVE  located'[i] + Tasked(i)' + delivered'[i] = Stored[i]
    BY <1>1, <2>1, <2>3, <2>4
  <2> QED BY <2>1, <2>4 DEF Balanced
<1>5. CASE PlanRest
  <2>1. hpc = "plan" /\ UNCHANGED <<tasksQ, job, delivered>>
    BY <1>5 DEF PlanRest, HandlerGo, poolVars
  <2>2. CASE load = <<>>
    BY <1>2, <1>3, <1>5, <2>1, <2>2 DEF PlanRest
  <2>3. CASE load # <<>>
    <3>1. /\ planned' = Append(planned, load)
          /\ \A i \in Items : located'[i] = located[i] - UnitsIn(i, load)
      BY <1>5, <2>3, UnitsOfIn DEF PlanRest, PopLocations
    <3>2. \A i \in Items : Tasked(i)' = Tasked(i) + UnitsIn(i, load)
      BY <2>1, <3>1, PlanUnits
    <3>3. ASSUME NEW i \in Items, located[i] + Tasked(i) + delivered[i] = Stored[i]
          PROVE  located'[i] + Tasked(i)' + delivered'[i] = Stored[i]
      BY <1>1, <2>1, <3>1, <3>2, <3>3
    <3> QED BY <2>1, <3>3 DEF Balanced
  <2> QED BY <2>2, <2>3
<1>6. CASE PlanHang \/ PlanUndefined
  BY <1>6 DEF PlanHang, PlanUndefined, HandlerGo, Balanced
<1>7. ASSUME UNCHANGED <<located, delivered, planned, tasksQ, job>>,
             UNCHANGED hpc \/ hpc \notin {"hung", "undefined"}
      PROVE  Balanced'
  BY <1>2, <1>3, <1>7 DEF Balanced
<1>8. ASSUME UNCHANGED <<located, delivered>>, UNCHANGED <<buff, load>>, SharedStep,
             UNCHANGED hpc \/ hpc \notin {"hung", "undefined"}
      PROVE  Balanced'
  <2>1. ASSUME NEW i \in Items PROVE Tasked(i)' = Tasked(i)
    <3>1. Inside(i)' = Inside(i) BY <1>8, SharedKeepsUnits
    <3>2. Inside(i)' = UnitsIn(i, buff)' + UnitsIn(i, load)' + Tasked(i)' BY DEF Inside
    <3>3. UnitsIn(i, buff)' = UnitsIn(i, buff) /\ UnitsIn(i, load)' = UnitsIn(i, load)
      BY <1>8 DEF UnitsIn
    <3>4. Tasked(i)' \in Nat BY UnitsNatNext
    <3> QED BY <1>1, <3>1, <3>2, <3>3, <3>4 DEF Inside
  <2> QED BY <1>2, <1>8, <2>1 DEF Balanced
<1>9. ASSUME NEW t \in Trucks, TruckThread(t) \/ SpuriousThread(t), UNCHANGED stockVars
      PROVE  Balanced'
  BY <1>7, <1>9 DEF TruckThread, SpuriousThread, TruckStep, TruckMoor, TruckUnload, TruckAnnounce,
     TruckLock, TruckPass, TruckFail, TruckSleep, SpuriousWake, poolVars, planVars, stockVars
<1>10. CASE HandlerStep
  <2>1. CASE HandlerGate /\ UNCHANGED stockVars
    BY <1>7, <2>1 DEF HandlerGate, OpenDock, AwaitTruck, LockBuffer, poolVars, planVars, stockVars
  <2>2. CASE (PlanItem \/ EndIteration) /\ UNCHANGED stockVars
    BY <1>7, <2>2 DEF PlanItem, EndIteration, HandlerGo, poolVars, stockVars
  <2>3. CASE PushTask("TTdelivery") /\ UNCHANGED stockVars
    BY <1>8, <2>3 DEF PushTask, HandlerGo, stockVars, SharedStep
  <2> QED BY <1>5, <1>6, <1>10, <2>1, <2>2, <2>3 DEF HandlerStep, HandlerPlan
<1>11. ASSUME NEW r \in Robots, RobotShared(r), UNCHANGED stockVars PROVE Balanced'
  BY <1>8, <1>11 DEF RobotShared, RobotTake, CountDown, RobotCheck, RobotLoad, RobotStore,
     RobotNotify, gateVars, planVars, stockVars, SharedStep
<1>12. CASE MenuStep /\ UNCHANGED stockVars
  BY <1>8, <1>12 DEF MenuStep, MenuRobotMinus, MenuRobotPlus, gateVars, planVars, stockVars,
     SharedStep
<1>13. CASE UNCHANGED vars
  BY <1>7, <1>13 DEF vars, gateVars, poolVars, planVars, stockVars
<1> HIDE DEF RefinementInv
<1> QED BY <1>4, <1>6, <1>9, <1>10, <1>11, <1>12, <1>13 DEF Next, RobotStep

\* What the handler has loaded was asked for and is located.
LEMMA LoadIsLocated ==
    ASSUME RefinementInv, IsFiniteSet(Robots), IsFiniteSet(Trucks), Conserved, Balanced,
           hpc = "plan"
    PROVE  Locatable
<1> USE DEF RefinementInv
<1> SUFFICES ASSUME NEW i \in Items PROVE UnitsIn(i, load) =< located[i]
  BY UnitsOfIn DEF Locatable
<1>1. /\ located[i] \in Nat /\ delivered[i] \in Nat /\ Tasked(i) \in Nat
      /\ UnitsIn(i, buff) \in Nat /\ UnitsIn(i, load) \in Nat /\ Inside(i) \in Nat
      /\ Outside(i) \in Nat /\ AskedFor(i) \in Nat /\ AskedFor(i) =< Stored[i]
  BY UnitsNat, AskedNat DEF StockOK
<1>2. Stored[i] \in Nat
  <2>1. Stored \in [Items -> Nat] BY StoredAssumption, Zenon
  <2> QED BY <2>1
<1>3. /\ Outside(i) + Inside(i) + delivered[i] = AskedFor(i)
      /\ located[i] + Tasked(i) + delivered[i] = Stored[i]
  BY DEF Conserved, Balanced
<1>4. Inside(i) = UnitsIn(i, buff) + UnitsIn(i, load) + Tasked(i)
  BY DEF Inside
<1> QED BY <1>1, <1>2, <1>3, <1>4

LocationsInv == RefinementInv /\ Conserved /\ Balanced /\ FitsSoFar /\ LocationsSuffice

LEMMA LocationsStart ==
    ASSUME IsFiniteSet(Robots), IsFiniteSet(Trucks), Init
    PROVE  Conserved /\ Balanced /\ FitsSoFar /\ LocationsSuffice
<1>1. /\ buff = <<>> /\ load = <<>> /\ planned = <<>> /\ tasksQ = <<>> /\ hpc = "open" /\ weight = 0
      /\ job = [r \in Robots |-> <<>>]
      /\ \A t \in Trucks : tpc[t] = "called"
      /\ delivered = [i \in Items |-> 0] /\ located = Stored
  BY DEF Init, HandlerInit, GateInit, PoolInit
<1>2. IInv BY HandlerInitInv DEF Init
<1>3. \A i \in Items : Inside(i) = 0 /\ Tasked(i) = 0
  <2> TAKE i \in Items
  <2>1. Inside(i) = 0 BY <1>1, NothingInside
  <2>2. UnitsIn(i, buff) \in Nat /\ UnitsIn(i, load) \in Nat /\ Tasked(i) \in Nat
    BY <1>2, UnitsNat
  <2> QED BY <2>1, <2>2 DEF Inside
<1>4. \A i \in Items : Outside(i) = AskedFor(i)
  <2>1. \A t \in Trucks : t \in Waiting BY <1>1 DEF Waiting
  <2>2. \A i : [t \in Trucks |-> IF t \in Waiting THEN UnitsIn(i, Cargo[t]) ELSE 0]
                 = [t \in Trucks |-> UnitsIn(i, Cargo[t])]
    BY <2>1
  <2> QED BY <2>2 DEF Outside, AskedFor
<1>5. Conserved /\ Balanced
  <2>1. \A i \in Items : Stored[i] \in Nat
    <3>1. Stored \in [Items -> Nat] BY StoredAssumption, Zenon
    <3> QED BY <3>1
  <2>2. \A i \in Items : AskedFor(i) + 0 + 0 = AskedFor(i)
    <3>1. \A i \in Items : AskedFor(i) \in Nat BY AskedNat
    <3> QED BY <3>1
  <2> QED BY <1>1, <1>3, <1>4, <2>1, <2>2 DEF Conserved, Balanced
<1> QED BY <1>1, <1>5 DEF FitsSoFar, LocationsSuffice

LEMMA LocationsStep ==
    ASSUME IsFiniteSet(Robots), IsFiniteSet(Trucks), EachFits, LocationsInv, RefinementInv',
           [Next]_vars
    PROVE  LocationsInv'
<1> USE DEF LocationsInv
<1>1. FitsSoFar' /\ ~ PlanOverload /\ ~ CountTask BY LightLoads DEF RefinementInv
<1>2. Conserved' BY ConservedStep
<1>3. Balanced' BY <1>1, BalancedStep
<1>4. ~ PlanUndefined
  <2>1. PlanUndefined => hpc = "plan" /\ ~ Locatable BY DEF PlanUndefined, HandlerGo
  <2> QED BY <2>1, LoadIsLocated
<1>5. LocationsSuffice'
  BY <1>1, <1>4 DEF LocationsSuffice, Next, vars, TruckThread, SpuriousThread, TruckStep, TruckMoor,
     TruckUnload, TruckAnnounce, TruckLock, TruckPass, TruckFail, TruckSleep, SpuriousWake,
     HandlerStep, HandlerGate, OpenDock, AwaitTruck, LockBuffer, HandlerPlan, PlanItem, PlanRest,
     PushTask, EndIteration, PlanHang, HandlerGo, RobotStep, RobotShared, RobotTake, CountDown,
     RobotCheck, RobotLoad, RobotStore, RobotNotify, RobotExchange, MenuStep, MenuRobotMinus,
     MenuRobotPlus, gateVars
<1> QED BY <1>1, <1>2, <1>3, <1>5

LEMMA LocationsInvHolds ==
    ASSUME IsFiniteSet(Robots), IsFiniteSet(Trucks), EachFits PROVE Spec => []LocationsInv
<1>1. Init => Conserved /\ Balanced /\ FitsSoFar /\ LocationsSuffice
  BY LocationsStart
<1>2. LocationsInv /\ RefinementInv' /\ [Next]_vars => LocationsInv' BY LocationsStep
<1> QED BY <1>1, <1>2, RefinementInvHolds, PTL DEF LocationsInv, Spec

\* Where no truck asks for more than one robot can carry, the handler never
\* reads a location that is not there, however little more is stored than the
\* trucks ask for ...
THEOREM EnoughLocations ==
    ASSUME IsFiniteSet(Robots), IsFiniteSet(Trucks), EachFits PROVE Spec => []LocationsSuffice
<1>1. LocationsInv => LocationsSuffice BY DEF LocationsInv
<1> QED BY <1>1, LocationsInvHolds, PTL

\* ... and what warehouse_main.cpp:217 says is so: a location is deleted for
\* each unit that a robot takes out, and for no other.
THEOREM OneDeletedPerUnit ==
    ASSUME IsFiniteSet(Robots), IsFiniteSet(Trucks), EachFits PROVE Spec => []DeletedIsTakenOut
<1>1. LocationsInv => DeletedIsTakenOut
  <2> SUFFICES ASSUME LocationsInv, hpc = "open", NEW i \in Items
               PROVE  Stored[i] - located[i] = UnitsInTasks(i) + delivered[i]
    BY DEF DeletedIsTakenOut
  <2>1. located[i] + Tasked(i) + delivered[i] = Stored[i]
    BY DEF LocationsInv, Balanced
  <2>2. located[i] \in Nat /\ Tasked(i) \in Nat /\ delivered[i] \in Nat
    BY UnitsNat DEF LocationsInv, RefinementInv, StockOK
  <2>3. UnitsInTasks(i) = Tasked(i)
    BY DEF UnitsInTasks, Tasked, InPlanned, InQueue, InHands, UnitsOf, UnitsIn
  <2> QED BY <2>1, <2>2, <2>3
<1> QED BY <1>1, LocationsInvHolds, PTL
===============================================================================
