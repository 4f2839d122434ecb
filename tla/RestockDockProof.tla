--------------------------- MODULE RestockDockProof ---------------------------
(***************************************************************************)
(* Proofs about RestockDock: its types, the safety of the dock protocol,   *)
(* that no robot is sent out with the items of two trucks or with too much *)
(* to carry, that the threads implement CargoService, and that the task    *)
(* counter stays covered by the tasks under way until two threads cross.   *)
(***************************************************************************)
EXTENDS RestockDock, DockHandlerProof

-----------------------------------------------------------------------------
(* The steps that make tasks of loads.                                     *)

LEMMA PlanOverloadInv ==
    ASSUME IInv, PlanOverload PROVE IInv'
<1> USE DEF IInv
<1>1. /\ planned' \in Seq(Seq(Items))
      /\ \A k \in DOMAIN planned' : (k \in DOMAIN planned /\ planned'[k] = planned[k]) \/ planned'[k] = load
  BY AppendElements DEF PlanOverload, PlanTypeOK
<1>2. GateInv'
  <2>1. GateFrame
    BY DEF PlanOverload, GateFrame, GateInv, GateTypeOK
  <2>2. hpc \in HandlerBusy /\ hpc' \in HandlerBusy /\ UNCHANGED buffMutex
    BY DEF PlanOverload, HandlerGo, HandlerBusy
  <2> QED BY <2>1, <2>2, FrameKeepsGate
<1>3. PoolTypeOK' BY DEF PlanOverload, PoolTypeOK, poolVars
<1>4. PlanTypeOK' BY <1>1 DEF PlanOverload, PlanTypeOK, GateInv, GateTypeOK
<1>5. BufferReady'
  BY DEF PlanOverload, HandlerGo, BufferReady, GateInv, OneTruckAtDock, AtDock, GateTypeOK
<1>6. TasksOfOneTruck'
  <2>1. FromOneTruck(Range(load))
    BY FewerOfOneTruck DEF TasksOfOneTruck
  <2>2. \A k \in DOMAIN planned' : FromOneTruck(Range(planned'[k]))
    BY <1>1, <2>1 DEF TasksOfOneTruck
  <2> QED BY <2>2 DEF PlanOverload, TasksOfOneTruck, FromOneTruck, poolVars
<1> QED BY <1>2, <1>3, <1>4, <1>5, <1>6

LEMMA CountTaskInv ==
    ASSUME IInv, CountTask PROVE IInv'
<1> USE DEF IInv
<1>1. buff # <<>> /\ <<>> \in Seq(Items) /\ Range(<<>>) = {}
  BY DEF CountTask, HandlerGo, BufferReady, Range
<1>2. /\ load' \in Seq(Items) /\ buff' \in Seq(Items) /\ weight' \in Nat
      /\ Range(load)' \cup Range(buff)' \subseteq Range(load) \cup Range(buff)
  <2>1. TakeItem(<<>>) BY DEF CountTask
  <2> QED BY <1>1, <2>1, TakeItemElements DEF GateInv, GateTypeOK, PlanTypeOK
<1>3. taskcount' \in 0 .. CounterMod - 1
  <2>1. hreg + 1 \in Nat /\ CounterMod \in Nat /\ CounterMod > 0
    BY GateAssumption DEF PlanTypeOK
  <2>2. (hreg + 1) % CounterMod \in 0 .. CounterMod - 1
    BY <2>1
  <2> QED BY <2>2 DEF CountTask
<1>4. GateInv'
  <2>1. GateFrame
    BY <1>2, <1>3 DEF CountTask, GateFrame
  <2>2. hpc \in HandlerBusy /\ hpc' \in HandlerBusy /\ UNCHANGED buffMutex
    BY DEF CountTask, HandlerGo, HandlerBusy
  <2> QED BY <2>1, <2>2, FrameKeepsGate
<1>5. PoolTypeOK' BY DEF CountTask, PoolTypeOK, poolVars
<1>6. PlanTypeOK' BY <1>2 DEF CountTask, PlanTypeOK
<1>7. BufferReady'
  <2>1. dock = 0 /\ \A t \in Trucks : tpc[t] # "moored"
    BY DEF CountTask, HandlerGo, GateInv, OneTruckAtDock, AtDock, GateTypeOK
  <2>2. \A t \in Trucks : tpc'[t] # "moored"
    BY <2>1 DEF CountTask, NotifyOne, TruckGo, GateInv, GateTypeOK
  <2> QED BY <2>1, <2>2 DEF CountTask, HandlerGo, BufferReady
<1>8. TasksOfOneTruck'
  <2>1. FromOneTruck(Range(load)' \cup Range(buff)')
    BY <1>2, FewerOfOneTruck DEF TasksOfOneTruck
  <2> QED BY <2>1 DEF CountTask, TasksOfOneTruck, FromOneTruck, poolVars
<1> QED BY <1>4, <1>5, <1>6, <1>7, <1>8

LEMMA PlanRestInv ==
    ASSUME IInv, PlanRest PROVE IInv'
<1> USE DEF IInv
<1>1. buff = <<>> /\ buff' = <<>> /\ load' = <<>> /\ Range(<<>>) = {}
  BY DEF PlanRest, Range
<1>2. /\ planned' \in Seq(Seq(Items))
      /\ \A k \in DOMAIN planned' : (k \in DOMAIN planned /\ planned'[k] = planned[k]) \/ planned'[k] = load
  <2>1. CASE load = <<>> BY <2>1 DEF PlanRest, PlanTypeOK
  <2>2. CASE load # <<>>
    <3>1. planned' = Append(planned, load) BY <2>2 DEF PlanRest
    <3>2. planned \in Seq(Seq(Items)) /\ load \in Seq(Items) BY DEF PlanTypeOK
    <3> QED BY <3>1, <3>2, AppendElements
  <2> QED BY <2>1, <2>2
<1>3. taskid' \in 0 .. CounterMod - 1
  <2>1. taskid + 1 \in Nat /\ CounterMod \in Nat /\ CounterMod > 0
    BY GateAssumption DEF PlanTypeOK
  <2>2. (taskid + 1) % CounterMod \in 0 .. CounterMod - 1
    BY <2>1
  <2> QED BY <2>2 DEF PlanRest, PlanTypeOK
<1>4. GateInv'
  <2>1. GateFrame
    BY DEF PlanRest, GateFrame, GateInv, GateTypeOK
  <2>2. hpc \in HandlerBusy /\ hpc' \in HandlerBusy /\ UNCHANGED buffMutex
    BY DEF PlanRest, HandlerGo, HandlerBusy
  <2> QED BY <2>1, <2>2, FrameKeepsGate
<1>5. PoolTypeOK' BY DEF PlanRest, PoolTypeOK, poolVars
<1>6. PlanTypeOK' BY <1>1, <1>2, <1>3 DEF PlanRest, PlanTypeOK
<1>7. BufferReady'
  BY <1>1 DEF PlanRest, HandlerGo, BufferReady
<1>8. TasksOfOneTruck'
  <2>1. FromOneTruck(Range(load)) /\ FromOneTruck({})
    BY FewerOfOneTruck DEF TasksOfOneTruck, FromOneTruck
  <2>2. \A k \in DOMAIN planned' : FromOneTruck(Range(planned'[k]))
    BY <1>2, <2>1 DEF TasksOfOneTruck
  <2>3. Range(load)' \cup Range(buff)' = {}
    BY <1>1 DEF Range
  <2> QED BY <2>1, <2>2, <2>3 DEF PlanRest, TasksOfOneTruck, FromOneTruck, poolVars
<1> QED BY <1>4, <1>5, <1>6, <1>7, <1>8

LEMMA PlanHangInv == ASSUME IInv, PlanHang PROVE IInv'
  BY AstrayInv DEF PlanHang, HandlerGo

-----------------------------------------------------------------------------
(* The robots at the shelves.                                              *)

LEMMA RobotShelfInv ==
    ASSUME IInv, NEW r \in Robots, RobotShelve(r) \/ RobotPathDone(r)
    PROVE  IInv'
<1> USE DEF IInv
<1>1. GateInv' BY StutterKeepsGate DEF RobotShelve, RobotPathDone
<1>2. BufferReady' BY DEF RobotShelve, RobotPathDone, BufferReady, planVars, gateVars
<1>3. CASE RobotShelve(r)
  <2>1. /\ Front(job[r]) \in Seq(Items) /\ Last(job[r]) \in Items
        /\ Range(Front(job[r])) \subseteq Range(job[r])
    BY <1>3, FrontElements DEF RobotShelve, PoolTypeOK
  <2>2. PoolTypeOK'
    BY <1>3, <2>1 DEF RobotShelve, RobotGo, PoolTypeOK, RobotPC
  <2>3. PlanTypeOK'
    BY <1>3, <2>1 DEF RobotShelve, PlanTypeOK, planVars
  <2>4. FromOneTruck(Range(Front(job[r])))
    BY <2>1, FewerOfOneTruck DEF TasksOfOneTruck
  <2>5. \A q \in Robots : FromOneTruck(Range(job'[q]))
    BY <1>3, <2>4 DEF RobotShelve, TasksOfOneTruck, PoolTypeOK
  <2>6. TasksOfOneTruck'
    BY <1>3, <2>5 DEF RobotShelve, TasksOfOneTruck, FromOneTruck, planVars, gateVars
  <2> QED BY <1>1, <1>2, <2>2, <2>3, <2>6
<1>4. CASE RobotPathDone(r)
  <2>1. PoolTypeOK' BY <1>4 DEF RobotPathDone, RobotGo, PoolTypeOK, RobotPC
  <2>2. PlanTypeOK' BY <1>4 DEF RobotPathDone, PlanTypeOK, planVars
  <2>3. TasksOfOneTruck'
    BY <1>4 DEF RobotPathDone, TasksOfOneTruck, FromOneTruck, planVars, gateVars
  <2> QED BY <1>1, <1>2, <2>1, <2>2, <2>3
<1> QED BY <1>3, <1>4

\* The types of what is recorded, kept beside IInv.
RecordsOK == shelved \in [Items -> Nat] /\ crossed \in BOOLEAN

LEMMA RecordsInv ==
    ASSUME PoolTypeOK, RecordsOK, [Next]_vars PROVE RecordsOK'
<1>1. CASE UNCHANGED shelved /\ crossed' \in BOOLEAN
  BY <1>1 DEF RecordsOK
<1>2. ASSUME NEW r \in Robots, RobotShelve(r) PROVE RecordsOK'
  <2>1. Last(job[r]) \in Items
    BY <1>2, FrontElements DEF RobotShelve, PoolTypeOK
  <2> QED BY <1>2, <2>1 DEF RobotShelve, RecordsOK
<1>3. Next => (UNCHANGED shelved /\ crossed' \in BOOLEAN) \/ \E r \in Robots : RobotShelve(r)
  <2>1. crossed \in BOOLEAN BY DEF RecordsOK
  <2> QED BY <2>1 DEF Next, HandlerStep, RobotStep, RobotPathDone, records
<1> QED BY <1>1, <1>2, <1>3 DEF vars, records, RecordsOK

-----------------------------------------------------------------------------
(* The theorems.                                                           *)

LEMMA NextInv == ASSUME IInv, [Next]_vars PROVE IInv'
<1>1. ASSUME NEW t \in Trucks, TruckThread(t) \/ SpuriousThread(t) PROVE IInv'
  BY <1>1, TruckStepInv
<1>2. CASE HandlerStep
  BY <1>2, HandlerGateInv, PlanItemInv, PlanOverloadInv, CountTaskInv, PlanRestInv,
     PushTaskInv, EndIterationInv DEF HandlerStep, HandlerPlan
<1>3. CASE PlanHang
  BY <1>3, PlanHangInv
<1>4. ASSUME NEW r \in Robots, RobotStep(r) PROVE IInv'
  BY <1>4, RobotSharedInv, RobotShelfInv DEF RobotStep
<1>5. CASE MenuStep
  BY <1>5, MenuInv
<1>6. CASE UNCHANGED vars
  BY <1>6, StutterInv DEF vars
<1>7. CASE \E t \in Trucks : TruckThread(t) \/ SpuriousThread(t)
  BY <1>1, <1>7
<1>8. CASE \E r \in Robots : RobotStep(r)
  BY <1>4, <1>8
<1> QED BY <1>2, <1>3, <1>5, <1>6, <1>7, <1>8 DEF Next

\* The invariant holds in every reachable state.
THEOREM Invariance == Spec => [](IInv /\ RecordsOK)
<1>1. Init => IInv /\ RecordsOK
  <2>1. Init => IInv /\ shelved \in [Items -> Nat] BY HandlerInitInv DEF Init
  <2>2. Init => crossed \in BOOLEAN BY Zenon DEF Init
  <2> QED BY <2>1, <2>2 DEF RecordsOK
<1>2. (IInv /\ RecordsOK) /\ [Next]_vars => (IInv /\ RecordsOK)'
  BY NextInv, RecordsInv DEF IInv
<1> QED BY <1>1, <1>2, PTL DEF Spec

\* Every variable of the restock dock stays in its type; the counters stay
\* within their width and tasks_Q within its size.
THEOREM TypeCorrect == Spec => []TypeOK
<1>1. IInv /\ RecordsOK => TypeOK BY DEF IInv, GateInv, RecordsOK, HandlerTypeOK, TypeOK
<1> QED BY <1>1, Invariance, PTL

\* Whatever the trucks, robots and menu do, at most one truck is between
\* taking the dock and announcing itself, and none is while the handler is
\* planning.
THEOREM OneTruck == Spec => []OneTruckAtDock
<1>1. IInv => OneTruckAtDock BY DEF IInv, GateInv
<1> QED BY <1>1, Invariance, PTL

\* mutex_rbuff is held by exactly the thread whose program point says so.
THEOREM MutexCorrect == Spec => []MutexOwned
<1>1. IInv => MutexOwned BY DEF IInv, GateInv
<1> QED BY <1>1, Invariance, PTL

\* No task, planned, queued or in work, carries the items of two trucks.
THEOREM OneTruckPerTask == Spec => []TasksOfOneTruck
<1>1. IInv => TasksOfOneTruck BY DEF IInv
<1> QED BY <1>1, Invariance, PTL
-----------------------------------------------------------------------------
(* The refinement of CargoService.                                         *)

RefinementInv == IInv /\ RecordsOK /\ EmptyHanded

LEMMA RefinementInvHolds == Spec => []RefinementInv
<1>1. Init => EmptyHanded
  BY DEF Init, HandlerInit, PoolInit, EmptyHanded
<1>2. ASSUME IInv, EmptyHanded, [Next]_vars PROVE EmptyHanded'
  <2>1. CASE \E r \in Robots : RobotShared(r) \/ MenuStep
    BY <1>2, <2>1, SharedEmptyHanded
  <2>2. ASSUME NEW r \in Robots, RobotShelve(r) \/ RobotPathDone(r) PROVE EmptyHanded'
    BY <1>2, <2>2 DEF RobotShelve, RobotPathDone, RobotGo, EmptyHanded, IInv, PoolTypeOK
  <2>3. CASE UNCHANGED <<rpc, job>>
    BY <1>2, <2>3, SharedEmptyHanded
  <2>4. \/ \E r \in Robots : RobotShared(r)
        \/ \E r \in Robots : RobotShelve(r) \/ RobotPathDone(r)
        \/ MenuStep
        \/ UNCHANGED <<rpc, job>>
    BY <1>2 DEF Next, vars, TruckThread, SpuriousThread, HandlerStep, HandlerGate, HandlerPlan,
       PlanItem, PlanOverload, CountTask, PlanRest, PushTask, EndIteration, PlanHang, RobotStep,
       poolVars
  <2>5. CASE MenuStep
    BY <1>2, <2>5, SharedEmptyHanded
  <2> QED BY <1>2, <2>1, <2>2, <2>3, <2>4, <2>5
<1>3. IInv /\ EmptyHanded /\ [Next]_vars => EmptyHanded' BY <1>2
<1> QED BY <1>1, <1>3, Invariance, PTL DEF RefinementInv, Spec

\* What is pending: all that is inside, but for a load that is already in
\* the task being counted.
LEMMA Pending ==
    ASSUME IInv, IsFiniteSet(Robots), NEW i
    PROVE  /\ UnitsInside(i) = Inside(i) - (IF hpc = "count" THEN UnitsIn(i, load) ELSE 0)
           /\ UnitsInside(i) \in Nat
<1>1. UnitsInside(i) = UnitsIn(i, buff) + (IF hpc = "count" THEN 0 ELSE UnitsIn(i, load))
                     + InPlanned(i, planned) + InQueue(i, tasksQ) + InHands(i, job)
  BY DEF UnitsInside, UnitsIn, InPlanned, InQueue, InHands
<1> QED BY <1>1, UnitsNat DEF Inside, Tasked

LEMMA NextPending ==
    ASSUME IInv', IsFiniteSet(Robots), NEW i
    PROVE  UnitsInside(i)' = Inside(i)' - (IF hpc' = "count" THEN UnitsIn(i, load)' ELSE 0)
<1>1. UnitsInside(i)' = UnitsIn(i, buff)' + (IF hpc' = "count" THEN 0 ELSE UnitsIn(i, load)')
                      + InPlanned(i, planned)' + InQueue(i, tasksQ)' + InHands(i, job)'
  BY DEF UnitsInside, UnitsIn, InPlanned, InQueue, InHands
<1> QED BY <1>1, UnitsNatNext DEF Inside, Tasked

\* While a task is being counted the load stays.
LEMMA LoadCounted ==
    ASSUME hpc = "count", SharedStep, NEW i PROVE UnitsIn(i, load)' = UnitsIn(i, load)
<1>1. UNCHANGED load
  BY DEF SharedStep, TruckThread, SpuriousThread, HandlerGate, PlanItem, EndIteration, PushTask,
     HandlerGo, RobotShared, MenuStep, planVars
<1> QED BY <1>1 DEF UnitsIn

\* Making tasks neither loses nor invents a unit.
LEMMA PlanningKeepsUnits ==
    ASSUME IInv, IInv', IsFiniteSet(Robots), PlanOverload \/ CountTask \/ PlanRest, NEW i \in Items
    PROVE  UnitsInside(i)' = UnitsInside(i)
<1>1. load \in Seq(Items) /\ UnitsIn(i, load) \in Nat
  BY UnitsNat DEF IInv, PlanTypeOK
<1>2. UnitsInside(i)' = Inside(i)' - (IF hpc' = "count" THEN UnitsIn(i, load)' ELSE 0)
  BY NextPending
<1>3. CASE PlanOverload
  <2>1. /\ hpc # "count" /\ hpc' = "count"
        /\ UNCHANGED <<buff, load, tasksQ, job>> /\ planned' = Append(planned, load)
    BY <1>3 DEF PlanOverload, HandlerGo, poolVars
  <2>2. Tasked(i)' = Tasked(i) + UnitsIn(i, load)
    BY <2>1, PlanUnits
  <2>3. UnitsIn(i, buff)' = UnitsIn(i, buff) /\ UnitsIn(i, load)' = UnitsIn(i, load)
    BY <2>1 DEF UnitsIn
  <2>4. Inside(i)' = Inside(i) + UnitsIn(i, load)
    BY <2>2, <2>3, UnitsNat DEF Inside
  <2> QED BY <1>1, <1>2, <2>1, <2>3, <2>4, Pending, UnitsNat
<1>4. CASE CountTask
  <2>1. /\ hpc = "count" /\ hpc' # "count" /\ buff # <<>> /\ TakeItem(<<>>)
        /\ UNCHANGED <<planned, tasksQ, job>>
    BY <1>4 DEF CountTask, HandlerGo, poolVars, IInv, BufferReady
  <2>2. UnitsIn(i, buff)' + UnitsIn(i, load)' = UnitsIn(i, buff) + UnitsIn(i, <<>>)
    <3>1. <<>> \in Seq(Items) OBVIOUS
    <3> QED BY <2>1, <3>1, TakeItemUnits
  <2>3. Tasked(i)' = Tasked(i)
    BY <2>1 DEF Tasked, InPlanned, InQueue, InHands, UnitsIn
  <2>4. UnitsInside(i)' = UnitsIn(i, buff)' + UnitsIn(i, load)' + Tasked(i)'
    BY <1>2, <2>1, UnitsNatNext DEF Inside
  <2>5. UnitsInside(i) = UnitsIn(i, buff) + Tasked(i)
    BY <2>1, Pending, UnitsNat DEF Inside
  <2> QED BY <2>2, <2>3, <2>4, <2>5, UnitsEmpty, UnitsNat
<1>5. CASE PlanRest
  <2>1. /\ hpc # "count" /\ hpc' # "count" /\ UNCHANGED <<buff, tasksQ, job>> /\ load' = <<>>
        /\ planned' = IF load # <<>> THEN Append(planned, load) ELSE planned
    BY <1>5 DEF PlanRest, HandlerGo, poolVars
  <2>2. Tasked(i)' = Tasked(i) + UnitsIn(i, load)
    <3>1. CASE load # <<>>
      BY <2>1, <3>1, PlanUnits
    <3>2. CASE load = <<>>
      <4>1. Tasked(i)' = Tasked(i)
        BY <2>1, <3>2 DEF Tasked, InPlanned, InQueue, InHands, UnitsIn
      <4> QED BY <3>2, <4>1, UnitsEmpty, UnitsNat
    <3> QED BY <3>1, <3>2
  <2>3. UnitsIn(i, buff)' = UnitsIn(i, buff) /\ UnitsIn(i, load)' = 0
    <3>1. UnitsIn(i, load') = 0 BY <2>1, UnitsEmpty
    <3> QED BY <2>1, <3>1 DEF UnitsIn
  <2>4. Inside(i)' = Inside(i)
    BY <2>2, <2>3, UnitsNat DEF Inside
  <2> QED BY <1>2, <2>1, <2>4, Pending, UnitsNat
<1> QED BY <1>3, <1>4, <1>5

\* Shelving takes one unit of one item out of what is pending.
LEMMA ShelvingKeepsUnits ==
    ASSUME IInv, IInv', RecordsOK, IsFiniteSet(Robots), NEW r \in Robots, RobotShelve(r), NEW i \in Items
    PROVE  /\ UnitsInside(i)' \in Nat /\ UnitsInside(i)' =< UnitsInside(i)
           /\ shelved'[i] = shelved[i] + (UnitsInside(i) - UnitsInside(i)')
<1>1. job[r] \in Seq(Items) /\ job[r] # <<>>
  BY DEF RobotShelve, IInv, PoolTypeOK
<1>2. /\ Front(job[r]) \in Seq(Items) /\ Last(job[r]) \in Items
      /\ UnitsIn(i, job[r]) = UnitsIn(i, Front(job[r])) + One(i)[Last(job[r])]
  BY <1>1, UnitsFront
<1>3. /\ UNCHANGED <<buff, load, hpc, planned, tasksQ>>
      /\ job' = [job EXCEPT ![r] = Front(job[r])]
  BY DEF RobotShelve, gateVars, planVars
<1>4. /\ Tasked(i)' = Tasked(i) - UnitsIn(i, job[r]) + UnitsIn(i, Front(job[r]))
      /\ UnitsIn(i, job[r]) \in Nat /\ UnitsIn(i, Front(job[r])) \in Nat
  BY <1>2, <1>3, HandleUnits
<1>5. shelved'[i] = shelved[i] + One(i)[Last(job[r])] /\ One(i)[Last(job[r])] \in Nat
  BY <1>2 DEF RobotShelve, RecordsOK, One
<1>6. UnitsInside(i)' = UnitsInside(i) - One(i)[Last(job[r])]
  <2>1. UnitsIn(i, buff)' = UnitsIn(i, buff) /\ UnitsIn(i, load)' = UnitsIn(i, load)
    BY <1>3 DEF UnitsIn
  <2>2. UnitsInside(i)' = UnitsIn(i, buff)' + (IF hpc' = "count" THEN 0 ELSE UnitsIn(i, load)')
                        + InPlanned(i, planned)' + InQueue(i, tasksQ)' + InHands(i, job)'
    BY DEF UnitsInside, UnitsIn, InPlanned, InQueue, InHands
  <2>3. /\ InPlanned(i, planned)' = InPlanned(i, planned) /\ InQueue(i, tasksQ)' = InQueue(i, tasksQ)
    BY <1>3 DEF InPlanned, InQueue, UnitsIn
  <2>4. InHands(i, job)' = InHands(i, job) - One(i)[Last(job[r])]
    <3>1. InHands(i, job') = InHands(i, job) - UnitsIn(i, job[r]) + UnitsIn(i, Front(job[r]))
      <4>1. job \in [Robots -> Seq(Items)] BY DEF IInv, PoolTypeOK
      <4> QED BY <1>2, <1>3, <4>1, HandsUnits
    <3>2. InHands(i, job)' = InHands(i, job') BY DEF InHands, UnitsIn
    <3>3. InHands(i, job) \in Nat BY UnitsNat
    <3> QED BY <1>2, <1>4, <1>5, <3>1, <3>2, <3>3
  <2>5. UnitsInside(i) = UnitsIn(i, buff) + (IF hpc = "count" THEN 0 ELSE UnitsIn(i, load))
                       + InPlanned(i, planned) + InQueue(i, tasksQ) + InHands(i, job)
    BY DEF UnitsInside, UnitsIn, InPlanned, InQueue, InHands
  <2> QED BY <1>3, <1>5, <2>1, <2>2, <2>3, <2>4, <2>5, UnitsNat
<1>7. UnitsInside(i) \in Nat BY Pending
<1>8. UnitsInside(i)' \in Nat
  <2>1. UnitsInside(i)' = UnitsIn(i, buff)' + (IF hpc' = "count" THEN 0 ELSE UnitsIn(i, load)')
                        + InPlanned(i, planned)' + InQueue(i, tasksQ)' + InHands(i, job)'
    BY DEF UnitsInside, UnitsIn, InPlanned, InQueue, InHands
  <2> QED BY <2>1, UnitsNatNext
<1> QED BY <1>5, <1>6, <1>7, <1>8 DEF RecordsOK
LEMMA ServiceStarts ==
    ASSUME Init, IsFiniteSet(Robots) PROVE Restock!Init
<1>1. IInv BY HandlerInitInv DEF Init
<1>2. /\ buff = <<>> /\ load = <<>> /\ planned = <<>> /\ tasksQ = <<>>
      /\ job = [r \in Robots |-> <<>>] /\ hpc = "open"
      /\ tpc = [t \in Trucks |-> "called"] /\ shelved = [i \in Items |-> 0]
  BY DEF Init, HandlerInit, GateInit, PoolInit
<1>3. ASSUME NEW i \in Items PROVE UnitsInside(i) = 0
  BY <1>1, <1>2, NothingInside, Pending
<1> QED BY <1>2, <1>3 DEF Restock!Init

LEMMA ServiceSteps ==
    ASSUME RefinementInv, RefinementInv', IsFiniteSet(Robots), [Next]_vars
    PROVE  [Restock!Next]_(Restock!vars)
<1> USE DEF RefinementInv
<1>2. ASSUME Waiting' = Waiting, \A i \in Items : UnitsInside(i)' = UnitsInside(i), UNCHANGED shelved
      PROVE  UNCHANGED Restock!vars
  BY <1>2 DEF Restock!vars, Waiting
<1>3. ASSUME SharedStep, UNCHANGED shelved PROVE UNCHANGED Restock!vars
  <2>1. /\ Waiting' = Waiting
        /\ \A i \in Items : Inside(i)' = Inside(i)
        /\ UNCHANGED hpc \/ (hpc # "count" /\ hpc' # "count")
    BY <1>3, SharedKeepsUnits
  <2>2. ASSUME NEW i \in Items PROVE UnitsInside(i)' = UnitsInside(i)
    <3>1. UnitsInside(i) = Inside(i) - (IF hpc = "count" THEN UnitsIn(i, load) ELSE 0)
      BY Pending
    <3>2. UnitsInside(i)' = Inside(i)' - (IF hpc' = "count" THEN UnitsIn(i, load)' ELSE 0)
      BY NextPending
    <3>3. hpc = "count" => UnitsIn(i, load)' = UnitsIn(i, load)
      BY <1>3, LoadCounted
    <3> QED BY <2>1, <2>2, <3>1, <3>2, <3>3
  <2> QED BY <1>2, <1>3, <2>1, <2>2
<1>4. ASSUME NEW t \in Trucks, TruckThread(t), TruckUnload(t), UNCHANGED shelved
      PROVE  Restock!Next
  <2>1. /\ t \in Waiting /\ Waiting' = Waiting \ {t} /\ UNCHANGED hpc /\ hpc = "await"
        /\ \A i \in Items : Inside(i)' = Inside(i) + UnitsIn(i, Cargo[t])
    BY <1>4, UnloadUnits
  <2>2. \A i \in Items : UnitsInside(i)' = UnitsInside(i) + UnitsIn(i, Cargo[t])
    <3>1. \A i \in Items : UnitsInside(i) = Inside(i) - 0 /\ UnitsInside(i)' = Inside(i)' - 0
      BY <2>1, Pending, NextPending
    <3>2. \A i \in Items : Inside(i) \in Nat /\ UnitsIn(i, Cargo[t]) \in Nat
      BY UnitsNat, UnitsOfSequence, GateAssumption
    <3> QED BY <2>1, <3>1, <3>2
  <2>3. Restock!Unload(t)
    <3>1. ASSUME NEW i PROVE Restock!Units(Cargo[t], i) = UnitsIn(i, Cargo[t])
      <4>1. Restock!Units(Cargo[t], i) = Cardinality({k \in DOMAIN Cargo[t] : Cargo[t][k] = i})
        BY DEF Restock!Units, Cardinality, Restock!Cardinality
      <4> QED BY <4>1 DEF UnitsIn
    <3>2. [i \in Items |-> UnitsInside(i)']
            = [i \in Items |-> [j \in Items |-> UnitsInside(j)][i] + Restock!Units(Cargo[t], i)]
      BY <2>2, <3>1
    <3>3. t \in Waiting /\ Waiting' = Waiting \ {t} /\ UNCHANGED shelved
      BY <1>4, <2>1
    <3> QED BY <3>2, <3>3 DEF Restock!Unload, Waiting
  <2> QED BY <2>3 DEF Restock!Next
<1>5. ASSUME NEW r \in Robots, RobotShelve(r) PROVE Restock!Next
  <2>1. \A i \in Items : /\ UnitsInside(i)' \in Nat /\ UnitsInside(i)' =< UnitsInside(i)
                         /\ shelved'[i] = shelved[i] + (UnitsInside(i) - UnitsInside(i)')
    BY <1>5, ShelvingKeepsUnits
  <2>2. UNCHANGED tpc BY <1>5 DEF RobotShelve, gateVars
  <2>3. shelved' \in [Items -> Nat] BY DEF RecordsOK
  <2>4. \A i \in Items : shelved[i] =< shelved'[i] /\ UnitsInside(i) \in Nat
    BY <2>1, Pending DEF RecordsOK
  <2>5. Restock!Handle
    BY <2>1, <2>2, <2>3, <2>4 DEF Restock!Handle
  <2> QED BY <2>5 DEF Restock!Next
<1>6. ASSUME PlanOverload \/ CountTask \/ PlanRest, UNCHANGED shelved PROVE UNCHANGED Restock!vars
  <2>1. \A i \in Items : UnitsInside(i)' = UnitsInside(i)
    BY <1>6, PlanningKeepsUnits
  <2>2. UNCHANGED tpc \/ NotifyOne
    BY <1>6 DEF PlanOverload, CountTask, PlanRest
  <2> QED BY <1>2, <1>6, <2>1, <2>2, WaitingKept
<1>7. ASSUME UNCHANGED <<tpc, buff, load, planned, tasksQ, job, shelved>>,
             UNCHANGED hpc \/ (hpc # "count" /\ hpc' # "count")
      PROVE  UNCHANGED Restock!vars
  <2>1. \A i \in Items : UnitsInside(i)' = UnitsInside(i)
    BY <1>7 DEF UnitsInside
  <2> QED BY <1>2, <1>7, <2>1, WaitingKept
<1>8. CASE PlanHang /\ UNCHANGED records
  BY <1>7, <1>8 DEF PlanHang, HandlerGo, planVars, poolVars, records
<1>9. ASSUME NEW r \in Robots, RobotPathDone(r) PROVE UNCHANGED Restock!vars
  BY <1>7, <1>9 DEF RobotPathDone, gateVars, planVars, records
<1>10. CASE UNCHANGED vars
  BY <1>7, <1>10 DEF vars, gateVars, planVars, poolVars, records
<1>11. ASSUME NEW t \in Trucks, TruckThread(t) \/ SpuriousThread(t), UNCHANGED shelved
       PROVE  [Restock!Next]_(Restock!vars)
  BY <1>3, <1>4, <1>11 DEF SharedStep, SpuriousThread
<1>12. CASE HandlerStep
  BY <1>3, <1>6, <1>12 DEF SharedStep, HandlerStep, HandlerPlan
<1>13. ASSUME NEW r \in Robots, RobotStep(r) PROVE [Restock!Next]_(Restock!vars)
  BY <1>3, <1>5, <1>9, <1>13 DEF SharedStep, RobotStep
<1>14. CASE MenuStep /\ UNCHANGED records
  BY <1>3, <1>14 DEF SharedStep, records
<1>15. CASE \E t \in Trucks : (TruckThread(t) \/ SpuriousThread(t)) /\ UNCHANGED records
  BY <1>11, <1>15 DEF records
<1>16. CASE \E r \in Robots : RobotStep(r)
  BY <1>13, <1>16
<1> HIDE DEF RefinementInv
<1> QED
  <2>1. UNCHANGED Restock!vars => [Restock!Next]_(Restock!vars) OBVIOUS
  <2>2. Next => [Restock!Next]_(Restock!vars)
    BY <1>8, <1>12, <1>14, <1>15, <1>16, <2>1, Zenon DEF Next
  <2> QED BY <1>10, <2>1, <2>2, Zenon

\* The threads of the restock dock, any number of trucks and of robots,
\* implement the cargo service: the cargo of a truck enters at once, and no
\* unit is lost, duplicated or invented on its way to a shelf.
THEOREM ShelvesWhatComes ==
    ASSUME IsFiniteSet(Robots) PROVE Spec => ImplementsCargoService
<1>1. Init => Restock!Init BY ServiceStarts
<1>2. RefinementInv /\ RefinementInv' /\ [Next]_vars => [Restock!Next]_(Restock!vars)
  BY ServiceSteps
<1> QED BY <1>1, <1>2, RefinementInvHolds, PTL DEF Spec, ImplementsCargoService, Restock!Spec
-----------------------------------------------------------------------------
(* Capacity.  What the handler weighs is at least its load: the weight of  *)
(* a task that was made stays in it until the end of the iteration.        *)

CapacityInv == MassOf(load) =< weight /\ CapacityRespected

\* The steps that put an item, or the next item, in the load.
LEMMA CapacityOfLoads ==
    ASSUME IInv, CapacityInv, PlanItem \/ CountTask PROVE CapacityInv'
<1>1. /\ load \in Seq(Items) /\ weight \in Nat /\ buff \in Seq(Items) /\ buff # <<>>
      /\ UNCHANGED <<planned, tasksQ, job>>
  BY DEF IInv, GateInv, GateTypeOK, PlanTypeOK, PlanItem, CountTask, HandlerGo, BufferReady, poolVars
<1> DEFINE e == Last(buff)
<1>2. e \in Items BY <1>1, FrontElements
<1> HIDE DEF e
<1>3. MassOf(load) \in Nat /\ Mass[e] \in Nat /\ Mass[e] < Capacity /\ Capacity \in Nat
  BY <1>1, <1>2, Masses, HandlerAssumption
<1>4. MassOf(load') =< weight' /\ Light(load')
  <2>1. CASE PlanItem
    <3>1. load' = Append(load, e) /\ weight' = weight + Mass[e] /\ ~ (weight + Mass[e] >= Capacity)
      BY <2>1 DEF PlanItem, TakeItem, Overloaded, e
    <3>2. MassOf(load') = MassOf(load) + Mass[e] BY <1>1, <1>2, <3>1, Masses
    <3> QED BY <1>1, <1>3, <3>1, <3>2 DEF CapacityInv, Light
  <2>2. CASE CountTask
    <3>1. load' = Append(<<>>, e) /\ weight' = weight + Mass[e]
      BY <2>2 DEF CountTask, TakeItem, e
    <3>2. <<>> \in Seq(Items) OBVIOUS
    <3>3. MassOf(load') = 0 + Mass[e] BY <1>2, <3>1, <3>2, Masses
    <3> QED BY <1>1, <1>3, <3>1, <3>3 DEF Light
  <2> QED BY <2>1, <2>2
<1> QED BY <1>1, <1>4 DEF CapacityInv, CapacityRespected, Light, MassOf

\* The steps that make a task of it.
LEMMA CapacityOfTasks ==
    ASSUME IInv, CapacityInv, PlanOverload \/ PlanRest PROVE CapacityInv'
<1>1. /\ load \in Seq(Items) /\ weight \in Nat /\ planned \in Seq(Seq(Items))
      /\ UNCHANGED <<weight, tasksQ, job>> /\ load' \in {load, <<>>}
      /\ planned' \in {planned, Append(planned, load)}
  BY DEF IInv, PlanTypeOK, PlanOverload, PlanRest, poolVars
<1>2. MassOf(load') =< weight' /\ Light(load')
  BY <1>1, Masses DEF CapacityInv, CapacityRespected, Light
<1>3. \A k \in DOMAIN planned' : (k \in DOMAIN planned /\ planned'[k] = planned[k]) \/ planned'[k] = load
  <2>1. CASE planned' = planned BY <2>1
  <2>2. CASE planned' = Append(planned, load) BY <1>1, <2>2, AppendElements
  <2> QED BY <1>1, <2>1, <2>2
<1>4. \A k \in DOMAIN planned' : Light(planned'[k])
  BY <1>3 DEF CapacityInv, CapacityRespected, Light
<1> QED BY <1>1, <1>2, <1>4 DEF CapacityInv, CapacityRespected, Light, MassOf

\* The steps that pass tasks on, and the robots'.
LEMMA CapacityOfRobots ==
    ASSUME IInv, CapacityInv,
           \/ PushTask("TTrestock")
           \/ \E r \in Robots : RobotShared(r) \/ RobotShelve(r) \/ RobotPathDone(r)
           \/ MenuStep
    PROVE  CapacityInv'
<1>1. /\ planned \in Seq(Seq(Items)) /\ tasksQ \in Seq(Task) /\ job \in [Robots -> Seq(Items)]
      /\ UNCHANGED <<load, weight>>
  BY DEF IInv, PlanTypeOK, PoolTypeOK, PushTask, RobotShared, RobotShelve, RobotPathDone, MenuStep,
     planVars
<1>2. SUFFICES /\ \A k \in DOMAIN planned' : Light(planned'[k])
               /\ \A k \in DOMAIN tasksQ' : Light(tasksQ'[k].items)
               /\ \A r \in Robots : Light(job'[r])
  BY <1>1 DEF CapacityInv, CapacityRespected, Light, MassOf
<1>3. /\ \A k \in DOMAIN planned : Light(planned[k])
      /\ \A k \in DOMAIN tasksQ : Light(tasksQ[k].items)
      /\ \A r \in Robots : Light(job[r])
  BY DEF CapacityInv, CapacityRespected, Light
<1>4. CASE PushTask("TTrestock")
  <2>1. /\ 1 \in DOMAIN planned /\ Head(planned) = planned[1] /\ Head(planned) \in Seq(Items)
        /\ \A k \in DOMAIN Tail(planned) : k + 1 \in DOMAIN planned /\ Tail(planned)[k] = planned[k + 1]
    BY <1>1, <1>4, TailElements DEF PushTask
  <2> DEFINE task == WorkTask("TTrestock", Head(planned))
  <2>2. task \in Task /\ task.items = planned[1]
    BY <2>1 DEF WorkTask, Task
  <2>3. planned' = Tail(planned) /\ tasksQ' = Append(tasksQ, task) /\ job' = job
    BY <1>4 DEF PushTask
  <2> HIDE DEF task
  <2>4. \A k \in DOMAIN tasksQ' : (k \in DOMAIN tasksQ /\ tasksQ'[k] = tasksQ[k]) \/ tasksQ'[k] = task
    BY <1>1, <2>2, <2>3, AppendElements
  <2> QED BY <1>3, <2>1, <2>2, <2>3, <2>4
<1>5. ASSUME NEW r \in Robots, RobotTake(r), UNCHANGED planVars PROVE <1>2!1
  <2>1. /\ 1 \in DOMAIN tasksQ /\ Head(tasksQ) = tasksQ[1]
        /\ \A k \in DOMAIN Tail(tasksQ) : k + 1 \in DOMAIN tasksQ /\ Tail(tasksQ)[k] = tasksQ[k + 1]
    BY <1>1, <1>5, TailElements DEF RobotTake
  <2>2. planned' = planned /\ tasksQ' = Tail(tasksQ)
    BY <1>5 DEF RobotTake, planVars
  <2>3. \A q \in Robots : job'[q] = job[q] \/ job'[q] = tasksQ[1].items
    BY <1>1, <1>5, <2>1 DEF RobotTake
  <2> QED BY <1>3, <2>1, <2>2, <2>3
<1>6. ASSUME NEW r \in Robots, CountDown(r), UNCHANGED planVars PROVE <1>2!1
  <2>1. UNCHANGED <<planned, tasksQ, job>>
    BY <1>6 DEF CountDown, RobotCheck, RobotLoad, RobotStore, RobotNotify, planVars
  <2> QED BY <1>3, <2>1
<1>7. ASSUME NEW r \in Robots, RobotShelve(r) PROVE <1>2!1
  <2>1. /\ UNCHANGED <<planned, tasksQ>> /\ job[r] # <<>> /\ job[r] \in Seq(Items)
        /\ job' = [job EXCEPT ![r] = Front(job[r])]
    BY <1>1, <1>7 DEF RobotShelve, planVars
  <2>2. Light(Front(job[r]))
    <3>1. /\ Front(job[r]) \in Seq(Items) /\ Last(job[r]) \in Items
          /\ MassOf(job[r]) = MassOf(Front(job[r])) + Mass[Last(job[r])]
      BY <2>1, Masses
    <3>2. MassOf(Front(job[r])) \in Nat /\ Mass[Last(job[r])] \in Nat BY <3>1, Masses
    <3>3. MassOf(job[r]) < Capacity BY <1>3 DEF Light
    <3> QED BY <3>1, <3>2, <3>3, HandlerAssumption DEF Light
  <2>3. \A q \in Robots : job'[q] = IF q = r THEN Front(job[r]) ELSE job[q]
    BY <1>1, <2>1
  <2> QED BY <1>3, <2>1, <2>2, <2>3
<1>8. ASSUME NEW r \in Robots, RobotPathDone(r) PROVE <1>2!1
  BY <1>3, <1>8 DEF RobotPathDone, planVars
<1>9. CASE MenuStep
  <2>1. /\ UNCHANGED <<planned, job>>
        /\ \A k \in DOMAIN tasksQ' :
              (k \in DOMAIN tasksQ /\ tasksQ'[k] = tasksQ[k]) \/ tasksQ'[k] = PoisonTask
    <3>1. PoisonTask \in Task BY DEF Task
    <3>2. CASE MenuRobotMinus /\ UNCHANGED planVars
      <4>1. tasksQ' = Append(tasksQ, PoisonTask) /\ UNCHANGED <<planned, job>>
        BY <3>2 DEF MenuRobotMinus, planVars
      <4> QED BY <1>1, <3>1, <4>1, AppendElements
    <3>3. ASSUME NEW r \in Robots, MenuRobotPlus(r), UNCHANGED planVars
          PROVE  UNCHANGED <<planned, tasksQ, job>>
      BY <3>3 DEF MenuRobotPlus, planVars
    <3> QED BY <1>9, <3>2, <3>3 DEF MenuStep
  <2>2. Light(PoisonTask.items)
    BY Masses DEF PoisonTask, WorkTask
  <2> QED BY <1>3, <2>1, <2>2
<1> QED BY <1>4, <1>5, <1>6, <1>7, <1>8, <1>9 DEF RobotShared

LEMMA CapacityStep ==
    ASSUME IInv, CapacityInv, [Next]_vars PROVE CapacityInv'
<1>1. CASE UNCHANGED <<load, weight, planned, tasksQ, job>>
  BY <1>1 DEF CapacityInv, CapacityRespected, MassOf
<1>2. CASE EndIteration
  <2>1. weight' = 0 /\ load = <<>> /\ UNCHANGED <<load, planned, tasksQ, job>>
    BY <1>2 DEF EndIteration, HandlerGo, poolVars, IInv, BufferReady
  <2>2. MassOf(load') =< weight' BY <2>1, Masses
  <2> QED BY <2>1, <2>2 DEF CapacityInv, CapacityRespected, MassOf
<1>3. CASE PlanItem \/ CountTask BY <1>3, CapacityOfLoads
<1>4. CASE PlanOverload \/ PlanRest BY <1>4, CapacityOfTasks
<1>5. CASE \/ PushTask("TTrestock")
           \/ \E r \in Robots : RobotShared(r) \/ RobotShelve(r) \/ RobotPathDone(r)
           \/ MenuStep
  BY <1>5, CapacityOfRobots
<1>6. \/ UNCHANGED <<load, weight, planned, tasksQ, job>>
      \/ EndIteration \/ PlanItem \/ CountTask \/ PlanOverload \/ PlanRest
      \/ PushTask("TTrestock")
      \/ \E r \in Robots : RobotShared(r) \/ RobotShelve(r) \/ RobotPathDone(r)
      \/ MenuStep
  BY DEF Next, vars, TruckThread, SpuriousThread, HandlerStep, HandlerGate, HandlerPlan, PlanHang,
     RobotStep, poolVars, planVars
<1> QED BY <1>1, <1>2, <1>3, <1>4, <1>5, <1>6

\* No robot of the restock dock is sent out with MAX_ROBOT_CAPACITY or more,
\* whatever the masses and however the truck was loaded: only a single item
\* as heavy as that could make it so, and there is none.
THEOREM NoOverload == Spec => []CapacityRespected
<1>1. Init => CapacityInv
  <2> SUFFICES ASSUME Init PROVE CapacityInv OBVIOUS
  <2>1. /\ load = <<>> /\ weight = 0 /\ planned = <<>> /\ tasksQ = <<>>
        /\ job = [r \in Robots |-> <<>>]
    BY DEF Init, HandlerInit, PoolInit
  <2>2. DOMAIN <<>> = {} OBVIOUS
  <2> QED BY <2>1, <2>2, Masses DEF CapacityInv, CapacityRespected, Light
<1>2. IInv /\ CapacityInv /\ [Next]_vars => CapacityInv' BY CapacityStep
<1>3. CapacityInv => CapacityRespected BY DEF CapacityInv
<1> QED BY <1>1, <1>2, <1>3, Invariance, PTL DEF Spec
-----------------------------------------------------------------------------
(* The task counter.  Until two threads cross, every thread that is about  *)
(* to store to restocktaskid holds its value, and one that is about to     *)
(* decrement it has seen it positive.  An increment takes an item from the *)
(* buffer, so the counter is also at most the number of items that came.   *)

\* Items that came with all the trucks, and of those not yet planned
Came == SumFunction([t \in Trucks |-> Len(Cargo[t])])
NotMoored == SumFunction([t \in Trucks |->
                 IF tpc[t] \in {"called", "moored"} THEN Len(Cargo[t]) ELSE 0])
Unplanned == Len(buff) + NotMoored

Counted ==
    /\ taskcount + Unplanned =< Came
    /\ taskcount =< TasksUnderWay
    /\ hpc = "count" => hreg = taskcount /\ planned # <<>> /\ taskcount < TasksUnderWay
    /\ \A r \in Robots :
          /\ rpc[r] = "dec" => 0 < taskcount
          /\ rpc[r] = "store" => 0 < taskcount /\ rreg[r] = taskcount

CountedInv == ~ crossed => Counted

\* What is not planned is counted by a natural number, now and next.
LEMMA UnplannedNat ==
    ASSUME IInv, IsFiniteSet(Trucks)
    PROVE  Len(buff) \in Nat /\ NotMoored \in Nat /\ Unplanned \in Nat
<1> DEFINE f == [t \in Trucks |-> IF tpc[t] \in {"called", "moored"} THEN Len(Cargo[t]) ELSE 0]
<1>1. f \in [Trucks -> Nat] BY GateAssumption
<1> HIDE DEF f
<1>2. SumFunction(f) \in Nat BY <1>1, FunctionSum, TotalNat
<1>3. NotMoored \in Nat BY <1>2 DEF f, NotMoored
<1>4. Len(buff) \in Nat BY DEF IInv, GateInv, GateTypeOK
<1> QED BY <1>3, <1>4 DEF Unplanned

LEMMA CameNat == ASSUME IsFiniteSet(Trucks) PROVE Came \in Nat /\ Came' = Came
<1> DEFINE f == [t \in Trucks |-> Len(Cargo[t])]
<1>1. f \in [Trucks -> Nat] BY GateAssumption
<1> HIDE DEF f
<1>2. SumFunction(f) \in Nat BY <1>1, FunctionSum, TotalNat
<1>3. Came' = Came BY DEF Came
<1> QED BY <1>2, <1>3 DEF f, Came

\* A cargo moves from the trucks to an empty buffer.
LEMMA UnloadKeepsUnplanned ==
    ASSUME IInv, IsFiniteSet(Trucks), NEW t \in Trucks, TruckUnload(t)
    PROVE  Unplanned' = Unplanned
<1>1. /\ tpc \in [Trucks -> TruckPC] /\ tpc[t] = "moored"
      /\ tpc' = [tpc EXCEPT ![t] = "unloaded"]
  BY DEF IInv, GateInv, GateTypeOK, TruckUnload, TruckGo
<1>2. buff = <<>> /\ buff' = Cargo[t]
  <2>1. buff = <<>> BY <1>1 DEF IInv, BufferReady
  <2> QED BY <2>1, GateAssumption DEF TruckUnload
<1> DEFINE f == [u \in Trucks |-> IF tpc[u] \in {"called", "moored"} THEN Len(Cargo[u]) ELSE 0]
           g == [u \in Trucks |-> IF tpc'[u] \in {"called", "moored"} THEN Len(Cargo[u]) ELSE 0]
           n == Len(Cargo[t])
<1>3. f \in [Trucks -> Nat] /\ g \in [Trucks -> Nat] /\ n \in Nat
  BY GateAssumption
<1>4. f[t] = n /\ g[t] = 0 /\ \A u \in Trucks : u # t => g[u] = f[u]
  BY <1>1
<1>5. NotMoored = SumFunction(f) /\ NotMoored' = SumFunction(g)
  BY DEF NotMoored
<1>6. Len(buff) = 0 /\ Len(buff') = n BY <1>2
<1> HIDE DEF f, g, n
<1>7. SumFunction(f) = Total(f, Trucks) /\ SumFunction(g) = Total(g, Trucks)
  BY <1>3, FunctionSum
<1>8. Total(g, Trucks) = Total(f, Trucks) - f[t] + g[t]
  BY ONLY <1>3, <1>4, IsFiniteSet(Trucks), t \in Trucks, TotalMove
<1>9. Total(f, Trucks) \in Nat BY <1>3, TotalNat
<1> QED BY <1>3, <1>4, <1>5, <1>6, <1>7, <1>8, <1>9 DEF Unplanned

\* Every other step that does not take an item leaves both alone.
LEMMA OthersKeepUnplanned ==
    ASSUME IInv, UNCHANGED buff,
           \/ UNCHANGED tpc
           \/ NotifyOne
           \/ \E t \in Trucks : (TruckStep(t) /\ ~ TruckUnload(t)) \/ SpuriousWake(t)
    PROVE  Unplanned' = Unplanned
<1>1. Waiting' = Waiting BY WaitingKept
<1>2. \A t \in Trucks : tpc'[t] \in {"called", "moored"} <=> tpc[t] \in {"called", "moored"}
  BY <1>1 DEF Waiting
<1>3. [t \in Trucks |-> IF tpc'[t] \in {"called", "moored"} THEN Len(Cargo[t]) ELSE 0]
       = [t \in Trucks |-> IF tpc[t] \in {"called", "moored"} THEN Len(Cargo[t]) ELSE 0]
  BY <1>2
<1>4. NotMoored' = NotMoored BY <1>3 DEF NotMoored
<1> QED BY <1>4 DEF Unplanned

LEMMA TakingPlans ==
    ASSUME IInv, IsFiniteSet(Trucks), buff # <<>>, buff' = Front(buff),
           UNCHANGED tpc \/ NotifyOne
    PROVE  Unplanned' = Unplanned - 1
<1>1. Len(Front(buff)) = Len(buff) - 1
  BY FrontLast DEF IInv, GateInv, GateTypeOK
<1>2. Waiting' = Waiting BY WaitingKept
<1>3. \A t \in Trucks : tpc'[t] \in {"called", "moored"} <=> tpc[t] \in {"called", "moored"}
  BY <1>2 DEF Waiting
<1>4. [t \in Trucks |-> IF tpc'[t] \in {"called", "moored"} THEN Len(Cargo[t]) ELSE 0]
       = [t \in Trucks |-> IF tpc[t] \in {"called", "moored"} THEN Len(Cargo[t]) ELSE 0]
  BY <1>3
<1>5. NotMoored' = NotMoored BY <1>4 DEF NotMoored
<1>6. Len(buff) \in Nat /\ NotMoored \in Nat BY UnplannedNat
<1> QED BY <1>1, <1>5, <1>6 DEF Unplanned

\* The tasks under way: those queued, and the robots at one.
One01(b) == IF b THEN 1 ELSE 0
Busy == {"work", "check", "dec", "store"}
Queued(q) == SumFunction([k \in DOMAIN q |-> One01(q[k] # PoisonTask)])
AtWork(pc) == SumFunction([r \in Robots |-> One01(pc[r] \in Busy)])

LEMMA UnderWay ==
    /\ TasksUnderWay = Len(planned) + Queued(tasksQ) + AtWork(rpc)
    /\ TasksUnderWay' = Len(planned') + Queued(tasksQ') + AtWork(rpc')
  BY DEF TasksUnderWay, Queued, AtWork, One01, Busy

LEMMA QueuedTasks ==
    ASSUME NEW q, q \in Seq(Task)
    PROVE  /\ Queued(q) \in Nat
           /\ \A task \in Task : Queued(Append(q, task)) = Queued(q) + One01(task # PoisonTask)
           /\ q # <<>> => Queued(q) = One01(Head(q) # PoisonTask) + Queued(Tail(q))
<1> DEFINE f == [task \in Task |-> One01(task # PoisonTask)]
<1>1. f \in [Task -> Nat] /\ \A task \in Task : f[task] = One01(task # PoisonTask)
  BY DEF One01
<1>2. ASSUME NEW p, p \in Seq(Task) PROVE Queued(p) = SumOf(f, p)
  <2>1. \A k \in DOMAIN p : p[k] \in Task
    BY <1>2, LenProperties, ElementOfSeq
  <2>2. [k \in DOMAIN p |-> One01(p[k] # PoisonTask)] = Weighed(f, p)
    BY <2>1 DEF Weighed
  <2> QED BY <2>2 DEF Queued, SumOf
<1> HIDE DEF f
<1>3. SumOf(f, q) \in Nat BY <1>1, SumOfNat
<1>4. ASSUME NEW task \in Task PROVE Queued(Append(q, task)) = Queued(q) + f[task]
  <2>1. Append(q, task) \in Seq(Task) BY AppendProperties
  <2>2. SumOf(f, Append(q, task)) = SumOf(f, q) + f[task] BY <1>1, SumOfAppend
  <2> QED BY <1>2, <2>1, <2>2
<1>5. ASSUME q # <<>> PROVE Queued(q) = f[Head(q)] + Queued(Tail(q)) /\ Head(q) \in Task
  <2>1. /\ Tail(q) \in Seq(Task) /\ Head(q) \in Task
        /\ SumOf(f, q) = f[Head(q)] + SumOf(f, Tail(q))
    BY <1>1, <1>5, SumOfTail
  <2> QED BY <1>2, <2>1
<1> QED BY <1>1, <1>2, <1>3, <1>4, <1>5

LEMMA RobotsAtWork ==
    ASSUME IsFiniteSet(Robots), NEW pc, pc \in [Robots -> RobotPC]
    PROVE  /\ AtWork(pc) \in Nat
           /\ \A r \in Robots : pc[r] \in Busy => 1 =< AtWork(pc)
           /\ \A r \in Robots, to \in RobotPC :
                 AtWork([pc EXCEPT ![r] = to]) = AtWork(pc) - One01(pc[r] \in Busy) + One01(to \in Busy)
<1> DEFINE F(p) == [r \in Robots |-> One01(p[r] \in Busy)]
<1>1. ASSUME NEW p PROVE F(p) \in [Robots -> Nat] /\ AtWork(p) = Total(F(p), Robots)
  <2>1. F(p) \in [Robots -> Nat] BY DEF One01
  <2> HIDE DEF F
  <2>2. SumFunction(F(p)) = Total(F(p), Robots) BY <2>1, FunctionSum
  <2> QED BY <2>1, <2>2 DEF F, AtWork
<1>2. AtWork(pc) \in Nat /\ \A r \in Robots : F(pc)[r] =< AtWork(pc)
  <2> HIDE DEF F
  <2> QED BY <1>1, TotalNat
<1>3. \A r \in Robots : pc[r] \in Busy => 1 =< AtWork(pc)
  BY <1>2 DEF One01
<1>4. ASSUME NEW r \in Robots, NEW to \in RobotPC
      PROVE  AtWork([pc EXCEPT ![r] = to]) = AtWork(pc) - One01(pc[r] \in Busy) + One01(to \in Busy)
  <2> DEFINE p == [pc EXCEPT ![r] = to]
  <2>1. F(p)[r] = One01(to \in Busy) /\ F(pc)[r] = One01(pc[r] \in Busy)
    OBVIOUS
  <2>2. \A x \in Robots : x # r => F(p)[x] = F(pc)[x]
    OBVIOUS
  <2> HIDE DEF F, p
  <2>3. Total(F(p), Robots) = Total(F(pc), Robots) - F(pc)[r] + F(p)[r]
    <3>1. F(p) \in [Robots -> Nat] /\ F(pc) \in [Robots -> Nat] BY <1>1
    <3> DEFINE f == F(pc)
               g == F(p)
    <3>2. f \in [Robots -> Nat] /\ g \in [Robots -> Nat] /\ \A x \in Robots : x # r => g[x] = f[x]
      BY <2>2, <3>1
    <3> HIDE DEF f, g
    <3>3. Total(g, Robots) = Total(f, Robots) - f[r] + g[r]
      BY <3>2, TotalMove
    <3> QED BY <3>3 DEF f, g
  <2>4. AtWork(p) = AtWork(pc) - F(pc)[r] + F(p)[r] BY <1>1, <2>3
  <2> QED BY <2>1, <2>4 DEF p
<1> QED BY <1>2, <1>3, <1>4

\* Their number is a natural number, and no smaller than the list of tasks.
LEMMA UnderWayNat ==
    ASSUME IInv, IsFiniteSet(Robots)
    PROVE  /\ TasksUnderWay \in Nat /\ Len(planned) =< TasksUnderWay
           /\ Len(planned) \in Nat /\ Queued(tasksQ) \in Nat /\ AtWork(rpc) \in Nat
<1>1. planned \in Seq(Seq(Items)) /\ tasksQ \in Seq(Task) /\ rpc \in [Robots -> RobotPC]
  BY DEF IInv, PlanTypeOK, PoolTypeOK
<1>2. Len(planned) \in Nat BY <1>1
<1>3. Queued(tasksQ) \in Nat /\ AtWork(rpc) \in Nat BY <1>1, QueuedTasks, RobotsAtWork
<1> QED BY <1>2, <1>3, UnderWay

LEMMA NextUnderWayNat ==
    ASSUME IInv', IsFiniteSet(Robots)
    PROVE  TasksUnderWay' \in Nat /\ Len(planned)' =< TasksUnderWay'
<1>1. planned' \in Seq(Seq(Items)) /\ tasksQ' \in Seq(Task) /\ rpc' \in [Robots -> RobotPC]
  BY DEF IInv, PlanTypeOK, PoolTypeOK
<1>2. Len(planned') \in Nat BY <1>1
<1>3. Queued(tasksQ') \in Nat /\ AtWork(rpc') \in Nat BY <1>1, QueuedTasks, RobotsAtWork
<1> QED BY <1>2, <1>3, UnderWay

\* A task passes from the list to the queue and from there to a robot.
LEMMA PushUnderWay ==
    ASSUME IInv, IsFiniteSet(Robots), PushTask("TTrestock")
    PROVE  TasksUnderWay' = TasksUnderWay
<1>1. /\ planned \in Seq(Seq(Items)) /\ planned # <<>> /\ tasksQ \in Seq(Task)
      /\ planned' = Tail(planned) /\ rpc' = rpc
      /\ tasksQ' = Append(tasksQ, WorkTask("TTrestock", Head(planned)))
  BY DEF IInv, PlanTypeOK, PoolTypeOK, PushTask
<1>2. Head(planned) \in Seq(Items) /\ Len(Tail(planned)) = Len(planned) - 1 /\ Len(planned) \in Nat
  BY <1>1, TailElements, EmptySeq
<1> DEFINE task == WorkTask("TTrestock", Head(planned))
<1>3. task \in Task /\ task # PoisonTask
  BY <1>2 DEF Task, WorkTask, PoisonTask
<1> HIDE DEF task
<1>4. Queued(tasksQ') = Queued(tasksQ) + 1
  BY <1>1, <1>3, QueuedTasks DEF task, One01
<1> QED BY <1>1, <1>2, <1>4, UnderWay, UnderWayNat

LEMMA TakeUnderWay ==
    ASSUME IInv, IsFiniteSet(Robots), NEW r \in Robots, RobotTake(r), UNCHANGED planned
    PROVE  TasksUnderWay' = TasksUnderWay
<1>1. /\ tasksQ \in Seq(Task) /\ tasksQ # <<>> /\ rpc \in [Robots -> RobotPC]
      /\ tasksQ' = Tail(tasksQ) /\ rpc[r] = "idle"
  BY DEF IInv, PoolTypeOK, RobotTake, RobotGo
<1>2. /\ Queued(tasksQ) = One01(Head(tasksQ) # PoisonTask) + Queued(Tail(tasksQ))
      /\ Tail(tasksQ) \in Seq(Task) /\ Head(tasksQ) \in Task
  BY <1>1, QueuedTasks, TailElements
<1>3. Head(tasksQ).type = "TTpoison" <=> Head(tasksQ) = PoisonTask
  BY <1>2 DEF Task, PoisonTask, WorkTask
<1>4. rpc' = [rpc EXCEPT ![r] = IF Head(tasksQ) = PoisonTask THEN "dead" ELSE "work"]
  BY <1>3 DEF RobotTake, RobotGo
<1>5. AtWork(rpc') = AtWork(rpc) + One01(Head(tasksQ) # PoisonTask)
  <2>1. CASE Head(tasksQ) = PoisonTask
    <3>1. rpc' = [rpc EXCEPT ![r] = "dead"] BY <1>4, <2>1
    <3>2. AtWork([rpc EXCEPT ![r] = "dead"])
            = AtWork(rpc) - One01(rpc[r] \in Busy) + One01("dead" \in Busy)
      BY <1>1, RobotsAtWork DEF RobotPC
    <3> QED BY <1>1, <2>1, <3>1, <3>2, UnderWayNat DEF One01, Busy
  <2>2. CASE Head(tasksQ) # PoisonTask
    <3>1. rpc' = [rpc EXCEPT ![r] = "work"] BY <1>4, <2>2
    <3>2. AtWork([rpc EXCEPT ![r] = "work"])
            = AtWork(rpc) - One01(rpc[r] \in Busy) + One01("work" \in Busy)
      BY <1>1, RobotsAtWork DEF RobotPC
    <3> QED BY <1>1, <2>2, <3>1, <3>2, UnderWayNat DEF One01, Busy
  <2> QED BY <2>1, <2>2
<1>6. Queued(tasksQ') \in Nat BY <1>1, <1>2, QueuedTasks
<1>7. One01(Head(tasksQ) # PoisonTask) \in Nat BY DEF One01
<1> QED BY <1>1, <1>2, <1>5, <1>6, <1>7, UnderWay, UnderWayNat

\* A robot elsewhere that goes on is at its task, or not, as before.
LEMMA GoUnderWay ==
    ASSUME IInv, IsFiniteSet(Robots), NEW r \in Robots, NEW to \in RobotPC,
           rpc' = [rpc EXCEPT ![r] = to], UNCHANGED <<planned, tasksQ>>
    PROVE  TasksUnderWay' = TasksUnderWay - One01(rpc[r] \in Busy) + One01(to \in Busy)
<1>1. rpc \in [Robots -> RobotPC] BY DEF IInv, PoolTypeOK
<1>2. AtWork(rpc') = AtWork(rpc) - One01(rpc[r] \in Busy) + One01(to \in Busy)
  BY <1>1, RobotsAtWork
<1>3. One01(rpc[r] \in Busy) \in Nat /\ One01(to \in Busy) \in Nat BY DEF One01
<1> QED BY <1>2, <1>3, UnderWay, UnderWayNat

LEMMA MenuUnderWay ==
    ASSUME IInv, IsFiniteSet(Robots), MenuStep PROVE TasksUnderWay' = TasksUnderWay
<1>1. CASE MenuRobotMinus /\ UNCHANGED planVars
  <2>1. /\ tasksQ \in Seq(Task) /\ tasksQ' = Append(tasksQ, PoisonTask)
        /\ UNCHANGED <<planned, rpc>>
    BY <1>1 DEF MenuRobotMinus, planVars, IInv, PoolTypeOK
  <2>2. Queued(tasksQ') = Queued(tasksQ) + One01(PoisonTask # PoisonTask)
    <3>1. PoisonTask \in Task BY DEF Task
    <3> QED BY <2>1, <3>1, QueuedTasks
  <2> QED BY <2>1, <2>2, UnderWay, UnderWayNat DEF One01
<1>2. ASSUME NEW r \in Robots, MenuRobotPlus(r), UNCHANGED planVars
      PROVE  TasksUnderWay' = TasksUnderWay
  <2>1. /\ rpc[r] = "new" /\ rpc' = [rpc EXCEPT ![r] = "idle"] /\ UNCHANGED <<planned, tasksQ>>
        /\ "idle" \in RobotPC
    BY <1>2 DEF MenuRobotPlus, RobotGo, planVars, RobotPC
  <2>2. TasksUnderWay' = TasksUnderWay - One01(rpc[r] \in Busy) + One01("idle" \in Busy)
    BY <2>1, GoUnderWay
  <2> QED BY <2>1, <2>2, UnderWayNat DEF One01, Busy
<1> QED BY <1>1, <1>2 DEF MenuStep

\* Where the counter, and who holds it, is left alone
LEMMA StillCounted ==
    ASSUME IInv, IsFiniteSet(Trucks), Counted, Unplanned' = Unplanned,
           TasksUnderWay' = TasksUnderWay,
           UNCHANGED <<taskcount, rreg>>,
           UNCHANGED <<hpc, hreg, planned>> \/ hpc' # "count",
           \A r \in Robots : rpc'[r] = rpc[r] \/ rpc'[r] \notin {"store", "dec"}
    PROVE  Counted'
  BY CameNat DEF Counted

\* The steps that take an item: CountTask counts one task, PlanItem none.
LEMMA CountingIsCounted ==
    ASSUME IInv, IsFiniteSet(Trucks), IsFiniteSet(Robots), Came < CounterMod, Counted,
           PlanItem \/ (CountTask /\ ~ HandlerCrosses)
    PROVE  Counted'
<1>1. /\ buff # <<>> /\ buff' = Front(buff) /\ hpc' = "plan"
      /\ UNCHANGED <<rpc, rreg, planned, tasksQ>>
      /\ UNCHANGED tpc \/ NotifyOne
  BY DEF PlanItem, CountTask, TakeItem, HandlerGo, IInv, BufferReady, poolVars
<1>2. Unplanned' = Unplanned - 1 /\ TasksUnderWay' = TasksUnderWay
  BY <1>1, TakingPlans, UnderWay
<1>3. /\ Unplanned \in Nat /\ Came \in Nat /\ Came' = Came /\ TasksUnderWay \in Nat
      /\ taskcount \in Nat /\ CounterMod \in Nat \ {0}
  BY UnplannedNat, CameNat, UnderWayNat, GateAssumption DEF IInv, GateInv, GateTypeOK
<1>4. Unplanned >= 1
  <2>1. Len(buff) \in Nat /\ Len(buff) # 0 /\ NotMoored \in Nat
    BY <1>1, UnplannedNat, EmptySeq DEF IInv, GateInv, GateTypeOK
  <2> QED BY <2>1 DEF Unplanned
<1>5. CASE PlanItem
  <2>1. taskcount' = taskcount BY <1>5 DEF PlanItem
  <2> QED BY <1>1, <1>2, <1>3, <2>1 DEF Counted
<1>6. CASE CountTask /\ ~ HandlerCrosses
  <2>1. /\ hpc = "count" /\ hreg = taskcount /\ taskcount < TasksUnderWay
        /\ \A r \in Robots : rpc[r] # "store"
    BY <1>6 DEF CountTask, HandlerGo, Counted, HandlerCrosses
  <2>2. taskcount + 1 < CounterMod + 1 /\ taskcount + 1 =< Came
    BY <1>3, <1>4 DEF Counted
  <2>3. (taskcount + 1) % CounterMod = taskcount + 1 BY <1>3, <2>2
  <2>4. taskcount' = taskcount + 1 BY <1>6, <2>1, <2>3 DEF CountTask
  <2> QED BY <1>1, <1>2, <1>3, <2>1, <2>4 DEF Counted
<1> QED BY <1>5, <1>6

\* The step before: the load of restocktaskid++, with the task in the list.
LEMMA OverloadIsCounted ==
    ASSUME IInv, IsFiniteSet(Trucks), IsFiniteSet(Robots), Counted, PlanOverload
    PROVE  Counted'
<1>1. /\ planned' = Append(planned, load) /\ hreg' = taskcount
      /\ UNCHANGED <<rpc, rreg, tasksQ, buff, taskcount, tpc>>
  BY DEF PlanOverload, poolVars
<1>2. planned \in Seq(Seq(Items)) /\ load \in Seq(Items)
  BY DEF IInv, PlanTypeOK
<1>3. Len(planned') = Len(planned) + 1 /\ Len(planned) \in Nat /\ planned' # <<>>
  <2>1. Len(Append(planned, load)) = Len(planned) + 1 /\ Len(planned) \in Nat BY <1>2
  <2> QED BY <1>1, <2>1
<1>4. TasksUnderWay' = TasksUnderWay + 1 BY <1>1, <1>3, UnderWay, UnderWayNat
<1>5. Unplanned' = Unplanned /\ Came' = Came BY <1>1, OthersKeepUnplanned, CameNat
<1>6. taskcount \in Nat /\ TasksUnderWay \in Nat
  BY UnderWayNat DEF IInv, GateInv, GateTypeOK
<1> QED BY <1>1, <1>3, <1>4, <1>5, <1>6 DEF Counted

\* The steps that count one down, for a task that is done.
LEMMA CountingDownIsCounted ==
    ASSUME IInv, IsFiniteSet(Trucks), IsFiniteSet(Robots), Came < CounterMod, Counted,
           NEW r \in Robots, CountDown(r), ~ RobotCrosses(r), UNCHANGED planVars
    PROVE  Counted'
<1>1. Unplanned' = Unplanned
  <2>1. UNCHANGED buff /\ (UNCHANGED tpc \/ NotifyOne)
    BY DEF CountDown, RobotCheck, RobotLoad, RobotStore, RobotNotify, gateVars
  <2> QED BY <2>1, OthersKeepUnplanned
<1>2. /\ Unplanned \in Nat /\ Came \in Nat /\ Came' = Came /\ TasksUnderWay \in Nat
      /\ Len(planned) \in Nat /\ Len(planned) =< TasksUnderWay /\ AtWork(rpc) \in Nat
  BY UnplannedNat, CameNat, UnderWayNat
<1>3. /\ taskcount \in Nat /\ rreg \in [Robots -> 0 .. CounterMod - 1]
      /\ rpc \in [Robots -> RobotPC] /\ CounterMod \in Nat \ {0, 1}
      /\ planned # <<>> => Len(planned) >= 1
  BY <1>2, GateAssumption, EmptySeq DEF IInv, GateInv, GateTypeOK, PlanTypeOK, PoolTypeOK
<1>4. UNCHANGED <<hpc, hreg, planned, tasksQ>>
  BY DEF CountDown, RobotCheck, RobotLoad, RobotStore, RobotNotify, gateVars, planVars
<1>5. CASE RobotCheck(r)
  <2>1. UNCHANGED <<taskcount, rreg>> /\ rpc[r] = "check"
    BY <1>5 DEF RobotCheck, RobotGo, gateVars
  <2>2. CASE taskcount > 0
    <3>1. rpc' = [rpc EXCEPT ![r] = "dec"] /\ "dec" \in RobotPC
      BY <1>5, <2>2 DEF RobotCheck, RobotGo, RobotPC
    <3>2. TasksUnderWay' = TasksUnderWay - One01(rpc[r] \in Busy) + One01("dec" \in Busy)
      BY <1>4, <3>1, GoUnderWay
    <3>3. TasksUnderWay' = TasksUnderWay BY <1>2, <2>1, <3>2 DEF One01, Busy
    <3> QED BY <1>1, <1>2, <1>3, <1>4, <2>1, <2>2, <3>1, <3>3 DEF Counted
  <2>3. CASE ~ (taskcount > 0)
    <3>1. rpc' = [rpc EXCEPT ![r] = "idle"] /\ "idle" \in RobotPC
      BY <1>5, <2>3 DEF RobotCheck, RobotGo, RobotPC
    <3>2. TasksUnderWay' = TasksUnderWay - One01(rpc[r] \in Busy) + One01("idle" \in Busy)
      BY <1>4, <3>1, GoUnderWay
    <3>3. TasksUnderWay' = TasksUnderWay - 1 BY <1>2, <2>1, <3>2 DEF One01, Busy
    <3>4. TasksUnderWay' >= Len(planned) /\ TasksUnderWay' >= 0
      <4>1. IInv' BY RobotSharedInv DEF RobotShared
      <4>2. TasksUnderWay' \in Nat /\ Len(planned)' =< TasksUnderWay'
        BY <4>1, NextUnderWayNat
      <4> QED BY <1>4, <4>2
    <3>5. taskcount = 0 BY <1>3, <2>3
    <3> QED BY <1>1, <1>2, <1>3, <1>4, <2>1, <3>1, <3>3, <3>4, <3>5 DEF Counted
  <2> QED BY <2>2, <2>3
<1>6. CASE RobotLoad(r)
  <2>1. /\ rpc[r] = "dec" /\ rpc' = [rpc EXCEPT ![r] = "store"] /\ "store" \in RobotPC
        /\ rreg' = [rreg EXCEPT ![r] = taskcount] /\ UNCHANGED taskcount
    BY <1>6 DEF RobotLoad, RobotGo, gateVars, RobotPC
  <2>2. TasksUnderWay' = TasksUnderWay - One01(rpc[r] \in Busy) + One01("store" \in Busy)
    BY <1>4, <2>1, GoUnderWay
  <2>3. TasksUnderWay' = TasksUnderWay BY <1>2, <2>1, <2>2 DEF One01, Busy
  <2> QED BY <1>1, <1>2, <1>3, <1>4, <2>1, <2>3 DEF Counted
<1>7. CASE RobotStore(r)
  <2>1. /\ rpc[r] = "store" /\ rpc' = [rpc EXCEPT ![r] = "notify"] /\ "notify" \in RobotPC
        /\ taskcount' = (rreg[r] + CounterMod - 1) % CounterMod
    BY <1>7 DEF RobotStore, RobotGo, RobotPC
  <2>2. hpc # "count" /\ \A q \in Robots : q # r => rpc[q] \notin {"dec", "store"}
    BY <2>1 DEF RobotCrosses
  <2>3. 0 < taskcount /\ rreg[r] = taskcount BY <2>1 DEF Counted
  <2>4. taskcount' = taskcount - 1
    <3> DEFINE n == rreg[r]
    <3>1. n \in 1 .. CounterMod - 1 BY <1>3, <2>3
    <3> HIDE DEF n
    <3>2. (n + CounterMod - 1) % CounterMod = n - 1
      <4>1. n - 1 \in 0 .. CounterMod - 1 BY <1>3, <3>1
      <4>2. n + CounterMod - 1 = CounterMod + (n - 1) BY <1>3, <3>1
      <4> QED BY <1>3, <4>1, <4>2
    <3> QED BY <2>1, <2>3, <3>2 DEF n
  <2>5. TasksUnderWay' = TasksUnderWay - One01(rpc[r] \in Busy) + One01("notify" \in Busy)
    BY <1>4, <2>1, GoUnderWay
  <2>6. TasksUnderWay' = TasksUnderWay - 1 BY <1>2, <2>1, <2>5 DEF One01, Busy
  <2>7. \A q \in Robots : rpc'[q] \notin {"dec", "store"} BY <1>3, <2>1, <2>2
  <2> QED BY <1>1, <1>2, <1>3, <1>4, <2>2, <2>3, <2>4, <2>6, <2>7 DEF Counted
<1>8. CASE RobotNotify(r)
  <2>1. /\ UNCHANGED <<taskcount, rreg>> /\ rpc[r] = "notify" /\ rpc' = [rpc EXCEPT ![r] = "idle"]
        /\ "idle" \in RobotPC
    BY <1>8 DEF RobotNotify, RobotGo, RobotPC
  <2>2. TasksUnderWay' = TasksUnderWay - One01(rpc[r] \in Busy) + One01("idle" \in Busy)
    BY <1>4, <2>1, GoUnderWay
  <2>3. TasksUnderWay' = TasksUnderWay BY <1>2, <2>1, <2>2 DEF One01, Busy
  <2>4. \A q \in Robots : rpc'[q] = rpc[q] \/ rpc'[q] \notin {"store", "dec"} BY <1>3, <2>1
  <2> QED BY <1>1, <1>4, <2>1, <2>3, <2>4, StillCounted
<1> QED BY <1>5, <1>6, <1>7, <1>8 DEF CountDown

LEMMA CountedStep ==
    ASSUME IInv, RecordsOK, IsFiniteSet(Trucks), IsFiniteSet(Robots), Came < CounterMod,
           CountedInv, [Next]_vars
    PROVE  CountedInv'
<1> SUFFICES ASSUME ~ crossed' PROVE Counted'
  BY DEF CountedInv
<1>1. Counted /\ crossed = FALSE
  <2>1. ~ crossed
    BY DEF Next, vars, records, HandlerStep, RobotStep, RobotShelve, RobotPathDone
  <2> QED BY <2>1 DEF CountedInv, RecordsOK
<1>2. rpc \in [Robots -> RobotPC] BY DEF IInv, PoolTypeOK
<1>3. ASSUME NEW t \in Trucks, TruckThread(t) \/ SpuriousThread(t) PROVE Counted'
  <2>1. UNCHANGED <<taskcount, rreg, rpc, hpc, hreg, planned, tasksQ>>
    BY <1>3 DEF TruckThread, SpuriousThread, TruckStep, TruckMoor, TruckUnload, TruckAnnounce,
       TruckLock, TruckPass, TruckFail, TruckSleep, SpuriousWake, poolVars, planVars
  <2>2. TasksUnderWay' = TasksUnderWay BY <2>1, UnderWay
  <2>3. CASE TruckUnload(t) BY <1>1, <2>1, <2>2, <2>3, UnloadKeepsUnplanned, StillCounted
  <2>4. CASE ~ TruckUnload(t)
    <3>1. UNCHANGED buff
      BY <1>3, <2>4 DEF TruckThread, SpuriousThread, TruckStep, TruckMoor, TruckAnnounce,
         TruckLock, TruckPass, TruckFail, TruckSleep, SpuriousWake
    <3>2. Unplanned' = Unplanned
      BY <1>3, <2>4, <3>1, OthersKeepUnplanned DEF TruckThread, SpuriousThread
    <3> QED BY <1>1, <2>1, <2>2, <3>2, StillCounted
  <2> QED BY <2>3, <2>4
<1>4. CASE HandlerGate
  <2>1. UNCHANGED <<taskcount, rreg, rpc, buff, tpc, planned, tasksQ>> /\ hpc' # "count"
    BY <1>4 DEF HandlerGate, OpenDock, AwaitTruck, LockBuffer, poolVars, planVars
  <2>2. TasksUnderWay' = TasksUnderWay BY <2>1, UnderWay
  <2> QED BY <1>1, <2>1, <2>2, OthersKeepUnplanned, StillCounted
<1>5. CASE PlanItem BY <1>1, <1>5, CountingIsCounted
<1>6. CASE CountTask /\ ~ HandlerCrosses BY <1>1, <1>6, CountingIsCounted
<1>7. CASE PlanOverload BY <1>1, <1>7, OverloadIsCounted
<1>8. CASE PlanRest
  <2>1. /\ UNCHANGED <<taskcount, rreg, rpc, buff, tasksQ>> /\ (UNCHANGED tpc \/ NotifyOne)
        /\ hpc' = "push" /\ planned \in Seq(Seq(Items)) /\ load \in Seq(Items)
        /\ planned' \in {planned, Append(planned, load)}
    BY <1>8 DEF PlanRest, HandlerGo, poolVars, IInv, PlanTypeOK
  <2>2. Len(planned') \in {Len(planned), Len(planned) + 1} BY <2>1
  <2>3. TasksUnderWay' >= TasksUnderWay BY <2>1, <2>2, UnderWay, UnderWayNat
  <2>4. Unplanned' = Unplanned BY <2>1, OthersKeepUnplanned
  <2>5. taskcount \in Nat /\ TasksUnderWay \in Nat BY UnderWayNat DEF IInv, GateInv, GateTypeOK
  <2>6. TasksUnderWay' \in Nat
    <3>1. Len(planned') \in Nat BY <2>1, <2>2
    <3> QED BY <2>1, <3>1, UnderWay, UnderWayNat
  <2> QED BY <1>1, <2>1, <2>3, <2>4, <2>5, <2>6, CameNat DEF Counted
<1>9. CASE PushTask("TTrestock") \/ EndIteration \/ PlanHang
  <2>1. UNCHANGED <<taskcount, rreg, rpc, buff, tpc>> /\ hpc' # "count"
    BY <1>9 DEF PushTask, EndIteration, PlanHang, HandlerGo, poolVars
  <2>2. TasksUnderWay' = TasksUnderWay
    <3>1. CASE EndIteration \/ PlanHang
      <4>1. UNCHANGED <<planned, tasksQ, rpc>>
        BY <3>1 DEF EndIteration, PlanHang, planVars, poolVars
      <4> QED BY <4>1, UnderWay
    <3> QED BY <1>9, <3>1, PushUnderWay
  <2> QED BY <1>1, <2>1, <2>2, OthersKeepUnplanned, StillCounted
<1>10. ASSUME NEW r \in Robots, RobotStep(r) PROVE Counted'
  <2>1. CASE CountDown(r) /\ UNCHANGED planVars /\ ~ RobotCrosses(r)
    BY <1>1, <2>1, CountingDownIsCounted
  <2>2. CASE (RobotTake(r) /\ UNCHANGED planVars) \/ RobotShelve(r) \/ RobotPathDone(r)
    <3>1. /\ UNCHANGED <<taskcount, rreg, buff, tpc, hpc, hreg, planned>>
          /\ \A q \in Robots : rpc'[q] = rpc[q] \/ rpc'[q] \notin {"store", "dec"}
      BY <1>2, <2>2 DEF RobotTake, RobotShelve, RobotPathDone, RobotGo, gateVars, planVars
    <3>2. CASE RobotTake(r)
      <4>1. TasksUnderWay' = TasksUnderWay BY <3>1, <3>2, TakeUnderWay
      <4> QED BY <1>1, <3>1, <4>1, OthersKeepUnplanned, StillCounted
    <3>3. CASE RobotShelve(r) \/ RobotPathDone(r)
      <4>1. PICK to \in {"work", "check"} : rpc' = [rpc EXCEPT ![r] = to]
        BY <3>3 DEF RobotShelve, RobotPathDone, RobotGo
      <4>2. rpc[r] = "work" /\ UNCHANGED <<planned, tasksQ>> /\ to \in RobotPC
        BY <3>3, <4>1 DEF RobotShelve, RobotPathDone, RobotGo, planVars, RobotPC
      <4>3. TasksUnderWay' = TasksUnderWay - One01(rpc[r] \in Busy) + One01(to \in Busy)
        BY <4>1, <4>2, GoUnderWay
      <4>4. TasksUnderWay' = TasksUnderWay BY <4>1, <4>2, <4>3, UnderWayNat DEF One01, Busy
      <4> QED BY <1>1, <3>1, <4>4, OthersKeepUnplanned, StillCounted
    <3> QED BY <2>2, <3>2, <3>3
  <2>3. RobotShared(r) /\ crossed' = (crossed \/ RobotCrosses(r)) => ~ RobotCrosses(r)
    BY <1>1
  <2> QED BY <1>10, <2>1, <2>2, <2>3 DEF RobotStep, RobotShared
<1>11. CASE MenuStep
  <2>1. /\ UNCHANGED <<taskcount, rreg, buff, tpc, hpc, hreg, planned>>
        /\ \A q \in Robots : rpc'[q] = rpc[q] \/ rpc'[q] \notin {"store", "dec"}
    BY <1>2, <1>11 DEF MenuStep, MenuRobotMinus, MenuRobotPlus, RobotGo, gateVars, planVars
  <2>2. TasksUnderWay' = TasksUnderWay BY <1>11, MenuUnderWay
  <2> QED BY <1>1, <2>1, <2>2, OthersKeepUnplanned, StillCounted
<1>12. CASE UNCHANGED vars
  <2>1. UNCHANGED <<taskcount, rreg, rpc, buff, tpc, hpc, hreg, planned, tasksQ>>
    BY <1>12 DEF vars, gateVars, poolVars, planVars
  <2>2. TasksUnderWay' = TasksUnderWay BY <2>1, UnderWay
  <2> QED BY <1>1, <2>1, <2>2, OthersKeepUnplanned, StillCounted
<1>13. CASE HandlerStep
  <2>1. CountTask => ~ HandlerCrosses
    BY <1>13 DEF HandlerStep
  <2> QED BY <1>4, <1>5, <1>6, <1>7, <1>8, <1>9, <1>13, <2>1 DEF HandlerStep, HandlerPlan
<1>14. CASE \E t \in Trucks : TruckThread(t) \/ SpuriousThread(t)
  BY <1>3, <1>14
<1>15. CASE \E r \in Robots : RobotStep(r)
  BY <1>10, <1>15
<1> QED BY <1>9, <1>11, <1>12, <1>13, <1>14, <1>15 DEF Next

LEMMA CountedStart ==
    ASSUME Init, IsFiniteSet(Trucks), IsFiniteSet(Robots) PROVE CountedInv
<1>1. /\ taskcount = 0 /\ buff = <<>> /\ hpc = "open"
      /\ \A t \in Trucks : tpc[t] = "called"
      /\ \A r \in Robots : rpc[r] \in {"idle", "new"}
  BY DEF Init, HandlerInit, GateInit, PoolInit
<1>2. [t \in Trucks |-> IF tpc[t] \in {"called", "moored"} THEN Len(Cargo[t]) ELSE 0]
       = [t \in Trucks |-> Len(Cargo[t])]
  BY <1>1
<1>3. NotMoored = Came BY <1>2 DEF NotMoored, Came
<1>4. Len(buff) = 0 /\ Came \in Nat BY <1>1, CameNat
<1>5. TasksUnderWay \in Nat
  <2>1. IInv BY HandlerInitInv DEF Init
  <2> QED BY <2>1, UnderWayNat
<1> QED BY <1>1, <1>3, <1>4, <1>5 DEF CountedInv, Counted, Unplanned

\* If the counter can count the items that come, then for any number of
\* trucks and robots it stays covered by the tasks under way until two
\* threads cross in it: robots.h tests and decrements it outside every lock.
THEOREM CountedTasks ==
    ASSUME IsFiniteSet(Trucks), IsFiniteSet(Robots), Came < CounterMod
    PROVE  Spec => []CounterCovered
<1>1. Init => CountedInv BY CountedStart
<1>2. IInv /\ RecordsOK /\ CountedInv /\ [Next]_vars => CountedInv' BY CountedStep
<1>3. CountedInv => CounterCovered BY DEF CountedInv, Counted, CounterCovered
<1> QED BY <1>1, <1>2, <1>3, Invariance, PTL DEF Spec
=============================================================================
