--------------------------- MODULE DockHandlerProof ---------------------------
(***************************************************************************)
(* Proofs about the steps that both docks share: the truck threads, the    *)
(* handler up to the making of tasks, the pushing of tasks, the robots'    *)
(* common part and the menu.  Each lemma takes one kind of step and shows  *)
(* that it keeps the inductive invariant; RestockDockProof and             *)
(* DeliveryDockProof add their own steps and conclude.                     *)
(***************************************************************************)
EXTENDS DockHandler, Sums

-----------------------------------------------------------------------------
(* The dock protocol is safe: the steps of DockGate.                       *)

\* The inductive invariant of the protocol; its type part is needed to know
\* that the semaphores are numbers and the mutex owner is a known thread.
GateInv == GateTypeOK /\ OneTruckAtDock /\ MutexOwned

\* Initially the only token is with the handler.
LEMMA GateInitInv ==
    ASSUME GateInit PROVE GateInv
<1> USE GateAssumption DEF GateInit
<1>1. GateTypeOK
  <2>1. taskcount \in 0 .. CounterMod - 1 /\ spurious \in 0 .. MaxSpurious OBVIOUS
  <2>2. tpc \in [Trucks -> TruckPC] /\ stage \in [Trucks -> {1, 2}] BY DEF TruckPC
  <2>3. buff \in Seq(Items) OBVIOUS
  <2>4. docked \in BOOLEAN OBVIOUS
  <2> QED BY <2>1, <2>2, <2>3, <2>4 DEF GateTypeOK, HandlerPC
<1>2. OneTruckAtDock
  BY DEF OneTruckAtDock, AtDock
<1>3. MutexOwned
  BY DEF MutexOwned, HandlerBusy
<1> QED BY <1>1, <1>2, <1>3 DEF GateInv

\* Each step of a truck thread keeps the protocol's invariant.
LEMMA TruckKeepsGate ==
    ASSUME GateInv, NEW t \in Trucks, TruckStep(t) \/ SpuriousWake(t)
    PROVE  GateInv'
<1> USE GateAssumption
    DEF GateInv, GateTypeOK, OneTruckAtDock, MutexOwned, AtDock,
        TruckPC, HandlerPC, HandlerBusy, TruckGo
<1>1. CASE TruckMoor(t)
  BY <1>1 DEF TruckMoor
<1>2. CASE TruckUnload(t)
  <2>1. buff' \in Seq(Items)
    BY <1>2 DEF TruckUnload
  <2> QED BY <1>2, <2>1 DEF TruckUnload
<1>3. CASE TruckAnnounce(t)
  <2>1. AtDock(t) BY <1>3 DEF TruckAnnounce
  <2>2. \A u \in Trucks : ~ AtDock(u)'
    BY <1>3, <2>1 DEF TruckAnnounce
  <2> QED BY <1>3, <2>1, <2>2 DEF TruckAnnounce
<1>4. CASE TruckLock(t)
  BY <1>4 DEF TruckLock
<1>5. CASE TruckPass(t)
  <2>1. CASE stage[t] = 1
    BY <1>5, <2>1 DEF TruckPass
  <2>2. CASE stage[t] = 2
    <3>1. buffMutex = t /\ buffMutex' = Nobody
      BY <1>5, <2>2 DEF TruckPass
    <3>2. \A u \in Trucks : AtDock(u)' <=> AtDock(u)
      BY <1>5, <2>2 DEF TruckPass
    <3>3. GateTypeOK'
      BY <1>5, <2>2 DEF TruckPass
    <3>4. OneTruckAtDock'
      BY <1>5, <3>2 DEF TruckPass
    <3>5. MutexOwned'
      BY <1>5, <2>2, <3>1 DEF TruckPass
    <3> QED BY <3>3, <3>4, <3>5
  <2>3. stage[t] = 1 \/ stage[t] = 2
    BY <1>5 DEF TruckPass
  <2> HIDE DEF GateInv
  <2> QED BY <2>1, <2>2, <2>3
<1>6. CASE TruckFail(t)
  BY <1>6 DEF TruckFail
<1>7. CASE TruckSleep(t)
  BY <1>7 DEF TruckSleep
<1>8. CASE SpuriousWake(t)
  BY <1>8 DEF SpuriousWake
<1> QED BY <1>1, <1>2, <1>3, <1>4, <1>5, <1>6, <1>7, <1>8 DEF TruckStep

\* So does each step of the head of the handler loop.
LEMMA HandlerKeepsGate ==
    ASSUME GateInv, OpenDock \/ AwaitTruck \/ LockBuffer
    PROVE  GateInv'
<1> USE GateAssumption
    DEF GateInv, GateTypeOK, OneTruckAtDock, MutexOwned, AtDock,
        TruckPC, HandlerPC, HandlerBusy
<1>1. CASE OpenDock BY <1>1 DEF OpenDock
<1>2. CASE AwaitTruck BY <1>2 DEF AwaitTruck
<1>3. CASE LockBuffer BY <1>3 DEF LockBuffer
<1> QED BY <1>1, <1>2, <1>3

\* The part of the gate that the handler's planning and the robots may
\* touch: they count tasks, consume the buffer and wake sleeping trucks.
GateFrame ==
    /\ UNCHANGED <<dock, arrived, docked, stage, spurious>>
    /\ NotifyOne \/ UNCHANGED tpc
    /\ taskcount' \in 0 .. CounterMod - 1
    /\ buff' \in Seq(Items)

\* Planning steps keep the mutex until the last, which releases it, and
\* keep the token until the dock is opened again.
LEMMA FrameKeepsGate ==
    ASSUME GateInv, GateFrame,
           \/ UNCHANGED <<hpc, buffMutex>>
           \/ hpc \in HandlerBusy /\ hpc' \in HandlerBusy /\ UNCHANGED buffMutex
           \/ hpc \in HandlerBusy /\ hpc' = "open" /\ buffMutex' = Nobody
    PROVE  GateInv'
<1> USE GateAssumption
    DEF GateInv, GateTypeOK, OneTruckAtDock, MutexOwned, AtDock,
        TruckPC, HandlerPC, HandlerBusy, GateFrame
<1>1. /\ tpc' \in [Trucks -> TruckPC]
      /\ \A t \in Trucks : AtDock(t)' <=> AtDock(t)
      /\ \A t \in Trucks : tpc'[t] \in {"test", "block"} <=> tpc[t] \in {"test", "block"}
  BY DEF NotifyOne, TruckGo
<1> QED BY <1>1

\* A step of the rest of the system that leaves the gate alone.
LEMMA StutterKeepsGate ==
    ASSUME GateInv, UNCHANGED gateVars PROVE GateInv'
  BY DEF GateInv, GateTypeOK, OneTruckAtDock, MutexOwned, AtDock, gateVars

-----------------------------------------------------------------------------
(* Sequences.                                                              *)

\* What the sequence operators of the model do to the set of elements.
LEMMA AppendElements ==
    ASSUME NEW S, NEW s \in Seq(S), NEW e \in S
    PROVE  /\ Append(s, e) \in Seq(S)
           /\ Range(Append(s, e)) = Range(s) \cup {e}
           /\ \A k \in DOMAIN Append(s, e) :
                  (k \in DOMAIN s /\ Append(s, e)[k] = s[k]) \/ Append(s, e)[k] = e
<1>1. /\ Append(s, e) \in Seq(S)
      /\ Len(Append(s, e)) = Len(s) + 1
      /\ \A k \in 1 .. Len(s) : Append(s, e)[k] = s[k]
      /\ Append(s, e)[Len(s) + 1] = e
      /\ Len(s) \in Nat
      /\ DOMAIN s = 1 .. Len(s)
      /\ DOMAIN Append(s, e) = 1 .. Len(s) + 1
  BY AppendProperties, LenProperties
<1>2. Range(Append(s, e)) = Range(s) \cup {e}
  <2>1. ASSUME NEW x \in Range(Append(s, e)) PROVE x \in Range(s) \cup {e}
    <3>1. PICK k \in 1 .. Len(s) + 1 : x = Append(s, e)[k]
      BY <1>1 DEF Range
    <3>2. CASE k \in 1 .. Len(s) BY <1>1, <3>1, <3>2 DEF Range
    <3>3. CASE k = Len(s) + 1 BY <1>1, <3>1, <3>3
    <3> QED BY <1>1, <3>2, <3>3
  <2>2. ASSUME NEW x \in Range(s) PROVE x \in Range(Append(s, e))
    <3>1. PICK k \in 1 .. Len(s) : x = s[k]
      BY <1>1 DEF Range
    <3>2. k \in 1 .. Len(s) + 1 /\ x = Append(s, e)[k]
      BY <1>1, <3>1
    <3> QED BY <1>1, <3>2 DEF Range
  <2>3. e \in Range(Append(s, e))
    <3>1. Len(s) + 1 \in 1 .. Len(s) + 1 BY <1>1
    <3> QED BY <1>1, <3>1 DEF Range
  <2> QED BY <2>1, <2>2, <2>3
<1>3. \A k \in 1 .. Len(s) + 1 : k \in 1 .. Len(s) \/ k = Len(s) + 1
  BY <1>1
<1> QED BY <1>1, <1>2, <1>3

LEMMA FrontElements ==
    ASSUME NEW S, NEW s \in Seq(S), s # <<>>
    PROVE  /\ Front(s) \in Seq(S)
           /\ Last(s) \in S
           /\ Last(s) \in Range(s)
           /\ Range(Front(s)) \subseteq Range(s)
<1>1. Len(s) \in Nat /\ Len(s) # 0 /\ DOMAIN s = 1 .. Len(s)
  BY EmptySeq, LenProperties
<1>2. /\ Front(s) \in Seq(S)
      /\ DOMAIN Front(s) = 1 .. Len(s) - 1
      /\ \A k \in 1 .. Len(s) - 1 : Front(s)[k] = s[k]
  BY <1>1 DEF Front
<1>3. Len(s) \in DOMAIN s
  BY <1>1
<1>4. Last(s) \in S /\ Last(s) \in Range(s)
  BY <1>1, <1>3, ElementOfSeq DEF Last, Range
<1>5. \A k \in 1 .. Len(s) - 1 : k \in 1 .. Len(s)
  BY <1>1
<1> QED BY <1>1, <1>2, <1>4, <1>5 DEF Range

LEMMA TailElements ==
    ASSUME NEW S, NEW s \in Seq(S), s # <<>>
    PROVE  /\ Tail(s) \in Seq(S)
           /\ Head(s) \in S
           /\ Len(Tail(s)) = Len(s) - 1
           /\ 1 \in DOMAIN s /\ Head(s) = s[1]
           /\ \A k \in DOMAIN Tail(s) : k + 1 \in DOMAIN s /\ Tail(s)[k] = s[k + 1]
<1>1. Len(s) \in Nat /\ Len(s) # 0 /\ DOMAIN s = 1 .. Len(s)
  BY EmptySeq, LenProperties
<1>2. /\ Tail(s) \in Seq(S) /\ Head(s) \in S
      /\ Len(Tail(s)) = Len(s) - 1
      /\ DOMAIN Tail(s) = 1 .. Len(s) - 1
      /\ \A k \in 1 .. Len(s) - 1 : Tail(s)[k] = s[k + 1]
  BY <1>1
<1> QED BY <1>1, <1>2
-----------------------------------------------------------------------------
(* The inductive invariant.                                                *)

\* A truck that may still fill the buffer finds it empty, and the handler
\* begins and ends an iteration with nothing in hand: what TasksOfOneTruck
\* needs to be inductive.
BufferReady ==
    /\ (\E t \in Trucks : tpc[t] = "moored") \/ dock > 0 \/ hpc \in {"open", "push"} => buff = <<>>
    /\ hpc = "count" => buff # <<>>
    /\ hpc \notin {"plan", "count", "hung", "undefined"} => load = <<>>

IInv == GateInv /\ PoolTypeOK /\ PlanTypeOK /\ BufferReady /\ TasksOfOneTruck

LEMMA HandlerInitInv == ASSUME HandlerInit PROVE IInv
<1> USE DEF HandlerInit
<1>1. GateInv BY GateInitInv
<1>2. PoolTypeOK
  BY PoolAssumption, GateAssumption DEF PoolInit, PoolTypeOK, RobotPC
<1>3. PlanTypeOK BY GateAssumption DEF PlanTypeOK
<1>4. BufferReady BY DEF BufferReady, GateInit
<1>5. TasksOfOneTruck
  <2>1. Range(<<>>) = {} BY DEF Range
  <2>2. DOMAIN <<>> = {} OBVIOUS
  <2> QED BY <2>1, <2>2 DEF TasksOfOneTruck, FromOneTruck, GateInit, PoolInit
<1> QED BY <1>1, <1>2, <1>3, <1>4, <1>5 DEF IInv

LEMMA TruckStepInv ==
    ASSUME IInv, NEW t \in Trucks, TruckThread(t) \/ SpuriousThread(t)
    PROVE  IInv'
<1> USE DEF IInv, TruckThread, SpuriousThread
<1>1. GateInv' BY TruckKeepsGate
<1>2. PoolTypeOK' BY DEF PoolTypeOK, poolVars
<1>3. PlanTypeOK' BY DEF PlanTypeOK, planVars
<1>4. CASE TruckUnload(t)
  <2>1. buff = <<>> /\ tpc[t] = "moored" BY <1>4 DEF TruckUnload, TruckGo, BufferReady
  <2>2. hpc = "await" /\ dock = 0 /\ \A u \in Trucks : AtDock(u) => u = t
    BY <2>1 DEF GateInv, OneTruckAtDock, AtDock
  <2>3. buff' = Cargo[t]
    BY <1>4, <2>1, GateAssumption DEF TruckUnload
  <2>4. \A u \in Trucks : tpc'[u] # "moored"
    BY <1>4, <2>2 DEF TruckUnload, TruckGo, AtDock, GateInv, GateTypeOK
  <2>5. BufferReady'
    BY <1>4, <2>2, <2>4 DEF BufferReady, TruckUnload, planVars
  <2>6. load = <<>> /\ Range(load) = {}
    BY <2>2 DEF BufferReady, Range
  <2>7. FromOneTruck(Range(load) \cup Range(buff))'
    BY <2>3, <2>6 DEF FromOneTruck, planVars
  <2>8. TasksOfOneTruck'
    BY <2>7 DEF TasksOfOneTruck, FromOneTruck, planVars, poolVars
  <2> QED BY <1>1, <1>2, <1>3, <2>5, <2>8
<1>5. CASE ~ TruckUnload(t)
  <2>1. buff' = buff /\ hpc' = hpc
    BY <1>5 DEF TruckStep, TruckMoor, TruckAnnounce, TruckLock, TruckPass,
        TruckFail, TruckSleep, SpuriousWake
  <2>2. \/ dock' = dock /\ \A u \in Trucks : tpc'[u] = "moored" => tpc[u] = "moored"
        \/ dock > 0
    BY <1>5 DEF TruckStep, TruckMoor, TruckAnnounce, TruckLock, TruckPass,
        TruckFail, TruckSleep, SpuriousWake, TruckGo, GateInv, GateTypeOK
  <2>3. BufferReady'
    BY <2>1, <2>2 DEF BufferReady, planVars
  <2>4. TasksOfOneTruck'
    BY <2>1 DEF TasksOfOneTruck, FromOneTruck, planVars, poolVars
  <2> QED BY <1>1, <1>2, <1>3, <2>3, <2>4
<1> QED BY <1>4, <1>5

LEMMA HandlerGateInv ==
    ASSUME IInv, HandlerGate
    PROVE  IInv'
<1> USE DEF IInv, HandlerGate
<1>1. GateInv' BY HandlerKeepsGate DEF HandlerGate
<1>2. PoolTypeOK' BY DEF PoolTypeOK, poolVars
<1>3. PlanTypeOK' BY DEF PlanTypeOK, planVars
<1>4. BufferReady'
  <2>1. CASE OpenDock BY <2>1 DEF OpenDock, BufferReady, planVars
  <2>2. CASE AwaitTruck
    BY <2>2 DEF AwaitTruck, BufferReady, planVars, GateInv, GateTypeOK
  <2>3. CASE LockBuffer BY <2>3 DEF LockBuffer, BufferReady, planVars
  <2> QED BY <2>1, <2>2, <2>3 DEF HandlerGate
<1>5. TasksOfOneTruck'
  BY DEF HandlerGate, OpenDock, AwaitTruck, LockBuffer,
         TasksOfOneTruck, FromOneTruck, planVars, poolVars
<1> QED BY <1>1, <1>2, <1>3, <1>4, <1>5

\* TakeItem moves the last item of the buffer into a load: no item enters.
LEMMA TakeItemElements ==
    ASSUME buff \in Seq(Items), buff # <<>>, weight \in Nat,
           NEW items \in Seq(Items), TakeItem(items)
    PROVE  /\ load' \in Seq(Items) /\ buff' \in Seq(Items) /\ weight' \in Nat
           /\ Range(load)' \cup Range(buff)' \subseteq Range(items) \cup Range(buff)
<1>1. /\ Front(buff) \in Seq(Items) /\ Last(buff) \in Items
      /\ Last(buff) \in Range(buff) /\ Range(Front(buff)) \subseteq Range(buff)
  BY FrontElements
<1>2. /\ Append(items, Last(buff)) \in Seq(Items)
      /\ Range(Append(items, Last(buff))) = Range(items) \cup {Last(buff)}
  BY <1>1, AppendElements
<1>3. Mass[Last(buff)] \in Nat
  BY <1>1, HandlerAssumption
<1> QED BY <1>1, <1>2, <1>3 DEF TakeItem

\* A subset of one truck's items is of one truck.
LEMMA FewerOfOneTruck ==
    ASSUME NEW A, NEW B, A \subseteq B, FromOneTruck(B) PROVE FromOneTruck(A)
  BY DEF FromOneTruck

LEMMA PlanItemInv ==
    ASSUME IInv, PlanItem PROVE IInv'
<1> USE DEF IInv
<1>1. /\ load' \in Seq(Items) /\ buff' \in Seq(Items) /\ weight' \in Nat
      /\ Range(load)' \cup Range(buff)' \subseteq Range(load) \cup Range(buff)
  BY TakeItemElements DEF PlanItem, GateInv, GateTypeOK, PlanTypeOK
<1>2. GateInv'
  <2>1. GateFrame
    BY <1>1 DEF PlanItem, GateFrame, GateInv, GateTypeOK
  <2>2. UNCHANGED <<hpc, buffMutex>>
    BY DEF PlanItem, HandlerGo
  <2> QED BY <2>1, <2>2, FrameKeepsGate
<1>3. PoolTypeOK' BY DEF PlanItem, PoolTypeOK, poolVars
<1>4. PlanTypeOK' BY <1>1 DEF PlanItem, PlanTypeOK
<1>5. BufferReady'
  BY DEF PlanItem, HandlerGo, BufferReady, GateInv, OneTruckAtDock, AtDock, GateTypeOK
<1>6. TasksOfOneTruck'
  <2>1. FromOneTruck(Range(load)' \cup Range(buff)')
    BY <1>1, FewerOfOneTruck DEF TasksOfOneTruck
  <2> QED BY <2>1 DEF PlanItem, TasksOfOneTruck, FromOneTruck, poolVars
<1> QED BY <1>2, <1>3, <1>4, <1>5, <1>6

LEMMA PushTaskInv ==
    ASSUME IInv, NEW type \in {"TTrestock", "TTdelivery"}, PushTask(type) PROVE IInv'
<1> USE DEF IInv
<1>1. /\ Tail(planned) \in Seq(Seq(Items)) /\ Head(planned) \in Seq(Items)
      /\ 1 \in DOMAIN planned /\ Head(planned) = planned[1]
      /\ \A k \in DOMAIN Tail(planned) : k + 1 \in DOMAIN planned /\ Tail(planned)[k] = planned[k + 1]
  BY TailElements DEF PushTask, PlanTypeOK
<1>2. WorkTask(type, Head(planned)) \in Task
  BY <1>1 DEF WorkTask, Task
<1>3. /\ tasksQ' \in Seq(Task)
      /\ \A k \in DOMAIN tasksQ' :
            \/ k \in DOMAIN tasksQ /\ tasksQ'[k] = tasksQ[k]
            \/ tasksQ'[k] = WorkTask(type, Head(planned))
  BY <1>2, AppendElements DEF PushTask, PoolTypeOK
<1>4. Len(tasksQ') =< MaxTasks
  BY <1>2, PoolAssumption, AppendProperties DEF PushTask, PoolTypeOK
<1>5. GateInv'
  <2>1. GateFrame
    BY DEF PushTask, GateFrame, GateInv, GateTypeOK
  <2>2. UNCHANGED <<hpc, buffMutex>>
    BY DEF PushTask, HandlerGo
  <2> QED BY <2>1, <2>2, FrameKeepsGate
<1>6. PoolTypeOK' BY <1>3, <1>4 DEF PushTask, PoolTypeOK
<1>7. PlanTypeOK' BY <1>1 DEF PushTask, PlanTypeOK
<1>8. BufferReady' BY DEF PushTask, HandlerGo, BufferReady
<1>9. TasksOfOneTruck'
  <2>1. \A k \in DOMAIN planned' : FromOneTruck(Range(planned'[k]))
    BY <1>1 DEF PushTask, TasksOfOneTruck
  <2>2. \A k \in DOMAIN tasksQ' : FromOneTruck(Range(tasksQ'[k].items))
    BY <1>1, <1>3 DEF TasksOfOneTruck, WorkTask
  <2> QED BY <2>1, <2>2 DEF PushTask, TasksOfOneTruck, FromOneTruck
<1> QED BY <1>5, <1>6, <1>7, <1>8, <1>9

LEMMA EndIterationInv ==
    ASSUME IInv, EndIteration PROVE IInv'
<1> USE DEF IInv
<1>1. GateInv'
  <2>1. GateFrame
    BY DEF EndIteration, GateFrame, GateInv, GateTypeOK
  <2>2. hpc \in HandlerBusy /\ hpc' = "open" /\ buffMutex' = Nobody
    BY DEF EndIteration, HandlerGo, HandlerBusy
  <2> QED BY <2>1, <2>2, FrameKeepsGate
<1>2. PoolTypeOK' BY DEF EndIteration, PoolTypeOK, poolVars
<1>3. PlanTypeOK' BY DEF EndIteration, PlanTypeOK
<1>4. BufferReady' BY DEF EndIteration, HandlerGo, BufferReady
<1>5. TasksOfOneTruck'
  BY DEF EndIteration, TasksOfOneTruck, FromOneTruck, poolVars
<1> QED BY <1>1, <1>2, <1>3, <1>4, <1>5

-----------------------------------------------------------------------------
(* The robots and the menu.                                                *)

\* Every task, poison included, carries a sequence of items.
LEMMA TaskItems == ASSUME NEW task \in Task PROVE task.items \in Seq(Items)
<1>1. CASE task \in [type : {"TTrestock", "TTdelivery"}, items : Seq(Items)]
  BY <1>1
<1>2. CASE task = PoisonTask
  <2>1. task.items = <<>> BY <1>2 DEF PoisonTask, WorkTask
  <2> QED BY <2>1
<1> QED BY <1>1, <1>2 DEF Task

LEMMA RobotTakeInv ==
    ASSUME IInv, NEW r \in Robots, RobotTake(r), UNCHANGED planVars
    PROVE  IInv'
<1> USE DEF IInv
<1>1. /\ Tail(tasksQ) \in Seq(Task) /\ Head(tasksQ) \in Task
      /\ Len(Tail(tasksQ)) = Len(tasksQ) - 1
      /\ 1 \in DOMAIN tasksQ /\ Head(tasksQ) = tasksQ[1]
      /\ \A k \in DOMAIN Tail(tasksQ) : k + 1 \in DOMAIN tasksQ /\ Tail(tasksQ)[k] = tasksQ[k + 1]
  BY TailElements DEF RobotTake, PoolTypeOK
<1>2. GateInv' BY StutterKeepsGate DEF RobotTake
<1>3. PoolTypeOK'
  <2>1. Len(tasksQ') =< MaxTasks
    BY <1>1, PoolAssumption, LenProperties DEF RobotTake, PoolTypeOK
  <2>2. rpc' \in [Robots -> RobotPC]
    BY DEF RobotTake, RobotGo, PoolTypeOK, RobotPC
  <2>3. Head(tasksQ).items \in Seq(Items)
    BY <1>1, TaskItems
  <2>4. job' \in [Robots -> Seq(Items)]
    BY <2>3 DEF RobotTake, PoolTypeOK
  <2> QED BY <1>1, <2>1, <2>2, <2>4 DEF RobotTake, PoolTypeOK
<1>4. PlanTypeOK' BY DEF PlanTypeOK, planVars
<1>5. BufferReady' BY DEF RobotTake, BufferReady, planVars, gateVars
<1>6. TasksOfOneTruck'
  <2>1. \A k \in DOMAIN tasksQ' : FromOneTruck(Range(tasksQ'[k].items))
    BY <1>1 DEF RobotTake, TasksOfOneTruck
  <2>2. \A q \in Robots : FromOneTruck(Range(job'[q]))
    BY <1>1, ZenonT(60) DEF RobotTake, TasksOfOneTruck, PoolTypeOK
  <2> QED BY <2>1, <2>2 DEF RobotTake, TasksOfOneTruck, FromOneTruck, planVars, gateVars
<1> QED BY <1>2, <1>3, <1>4, <1>5, <1>6

LEMMA CountDownInv ==
    ASSUME IInv, NEW r \in Robots, CountDown(r), UNCHANGED planVars
    PROVE  IInv'
<1> USE DEF IInv
<1>1. taskcount' \in 0 .. CounterMod - 1
  <2>1. CASE RobotStore(r)
    <3>1. rreg[r] + CounterMod - 1 \in Nat /\ CounterMod \in Nat /\ CounterMod > 0
      BY GateAssumption DEF PoolTypeOK
    <3>2. (rreg[r] + CounterMod - 1) % CounterMod \in 0 .. CounterMod - 1
      BY <3>1
    <3> QED BY <2>1, <3>2 DEF RobotStore
  <2>2. CASE ~ RobotStore(r)
    BY <2>2 DEF CountDown, RobotCheck, RobotLoad, RobotNotify, gateVars, GateInv, GateTypeOK
  <2> QED BY <2>1, <2>2
<1>2. /\ UNCHANGED <<dock, arrived, buff, docked, stage, spurious, hpc, buffMutex>>
      /\ NotifyOne \/ UNCHANGED tpc
      /\ UNCHANGED <<tasksQ, job, poisons>>
  BY DEF CountDown, RobotCheck, RobotLoad, RobotStore, RobotNotify, gateVars
<1>3. GateInv'
  <2>1. GateFrame BY <1>1, <1>2 DEF GateFrame, GateInv, GateTypeOK
  <2> QED BY <1>2, <2>1, FrameKeepsGate
<1>4. PoolTypeOK'
  <2>1. rpc' \in [Robots -> RobotPC]
    <3>1. \E pc \in RobotPC : rpc' = [rpc EXCEPT ![r] = pc]
      BY DEF CountDown, RobotCheck, RobotLoad, RobotStore, RobotNotify, RobotGo, RobotPC
    <3> QED BY <3>1 DEF PoolTypeOK
  <2>2. rreg' \in [Robots -> 0 .. CounterMod - 1]
    <3>1. CASE RobotLoad(r)
      BY <3>1 DEF RobotLoad, PoolTypeOK, GateInv, GateTypeOK
    <3>2. CASE ~ RobotLoad(r)
      BY <3>2 DEF CountDown, RobotCheck, RobotStore, RobotNotify, PoolTypeOK
    <3> QED BY <3>1, <3>2
  <2> QED BY <1>2, <2>1, <2>2 DEF PoolTypeOK
<1>5. PlanTypeOK' BY DEF PlanTypeOK, planVars
<1>6. BufferReady'
  <2>1. \A t \in Trucks : tpc'[t] = "moored" => tpc[t] = "moored"
    BY <1>2 DEF NotifyOne, TruckGo, GateInv, GateTypeOK
  <2> QED BY <1>2, <2>1 DEF BufferReady, planVars
<1>7. TasksOfOneTruck'
  BY <1>2 DEF TasksOfOneTruck, FromOneTruck, planVars
<1> QED BY <1>3, <1>4, <1>5, <1>6, <1>7

LEMMA MenuInv == ASSUME IInv, MenuStep PROVE IInv'
<1> USE DEF IInv
<1>1. GateInv' BY StutterKeepsGate DEF MenuStep, MenuRobotMinus, MenuRobotPlus
<1>2. BufferReady' BY DEF MenuStep, MenuRobotMinus, MenuRobotPlus, BufferReady, planVars, gateVars
<1>3. PlanTypeOK' BY DEF MenuStep, PlanTypeOK, planVars
<1>4. CASE MenuRobotMinus
  <2>1. PoisonTask \in Task BY DEF Task
  <2>2. /\ tasksQ' \in Seq(Task)
        /\ \A k \in DOMAIN tasksQ' :
              (k \in DOMAIN tasksQ /\ tasksQ'[k] = tasksQ[k]) \/ tasksQ'[k] = PoisonTask
    BY <1>4, <2>1, AppendElements DEF MenuRobotMinus, PoolTypeOK
  <2>3. Len(tasksQ') =< MaxTasks
    BY <1>4, <2>1, PoolAssumption, AppendProperties DEF MenuRobotMinus, PoolTypeOK
  <2>4. PoolTypeOK'
    BY <1>4, <2>2, <2>3, PoolAssumption DEF MenuRobotMinus, PoolTypeOK
  <2>5. FromOneTruck(Range(PoisonTask.items))
    BY DEF FromOneTruck, PoisonTask, WorkTask, Range
  <2>6. TasksOfOneTruck'
    <3>1. \A k \in DOMAIN tasksQ' : FromOneTruck(Range(tasksQ'[k].items))
      BY <2>2, <2>5 DEF TasksOfOneTruck
    <3> QED
      BY <1>4, <3>1 DEF MenuStep, MenuRobotMinus, TasksOfOneTruck, FromOneTruck, planVars, gateVars
  <2> QED BY <1>1, <1>2, <1>3, <2>4, <2>6
<1>5. CASE \E r \in Robots : MenuRobotPlus(r)
  <2>1. PoolTypeOK' BY <1>5 DEF MenuRobotPlus, RobotGo, PoolTypeOK, RobotPC
  <2>2. TasksOfOneTruck'
    BY <1>5 DEF MenuStep, MenuRobotPlus, TasksOfOneTruck, FromOneTruck, planVars, gateVars
  <2> QED BY <1>1, <1>2, <1>3, <2>1, <2>2
<1> QED BY <1>4, <1>5 DEF MenuStep

\* What RobotShared comes to.
LEMMA RobotSharedInv == ASSUME IInv, NEW r \in Robots, RobotShared(r) PROVE IInv'
  BY RobotTakeInv, CountDownInv DEF RobotShared

\* A step that changes none of the variables of this module.
LEMMA StutterInv ==
    ASSUME IInv, UNCHANGED <<gateVars, poolVars, planVars>> PROVE IInv'
<1>1. GateInv' BY StutterKeepsGate DEF IInv
<1> QED BY <1>1
    DEF IInv, PoolTypeOK, PlanTypeOK, BufferReady, TasksOfOneTruck, FromOneTruck,
        gateVars, poolVars, planVars

\* A step of the handler that only goes astray: in an endless path, or over
\* the end of a vector.
LEMMA AstrayInv ==
    ASSUME IInv, hpc = "plan", hpc' \in {"hung", "undefined"},
           UNCHANGED <<planVars, poolVars, dock, arrived, buffMutex, buff, taskcount,
                       docked, tpc, stage, spurious>>
    PROVE  IInv'
<1> USE DEF IInv
<1>1. GateInv'
  <2>1. GateFrame
    BY DEF GateFrame, GateInv, GateTypeOK
  <2>2. hpc \in HandlerBusy /\ hpc' \in HandlerBusy /\ UNCHANGED buffMutex
    BY DEF HandlerBusy
  <2> QED BY <2>1, <2>2, FrameKeepsGate
<1>2. PoolTypeOK' BY DEF PoolTypeOK, poolVars
<1>3. PlanTypeOK' BY DEF PlanTypeOK, planVars
<1>4. BufferReady'
  BY DEF BufferReady, planVars, GateInv, OneTruckAtDock, AtDock, GateTypeOK
<1>5. TasksOfOneTruck'
  BY DEF TasksOfOneTruck, FromOneTruck, planVars, poolVars
<1> QED BY <1>1, <1>2, <1>3, <1>4, <1>5
-----------------------------------------------------------------------------
(* Where the units of an item are.                                         *)

UnitsIn(i, s) == Cardinality({k \in DOMAIN s : s[k] = i})

One(i) == [x \in Items |-> IF x = i THEN 1 ELSE 0]

LEMMA UnitsAreASum ==
    ASSUME NEW i, NEW s, s \in Seq(Items) PROVE UnitsIn(i, s) = SumOf(One(i), s)
<1>1. UnitsIn(i, s) = Occurrences(i, s) BY DEF UnitsIn, Occurrences
<1>2. One(i) = OneOf(Items, i) BY DEF One, OneOf
<1> QED BY <1>1, <1>2, OccurrencesAreASum

LEMMA UnitsOfSequence ==
    ASSUME NEW i, NEW s, s \in Seq(Items)
    PROVE  UnitsIn(i, s) \in Nat
<1>1. One(i) \in [Items -> Nat] BY DEF One
<1> QED BY <1>1, UnitsAreASum, SumOfNat

LEMMA UnitsEmpty == ASSUME NEW i PROVE UnitsIn(i, <<>>) = 0
<1>1. <<>> \in Seq(Items) OBVIOUS
<1> QED BY <1>1, UnitsAreASum, SumOfEmpty

LEMMA UnitsAppend ==
    ASSUME NEW i, NEW s, NEW e, s \in Seq(Items), e \in Items
    PROVE  UnitsIn(i, Append(s, e)) = UnitsIn(i, s) + One(i)[e]
<1>1. One(i) \in [Items -> Nat] BY DEF One
<1>2. Append(s, e) \in Seq(Items) BY AppendProperties
<1>3. SumOf(One(i), Append(s, e)) = SumOf(One(i), s) + One(i)[e]
  BY <1>1, SumOfAppend
<1> QED BY <1>2, <1>3, UnitsAreASum

LEMMA UnitsFront ==
    ASSUME NEW i, NEW s, s \in Seq(Items), s # <<>>
    PROVE  /\ Front(s) \in Seq(Items) /\ Last(s) \in Items
           /\ UnitsIn(i, s) = UnitsIn(i, Front(s)) + One(i)[Last(s)]
<1>1. One(i) \in [Items -> Nat] BY DEF One
<1>2. /\ Front(s) \in Seq(Items) /\ Last(s) \in Items
      /\ SumOf(One(i), s) = SumOf(One(i), Front(s)) + One(i)[Last(s)]
  BY <1>1, SumOfFront
<1> QED BY <1>2, UnitsAreASum

\* The units in a sequence of tasks, in a queue of them and with the robots
InPlanned(i, p) == SumFunction([k \in DOMAIN p |-> UnitsIn(i, p[k])])
InQueue(i, q) == SumFunction([k \in DOMAIN q |-> UnitsIn(i, q[k].items)])
InHands(i, j) == SumFunction([r \in Robots |-> UnitsIn(i, j[r])])

UnitsOfLoad(i) == [s \in Seq(Items) |-> UnitsIn(i, s)]
UnitsOfTask(i) == [task \in Task |-> UnitsIn(i, task.items)]

LEMMA PlannedIsASum ==
    ASSUME NEW i, NEW p, p \in Seq(Seq(Items))
    PROVE  InPlanned(i, p) = SumOf(UnitsOfLoad(i), p)
<1>1. \A k \in DOMAIN p : p[k] \in Seq(Items)
  BY LenProperties, ElementOfSeq
<1>2. [k \in DOMAIN p |-> UnitsIn(i, p[k])] = Weighed(UnitsOfLoad(i), p)
  BY <1>1 DEF Weighed, UnitsOfLoad
<1> QED BY <1>2 DEF InPlanned, SumOf

LEMMA QueueIsASum ==
    ASSUME NEW i, NEW q, q \in Seq(Task)
    PROVE  InQueue(i, q) = SumOf(UnitsOfTask(i), q)
<1>1. \A k \in DOMAIN q : q[k] \in Task
  BY LenProperties, ElementOfSeq
<1>2. [k \in DOMAIN q |-> UnitsIn(i, q[k].items)] = Weighed(UnitsOfTask(i), q)
  BY <1>1 DEF Weighed, UnitsOfTask
<1> QED BY <1>2 DEF InQueue, SumOf

LEMMA UnitsTyped ==
    ASSUME NEW i
    PROVE  UnitsOfLoad(i) \in [Seq(Items) -> Nat] /\ UnitsOfTask(i) \in [Task -> Nat]
<1>1. UnitsOfLoad(i) \in [Seq(Items) -> Nat]
  BY UnitsOfSequence DEF UnitsOfLoad
<1>2. ASSUME NEW task \in Task PROVE UnitsIn(i, task.items) \in Nat
  <2>1. task.items \in Seq(Items) BY TaskItems
  <2> QED BY <2>1, UnitsOfSequence
<1> QED BY <1>1, <1>2 DEF UnitsOfTask

LEMMA PlannedUnits ==
    ASSUME NEW i, NEW p, p \in Seq(Seq(Items))
    PROVE  /\ InPlanned(i, p) \in Nat
           /\ \A l \in Seq(Items) : InPlanned(i, Append(p, l)) = InPlanned(i, p) + UnitsIn(i, l)
           /\ p # <<>> => InPlanned(i, p) = UnitsIn(i, Head(p)) + InPlanned(i, Tail(p))
<1> DEFINE f == UnitsOfLoad(i)
<1>1. f \in [Seq(Items) -> Nat] /\ \A l \in Seq(Items) : f[l] = UnitsIn(i, l)
  BY UnitsTyped DEF UnitsOfLoad
<1> HIDE DEF f
<1>2. SumOf(f, p) \in Nat BY <1>1, SumOfNat
<1>3. ASSUME NEW l \in Seq(Items)
      PROVE  InPlanned(i, Append(p, l)) = InPlanned(i, p) + UnitsIn(i, l)
  <2>1. Append(p, l) \in Seq(Seq(Items)) BY AppendProperties
  <2>2. SumOf(f, Append(p, l)) = SumOf(f, p) + f[l] BY <1>1, SumOfAppend
  <2> QED BY <1>1, <2>1, <2>2, PlannedIsASum DEF f
<1>4. ASSUME p # <<>>
      PROVE  InPlanned(i, p) = UnitsIn(i, Head(p)) + InPlanned(i, Tail(p))
  <2>1. /\ Tail(p) \in Seq(Seq(Items)) /\ Head(p) \in Seq(Items)
        /\ SumOf(f, p) = f[Head(p)] + SumOf(f, Tail(p))
    BY <1>1, <1>4, SumOfTail
  <2> QED BY <1>1, <2>1, PlannedIsASum DEF f
<1> QED BY <1>2, <1>3, <1>4, PlannedIsASum DEF f

LEMMA QueueUnits ==
    ASSUME NEW i, NEW q, q \in Seq(Task)
    PROVE  /\ InQueue(i, q) \in Nat
           /\ \A task \in Task :
                 InQueue(i, Append(q, task)) = InQueue(i, q) + UnitsIn(i, task.items)
           /\ q # <<>> => InQueue(i, q) = UnitsIn(i, Head(q).items) + InQueue(i, Tail(q))
<1> DEFINE f == UnitsOfTask(i)
<1>1. f \in [Task -> Nat] /\ \A task \in Task : f[task] = UnitsIn(i, task.items)
  BY UnitsTyped DEF UnitsOfTask
<1> HIDE DEF f
<1>2. SumOf(f, q) \in Nat BY <1>1, SumOfNat
<1>3. ASSUME NEW task \in Task
      PROVE  InQueue(i, Append(q, task)) = InQueue(i, q) + UnitsIn(i, task.items)
  <2>1. Append(q, task) \in Seq(Task) BY AppendProperties
  <2>2. SumOf(f, Append(q, task)) = SumOf(f, q) + f[task] BY <1>1, SumOfAppend
  <2> QED BY <1>1, <2>1, <2>2, QueueIsASum DEF f
<1>4. ASSUME q # <<>>
      PROVE  InQueue(i, q) = UnitsIn(i, Head(q).items) + InQueue(i, Tail(q))
  <2>1. /\ Tail(q) \in Seq(Task) /\ Head(q) \in Task
        /\ SumOf(f, q) = f[Head(q)] + SumOf(f, Tail(q))
    BY <1>1, <1>4, SumOfTail
  <2> QED BY <1>1, <2>1, QueueIsASum DEF f
<1> QED BY <1>2, <1>3, <1>4, QueueIsASum DEF f

LEMMA HandsUnits ==
    ASSUME NEW i, NEW j, IsFiniteSet(Robots), j \in [Robots -> Seq(Items)]
    PROVE  /\ InHands(i, j) \in Nat
           /\ \A r \in Robots : UnitsIn(i, j[r]) =< InHands(i, j)
           /\ \A r \in Robots, s \in Seq(Items) :
                 InHands(i, [j EXCEPT ![r] = s]) = InHands(i, j) - UnitsIn(i, j[r]) + UnitsIn(i, s)
<1> DEFINE F(k) == [r \in Robots |-> UnitsIn(i, k[r])]
<1>1. ASSUME NEW k \in [Robots -> Seq(Items)]
      PROVE  F(k) \in [Robots -> Nat] /\ InHands(i, k) = Total(F(k), Robots)
  <2>1. F(k) \in [Robots -> Nat] BY UnitsOfSequence
  <2> QED BY <2>1, FunctionSum DEF InHands
<1>2. InHands(i, j) \in Nat /\ \A r \in Robots : UnitsIn(i, j[r]) =< InHands(i, j)
  <2>1. Total(F(j), Robots) \in Nat /\ \A r \in Robots : F(j)[r] =< Total(F(j), Robots)
    BY <1>1, TotalNat
  <2> QED BY <1>1, <2>1
<1>3. ASSUME NEW r \in Robots, NEW s \in Seq(Items)
      PROVE  InHands(i, [j EXCEPT ![r] = s]) = InHands(i, j) - UnitsIn(i, j[r]) + UnitsIn(i, s)
  <2> DEFINE k == [j EXCEPT ![r] = s]
  <2>1. k \in [Robots -> Seq(Items)] /\ k[r] = s /\ \A q \in Robots : q # r => k[q] = j[q]
    OBVIOUS
  <2> HIDE DEF k
  <2> DEFINE f == F(j)
             g == F(k)
  <2>2. /\ f \in [Robots -> Nat] /\ g \in [Robots -> Nat]
        /\ InHands(i, j) = Total(f, Robots) /\ InHands(i, k) = Total(g, Robots)
    BY <1>1, <2>1
  <2>3. /\ f[r] = UnitsIn(i, j[r]) /\ g[r] = UnitsIn(i, s)
        /\ \A q \in Robots : q # r => g[q] = f[q]
    BY <2>1
  <2> HIDE DEF f, g, F
  <2>4. Total(g, Robots) = Total(f, Robots) - f[r] + g[r]
    BY ONLY <2>2, <2>3, IsFiniteSet(Robots), r \in Robots, TotalMove
  <2> QED BY <2>2, <2>3, <2>4 DEF k
<1> QED BY <1>2, <1>3
-----------------------------------------------------------------------------
(* Accounts of units: what the refinements of CargoService rest on.  A     *)
(* robot without work has nothing in its hands, so that a task it takes    *)
(* adds to nothing.                                                        *)

EmptyHanded == \A r \in Robots : rpc[r] # "work" => job[r] = <<>>

Waiting == {t \in Trucks : tpc[t] \in {"called", "moored"}}

\* The units of an item in tasks, and in the dock as a whole
Tasked(i) == InPlanned(i, planned) + InQueue(i, tasksQ) + InHands(i, job)
Inside(i) == UnitsIn(i, buff) + UnitsIn(i, load) + Tasked(i)

LEMMA UnitsNat ==
    ASSUME IInv, IsFiniteSet(Robots), NEW i
    PROVE  /\ UnitsIn(i, buff) \in Nat /\ UnitsIn(i, load) \in Nat
           /\ InPlanned(i, planned) \in Nat /\ InQueue(i, tasksQ) \in Nat /\ InHands(i, job) \in Nat
           /\ Tasked(i) \in Nat /\ Inside(i) \in Nat
<1>1. UnitsIn(i, buff) \in Nat /\ UnitsIn(i, load) \in Nat
  BY UnitsOfSequence DEF IInv, GateInv, GateTypeOK, PlanTypeOK
<1>2. InPlanned(i, planned) \in Nat
  BY PlannedUnits DEF IInv, PlanTypeOK
<1>3. InQueue(i, tasksQ) \in Nat
  BY QueueUnits DEF IInv, PoolTypeOK
<1>4. InHands(i, job) \in Nat
  BY HandsUnits DEF IInv, PoolTypeOK
<1> QED BY <1>1, <1>2, <1>3, <1>4 DEF Tasked, Inside

LEMMA UnitsNatNext ==
    ASSUME IInv', IsFiniteSet(Robots), NEW i
    PROVE  /\ UnitsIn(i, buff)' \in Nat /\ UnitsIn(i, load)' \in Nat
           /\ InPlanned(i, planned)' \in Nat /\ InQueue(i, tasksQ)' \in Nat /\ InHands(i, job)' \in Nat
           /\ Tasked(i)' \in Nat
<1>1. /\ buff' \in Seq(Items) /\ load' \in Seq(Items) /\ planned' \in Seq(Seq(Items))
      /\ tasksQ' \in Seq(Task) /\ job' \in [Robots -> Seq(Items)]
  BY DEF IInv, GateInv, GateTypeOK, PlanTypeOK, PoolTypeOK
<1>2. /\ UnitsIn(i, buff') \in Nat /\ UnitsIn(i, load') \in Nat
      /\ InPlanned(i, planned') \in Nat /\ InQueue(i, tasksQ') \in Nat /\ InHands(i, job') \in Nat
  BY <1>1, UnitsOfSequence, PlannedUnits, QueueUnits, HandsUnits
<1>3. /\ UnitsIn(i, buff)' \in Nat /\ UnitsIn(i, load)' \in Nat
      /\ InPlanned(i, planned)' \in Nat /\ InQueue(i, tasksQ)' \in Nat /\ InHands(i, job)' \in Nat
  BY <1>2 DEF UnitsIn, InPlanned, InQueue, InHands
<1> QED BY <1>3 DEF Tasked

LEMMA NothingInside ==
    ASSUME NEW i, IsFiniteSet(Robots), buff = <<>>, load = <<>>, planned = <<>>, tasksQ = <<>>,
           job = [r \in Robots |-> <<>>]
    PROVE  Inside(i) = 0
<1>1. UnitsIn(i, <<>>) = 0 BY UnitsEmpty
<1>2. InPlanned(i, planned) = 0 /\ InQueue(i, tasksQ) = 0
  <2>1. [k \in DOMAIN <<>> |-> UnitsIn(i, <<>>[k])] = <<>> OBVIOUS
  <2>2. [k \in DOMAIN <<>> |-> UnitsIn(i, <<>>[k].items)] = <<>> OBVIOUS
  <2> QED BY <2>1, <2>2, SumEmpty DEF InPlanned, InQueue
<1>3. InHands(i, job) = 0
  <2> DEFINE f == [r \in Robots |-> UnitsIn(i, job[r])]
  <2>1. f \in [Robots -> Nat] /\ \A r \in Robots : f[r] = 0
    BY <1>1
  <2> HIDE DEF f
  <2>2. SumFunction(f) = 0
    BY <2>1, FunctionSum, TotalZero
  <2> QED BY <2>2 DEF f, InHands
<1> QED BY <1>1, <1>2, <1>3 DEF Inside, Tasked

\* Only what a truck does when it is called or moored changes who waits.
LEMMA WaitingKept ==
    ASSUME IInv,
           \/ UNCHANGED tpc
           \/ NotifyOne
           \/ \E t \in Trucks : (TruckStep(t) /\ ~ TruckUnload(t)) \/ SpuriousWake(t)
    PROVE  Waiting' = Waiting
<1>1. tpc \in [Trucks -> TruckPC]
  BY DEF IInv, GateInv, GateTypeOK
<1>2. CASE NotifyOne
  BY <1>1, <1>2 DEF NotifyOne, TruckGo, Waiting
<1>3. ASSUME NEW t \in Trucks, (TruckStep(t) /\ ~ TruckUnload(t)) \/ SpuriousWake(t)
      PROVE  Waiting' = Waiting
  BY <1>1, <1>3 DEF TruckStep, TruckMoor, TruckAnnounce, TruckLock, TruckPass, TruckFail,
     TruckSleep, SpuriousWake, TruckGo, Waiting
<1> QED BY <1>2, <1>3 DEF Waiting

\* A truck that unloads adds its cargo to an empty buffer.
LEMMA UnloadUnits ==
    ASSUME IInv, IsFiniteSet(Robots), NEW t \in Trucks, TruckThread(t), TruckUnload(t)
    PROVE  /\ t \in Waiting /\ Waiting' = Waiting \ {t}
           /\ UNCHANGED hpc /\ hpc = "await"
           /\ \A i \in Items : Inside(i)' = Inside(i) + UnitsIn(i, Cargo[t])
<1>1. /\ tpc \in [Trucks -> TruckPC] /\ tpc[t] = "moored"
      /\ tpc' = [tpc EXCEPT ![t] = "unloaded"] /\ UNCHANGED hpc
  BY DEF IInv, GateInv, GateTypeOK, TruckUnload, TruckGo
<1>2. buff = <<>> /\ hpc = "await" /\ buff' = Cargo[t]
  <2>1. buff = <<>> /\ hpc = "await"
    BY <1>1 DEF IInv, GateInv, OneTruckAtDock, AtDock, BufferReady
  <2> QED BY <2>1, GateAssumption DEF TruckUnload
<1>3. ASSUME NEW i \in Items PROVE Inside(i)' = Inside(i) + UnitsIn(i, Cargo[t])
  <2>1. UNCHANGED <<load, planned, tasksQ, job>>
    BY DEF TruckThread, poolVars, planVars
  <2>2. UnitsIn(i, buff) = 0 BY <1>2, UnitsEmpty
  <2>3. UnitsIn(i, Cargo[t]) \in Nat BY GateAssumption, UnitsOfSequence
  <2>4. /\ UnitsIn(i, buff)' = UnitsIn(i, Cargo[t])
        /\ UnitsIn(i, load)' = UnitsIn(i, load) /\ Tasked(i)' = Tasked(i)
    <3>1. UnitsIn(i, buff') = UnitsIn(i, Cargo[t]) BY <1>2
    <3> QED BY <2>1, <3>1 DEF Tasked, UnitsIn, InPlanned, InQueue, InHands
  <2>5. Tasked(i) \in Nat /\ UnitsIn(i, load) \in Nat BY UnitsNat
  <2> QED BY <2>2, <2>3, <2>4, <2>5 DEF Inside
<1> QED BY <1>1, <1>2, <1>3 DEF Waiting

\* What the handler takes from the buffer is in its load.
LEMMA TakeItemUnits ==
    ASSUME IInv, buff # <<>>, NEW items \in Seq(Items), TakeItem(items), NEW i \in Items
    PROVE  UnitsIn(i, buff)' + UnitsIn(i, load)' = UnitsIn(i, buff) + UnitsIn(i, items)
<1>1. buff \in Seq(Items) BY DEF IInv, GateInv, GateTypeOK
<1>2. /\ Front(buff) \in Seq(Items) /\ Last(buff) \in Items
      /\ UnitsIn(i, buff) = UnitsIn(i, Front(buff)) + One(i)[Last(buff)]
  BY <1>1, UnitsFront
<1>3. UnitsIn(i, Append(items, Last(buff))) = UnitsIn(i, items) + One(i)[Last(buff)]
  BY <1>2, UnitsAppend
<1>4. /\ UnitsIn(i, Front(buff)) \in Nat /\ UnitsIn(i, items) \in Nat
      /\ One(i)[Last(buff)] \in Nat
  <2>1. One(i)[Last(buff)] \in Nat BY <1>2 DEF One
  <2> QED BY <1>2, <2>1, UnitsOfSequence
<1>5. UnitsIn(i, buff') = UnitsIn(i, Front(buff)) /\ UnitsIn(i, load') = UnitsIn(i, Append(items, Last(buff)))
  BY DEF TakeItem
<1>6. UnitsIn(i, buff)' = UnitsIn(i, buff') /\ UnitsIn(i, load)' = UnitsIn(i, load')
  BY DEF UnitsIn
<1> QED BY <1>2, <1>3, <1>4, <1>5, <1>6

\* Tasks go from the handler to the queue and from there to a robot, and a
\* poison carries nothing.
LEMMA PushUnits ==
    ASSUME IInv, IsFiniteSet(Robots), NEW i \in Items,
           NEW type \in {"TTrestock", "TTdelivery"}, PushTask(type)
    PROVE  Tasked(i)' = Tasked(i)
<1>1. planned \in Seq(Seq(Items)) /\ tasksQ \in Seq(Task) /\ planned # <<>>
  BY DEF IInv, PlanTypeOK, PoolTypeOK, PushTask
<1>2. Head(planned) \in Seq(Items) /\ Tail(planned) \in Seq(Seq(Items))
  BY <1>1, TailElements
<1> DEFINE task == WorkTask(type, Head(planned))
<1>3. task \in Task /\ task.items = Head(planned)
  BY <1>2 DEF WorkTask, Task
<1>4. planned' = Tail(planned) /\ tasksQ' = Append(tasksQ, task) /\ UNCHANGED job
  BY DEF PushTask
<1> HIDE DEF task
<1>5. InPlanned(i, planned) = UnitsIn(i, Head(planned)) + InPlanned(i, planned')
  BY <1>1, <1>4, PlannedUnits
<1>6. InQueue(i, tasksQ') = InQueue(i, tasksQ) + UnitsIn(i, Head(planned))
  BY <1>1, <1>3, <1>4, QueueUnits
<1>7. /\ UnitsIn(i, Head(planned)) \in Nat /\ InPlanned(i, planned') \in Nat
      /\ InQueue(i, tasksQ) \in Nat /\ InHands(i, job) \in Nat
  BY <1>2, <1>4, UnitsOfSequence, PlannedUnits, UnitsNat
<1>8. Tasked(i)' = InPlanned(i, planned') + InQueue(i, tasksQ') + InHands(i, job)
  BY <1>4 DEF Tasked, InPlanned, InQueue, InHands, UnitsIn
<1> QED BY <1>5, <1>6, <1>7, <1>8 DEF Tasked

LEMMA TakeUnits ==
    ASSUME IInv, EmptyHanded, IsFiniteSet(Robots), NEW i \in Items,
           NEW r \in Robots, RobotTake(r), UNCHANGED planVars
    PROVE  Tasked(i)' = Tasked(i)
<1>1. tasksQ \in Seq(Task) /\ tasksQ # <<>> /\ job \in [Robots -> Seq(Items)]
  BY DEF IInv, PoolTypeOK, RobotTake
<1>2. Head(tasksQ) \in Task /\ Head(tasksQ).items \in Seq(Items) /\ Tail(tasksQ) \in Seq(Task)
  BY <1>1, TailElements, TaskItems
<1>3. tasksQ' = Tail(tasksQ) /\ UNCHANGED planned
  BY DEF RobotTake, planVars
<1>4. job[r] = <<>>
  BY DEF RobotTake, RobotGo, EmptyHanded
<1>5. job' = [job EXCEPT ![r] = Head(tasksQ).items]
  <2>1. CASE Head(tasksQ).type = "TTpoison"
    <3>1. Head(tasksQ) = PoisonTask BY <1>2, <2>1 DEF Task
    <3>2. Head(tasksQ).items = <<>> BY <3>1 DEF PoisonTask, WorkTask
    <3>3. job' = job BY <2>1 DEF RobotTake
    <3> QED BY <1>1, <1>4, <3>2, <3>3
  <2>2. CASE Head(tasksQ).type # "TTpoison"
    BY <2>2 DEF RobotTake
  <2> QED BY <2>1, <2>2
<1>6. InQueue(i, tasksQ) = UnitsIn(i, Head(tasksQ).items) + InQueue(i, tasksQ')
  BY <1>1, <1>3, QueueUnits
<1>7. InHands(i, job') = InHands(i, job) - UnitsIn(i, job[r]) + UnitsIn(i, Head(tasksQ).items)
  BY <1>1, <1>2, <1>5, HandsUnits
<1>8. UnitsIn(i, job[r]) = 0 BY <1>4, UnitsEmpty
<1>9. /\ UnitsIn(i, Head(tasksQ).items) \in Nat /\ InQueue(i, tasksQ') \in Nat
      /\ InPlanned(i, planned) \in Nat /\ InHands(i, job) \in Nat
  BY <1>2, <1>3, UnitsOfSequence, QueueUnits, UnitsNat
<1>10. Tasked(i)' = InPlanned(i, planned) + InQueue(i, tasksQ') + InHands(i, job')
  BY <1>3 DEF Tasked, InPlanned, InQueue, InHands, UnitsIn
<1> QED BY <1>6, <1>7, <1>8, <1>9, <1>10 DEF Tasked

LEMMA MenuUnits ==
    ASSUME IInv, IsFiniteSet(Robots), NEW i \in Items, MenuStep
    PROVE  Tasked(i)' = Tasked(i)
<1>1. UNCHANGED <<planned, job>>
  BY DEF MenuStep, MenuRobotMinus, MenuRobotPlus, planVars
<1>2. InQueue(i, tasksQ') = InQueue(i, tasksQ)
  <2>1. CASE MenuRobotMinus
    <3>1. PoisonTask \in Task /\ PoisonTask.items = <<>>
      BY DEF Task, PoisonTask, WorkTask
    <3>2. InQueue(i, tasksQ') = InQueue(i, tasksQ) + UnitsIn(i, PoisonTask.items)
      BY <2>1, <3>1, QueueUnits DEF MenuRobotMinus, IInv, PoolTypeOK
    <3>3. InQueue(i, tasksQ) \in Nat BY UnitsNat
    <3> QED BY <3>1, <3>2, <3>3, UnitsEmpty
  <2>2. CASE ~ MenuRobotMinus
    BY <2>2 DEF MenuStep, MenuRobotPlus
  <2> QED BY <2>1, <2>2
<1>3. Tasked(i)' = InPlanned(i, planned) + InQueue(i, tasksQ') + InHands(i, job)
  BY <1>1 DEF Tasked, InPlanned, InQueue, InHands, UnitsIn
<1> QED BY <1>2, <1>3 DEF Tasked

\* A load that becomes a task
LEMMA PlanUnits ==
    ASSUME IInv, IsFiniteSet(Robots), NEW i \in Items,
           planned' = Append(planned, load), UNCHANGED <<tasksQ, job>>
    PROVE  Tasked(i)' = Tasked(i) + UnitsIn(i, load)
<1>1. InPlanned(i, planned') = InPlanned(i, planned) + UnitsIn(i, load)
  BY PlannedUnits DEF IInv, PlanTypeOK
<1>2. Tasked(i)' = InPlanned(i, planned') + InQueue(i, tasksQ) + InHands(i, job)
  BY DEF Tasked, InPlanned, InQueue, InHands, UnitsIn
<1> QED BY <1>1, <1>2, UnitsNat DEF Tasked

\* A robot whose hands change
LEMMA HandleUnits ==
    ASSUME IInv, IsFiniteSet(Robots), NEW i \in Items, NEW r \in Robots, NEW s \in Seq(Items),
           job' = [job EXCEPT ![r] = s], UNCHANGED <<planned, tasksQ>>
    PROVE  /\ Tasked(i)' = Tasked(i) - UnitsIn(i, job[r]) + UnitsIn(i, s)
           /\ UnitsIn(i, job[r]) \in Nat /\ UnitsIn(i, s) \in Nat
<1>1. job \in [Robots -> Seq(Items)] BY DEF IInv, PoolTypeOK
<1>2. InHands(i, job') = InHands(i, job) - UnitsIn(i, job[r]) + UnitsIn(i, s)
  BY <1>1, HandsUnits
<1>3. Tasked(i)' = InPlanned(i, planned) + InQueue(i, tasksQ) + InHands(i, job')
  BY DEF Tasked, InPlanned, InQueue, InHands, UnitsIn
<1>4. UnitsIn(i, job[r]) \in Nat /\ UnitsIn(i, s) \in Nat
  BY <1>1, UnitsOfSequence
<1> QED BY <1>2, <1>3, <1>4, UnitsNat, SMTT(30) DEF Tasked

\* The steps both docks share move units about, and lose or find none.
SharedStep ==
    \/ \E t \in Trucks : (TruckThread(t) /\ ~ TruckUnload(t)) \/ SpuriousThread(t)
    \/ HandlerGate \/ PlanItem \/ EndIteration
    \/ \E type \in {"TTrestock", "TTdelivery"} : PushTask(type)
    \/ \E r \in Robots : RobotShared(r)
    \/ MenuStep

LEMMA SharedKeepsUnits ==
    ASSUME IInv, EmptyHanded, IsFiniteSet(Robots), SharedStep
    PROVE  /\ Waiting' = Waiting
           /\ \A i \in Items : Inside(i)' = Inside(i)
           /\ UNCHANGED hpc \/ (hpc # "count" /\ hpc' # "count")
<1> DEFINE P == /\ Waiting' = Waiting
                /\ \A i \in Items : Inside(i)' = Inside(i)
                /\ UNCHANGED hpc \/ (hpc # "count" /\ hpc' # "count")
<1>1. ASSUME UNCHANGED <<buff, load>>, \A i \in Items : Tasked(i)' = Tasked(i)
      PROVE  \A i \in Items : Inside(i)' = Inside(i)
  BY <1>1 DEF Inside, UnitsIn
<1>2. ASSUME UNCHANGED <<planned, tasksQ, job>>, NEW i \in Items
      PROVE  Tasked(i)' = Tasked(i)
  BY <1>2 DEF Tasked, InPlanned, InQueue, InHands, UnitsIn
<1>3. ASSUME NEW t \in Trucks, (TruckThread(t) /\ ~ TruckUnload(t)) \/ SpuriousThread(t)
      PROVE  P
  <2>1. UNCHANGED <<buff, load, planned, tasksQ, job, hpc>>
    BY <1>3 DEF TruckThread, SpuriousThread, TruckStep, TruckMoor, TruckAnnounce, TruckLock,
       TruckPass, TruckFail, TruckSleep, SpuriousWake, poolVars, planVars
  <2>2. Waiting' = Waiting
    BY <1>3, WaitingKept DEF TruckThread, SpuriousThread
  <2> QED BY <1>1, <1>2, <2>1, <2>2
<1>4. CASE HandlerGate
  <2>1. /\ UNCHANGED <<buff, load, planned, tasksQ, job, tpc>>
        /\ hpc # "count" /\ hpc' # "count"
    BY <1>4 DEF HandlerGate, OpenDock, AwaitTruck, LockBuffer, poolVars, planVars
  <2> QED BY <1>1, <1>2, <2>1, WaitingKept
<1>5. CASE PlanItem
  <2>1. /\ UNCHANGED <<planned, tasksQ, job, tpc>> /\ TakeItem(load) /\ buff # <<>>
        /\ hpc # "count" /\ hpc' # "count" /\ load \in Seq(Items)
    BY <1>5 DEF PlanItem, HandlerGo, poolVars, IInv, PlanTypeOK
  <2>2. ASSUME NEW i \in Items PROVE Inside(i)' = Inside(i)
    <3>1. UnitsIn(i, buff)' + UnitsIn(i, load)' = UnitsIn(i, buff) + UnitsIn(i, load)
      BY <2>1, TakeItemUnits
    <3>2. Tasked(i)' = Tasked(i) BY <1>2, <2>1
    <3>3. Inside(i)' = UnitsIn(i, buff)' + UnitsIn(i, load)' + Tasked(i)'
      BY DEF Inside
    <3> QED BY <3>1, <3>2, <3>3 DEF Inside
  <2> QED BY <2>1, <2>2, WaitingKept
<1>6. CASE EndIteration
  <2>1. /\ UNCHANGED <<buff, load, planned, tasksQ, job, tpc>>
        /\ hpc # "count" /\ hpc' # "count"
    BY <1>6 DEF EndIteration, HandlerGo, poolVars
  <2> QED BY <1>1, <1>2, <2>1, WaitingKept
<1>7. ASSUME NEW type \in {"TTrestock", "TTdelivery"}, PushTask(type) PROVE P
  <2>1. UNCHANGED <<buff, load, tpc>> /\ hpc # "count" /\ hpc' # "count"
    BY <1>7 DEF PushTask, HandlerGo
  <2> QED BY <1>1, <1>7, <2>1, PushUnits, WaitingKept
<1>8. ASSUME NEW r \in Robots, RobotShared(r) PROVE P
  <2>1. CASE RobotTake(r)
    <3>1. UNCHANGED <<buff, load, tpc, hpc, planVars>>
      BY <1>8, <2>1 DEF RobotShared, RobotTake, gateVars, planVars
    <3>2. \A i \in Items : Tasked(i)' = Tasked(i)
      BY <2>1, <3>1, TakeUnits
    <3> QED BY <1>1, <3>1, <3>2, WaitingKept
  <2>2. CASE CountDown(r)
    <3>1. /\ UNCHANGED <<buff, load, hpc, planned, tasksQ, job>>
          /\ UNCHANGED tpc \/ NotifyOne
      BY <1>8, <2>2 DEF RobotShared, CountDown, RobotCheck, RobotLoad, RobotStore,
         RobotNotify, gateVars, planVars
    <3> QED BY <1>1, <1>2, <3>1, WaitingKept
  <2> QED BY <1>8, <2>1, <2>2 DEF RobotShared
<1>9. CASE MenuStep
  <2>1. UNCHANGED <<buff, load, tpc, hpc>>
    BY <1>9 DEF MenuStep, MenuRobotMinus, MenuRobotPlus, gateVars, planVars
  <2> QED BY <1>1, <1>9, <2>1, MenuUnits, WaitingKept
<1> QED BY <1>3, <1>4, <1>5, <1>6, <1>7, <1>8, <1>9 DEF SharedStep

\* A robot takes a task up when it begins to work.
LEMMA SharedEmptyHanded ==
    ASSUME IInv, EmptyHanded,
           \/ \E r \in Robots : RobotShared(r)
           \/ MenuStep
           \/ UNCHANGED <<rpc, job>>
    PROVE  EmptyHanded'
<1>1. ASSUME NEW r \in Robots, RobotShared(r) PROVE EmptyHanded'
  <2>1. CASE RobotTake(r)
    BY <2>1 DEF RobotTake, RobotGo, EmptyHanded, IInv, PoolTypeOK
  <2>2. CASE CountDown(r)
    BY <2>2 DEF CountDown, RobotCheck, RobotLoad, RobotStore, RobotNotify, RobotGo,
       EmptyHanded, IInv, PoolTypeOK
  <2> QED BY <1>1, <2>1, <2>2 DEF RobotShared
<1>2. CASE MenuStep
  BY <1>2 DEF MenuStep, MenuRobotMinus, MenuRobotPlus, RobotGo, EmptyHanded, IInv, PoolTypeOK
<1> QED BY <1>1, <1>2 DEF EmptyHanded
-----------------------------------------------------------------------------
(* Masses: that of a load, and that it is one a robot may carry.           *)

Light(s) == MassOf(s) < Capacity

LEMMA Masses ==
    /\ MassOf(<<>>) = 0 /\ Light(<<>>)
    /\ \A s \in Seq(Items) : MassOf(s) \in Nat
    /\ \A s \in Seq(Items), e \in Items :
          /\ MassOf(Append(s, e)) = MassOf(s) + Mass[e]
          /\ Mass[e] \in Nat /\ Mass[e] < Capacity
    /\ \A s \in Seq(Items) : s # <<>> =>
          /\ Front(s) \in Seq(Items) /\ Last(s) \in Items
          /\ MassOf(s) = MassOf(Front(s)) + Mass[Last(s)]
<1>1. Mass \in [Items -> Nat] /\ Capacity \in Nat \ {0} /\ \A e \in Items : Mass[e] < Capacity
  BY HandlerAssumption
<1>2. \A s : MassOf(s) = SumOf(Mass, s)
  BY DEF MassOf, SumOf, Weighed
<1>3. MassOf(<<>>) = 0 /\ Light(<<>>)
  BY <1>1, <1>2, SumOfEmpty DEF Light
<1>4. ASSUME NEW s \in Seq(Items) PROVE MassOf(s) \in Nat
  BY <1>1, <1>2, SumOfNat
<1>5. ASSUME NEW s \in Seq(Items), NEW e \in Items
      PROVE  MassOf(Append(s, e)) = MassOf(s) + Mass[e]
  BY <1>1, <1>2, SumOfAppend
<1>6. ASSUME NEW s \in Seq(Items), s # <<>>
      PROVE  /\ Front(s) \in Seq(Items) /\ Last(s) \in Items
             /\ MassOf(s) = MassOf(Front(s)) + Mass[Last(s)]
  BY <1>1, <1>2, <1>6, SumOfFront
<1> QED BY <1>1, <1>3, <1>4, <1>5, <1>6
=============================================================================
