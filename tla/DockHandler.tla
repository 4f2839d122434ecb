----------------------------- MODULE DockHandler -----------------------------
(***************************************************************************)
(* What res_dockHandler and del_dockHandler (warehouse_main.cpp) have in   *)
(* common between locking the buffer and opening the dock again: the items *)
(* are taken from the back of the buffer into a load, weighed on the way,  *)
(* and the tasks made of the loads are pushed into tasks_Q, all under the  *)
(* buffer mutex.  How a task is made of a load differs, and is left to     *)
(* RestockDock and DeliveryDock.                                           *)
(***************************************************************************)
EXTENDS RobotPool, FiniteSets

CONSTANTS
    Mass,            \* ItemInfo::mass, in sixths of a kg (mass = id / 6.0)
    Capacity,        \* MAX_ROBOT_CAPACITY, in the same unit
    LoopingLegs      \* a leg of the layout may start where it ends

\* The heaviest item weighs 30/6 kg and a robot carries up to 40.
ASSUME HandlerAssumption ==
    /\ Capacity \in Nat \ {0}
    /\ Mass \in [Items -> 0 .. Capacity - 1]
    /\ LoopingLegs \in BOOLEAN

VARIABLES
    load,            \* restockitems / deliveryitems, for the task being planned
    weight,          \* the float weight of the handler
    planned,         \* restocktasks / deliverytasks, in planning order
    hreg,            \* the task counter as loaded by its ++
    taskid           \* the global taskid

planVars == <<load, weight, planned, hreg, taskid>>

PlanTypeOK ==
    /\ load \in Seq(Items)
    /\ weight \in Nat
    /\ planned \in Seq(Seq(Items))
    /\ hreg \in 0 .. CounterMod - 1
    /\ taskid \in 0 .. CounterMod - 1

HandlerTypeOK == GateTypeOK /\ PoolTypeOK /\ PlanTypeOK

HandlerInit ==
    /\ GateInit
    /\ PoolInit
    /\ load = <<>> /\ weight = 0 /\ planned = <<>>
    /\ hreg = 0 /\ taskid = 0

HandlerGo(from, to) == hpc = from /\ hpc' = to

\* Mistakes: the item at hand is not weighed; it is weighed too strictly.
OverloadedLate == weight >= Capacity
OverloadedEarly == weight + Mass[Last(buff)] + 1 >= Capacity

Overloaded == weight + Mass[Last(buff)] >= Capacity

\* The load is about to become a task.
TaskDue == buff # <<>> => Overloaded

\* The end of the loop body: the last item of the buffer joins the load.
TakeItem(items) ==
    /\ weight' = weight + Mass[Last(buff)]
    /\ load' = Append(items, Last(buff))
    /\ buff' = Front(buff)

PlanItem ==
    /\ HandlerGo("plan", "plan")
    /\ buff # <<>>
    /\ ~ Overloaded
    /\ TakeItem(load)
    /\ UNCHANGED <<planned, hreg, taskid, poolVars,
                   dock, arrived, buffMutex, taskcount, docked, tpc, stage, spurious>>

\* The task generators walk the planned path over the solved maze.  A leg
\* whose two ends coincide has no end marker, which the walk looks for: the
\* right side of a shelf column (whose offset PathGenRepeater applies twice)
\* and the left side of one three columns further, for example.
PathHangs == LoopingLegs /\ load # <<>>

\* tasks_Q.push(task), which waits for room, still under the mutex.
PushTask(type) ==
    /\ HandlerGo("push", "push")
    /\ planned # <<>>
    /\ Len(tasksQ) < MaxTasks
    /\ tasksQ' = Append(tasksQ, WorkTask(type, Head(planned)))
    /\ planned' = Tail(planned)
    /\ UNCHANGED <<load, weight, hreg, taskid, rpc, job, rreg, poisons,
                   dock, arrived, buffMutex, buff, taskcount, docked, tpc, stage, spurious>>

\* Mistake: the handler keeps the mutex.
EndIterationLocked ==
    /\ HandlerGo("push", "open")
    /\ planned = <<>>
    /\ weight' = 0
    /\ UNCHANGED <<load, planned, hreg, taskid, poolVars,
                   dock, arrived, buffMutex, buff, taskcount, docked, tpc, stage, spurious>>

\* End of the iteration: the lock and the local variables go out of scope.
EndIteration ==
    /\ HandlerGo("push", "open")
    /\ planned = <<>>
    /\ buffMutex' = Nobody
    /\ weight' = 0
    /\ UNCHANGED <<load, planned, hreg, taskid, poolVars,
                   dock, arrived, buff, taskcount, docked, tpc, stage, spurious>>

\* The head of the loop, and the steps of the threads around the handler.
HandlerGate ==
    /\ OpenDock \/ AwaitTruck \/ LockBuffer
    /\ UNCHANGED <<poolVars, planVars>>

TruckThread(t) == TruckStep(t) /\ UNCHANGED <<poolVars, planVars>>

SpuriousThread(t) == SpuriousWake(t) /\ UNCHANGED <<poolVars, planVars>>

RobotShared(r) == (RobotTake(r) \/ CountDown(r)) /\ UNCHANGED planVars

MenuStep == (MenuRobotMinus \/ \E r \in Robots : MenuRobotPlus(r)) /\ UNCHANGED planVars

-----------------------------------------------------------------------------
(* Properties both docks share.                                            *)

\* A set of items that can all have come with one truck.
FromOneTruck(items) == items = {} \/ \E t \in Trucks : items \subseteq Range(Cargo[t])

\* Several trucks may be docked at once and the handler does not wait for
\* any of them; still no robot is sent out, and no task is planned or
\* queued, with the items of two trucks.
TasksOfOneTruck ==
    /\ FromOneTruck(Range(load) \cup Range(buff))
    /\ \A k \in DOMAIN planned : FromOneTruck(Range(planned[k]))
    /\ \A k \in DOMAIN tasksQ : FromOneTruck(Range(tasksQ[k].items))
    /\ \A r \in Robots : FromOneTruck(Range(job[r]))

MassOf(items) == SumFunction([k \in DOMAIN items |-> Mass[items[k]]])

\* A restock robot carries less than MAX_ROBOT_CAPACITY: the handler weighs
\* every load before it makes a task of it.
CapacityRespected ==
    /\ MassOf(load) < Capacity
    /\ \A k \in DOMAIN planned : MassOf(planned[k]) < Capacity
    /\ \A k \in DOMAIN tasksQ : MassOf(tasksQ[k].items) < Capacity
    /\ \A r \in Robots : MassOf(job[r]) < Capacity
=============================================================================
