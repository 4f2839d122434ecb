----------------------------- MODULE DeliveryDock -----------------------------
(***************************************************************************)
(* The delivery side of the warehouse: delivery trucks (truck::Delivery),  *)
(* the delivery dock handler with GenerateDeliveryTask                     *)
(* (warehouse_main.cpp) and the robots that bring items to the truck       *)
(* (robot::HandleDelivery).  Compared with the restock side, an overload   *)
(* clears the list of tasks (deliverytasks) and not the list of items, and *)
(* every generated task deletes shelf locations from the stock.            *)
(***************************************************************************)
EXTENDS DockHandler

CONSTANT Stored      \* locations.size() of every item at the start

UnitsOf(s, i) == Cardinality({k \in DOMAIN s : s[k] = i})

\* CallDelivery takes a unit out of "quantity" for every item it puts on a
\* truck, and StockUpdate adds to quantity and locations together: what the
\* called trucks will ask for has a location.
ASSUME StoredAssumption ==
    /\ Stored \in [Items -> Nat]
    /\ \A i \in Items : SumFunction([t \in Trucks |-> UnitsOf(Cargo[t], i)]) =< Stored[i]

VARIABLES
    located,         \* locations.size() of every item
    delivered        \* units a robot has brought to the truck, per item

stockVars == <<located, delivered>>
vars == <<gateVars, poolVars, planVars, stockVars>>

TypeOK ==
    /\ HandlerTypeOK
    /\ located \in [Items -> Nat]
    /\ delivered \in [Items -> Nat]

Init ==
    /\ HandlerInit
    /\ located = Stored
    /\ delivered = [i \in Items |-> 0]

-----------------------------------------------------------------------------
(* How del_dockHandler makes tasks of its loads.                           *)

\* GenerateDeliveryTask takes locations.back() of every item and pops it,
\* which is undefined on an empty vector.
Locatable == \A i \in Items : UnitsOf(load, i) =< located[i]
\* Mistake: the location is read and not deleted.
PopLocationsKeeping == UNCHANGED located
PopLocations == located' = [i \in Items |-> located[i] - UnitsOf(load, i)]

\* The load becomes a task, its locations are popped, deliverytaskid++
\* begins, and deliverytasks.clear() drops the task again.
PlanOverload ==
    /\ HandlerGo("plan", "count")
    /\ buff # <<>>
    /\ Overloaded
    /\ Locatable /\ PopLocations
    /\ planned' = <<>>
    /\ hreg' = taskcount
    /\ UNCHANGED <<load, weight, taskid, delivered, poolVars,
                   dock, arrived, buffMutex, buff, taskcount, docked, tpc, stage, spurious>>

\* Mistake: the load is dropped with its task.
CountTaskDropping ==
    /\ HandlerGo("count", "plan")
    /\ taskcount' = (hreg + 1) % CounterMod
    /\ NotifyOne
    /\ TakeItem(<<>>)
    /\ UNCHANGED <<planned, hreg, taskid, stockVars, poolVars,
                   dock, arrived, buffMutex, docked, stage, spurious>>

\* The item at hand joins the same load, and the same weight.
CountTask ==
    /\ HandlerGo("count", "plan")
    /\ taskcount' = (hreg + 1) % CounterMod
    /\ NotifyOne
    /\ TakeItem(load)
    /\ UNCHANGED <<planned, hreg, taskid, stockVars, poolVars,
                   dock, arrived, buffMutex, docked, stage, spurious>>

\* Mistake: the load is declared outside the handler's loop.
PlanRestKeeping ==
    /\ HandlerGo("plan", "push")
    /\ buff = <<>>
    /\ IF load # <<>>
       THEN /\ Locatable /\ PopLocations
            /\ planned' = Append(planned, load)
            /\ taskid' = (taskid + 1) % CounterMod
            /\ NotifyOne
       ELSE UNCHANGED <<located, planned, taskid, tpc>>
    /\ UNCHANGED <<load, weight, hreg, delivered, poolVars,
                   dock, arrived, buffMutex, buff, taskcount, docked, stage, spurious>>

\* The one task that reaches tasks_Q; it counts in taskid.
PlanRest ==
    /\ HandlerGo("plan", "push")
    /\ buff = <<>>
    /\ IF load # <<>>
       THEN /\ Locatable /\ PopLocations
            /\ planned' = Append(planned, load)
            /\ taskid' = (taskid + 1) % CounterMod
            /\ NotifyOne
       ELSE UNCHANGED <<located, planned, taskid, tpc>>
    /\ load' = <<>>
    /\ UNCHANGED <<weight, hreg, delivered, poolVars,
                   dock, arrived, buffMutex, buff, taskcount, docked, stage, spurious>>

PlanHang ==
    /\ HandlerGo("plan", "hung")
    /\ PathHangs
    /\ TaskDue
    /\ Locatable /\ PopLocations
    /\ UNCHANGED <<planVars, delivered, poolVars,
                   dock, arrived, buffMutex, buff, taskcount, docked, tpc, stage, spurious>>

\* back() of an empty vector: from here on anything may happen, and the
\* model stops.
PlanUndefined ==
    /\ HandlerGo("plan", "undefined")
    /\ TaskDue
    /\ ~ Locatable
    /\ UNCHANGED <<planVars, stockVars, poolVars,
                   dock, arrived, buffMutex, buff, taskcount, docked, tpc, stage, spurious>>

HandlerPlan ==
    \/ (PlanItem \/ PushTask("TTdelivery") \/ EndIteration) /\ UNCHANGED stockVars
    \/ PlanOverload \/ CountTask \/ PlanRest \/ PlanUndefined

-----------------------------------------------------------------------------
(* robot::HandleDelivery: the shelves first, then the exchange with the    *)
(* truck, where the counter is looked at.                                  *)

RobotExchange(r) ==
    /\ RobotGo(r, "work", "check")
    /\ delivered' = [i \in Items |-> delivered[i] + UnitsOf(job[r], i)]
    /\ job' = [job EXCEPT ![r] = <<>>]
    /\ UNCHANGED <<tasksQ, rreg, poisons, gateVars, planVars, located>>

RobotStep(r) ==
    \/ RobotShared(r) /\ UNCHANGED stockVars
    \/ RobotExchange(r)

HandlerStep ==
    \/ HandlerGate /\ UNCHANGED stockVars
    \/ HandlerPlan

Next ==
    \/ \E t \in Trucks : (TruckThread(t) \/ SpuriousThread(t)) /\ UNCHANGED stockVars
    \/ HandlerStep
    \/ PlanHang
    \/ \E r \in Robots : RobotStep(r)
    \/ MenuStep /\ UNCHANGED stockVars

Spec == Init /\ [][Next]_vars

\* As for the restock dock.
FairSpec ==
    /\ Spec
    /\ \A t \in Trucks : WF_vars(TruckThread(t) /\ UNCHANGED stockVars)
    /\ \A r \in Robots : WF_vars(RobotStep(r))
    /\ WF_vars(HandlerStep)

-----------------------------------------------------------------------------
(* Properties.                                                             *)

\* The units of an item in tasks that a robot can have or get.
UnitsInTasks(i) ==
    SumFunction([k \in DOMAIN planned |-> UnitsOf(planned[k], i)])
  + SumFunction([k \in DOMAIN tasksQ |-> UnitsOf(tasksQ[k].items, i)])
  + SumFunction([r \in Robots |-> UnitsOf(job[r], i)])

Deliver == INSTANCE CargoService WITH
    waiting <- {t \in Trucks : tpc[t] \in {"called", "moored"}},
    pending <- [i \in Items |-> UnitsOf(buff, i) + UnitsOf(load, i) + UnitsInTasks(i)],
    handled <- delivered

\* The threads implement the cargo service: although overload tasks are
\* dropped, each item asked for is brought to a truck once, because the last
\* task repeats the items of the dropped ones.
ImplementsCargoService == Deliver!Spec

\* With a robot left alive and every item asked for located often enough,
\* every unit asked for is brought to a truck.
AllDelivered == Deliver!AllHandled

\* warehouse_main.cpp:217 "delete last location since it will be taken out
\* for delivery": between two trucks, the locations deleted are those of the
\* units that a robot takes out.
DeletedIsTakenOut ==
    hpc = "open" => \A i \in Items : Stored[i] - located[i] = UnitsInTasks(i) + delivered[i]

\* The handler never reads a location that is not there.
LocationsSuffice == hpc # "undefined"
=============================================================================
