----------------------------- MODULE RestockDock -----------------------------
(***************************************************************************)
(* The restock side of the warehouse: restock trucks (truck::Restock), the *)
(* restock dock handler with GenerateRestockTask (warehouse_main.cpp) and  *)
(* the robots that carry items to the shelves (robot::HandleRestock).      *)
(***************************************************************************)
EXTENDS DockHandler

VARIABLES
    shelved,    \* units a robot has put on a shelf, per item
    crossed     \* two threads have been in restocktaskid's ++ and -- at once

\* What is recorded of the steps and no thread reads
records == <<shelved, crossed>>

vars == <<gateVars, poolVars, planVars, records>>

TypeOK == HandlerTypeOK /\ shelved \in [Items -> Nat] /\ crossed \in BOOLEAN

Init == HandlerInit /\ shelved = [i \in Items |-> 0] /\ crossed = FALSE

-----------------------------------------------------------------------------
(* How res_dockHandler makes tasks of its loads.                           *)

\* The load so far becomes a task, and GenerateRestockTask begins to count
\* it: the load of restocktaskid++.
PlanOverload ==
    /\ HandlerGo("plan", "count")
    /\ buff # <<>>
    /\ Overloaded
    /\ planned' = Append(planned, load)
    /\ hreg' = taskcount
    /\ UNCHANGED <<load, weight, taskid, poolVars,
                   dock, arrived, buffMutex, buff, taskcount, docked, tpc, stage, spurious>>

\* Mistake: the load goes on into the next task.
CountTaskKeeping ==
    /\ HandlerGo("count", "plan")
    /\ taskcount' = (hreg + 1) % CounterMod
    /\ NotifyOne
    /\ TakeItem(load)
    /\ UNCHANGED <<planned, hreg, taskid, poolVars,
                   dock, arrived, buffMutex, docked, stage, spurious>>

\* Its store, cv_res.notify_one(), and a fresh load for the item at hand.
\* "float weight = 0" declares another weight: the handler's stays.
CountTask ==
    /\ HandlerGo("count", "plan")
    /\ taskcount' = (hreg + 1) % CounterMod
    /\ NotifyOne
    /\ TakeItem(<<>>)
    /\ UNCHANGED <<planned, hreg, taskid, poolVars,
                   dock, arrived, buffMutex, docked, stage, spurious>>

\* Mistake: the load is declared outside the handler's loop.
PlanRestKeeping ==
    /\ HandlerGo("plan", "push")
    /\ buff = <<>>
    /\ IF load # <<>>
       THEN /\ planned' = Append(planned, load)
            /\ taskid' = (taskid + 1) % CounterMod
            /\ NotifyOne
       ELSE UNCHANGED <<planned, taskid, tpc>>
    /\ UNCHANGED <<load, weight, hreg, poolVars,
                   dock, arrived, buffMutex, buff, taskcount, docked, stage, spurious>>

\* The rest becomes the last task, which counts in taskid.
PlanRest ==
    /\ HandlerGo("plan", "push")
    /\ buff = <<>>
    /\ IF load # <<>>
       THEN /\ planned' = Append(planned, load)
            /\ taskid' = (taskid + 1) % CounterMod
            /\ NotifyOne
       ELSE UNCHANGED <<planned, taskid, tpc>>
    /\ load' = <<>>
    /\ UNCHANGED <<weight, hreg, poolVars,
                   dock, arrived, buffMutex, buff, taskcount, docked, stage, spurious>>

\* GenerateRestockTask draws a shelf and a side for every item.
PlanHang ==
    /\ HandlerGo("plan", "hung")
    /\ PathHangs
    /\ TaskDue
    /\ UNCHANGED <<planVars, poolVars,
                   dock, arrived, buffMutex, buff, taskcount, docked, tpc, stage, spurious>>

HandlerPlan ==
    \/ PlanItem \/ PlanOverload \/ CountTask \/ PlanRest
    \/ PushTask("TTrestock") \/ EndIteration

-----------------------------------------------------------------------------
(* robot::HandleRestock: the truck first, then one shelf per item, each    *)
(* taking t.items.back().                                                  *)

RobotShelve(r) ==
    /\ job[r] # <<>>
    /\ RobotGo(r, "work", "work")
    /\ shelved' = [shelved EXCEPT ![Last(job[r])] = @ + 1]
    /\ job' = [job EXCEPT ![r] = Front(@)]
    /\ UNCHANGED <<tasksQ, rreg, poisons, gateVars, planVars, crossed>>

RobotPathDone(r) ==
    /\ job[r] = <<>>
    /\ RobotGo(r, "work", "check")
    /\ UNCHANGED <<tasksQ, job, rreg, poisons, gateVars, planVars, records>>

\* A store to restocktaskid while another thread is between its own test or
\* load and its store: one of the two acts on a count that is not there.
RobotCrosses(r) ==
    /\ rpc[r] = "store"
    /\ hpc = "count" \/ \E q \in Robots \ {r} : rpc[q] \in {"dec", "store"}

HandlerCrosses == hpc = "count" /\ \E r \in Robots : rpc[r] = "store"

RobotStep(r) ==
    \/ RobotShared(r) /\ crossed' = (crossed \/ RobotCrosses(r)) /\ UNCHANGED shelved
    \/ RobotShelve(r)
    \/ RobotPathDone(r)

HandlerStep ==
    /\ HandlerGate \/ HandlerPlan
    /\ crossed' = (crossed \/ HandlerCrosses)
    /\ UNCHANGED shelved

Next ==
    \/ \E t \in Trucks : (TruckThread(t) \/ SpuriousThread(t)) /\ UNCHANGED records
    \/ HandlerStep
    \/ PlanHang /\ UNCHANGED records
    \/ \E r \in Robots : RobotStep(r)
    \/ MenuStep /\ UNCHANGED records

Spec == Init /\ [][Next]_vars

\* A started thread that can take a step takes it.  No fairness for the menu
\* (its user), for spurious wakeups or for PlanHang, which is a matter of
\* the draw; each lock is asked for a bounded number of times, so the weak
\* fairness of its users is enough.
FairSpec ==
    /\ Spec
    /\ \A t \in Trucks : WF_vars(TruckThread(t) /\ UNCHANGED records)
    /\ \A r \in Robots : WF_vars(RobotStep(r))
    /\ WF_vars(HandlerStep)

-----------------------------------------------------------------------------
(* Properties.                                                             *)

\* The units of an item that are in the warehouse: in the buffer, in the
\* handler's hands, queued, or with a robot.  While a task is being counted
\* its items are both in the load and in the task.
UnitsInside(i) ==
    LET Units(s) == Cardinality({k \in DOMAIN s : s[k] = i})
    IN  Units(buff) + (IF hpc = "count" THEN 0 ELSE Units(load))
      + SumFunction([k \in DOMAIN planned |-> Units(planned[k])])
      + SumFunction([k \in DOMAIN tasksQ |-> Units(tasksQ[k].items)])
      + SumFunction([r \in Robots |-> Units(job[r])])

Restock == INSTANCE CargoService WITH
    waiting <- {t \in Trucks : tpc[t] \in {"called", "moored"}},
    pending <- [i \in Items |-> UnitsInside(i)],
    handled <- shelved

\* The threads implement the cargo service: a truck's items all enter
\* at once, none is dropped, duplicated or invented on the way to a robot,
\* and a robot shelves only what was still to be shelved.
ImplementsCargoService == Restock!Spec

Alive(r) == rpc[r] \notin {"new", "dead"}

\* Unless no robot is left alive or a path hangs, every unit of every restock
\* truck reaches a shelf, although trucks may wait at the dock for ever.
AllShelved == <>[](hpc # "hung" /\ \E r \in Robots : Alive(r)) => Restock!AllHandled

\* Tasks planned, queued, or with a robot that has yet to count them down.
TasksUnderWay ==
    LET One(b) == IF b THEN 1 ELSE 0
    IN  Len(planned)
      + SumFunction([k \in DOMAIN tasksQ |-> One(tasksQ[k] # PoisonTask)])
      + SumFunction([r \in Robots |-> One(rpc[r] \in {"work", "check", "dec", "store"})])

\* However many robots there are, until two threads have crossed
\* restocktaskid never exceeds the tasks under way, although the last task
\* of a truck is not counted and may be counted down for another ("if
\* (restocktaskid > 0)", robots.h): it does not wrap below zero, and it is
\* zero, so that every truck at its second wait may leave, once all is done.
CounterCovered == ~ crossed => taskcount =< TasksUnderWay

-----------------------------------------------------------------------------
(* What comments of the code say, and the code does not do.                *)

\* robots.h:338 "notify truck to check predicate if it can leave": a truck
\* that waits for its tasks to be done leaves when they are.
DoneTruckLeaves ==
    \A t \in Trucks :
        (stage[t] = 2 /\ \A i \in Range(Cargo[t]) : shelved[i] = Restock!Units(Cargo[t], i))
            ~> (tpc[t] = "left")
=============================================================================
