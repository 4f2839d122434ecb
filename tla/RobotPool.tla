------------------------------ MODULE RobotPool ------------------------------
(***************************************************************************)
(* The robot threads (robots.h), the bounded queue tasks_Q they take work  *)
(* from, and the two menu commands that change their number.  tasks_Q is   *)
(* used here through its contract, a bounded FIFO queue; ThreadFifo shows  *)
(* that cpen333::thread::fifo keeps it.                                    *)
(*                                                                         *)
(* What a robot does at the shelves differs between the two docks and is   *)
(* left to the modules that extend this one.  What it does afterwards is   *)
(* the same: look at the dock's task counter, decrement it, notify.        *)
(***************************************************************************)
EXTENDS DockGate, SequencesExt

CONSTANTS
    Robots,          \* all robot threads there may be
    InitialRobots,   \* those started by main (nrobots)
    MaxTasks,        \* MAX_TASKS, the size of tasks_Q
    MaxPoison        \* bound: robot-1 commands in a run

ASSUME PoolAssumption ==
    /\ InitialRobots \subseteq Robots
    /\ MaxTasks \in Nat \ {0}
    /\ MaxPoison \in Nat

VARIABLES
    tasksQ,          \* tasks_Q
    rpc,             \* where each robot thread is
    job,             \* the items of the task a robot still has to handle
    rreg,            \* the counter value a robot has loaded
    poisons          \* robot-1 commands so far

poolVars == <<tasksQ, rpc, job, rreg, poisons>>

WorkTask(type, items) == [type |-> type, items |-> items]
PoisonTask == WorkTask("TTpoison", <<>>)
Task == [type : {"TTrestock", "TTdelivery"}, items : Seq(Items)] \cup {PoisonTask}

RobotPC == {"new", "idle", "work", "check", "dec", "store", "notify", "dead"}

PoolTypeOK ==
    /\ tasksQ \in Seq(Task)
    /\ Len(tasksQ) =< MaxTasks
    /\ rpc \in [Robots -> RobotPC]
    /\ job \in [Robots -> Seq(Items)]
    /\ rreg \in [Robots -> 0 .. CounterMod - 1]
    /\ poisons \in 0 .. MaxPoison

PoolInit ==
    /\ tasksQ = <<>>
    /\ rpc = [r \in Robots |-> IF r \in InitialRobots THEN "idle" ELSE "new"]
    /\ job = [r \in Robots |-> <<>>]
    /\ rreg = [r \in Robots |-> 0]
    /\ poisons = 0

RobotGo(r, from, to) == rpc[r] = from /\ rpc' = [rpc EXCEPT ![r] = to]

\* tasks_Q.pop() at the head of go2(), and its dispatch on the type.
RobotTake(r) ==
    /\ tasksQ # <<>>
    /\ tasksQ' = Tail(tasksQ)
    /\ IF Head(tasksQ).type = "TTpoison"
       THEN RobotGo(r, "idle", "dead") /\ UNCHANGED job
       ELSE /\ RobotGo(r, "idle", "work")
            /\ job' = [job EXCEPT ![r] = Head(tasksQ).items]
    /\ UNCHANGED <<rreg, poisons, gateVars>>

\* Mistake: every finished task is counted down.
RobotCheckNothing(r) ==
    /\ RobotGo(r, "check", "dec")
    /\ UNCHANGED <<tasksQ, job, rreg, poisons, gateVars>>

\* "if (taskcount > 0)", outside every lock ...
RobotCheck(r) ==
    /\ RobotGo(r, "check", IF taskcount > 0 THEN "dec" ELSE "idle")
    /\ UNCHANGED <<tasksQ, job, rreg, poisons, gateVars>>

\* ... then taskcount--, the load and the store of a plain unsigned long,
\* between which other robots and the handler may run ...
RobotLoad(r) ==
    /\ RobotGo(r, "dec", "store")
    /\ rreg' = [rreg EXCEPT ![r] = taskcount]
    /\ UNCHANGED <<tasksQ, job, poisons, gateVars>>

RobotStore(r) ==
    /\ RobotGo(r, "store", "notify")
    /\ taskcount' = (rreg[r] + CounterMod - 1) % CounterMod
    /\ UNCHANGED <<tasksQ, job, rreg, poisons,
                   dock, arrived, buffMutex, buff, docked, tpc, stage, hpc, spurious>>

\* ... and cv.notify_one(), without the mutex of the waiters.
RobotNotify(r) ==
    /\ RobotGo(r, "notify", "idle")
    /\ NotifyOne
    /\ UNCHANGED <<tasksQ, job, rreg, poisons,
                   dock, arrived, buffMutex, buff, taskcount, docked, stage, hpc, spurious>>

CountDown(r) == RobotCheck(r) \/ RobotLoad(r) \/ RobotStore(r) \/ RobotNotify(r)

-----------------------------------------------------------------------------
(* The menu thread.                                                        *)

\* Mistake: the queue is not bounded.
MenuRobotMinusUnbounded ==
    /\ poisons < MaxPoison
    /\ \E r \in Robots : rpc[r] # "new"
    /\ tasksQ' = Append(tasksQ, PoisonTask)
    /\ poisons' = poisons + 1
    /\ UNCHANGED <<rpc, job, rreg, gateVars>>

\* "robot-1": poison for whichever robot takes it first; robots.size()
\* never shrinks, so nothing stops the user from poisoning all of them.
MenuRobotMinus ==
    /\ poisons < MaxPoison
    /\ \E r \in Robots : rpc[r] # "new"
    /\ Len(tasksQ) < MaxTasks
    /\ tasksQ' = Append(tasksQ, PoisonTask)
    /\ poisons' = poisons + 1
    /\ UNCHANGED <<rpc, job, rreg, gateVars>>

\* "robot+1"
MenuRobotPlus(r) ==
    /\ RobotGo(r, "new", "idle")
    /\ UNCHANGED <<tasksQ, job, rreg, poisons, gateVars>>
=============================================================================
