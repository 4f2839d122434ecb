------------------------------ MODULE DockGate ------------------------------
(***************************************************************************)
(* How a truck thread meets a dock-handler thread (truck.h, and the heads  *)
(* of res_dockHandler / del_dockHandler in warehouse_main.cpp).  The two   *)
(* docks run the same protocol over different globals; the names here are  *)
(* those of the restock dock:                                              *)
(*                                                                         *)
(*     dock       restockdock / deliverydock           (semaphore, from 0) *)
(*     arrived    restock_arrived / delivery_arrived   (semaphore, from 0) *)
(*     buffMutex  mutex_rbuff / mutex_dbuff            (its owner)         *)
(*     buff       res_buff / del_buff                                      *)
(*     taskcount  restocktaskid / deliverytaskid                           *)
(*     docked     tinfo.re_docked / tinfo.del_docked                       *)
(*                                                                         *)
(* RestockDock and DeliveryDock extend this module with what their handler *)
(* does between LockBuffer and the next OpenDock, and with the robots.     *)
(***************************************************************************)
EXTENDS Naturals, Sequences

CONSTANTS
    Trucks,        \* truck threads called during the run
    Items,         \* item ids known to StockInfo_map
    Cargo,         \* truckdata.itemsvect of every truck
    Handler,       \* the dock-handler thread, as owner of the mutex
    Nobody,        \* "not locked"
    CounterMod,    \* 2^w for the w-bit unsigned long counters
    MaxSpurious    \* bound: spurious wakeups of cv_res / cv_del in a run

ASSUME GateAssumption ==
    /\ Handler \notin Trucks
    /\ Nobody \notin Trucks \cup {Handler}
    /\ Cargo \in [Trucks -> Seq(Items)]
    /\ CounterMod \in Nat \ {0, 1}
    /\ MaxSpurious \in Nat

VARIABLES
    dock, arrived, buffMutex, buff, taskcount, docked,
    tpc,           \* where each truck thread is
    stage,         \* which of its two cv waits a truck is at: 1 or 2
    hpc,           \* where the handler thread is
    spurious       \* spurious wakeups so far

gateVars == <<dock, arrived, buffMutex, buff, taskcount, docked, tpc, stage, hpc, spurious>>

TruckPC == {"called", "moored", "unloaded", "lock", "test", "block", "asleep", "left"}

\* The handler's program points; those after "lock" belong to the planning
\* part and are refined by the two extending modules.
HandlerBusy == {"plan", "count", "push", "hung", "undefined"}
HandlerPC == {"open", "await", "lock"} \cup HandlerBusy

GateTypeOK ==
    /\ dock \in Nat /\ arrived \in Nat
    /\ buffMutex \in Trucks \cup {Handler, Nobody}
    /\ buff \in Seq(Items)
    /\ taskcount \in 0 .. CounterMod - 1
    /\ docked \in BOOLEAN
    /\ tpc \in [Trucks -> TruckPC]
    /\ stage \in [Trucks -> {1, 2}]
    /\ hpc \in HandlerPC
    /\ spurious \in 0 .. MaxSpurious

GateInit ==
    /\ dock = 0 /\ arrived = 0
    /\ buffMutex = Nobody
    /\ buff = <<>>
    /\ taskcount = 0
    /\ docked = FALSE
    /\ tpc = [t \in Trucks |-> "called"]
    /\ stage = [t \in Trucks |-> 1]
    /\ hpc = "open"
    /\ spurious = 0

-----------------------------------------------------------------------------
(* The truck thread: truck::Restock, truck::Delivery.                      *)

TruckGo(t, from, to) == tpc[t] = from /\ tpc' = [tpc EXCEPT ![t] = to]

\* restockdock.wait(), then tinfo.re_docked = true for the layout display.
TruckMoor(t) ==
    /\ TruckGo(t, "called", "moored")
    /\ dock > 0
    /\ dock' = dock - 1
    /\ docked' = TRUE
    /\ UNCHANGED <<arrived, buffMutex, buff, taskcount, stage, hpc, spurious>>

\* The loop that fills the buffer; every access to it is under the mutex.
TruckUnload(t) ==
    /\ TruckGo(t, "moored", "unloaded")
    /\ buffMutex = Nobody
    /\ buff' = buff \o Cargo[t]
    /\ UNCHANGED <<dock, arrived, buffMutex, taskcount, docked, stage, hpc, spurious>>

\* Mistake: the truck never announces itself.
TruckAnnounceSilent(t) ==
    /\ TruckGo(t, "unloaded", "lock")
    /\ UNCHANGED <<dock, arrived, buffMutex, buff, taskcount, docked, stage, hpc, spurious>>

\* restock_arrived.notify()
TruckAnnounce(t) ==
    /\ TruckGo(t, "unloaded", "lock")
    /\ arrived' = arrived + 1
    /\ UNCHANGED <<dock, buffMutex, buff, taskcount, docked, stage, hpc, spurious>>

\* unique_lock before the first wait, and the relock of a woken waiter.
TruckLock(t) ==
    /\ TruckGo(t, "lock", "test")
    /\ buffMutex = Nobody
    /\ buffMutex' = t
    /\ UNCHANGED <<dock, arrived, buff, taskcount, docked, stage, hpc, spurious>>

\* First predicate: tasks have been generated.  Second: all are done.
Predicate(t) == IF stage[t] = 1 THEN taskcount > 0 ELSE taskcount = 0

\* The predicate held: on to the second wait (still holding the mutex), or
\* out of Restock(), which releases it.
TruckPass(t) ==
    /\ tpc[t] = "test"
    /\ Predicate(t)
    /\ \/ /\ stage[t] = 1
          /\ stage' = [stage EXCEPT ![t] = 2]
          /\ UNCHANGED <<tpc, buffMutex>>
       \/ /\ stage[t] = 2
          /\ tpc' = [tpc EXCEPT ![t] = "left"]
          /\ buffMutex' = Nobody
          /\ UNCHANGED stage
    /\ UNCHANGED <<dock, arrived, buff, taskcount, docked, hpc, spurious>>

\* The predicate was false when it was read ...
TruckFail(t) ==
    /\ TruckGo(t, "test", "block")
    /\ ~ Predicate(t)
    /\ UNCHANGED <<dock, arrived, buffMutex, buff, taskcount, docked, stage, hpc, spurious>>

\* ... and the thread goes to sleep, releasing the mutex.  A robot, which
\* notifies without the mutex, may have come in between.
TruckSleep(t) ==
    /\ TruckGo(t, "block", "asleep")
    /\ buffMutex' = Nobody
    /\ UNCHANGED <<dock, arrived, buff, taskcount, docked, stage, hpc, spurious>>

\* std::condition_variable may wake without a notification.
SpuriousWake(t) ==
    /\ spurious < MaxSpurious
    /\ spurious' = spurious + 1
    /\ TruckGo(t, "asleep", "lock")
    /\ UNCHANGED <<dock, arrived, buffMutex, buff, taskcount, docked, stage, hpc>>

TruckStep(t) ==
    \/ TruckMoor(t) \/ TruckUnload(t) \/ TruckAnnounce(t)
    \/ TruckLock(t) \/ TruckPass(t) \/ TruckFail(t) \/ TruckSleep(t)

\* cv.notify_one(): wakes any one of the sleepers, or nobody.
NotifyOne ==
    \/ \E t \in Trucks : TruckGo(t, "asleep", "lock")
    \/ (\A t \in Trucks : tpc[t] # "asleep") /\ UNCHANGED tpc

-----------------------------------------------------------------------------
(* The head of the dock-handler loop.                                      *)

OpenDock ==
    /\ hpc = "open" /\ hpc' = "await"
    /\ dock' = dock + 1
    /\ UNCHANGED <<arrived, buffMutex, buff, taskcount, docked, tpc, stage, spurious>>

\* Mistake: try_wait() with its result ignored.
AwaitTruckTry ==
    /\ hpc = "await" /\ hpc' = "lock"
    /\ arrived' = IF arrived > 0 THEN arrived - 1 ELSE 0
    /\ UNCHANGED <<dock, buffMutex, buff, taskcount, docked, tpc, stage, spurious>>

AwaitTruck ==
    /\ hpc = "await" /\ hpc' = "lock"
    /\ arrived > 0
    /\ arrived' = arrived - 1
    /\ UNCHANGED <<dock, buffMutex, buff, taskcount, docked, tpc, stage, spurious>>

LockBuffer ==
    /\ hpc = "lock" /\ hpc' = "plan"
    /\ buffMutex = Nobody
    /\ buffMutex' = Handler
    /\ UNCHANGED <<dock, arrived, buff, taskcount, docked, tpc, stage, spurious>>

-----------------------------------------------------------------------------
(* Properties of the protocol.                                             *)

AtDock(t) == tpc[t] \in {"moored", "unloaded"}

\* The token that OpenDock creates is in exactly one place: in the dock
\* semaphore, with the truck that took it, in the arrived semaphore, or with
\* the handler until it opens the dock again.  Hence two trucks never fill
\* the buffer together, and no truck fills it while the handler plans (what
\* the "acquire dock race" of truck.h is for).
OneTruckAtDock ==
    /\ dock + arrived + (IF hpc = "await" THEN 0 ELSE 1) =< 1
    /\ \A t \in Trucks : AtDock(t) => dock = 0 /\ arrived = 0 /\ hpc = "await"
    /\ \A t, u \in Trucks : AtDock(t) /\ AtDock(u) => t = u

\* mutex_rbuff has one owner and that owner knows it: a truck between lock
\* and wait or return, or the handler for the whole of its planning.
MutexOwned ==
    /\ \A t \in Trucks : tpc[t] \in {"test", "block"} <=> buffMutex = t
    /\ hpc \in HandlerBusy <=> buffMutex = Handler
=============================================================================
