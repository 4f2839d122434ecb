-------------------------------- MODULE Stock --------------------------------
(***************************************************************************)
(* The stock of the warehouse: StockInfo_map (quantity and locations of    *)
(* every item) and _currentstockquant, which the menu thread and the       *)
(* ClientOrderHandler thread (CallDelivery, CallRestock), the robots       *)
(* (HandleRestock, StockUpdate) and the delivery dock handler              *)
(* (GenerateDeliveryTask) all change, and none of them under a lock.       *)
(*                                                                         *)
(* Every "++", "--", push_back and pop_back is a load and a store, so two  *)
(* threads that meet lose an update.  raced collects where that happened.  *)
(* The docks and the tasks are the business of RestockDock and             *)
(* DeliveryDock: here a robot takes items off a truck that has been        *)
(* started, and the handler plans for such a truck.  What the handler      *)
(* weighs matters here too, because it deletes locations for every task    *)
(* that it makes.                                                          *)
(***************************************************************************)
EXTENDS Integers, SequencesExt

CONSTANTS
    Items,            \* item ids 1 .. MAXITEMTYPES
    Mass,             \* itemstock->mass
    TruckCapacity,    \* MAXTRUCKCAPACITY
    RobotCapacity,    \* MAX_ROBOT_CAPACITY
    MaxStock,         \* MAXWAREHOUSESTOCK
    InitialStocks,    \* units of every item that may be shelved before the run begins
    Menu, OrderHandler, Robots,
    Orders, Restocks, \* the calls' items, as map2vect lists them
    MaxCalls          \* bound: calls of CallDelivery and CallRestock in a run

Callers == {Menu, OrderHandler}

\* No item is as heavy as a truck or a robot's load may be (5 kg against 10000
\* and 40), and for an empty list of items CallRestock sends no truck.
ASSUME StockAssumption ==
    /\ IsFiniteSet(Items) /\ Items # {} /\ IsFiniteSet(Robots)
    /\ TruckCapacity \in Nat /\ Mass \in [Items -> 0 .. TruckCapacity - 1]
    /\ RobotCapacity \in Nat /\ Mass \in [Items -> 0 .. RobotCapacity - 1]
    /\ InitialStocks \subseteq [Items -> Nat]
    /\ Menu # OrderHandler /\ (Callers \cup {"handler"}) \cap Robots = {}
    /\ Orders \subseteq Seq(Items) /\ Restocks \subseteq Seq(Items) \ {<<>>}
    /\ MaxStock \in Nat /\ MaxCalls \in Nat

WeightOf(s) == SumFunction([k \in DOMAIN s |-> Mass[s[k]]])

\* The heaviest item weighs 5 kg: a restock call, which is admitted for less
\* than MAXWAREHOUSESTOCK units, never fills a truck, and the loop that sends
\* another one out is not reached.
ASSUME RestocksFitOneTruck ==
    \A items \in Restocks : Len(items) < MaxStock => WeightOf(items) < TruckCapacity

VARIABLES
    quantity, located, current,   \* quantity, locations.size(), _currentstockquant
    trucks,                       \* the vector of trucks: type, items, started
    road,                         \* trucks that run and are not yet unloaded or planned for
    cpc, kind, ask, hand, creg,   \* callers: program point, which call, itemvect left,
                                  \*   items for the next truck, loaded value
    rpc, carried, rreg,           \* robots: program point, item, loaded value
    hpc, buff, load, plan, hreg,  \* delivery handler: program point, del_buff, deliveryitems,
                                  \*   items of the task being made, loaded value
    dropped,                      \* locations deleted for tasks that no robot gets, per item
    raced,                        \* the items and globals on which two threads met
    calls                         \* calls so far

shelfVars == <<quantity, located, current>>
truckVars == <<trucks, road>>
callVars == <<cpc, kind, ask, hand, creg, calls>>
robotVars == <<rpc, carried, rreg>>
planVars == <<hpc, buff, load, plan, hreg, dropped>>
vars == <<shelfVars, truckVars, callVars, robotVars, planVars, raced>>

\* "call" is bookkeeping for the properties: which call made the truck.  No
\* truck is sent out empty.
Truck == [type : {"TTdelivery", "TTrestock"}, items : Seq(Items) \ {<<>>}, started : BOOLEAN,
          call : {"deliver", "restock"}]

TypeOK ==
    /\ quantity \in [Items -> Int] /\ located \in [Items -> Nat] /\ current \in Int
    /\ trucks \in Seq(Truck) /\ road \in Seq(Truck)
    /\ cpc \in [Callers -> {"idle", "test", "load", "store", "countload", "countstore",
                            "weigh", "push", "pushed", "start"}]
    /\ kind \in [Callers -> {"deliver", "restock"}]
    /\ ask \in [Callers -> Seq(Items)] /\ hand \in [Callers -> Seq(Items)]
    /\ creg \in [Callers -> Int]
    /\ rpc \in [Robots -> {"idle", "load", "store", "placeload", "placestore",
                           "countload", "countstore"}]
    /\ carried \in [Robots -> Items] /\ rreg \in [Robots -> Int]
    /\ hpc \in {"idle", "weigh", "load", "store", "undefined"}
    /\ buff \in Seq(Items) /\ load \in Seq(Items) /\ plan \in Seq(Items) /\ hreg \in Int
    /\ dropped \in [Items -> Nat]
    /\ raced \subseteq Items \cup {"current", "trucks"}
    /\ calls \in 0 .. MaxCalls

UnitsIn(s, i) == Cardinality({k \in DOMAIN s : s[k] = i})

\* GenerateStockInfo makes an entry for every item; what was restocked since
\* has been shelved.
Init ==
    /\ quantity \in InitialStocks /\ located = quantity
    /\ current = SumFunction(quantity)
    /\ trucks = <<>> /\ road = <<>>
    /\ cpc = [c \in Callers |-> "idle"] /\ kind = [c \in Callers |-> "deliver"]
    /\ ask = [c \in Callers |-> <<>>] /\ hand = [c \in Callers |-> <<>>]
    /\ creg = [c \in Callers |-> 0]
    /\ rpc = [r \in Robots |-> "idle"] /\ carried \in [Robots -> {CHOOSE i \in Items : TRUE}]
    /\ rreg = [r \in Robots |-> 0]
    /\ hpc = "idle" /\ buff = <<>> /\ load = <<>> /\ plan = <<>> /\ hreg = 0
    /\ dropped = [i \in Items |-> 0]
    /\ raced = {} /\ calls = 0

-----------------------------------------------------------------------------
(* Loads and stores.  A store on x meets a thread that has loaded x and    *)
(* will overwrite it, or that has tested it and will go on.  A register is *)
(* cleared by the store, after which nothing reads it.                     *)

Inc(f, i) == [f EXCEPT ![i] = @ + 1]
CallerAt(x, points) ==
    {c \in Callers : cpc[c] \in points /\ ask[c] # <<>> /\ Head(ask[c]) = x}
RobotAt(x, point) == {r \in Robots : rpc[r] = point /\ carried[r] = x}

Meet(x, others) == raced' = IF others = {} THEN raced ELSE raced \cup {x}

OnQuantity(i, self) ==
    Meet(i, (CallerAt(i, {"load", "store"}) \cup RobotAt(i, "store")) \ {self})
OnLocations(i, self) ==
    Meet(i, (RobotAt(i, "placestore") \cup {h \in {"handler"} : hpc = "store" /\ Head(plan) = i})
              \ {self})
OnCurrent(self) ==
    Meet("current", ({c \in Callers : cpc[c] = "countstore"}
                       \cup {r \in Robots : rpc[r] = "countstore"}) \ {self})
OnTrucks(self) == Meet("trucks", {c \in Callers : cpc[c] \in {"pushed", "start"}} \ {self})

-----------------------------------------------------------------------------
(* CallDelivery.  A caller that is busy takes the items of itemvect in     *)
(* turn; ask holds those left, the one at hand first.                      *)

CallerGo(c, from, to) == cpc[c] = from /\ cpc' = [cpc EXCEPT ![c] = to]

\* "_currentstockquant - itemvect.size() >= 0" is one load.
CallDelivery(c, items) ==
    /\ CallerGo(c, "idle", "test")
    /\ calls < MaxCalls
    /\ calls' = calls + 1
    /\ current - Len(items) >= 0
    /\ kind' = [kind EXCEPT ![c] = "deliver"]
    /\ ask' = [ask EXCEPT ![c] = items]
    /\ UNCHANGED <<shelfVars, truckVars, hand, creg, robotVars, planVars, raced>>

\* Mistake: the quantity is not looked at.
TestInStockNever(c) ==
    /\ ask[c] # <<>>
    /\ CallerGo(c, "test", "load")
    /\ UNCHANGED <<shelfVars, truckVars, kind, ask, hand, creg, calls, robotVars, planVars, raced>>

\* "quantity > 0"
TestInStock(c) ==
    /\ ask[c] # <<>>
    /\ quantity[Head(ask[c])] > 0
    /\ CallerGo(c, "test", "load")
    /\ UNCHANGED <<shelfVars, truckVars, kind, ask, hand, creg, calls, robotVars, planVars, raced>>

\* Mistake: a unit that is not there is taken off the total.
TestOutOfStockCounting(c) ==
    /\ cpc[c] = "test"
    /\ ask[c] # <<>>
    /\ quantity[Head(ask[c])] =< 0
    /\ ask' = [ask EXCEPT ![c] = Tail(@)]
    /\ current' = current - 1
    /\ UNCHANGED <<quantity, located, truckVars, cpc, kind, hand, creg, calls, robotVars, planVars, raced>>

\* "Item out of stock.  Canceling order": the item is passed over.
TestOutOfStock(c) ==
    /\ cpc[c] = "test"
    /\ ask[c] # <<>>
    /\ quantity[Head(ask[c])] =< 0
    /\ ask' = [ask EXCEPT ![c] = Tail(@)]
    /\ UNCHANGED <<shelfVars, truckVars, cpc, kind, hand, creg, calls, robotVars, planVars, raced>>

TakeLoad(c) ==
    /\ CallerGo(c, "load", "store")
    /\ creg' = [creg EXCEPT ![c] = quantity[Head(ask[c])]]
    /\ UNCHANGED <<shelfVars, truckVars, kind, ask, hand, calls, robotVars, planVars, raced>>

\* quantity--
TakeStore(c) ==
    LET i == Head(ask[c]) IN
    /\ CallerGo(c, "store", "countload")
    /\ quantity' = [quantity EXCEPT ![i] = creg[c] - 1]
    /\ OnQuantity(i, c)
    /\ creg' = [creg EXCEPT ![c] = 0]
    /\ UNCHANGED <<located, current, truckVars, kind, ask, hand, calls, robotVars, planVars>>

CountLoad(c) ==
    /\ CallerGo(c, "countload", "countstore")
    /\ creg' = [creg EXCEPT ![c] = current]
    /\ UNCHANGED <<shelfVars, truckVars, kind, ask, hand, calls, robotVars, planVars, raced>>

\* _currentstockquant--
CountStore(c) ==
    /\ CallerGo(c, "countstore", "weigh")
    /\ current' = creg[c] - 1
    /\ OnCurrent(c)
    /\ creg' = [creg EXCEPT ![c] = 0]
    /\ UNCHANGED <<quantity, located, truckVars, kind, ask, hand, calls, robotVars, planVars>>

\* weight is 0 for a new truck and grows with its list.
Overloads(c) == WeightOf(hand[c]) + Mass[Head(ask[c])] >= TruckCapacity

LoadItem(c) ==
    /\ CallerGo(c, "weigh", "test")
    /\ ~ Overloads(c)
    /\ hand' = [hand EXCEPT ![c] = Append(@, Head(ask[c]))]
    /\ ask' = [ask EXCEPT ![c] = Tail(@)]
    /\ UNCHANGED <<shelfVars, truckVars, kind, creg, calls, robotVars, planVars, raced>>

-----------------------------------------------------------------------------
(* CallRestock, and how both calls send a truck.                           *)

\* "_currentstockquant + itemvect.size() < MAXWAREHOUSESTOCK", unsigned, is one
\* load.
CallRestock(c, items) ==
    /\ CallerGo(c, "idle", "push")
    /\ calls < MaxCalls
    /\ calls' = calls + 1
    /\ current + Len(items) \in 0 .. MaxStock - 1
    /\ kind' = [kind EXCEPT ![c] = "restock"]
    /\ hand' = [hand EXCEPT ![c] = items]
    /\ UNCHANGED <<shelfVars, truckVars, ask, creg, robotVars, planVars, raced>>

\* A truck that is too full goes out as it is, a last one with the rest.
SendFull(c) ==
    /\ CallerGo(c, "weigh", "push")
    /\ Overloads(c)
    /\ UNCHANGED <<shelfVars, truckVars, kind, ask, hand, creg, calls, robotVars, planVars, raced>>

SendRest(c) ==
    /\ cpc[c] = "test"
    /\ ask[c] = <<>>
    /\ cpc' = [cpc EXCEPT ![c] = IF hand[c] = <<>> THEN "idle" ELSE "push"]
    /\ UNCHANGED <<shelfVars, truckVars, kind, ask, hand, creg, calls, robotVars, planVars, raced>>

\* The full truck of a delivery is of type TTrestock, too.
TruckType(c) == IF kind[c] = "deliver" /\ ask[c] = <<>> THEN "TTdelivery" ELSE "TTrestock"

\* trucks.push_back(new truck(...)): the size is read ...
PushLoad(c) ==
    /\ CallerGo(c, "push", "pushed")
    /\ creg' = [creg EXCEPT ![c] = Len(trucks)]
    /\ UNCHANGED <<shelfVars, truckVars, kind, ask, hand, calls, robotVars, planVars, raced>>

\* ... and the truck is put behind so many, over what was pushed meanwhile.
PushStore(c) ==
    /\ CallerGo(c, "pushed", "start")
    /\ trucks' = Append(SubSeq(trucks, 1, Min({creg[c], Len(trucks)})),
                         [type |-> TruckType(c), items |-> hand[c],
                          started |-> FALSE, call |-> kind[c]])
    /\ OnTrucks(c)
    /\ creg' = [creg EXCEPT ![c] = 0]
    /\ UNCHANGED <<shelfVars, road, kind, ask, hand, calls, robotVars, planVars>>

\* Mistake: the first truck of the vector is started.
StartTruckFront(c) ==
    LET back == Head(trucks)
        full == ask[c] # <<>>
    IN  /\ cpc[c] = "start"
        /\ cpc' = [cpc EXCEPT ![c] = IF full THEN "test" ELSE "idle"]
        /\ road' = IF back.started THEN road ELSE Append(road, back)
        /\ trucks' = [trucks EXCEPT ![1].started = TRUE]
        /\ hand' = [hand EXCEPT ![c] = IF full THEN <<Head(ask[c])>> ELSE <<>>]
        /\ ask' = [ask EXCEPT ![c] = IF full THEN Tail(@) ELSE @]
        /\ UNCHANGED <<shelfVars, kind, creg, calls, robotVars, planVars, raced>>

\* trucks.back()->start(), which does nothing for a truck that runs.
StartTruck(c) ==
    LET back == Last(trucks)
        full == ask[c] # <<>>
    IN  /\ cpc[c] = "start"
        /\ cpc' = [cpc EXCEPT ![c] = IF full THEN "test" ELSE "idle"]
        /\ road' = IF back.started THEN road ELSE Append(road, back)
        /\ trucks' = [trucks EXCEPT ![Len(trucks)].started = TRUE]
        /\ hand' = [hand EXCEPT ![c] = IF full THEN <<Head(ask[c])>> ELSE <<>>]
        /\ ask' = [ask EXCEPT ![c] = IF full THEN Tail(@) ELSE @]
        /\ UNCHANGED <<shelfVars, kind, creg, calls, robotVars, planVars, raced>>

CallerStep(c) ==
    \/ TestInStock(c) \/ TestOutOfStock(c) \/ TakeLoad(c) \/ TakeStore(c)
    \/ CountLoad(c) \/ CountStore(c) \/ LoadItem(c)
    \/ SendFull(c) \/ SendRest(c) \/ PushLoad(c) \/ PushStore(c) \/ StartTruck(c)

Call ==
    \/ \E c \in Callers, items \in Orders : CallDelivery(c, items)
    \/ \E items \in Restocks : CallRestock(Menu, items)

-----------------------------------------------------------------------------
(* A robot shelves the items of a truck of type TTrestock: StockUpdate,    *)
(* then _currentstockquant++.                                              *)

RobotGo(r, from, to) == rpc[r] = from /\ rpc' = [rpc EXCEPT ![r] = to]

RobotTake(r, k) ==
    LET items == road[k].items IN
    /\ road[k].type = "TTrestock"
    /\ RobotGo(r, "idle", "load")
    /\ carried' = [carried EXCEPT ![r] = Last(items)]
    /\ road' = IF Len(items) = 1 THEN RemoveAt(road, k)
               ELSE [road EXCEPT ![k].items = Front(items)]
    /\ UNCHANGED <<shelfVars, trucks, rreg, callVars, planVars, raced>>

RobotLoad(r) ==
    /\ RobotGo(r, "load", "store")
    /\ rreg' = [rreg EXCEPT ![r] = quantity[carried[r]]]
    /\ UNCHANGED <<shelfVars, truckVars, carried, callVars, planVars, raced>>

\* quantity++
RobotStore(r) ==
    /\ RobotGo(r, "store", "placeload")
    /\ quantity' = [quantity EXCEPT ![carried[r]] = rreg[r] + 1]
    /\ OnQuantity(carried[r], r)
    /\ rreg' = [rreg EXCEPT ![r] = 0]
    /\ UNCHANGED <<located, current, truckVars, carried, callVars, planVars>>

RobotPlaceLoad(r) ==
    /\ RobotGo(r, "placeload", "placestore")
    /\ rreg' = [rreg EXCEPT ![r] = located[carried[r]]]
    /\ UNCHANGED <<shelfVars, truckVars, carried, callVars, planVars, raced>>

\* locations.push_back
RobotPlaceStore(r) ==
    /\ RobotGo(r, "placestore", "countload")
    /\ located' = [located EXCEPT ![carried[r]] = rreg[r] + 1]
    /\ OnLocations(carried[r], r)
    /\ rreg' = [rreg EXCEPT ![r] = 0]
    /\ UNCHANGED <<quantity, current, truckVars, carried, callVars, planVars>>

RobotCountLoad(r) ==
    /\ RobotGo(r, "countload", "countstore")
    /\ rreg' = [rreg EXCEPT ![r] = current]
    /\ UNCHANGED <<shelfVars, truckVars, carried, callVars, planVars, raced>>

\* _currentstockquant++
RobotCountStore(r) ==
    /\ RobotGo(r, "countstore", "idle")
    /\ current' = rreg[r] + 1
    /\ OnCurrent(r)
    /\ rreg' = [rreg EXCEPT ![r] = 0]
    /\ UNCHANGED <<quantity, located, truckVars, carried, callVars, planVars>>

RobotStep(r) ==
    \/ \E k \in DOMAIN road : RobotTake(r, k)
    \/ RobotLoad(r) \/ RobotStore(r)
    \/ RobotPlaceLoad(r) \/ RobotPlaceStore(r)
    \/ RobotCountLoad(r) \/ RobotCountStore(r)

-----------------------------------------------------------------------------
(* The delivery handler plans for a truck of type TTdelivery, whose items  *)
(* it takes from the back of del_buff into deliveryitems.  The weight it   *)
(* tests is theirs: "float weight = 0" after an overload declares another  *)
(* weight, and deliveryitems is not cleared either.                        *)

PlanTruck(k) ==
    /\ hpc = "idle" /\ hpc' = "weigh"
    /\ road[k].type = "TTdelivery"
    /\ buff' = road[k].items
    /\ road' = RemoveAt(road, k)
    /\ UNCHANGED <<shelfVars, trucks, load, plan, hreg, dropped, callVars, robotVars, raced>>

RobotOverloaded == WeightOf(load) + Mass[Last(buff)] >= RobotCapacity

TakeItem ==
    /\ load' = Append(load, Last(buff))
    /\ buff' = Front(buff)

PlanItem ==
    /\ hpc = "weigh"
    /\ buff # <<>>
    /\ ~ RobotOverloaded
    /\ TakeItem
    /\ UNCHANGED <<shelfVars, truckVars, hpc, plan, hreg, dropped, callVars, robotVars, raced>>

\* GenerateDeliveryTask for the load so far, once for each item that does not
\* go with those before it ...
PlanOverload ==
    /\ hpc = "weigh" /\ hpc' = "load"
    /\ buff # <<>>
    /\ RobotOverloaded
    /\ plan' = load
    /\ UNCHANGED <<shelfVars, truckVars, buff, load, hreg, dropped, callVars, robotVars, raced>>

\* ... and for all of it, when the buffer is empty: the task has its own copy,
\* and deliveryitems is not read again.
PlanRest ==
    /\ hpc = "weigh" /\ hpc' = "load"
    /\ buff = <<>>
    /\ plan' = load
    /\ load' = <<>>
    /\ UNCHANGED <<shelfVars, truckVars, buff, hreg, dropped, callVars, robotVars, raced>>

\* Mistake: an empty vector is popped like any other.
LocationLoadUnchecked ==
    /\ hpc = "load"
    /\ hpc' = "store"
    /\ hreg' = located[Head(plan)]
    /\ UNCHANGED <<shelfVars, truckVars, buff, load, plan, dropped, callVars, robotVars, raced>>

\* locations.back(), undefined for an empty vector.
LocationLoad ==
    /\ hpc = "load"
    /\ hpc' = IF located[Head(plan)] = 0 THEN "undefined" ELSE "store"
    /\ hreg' = located[Head(plan)]
    /\ UNCHANGED <<shelfVars, truckVars, buff, load, plan, dropped, callVars, robotVars, raced>>

\* The task being made is an overload task: deliverytasks.clear() drops it.
Dropping == load # <<>>

\* The next item of the task; after the last one of an overload task, the item
\* at hand joins the load; after the last one of all, the next truck.
NextItem ==
    /\ plan' = Tail(plan)
    /\ \/ Len(plan) > 1 /\ hpc' = "load" /\ UNCHANGED <<buff, load>>
       \/ Len(plan) = 1 /\ Dropping /\ hpc' = "weigh" /\ TakeItem
       \/ Len(plan) = 1 /\ ~ Dropping /\ hpc' = "idle" /\ UNCHANGED <<buff, load>>

\* Mistake: the location is read and not deleted.
LocationStoreKeeping ==
    /\ hpc = "store"
    /\ dropped' = IF Dropping THEN Inc(dropped, Head(plan)) ELSE dropped
    /\ NextItem
    /\ OnLocations(Head(plan), "handler")
    /\ hreg' = 0
    /\ UNCHANGED <<shelfVars, truckVars, callVars, robotVars>>

\* locations.pop_back()
LocationStore ==
    /\ hpc = "store"
    /\ located' = [located EXCEPT ![Head(plan)] = hreg - 1]
    /\ dropped' = IF Dropping THEN Inc(dropped, Head(plan)) ELSE dropped
    /\ NextItem
    /\ OnLocations(Head(plan), "handler")
    /\ hreg' = 0
    /\ UNCHANGED <<quantity, current, truckVars, callVars, robotVars>>

HandlerStep ==
    \/ \E k \in DOMAIN road : PlanTruck(k)
    \/ PlanItem \/ PlanOverload \/ PlanRest
    \/ LocationLoad \/ LocationStore

-----------------------------------------------------------------------------
Next ==
    \/ Call
    \/ \E c \in Callers : CallerStep(c)
    \/ \E r \in Robots : RobotStep(r)
    \/ HandlerStep

Spec == Init /\ [][Next]_vars

\* Threads run; nobody has to make a call.
FairSpec ==
    /\ Spec
    /\ \A c \in Callers : WF_vars(CallerStep(c))
    /\ \A r \in Robots : WF_vars(RobotStep(r))
    /\ WF_vars(HandlerStep)

-----------------------------------------------------------------------------
(* Properties.  Threads do meet, so each speaks of the data on which none  *)
(* has: what is right as long as no update is lost.                        *)

Taken == {"countload", "countstore", "weigh", "push", "pushed", "start"}

\* Robots between the two lines of StockUpdate with a unit of i
Placing(i) == RobotAt(i, "placeload") \cup RobotAt(i, "placestore")

\* Units of i that a delivery has taken out of quantity and that are with the
\* caller, on a truck that was not started, and on a started truck.
InHand(i) ==
    SumFunction([c \in Callers |->
        IF kind[c] = "restock" THEN 0
        ELSE (IF cpc[c] = "start" THEN 0 ELSE UnitsIn(hand[c], i))
             + (IF cpc[c] \in Taken /\ ask[c] # <<>> /\ Head(ask[c]) = i THEN 1 ELSE 0)])
InTrucks(seq, i, Test(_)) ==
    SumFunction([k \in DOMAIN seq |-> IF Test(seq[k]) THEN UnitsIn(seq[k].items, i) ELSE 0])
Waiting(i) == InTrucks(trucks, i, LAMBDA t : t.type = "TTdelivery" /\ ~ t.started)
Driving(i) == InTrucks(road, i, LAMBDA t : t.type = "TTdelivery")
\* Units that a delivery sent out on a restock truck, now or long ago.
Misrouted(i) == InTrucks(trucks, i, LAMBDA t : t.type = "TTrestock" /\ t.call = "deliver")

\* Units with the handler whose locations it has still to delete for the task
\* that a robot will get
Planning(i) == UnitsIn(buff, i) + UnitsIn(load, i) + (IF Dropping THEN 0 ELSE UnitsIn(plan, i))

\* Every location is that of a unit in stock, or of a unit that was promised
\* to a delivery and will be taken out there; those promised on a restock
\* truck leave a location behind for ever (warehouse_main.cpp:445).  Of these
\* are missing the ones that the handler deleted for the tasks it dropped,
\* again for every item that overloads a robot (warehouse_main.cpp:505-516).
LocationsBalance ==
    "trucks" \notin raced =>
        \A i \in Items \ raced :
            located[i] + Cardinality(Placing(i)) + dropped[i]
              = quantity[i] + InHand(i) + Waiting(i) + Driving(i) + Planning(i) + Misrouted(i)

\* The total is the sum of the quantities, up to updates under way, although
\* it is changed apart from them.
TotalBalance ==
    raced \cap (Items \cup {"current"}) = {} =>
        current = SumFunction(quantity)
                    + Cardinality({c \in Callers : cpc[c] \in {"countload", "countstore"}})
                    - Cardinality({r \in Robots : rpc[r] \in {"placeload", "placestore",
                                                                "countload", "countstore"}})

\* What was found in stock has a location when its task is planned, or is about
\* to get one: locations.back() is called on an empty vector only where an
\* update of that very item was lost, while a robot that has counted a unit of
\* it (stock.h:109) has not yet put its location in (stock.h:110), or after
\* that item's locations were deleted for an overload task that was dropped.
PromisedIsLocated ==
    [][hpc' = "undefined" /\ hpc # "undefined" =>
          LET i == Head(plan) IN i \in raced \/ Placing(i) # {} \/ dropped[i] > 0]_vars

\* Every truck that a call sends starts and is unloaded or planned for, unless
\* the other thread has pushed a truck between push_back and back()->start(),
\* or the handler has read a location that is not there.  Handlers whose paths
\* hang and robots that were poisoned are left to the modules of the docks.
EveryTruckServed ==
    (\E k \in DOMAIN trucks : ~ trucks[k].started) \/ road # <<>>
        ~> \/ (\A k \in DOMAIN trucks : trucks[k].started) /\ road = <<>>
           \/ "trucks" \in raced
           \/ hpc = "undefined"
=============================================================================
