------------------------------ MODULE StockProof ------------------------------
(***************************************************************************)
(* Proofs about Stock, for any items, robots, orders and number of calls.  *)
(*                                                                         *)
(* Typed adds to the types what a program point promises about the data    *)
(* there; Agree says that, as long as no two threads have met on a piece   *)
(* of data, whoever has loaded it will overwrite what he has loaded; and   *)
(* with that every step moves a unit of an item from one place to another, *)
(* which keeps Located, and with the sum of the quantities Totalled.       *)
(***************************************************************************)
EXTENDS Stock, Sums

Sending == {"push", "pushed", "start"}

\* Types, and the shape of the lists: a caller at work on an item has one, a
\* truck that is to be sent has a load, a restock call has no items to test; the
\* handler has something to plan, and an item at hand when it drops a task.
CallerTyped(c) ==
    /\ cpc[c] \in {"load", "store", "countload", "countstore", "weigh"} => ask[c] # <<>>
    /\ cpc[c] \in Sending => hand[c] # <<>>
    /\ cpc[c] = "idle" => ask[c] = <<>> /\ hand[c] = <<>>
    /\ kind[c] = "restock" => ask[c] = <<>> /\ cpc[c] \in Sending \cup {"idle"}
    /\ cpc[c] = "pushed" => creg[c] \in Nat
    /\ cpc[c] = "start" => trucks # <<>>
CallersTyped == \A c \in Callers : CallerTyped(c)
RobotsTyped == \A r \in Robots : rpc[r] = "placestore" => rreg[r] \in Nat
PlanTyped ==
    /\ hpc = "idle" => buff = <<>> /\ load = <<>> /\ plan = <<>>
    /\ hpc = "weigh" => plan = <<>> /\ (buff # <<>> \/ load # <<>>)
    /\ hpc \in {"load", "store"} => plan # <<>> /\ (load # <<>> <=> buff # <<>>)
    /\ hpc = "store" => hreg \in Nat \ {0}
Typed == TypeOK /\ CallersTyped /\ RobotsTyped /\ PlanTyped

\* A register holds what it was loaded from, and an item that was found in
\* stock still is, unless threads have met on it.
QuantityAgrees(i) ==
    /\ quantity[i] >= 0
    /\ \A c \in CallerAt(i, {"load", "store"}) : quantity[i] > 0
    /\ \A c \in CallerAt(i, {"store"}) : creg[c] = quantity[i]
    /\ \A r \in RobotAt(i, "store") : rreg[r] = quantity[i]
LocationsAgree(i) ==
    /\ \A r \in RobotAt(i, "placestore") : rreg[r] = located[i]
    /\ hpc = "store" /\ Head(plan) = i => hreg = located[i]
ItemsAgree == \A i \in Items \ raced : QuantityAgrees(i) /\ LocationsAgree(i)
CurrentAgrees ==
    "current" \notin raced =>
        /\ \A c \in Callers : cpc[c] = "countstore" => creg[c] = current
        /\ \A r \in Robots : rpc[r] = "countstore" => rreg[r] = current
TrucksAgree ==
    "trucks" \notin raced => \A c \in Callers : cpc[c] = "pushed" => creg[c] = Len(trucks)
Agree == ItemsAgree /\ CurrentAgrees /\ TrucksAgree

\* The units of i that are promised to a delivery and not yet taken out; a
\* truck that is pushed over others may lose some, never make one.  What the
\* handler has deleted for dropped tasks was not due, and is counted against it.
Due(i) == Planning(i) - dropped[i]
Promised(i) == InHand(i) + Waiting(i) + Driving(i) + Due(i)
Left(i) == located[i] + Cardinality(Placing(i)) - quantity[i] - Promised(i)
Balanced(i) == Left(i) >= 0 /\ ("trucks" \notin raced => Left(i) = Misrouted(i))
Located == \A i \in Items \ raced : Balanced(i)

\* An overload task is for items of the load, which the handler keeps.
LoadPlanned == Dropping => \A i \in Items : UnitsIn(plan, i) =< UnitsIn(load, i)

-----------------------------------------------------------------------------
(* Types.                                                                  *)

LEMMA EmptyWeight == WeightOf(<<>>) = 0
<1>1. WeightOf(<<>>) = SumOf(Mass, <<>>)
  BY DEF WeightOf, SumOf, Weighed
<1> QED BY <1>1, SumOfEmpty

LEMMA HeadTail ==
    ASSUME NEW S, NEW s, s \in Seq(S), s # <<>>
    PROVE  Head(s) \in S /\ Tail(s) \in Seq(S) /\ Len(s) \in Nat /\ (Len(s) = 1 <=> Tail(s) = <<>>)
<1>1. Len(s) \in Nat /\ Len(s) # 0 /\ s[1] = Head(s) /\ 1 \in 1 .. Len(s)
  BY EmptySeq, LenProperties, HeadTailProperties
<1>2. Tail(s) \in Seq(S) /\ Len(Tail(s)) = Len(s) - 1
  BY HeadTailProperties
<1>3. Len(s) = 1 <=> Len(Tail(s)) = 0 BY <1>1, <1>2
<1>4. Head(s) \in S BY <1>1, ElementOfSeq
<1>5. Tail(s) = <<>> <=> Len(Tail(s)) = 0 BY <1>2, EmptySeq
<1> QED BY <1>1, <1>2, <1>3, <1>4, <1>5

\* A robot takes from a truck what leaves a truck that is not empty.
LEMMA TruckTaken ==
    ASSUME NEW t \in Truck, Len(t.items) # 1
    PROVE  [t EXCEPT !.items = Front(t.items)] \in Truck
<1>1. t.items \in Seq(Items) /\ t.items # <<>> BY DEF Truck
<1>2. Front(t.items) \in Seq(Items) /\ Len(Front(t.items)) = Len(t.items) - 1
  BY <1>1, FrontLast
<1>3. Front(t.items) # <<>>
  <2>1. Len(t.items) \in Nat BY <1>1, LenProperties
  <2>2. Len(Front(t.items)) # 0 BY <1>2, <2>1
  <2>3. Len(<<>>) = 0 OBVIOUS
  <2> QED BY <2>2, <2>3
<1> DEFINE rest == Front(t.items)
<1> HIDE DEF rest
<1>4. rest \in Seq(Items) \ {<<>>} BY <1>2, <1>3 DEF rest
<1>5. t = [type |-> t.type, items |-> t.items, started |-> t.started, call |-> t.call]
  BY DEF Truck
<1>6. [t EXCEPT !.items = rest]
        = [type |-> t.type, items |-> rest, started |-> t.started, call |-> t.call]
  BY <1>5
<1>7. [t EXCEPT !.items = rest] \in Truck
  BY <1>4, <1>6 DEF Truck
<1> QED BY <1>7 DEF rest

LEMMA Beginning ==
    ASSUME NEW S, NEW s, NEW m, s \in Seq(S), m \in 0 .. Len(s)
    PROVE  SubSeq(s, 1, m) \in Seq(S) /\ (m = Len(s) => SubSeq(s, 1, m) = s)
<1> DEFINE f == [x \in S |-> 0]
<1>1. f \in [S -> Nat] OBVIOUS
<1> HIDE DEF f
<1> QED BY <1>1, SumOfPrefix

LEMMA LesserOf ==
    ASSUME NEW m \in Nat, NEW n \in Nat
    PROVE  Min({m, n}) \in 0 .. n /\ (m = n => Min({m, n}) = n)
<1> DEFINE least == IF m =< n THEN m ELSE n
<1>1. least \in {m, n} /\ \A y \in {m, n} : least =< y OBVIOUS
<1>2. \A x \in {m, n} : (\A y \in {m, n} : x =< y) => x = least OBVIOUS
<1>3. Min({m, n}) \in {m, n} /\ \A y \in {m, n} : Min({m, n}) =< y
  BY <1>1 DEF Min
<1>4. Min({m, n}) = least BY <1>2, <1>3
<1> QED BY <1>4

\* trucks.back()->start()
LEMMA BackStarted ==
    ASSUME NEW s, s \in Seq(Truck), s # <<>>, NEW b \in BOOLEAN
    PROVE  /\ Len(s) \in 1 .. Len(s) /\ Last(s) = s[Len(s)] /\ Last(s) \in Truck
           /\ [Last(s) EXCEPT !.started = b] \in Truck
           /\ [Last(s) EXCEPT !.started = b]
                = [type |-> Last(s).type, items |-> Last(s).items,
                   started |-> b, call |-> Last(s).call]
           /\ [s EXCEPT ![Len(s)].started = b]
                = [s EXCEPT ![Len(s)] = [Last(s) EXCEPT !.started = b]]
           /\ [s EXCEPT ![Len(s)].started = b] \in Seq(Truck)
           /\ Len([s EXCEPT ![Len(s)].started = b]) = Len(s)
<1>1. Len(s) \in 1 .. Len(s)
  <2>1. Len(s) \in Nat /\ Len(s) # 0 BY LenProperties, EmptySeq
  <2> QED BY <2>1
<1>2. Last(s) = s[Len(s)] BY DEF Last
<1>3. Last(s) \in Truck BY <1>1, <1>2, ElementOfSeq
<1> DEFINE t == Last(s)
           u == [t EXCEPT !.started = b]
<1>4. u = [type |-> t.type, items |-> t.items, started |-> b, call |-> t.call]
  <2>1. t = [type |-> t.type, items |-> t.items, started |-> t.started, call |-> t.call]
    BY <1>3 DEF Truck
  <2> HIDE DEF t
  <2> QED BY <2>1
<1>5. u \in Truck BY <1>3, <1>4 DEF Truck
<1>6. [s EXCEPT ![Len(s)].started = b] = [s EXCEPT ![Len(s)] = u]
  BY <1>2
<1> HIDE DEF u
<1>7. [s EXCEPT ![Len(s)] = u] \in Seq(Truck) /\ Len([s EXCEPT ![Len(s)] = u]) = Len(s)
  BY <1>1, <1>5, ExceptSeq
<1> QED BY <1>1, <1>2, <1>3, <1>4, <1>5, <1>6, <1>7 DEF u, t

\* What two threads meet on stays marked.
LEMMA MeetOnly ==
    ASSUME NEW x, NEW others, Meet(x, others)
    PROVE  /\ raced \subseteq raced' /\ raced' \subseteq raced \cup {x}
           /\ x \notin raced' => others = {}
  BY DEF Meet

LEMMA InitTyped == ASSUME Init PROVE Typed
<1>1. quantity \in [Items -> Nat] /\ located \in [Items -> Nat] /\ current \in Int
  <2>1. /\ IsFiniteSet(Items) /\ quantity \in [Items -> Nat]
        /\ located = quantity /\ current = SumFunction(quantity)
    BY StockAssumption DEF Init
  <2>2. SumFunction(quantity) = Total(quantity, Items) /\ Total(quantity, Items) \in Nat
    BY <2>1, FunctionSum, TotalNat
  <2> QED BY <2>1, <2>2
<1> USE StockAssumption DEF Init
<1>2. (CHOOSE i \in Items : TRUE) \in Items OBVIOUS
<1>3. TypeOK
  BY <1>1, <1>2 DEF TypeOK
<1>4. CallersTyped /\ RobotsTyped /\ PlanTyped
  BY DEF CallersTyped, CallerTyped, RobotsTyped, PlanTyped, Sending
<1> QED BY <1>3, <1>4 DEF Typed

\* Steps of a caller.
CallStep(c) == (\E items \in Orders : CallDelivery(c, items)) \/ (\E items \in Restocks : CallRestock(c, items))
WorkStep(c) ==
    \/ TestInStock(c) \/ TestOutOfStock(c) \/ TakeLoad(c) \/ TakeStore(c)
    \/ CountLoad(c) \/ CountStore(c) \/ LoadItem(c)
SendStep(c) == SendFull(c) \/ SendRest(c) \/ PushLoad(c) \/ PushStore(c) \/ StartTruck(c)

USE DEF shelfVars, truckVars, callVars, robotVars, planVars, CallerGo, RobotGo

\* Nobody but the handler touches what it plans with.
LEMMA KeepPlan == ASSUME PlanTyped, UNCHANGED planVars PROVE PlanTyped'
  BY DEF PlanTyped

LEMMA CallTyped ==
    ASSUME Typed, NEW c \in Callers, CallStep(c) PROVE Typed'
<1>1. CASE \E items \in Orders : CallDelivery(c, items)
  <2>1. PICK items \in Orders : CallDelivery(c, items) BY <1>1
  <2>2. items \in Seq(Items) BY StockAssumption
  <2>2a. calls' \in 0 .. MaxCalls
    BY <2>1, StockAssumption DEF Typed, TypeOK, CallDelivery
  <2>2b. /\ cpc' = [cpc EXCEPT ![c] = "test"] /\ kind' = [kind EXCEPT ![c] = "deliver"]
         /\ ask' = [ask EXCEPT ![c] = items]
         /\ UNCHANGED <<shelfVars, truckVars, hand, creg, robotVars, planVars, raced>>
    BY <2>1 DEF CallDelivery
  <2>3. TypeOK' BY <2>2, <2>2a, <2>2b DEF Typed, TypeOK
  <2>4. CallersTyped' BY <2>1 DEF Typed, TypeOK, CallersTyped, CallerTyped, CallDelivery, Sending
  <2>5. RobotsTyped' /\ PlanTyped' BY <2>1, KeepPlan DEF Typed, RobotsTyped, CallDelivery
  <2> QED BY <2>3, <2>4, <2>5 DEF Typed
<1>2. CASE \E items \in Restocks : CallRestock(c, items)
  <2>1. PICK items \in Restocks : CallRestock(c, items) BY <1>2
  <2>2. items \in Seq(Items) /\ items # <<>> BY StockAssumption
  <2>2a. calls' \in 0 .. MaxCalls
    BY <2>1, StockAssumption DEF Typed, TypeOK, CallRestock
  <2>2b. /\ cpc' = [cpc EXCEPT ![c] = "push"] /\ kind' = [kind EXCEPT ![c] = "restock"]
         /\ hand' = [hand EXCEPT ![c] = items]
         /\ UNCHANGED <<shelfVars, truckVars, ask, creg, robotVars, planVars, raced>>
    BY <2>1 DEF CallRestock
  <2>3. TypeOK' BY <2>2, <2>2a, <2>2b DEF Typed, TypeOK
  <2>4. CallersTyped' BY <2>1, <2>2 DEF Typed, TypeOK, CallersTyped, CallerTyped, CallRestock, Sending
  <2>5. RobotsTyped' /\ PlanTyped' BY <2>1, KeepPlan DEF Typed, RobotsTyped, CallRestock
  <2> QED BY <2>3, <2>4, <2>5 DEF Typed
<1> QED BY <1>1, <1>2 DEF CallStep

LEMMA WorkTyped ==
    ASSUME Typed, NEW c \in Callers, WorkStep(c) PROVE Typed'
<1> USE DEF Typed, TypeOK
<1>1. CASE TestInStock(c)
  <2>1. TypeOK' BY <1>1 DEF TestInStock
  <2>2. CallersTyped' BY <1>1 DEF CallersTyped, CallerTyped, TestInStock, Sending
  <2> QED BY <1>1, <2>1, <2>2, KeepPlan DEF RobotsTyped, TestInStock
<1>2. CASE TestOutOfStock(c)
  <2>0. ask[c] \in Seq(Items) /\ ask[c] # <<>> BY <1>2 DEF TestOutOfStock
  <2>0a. Tail(ask[c]) \in Seq(Items) BY <2>0, HeadTail
  <2>1. TypeOK' BY <1>2, <2>0a DEF TestOutOfStock
  <2>2. CallersTyped' BY <1>2 DEF CallersTyped, CallerTyped, TestOutOfStock, Sending
  <2> QED BY <1>2, <2>1, <2>2, KeepPlan DEF RobotsTyped, TestOutOfStock
<1>3. CASE TakeLoad(c)
  <2>0. ask[c] \in Seq(Items) /\ ask[c] # <<>> BY <1>3 DEF TakeLoad, CallersTyped, CallerTyped
  <2>0a. Head(ask[c]) \in Items BY <2>0, HeadTail
  <2>1. TypeOK' BY <1>3, <2>0a DEF TakeLoad
  <2>2. CallersTyped' BY <1>3 DEF CallersTyped, CallerTyped, TakeLoad, Sending
  <2> QED BY <1>3, <2>1, <2>2, KeepPlan DEF RobotsTyped, TakeLoad
<1>4. CASE TakeStore(c)
  <2>0. ask[c] \in Seq(Items) /\ ask[c] # <<>> BY <1>4 DEF TakeStore, CallersTyped, CallerTyped
  <2>0a. Head(ask[c]) \in Items BY <2>0, HeadTail
  <2>0b. raced' \subseteq Items \cup {"current", "trucks"}
    BY <1>4, <2>0a, MeetOnly DEF TakeStore, OnQuantity
  <2>1. TypeOK' BY <1>4, <2>0a, <2>0b, SMTT(30) DEF TakeStore
  <2>2. CallersTyped' BY <1>4 DEF CallersTyped, CallerTyped, TakeStore, Sending
  <2> QED BY <1>4, <2>1, <2>2, KeepPlan DEF RobotsTyped, TakeStore
<1>5. CASE CountLoad(c)
  <2>1. TypeOK' BY <1>5 DEF CountLoad
  <2>2. CallersTyped' BY <1>5 DEF CallersTyped, CallerTyped, CountLoad, Sending
  <2> QED BY <1>5, <2>1, <2>2, KeepPlan DEF RobotsTyped, CountLoad
<1>6. CASE CountStore(c)
  <2>1. TypeOK' BY <1>6 DEF CountStore, OnCurrent, Meet
  <2>2. CallersTyped' BY <1>6 DEF CallersTyped, CallerTyped, CountStore, Sending
  <2> QED BY <1>6, <2>1, <2>2, KeepPlan DEF RobotsTyped, CountStore
<1>7. CASE LoadItem(c)
  <2>0. ask[c] \in Seq(Items) /\ ask[c] # <<>> /\ hand[c] \in Seq(Items)
    BY <1>7 DEF LoadItem, CallersTyped, CallerTyped
  <2>0a. Tail(ask[c]) \in Seq(Items) /\ Head(ask[c]) \in Items BY <2>0, HeadTail
  <2>0b. Append(hand[c], Head(ask[c])) \in Seq(Items) BY <2>0, <2>0a, AppendProperties
  <2>1. TypeOK' BY <1>7, <2>0a, <2>0b DEF LoadItem
  <2>2. CallersTyped' BY <1>7 DEF CallersTyped, CallerTyped, LoadItem, Sending
  <2> QED BY <1>7, <2>1, <2>2, KeepPlan DEF RobotsTyped, LoadItem
<1> QED BY <1>1, <1>2, <1>3, <1>4, <1>5, <1>6, <1>7 DEF WorkStep
\* What PushStore puts at the end of trucks, and behind what
NewTruck(c) == [type |-> TruckType(c), items |-> hand[c], started |-> FALSE, call |-> kind[c]]
Kept(c) == SubSeq(trucks, 1, Min({creg[c], Len(trucks)}))

LEMMA PushedTruck ==
    ASSUME Typed, NEW c \in Callers, PushStore(c)
    PROVE  /\ NewTruck(c) \in Truck /\ Kept(c) \in Seq(Truck)
           /\ trucks' = Append(Kept(c), NewTruck(c))
           /\ trucks' \in Seq(Truck) /\ trucks' # <<>>
           /\ creg[c] = Len(trucks) => Kept(c) = trucks
           /\ \E m \in 0 .. Len(trucks) : Kept(c) = SubSeq(trucks, 1, m)
<1>1. /\ cpc[c] = "pushed" /\ hand[c] \in Seq(Items) \ {<<>>} /\ creg[c] \in Nat
      /\ kind[c] \in {"deliver", "restock"} /\ trucks \in Seq(Truck)
      /\ trucks' = Append(Kept(c), NewTruck(c))
  BY DEF Typed, TypeOK, CallersTyped, CallerTyped, PushStore, Sending, Kept, NewTruck
<1>2. NewTruck(c) \in Truck BY <1>1 DEF NewTruck, TruckType, Truck
<1> DEFINE m == Min({creg[c], Len(trucks)})
<1>3. Len(trucks) \in Nat /\ m \in 0 .. Len(trucks) /\ (creg[c] = Len(trucks) => m = Len(trucks))
  BY <1>1, LenProperties, LesserOf
<1>4. Kept(c) = SubSeq(trucks, 1, m) BY DEF Kept
<1> HIDE DEF m
<1>5. Kept(c) \in Seq(Truck) /\ (m = Len(trucks) => Kept(c) = trucks)
  BY <1>1, <1>3, <1>4, Beginning
<1>6. trucks' \in Seq(Truck) /\ trucks' # <<>>
  <2>1. /\ Append(Kept(c), NewTruck(c)) \in Seq(Truck)
        /\ Len(Append(Kept(c), NewTruck(c))) = Len(Kept(c)) + 1
    BY <1>2, <1>5, AppendProperties
  <2>2. Len(Kept(c)) \in Nat BY <1>5, LenProperties
  <2>3. Len(trucks') # 0 BY <1>1, <2>1, <2>2
  <2>4. Len(<<>>) = 0 OBVIOUS
  <2> QED BY <1>1, <2>1, <2>3, <2>4
<1> QED BY <1>1, <1>2, <1>3, <1>4, <1>5, <1>6

\* The truck that StartTruck starts
Started(t) == [t EXCEPT !.started = TRUE]

LEMMA StartedTruck ==
    ASSUME Typed, NEW c \in Callers, StartTruck(c)
    PROVE  /\ trucks # <<>> /\ Len(trucks) \in 1 .. Len(trucks)
           /\ Last(trucks) \in Truck /\ Last(trucks) = trucks[Len(trucks)]
           /\ Started(Last(trucks)) \in Truck
           /\ Started(Last(trucks)) = [type |-> Last(trucks).type, items |-> Last(trucks).items,
                                        started |-> TRUE, call |-> Last(trucks).call]
           /\ trucks' = [trucks EXCEPT ![Len(trucks)] = Started(Last(trucks))]
           /\ trucks' \in Seq(Truck) /\ trucks' # <<>> /\ Len(trucks') = Len(trucks)
           /\ road' = IF Last(trucks).started THEN road ELSE Append(road, Last(trucks))
           /\ road' \in Seq(Truck)
<1> DEFINE b == TRUE
<1>1. b \in BOOLEAN OBVIOUS
<1>2. trucks' = [trucks EXCEPT ![Len(trucks)].started = b] BY DEF StartTruck
<1>3. Started(Last(trucks)) = [Last(trucks) EXCEPT !.started = b] BY DEF Started
<1>4. /\ trucks # <<>> /\ trucks \in Seq(Truck) /\ road \in Seq(Truck)
      /\ road' = IF Last(trucks).started THEN road ELSE Append(road, Last(trucks))
  BY DEF StartTruck, Typed, TypeOK, CallersTyped, CallerTyped
<1>5. [type |-> Last(trucks).type, items |-> Last(trucks).items,
       started |-> TRUE, call |-> Last(trucks).call]
        = [type |-> Last(trucks).type, items |-> Last(trucks).items,
           started |-> b, call |-> Last(trucks).call]
  OBVIOUS
<1> HIDE DEF b
<1>6. /\ Len(trucks) \in 1 .. Len(trucks) /\ Last(trucks) = trucks[Len(trucks)] /\ Last(trucks) \in Truck
      /\ [Last(trucks) EXCEPT !.started = b] \in Truck
      /\ [Last(trucks) EXCEPT !.started = b]
           = [type |-> Last(trucks).type, items |-> Last(trucks).items,
              started |-> b, call |-> Last(trucks).call]
      /\ [trucks EXCEPT ![Len(trucks)].started = b]
           = [trucks EXCEPT ![Len(trucks)] = [Last(trucks) EXCEPT !.started = b]]
      /\ [trucks EXCEPT ![Len(trucks)].started = b] \in Seq(Truck)
      /\ Len([trucks EXCEPT ![Len(trucks)].started = b]) = Len(trucks)
  BY <1>1, <1>4, BackStarted
<1>7. trucks' # <<>>
  <2>1. Len(trucks') = Len(trucks) /\ Len(trucks) # 0 /\ Len(<<>>) = 0
    BY <1>2, <1>6
  <2> QED BY <2>1
<1>8. road' \in Seq(Truck) BY <1>4, <1>6, AppendProperties
<1> QED BY <1>2, <1>3, <1>4, <1>5, <1>6, <1>7, <1>8

LEMMA SendTyped ==
    ASSUME Typed, NEW c \in Callers, SendStep(c) PROVE Typed'
<1> USE DEF Typed, TypeOK
<1>1. CASE SendFull(c)
  <2>1. TypeOK' BY <1>1 DEF SendFull
  <2>2. hand[c] # <<>>
    <3>1. SUFFICES ASSUME hand[c] = <<>> PROVE FALSE OBVIOUS
    <3>2. ask[c] \in Seq(Items) /\ ask[c] # <<>> BY <1>1 DEF SendFull, CallersTyped, CallerTyped
    <3>3. Head(ask[c]) \in Items BY <3>2, HeadTail
    <3>4. 0 + Mass[Head(ask[c])] >= TruckCapacity
      BY <1>1, <3>1, EmptyWeight DEF SendFull, Overloads
    <3>5. TruckCapacity \in Nat /\ Mass[Head(ask[c])] \in 0 .. TruckCapacity - 1
      BY <3>3, StockAssumption
    <3> QED BY <3>4, <3>5
  <2>3. CallersTyped' BY <1>1, <2>2 DEF CallersTyped, CallerTyped, SendFull, Sending
  <2> QED BY <1>1, <2>1, <2>3, KeepPlan DEF RobotsTyped, SendFull
<1>2. CASE SendRest(c)
  <2>1. TypeOK' BY <1>2 DEF SendRest
  <2>2. CallersTyped' BY <1>2 DEF CallersTyped, CallerTyped, SendRest, Sending
  <2> QED BY <1>2, <2>1, <2>2, KeepPlan DEF RobotsTyped, SendRest
<1>3. CASE PushLoad(c)
  <2>0. Len(trucks) \in Nat BY LenProperties
  <2>1. TypeOK' BY <1>3, <2>0, SMTT(30) DEF PushLoad
  <2>2. CallersTyped' BY <1>3, <2>0 DEF CallersTyped, CallerTyped, PushLoad, Sending
  <2> QED BY <1>3, <2>1, <2>2, KeepPlan DEF RobotsTyped, PushLoad
<1>4. CASE PushStore(c)
  <2>1. trucks' \in Seq(Truck) /\ trucks' # <<>>
    BY <1>4, PushedTruck
  <2>2. raced' \subseteq Items \cup {"current", "trucks"}
    BY <1>4, MeetOnly DEF PushStore, OnTrucks
  <2>2a. /\ cpc' = [cpc EXCEPT ![c] = "start"] /\ creg' = [creg EXCEPT ![c] = 0]
         /\ UNCHANGED <<shelfVars, road, kind, ask, hand, calls, robotVars, planVars>>
    BY <1>4 DEF PushStore
  <2>2b. creg' \in [Callers -> Int] /\ creg \in [Callers -> Int] BY <2>2a
  <2>2c. cpc' \in [Callers -> {"idle", "test", "load", "store", "countload", "countstore",
                               "weigh", "push", "pushed", "start"}]
    BY <2>2a
  <2>3. TypeOK'
    <3>1. UNCHANGED <<shelfVars, road, kind, ask, hand, calls, robotVars, planVars>> BY <2>2a
    <3> QED BY ONLY TypeOK, <2>1, <2>2, <2>2b, <2>2c, <3>1 DEF TypeOK, shelfVars, robotVars, planVars
  <2>4. CallersTyped' BY <1>4, <2>1 DEF CallersTyped, CallerTyped, PushStore, Sending
  <2> QED BY <1>4, <2>3, <2>4, KeepPlan DEF RobotsTyped, PushStore
<1>5. CASE StartTruck(c)
  <2>1. trucks' \in Seq(Truck) /\ trucks' # <<>> /\ road' \in Seq(Truck)
    BY <1>5, StartedTruck
  <2>2. ask[c] \in Seq(Items) /\ hand[c] \in Seq(Items) /\ cpc[c] = "start"
    BY <1>5 DEF StartTruck
  <2>3. CASE ask[c] # <<>>
    <3>1. Head(ask[c]) \in Items /\ Tail(ask[c]) \in Seq(Items) BY <2>2, <2>3, HeadTail
    <3> DEFINE one == <<Head(ask[c])>>
    <3>2. one \in Seq(Items) /\ one # <<>> BY <3>1
    <3>3. /\ cpc' = [cpc EXCEPT ![c] = "test"] /\ hand' = [hand EXCEPT ![c] = one]
          /\ ask' = [ask EXCEPT ![c] = Tail(@)]
          /\ UNCHANGED <<shelfVars, kind, creg, calls, robotVars, planVars, raced>>
      BY <1>5, <2>3 DEF StartTruck
    <3> HIDE DEF one
    <3>4. TypeOK' BY <2>1, <3>1, <3>2, <3>3
    <3>5. CallersTyped' BY <2>1, <2>2, <2>3, <3>3 DEF CallersTyped, CallerTyped, Sending
    <3> QED BY <3>3, <3>4, <3>5, KeepPlan DEF RobotsTyped
  <2>4. CASE ask[c] = <<>>
    <3>1. /\ cpc' = [cpc EXCEPT ![c] = "idle"] /\ hand' = [hand EXCEPT ![c] = <<>>]
          /\ ask' = ask
          /\ UNCHANGED <<shelfVars, kind, creg, calls, robotVars, planVars, raced>>
      BY <1>5, <2>4 DEF StartTruck
    <3>2. TypeOK' BY <2>1, <3>1, SMTT(30)
    <3>3. CallersTyped' BY <2>1, <2>4, <3>1 DEF CallersTyped, CallerTyped, Sending
    <3> QED BY <3>1, <3>2, <3>3, KeepPlan DEF RobotsTyped
  <2> QED BY <2>3, <2>4
<1> QED BY <1>1, <1>2, <1>3, <1>4, <1>5 DEF SendStep
\* Steps of a robot.
LEMMA RobotTakes ==
    ASSUME Typed, NEW r \in Robots, NEW k \in DOMAIN road, RobotTake(r, k)
    PROVE  /\ k \in 1 .. Len(road) /\ road[k] \in Truck
           /\ road[k].items \in Seq(Items) /\ road[k].items # <<>> /\ road[k].type = "TTrestock"
           /\ Last(road[k].items) \in Items
           /\ \/ road' = RemoveAt(road, k)
              \/ /\ [road[k] EXCEPT !.items = Front(road[k].items)] \in Truck
                 /\ road' = [road EXCEPT ![k] = [road[k] EXCEPT !.items = Front(road[k].items)]]
           /\ road' \in Seq(Truck)
<1>1. road \in Seq(Truck) BY DEF Typed, TypeOK
<1>2. k \in 1 .. Len(road) /\ road[k] \in Truck BY <1>1, LenProperties, ElementOfSeq
<1>3. road[k].items \in Seq(Items) /\ road[k].items # <<>> /\ road[k].type = "TTrestock"
  BY <1>2 DEF Truck, RobotTake
<1>4. Last(road[k].items) \in Items BY <1>3, FrontLast
<1>5. CASE Len(road[k].items) = 1
  <2>1. road' = RemoveAt(road, k) BY <1>5 DEF RobotTake
  <2>2. RemoveAt(road, k) \in Seq(Truck) BY <1>1, <1>2, RemoveAtIndex
  <2> QED BY <1>2, <1>3, <1>4, <2>1, <2>2
<1>6. CASE Len(road[k].items) # 1
  <2> DEFINE u == [road[k] EXCEPT !.items = Front(road[k].items)]
  <2>1. u \in Truck BY <1>2, <1>6, TruckTaken
  <2>2. road' = [road EXCEPT ![k] = u] BY <1>6 DEF RobotTake
  <2> HIDE DEF u
  <2>3. [road EXCEPT ![k] = u] \in Seq(Truck) BY <1>1, <1>2, <2>1, ExceptSeq
  <2> QED BY <1>2, <1>3, <1>4, <2>1, <2>2, <2>3 DEF u
<1> QED BY <1>5, <1>6

LEMMA RobotTyped ==
    ASSUME Typed, NEW r \in Robots, RobotStep(r) PROVE Typed'
<1> USE DEF Typed, TypeOK
<1>0. carried[r] \in Items OBVIOUS
<1>1. CASE \E k \in DOMAIN road : RobotTake(r, k)
  <2>1. PICK k \in DOMAIN road : RobotTake(r, k) BY <1>1
  <2>2. road' \in Seq(Truck) /\ Last(road[k].items) \in Items BY <2>1, RobotTakes
  <2>3. /\ rpc' = [rpc EXCEPT ![r] = "load"] /\ carried' = [carried EXCEPT ![r] = Last(road[k].items)]
        /\ UNCHANGED <<shelfVars, trucks, rreg, callVars, planVars, raced>>
    BY <2>1 DEF RobotTake
  <2>4. TypeOK' BY <2>2, <2>3
  <2> QED BY <2>3, <2>4, KeepPlan DEF CallersTyped, CallerTyped, RobotsTyped
<1>2. CASE RobotLoad(r)
  <2>1. TypeOK' BY <1>0, <1>2 DEF RobotLoad
  <2> QED BY <1>2, <2>1, KeepPlan DEF CallersTyped, CallerTyped, RobotsTyped, RobotLoad
<1>3. CASE RobotStore(r)
  <2>1. raced' \subseteq Items \cup {"current", "trucks"}
    BY <1>0, <1>3, MeetOnly DEF RobotStore, OnQuantity
  <2>2. TypeOK' BY <1>0, <1>3, <2>1 DEF RobotStore
  <2> QED BY <1>3, <2>2, KeepPlan DEF CallersTyped, CallerTyped, RobotsTyped, RobotStore
<1>4. CASE RobotPlaceLoad(r)
  <2>1. TypeOK' BY <1>0, <1>4 DEF RobotPlaceLoad
  <2> QED BY <1>0, <1>4, <2>1, SMTT(30), KeepPlan DEF CallersTyped, CallerTyped, RobotsTyped, RobotPlaceLoad
<1>5. CASE RobotPlaceStore(r)
  <2>1. raced' \subseteq Items \cup {"current", "trucks"}
    BY <1>0, <1>5, MeetOnly DEF RobotPlaceStore, OnLocations
  <2>2. rreg[r] \in Nat BY <1>5 DEF RobotPlaceStore, RobotsTyped
  <2>3. TypeOK' BY <1>0, <1>5, <2>1, <2>2 DEF RobotPlaceStore
  <2> QED BY <1>5, <2>3, SMTT(30), KeepPlan DEF CallersTyped, CallerTyped, RobotsTyped, RobotPlaceStore
<1>6. CASE RobotCountLoad(r)
  <2>1. TypeOK' BY <1>6 DEF RobotCountLoad
  <2> QED BY <1>6, <2>1, KeepPlan DEF CallersTyped, CallerTyped, RobotsTyped, RobotCountLoad
<1>7. CASE RobotCountStore(r)
  <2>1. raced' \subseteq Items \cup {"current", "trucks"}
    BY <1>7, MeetOnly DEF RobotCountStore, OnCurrent
  <2>2. TypeOK' BY <1>7, <2>1 DEF RobotCountStore
  <2> QED BY <1>7, <2>2, SMTT(30), KeepPlan DEF CallersTyped, CallerTyped, RobotsTyped, RobotCountStore
<1> QED BY <1>1, <1>2, <1>3, <1>4, <1>5, <1>6, <1>7 DEF RobotStep

\* Steps of the delivery handler.
LEMMA PlansTruck ==
    ASSUME Typed, NEW k \in DOMAIN road, PlanTruck(k)
    PROVE  /\ k \in 1 .. Len(road) /\ road[k] \in Truck /\ road[k].type = "TTdelivery"
           /\ road[k].items \in Seq(Items) /\ road[k].items # <<>>
           /\ road' = RemoveAt(road, k) /\ road' \in Seq(Truck)
           /\ buff = <<>> /\ load = <<>> /\ plan = <<>> /\ buff' = road[k].items
<1>1. road \in Seq(Truck) BY DEF Typed, TypeOK
<1>2. k \in 1 .. Len(road) /\ road[k] \in Truck BY <1>1, LenProperties, ElementOfSeq
<1>3. RemoveAt(road, k) \in Seq(Truck) BY <1>1, <1>2, RemoveAtIndex
<1>4. road[k].items \in Seq(Items) /\ road[k].items # <<>> BY <1>2 DEF Truck
<1> QED BY <1>2, <1>3, <1>4 DEF Typed, PlanTyped, PlanTruck

\* The item at hand has gone from the buffer to the load.
ItemTaken(l, b) ==
    /\ l = Append(load, Last(buff)) /\ buff = Append(b, Last(buff))
    /\ Last(buff) \in Items /\ b \in Seq(Items) /\ l \in Seq(Items) /\ l # <<>>

LEMMA TakesItem ==
    ASSUME buff \in Seq(Items), buff # <<>>, load \in Seq(Items), TakeItem
    PROVE  ItemTaken(load', buff')
<1>1. load' = Append(load, Last(buff)) /\ buff' = Front(buff) BY DEF TakeItem
<1>2. Front(buff) \in Seq(Items) /\ Last(buff) \in Items /\ buff = Append(Front(buff), Last(buff))
  BY FrontLast
<1>3. Append(load, Last(buff)) \in Seq(Items) /\ Len(Append(load, Last(buff))) = Len(load) + 1
  BY <1>2, AppendProperties
<1>4. load' # <<>>
  <2>1. Len(load) \in Nat BY LenProperties
  <2>2. Len(load') # 0 /\ Len(<<>>) = 0 BY <1>1, <1>3, <2>1
  <2> QED BY <2>2
<1> QED BY <1>1, <1>2, <1>3, <1>4 DEF ItemTaken

LEMMA HandlerTyped ==
    ASSUME Typed, HandlerStep PROVE Typed'
<1> USE DEF Typed, TypeOK
<1>1. CASE \E k \in DOMAIN road : PlanTruck(k)
  <2>1. PICK k \in DOMAIN road : PlanTruck(k) BY <1>1
  <2>2. road' \in Seq(Truck) /\ buff' \in Seq(Items) /\ buff' # <<>> /\ plan = <<>>
    BY <2>1, PlansTruck
  <2>3. hpc' = "weigh" /\ UNCHANGED <<shelfVars, trucks, load, plan, hreg, dropped, callVars, robotVars, raced>>
    BY <2>1 DEF PlanTruck
  <2>4. TypeOK' BY <2>2, <2>3
  <2> QED BY <2>2, <2>3, <2>4 DEF CallersTyped, CallerTyped, RobotsTyped, PlanTyped
<1>2. CASE PlanItem
  <2>1. hpc = "weigh" /\ buff # <<>> /\ buff \in Seq(Items) /\ load \in Seq(Items) /\ plan = <<>>
    BY <1>2 DEF PlanItem, PlanTyped
  <2>2. ItemTaken(load', buff') BY <1>2, <2>1, TakesItem DEF PlanItem
  <2>3. UNCHANGED <<shelfVars, truckVars, hpc, plan, hreg, dropped, callVars, robotVars, raced>>
    BY <1>2 DEF PlanItem
  <2>4. TypeOK' BY <2>2, <2>3 DEF ItemTaken
  <2> QED BY <2>1, <2>2, <2>3, <2>4 DEF ItemTaken, CallersTyped, CallerTyped, RobotsTyped, PlanTyped
<1>3. CASE PlanOverload
  <2>1. load # <<>>
    <3>1. SUFFICES ASSUME load = <<>> PROVE FALSE OBVIOUS
    <3>2. Last(buff) \in Items BY <1>3, FrontLast DEF PlanOverload
    <3>3. 0 + Mass[Last(buff)] >= RobotCapacity
      BY <1>3, <3>1, EmptyWeight DEF PlanOverload, RobotOverloaded
    <3>4. RobotCapacity \in Nat /\ Mass[Last(buff)] \in 0 .. RobotCapacity - 1
      BY <3>2, StockAssumption
    <3> QED BY <3>3, <3>4
  <2>2. TypeOK' BY <1>3 DEF PlanOverload
  <2> QED BY <1>3, <2>1, <2>2 DEF PlanOverload, CallersTyped, CallerTyped, RobotsTyped, PlanTyped
<1>4. CASE PlanRest
  <2>1. TypeOK' BY <1>4 DEF PlanRest
  <2> QED BY <1>4, <2>1 DEF PlanRest, CallersTyped, CallerTyped, RobotsTyped, PlanTyped
<1>5. CASE LocationLoad
  <2>1. plan # <<>> /\ plan \in Seq(Items) BY <1>5 DEF LocationLoad, PlanTyped
  <2>2. located[Head(plan)] \in Nat BY <2>1, HeadTail
  <2>3. TypeOK' BY <1>5, <2>2 DEF LocationLoad
  <2> QED BY <1>5, <2>1, <2>2, <2>3 DEF LocationLoad, CallersTyped, CallerTyped, RobotsTyped, PlanTyped
<1>6. CASE LocationStore
  <2>1. /\ hpc = "store" /\ plan # <<>> /\ plan \in Seq(Items) /\ (load # <<>> <=> buff # <<>>)
        /\ buff \in Seq(Items) /\ load \in Seq(Items)
    BY <1>6 DEF LocationStore, PlanTyped
  <2>2. Head(plan) \in Items /\ Tail(plan) \in Seq(Items) /\ (Len(plan) = 1 <=> Tail(plan) = <<>>)
    BY <2>1, HeadTail
  <2>3. hreg - 1 \in Nat BY <1>6 DEF LocationStore, PlanTyped
  <2>4. raced' \subseteq Items \cup {"current", "trucks"}
    BY <1>6, <2>2, MeetOnly, SMTT(30) DEF LocationStore, OnLocations
  <2>5. /\ located' = [located EXCEPT ![Head(plan)] = hreg - 1] /\ NextItem /\ hreg' = 0
        /\ dropped' = IF Dropping THEN Inc(dropped, Head(plan)) ELSE dropped
        /\ UNCHANGED <<quantity, current, truckVars, callVars, robotVars>>
    BY <1>6 DEF LocationStore
  <2>6. plan' = Tail(plan) /\ plan' \in Seq(Items) BY <2>2, <2>5 DEF NextItem
  <2>7. dropped' \in [Items -> Nat]
    <3>1. dropped \in [Items -> Nat] OBVIOUS
    <3> HIDE DEF Typed, TypeOK
    <3> DEFINE h == Head(plan)
    <3>1a. h \in Items BY <2>2
    <3> HIDE DEF h
    <3>1b. [dropped EXCEPT ![h] = @ + 1] \in [Items -> Nat] BY <3>1, <3>1a
    <3>2. Inc(dropped, Head(plan)) \in [Items -> Nat] BY <3>1b DEF Inc, h
    <3> QED BY <2>5, <3>1, <3>2
  <2>8. /\ hpc' \in {"idle", "weigh", "load"} /\ buff' \in Seq(Items) /\ load' \in Seq(Items)
        /\ hpc' = "idle" => plan' = <<>> /\ buff' = <<>> /\ load' = <<>>
        /\ hpc' = "weigh" => plan' = <<>> /\ load' # <<>>
        /\ hpc' = "load" => plan' # <<>> /\ (load' # <<>> <=> buff' # <<>>)
    <3> HIDE DEF Typed, TypeOK
    <3>1. CASE Len(plan) > 1 /\ hpc' = "load" /\ UNCHANGED <<buff, load>>
      BY <2>1, <2>2, <2>6, <3>1
    <3>2. CASE Len(plan) = 1 /\ Dropping /\ hpc' = "weigh" /\ TakeItem
      <4>1. ItemTaken(load', buff') BY <2>1, <3>2, TakesItem DEF Dropping
      <4> QED BY <2>2, <2>6, <3>2, <4>1 DEF ItemTaken
    <3>3. CASE Len(plan) = 1 /\ ~ Dropping /\ hpc' = "idle" /\ UNCHANGED <<buff, load>>
      BY <2>1, <2>2, <2>6, <3>3 DEF Dropping
    <3> QED BY <2>5, <3>1, <3>2, <3>3 DEF NextItem
  <2>9. located' \in [Items -> Nat] BY <2>2, <2>3, <2>5
  <2>10. TypeOK'
    <3>1. UNCHANGED <<quantity, current, truckVars, callVars, robotVars>> /\ hreg' = 0 BY <2>5
    <3>2. hpc' \in {"idle", "weigh", "load", "store", "undefined"} BY <2>8
    <3>3. buff' \in Seq(Items) /\ load' \in Seq(Items) /\ plan' \in Seq(Items) BY <2>6, <2>8
    <3> QED BY ONLY TypeOK, <2>4, <2>7, <2>9, <3>1, <3>2, <3>3
            DEF TypeOK, truckVars, callVars, robotVars
  <2> QED BY <2>5, <2>8, <2>10 DEF CallersTyped, CallerTyped, RobotsTyped, PlanTyped
<1> QED BY <1>1, <1>2, <1>3, <1>4, <1>5, <1>6 DEF HandlerStep

LEMMA StepCases ==
    ASSUME Next
    PROVE  \/ \E c \in Callers : CallStep(c) \/ WorkStep(c) \/ SendStep(c)
           \/ \E r \in Robots : RobotStep(r)
           \/ HandlerStep
<1>1. Menu \in Callers BY DEF Callers
<1> QED BY <1>1 DEF Next, Call, CallStep, CallerStep, WorkStep, SendStep

LEMMA KeepTyped == ASSUME Typed, UNCHANGED vars PROVE Typed'
  BY DEF vars, Typed, TypeOK, CallersTyped, CallerTyped, RobotsTyped, PlanTyped

\* Types hold in every reachable state: a size of locations is never negative,
\* and no program point is reached with an empty list that it takes from.
THEOREM TypeCorrect == Spec => []TypeOK
<1>1. Init => Typed BY InitTyped
<1>2. Typed /\ [Next]_vars => Typed'
  BY StepCases, CallTyped, WorkTyped, SendTyped, RobotTyped, HandlerTyped, KeepTyped
<1>3. Typed => TypeOK BY DEF Typed
<1> QED BY <1>1, <1>2, <1>3, PTL DEF Spec
-----------------------------------------------------------------------------
(* Registers.                                                              *)

\* Whoever is at one of the points after a step was there before it.
CallersStay(points) ==
    \A d \in Callers :
        cpc'[d] \in points => cpc'[d] = cpc[d] /\ ask'[d] = ask[d] /\ creg'[d] = creg[d]
RobotsStay(points) ==
    \A r \in Robots :
        rpc'[r] \in points => rpc'[r] = rpc[r] /\ carried'[r] = carried[r] /\ rreg'[r] = rreg[r]
PlanStays == hpc' = "store" => hpc = "store" /\ plan' = plan /\ hreg' = hreg

QuantityStays ==
    quantity' = quantity /\ CallersStay({"load", "store"}) /\ RobotsStay({"store"})
LocationsStay == located' = located /\ RobotsStay({"placestore"}) /\ PlanStays
CurrentStays == current' = current /\ CallersStay({"countstore"}) /\ RobotsStay({"countstore"})
TrucksStay == Len(trucks') = Len(trucks) /\ CallersStay({"pushed"})

LEMMA QuietQuantity ==
    ASSUME QuantityStays, NEW i, QuantityAgrees(i) PROVE QuantityAgrees(i)'
<1>1. \A c \in CallerAt(i, {"load", "store"})' : c \in CallerAt(i, {"load", "store"})
  BY DEF QuantityStays, CallersStay, CallerAt
<1>2. \A c \in CallerAt(i, {"store"})' : c \in CallerAt(i, {"store"}) /\ creg'[c] = creg[c]
  BY DEF QuantityStays, CallersStay, CallerAt
<1>3. \A r \in RobotAt(i, "store")' : r \in RobotAt(i, "store") /\ rreg'[r] = rreg[r]
  BY DEF QuantityStays, RobotsStay, RobotAt
<1> QED BY <1>1, <1>2, <1>3 DEF QuantityAgrees, QuantityStays

LEMMA QuietLocations ==
    ASSUME LocationsStay, NEW i, LocationsAgree(i) PROVE LocationsAgree(i)'
<1>1. \A r \in RobotAt(i, "placestore")' : r \in RobotAt(i, "placestore") /\ rreg'[r] = rreg[r]
  BY DEF LocationsStay, RobotsStay, RobotAt
<1> QED BY <1>1 DEF LocationsAgree, LocationsStay, PlanStays

LEMMA QuietCurrent ==
    ASSUME CurrentStays, raced \subseteq raced', CurrentAgrees PROVE CurrentAgrees'
  BY DEF CurrentStays, CurrentAgrees, CallersStay, RobotsStay

LEMMA QuietTrucks ==
    ASSUME TrucksStay, raced \subseteq raced', TrucksAgree PROVE TrucksAgree'
  BY DEF TrucksStay, TrucksAgree, CallersStay

LEMMA QuietItems ==
    ASSUME QuantityStays, LocationsStay, raced \subseteq raced', ItemsAgree PROVE ItemsAgree'
<1>1. ASSUME NEW i \in Items \ raced' PROVE QuantityAgrees(i)' /\ LocationsAgree(i)'
  <2>1. QuantityAgrees(i) /\ LocationsAgree(i) BY DEF ItemsAgree
  <2> QED BY <2>1, QuietQuantity, QuietLocations
<1> QED BY <1>1 DEF ItemsAgree

\* A store that marks nothing met nobody.
LEMMA MetNobody ==
    ASSUME NEW x, NEW others, NEW self, Meet(x, others \ {self}), x \notin raced'
    PROVE  \A o \in others : o = self
<1>1. others \ {self} = {} BY DEF Meet
<1> QED BY <1>1

LEMMA QuantityAlone ==
    ASSUME NEW i, NEW self, OnQuantity(i, self), i \notin raced'
    PROVE  /\ \A d \in CallerAt(i, {"load", "store"}) : d = self
           /\ \A r \in RobotAt(i, "store") : r = self
<1> DEFINE others == CallerAt(i, {"load", "store"}) \cup RobotAt(i, "store")
<1>1. Meet(i, others \ {self}) BY DEF OnQuantity
<1> HIDE DEF others
<1>2. \A o \in others : o = self BY <1>1, MetNobody
<1> QED BY <1>2 DEF others

LEMMA LocationsAlone ==
    ASSUME NEW i, NEW self, OnLocations(i, self), i \notin raced'
    PROVE  /\ \A r \in RobotAt(i, "placestore") : r = self
           /\ hpc = "store" /\ Head(plan) = i => self = "handler"
<1> DEFINE handler == {h \in {"handler"} : hpc = "store" /\ Head(plan) = i}
           others == RobotAt(i, "placestore") \cup handler
<1>1. Meet(i, others \ {self}) BY DEF OnLocations
<1> HIDE DEF others, handler
<1>2. \A o \in others : o = self BY <1>1, MetNobody
<1>3. hpc = "store" /\ Head(plan) = i => "handler" \in handler BY DEF handler
<1> QED BY <1>2, <1>3 DEF others

LEMMA CurrentAlone ==
    ASSUME NEW self, OnCurrent(self), "current" \notin raced'
    PROVE  /\ \A d \in Callers : cpc[d] = "countstore" => d = self
           /\ \A r \in Robots : rpc[r] = "countstore" => r = self
<1> DEFINE others == {c \in Callers : cpc[c] = "countstore"} \cup {r \in Robots : rpc[r] = "countstore"}
<1>1. Meet("current", others \ {self}) BY DEF OnCurrent
<1> HIDE DEF others
<1>2. \A o \in others : o = self BY <1>1, MetNobody
<1> QED BY <1>2 DEF others

\* A caller that goes on to a point at which nothing is in its register
Leaves(c, points) ==
    /\ cpc'[c] \notin points
    /\ \A d \in Callers : d # c => cpc'[d] = cpc[d] /\ ask'[d] = ask[d] /\ creg'[d] = creg[d]

LEMMA CallerLeaves ==
    ASSUME NEW c, NEW points, Leaves(c, points) PROVE CallersStay(points)
  BY DEF Leaves, CallersStay

LEMMA CallAgrees ==
    ASSUME Typed, Agree, NEW c \in Callers, CallStep(c) PROVE Agree'
<1>1. Leaves(c, {"load", "store"}) /\ Leaves(c, {"countstore"}) /\ Leaves(c, {"pushed"})
  BY DEF CallStep, CallDelivery, CallRestock, Leaves, Typed, TypeOK
<1>2. UNCHANGED <<shelfVars, truckVars, robotVars, planVars, raced>>
  BY DEF CallStep, CallDelivery, CallRestock
<1>3. QuantityStays /\ LocationsStay /\ CurrentStays /\ TrucksStay
  BY <1>1, <1>2, CallerLeaves
     DEF QuantityStays, LocationsStay, CurrentStays, TrucksStay, RobotsStay, PlanStays
<1> QED BY <1>2, <1>3, QuietItems, QuietCurrent, QuietTrucks DEF Agree

LEMMA SendAgrees ==
    ASSUME Typed, Agree, NEW c \in Callers, SendStep(c) PROVE Agree'
<1>1. Leaves(c, {"load", "store"}) /\ Leaves(c, {"countstore"})
  BY DEF SendStep, SendFull, SendRest, PushLoad, PushStore, StartTruck, Leaves, Typed, TypeOK
<1>2. UNCHANGED <<shelfVars, robotVars, planVars>>
  BY DEF SendStep, SendFull, SendRest, PushLoad, PushStore, StartTruck
<1>3. raced \subseteq raced'
  BY MeetOnly DEF SendStep, SendFull, SendRest, PushLoad, PushStore, StartTruck, OnTrucks
<1>4. QuantityStays /\ LocationsStay /\ CurrentStays
  BY <1>1, <1>2, CallerLeaves
     DEF QuantityStays, LocationsStay, CurrentStays, RobotsStay, PlanStays
<1>5. CASE SendFull(c) \/ SendRest(c) \/ StartTruck(c)
  <2>1. Len(trucks') = Len(trucks)
    BY <1>5, StartedTruck DEF SendFull, SendRest
  <2>2. Leaves(c, {"pushed"})
    BY <1>5 DEF SendFull, SendRest, StartTruck, Leaves, Typed, TypeOK
  <2>3. TrucksStay BY <2>1, <2>2, CallerLeaves DEF TrucksStay
  <2> QED BY <1>3, <1>4, <2>3, QuietItems, QuietCurrent, QuietTrucks DEF Agree
<1>6. CASE PushLoad(c)
  <2>1. TrucksAgree'
    BY <1>6 DEF Agree, TrucksAgree, PushLoad, Typed, TypeOK
  <2> QED BY <1>3, <1>4, <2>1, QuietItems, QuietCurrent DEF Agree
<1>7. CASE PushStore(c)
  <2>1. "trucks" \notin raced' => {d \in Callers : cpc[d] \in {"pushed", "start"}} \ {c} = {}
    BY <1>7, MeetOnly DEF PushStore, OnTrucks
  <2>2. cpc'[c] = "start" /\ \A d \in Callers : d # c => cpc'[d] = cpc[d]
    BY <1>7 DEF PushStore, Typed, TypeOK
  <2>3. TrucksAgree' BY <2>1, <2>2 DEF TrucksAgree
  <2> QED BY <1>3, <1>4, <2>3, QuietItems, QuietCurrent DEF Agree
<1> QED BY <1>5, <1>6, <1>7 DEF SendStep
LEMMA WorkAgrees ==
    ASSUME Typed, Agree, NEW c \in Callers, WorkStep(c) PROVE Agree'
<1> USE DEF Typed, TypeOK
<1>1. CASE TestOutOfStock(c) \/ LoadItem(c) \/ CountLoad(c) \/ CountStore(c)
  <2>1. Leaves(c, {"load", "store"}) /\ Leaves(c, {"pushed"})
    BY <1>1 DEF TestOutOfStock, LoadItem, CountLoad, CountStore, Leaves
  <2>2. UNCHANGED <<quantity, located, truckVars, robotVars, planVars>>
    BY <1>1 DEF TestOutOfStock, LoadItem, CountLoad, CountStore
  <2>3. raced \subseteq raced'
    BY <1>1, MeetOnly DEF TestOutOfStock, LoadItem, CountLoad, CountStore, OnCurrent
  <2>4. QuantityStays /\ LocationsStay /\ TrucksStay
    BY <2>1, <2>2, CallerLeaves DEF QuantityStays, LocationsStay, TrucksStay, RobotsStay, PlanStays
  <2>5. CurrentAgrees'
    <3>1. CASE TestOutOfStock(c) \/ LoadItem(c)
      <4>1. Leaves(c, {"countstore"}) /\ UNCHANGED <<current, robotVars>>
        BY <3>1 DEF TestOutOfStock, LoadItem, Leaves
      <4>2. CurrentStays BY <4>1, CallerLeaves DEF CurrentStays, RobotsStay
      <4> QED BY <2>3, <4>2, QuietCurrent DEF Agree
    <3>2. CASE CountLoad(c)
      BY <3>2 DEF CountLoad, Agree, CurrentAgrees
    <3>3. CASE CountStore(c)
      <4>1. "current" \notin raced' =>
              /\ \A d \in Callers : cpc[d] = "countstore" => d = c
              /\ \A r \in Robots : rpc[r] = "countstore" => r = c
        BY <3>3, CurrentAlone DEF CountStore
      <4>2. c \notin Robots BY StockAssumption
      <4>3. /\ cpc'[c] = "weigh" /\ \A d \in Callers : d # c => cpc'[d] = cpc[d]
            /\ rpc' = rpc
        BY <3>3 DEF CountStore
      <4> QED BY <4>1, <4>2, <4>3 DEF CurrentAgrees
    <3> QED BY <1>1, <3>1, <3>2, <3>3
  <2> QED BY <2>3, <2>4, <2>5, QuietItems, QuietTrucks DEF Agree
<1>2. CASE TestInStock(c) \/ TakeLoad(c) \/ TakeStore(c)
  <2>1. Leaves(c, {"countstore"}) /\ Leaves(c, {"pushed"})
    BY <1>2 DEF TestInStock, TakeLoad, TakeStore, Leaves
  <2>2. UNCHANGED <<located, current, truckVars, robotVars, planVars, ask>>
    BY <1>2 DEF TestInStock, TakeLoad, TakeStore
  <2>3. raced \subseteq raced'
    BY <1>2, MeetOnly DEF TestInStock, TakeLoad, TakeStore, OnQuantity
  <2>4. LocationsStay /\ CurrentStays /\ TrucksStay
    BY <2>1, <2>2, CallerLeaves DEF LocationsStay, CurrentStays, TrucksStay, RobotsStay, PlanStays
  <2>5. ASSUME NEW i \in Items \ raced' PROVE QuantityAgrees(i)'
    <3>0. QuantityAgrees(i) /\ i \notin raced' BY <2>3 DEF Agree, ItemsAgree
    <3>1. CASE TestInStock(c)
      BY <3>0, <3>1 DEF TestInStock, QuantityAgrees, CallerAt, RobotAt
    <3>2. CASE TakeLoad(c)
      BY <3>0, <3>2 DEF TakeLoad, QuantityAgrees, CallerAt, RobotAt
    <3>3. CASE TakeStore(c)
      <4>1. /\ quantity' = [quantity EXCEPT ![Head(ask[c])] = creg[c] - 1] /\ cpc[c] = "store"
            /\ cpc'[c] = "countload" /\ \A d \in Callers : d # c => cpc'[d] = cpc[d] /\ creg'[d] = creg[d]
        BY <3>3 DEF TakeStore
      <4>2. ask[c] \in Seq(Items) /\ ask[c] # <<>> /\ Head(ask[c]) \in Items
        <5>1. ask[c] \in Seq(Items) /\ ask[c] # <<>> BY <4>1 DEF CallersTyped, CallerTyped
        <5> QED BY <5>1, HeadTail
      <4>3. CASE i = Head(ask[c])
        <5>1. /\ \A d \in CallerAt(i, {"load", "store"}) : d = c
              /\ \A r \in RobotAt(i, "store") : r = c
          BY <3>0, <3>3, <4>3, QuantityAlone DEF TakeStore
        <5>2. creg[c] = quantity[i] /\ quantity[i] > 0
          BY <3>0, <4>1, <4>2, <4>3 DEF QuantityAgrees, CallerAt
        <5>3. quantity'[i] >= 0 BY <4>1, <4>3, <5>2
        <5>4. CallerAt(i, {"load", "store"})' = {} /\ RobotAt(i, "store")' = {}
          <6>1. c \notin Robots BY StockAssumption
          <6>2. ask' = ask /\ rpc' = rpc /\ carried' = carried BY <2>2
          <6>3. ASSUME NEW d \in CallerAt(i, {"load", "store"})' PROVE FALSE
            <7>1. d \in Callers /\ cpc'[d] \in {"load", "store"} /\ d # c
              BY <4>1, <6>3 DEF CallerAt
            <7>2. d \in CallerAt(i, {"load", "store"}) BY <4>1, <6>2, <6>3, <7>1 DEF CallerAt
            <7> QED BY <5>1, <7>1, <7>2
          <6>4. ASSUME NEW r \in RobotAt(i, "store")' PROVE FALSE
            <7>1. r \in RobotAt(i, "store") /\ r \in Robots BY <6>2, <6>4 DEF RobotAt
            <7> QED BY <5>1, <6>1, <7>1
          <6> QED BY <6>3, <6>4
        <5>5. CallerAt(i, {"store"})' = {} BY <5>4 DEF CallerAt
        <5> QED BY <5>3, <5>4, <5>5 DEF QuantityAgrees
      <4>4. CASE i # Head(ask[c])
        <5>1. quantity'[i] = quantity[i] BY <4>1, <4>4
        <5>2. /\ CallerAt(i, {"load", "store"})' \subseteq CallerAt(i, {"load", "store"})
              /\ \A d \in CallerAt(i, {"store"})' : d \in CallerAt(i, {"store"}) /\ creg'[d] = creg[d]
              /\ RobotAt(i, "store")' = RobotAt(i, "store") /\ rreg' = rreg
          BY <2>2, <4>1 DEF CallerAt, RobotAt
        <5> QED BY <3>0, <5>1, <5>2 DEF QuantityAgrees
      <4> QED BY <4>3, <4>4
    <3> QED BY <1>2, <3>1, <3>2, <3>3
  <2>6. \A i \in Items \ raced' : LocationsAgree(i)'
    BY <2>3, <2>4, QuietLocations DEF Agree, ItemsAgree
  <2>7. ItemsAgree' BY <2>5, <2>6 DEF ItemsAgree
  <2> QED BY <2>3, <2>4, <2>7, QuietCurrent, QuietTrucks DEF Agree
<1> QED BY <1>1, <1>2 DEF WorkStep
LEMMA RobotAgrees ==
    ASSUME Typed, Agree, NEW r \in Robots, RobotStep(r) PROVE Agree'
<1> USE DEF Typed, TypeOK
<1>0. carried[r] \in Items /\ r \notin Callers /\ r # "handler" BY StockAssumption
<1>1. UNCHANGED callVars /\ UNCHANGED <<trucks, hpc, plan, hreg>>
  BY DEF RobotStep, RobotTake, RobotLoad, RobotStore, RobotPlaceLoad, RobotPlaceStore,
         RobotCountLoad, RobotCountStore
<1>2. raced \subseteq raced'
  BY MeetOnly DEF RobotStep, RobotTake, RobotLoad, RobotStore, RobotPlaceLoad, RobotPlaceStore,
                  RobotCountLoad, RobotCountStore, OnQuantity, OnLocations, OnCurrent
<1>3. \A points : CallersStay(points) /\ PlanStays /\ TrucksStay
  BY <1>1 DEF CallersStay, PlanStays, TrucksStay
<1>4. TrucksAgree' BY <1>2, <1>3, QuietTrucks DEF Agree
<1>5. CASE (\E k \in DOMAIN road : RobotTake(r, k)) \/ RobotCountLoad(r) \/ RobotCountStore(r)
  <2>1. RobotsStay({"store"}) /\ RobotsStay({"placestore"}) /\ UNCHANGED <<quantity, located>>
    BY <1>5, SMTT(30) DEF RobotsStay, RobotTake, RobotCountLoad, RobotCountStore
  <2>2. ItemsAgree'
    BY <1>2, <1>3, <2>1, QuietItems DEF Agree, QuantityStays, LocationsStay
  <2>3. CASE \E k \in DOMAIN road : RobotTake(r, k)
    <3>1. RobotsStay({"countstore"}) /\ UNCHANGED current BY <2>3 DEF RobotsStay, RobotTake
    <3> QED BY <1>2, <1>3, <1>4, <2>2, <3>1, QuietCurrent DEF Agree, CurrentStays
  <2>4. CASE RobotCountLoad(r)
    <3>1. CurrentAgrees' BY <2>4 DEF RobotCountLoad, Agree, CurrentAgrees
    <3> QED BY <1>4, <2>2, <3>1 DEF Agree
  <2>5. CASE RobotCountStore(r)
    <3>1. "current" \notin raced' =>
            /\ \A d \in Callers : cpc[d] = "countstore" => d = r
            /\ \A q \in Robots : rpc[q] = "countstore" => q = r
      BY <2>5, CurrentAlone DEF RobotCountStore
    <3>2. rpc'[r] = "idle" /\ \A q \in Robots : q # r => rpc'[q] = rpc[q]
      BY <2>5 DEF RobotCountStore
    <3>3. CurrentAgrees' BY <1>0, <1>1, <3>1, <3>2 DEF CurrentAgrees
    <3> QED BY <1>4, <2>2, <3>3 DEF Agree
  <2> QED BY <1>5, <2>3, <2>4, <2>5
<1>6. CASE RobotLoad(r) \/ RobotStore(r)
  <2>1. RobotsStay({"placestore"}) /\ RobotsStay({"countstore"}) /\ UNCHANGED <<located, current>>
    BY <1>6 DEF RobotsStay, RobotLoad, RobotStore
  <2>2. CurrentAgrees' BY <1>2, <1>3, <2>1, QuietCurrent DEF Agree, CurrentStays
  <2>3. ASSUME NEW i \in Items \ raced' PROVE QuantityAgrees(i)' /\ LocationsAgree(i)'
    <3>0. QuantityAgrees(i) /\ LocationsAgree(i) BY <1>2 DEF Agree, ItemsAgree
    <3>1. LocationsAgree(i)' BY <1>3, <2>1, <3>0, QuietLocations DEF LocationsStay
    <3>2. /\ CallerAt(i, {"load", "store"})' = CallerAt(i, {"load", "store"})
          /\ CallerAt(i, {"store"})' = CallerAt(i, {"store"}) /\ creg' = creg
      BY <1>1 DEF CallerAt
    <3>3. CASE RobotLoad(r)
      <4>1. /\ quantity' = quantity /\ carried' = carried /\ rreg'[r] = quantity[carried[r]]
            /\ \A q \in Robots : q # r => rpc'[q] = rpc[q] /\ rreg'[q] = rreg[q]
        BY <3>3 DEF RobotLoad
      <4>2. \A q \in RobotAt(i, "store")' : rreg'[q] = quantity[i]
        BY <3>0, <4>1 DEF RobotAt, QuantityAgrees
      <4>3. QuantityAgrees(i)'
        BY <1>1, <3>0, <3>2, <4>1, <4>2 DEF QuantityAgrees
      <4> QED BY <3>1, <4>3
    <3>4. CASE RobotStore(r)
      <4>1. /\ quantity' = [quantity EXCEPT ![carried[r]] = rreg[r] + 1] /\ carried' = carried
            /\ rpc[r] = "store" /\ rpc'[r] = "placeload" /\ OnQuantity(carried[r], r)
            /\ \A q \in Robots : q # r => rpc'[q] = rpc[q] /\ rreg'[q] = rreg[q]
        BY <3>4 DEF RobotStore
      <4>2. CASE i = carried[r]
        <5>1. /\ \A d \in CallerAt(i, {"load", "store"}) : d = r
              /\ \A q \in RobotAt(i, "store") : q = r
          BY <4>1, <4>2, QuantityAlone
        <5>2. CallerAt(i, {"load", "store"})' = {} /\ CallerAt(i, {"store"})' = {}
          <6>1. \A d \in CallerAt(i, {"load", "store"}) : d \in Callers BY DEF CallerAt
          <6>2. CallerAt(i, {"store"}) \subseteq CallerAt(i, {"load", "store"}) BY DEF CallerAt
          <6> QED BY <1>0, <3>2, <5>1, <6>1, <6>2
        <5>3. RobotAt(i, "store")' = {}
          <6>1. \A q \in RobotAt(i, "store")' : q \in RobotAt(i, "store") /\ q # r
            BY <4>1 DEF RobotAt
          <6> QED BY <5>1, <6>1
        <5>4. rreg[r] = quantity[i] /\ quantity[i] >= 0
          BY <3>0, <4>1, <4>2 DEF QuantityAgrees, RobotAt
        <5>5. quantity'[i] >= 0 BY <4>1, <4>2, <5>4
        <5> QED BY <3>1, <5>2, <5>3, <5>5 DEF QuantityAgrees
      <4>3. CASE i # carried[r]
        <5>1. quantity'[i] = quantity[i] BY <4>1, <4>3
        <5>2. \A q \in RobotAt(i, "store")' : q \in RobotAt(i, "store") /\ rreg'[q] = rreg[q]
          BY <4>1, <4>3 DEF RobotAt
        <5>3. QuantityAgrees(i)' BY <3>0, <3>2, <5>1, <5>2 DEF QuantityAgrees
        <5> QED BY <3>1, <5>3
      <4> QED BY <4>2, <4>3
    <3> QED BY <1>6, <3>3, <3>4
  <2>4. ItemsAgree' BY <2>3 DEF ItemsAgree
  <2> QED BY <1>4, <2>2, <2>4 DEF Agree
<1>7. CASE RobotPlaceLoad(r) \/ RobotPlaceStore(r)
  <2>1. RobotsStay({"store"}) /\ RobotsStay({"countstore"}) /\ UNCHANGED <<quantity, current>>
    BY <1>7 DEF RobotsStay, RobotPlaceLoad, RobotPlaceStore
  <2>2. CurrentAgrees' BY <1>2, <1>3, <2>1, QuietCurrent DEF Agree, CurrentStays
  <2>3. ASSUME NEW i \in Items \ raced' PROVE QuantityAgrees(i)' /\ LocationsAgree(i)'
    <3>0. QuantityAgrees(i) /\ LocationsAgree(i) BY <1>2 DEF Agree, ItemsAgree
    <3>1. QuantityAgrees(i)' BY <1>3, <2>1, <3>0, QuietQuantity DEF QuantityStays
    <3>3. CASE RobotPlaceLoad(r)
      <4>1. /\ located' = located /\ carried' = carried /\ rreg'[r] = located[carried[r]]
            /\ \A q \in Robots : q # r => rpc'[q] = rpc[q] /\ rreg'[q] = rreg[q]
        BY <3>3 DEF RobotPlaceLoad
      <4>2. \A q \in RobotAt(i, "placestore")' : rreg'[q] = located[i]
        BY <3>0, <4>1 DEF RobotAt, LocationsAgree
      <4>3. LocationsAgree(i)'
        BY <1>1, <3>0, <4>1, <4>2 DEF LocationsAgree
      <4> QED BY <3>1, <4>3
    <3>4. CASE RobotPlaceStore(r)
      <4>1. /\ located' = [located EXCEPT ![carried[r]] = rreg[r] + 1] /\ carried' = carried
            /\ rpc[r] = "placestore" /\ rpc'[r] = "countload" /\ OnLocations(carried[r], r)
            /\ \A q \in Robots : q # r => rpc'[q] = rpc[q] /\ rreg'[q] = rreg[q]
        BY <3>4 DEF RobotPlaceStore
      <4>2. CASE i = carried[r]
        <5>1. /\ \A q \in RobotAt(i, "placestore") : q = r
              /\ hpc = "store" /\ Head(plan) = i => r = "handler"
          BY <4>1, <4>2, LocationsAlone
        <5>2. RobotAt(i, "placestore")' = {}
          <6>1. \A q \in RobotAt(i, "placestore")' : q \in RobotAt(i, "placestore") /\ q # r
            BY <4>1 DEF RobotAt
          <6> QED BY <5>1, <6>1
        <5>3. ~ (hpc' = "store" /\ Head(plan)' = i) BY <1>0, <1>1, <5>1
        <5> QED BY <3>1, <5>2, <5>3 DEF LocationsAgree
      <4>3. CASE i # carried[r]
        <5>1. located'[i] = located[i] BY <4>1, <4>3
        <5>2. \A q \in RobotAt(i, "placestore")' : q \in RobotAt(i, "placestore") /\ rreg'[q] = rreg[q]
          BY <4>1, <4>3 DEF RobotAt
        <5>3. LocationsAgree(i)' BY <1>1, <3>0, <5>1, <5>2 DEF LocationsAgree
        <5> QED BY <3>1, <5>3
      <4> QED BY <4>2, <4>3
    <3> QED BY <1>7, <3>3, <3>4
  <2>4. ItemsAgree' BY <2>3 DEF ItemsAgree
  <2> QED BY <1>4, <2>2, <2>4 DEF Agree
<1> QED BY <1>5, <1>6, <1>7 DEF RobotStep

LEMMA HandlerAgrees ==
    ASSUME Typed, Agree, HandlerStep PROVE Agree'
<1> USE DEF Typed, TypeOK
<1>1. UNCHANGED callVars /\ UNCHANGED robotVars /\ UNCHANGED <<quantity, current, trucks>>
  BY DEF HandlerStep, PlanTruck, PlanItem, PlanOverload, PlanRest, LocationLoad, LocationStore
<1>2. raced \subseteq raced'
  BY MeetOnly DEF HandlerStep, PlanTruck, PlanItem, PlanOverload, PlanRest, LocationLoad, LocationStore, OnLocations
<1>3. \A points : CallersStay(points) /\ RobotsStay(points)
  BY <1>1 DEF CallersStay, RobotsStay
<1>4. QuantityStays /\ CurrentStays /\ TrucksStay
  BY <1>1, <1>3 DEF QuantityStays, CurrentStays, TrucksStay
<1>5. ASSUME NEW i \in Items \ raced' PROVE LocationsAgree(i)'
  <2>0. LocationsAgree(i) BY <1>2 DEF Agree, ItemsAgree
  <2>1. CASE \E k \in DOMAIN road : PlanTruck(k)
    <3>1. located' = located /\ hpc' = "weigh" BY <2>1 DEF PlanTruck
    <3> QED BY <1>1, <2>0, <3>1 DEF LocationsAgree, RobotAt
  <2>1a. CASE PlanItem \/ PlanOverload \/ PlanRest
    <3>1. located' = located /\ hpc' \in {"weigh", "load"}
      BY <2>1a DEF PlanItem, PlanOverload, PlanRest
    <3> QED BY <1>1, <2>0, <3>1 DEF LocationsAgree, RobotAt
  <2>2. CASE LocationLoad
    <3>1. located' = located /\ hreg' = located[Head(plan)] /\ plan' = plan BY <2>2 DEF LocationLoad
    <3> QED BY <1>1, <2>0, <3>1 DEF LocationsAgree, RobotAt
  <2>3. CASE LocationStore
    <3>1. /\ located' = [located EXCEPT ![Head(plan)] = hreg - 1] /\ hpc' # "store"
          /\ hpc = "store" /\ OnLocations(Head(plan), "handler")
      BY <2>3 DEF LocationStore, NextItem
    <3>2. CASE i = Head(plan)
      <4>1. \A q \in RobotAt(i, "placestore") : q = "handler"
        BY <3>1, <3>2, LocationsAlone
      <4>2. RobotAt(i, "placestore")' = {}
        <5>1. "handler" \notin Robots BY StockAssumption
        <5> QED BY <1>1, <4>1, <5>1 DEF RobotAt
      <4> QED BY <3>1, <4>2 DEF LocationsAgree
    <3>3. CASE i # Head(plan)
      <4>1. located'[i] = located[i] BY <3>1, <3>3
      <4> QED BY <1>1, <2>0, <3>1, <4>1 DEF LocationsAgree, RobotAt
    <3> QED BY <3>2, <3>3
  <2> QED BY <2>1, <2>1a, <2>2, <2>3 DEF HandlerStep
<1>6. \A i \in Items \ raced' : QuantityAgrees(i)'
  BY <1>2, <1>4, QuietQuantity DEF Agree, ItemsAgree
<1>7. ItemsAgree' BY <1>5, <1>6 DEF ItemsAgree
<1> QED BY <1>2, <1>4, <1>7, QuietCurrent, QuietTrucks DEF Agree

LEMMA InitAgrees == ASSUME Init PROVE Agree
<1>1. quantity \in [Items -> Nat] BY StockAssumption DEF Init
<1>2. ItemsAgree
  BY <1>1 DEF Init, ItemsAgree, QuantityAgrees, LocationsAgree, CallerAt, RobotAt
<1>3. CurrentAgrees /\ TrucksAgree
  BY DEF Init, CurrentAgrees, TrucksAgree
<1> QED BY <1>2, <1>3 DEF Agree

LEMMA KeepAgrees == ASSUME Agree, UNCHANGED vars PROVE Agree'
<1>1. QuantityStays /\ LocationsStay /\ CurrentStays /\ TrucksStay /\ raced' = raced
  BY DEF vars, QuantityStays, LocationsStay, CurrentStays, TrucksStay, CallersStay, RobotsStay, PlanStays
<1> QED BY <1>1, QuietItems, QuietCurrent, QuietTrucks DEF Agree
-----------------------------------------------------------------------------
(* Units.                                                                  *)

One(x, i) == IF x = i THEN 1 ELSE 0

LEMMA UnitsAreOccurrences == ASSUME NEW s, NEW i PROVE UnitsIn(s, i) = Occurrences(i, s)
  BY DEF UnitsIn, Occurrences

LEMMA UnitsNat == ASSUME NEW i, NEW s, s \in Seq(Items) PROVE UnitsIn(s, i) \in Nat
  BY UnitsAreOccurrences, OccurrencesNat

LEMMA UnitsOfNone == ASSUME NEW i PROVE UnitsIn(<<>>, i) = 0
  BY UnitsAreOccurrences, OccurrencesEmpty

LEMMA UnitsAppend ==
    ASSUME NEW i, NEW s, NEW x, s \in Seq(Items), x \in Items
    PROVE  UnitsIn(Append(s, x), i) = UnitsIn(s, i) + One(x, i)
  BY UnitsAreOccurrences, OccurrencesAppend DEF One

LEMMA UnitsTail ==
    ASSUME NEW i, NEW s, s \in Seq(Items), s # <<>>
    PROVE  /\ Head(s) \in Items /\ Tail(s) \in Seq(Items)
           /\ UnitsIn(s, i) = One(Head(s), i) + UnitsIn(Tail(s), i)
  BY UnitsAreOccurrences, OccurrencesTail DEF One

LEMMA UnitsOfOne == ASSUME NEW i, NEW x \in Items PROVE UnitsIn(<<x>>, i) = One(x, i)
<1>1. <<x>> = Append(<<>>, x) /\ <<>> \in Seq(Items) OBVIOUS
<1>2. UnitsIn(Append(<<>>, x), i) = UnitsIn(<<>>, i) + One(x, i) BY <1>1, UnitsAppend
<1> QED BY <1>1, <1>2, UnitsOfNone DEF One

\* What a caller has of i for a delivery
HandOf(c, i) ==
    IF kind[c] = "restock" THEN 0
    ELSE (IF cpc[c] = "start" THEN 0 ELSE UnitsIn(hand[c], i))
         + (IF cpc[c] \in Taken /\ ask[c] # <<>> /\ Head(ask[c]) = i THEN 1 ELSE 0)

LEMMA HandNat == ASSUME Typed, NEW i, NEW c \in Callers PROVE HandOf(c, i) \in Nat
<1>1. UnitsIn(hand[c], i) \in Nat BY UnitsNat DEF Typed, TypeOK
<1> QED BY <1>1 DEF HandOf

LEMMA HandThen ==
    ASSUME NEW i, NEW c
    PROVE  HandOf(c, i)' = IF kind'[c] = "restock" THEN 0
                           ELSE (IF cpc'[c] = "start" THEN 0 ELSE UnitsIn(hand'[c], i))
                                + (IF cpc'[c] \in Taken /\ ask'[c] # <<>> /\ Head(ask'[c]) = i THEN 1 ELSE 0)
  BY DEF HandOf, UnitsIn, Taken

LEMMA CallersSum ==
    ASSUME NEW f, f \in [Callers -> Nat]
    PROVE  IsFiniteSet(Callers) /\ SumFunction(f) = Total(f, Callers) /\ Total(f, Callers) \in Nat
<1>1. IsFiniteSet(Callers)
  <2>1. IsFiniteSet({Menu}) BY FS_Singleton
  <2>2. IsFiniteSet({Menu} \cup {OrderHandler}) BY <2>1, FS_AddElement
  <2>3. Callers = {Menu} \cup {OrderHandler} BY DEF Callers
  <2> QED BY <2>2, <2>3
<1> QED BY <1>1, FunctionSum, TotalNat

LEMMA InHandNat == ASSUME Typed, NEW i PROVE InHand(i) \in Nat
<1> DEFINE f == [c \in Callers |-> HandOf(c, i)]
<1>1. f \in [Callers -> Nat] BY HandNat
<1>2. InHand(i) = SumFunction(f) BY DEF InHand, HandOf
<1> HIDE DEF f
<1> QED BY <1>1, <1>2, CallersSum

\* The other caller has what it had.
OnlyCaller(c) ==
    \A d \in Callers : d # c =>
        kind'[d] = kind[d] /\ cpc'[d] = cpc[d] /\ ask'[d] = ask[d] /\ hand'[d] = hand[d]

LEMMA InHandMoves ==
    ASSUME Typed, Typed', NEW i, NEW c \in Callers, OnlyCaller(c)
    PROVE  InHand(i)' = InHand(i) - HandOf(c, i) + HandOf(c, i)'
<1> DEFINE f == [d \in Callers |-> HandOf(d, i)]
           g == [d \in Callers |-> HandOf(d, i)']
<1>1. InHand(i) = SumFunction(f) /\ f \in [Callers -> Nat]
  BY HandNat DEF InHand, HandOf
<1>2. InHand(i)' = SumFunction(g) /\ g \in [Callers -> Nat]
  <2>1. \A d \in Callers : HandOf(d, i)' \in Nat
    <3>1. TAKE d \in Callers
    <3>2. UnitsIn(hand'[d], i) \in Nat BY UnitsNat DEF Typed, TypeOK
    <3> QED BY <3>2 DEF HandOf, UnitsIn
  <2> QED BY <2>1 DEF InHand, HandOf
<1>3. \A d \in Callers : d # c => g[d] = f[d]
  BY DEF OnlyCaller, HandOf
<1>4. f[c] = HandOf(c, i) /\ g[c] = HandOf(c, i)' OBVIOUS
<1> HIDE DEF f, g
<1>5. Total(g, Callers) = Total(f, Callers) - f[c] + g[c]
  BY <1>1, <1>2, <1>3, CallersSum, TotalMove
<1> QED BY <1>1, <1>2, <1>4, <1>5, CallersSum

LEMMA InHandStays ==
    ASSUME NEW i, UNCHANGED <<kind, cpc, ask, hand>> PROVE InHand(i)' = InHand(i)
  BY DEF InHand
\* The units of i on a truck, as far as they wait, drive, or were misrouted
WaitLoad(i) == [t \in Truck |-> IF t.type = "TTdelivery" /\ ~ t.started THEN UnitsIn(t.items, i) ELSE 0]
DriveLoad(i) == [t \in Truck |-> IF t.type = "TTdelivery" THEN UnitsIn(t.items, i) ELSE 0]
LostLoad(i) ==
    [t \in Truck |-> IF t.type = "TTrestock" /\ t.call = "deliver" THEN UnitsIn(t.items, i) ELSE 0]

LEMMA LoadsTyped ==
    ASSUME NEW i
    PROVE  WaitLoad(i) \in [Truck -> Nat] /\ DriveLoad(i) \in [Truck -> Nat] /\ LostLoad(i) \in [Truck -> Nat]
<1>1. \A t \in Truck : UnitsIn(t.items, i) \in Nat
  <2>1. \A t \in Truck : t.items \in Seq(Items) BY DEF Truck
  <2> QED BY <2>1, UnitsNat
<1> QED BY <1>1 DEF WaitLoad, DriveLoad, LostLoad

LEMMA LoadsOfTruck ==
    ASSUME NEW i, NEW t \in Truck
    PROVE  /\ WaitLoad(i)[t] = IF t.type = "TTdelivery" /\ ~ t.started THEN UnitsIn(t.items, i) ELSE 0
           /\ DriveLoad(i)[t] = IF t.type = "TTdelivery" THEN UnitsIn(t.items, i) ELSE 0
           /\ LostLoad(i)[t] = IF t.type = "TTrestock" /\ t.call = "deliver" THEN UnitsIn(t.items, i) ELSE 0
           /\ UnitsIn(t.items, i) \in Nat
<1>1. t.items \in Seq(Items) BY DEF Truck
<1> QED BY <1>1, UnitsNat DEF WaitLoad, DriveLoad, LostLoad

LEMMA TrucksAreSums ==
    ASSUME NEW i, NEW s, s \in Seq(Truck)
    PROVE  /\ SumFunction([k \in DOMAIN s |->
                 IF s[k].type = "TTdelivery" /\ ~ s[k].started THEN UnitsIn(s[k].items, i) ELSE 0])
                = SumOf(WaitLoad(i), s)
           /\ SumFunction([k \in DOMAIN s |->
                 IF s[k].type = "TTdelivery" THEN UnitsIn(s[k].items, i) ELSE 0])
                = SumOf(DriveLoad(i), s)
           /\ SumFunction([k \in DOMAIN s |->
                 IF s[k].type = "TTrestock" /\ s[k].call = "deliver" THEN UnitsIn(s[k].items, i) ELSE 0])
                = SumOf(LostLoad(i), s)
           /\ SumOf(WaitLoad(i), s) \in Nat /\ SumOf(DriveLoad(i), s) \in Nat /\ SumOf(LostLoad(i), s) \in Nat
<1>1. \A k \in DOMAIN s : s[k] \in Truck BY LenProperties, ElementOfSeq
<1>2. [k \in DOMAIN s |-> IF s[k].type = "TTdelivery" /\ ~ s[k].started THEN UnitsIn(s[k].items, i) ELSE 0]
        = Weighed(WaitLoad(i), s)
  BY <1>1 DEF Weighed, WaitLoad
<1>3. [k \in DOMAIN s |-> IF s[k].type = "TTdelivery" THEN UnitsIn(s[k].items, i) ELSE 0]
        = Weighed(DriveLoad(i), s)
  BY <1>1 DEF Weighed, DriveLoad
<1>4. [k \in DOMAIN s |-> IF s[k].type = "TTrestock" /\ s[k].call = "deliver" THEN UnitsIn(s[k].items, i) ELSE 0]
        = Weighed(LostLoad(i), s)
  BY <1>1 DEF Weighed, LostLoad
<1>5. SumOf(WaitLoad(i), s) \in Nat /\ SumOf(DriveLoad(i), s) \in Nat /\ SumOf(LostLoad(i), s) \in Nat
  BY LoadsTyped, SumOfNat
<1> QED BY <1>2, <1>3, <1>4, <1>5 DEF SumOf

LEMMA OnTrucksNow ==
    ASSUME Typed, NEW i
    PROVE  /\ Waiting(i) = SumOf(WaitLoad(i), trucks) /\ Driving(i) = SumOf(DriveLoad(i), road)
           /\ Misrouted(i) = SumOf(LostLoad(i), trucks)
           /\ Waiting(i) \in Nat /\ Driving(i) \in Nat /\ Misrouted(i) \in Nat
<1>1. trucks \in Seq(Truck) /\ road \in Seq(Truck) BY DEF Typed, TypeOK
<1>2. Waiting(i) = SumOf(WaitLoad(i), trucks) /\ SumOf(WaitLoad(i), trucks) \in Nat
  BY <1>1, TrucksAreSums DEF Waiting, InTrucks
<1>3. Driving(i) = SumOf(DriveLoad(i), road) /\ SumOf(DriveLoad(i), road) \in Nat
  BY <1>1, TrucksAreSums DEF Driving, InTrucks
<1>4. Misrouted(i) = SumOf(LostLoad(i), trucks) /\ SumOf(LostLoad(i), trucks) \in Nat
  BY <1>1, TrucksAreSums DEF Misrouted, InTrucks
<1> QED BY <1>2, <1>3, <1>4

LEMMA OnTrucksThen ==
    ASSUME Typed', NEW i
    PROVE  /\ Waiting(i)' = SumOf(WaitLoad(i), trucks') /\ Driving(i)' = SumOf(DriveLoad(i), road')
           /\ Misrouted(i)' = SumOf(LostLoad(i), trucks')
           /\ Waiting(i)' \in Nat /\ Driving(i)' \in Nat /\ Misrouted(i)' \in Nat
<1>1. trucks' \in Seq(Truck) /\ road' \in Seq(Truck) BY DEF Typed, TypeOK
<1>2. Waiting(i)' = SumOf(WaitLoad(i), trucks') /\ SumOf(WaitLoad(i), trucks') \in Nat
  BY <1>1, TrucksAreSums DEF Waiting, InTrucks, UnitsIn
<1>3. Driving(i)' = SumOf(DriveLoad(i), road') /\ SumOf(DriveLoad(i), road') \in Nat
  BY <1>1, TrucksAreSums DEF Driving, InTrucks, UnitsIn
<1>4. Misrouted(i)' = SumOf(LostLoad(i), trucks') /\ SumOf(LostLoad(i), trucks') \in Nat
  BY <1>1, TrucksAreSums DEF Misrouted, InTrucks, UnitsIn
<1> QED BY <1>2, <1>3, <1>4

\* A truck that is pushed
LEMMA LoadsPushed ==
    ASSUME Typed, Typed', NEW i, NEW c \in Callers, PushStore(c)
    PROVE  /\ Waiting(i)' =< Waiting(i) + WaitLoad(i)[NewTruck(c)]
           /\ Driving(i)' = Driving(i)
           /\ creg[c] = Len(trucks) =>
                /\ Waiting(i)' = Waiting(i) + WaitLoad(i)[NewTruck(c)]
                /\ Misrouted(i)' = Misrouted(i) + LostLoad(i)[NewTruck(c)]
<1>1. /\ NewTruck(c) \in Truck /\ Kept(c) \in Seq(Truck) /\ trucks' = Append(Kept(c), NewTruck(c))
      /\ creg[c] = Len(trucks) => Kept(c) = trucks
      /\ \E m \in 0 .. Len(trucks) : Kept(c) = SubSeq(trucks, 1, m)
      /\ trucks \in Seq(Truck)
  BY PushedTruck DEF Typed, TypeOK
<1>2. road' = road BY DEF PushStore
<1>3. /\ Waiting(i) = SumOf(WaitLoad(i), trucks) /\ Driving(i) = SumOf(DriveLoad(i), road)
      /\ Misrouted(i) = SumOf(LostLoad(i), trucks)
  BY OnTrucksNow
<1>4. /\ Waiting(i)' = SumOf(WaitLoad(i), trucks') /\ Driving(i)' = SumOf(DriveLoad(i), road')
      /\ Misrouted(i)' = SumOf(LostLoad(i), trucks')
  BY OnTrucksThen
<1>5. /\ WaitLoad(i) \in [Truck -> Nat] /\ LostLoad(i) \in [Truck -> Nat] BY LoadsTyped
<1>5a. NewTruck(c) \in Truck /\ Kept(c) \in Seq(Truck) /\ trucks \in Seq(Truck) BY <1>1
<1>6. SumOf(WaitLoad(i), Append(Kept(c), NewTruck(c)))
        = SumOf(WaitLoad(i), Kept(c)) + WaitLoad(i)[NewTruck(c)]
  BY ONLY <1>5, <1>5a, SumOfAppend
<1>7. SumOf(LostLoad(i), Append(Kept(c), NewTruck(c)))
        = SumOf(LostLoad(i), Kept(c)) + LostLoad(i)[NewTruck(c)]
  BY ONLY <1>5, <1>5a, SumOfAppend
<1>8. SumOf(WaitLoad(i), Kept(c)) =< SumOf(WaitLoad(i), trucks)
  <2>1. PICK m \in 0 .. Len(trucks) : Kept(c) = SubSeq(trucks, 1, m) BY <1>1
  <2>2. SumOf(WaitLoad(i), SubSeq(trucks, 1, m)) =< SumOf(WaitLoad(i), trucks)
    BY ONLY <1>5, <1>5a, SumOfPrefix
  <2> QED BY <2>1, <2>2
<1>9. /\ SumOf(WaitLoad(i), Kept(c)) \in Nat /\ SumOf(WaitLoad(i), trucks) \in Nat
      /\ WaitLoad(i)[NewTruck(c)] \in Nat
  <2>1. SumOf(WaitLoad(i), Kept(c)) \in Nat /\ SumOf(WaitLoad(i), trucks) \in Nat
    BY ONLY <1>5, <1>5a, SumOfNat
  <2> QED BY <1>5, <1>5a, <2>1
<1>10. /\ Waiting(i)' = SumOf(WaitLoad(i), Kept(c)) + WaitLoad(i)[NewTruck(c)]
       /\ Misrouted(i)' = SumOf(LostLoad(i), Kept(c)) + LostLoad(i)[NewTruck(c)]
  BY <1>1, <1>4, <1>6, <1>7
<1>11. Driving(i)' = Driving(i) BY <1>2, <1>3, <1>4
<1>12. Waiting(i)' =< Waiting(i) + WaitLoad(i)[NewTruck(c)]
  BY <1>3, <1>8, <1>9, <1>10
<1>13. ASSUME creg[c] = Len(trucks)
       PROVE  /\ Waiting(i)' = Waiting(i) + WaitLoad(i)[NewTruck(c)]
              /\ Misrouted(i)' = Misrouted(i) + LostLoad(i)[NewTruck(c)]
  <2>1. Kept(c) = trucks BY <1>1, <1>13
  <2> QED BY <1>3, <1>10, <2>1
<1> QED BY <1>11, <1>12, <1>13

\* A truck that is started
LEMMA LoadsStarted ==
    ASSUME Typed, Typed', NEW i, NEW c \in Callers, StartTruck(c)
    PROVE  /\ Waiting(i)' + Driving(i)' = Waiting(i) + Driving(i)
           /\ Misrouted(i)' = Misrouted(i)
<1> DEFINE n == Len(trucks)
           t == Last(trucks)
           u == Started(t)
<1>1. /\ n \in 1 .. n /\ t \in Truck /\ t = trucks[n] /\ u \in Truck
      /\ u = [type |-> t.type, items |-> t.items, started |-> TRUE, call |-> t.call]
      /\ trucks' = [trucks EXCEPT ![n] = u]
      /\ road' = IF t.started THEN road ELSE Append(road, t)
      /\ trucks \in Seq(Truck) /\ road \in Seq(Truck)
  BY StartedTruck DEF Typed, TypeOK
<1>2. /\ Waiting(i) = SumOf(WaitLoad(i), trucks) /\ Driving(i) = SumOf(DriveLoad(i), road)
      /\ Misrouted(i) = SumOf(LostLoad(i), trucks)
      /\ Waiting(i) \in Nat /\ Driving(i) \in Nat /\ Misrouted(i) \in Nat
  BY OnTrucksNow
<1>3. /\ Waiting(i)' = SumOf(WaitLoad(i), trucks') /\ Driving(i)' = SumOf(DriveLoad(i), road')
      /\ Misrouted(i)' = SumOf(LostLoad(i), trucks')
  BY OnTrucksThen
<1>4. WaitLoad(i) \in [Truck -> Nat] /\ LostLoad(i) \in [Truck -> Nat] /\ DriveLoad(i) \in [Truck -> Nat]
  BY LoadsTyped
<1>4a. u.type = t.type /\ u.items = t.items /\ u.started = TRUE /\ u.call = t.call
  BY <1>1
<1> HIDE DEF u, t, n
<1>4b. n \in 1 .. Len(trucks) /\ t \in Truck /\ u \in Truck /\ trucks \in Seq(Truck)
  BY <1>1 DEF n
<1>4w. WaitLoad(i) \in [Truck -> Nat] BY <1>4
<1>4l. LostLoad(i) \in [Truck -> Nat] BY <1>4
<1>5. SumOf(WaitLoad(i), trucks') = SumOf(WaitLoad(i), trucks) - WaitLoad(i)[t] + WaitLoad(i)[u]
  <2>1. SumOf(WaitLoad(i), [trucks EXCEPT ![n] = u])
          = SumOf(WaitLoad(i), trucks) - WaitLoad(i)[trucks[n]] + WaitLoad(i)[u]
    BY ONLY <1>4w, <1>4b, SumOfReplace, SMTT(30)
  <2> QED BY <1>1, <2>1
<1>6. SumOf(LostLoad(i), trucks') = SumOf(LostLoad(i), trucks) - LostLoad(i)[t] + LostLoad(i)[u]
  <2>1. SumOf(LostLoad(i), [trucks EXCEPT ![n] = u])
          = SumOf(LostLoad(i), trucks) - LostLoad(i)[trucks[n]] + LostLoad(i)[u]
    BY ONLY <1>4l, <1>4b, SumOfReplace, SMTT(30)
  <2> QED BY <1>1, <2>1
<1>8. WaitLoad(i)[u] = 0 /\ LostLoad(i)[u] = LostLoad(i)[t] /\ LostLoad(i)[t] \in Nat /\ WaitLoad(i)[t] \in Nat
  BY <1>4a, <1>4b, LoadsOfTruck
<1>9. CASE t.started
  <2>1. WaitLoad(i)[t] = 0 BY <1>1, <1>9, LoadsOfTruck
  <2> QED BY <1>1, <1>2, <1>3, <1>5, <1>6, <1>8, <1>9, <2>1
<1>10. CASE ~ t.started
  <2>1. WaitLoad(i)[t] = DriveLoad(i)[t] BY <1>1, <1>10, LoadsOfTruck
  <2>2. SumOf(DriveLoad(i), Append(road, t)) = SumOf(DriveLoad(i), road) + DriveLoad(i)[t]
    BY <1>1, <1>4, SumOfAppend
  <2> QED BY <1>1, <1>2, <1>3, <1>5, <1>6, <1>8, <1>10, <2>1, <2>2
<1> QED BY <1>9, <1>10

\* A truck that a robot takes from, and one that is planned for
LEMMA LoadsTaken ==
    ASSUME Typed, Typed', NEW i, NEW r \in Robots, NEW k \in DOMAIN road, RobotTake(r, k)
    PROVE  Driving(i)' = Driving(i)
<1>1. /\ k \in 1 .. Len(road) /\ road[k] \in Truck /\ road[k].type = "TTrestock" /\ road \in Seq(Truck)
      /\ \/ road' = RemoveAt(road, k)
         \/ /\ [road[k] EXCEPT !.items = Front(road[k].items)] \in Truck
            /\ road' = [road EXCEPT ![k] = [road[k] EXCEPT !.items = Front(road[k].items)]]
  BY RobotTakes DEF Typed, TypeOK
<1>2. Driving(i) = SumOf(DriveLoad(i), road) /\ Driving(i) \in Nat BY OnTrucksNow
<1>3. Driving(i)' = SumOf(DriveLoad(i), road') BY OnTrucksThen
<1>4. DriveLoad(i) \in [Truck -> Nat] BY LoadsTyped
<1>5. DriveLoad(i)[road[k]] = 0 BY <1>1, LoadsOfTruck
<1>6. CASE road' = RemoveAt(road, k)
  <2>1. SumOf(DriveLoad(i), RemoveAt(road, k)) = SumOf(DriveLoad(i), road) - DriveLoad(i)[road[k]]
    BY <1>1, <1>4, SumOfRemoveAt
  <2> QED BY <1>2, <1>3, <1>5, <1>6, <2>1
<1>7. CASE /\ [road[k] EXCEPT !.items = Front(road[k].items)] \in Truck
           /\ road' = [road EXCEPT ![k] = [road[k] EXCEPT !.items = Front(road[k].items)]]
  <2> DEFINE u == [road[k] EXCEPT !.items = Front(road[k].items)]
  <2>1. u \in Truck /\ road' = [road EXCEPT ![k] = u] BY <1>7
  <2>2. u.type = "TTrestock" BY <1>1 DEF Truck
  <2> HIDE DEF u
  <2>3. DriveLoad(i)[u] = 0 BY <2>1, <2>2, LoadsOfTruck
  <2>4. SumOf(DriveLoad(i), [road EXCEPT ![k] = u])
          = SumOf(DriveLoad(i), road) - DriveLoad(i)[road[k]] + DriveLoad(i)[u]
    <3>1. u \in Truck /\ k \in 1 .. Len(road) /\ road \in Seq(Truck) BY <1>1, <2>1
    <3> QED BY ONLY <3>1, <1>4, SumOfReplace
  <2> QED BY <1>2, <1>3, <1>5, <2>1, <2>3, <2>4
<1> QED BY <1>1, <1>6, <1>7

\* What the handler has still to delete locations for
LEMMA DueInt ==
    ASSUME Typed, NEW i \in Items
    PROVE  Planning(i) \in Nat /\ dropped[i] \in Nat /\ Due(i) \in Int
<1>1. /\ buff \in Seq(Items) /\ load \in Seq(Items) /\ plan \in Seq(Items)
      /\ dropped[i] \in Nat
  BY DEF Typed, TypeOK
<1>2. UnitsIn(buff, i) \in Nat /\ UnitsIn(load, i) \in Nat /\ UnitsIn(plan, i) \in Nat
  BY <1>1, UnitsNat
<1> QED BY <1>1, <1>2 DEF Due, Planning

LEMMA DueThen ==
    ASSUME Typed', NEW i \in Items
    PROVE  /\ Due(i)' = (UnitsIn(buff', i) + UnitsIn(load', i)
                           + (IF load' # <<>> THEN 0 ELSE UnitsIn(plan', i))) - dropped'[i]
           /\ UnitsIn(buff', i) \in Nat /\ UnitsIn(load', i) \in Nat /\ UnitsIn(plan', i) \in Nat
           /\ dropped'[i] \in Nat /\ Due(i)' \in Int
<1>1. /\ buff' \in Seq(Items) /\ load' \in Seq(Items) /\ plan' \in Seq(Items)
      /\ dropped'[i] \in Nat
  BY DEF Typed, TypeOK
<1>2. UnitsIn(buff', i) \in Nat /\ UnitsIn(load', i) \in Nat /\ UnitsIn(plan', i) \in Nat
  BY <1>1, UnitsNat
<1>3. /\ UnitsIn(buff, i)' = UnitsIn(buff', i) /\ UnitsIn(load, i)' = UnitsIn(load', i)
      /\ UnitsIn(plan, i)' = UnitsIn(plan', i)
  BY DEF UnitsIn
<1>4. Due(i)' = (UnitsIn(buff, i)' + UnitsIn(load, i)'
                  + (IF load' # <<>> THEN 0 ELSE UnitsIn(plan, i)')) - dropped'[i]
  BY DEF Due, Planning, Dropping
<1>5. Due(i)' = (UnitsIn(buff', i) + UnitsIn(load', i)
                  + (IF load' # <<>> THEN 0 ELSE UnitsIn(plan', i))) - dropped'[i]
  BY <1>3, <1>4
<1> DEFINE p == IF load' # <<>> THEN 0 ELSE UnitsIn(plan', i)
<1>6. p \in Nat BY <1>2
<1> HIDE DEF p
<1>7. Due(i)' = (UnitsIn(buff', i) + UnitsIn(load', i) + p) - dropped'[i] BY <1>5 DEF p
<1>8. Due(i)' \in Int BY <1>1, <1>2, <1>6, <1>7
<1> QED BY <1>1, <1>2, <1>5, <1>8

LEMMA DueStays == ASSUME NEW i, UNCHANGED planVars PROVE Due(i)' = Due(i)
  BY DEF Due, Planning, Dropping, UnitsIn

LEMMA LoadsPlanned ==
    ASSUME Typed, Typed', NEW i \in Items, NEW k \in DOMAIN road, PlanTruck(k)
    PROVE  Driving(i)' + Due(i)' = Driving(i) + Due(i)
<1>1. /\ k \in 1 .. Len(road) /\ road[k] \in Truck /\ road[k].type = "TTdelivery" /\ road \in Seq(Truck)
      /\ road' = RemoveAt(road, k)
      /\ buff = <<>> /\ load = <<>> /\ plan = <<>> /\ buff' = road[k].items
  BY PlansTruck DEF Typed, TypeOK
<1>2. Driving(i) = SumOf(DriveLoad(i), road) /\ Driving(i) \in Nat BY OnTrucksNow
<1>3. Driving(i)' = SumOf(DriveLoad(i), road') BY OnTrucksThen
<1>4. DriveLoad(i) \in [Truck -> Nat] BY LoadsTyped
<1>5. DriveLoad(i)[road[k]] = UnitsIn(buff', i) /\ UnitsIn(buff', i) \in Nat BY <1>1, LoadsOfTruck
<1>6. SumOf(DriveLoad(i), RemoveAt(road, k)) = SumOf(DriveLoad(i), road) - DriveLoad(i)[road[k]]
  BY <1>1, <1>4, SumOfRemoveAt
<1>7. UNCHANGED <<load, plan, dropped>> BY DEF PlanTruck
<1>8. UnitsIn(<<>>, i) = 0 BY UnitsOfNone
<1>9. Due(i) = 0 - dropped[i]
  BY <1>1, <1>8 DEF Due, Planning, Dropping
<1>10. Due(i)' = UnitsIn(buff', i) - dropped[i]
  <2>1. Due(i)' = (UnitsIn(buff', i) + UnitsIn(load', i)
                    + (IF load' # <<>> THEN 0 ELSE UnitsIn(plan', i))) - dropped'[i]
    BY DueThen
  <2>2. load' = <<>> /\ plan' = <<>> /\ dropped' = dropped BY <1>1, <1>7
  <2>3. UnitsIn(load', i) = 0 /\ UnitsIn(plan', i) = 0 BY <1>8, <2>2
  <2>4. Due(i)' = (UnitsIn(buff', i) + 0 + 0) - dropped[i] BY <2>1, <2>2, <2>3
  <2> QED BY <1>5, <2>4
<1>11. dropped[i] \in Nat BY DEF Typed, TypeOK
<1> QED BY <1>1, <1>2, <1>3, <1>5, <1>6, <1>9, <1>10, <1>11

-----------------------------------------------------------------------------
(* Locations.                                                              *)

LEMMA PlacingFinite == ASSUME NEW i PROVE IsFiniteSet(Placing(i)) /\ Cardinality(Placing(i)) \in Nat
<1>1. IsFiniteSet(Robots) /\ Placing(i) \in SUBSET Robots
  BY StockAssumption DEF Placing, RobotAt
<1>2. IsFiniteSet(Placing(i)) BY <1>1, FS_Subset
<1> QED BY <1>2, FS_CardinalityType

LEMMA PartsNow ==
    ASSUME Typed, NEW i \in Items
    PROVE  /\ located[i] \in Nat /\ quantity[i] \in Int /\ Cardinality(Placing(i)) \in Nat
           /\ InHand(i) \in Nat /\ Waiting(i) \in Nat /\ Driving(i) \in Nat
           /\ Due(i) \in Int /\ Misrouted(i) \in Nat
<1>1. located[i] \in Nat /\ quantity[i] \in Int BY DEF Typed, TypeOK
<1> QED BY <1>1, DueInt, PlacingFinite, InHandNat, OnTrucksNow

\* A step after which the units of i are where they were, or one of its places
\* has given to another what it had.
LEMMA BalanceKept ==
    ASSUME Typed, raced \subseteq raced', NEW i \in Items, Balanced(i), NEW d \in Int, NEW e \in Int,
           Left(i)' = Left(i) + d, d >= 0,
           "trucks" \notin raced' => Misrouted(i)' = Misrouted(i) + e /\ d = e
    PROVE  Balanced(i)'
<1>1. Left(i) \in Int /\ Misrouted(i) \in Nat
  BY PartsNow DEF Left, Promised
<1>2. Left(i)' >= 0 BY <1>1 DEF Balanced
<1>3. "trucks" \notin raced' => Left(i)' = Misrouted(i)'
  BY <1>1 DEF Balanced
<1> QED BY <1>2, <1>3 DEF Balanced

\* A caller takes units of i off the shelf, and that is all.
LEMMA CallerBalances ==
    ASSUME Typed, Typed', raced \subseteq raced', NEW i \in Items, Balanced(i),
           NEW c \in Callers, OnlyCaller(c), UNCHANGED <<located, rpc, carried, planVars, truckVars>>,
           NEW d \in Int, HandOf(c, i)' = HandOf(c, i) + d, quantity'[i] = quantity[i] - d
    PROVE  Balanced(i)'
<1>1. InHand(i)' = InHand(i) + d
  <2>1. InHand(i)' = InHand(i) - HandOf(c, i) + HandOf(c, i)' BY InHandMoves
  <2>2. InHand(i) \in Nat /\ HandOf(c, i) \in Nat BY InHandNat, HandNat
  <2> QED BY <2>1, <2>2
<1>2. Placing(i)' = Placing(i) BY DEF Placing, RobotAt
<1>3. Waiting(i)' = Waiting(i) /\ Driving(i)' = Driving(i) /\ Misrouted(i)' = Misrouted(i)
  BY OnTrucksNow, OnTrucksThen
<1>4. Due(i)' = Due(i) BY DueStays
<1>5. Left(i)' = Left(i) + 0 /\ Misrouted(i)' = Misrouted(i) + 0
  BY <1>1, <1>2, <1>3, <1>4, PartsNow DEF Left, Promised
<1> QED BY <1>5, BalanceKept

\* A step of a caller leaves the other one alone.
LEMMA OneCaller ==
    ASSUME Typed, NEW c \in Callers, CallStep(c) \/ WorkStep(c) \/ SendStep(c) PROVE OnlyCaller(c)
<1> USE DEF OnlyCaller, Typed, TypeOK
<1>1. CASE CallStep(c) BY <1>1 DEF CallStep, CallDelivery, CallRestock
<1>2. CASE WorkStep(c)
  BY <1>2 DEF WorkStep, TestInStock, TestOutOfStock, TakeLoad, TakeStore, CountLoad, CountStore, LoadItem
<1>3. CASE SendStep(c)
  BY <1>3 DEF SendStep, SendFull, SendRest, PushLoad, PushStore, StartTruck
<1> QED BY <1>1, <1>2, <1>3

LEMMA CallBalances ==
    ASSUME Typed, NEW i \in Items, Balanced(i), NEW c \in Callers, CallStep(c)
    PROVE  Balanced(i)'
<1>0. Typed' BY CallTyped
<1>1. OnlyCaller(c) BY OneCaller
<1> USE DEF CallStep, CallDelivery, CallRestock
<1>2. UNCHANGED <<shelfVars, truckVars, robotVars, planVars, raced>> OBVIOUS
<1>3. HandOf(c, i) = 0
  <2>1. hand[c] = <<>> /\ cpc[c] \notin Taken
    BY DEF Typed, CallersTyped, CallerTyped, Taken
  <2> QED BY <2>1, UnitsOfNone DEF HandOf
<1>4. HandOf(c, i)' = 0
  <2>1. CASE \E items \in Orders : CallDelivery(c, items)
    <3>1. hand'[c] = <<>> /\ cpc'[c] = "test"
      BY <2>1 DEF Typed, TypeOK, CallersTyped, CallerTyped
    <3>2. UnitsIn(hand'[c], i) = 0 BY <3>1, UnitsOfNone
    <3> QED BY <3>1, <3>2 DEF HandOf, Taken, UnitsIn
  <2>2. CASE \E items \in Restocks : CallRestock(c, items)
    <3>1. kind'[c] = "restock" BY <2>2 DEF Typed, TypeOK
    <3> QED BY <3>1 DEF HandOf
  <2> QED BY <2>1, <2>2
<1>5. quantity'[i] = quantity[i] - 0 BY <1>2, PartsNow
<1>6. HandOf(c, i)' = HandOf(c, i) + 0 BY <1>3, <1>4
<1>7. raced \subseteq raced' /\ UNCHANGED <<located, rpc, carried, planVars, truckVars>> BY <1>2
<1> QED BY ONLY <1>0, <1>1, <1>5, <1>6, <1>7, Typed, Balanced(i), i \in Items, c \in Callers, CallerBalances

LEMMA WorkBalances ==
    ASSUME Typed, Agree, NEW i \in Items \ raced', Balanced(i), NEW c \in Callers, WorkStep(c)
    PROVE  Balanced(i)'
<1>0. Typed' BY WorkTyped
<1>1. OnlyCaller(c) BY OneCaller
<1> USE DEF WorkStep, TestInStock, TestOutOfStock, TakeLoad, TakeStore, CountLoad, CountStore, LoadItem
<1>2. UNCHANGED <<located, truckVars, robotVars, planVars>> OBVIOUS
<1>3. raced \subseteq raced' BY MeetOnly DEF OnQuantity, OnCurrent
<1>4. kind[c] = "deliver" /\ kind'[c] = "deliver"
  BY DEF Typed, TypeOK, CallersTyped, CallerTyped, Sending
<1>5. ask[c] \in Seq(Items) /\ hand[c] \in Seq(Items) /\ UnitsIn(hand[c], i) \in Nat
  BY UnitsNat DEF Typed, TypeOK
<1>6. CASE TestInStock(c) \/ TestOutOfStock(c) \/ TakeLoad(c) \/ CountLoad(c) \/ CountStore(c)
  <2>1. /\ hand' = hand /\ quantity' = quantity
        /\ cpc[c] # "start" /\ cpc'[c] # "start"
        /\ cpc'[c] \in Taken => cpc[c] \in Taken /\ ask' = ask
        /\ cpc[c] \in Taken => cpc'[c] \in Taken
    BY <1>6 DEF Taken, Typed, TypeOK
  <2>2. HandOf(c, i)' = HandOf(c, i) BY <1>4, <2>1 DEF HandOf, UnitsIn
  <2>3. HandOf(c, i)' = HandOf(c, i) + 0 /\ quantity'[i] = quantity[i] - 0
    BY <2>1, <2>2, HandNat, PartsNow
  <2> QED BY <1>0, <1>1, <1>2, <1>3, <2>3, CallerBalances
<1>7. CASE TakeStore(c)
  <2>1. /\ cpc[c] = "store" /\ cpc'[c] = "countload" /\ ask' = ask /\ hand' = hand /\ ask[c] # <<>>
        /\ quantity' = [quantity EXCEPT ![Head(ask[c])] = creg[c] - 1]
    BY <1>7 DEF Typed, TypeOK, CallersTyped, CallerTyped
  <2>2. Head(ask[c]) \in Items BY <1>5, <2>1, HeadTail
  <2>3. Head(ask[c]) = i => creg[c] = quantity[i]
    BY <1>3, <2>1 DEF Agree, ItemsAgree, QuantityAgrees, CallerAt
  <2>4. quantity'[i] = quantity[i] - One(Head(ask[c]), i)
    <3>1. quantity \in [Items -> Int] BY DEF Typed, TypeOK
    <3>2. CASE Head(ask[c]) = i BY <2>1, <2>2, <2>3, <3>1, <3>2 DEF One
    <3>3. CASE Head(ask[c]) # i
      <4>1. quantity'[i] = quantity[i] /\ quantity[i] \in Int BY <2>1, <2>2, <3>1, <3>3
      <4> QED BY <3>3, <4>1 DEF One
    <3> QED BY <3>2, <3>3
  <2>5. HandOf(c, i) = UnitsIn(hand[c], i) BY <1>4, <1>5, <2>1 DEF HandOf, Taken
  <2>6. HandOf(c, i)' = UnitsIn(hand[c], i) + One(Head(ask[c]), i)
    BY <1>4, <2>1 DEF HandOf, Taken, UnitsIn, One
  <2>7. One(Head(ask[c]), i) \in Int BY DEF One
  <2> QED BY <1>0, <1>1, <1>2, <1>3, <2>4, <2>5, <2>6, <2>7, CallerBalances
<1>8. CASE LoadItem(c)
  <2>1. /\ cpc[c] = "weigh" /\ cpc'[c] = "test" /\ quantity' = quantity /\ ask[c] # <<>>
        /\ hand'[c] = Append(hand[c], Head(ask[c]))
    BY <1>8 DEF Typed, TypeOK, CallersTyped, CallerTyped
  <2>2. UnitsIn(Append(hand[c], Head(ask[c])), i) = UnitsIn(hand[c], i) + One(Head(ask[c]), i)
    BY <1>5, <2>1, HeadTail, UnitsAppend
  <2>3. HandOf(c, i) = UnitsIn(hand[c], i) + One(Head(ask[c]), i)
    BY <1>4, <2>1 DEF HandOf, Taken, One
  <2>4. UnitsIn(hand'[c], i) = UnitsIn(hand[c], i) + One(Head(ask[c]), i) BY <2>1, <2>2
  <2>5. One(Head(ask[c]), i) \in Int BY DEF One
  <2>6. HandOf(c, i)' = UnitsIn(hand[c], i) + One(Head(ask[c]), i)
    <3>1. cpc'[c] # "start" /\ cpc'[c] \notin Taken /\ kind'[c] # "restock" BY <1>4, <2>1 DEF Taken
    <3>2. HandOf(c, i)' = UnitsIn(hand'[c], i) + 0 BY <3>1, HandThen
    <3> QED BY <1>5, <2>4, <2>5, <3>2
  <2>7. HandOf(c, i)' = HandOf(c, i) + 0 /\ quantity'[i] = quantity[i] - 0
    BY <2>1, <2>3, <2>6, HandNat, PartsNow
  <2> QED BY <1>0, <1>1, <1>2, <1>3, <2>7, CallerBalances
<1> QED BY <1>6, <1>7, <1>8

LEMMA SendBalances ==
    ASSUME Typed, Agree, NEW i \in Items \ raced', Balanced(i), NEW c \in Callers, SendStep(c)
    PROVE  Balanced(i)'
<1>0. Typed' BY SendTyped
<1>1. OnlyCaller(c) BY OneCaller
<1>2. UNCHANGED <<shelfVars, robotVars, planVars>>
  BY DEF SendStep, SendFull, SendRest, PushLoad, PushStore, StartTruck
<1>3. raced \subseteq raced'
  BY MeetOnly DEF SendStep, SendFull, SendRest, PushLoad, PushStore, StartTruck, OnTrucks
<1>4. kind' = kind /\ kind[c] \in {"deliver", "restock"}
  BY DEF Typed, TypeOK, SendStep, SendFull, SendRest, PushLoad, PushStore, StartTruck
<1>5. ask[c] \in Seq(Items) /\ hand[c] \in Seq(Items) /\ UnitsIn(hand[c], i) \in Nat
  BY UnitsNat DEF Typed, TypeOK
<1>6. CASE SendFull(c) \/ SendRest(c) \/ PushLoad(c)
  <2>1. UNCHANGED <<truckVars, ask, hand, quantity>> /\ cpc[c] # "start" /\ cpc'[c] # "start"
    BY <1>6 DEF SendFull, SendRest, PushLoad, Typed, TypeOK
  <2>2. ask[c] # <<>> => (cpc[c] \in Taken <=> cpc'[c] \in Taken)
    BY <1>6 DEF SendFull, SendRest, PushLoad, Taken, Typed, TypeOK
  <2>3. HandOf(c, i)' = HandOf(c, i) BY <1>4, <2>1, <2>2 DEF HandOf, UnitsIn
  <2>4. HandOf(c, i)' = HandOf(c, i) + 0 /\ quantity'[i] = quantity[i] - 0
    BY <2>1, <2>3, HandNat, PartsNow
  <2>5. UNCHANGED <<located, rpc, carried, planVars, truckVars>> BY <1>2, <2>1
  <2> QED BY <1>0, <1>1, <1>3, <2>4, <2>5, CallerBalances
<1>7. Placing(i)' = Placing(i) /\ Due(i)' = Due(i)
  BY <1>2, DueStays DEF Placing, RobotAt
<1>8. InHand(i)' = InHand(i) - HandOf(c, i) + HandOf(c, i)' BY <1>0, <1>1, InHandMoves
<1>9. HandOf(c, i) \in Nat BY HandNat
<1>10. Misrouted(i)' \in Nat /\ Waiting(i)' \in Nat /\ Driving(i)' \in Nat BY <1>0, OnTrucksThen
<1>11. CASE PushStore(c)
  <2>1. /\ cpc[c] = "pushed" /\ cpc'[c] = "start" /\ ask' = ask
        /\ kind[c] = "restock" => ask[c] = <<>>
    BY <1>11 DEF PushStore, Typed, TypeOK, CallersTyped, CallerTyped
  <2> DEFINE u == IF kind[c] = "restock" THEN 0 ELSE UnitsIn(hand[c], i)
             w == WaitLoad(i)[NewTruck(c)]
             l == LostLoad(i)[NewTruck(c)]
  <2>2. HandOf(c, i) = u + HandOf(c, i)' /\ u \in Nat
    BY <1>4, <1>5, <2>1 DEF HandOf, Taken
  <2>3. w \in Nat /\ l \in Nat /\ w + l = u
    <3>1. NewTruck(c) \in Truck BY <1>11, PushedTruck
    <3>2. /\ NewTruck(c).type = TruckType(c) /\ NewTruck(c).items = hand[c]
          /\ NewTruck(c).started = FALSE /\ NewTruck(c).call = kind[c]
      BY DEF NewTruck
    <3>3. w = IF TruckType(c) = "TTdelivery" THEN UnitsIn(hand[c], i) ELSE 0
      BY <3>1, <3>2, LoadsOfTruck
    <3>4. l = IF TruckType(c) = "TTrestock" /\ kind[c] = "deliver" THEN UnitsIn(hand[c], i) ELSE 0
      BY <3>1, <3>2, LoadsOfTruck
    <3> QED BY <1>4, <1>5, <3>3, <3>4 DEF TruckType
  <2>4. /\ Waiting(i)' =< Waiting(i) + w /\ Driving(i)' = Driving(i)
        /\ creg[c] = Len(trucks) => Waiting(i)' = Waiting(i) + w /\ Misrouted(i)' = Misrouted(i) + l
    BY <1>0, <1>11, LoadsPushed
  <2>5. "trucks" \notin raced' => creg[c] = Len(trucks)
    BY <1>3, <2>1 DEF Agree, TrucksAgree
  <2> DEFINE d == Waiting(i) + u - Waiting(i)'
  <2> HIDE DEF u, w, l
  <2>6. HandOf(c, i)' \in Nat
    <3>1. UnitsIn(hand'[c], i) \in Nat BY <1>0, UnitsNat DEF Typed, TypeOK
    <3> QED BY <3>1 DEF HandOf, UnitsIn
  <2>7. Left(i)' = Left(i) + d /\ d \in Int /\ d >= 0
    <3>1. d \in Int /\ d >= 0 BY <1>10, <2>2, <2>3, <2>4, PartsNow, SMTT(30)
    <3>2. InHand(i)' = InHand(i) - u BY <1>8, <1>9, <2>2, <2>6, PartsNow
    <3>3. UNCHANGED <<located, quantity>> BY <1>2
    <3>4. Waiting(i)' = Waiting(i) + u - d BY <1>10, <2>2, PartsNow
    <3> HIDE DEF d
    <3>5. Left(i)' = located[i] + Cardinality(Placing(i)) - quantity[i]
                      - ((InHand(i) - u) + (Waiting(i) + u - d) + Driving(i) + Due(i))
      BY <1>7, <2>4, <3>2, <3>3, <3>4 DEF Left, Promised
    <3>6. Left(i)' = Left(i) + d BY <2>2, <3>1, <3>5, PartsNow DEF Left, Promised
    <3> QED BY <3>1, <3>6
  <2>8. "trucks" \notin raced' => Misrouted(i)' = Misrouted(i) + l /\ d = l
    <3>1. ASSUME "trucks" \notin raced' PROVE Waiting(i)' = Waiting(i) + w /\ Misrouted(i)' = Misrouted(i) + l
      BY <2>4, <2>5, <3>1
    <3>2. Waiting(i)' = Waiting(i) + w => d = l
      BY <2>2, <2>3, PartsNow
    <3> QED BY <3>1, <3>2
  <2>9. l \in Int BY <2>3
  <2> HIDE DEF d
  <2> QED BY <1>3, <2>7, <2>8, <2>9, BalanceKept
<1>12. CASE StartTruck(c)
  <2>1. /\ cpc[c] = "start"
        /\ kind[c] = "restock" => ask[c] = <<>>
        /\ IF ask[c] # <<>> THEN cpc'[c] = "test" /\ hand'[c] = <<Head(ask[c])>>
                            ELSE cpc'[c] = "idle" /\ hand'[c] = <<>>
    BY <1>12 DEF StartTruck, Typed, TypeOK, CallersTyped, CallerTyped
  <2>2. HandOf(c, i)' = HandOf(c, i)
    <3>1. CASE ask[c] # <<>>
      <4>1. UnitsIn(hand'[c], i) = One(Head(ask[c]), i) BY <1>5, <2>1, <3>1, HeadTail, UnitsOfOne
      <4>2. HandOf(c, i)' = One(Head(ask[c]), i)
        BY <1>4, <2>1, <3>1, <4>1, HandThen DEF Taken, One
      <4>3. HandOf(c, i) = One(Head(ask[c]), i) BY <1>4, <2>1, <3>1 DEF HandOf, Taken, One
      <4> QED BY <4>2, <4>3
    <3>2. CASE ask[c] = <<>>
      <4>1. UnitsIn(hand'[c], i) = 0 BY <2>1, <3>2, UnitsOfNone
      <4>2. HandOf(c, i)' = 0 BY <1>4, <2>1, <3>2, <4>1, HandThen DEF Taken
      <4>3. HandOf(c, i) = 0 BY <1>4, <2>1, <3>2 DEF HandOf
      <4> QED BY <4>2, <4>3
    <3> QED BY <3>1, <3>2
  <2>3. InHand(i)' = InHand(i) BY <1>8, <1>9, <2>2, PartsNow
  <2>4. Waiting(i)' + Driving(i)' = Waiting(i) + Driving(i) /\ Misrouted(i)' = Misrouted(i)
    BY <1>0, <1>12, LoadsStarted
  <2>5. UNCHANGED <<located, quantity>> BY <1>2
  <2>6. Left(i)' = Left(i) + 0 /\ Misrouted(i)' = Misrouted(i) + 0
    BY <1>7, <1>10, <2>3, <2>4, <2>5, PartsNow DEF Left, Promised
  <2> QED BY <1>3, <2>6, BalanceKept
<1> QED BY <1>6, <1>11, <1>12 DEF SendStep

\* The places of i, when callers and trucks are as they were
LEMMA ShelfBalances ==
    ASSUME Typed, Typed', raced \subseteq raced', NEW i \in Items, Balanced(i), UNCHANGED <<callVars, trucks>>,
           Driving(i)' + Due(i)' - Cardinality(Placing(i))' - located'[i] + quantity'[i]
             = Driving(i) + Due(i) - Cardinality(Placing(i)) - located[i] + quantity[i]
    PROVE  Balanced(i)'
<1>1. InHand(i)' = InHand(i) BY InHandStays
<1>2. Waiting(i)' = Waiting(i) /\ Misrouted(i)' = Misrouted(i) BY OnTrucksNow, OnTrucksThen
<1>3. /\ located'[i] \in Nat /\ quantity'[i] \in Int /\ Due(i)' \in Int
      /\ Driving(i)' \in Nat
  BY OnTrucksThen, DueThen DEF Typed, TypeOK
<1>4. Cardinality(Placing(i))' \in Nat
  <2>1. IsFiniteSet(Robots) /\ Placing(i)' \in SUBSET Robots
    BY StockAssumption DEF Placing, RobotAt
  <2>2. IsFiniteSet(Placing(i)') BY <2>1, FS_Subset
  <2> QED BY <2>2, FS_CardinalityType
<1>6. Left(i)' = Left(i) + 0
  <2>1. Left(i)' = located'[i] + Cardinality(Placing(i))' - quantity'[i]
                    - (InHand(i) + Waiting(i) + Driving(i)' + Due(i)')
    BY <1>1, <1>2 DEF Left, Promised
  <2>2. Left(i) = located[i] + Cardinality(Placing(i)) - quantity[i]
                    - (InHand(i) + Waiting(i) + Driving(i) + Due(i))
    BY DEF Left, Promised
  <2> DEFINE L == Left(i)  M == Left(i)'  C == Cardinality(Placing(i))'
             x == located'[i]  y == quantity'[i]  z == Driving(i)'  p == Due(i)'
             B == Cardinality(Placing(i))
             u == located[i]  v == quantity[i]  w == Driving(i)  q == Due(i)
             h == InHand(i)  k == Waiting(i)
  <2>3. /\ M = x + C - y - (h + k + z + p) /\ L = u + B - v - (h + k + w + q)
        /\ z + p - C - x + y = w + q - B - u + v
    BY <2>1, <2>2
  <2>4. /\ C \in Nat /\ x \in Nat /\ y \in Int /\ z \in Nat /\ p \in Int
        /\ B \in Nat /\ u \in Nat /\ v \in Int /\ w \in Nat /\ q \in Int
        /\ h \in Nat /\ k \in Nat
    BY <1>3, <1>4, PartsNow
  <2> HIDE DEF L, M, C, x, y, z, p, B, u, v, w, q, h, k
  <2>5. M = L + 0 BY ONLY <2>3, <2>4
  <2> QED BY <2>5 DEF L, M
<1>7. Misrouted(i)' = Misrouted(i) + 0 BY <1>2, PartsNow
<1> QED BY <1>6, <1>7, BalanceKept

\* A set that one element may have entered or left
LEMMA CountMoves ==
    ASSUME NEW P, NEW Q, NEW r, IsFiniteSet(P), \A q : q # r => (q \in Q <=> q \in P)
    PROVE  /\ Cardinality(P) \in Nat
           /\ (r \in P <=> r \in Q) => Cardinality(Q) = Cardinality(P)
           /\ r \notin P /\ r \in Q => Cardinality(Q) = Cardinality(P) + 1
           /\ r \in P /\ r \notin Q => Cardinality(Q) = Cardinality(P) - 1
<1>1. Cardinality(P) \in Nat BY FS_CardinalityType
<1>2. (r \in P <=> r \in Q) => Cardinality(Q) = Cardinality(P)
  <2>1. (r \in P <=> r \in Q) => P = Q OBVIOUS
  <2> QED BY <2>1
<1>3. r \notin P /\ r \in Q => Cardinality(Q) = Cardinality(P) + 1
  <2>1. r \notin P /\ r \in Q => Q = P \cup {r} OBVIOUS
  <2>2. r \notin P => Cardinality(P \cup {r}) = Cardinality(P) + 1 BY FS_AddElement
  <2> QED BY <2>1, <2>2
<1>4. r \in P /\ r \notin Q => Cardinality(Q) = Cardinality(P) - 1
  <2>1. r \in P /\ r \notin Q => Q = P \ {r} OBVIOUS
  <2>2. r \in P => Cardinality(P \ {r}) = Cardinality(P) - 1 BY FS_RemoveElement
  <2> QED BY <2>1, <2>2
<1> QED BY <1>1, <1>2, <1>3, <1>4

\* Who places a unit of i, after a step of one robot
LEMMA PlacingMoves ==
    ASSUME Typed, NEW i, NEW r \in Robots,
           \A q \in Robots : q # r => rpc'[q] = rpc[q] /\ carried'[q] = carried[q]
    PROVE  /\ (r \in Placing(i) <=> r \in Placing(i)')
                => Cardinality(Placing(i))' = Cardinality(Placing(i))
           /\ r \notin Placing(i) /\ r \in Placing(i)'
                => Cardinality(Placing(i))' = Cardinality(Placing(i)) + 1
           /\ r \in Placing(i) /\ r \notin Placing(i)'
                => Cardinality(Placing(i))' = Cardinality(Placing(i)) - 1
<1> DEFINE P == Placing(i)
           Q == Placing(i)'
<1>1. \A q : q # r => (q \in Q <=> q \in P) BY DEF Placing, RobotAt
<1>2. IsFiniteSet(P) BY PlacingFinite
<1>3. Cardinality(Placing(i))' = Cardinality(Q) BY DEF Placing, RobotAt
<1> HIDE DEF P, Q
<1>4. /\ (r \in P <=> r \in Q) => Cardinality(Q) = Cardinality(P)
      /\ r \notin P /\ r \in Q => Cardinality(Q) = Cardinality(P) + 1
      /\ r \in P /\ r \notin Q => Cardinality(Q) = Cardinality(P) - 1
  BY ONLY <1>1, <1>2, CountMoves
<1> QED BY <1>3, <1>4 DEF P, Q

LEMMA RobotBalances ==
    ASSUME Typed, Agree, NEW i \in Items \ raced', Balanced(i), NEW r \in Robots, RobotStep(r)
    PROVE  Balanced(i)'
<1>0. Typed' BY RobotTyped
<1>1. UNCHANGED <<callVars, trucks, planVars>>
  BY DEF RobotStep, RobotTake, RobotLoad, RobotStore, RobotPlaceLoad, RobotPlaceStore,
         RobotCountLoad, RobotCountStore
<1>2. raced \subseteq raced'
  BY MeetOnly DEF RobotStep, RobotTake, RobotLoad, RobotStore, RobotPlaceLoad, RobotPlaceStore,
                  RobotCountLoad, RobotCountStore, OnQuantity, OnLocations, OnCurrent
<1>3. \A q \in Robots : q # r => rpc'[q] = rpc[q] /\ carried'[q] = carried[q]
  BY DEF RobotStep, RobotTake, RobotLoad, RobotStore, RobotPlaceLoad, RobotPlaceStore,
         RobotCountLoad, RobotCountStore, Typed, TypeOK
<1>4. quantity \in [Items -> Int] /\ located \in [Items -> Nat] /\ carried[r] \in Items
  BY DEF Typed, TypeOK
<1>5. Driving(i)' = Driving(i)
  <2>1. CASE \E k \in DOMAIN road : RobotTake(r, k)
    <3>1. PICK k \in DOMAIN road : RobotTake(r, k) BY <2>1
    <3> QED BY <1>0, <3>1, LoadsTaken
  <2>2. CASE ~ \E k \in DOMAIN road : RobotTake(r, k)
    <3>1. road' = road
      BY <2>2 DEF RobotStep, RobotLoad, RobotStore, RobotPlaceLoad, RobotPlaceStore,
                  RobotCountLoad, RobotCountStore
    <3>2. Driving(i) = SumOf(DriveLoad(i), road) BY OnTrucksNow
    <3>3. Driving(i)' = SumOf(DriveLoad(i), road') BY <1>0, OnTrucksThen
    <3> QED BY <3>1, <3>2, <3>3
  <2> QED BY <2>1, <2>2
<1> DEFINE n == Cardinality(Placing(i))
<1>6. located'[i] + n' - quantity'[i] = located[i] + n - quantity[i]
  <2>1. CASE \/ \E k \in DOMAIN road : RobotTake(r, k)
             \/ RobotLoad(r) \/ RobotPlaceLoad(r) \/ RobotCountLoad(r) \/ RobotCountStore(r)
    <3>1. UNCHANGED <<quantity, located>> /\ (r \in Placing(i) <=> r \in Placing(i)')
      BY <2>1 DEF RobotTake, RobotLoad, RobotPlaceLoad, RobotCountLoad, RobotCountStore, Placing, RobotAt, Typed, TypeOK
    <3>2. n' = n BY <1>3, <3>1, PlacingMoves
    <3> QED BY <3>1, <3>2
  <2>2. CASE RobotStore(r)
    <3>1. /\ rpc[r] = "store" /\ rpc'[r] = "placeload" /\ carried' = carried /\ located' = located
          /\ quantity' = [quantity EXCEPT ![carried[r]] = rreg[r] + 1]
      BY <2>2 DEF RobotStore, Typed, TypeOK
    <3>2. r \notin Placing(i) /\ (r \in Placing(i)' <=> carried[r] = i)
      BY <3>1 DEF Placing, RobotAt
    <3>3. CASE carried[r] = i
      <4>1. rreg[r] = quantity[i] BY <1>2, <3>1, <3>3 DEF Agree, ItemsAgree, QuantityAgrees, RobotAt
      <4>2. n' = n + 1 BY <1>3, <3>2, <3>3, PlacingMoves
      <4>3. quantity'[i] = quantity[i] + 1 BY <1>4, <3>1, <3>3, <4>1
      <4> HIDE DEF n
      <4>4. n \in Nat BY PlacingFinite DEF n
      <4> QED BY <1>4, <3>1, <4>2, <4>3, <4>4
    <3>4. CASE carried[r] # i
      <4>1. quantity'[i] = quantity[i] BY <1>4, <3>1, <3>4
      <4>2. n' = n BY <1>3, <3>2, <3>4, PlacingMoves
      <4> QED BY <3>1, <4>1, <4>2
    <3> QED BY <3>3, <3>4
  <2>3. CASE RobotPlaceStore(r)
    <3>1. /\ rpc[r] = "placestore" /\ rpc'[r] = "countload" /\ carried' = carried /\ quantity' = quantity
          /\ located' = [located EXCEPT ![carried[r]] = rreg[r] + 1]
      BY <2>3 DEF RobotPlaceStore, Typed, TypeOK
    <3>2. r \notin Placing(i)' /\ (r \in Placing(i) <=> carried[r] = i)
      BY <3>1 DEF Placing, RobotAt
    <3>3. CASE carried[r] = i
      <4>1. rreg[r] = located[i] BY <1>2, <3>1, <3>3 DEF Agree, ItemsAgree, LocationsAgree, RobotAt
      <4>2. n' = n - 1 BY <1>3, <3>2, <3>3, PlacingMoves
      <4>3. located'[i] = located[i] + 1 BY <1>4, <3>1, <3>3, <4>1
      <4> HIDE DEF n
      <4>4. n \in Nat BY PlacingFinite DEF n
      <4> QED BY <1>4, <3>1, <4>2, <4>3, <4>4
    <3>4. CASE carried[r] # i
      <4>1. located'[i] = located[i] BY <1>4, <3>1, <3>4
      <4>2. n' = n BY <1>3, <3>2, <3>4, PlacingMoves
      <4> QED BY <3>1, <4>1, <4>2
    <3> QED BY <3>3, <3>4
  <2> QED BY <2>1, <2>2, <2>3 DEF RobotStep
<1>7. Due(i)' = Due(i) /\ UNCHANGED <<callVars, trucks>> BY <1>1, DueStays
<1>8. located'[i] \in Nat /\ quantity'[i] \in Int /\ n' \in Nat
  <2>1. located'[i] \in Nat /\ quantity'[i] \in Int BY <1>0 DEF Typed, TypeOK
  <2>2. n \in Nat BY PlacingFinite
  <2>3. n' \in {n, n + 1, n - 1} BY <1>3, PlacingMoves
  <2>4. n' \in Int BY <2>2, <2>3
  <2>5. n' \in Nat
    <3>1. IsFiniteSet(Robots) /\ Placing(i)' \in SUBSET Robots
      BY StockAssumption DEF Placing, RobotAt
    <3>2. IsFiniteSet(Placing(i)') BY <3>1, FS_Subset
    <3> QED BY <3>2, FS_CardinalityType
  <2> QED BY <2>1, <2>5
<1>9. Driving(i)' + Due(i)' - n' - located'[i] + quantity'[i]
        = Driving(i) + Due(i) - n - located[i] + quantity[i]
  <2>1. /\ n \in Nat /\ Driving(i) \in Nat /\ Due(i) \in Int
        /\ located[i] \in Nat /\ quantity[i] \in Int
    BY PartsNow
  <2> HIDE DEF n
  <2> QED BY <1>5, <1>6, <1>7, <1>8, <2>1
<1> QED BY <1>0, <1>2, <1>7, <1>9, ShelfBalances

\* An item that goes from the buffer to the load
LEMMA UnitsTaken ==
    ASSUME NEW i, buff \in Seq(Items), buff # <<>>, load \in Seq(Items), TakeItem
    PROVE  UnitsIn(buff', i) + UnitsIn(load', i) = UnitsIn(buff, i) + UnitsIn(load, i)
<1>1. ItemTaken(load', buff') BY TakesItem
<1> DEFINE b == buff'  x == Last(buff)
<1>2. /\ b \in Seq(Items) /\ x \in Items /\ buff = Append(b, x) /\ load' = Append(load, x)
  BY <1>1 DEF ItemTaken
<1> HIDE DEF b, x
<1>3. UnitsIn(Append(b, x), i) = UnitsIn(b, i) + One(x, i) BY <1>2, UnitsAppend
<1>4. UnitsIn(Append(load, x), i) = UnitsIn(load, i) + One(x, i) BY <1>2, UnitsAppend
<1>5. UnitsIn(b, i) \in Nat /\ UnitsIn(load, i) \in Nat /\ One(x, i) \in Nat
  BY <1>2, UnitsNat DEF One
<1>6. UnitsIn(buff', i) = UnitsIn(b, i) BY DEF b
<1> QED BY <1>2, <1>3, <1>4, <1>5, <1>6

LEMMA HandlerBalances ==
    ASSUME Typed, Agree, NEW i \in Items \ raced', Balanced(i), HandlerStep
    PROVE  Balanced(i)'
<1>0. Typed' BY HandlerTyped
<1>1. UNCHANGED callVars /\ UNCHANGED robotVars /\ UNCHANGED <<quantity, trucks>>
  BY DEF HandlerStep, PlanTruck, PlanItem, PlanOverload, PlanRest, LocationLoad, LocationStore
<1>2. raced \subseteq raced'
  BY MeetOnly DEF HandlerStep, PlanTruck, PlanItem, PlanOverload, PlanRest, LocationLoad, LocationStore, OnLocations
<1>3. Cardinality(Placing(i))' = Cardinality(Placing(i)) BY <1>1 DEF Placing, RobotAt
<1>4. /\ Driving(i)' \in Nat
      /\ Due(i)' = (UnitsIn(buff', i) + UnitsIn(load', i)
                      + (IF load' # <<>> THEN 0 ELSE UnitsIn(plan', i))) - dropped'[i]
      /\ UnitsIn(buff', i) \in Nat /\ UnitsIn(load', i) \in Nat /\ UnitsIn(plan', i) \in Nat
      /\ dropped'[i] \in Nat /\ Due(i)' \in Int
  BY <1>0, OnTrucksThen, DueThen
<1>4a. /\ Due(i) = (UnitsIn(buff, i) + UnitsIn(load, i)
                      + (IF load # <<>> THEN 0 ELSE UnitsIn(plan, i))) - dropped[i]
       /\ buff \in Seq(Items) /\ load \in Seq(Items) /\ plan \in Seq(Items)
       /\ dropped \in [Items -> Nat] /\ dropped[i] \in Nat
  <2>1. Due(i) = (UnitsIn(buff, i) + UnitsIn(load, i)
                   + (IF load # <<>> THEN 0 ELSE UnitsIn(plan, i))) - dropped[i]
    BY DEF Due, Planning, Dropping
  <2> QED BY <2>1 DEF Typed, TypeOK
<1>4b. UnitsIn(buff, i) \in Nat /\ UnitsIn(load, i) \in Nat /\ UnitsIn(plan, i) \in Nat
  BY <1>4a, UnitsNat
<1>4c. UnitsIn(<<>>, i) = 0 BY UnitsOfNone
<1>5. Driving(i)' + Due(i)' - located'[i] = Driving(i) + Due(i) - located[i]
  <2>1. CASE \E k \in DOMAIN road : PlanTruck(k)
    <3>1. PICK k \in DOMAIN road : PlanTruck(k) BY <2>1
    <3>2. Driving(i)' + Due(i)' = Driving(i) + Due(i)
      BY <1>0, <3>1, LoadsPlanned
    <3>3. located'[i] = located[i] BY <3>1 DEF PlanTruck
    <3>4. Driving(i) \in Nat /\ Due(i) \in Int /\ located[i] \in Nat BY PartsNow
    <3> DEFINE a == Driving(i)  b == Due(i)  x == Driving(i)'  y == Due(i)'  l == located[i]
    <3>5. /\ a \in Nat /\ b \in Int /\ x \in Nat /\ y \in Int /\ l \in Nat
          /\ x + y = a + b
      BY <1>4, <3>2, <3>4
    <3> HIDE DEF a, b, x, y, l
    <3>6. x + y - l = a + b - l BY ONLY <3>5
    <3> QED BY <3>3, <3>6 DEF a, b, x, y, l
  <2>2. ASSUME road' = road PROVE Driving(i)' = Driving(i)
    <3>1. Driving(i) = SumOf(DriveLoad(i), road) BY OnTrucksNow
    <3>2. Driving(i)' = SumOf(DriveLoad(i), road') BY <1>0, OnTrucksThen
    <3> QED BY <2>2, <3>1, <3>2
  <2>3. CASE LocationLoad
    <3>1. UNCHANGED <<located, buff, load, plan, dropped, road>> BY <2>3 DEF LocationLoad
    <3>2. Due(i)' = Due(i) BY <1>4, <1>4a, <3>1
    <3> QED BY <2>2, <3>1, <3>2
  <2>4. CASE PlanItem
    <3>1. /\ UNCHANGED <<located, plan, dropped, road>> /\ plan = <<>>
          /\ buff # <<>> /\ TakeItem
      BY <2>4 DEF PlanItem, Typed, PlanTyped
    <3>2. UnitsIn(buff', i) + UnitsIn(load', i) = UnitsIn(buff, i) + UnitsIn(load, i)
      BY <1>4a, <3>1, UnitsTaken
    <3>3. Due(i)' = Due(i) BY <1>4, <1>4a, <1>4b, <1>4c, <3>1, <3>2
    <3> QED BY <2>2, <3>1, <3>3
  <2>5. CASE PlanOverload
    <3>1. /\ UNCHANGED <<located, buff, load, dropped, road>> /\ load # <<>>
      BY <1>0, <2>5 DEF PlanOverload, Typed, PlanTyped
    <3>2. Due(i)' = Due(i) BY <1>4, <1>4a, <1>4b, <3>1
    <3> QED BY <2>2, <3>1, <3>2
  <2>6. CASE PlanRest
    <3>1. /\ UNCHANGED <<located, buff, dropped, road>> /\ load # <<>>
          /\ plan = <<>> /\ plan' = load /\ load' = <<>>
      BY <2>6 DEF PlanRest, Typed, PlanTyped
    <3>2. Due(i)' = Due(i) BY <1>4, <1>4a, <1>4b, <1>4c, <3>1
    <3> QED BY <2>2, <3>1, <3>2
  <2>7. CASE LocationStore
    <3>1. /\ located' = [located EXCEPT ![Head(plan)] = hreg - 1] /\ plan' = Tail(plan) /\ hpc = "store"
          /\ road' = road /\ plan # <<>> /\ located \in [Items -> Nat] /\ (load # <<>> <=> buff # <<>>)
          /\ dropped' = IF Dropping THEN Inc(dropped, Head(plan)) ELSE dropped
      BY <2>7 DEF LocationStore, NextItem, Typed, TypeOK, PlanTyped
    <3> DEFINE o == One(Head(plan), i)
    <3>2. Head(plan) \in Items /\ UnitsIn(plan, i) = o + UnitsIn(plan', i)
      BY <1>4a, <3>1, UnitsTail
    <3>3. located'[i] = located[i] - o
      <4>1. CASE Head(plan) = i
        <5>1. hreg = located[i] BY <1>2, <3>1, <4>1 DEF Agree, ItemsAgree, LocationsAgree
        <5> QED BY <3>1, <3>2, <4>1, <5>1 DEF One
      <4>2. CASE Head(plan) # i
        <5>1. located'[i] = located[i] BY <3>1, <3>2, <4>2
        <5> QED BY <4>2, <5>1, PartsNow DEF One
      <4> QED BY <4>1, <4>2
    <3>4. o \in Nat BY DEF One
    <3>5. Driving(i)' = Driving(i) BY <2>2, <3>1
    <3>6. dropped'[i] = IF load # <<>> THEN dropped[i] + o ELSE dropped[i]
      <4>1. Head(plan) = i => Inc(dropped, Head(plan))[i] = dropped[i] + 1 BY <1>4a DEF Inc
      <4>2. Head(plan) # i => Inc(dropped, Head(plan))[i] = dropped[i] BY <1>4a DEF Inc
      <4>3. Inc(dropped, Head(plan))[i] = dropped[i] + o BY <1>4a, <4>1, <4>2 DEF One
      <4> HIDE DEF o
      <4> QED BY <3>1, <4>3 DEF Dropping
    <3> HIDE DEF o
    <3>7. /\ UnitsIn(buff', i) + UnitsIn(load', i) = UnitsIn(buff, i) + UnitsIn(load, i)
          /\ load # <<>> <=> load' # <<>>
      <4>1. CASE UNCHANGED <<buff, load>> BY <4>1
      <4>2. CASE Dropping /\ TakeItem
        <5>1. buff # <<>> BY <3>1, <4>2 DEF Dropping
        <5>2. ItemTaken(load', buff') BY <1>4a, <4>2, <5>1, TakesItem
        <5>3. UnitsIn(buff', i) + UnitsIn(load', i) = UnitsIn(buff, i) + UnitsIn(load, i)
          BY <1>4a, <4>2, <5>1, UnitsTaken
        <5> QED BY <4>2, <5>2, <5>3 DEF ItemTaken, Dropping
      <4> QED BY <2>7, <4>1, <4>2 DEF LocationStore, NextItem
    <3>8. Due(i)' = Due(i) - o
      <4>1. CASE load # <<>>
        <5>1. /\ Due(i)' = (UnitsIn(buff', i) + UnitsIn(load', i) + 0) - (dropped[i] + o)
              /\ Due(i) = (UnitsIn(buff, i) + UnitsIn(load, i) + 0) - dropped[i]
          BY ONLY <1>4, <1>4a, <3>6, <3>7, <4>1
        <5> QED BY ONLY <1>4, <1>4a, <1>4b, <3>4, <3>7, <5>1
      <4>2. CASE load = <<>>
        <5>1. /\ Due(i)' = (UnitsIn(buff', i) + UnitsIn(load', i) + UnitsIn(plan', i)) - dropped[i]
              /\ Due(i) = (UnitsIn(buff, i) + UnitsIn(load, i) + UnitsIn(plan, i)) - dropped[i]
          BY ONLY <1>4, <1>4a, <3>6, <3>7, <4>2
        <5> DEFINE e == UnitsIn(buff', i)  f == UnitsIn(load', i)  g == UnitsIn(plan', i)
                   b == UnitsIn(buff, i)  l == UnitsIn(load, i)  p == UnitsIn(plan, i)
                   d == dropped[i]
        <5>2. /\ e \in Nat /\ f \in Nat /\ g \in Nat /\ b \in Nat /\ l \in Nat /\ p \in Nat
              /\ d \in Nat /\ o \in Nat /\ e + f = b + l /\ p = o + g
          BY <1>4, <1>4a, <1>4b, <3>2, <3>4, <3>7
        <5>3. Due(i)' = (e + f + g) - d /\ Due(i) = (b + l + p) - d BY <5>1
        <5> HIDE DEF e, f, g, b, l, p, d
        <5>4. (e + f + g) - d = ((b + l + p) - d) - o BY ONLY <5>2
        <5> QED BY <5>3, <5>4
      <4> QED BY <4>1, <4>2
    <3>9. Driving(i) \in Nat /\ Due(i) \in Int /\ located[i] \in Nat BY PartsNow
    <3> QED BY ONLY <1>4, <3>3, <3>4, <3>5, <3>8, <3>9
  <2> QED BY <2>1, <2>3, <2>4, <2>5, <2>6, <2>7 DEF HandlerStep
<1>6. quantity' = quantity /\ located'[i] \in Nat
  BY <1>0, <1>1 DEF Typed, TypeOK
<1>7. Driving(i)' + Due(i)' - Cardinality(Placing(i))' - located'[i] + quantity'[i]
        = Driving(i) + Due(i) - Cardinality(Placing(i)) - located[i] + quantity[i]
  <2> DEFINE n == Cardinality(Placing(i))
  <2>1. /\ n \in Nat /\ Driving(i) \in Nat /\ Due(i) \in Int
        /\ located[i] \in Nat /\ quantity[i] \in Int
    BY PartsNow
  <2> DEFINE a == Driving(i)  b == Due(i)  l == located[i]  q == quantity[i]
             x == Driving(i)'  y == Due(i)'  m == located'[i]
  <2>2. /\ n \in Nat /\ a \in Nat /\ b \in Int /\ l \in Nat /\ q \in Int
        /\ x \in Nat /\ y \in Int /\ m \in Nat /\ x + y - m = a + b - l
    BY <1>4, <1>5, <1>6, <2>1
  <2>3. Cardinality(Placing(i))' = n /\ quantity'[i] = q BY <1>3, <1>6
  <2> HIDE DEF n, a, b, l, q, x, y, m
  <2>4. x + y - n - m + q = a + b - n - l + q BY ONLY <2>2
  <2> QED BY <2>3, <2>4 DEF n, a, b, l, q, x, y, m
<1> QED BY <1>0, <1>1, <1>2, <1>7, ShelfBalances

LEMMA InitBalances == ASSUME Init PROVE Located
<1>0. Typed BY InitTyped
<1>1. SUFFICES ASSUME NEW i \in Items PROVE Balanced(i) BY DEF Located
<1>2. located[i] = quantity[i] /\ trucks = <<>> /\ road = <<>> BY DEF Init
<1>3. Cardinality(Placing(i)) = 0
  <2>1. Placing(i) = {} BY DEF Init, Placing, RobotAt
  <2> QED BY <2>1, FS_EmptySet
<1>4. InHand(i) = 0
  <2> DEFINE f == [c \in Callers |-> HandOf(c, i)]
  <2>1. \A c \in Callers : HandOf(c, i) = 0
    <3>1. TAKE c \in Callers
    <3>2. cpc[c] = "idle" /\ hand[c] = <<>> BY DEF Init
    <3> QED BY <3>2, UnitsOfNone DEF HandOf, Taken
  <2>2. f \in [Callers -> Nat] /\ \A c \in Callers : f[c] = 0 BY <2>1
  <2>3. InHand(i) = SumFunction(f) BY DEF InHand, HandOf
  <2> HIDE DEF f
  <2>4. IsFiniteSet(Callers) /\ SumFunction(f) = Total(f, Callers) BY <2>2, CallersSum
  <2> QED BY <2>2, <2>3, <2>4, TotalZero
<1>5. Waiting(i) = 0 /\ Driving(i) = 0 /\ Misrouted(i) = 0
  BY <1>0, <1>2, OnTrucksNow, LoadsTyped, SumOfEmpty
<1>6. Due(i) = 0
  <2>1. UnitsIn(<<>>, i) = 0 BY UnitsOfNone
  <2> QED BY <2>1 DEF Init, Due, Planning, Dropping
<1> QED BY <1>0, <1>2, <1>3, <1>4, <1>5, <1>6, PartsNow DEF Balanced, Left, Promised

LEMMA KeepBalances ==
    ASSUME Typed, NEW i \in Items, Balanced(i), UNCHANGED vars PROVE Balanced(i)'
<1>0. Typed' BY KeepTyped
<1>1. /\ raced \subseteq raced' /\ UNCHANGED <<callVars, trucks>>
      /\ road' = road /\ UNCHANGED planVars /\ located' = located /\ quantity' = quantity
      /\ rpc' = rpc /\ carried' = carried
  BY DEF vars
<1>2. Driving(i)' = Driving(i)
  <2>1. Driving(i) = SumOf(DriveLoad(i), road) BY OnTrucksNow
  <2>2. Driving(i)' = SumOf(DriveLoad(i), road') BY <1>0, OnTrucksThen
  <2> QED BY <1>1, <2>1, <2>2
<1>3. Cardinality(Placing(i))' = Cardinality(Placing(i)) BY <1>1 DEF Placing, RobotAt
<1>4. Due(i)' = Due(i) BY <1>1, DueStays
<1>5. Driving(i)' + Due(i)' - Cardinality(Placing(i))' - located'[i] + quantity'[i]
        = Driving(i) + Due(i) - Cardinality(Placing(i)) - located[i] + quantity[i]
  BY <1>1, <1>2, <1>3, <1>4
<1> QED BY <1>0, <1>1, <1>5, ShelfBalances

-----------------------------------------------------------------------------
(* The items of an overload task.                                          *)

LEMMA InitLoad == ASSUME Init PROVE LoadPlanned
  BY DEF Init, LoadPlanned, Dropping

LEMMA KeepLoad == ASSUME LoadPlanned, UNCHANGED <<load, plan>> PROVE LoadPlanned'
  BY DEF LoadPlanned, Dropping, UnitsIn

\* A load that is planned for anew, or of which no item is being planned for,
\* has the items of the task.
LEMMA LoadOf ==
    ASSUME Typed', plan' = <<>> \/ plan' = load' \/ load' = <<>> PROVE LoadPlanned'
<1>1. SUFFICES ASSUME load' # <<>>, NEW i \in Items PROVE UnitsIn(plan', i) =< UnitsIn(load', i)
  BY DEF LoadPlanned, Dropping, UnitsIn
<1>2. UnitsIn(load', i) \in Nat BY UnitsNat DEF Typed, TypeOK
<1>3. UnitsIn(<<>>, i) = 0 BY UnitsOfNone
<1> QED BY <1>1, <1>2, <1>3

LEMMA HandlerLoad ==
    ASSUME Typed, Typed', LoadPlanned, HandlerStep PROVE LoadPlanned'
<1>1. CASE \E k \in DOMAIN road : PlanTruck(k)
  <2>1. UNCHANGED <<load, plan>> BY <1>1 DEF PlanTruck
  <2> QED BY <2>1, KeepLoad
<1>2. CASE LocationLoad
  <2>1. UNCHANGED <<load, plan>> BY <1>2 DEF LocationLoad
  <2> QED BY <2>1, KeepLoad
<1>3. CASE PlanItem \/ PlanOverload \/ PlanRest
  <2>1. plan' = <<>> \/ plan' = load' \/ load' = <<>>
    BY <1>3 DEF PlanItem, PlanOverload, PlanRest, Typed, PlanTyped
  <2> QED BY <2>1, LoadOf
<1>4. CASE LocationStore
  <2>1. plan \in Seq(Items) /\ plan # <<>> /\ plan' = Tail(plan) /\ (Len(plan) = 1 <=> plan' = <<>>)
    BY <1>4, HeadTail DEF LocationStore, NextItem, Typed, TypeOK, PlanTyped
  <2>2. CASE plan' = <<>> BY <2>2, LoadOf
  <2>3. CASE plan' # <<>>
    <3>1. load' = load BY <1>4, <2>1, <2>3 DEF LocationStore, NextItem
    <3>2. SUFFICES ASSUME load # <<>>, NEW i \in Items PROVE UnitsIn(plan', i) =< UnitsIn(load, i)
      BY <3>1 DEF LoadPlanned, Dropping, UnitsIn
    <3>3. UnitsIn(plan, i) = One(Head(plan), i) + UnitsIn(plan', i) /\ plan' \in Seq(Items)
      BY <2>1, UnitsTail
    <3>4. UnitsIn(plan', i) \in Nat /\ UnitsIn(load, i) \in Nat /\ One(Head(plan), i) \in Nat
      BY <3>3, UnitsNat DEF One, Typed, TypeOK
    <3>5. UnitsIn(plan, i) =< UnitsIn(load, i) BY <3>2 DEF LoadPlanned, Dropping
    <3> QED BY <3>3, <3>4, <3>5
  <2> QED BY <2>2, <2>3
<1> QED BY <1>1, <1>2, <1>3, <1>4 DEF HandlerStep

LEMMA NextLoad ==
    ASSUME Typed, Typed', LoadPlanned, [Next]_vars PROVE LoadPlanned'
<1>1. CASE HandlerStep BY <1>1, HandlerLoad
<1>2. CASE \E c \in Callers : CallStep(c) \/ WorkStep(c) \/ SendStep(c)
  <2>1. UNCHANGED <<load, plan>>
    BY <1>2 DEF CallStep, CallDelivery, CallRestock, WorkStep, SendStep, TestInStock,
         TestOutOfStock, TakeLoad, TakeStore, CountLoad, CountStore, LoadItem,
         SendFull, SendRest, PushLoad, PushStore, StartTruck
  <2> QED BY <2>1, KeepLoad
<1>3. CASE \E r \in Robots : RobotStep(r)
  <2>1. UNCHANGED <<load, plan>>
    BY <1>3 DEF RobotStep, RobotTake, RobotLoad, RobotStore, RobotPlaceLoad, RobotPlaceStore,
         RobotCountLoad, RobotCountStore
  <2> QED BY <2>1, KeepLoad
<1>4. CASE UNCHANGED vars BY <1>4, KeepLoad DEF vars
<1> QED BY <1>1, <1>2, <1>3, <1>4, StepCases

StockInv == Typed /\ Agree /\ Located /\ LoadPlanned

LEMMA RacedGrows == ASSUME [Next]_vars PROVE raced \subseteq raced'
  BY MeetOnly DEF Next, Call, CallDelivery, CallRestock,
       CallerStep, TestInStock, TestOutOfStock, TakeLoad, TakeStore, CountLoad, CountStore, LoadItem,
       SendFull, SendRest, PushLoad, PushStore, StartTruck,
       RobotStep, RobotTake, RobotLoad, RobotStore, RobotPlaceLoad, RobotPlaceStore,
       RobotCountLoad, RobotCountStore, HandlerStep, PlanTruck, PlanItem, PlanOverload, PlanRest,
       LocationLoad, LocationStore, OnQuantity, OnLocations, OnCurrent, OnTrucks, vars

LEMMA InvNext == ASSUME StockInv, [Next]_vars PROVE StockInv'
<1> USE DEF StockInv
<1>1. Typed'
  BY StepCases, CallTyped, WorkTyped, SendTyped, RobotTyped, HandlerTyped, KeepTyped
<1>2. Agree'
  BY StepCases, CallAgrees, WorkAgrees, SendAgrees, RobotAgrees, HandlerAgrees, KeepAgrees
<1>3. raced \subseteq raced' BY RacedGrows
<1>4. ASSUME NEW i \in Items \ raced' PROVE Balanced(i)'
  <2>1. Balanced(i) BY <1>3 DEF Located
  <2> QED BY <2>1, StepCases, CallBalances, WorkBalances, SendBalances, RobotBalances,
             HandlerBalances, KeepBalances
<1>5. Located' BY <1>4 DEF Located
<1>6. LoadPlanned' BY <1>1, NextLoad
<1> QED BY <1>1, <1>2, <1>5, <1>6

\* As long as no two threads have met on an item or on the vector of trucks,
\* every location of an item is accounted for: by a unit on the shelf, in a
\* delivery on its way, or on a truck that was sent to the wrong dock, less
\* the locations that the handler deleted for overload tasks it then dropped.
THEOREM LocationsBalanced == Spec => []LocationsBalance
<1>1. Init => StockInv BY InitTyped, InitAgrees, InitBalances, InitLoad DEF StockInv
<1>2. StockInv /\ [Next]_vars => StockInv' BY InvNext
<1>3. StockInv => LocationsBalance
  <2>1. SUFFICES ASSUME StockInv, "trucks" \notin raced, NEW i \in Items \ raced
                 PROVE  located[i] + Cardinality(Placing(i)) + dropped[i]
                          = quantity[i] + InHand(i) + Waiting(i) + Driving(i) + Planning(i) + Misrouted(i)
    BY DEF LocationsBalance
  <2>2. Left(i) = Misrouted(i) BY <2>1 DEF StockInv, Located, Balanced
  <2> QED BY <2>1, <2>2, PartsNow, DueInt DEF Left, Promised, Due, StockInv
<1> QED BY <1>1, <1>2, <1>3, PTL DEF Spec

\* The vector of locations is popped while it is empty only for an item of
\* which an update was lost, between the two lines of StockUpdate, or after
\* locations of that item were deleted for an overload task that was dropped.
THEOREM FoundIsLocated == Spec => PromisedIsLocated
<1>1. Init => StockInv BY InitTyped, InitAgrees, InitBalances, InitLoad DEF StockInv
<1>2. StockInv /\ [Next]_vars => StockInv' BY InvNext
<1>3. StockInv /\ [Next]_vars
        => [hpc' = "undefined" /\ hpc # "undefined" =>
              LET i == Head(plan) IN i \in raced \/ Placing(i) # {} \/ dropped[i] > 0]_vars
  <2>1. SUFFICES ASSUME StockInv, Next, hpc' = "undefined", hpc # "undefined",
                        Head(plan) \notin raced, Placing(Head(plan)) = {},
                        ~ dropped[Head(plan)] > 0
                 PROVE  FALSE
    OBVIOUS
  <2>2. LocationLoad
    <3>1. CASE \E c \in Callers : CallStep(c) \/ WorkStep(c) \/ SendStep(c)
      BY <2>1, <3>1 DEF CallStep, CallDelivery, CallRestock, WorkStep, SendStep, TestInStock,
           TestOutOfStock, TakeLoad, TakeStore, CountLoad, CountStore, LoadItem,
           SendFull, SendRest, PushLoad, PushStore, StartTruck
    <3>2. CASE \E r \in Robots : RobotStep(r)
      BY <2>1, <3>2 DEF RobotStep, RobotTake, RobotLoad, RobotStore, RobotPlaceLoad, RobotPlaceStore,
           RobotCountLoad, RobotCountStore
    <3>3. CASE HandlerStep
      BY <2>1, <3>3 DEF HandlerStep, PlanTruck, PlanItem, PlanOverload, PlanRest, LocationStore, NextItem
    <3> QED BY <2>1, <3>1, <3>2, <3>3, StepCases
  <2>3. plan \in Seq(Items) /\ plan # <<>> /\ located[Head(plan)] = 0
    BY <2>1, <2>2 DEF LocationLoad, StockInv, Typed, TypeOK, PlanTyped
  <2> DEFINE i == Head(plan)
  <2>4. i \in Items /\ UnitsIn(plan, i) = 1 + UnitsIn(Tail(plan), i) /\ UnitsIn(Tail(plan), i) \in Nat
    BY <2>3, UnitsTail, UnitsNat DEF One
  <2>5. Left(i) >= 0 /\ quantity[i] >= 0
    BY <2>1, <2>4 DEF StockInv, Located, Balanced, Agree, ItemsAgree, QuantityAgrees
  <2>6. Cardinality(Placing(i)) = 0 /\ located[i] = 0
    <3>1. Placing(i) = {} BY <2>1
    <3> QED BY <2>3, <3>1, FS_EmptySet
  <2>7. Planning(i) >= 1
    <3>1. UnitsIn(buff, i) \in Nat /\ UnitsIn(load, i) \in Nat
      BY <2>1, UnitsNat DEF StockInv, Typed, TypeOK
    <3>2. CASE Dropping
      <4>1. UnitsIn(plan, i) =< UnitsIn(load, i) BY <2>1, <2>4, <3>2 DEF StockInv, LoadPlanned
      <4> QED BY <2>4, <3>1, <3>2, <4>1 DEF Planning
    <3>3. CASE ~ Dropping BY <2>4, <3>1, <3>3 DEF Planning
    <3> QED BY <3>2, <3>3
  <2>8. Due(i) >= 1
    <3>1. dropped[i] = 0 BY <2>1, <2>4, DueInt DEF StockInv
    <3> QED BY <2>1, <2>4, <2>7, <3>1, DueInt DEF Due, StockInv
  <2> HIDE DEF i
  <2> QED BY <2>1, <2>4, <2>5, <2>6, <2>8, PartsNow DEF Left, Promised, StockInv
<1> QED BY <1>1, <1>2, <1>3, PTL DEF Spec, PromisedIsLocated

-----------------------------------------------------------------------------
(* The total.                                                              *)

\* Who has changed a quantity and has yet to change the total
Owing == {c \in Callers : cpc[c] \in {"countload", "countstore"}}
Owed == {r \in Robots : rpc[r] \in {"placeload", "placestore", "countload", "countstore"}}
Undisturbed == raced \cap (Items \cup {"current"}) = {}
Totalled == current = SumFunction(quantity) + Cardinality(Owing) - Cardinality(Owed)

LEMMA OwingFinite == IsFiniteSet(Owing) /\ IsFiniteSet(Owed)
<1>1. IsFiniteSet(Callers)
  <2>1. [c \in Callers |-> 0] \in [Callers -> Nat] OBVIOUS
  <2> QED BY <2>1, CallersSum
<1>2. Owing \in SUBSET Callers /\ Owed \in SUBSET Robots BY DEF Owing, Owed
<1> QED BY <1>1, <1>2, StockAssumption, FS_Subset

LEMMA QuantitiesNat ==
    ASSUME Typed, Agree, Undisturbed PROVE quantity \in [Items -> Nat]
  BY DEF Typed, TypeOK, Agree, ItemsAgree, QuantityAgrees, Undisturbed

LEMMA SumMoves ==
    ASSUME Typed, Agree, Undisturbed, NEW i \in Items, NEW n \in Nat
    PROVE  SumFunction([quantity EXCEPT ![i] = n]) = SumFunction(quantity) - quantity[i] + n
<1>1. quantity \in [Items -> Nat] BY QuantitiesNat
<1> DEFINE g == [quantity EXCEPT ![i] = n]
<1>2. g \in [Items -> Nat] /\ g[i] = n /\ \A x \in Items : x # i => g[x] = quantity[x] BY <1>1
<1> HIDE DEF g
<1>3. IsFiniteSet(Items) BY StockAssumption
<1>4. SumFunction(quantity) = Total(quantity, Items) BY <1>1, <1>3, FunctionSum
<1>5. SumFunction(g) = Total(g, Items) BY <1>2, <1>3, FunctionSum
<1>6. Total(g, Items) = Total(quantity, Items) - quantity[i] + g[i]
  BY <1>1, <1>2, <1>3, TotalMove
<1> QED BY <1>2, <1>4, <1>5, <1>6 DEF g

LEMMA TotalIsNat == ASSUME Typed, Agree, Undisturbed PROVE SumFunction(quantity) \in Nat
<1> DEFINE f == quantity
<1>1. f \in [Items -> Nat] BY QuantitiesNat
<1>2. IsFiniteSet(Items) BY StockAssumption
<1> HIDE DEF f
<1>3. SumFunction(f) = Total(f, Items) /\ Total(f, Items) \in Nat
  BY ONLY <1>1, <1>2, FunctionSum, TotalNat
<1> QED BY <1>3 DEF f

\* A caller or robot enters or leaves, and the sum of the quantities or the
\* total moves with it.
LEMMA OwingMoves ==
    ASSUME NEW c, \A d \in Callers : d # c => cpc'[d] = cpc[d], UNCHANGED rpc
    PROVE  /\ Cardinality(Owing) \in Nat /\ Cardinality(Owed) \in Nat
           /\ Cardinality(Owed)' = Cardinality(Owed)
           /\ (c \in Owing <=> c \in Owing') => Cardinality(Owing)' = Cardinality(Owing)
           /\ c \notin Owing /\ c \in Owing' => Cardinality(Owing)' = Cardinality(Owing) + 1
           /\ c \in Owing /\ c \notin Owing' => Cardinality(Owing)' = Cardinality(Owing) - 1
<1> DEFINE P == Owing
           Q == Owing'
<1>1. \A d : d # c => (d \in Q <=> d \in P) BY DEF Owing
<1>2. IsFiniteSet(P) /\ IsFiniteSet(Owed) BY OwingFinite
<1>3. Cardinality(Owing)' = Cardinality(Q) /\ Cardinality(Owed)' = Cardinality(Owed)
  BY DEF Owing, Owed
<1> HIDE DEF P, Q
<1>4. /\ Cardinality(P) \in Nat
      /\ (c \in P <=> c \in Q) => Cardinality(Q) = Cardinality(P)
      /\ c \notin P /\ c \in Q => Cardinality(Q) = Cardinality(P) + 1
      /\ c \in P /\ c \notin Q => Cardinality(Q) = Cardinality(P) - 1
  BY ONLY <1>1, <1>2, CountMoves
<1>5. Cardinality(Owed) \in Nat BY <1>2, FS_CardinalityType
<1> QED BY <1>3, <1>4, <1>5 DEF P, Q

LEMMA OwedMoves ==
    ASSUME NEW r, \A q \in Robots : q # r => rpc'[q] = rpc[q], UNCHANGED cpc
    PROVE  /\ Cardinality(Owing) \in Nat /\ Cardinality(Owed) \in Nat
           /\ Cardinality(Owing)' = Cardinality(Owing)
           /\ (r \in Owed <=> r \in Owed') => Cardinality(Owed)' = Cardinality(Owed)
           /\ r \notin Owed /\ r \in Owed' => Cardinality(Owed)' = Cardinality(Owed) + 1
           /\ r \in Owed /\ r \notin Owed' => Cardinality(Owed)' = Cardinality(Owed) - 1
<1> DEFINE P == Owed
           Q == Owed'
<1>1. \A d : d # r => (d \in Q <=> d \in P) BY DEF Owed
<1>2. IsFiniteSet(P) /\ IsFiniteSet(Owing) BY OwingFinite
<1>3. Cardinality(Owed)' = Cardinality(Q) /\ Cardinality(Owing)' = Cardinality(Owing)
  BY DEF Owing, Owed
<1> HIDE DEF P, Q
<1>4. /\ Cardinality(P) \in Nat
      /\ (r \in P <=> r \in Q) => Cardinality(Q) = Cardinality(P)
      /\ r \notin P /\ r \in Q => Cardinality(Q) = Cardinality(P) + 1
      /\ r \in P /\ r \notin Q => Cardinality(Q) = Cardinality(P) - 1
  BY ONLY <1>1, <1>2, CountMoves
<1>5. Cardinality(Owing) \in Nat BY <1>2, FS_CardinalityType
<1> QED BY <1>3, <1>4, <1>5 DEF P, Q

LEMMA CallerTotals ==
    ASSUME Typed, Agree, Undisturbed', Undisturbed, Totalled, NEW c \in Callers,
           CallStep(c) \/ WorkStep(c) \/ SendStep(c)
    PROVE  Totalled'
<1> USE DEF Typed, TypeOK
<1>1. UNCHANGED robotVars /\ \A d \in Callers : d # c => cpc'[d] = cpc[d]
  <2>1. OnlyCaller(c) BY OneCaller
  <2>2. UNCHANGED robotVars
    BY DEF CallStep, CallDelivery, CallRestock, WorkStep, SendStep, TestInStock,
           TestOutOfStock, TakeLoad, TakeStore, CountLoad, CountStore, LoadItem,
           SendFull, SendRest, PushLoad, PushStore, StartTruck
  <2> QED BY <2>1, <2>2 DEF OnlyCaller
<1>2. SumFunction(quantity) \in Nat /\ current \in Int BY TotalIsNat
<1> DEFINE m == Cardinality(Owing)
           n == Cardinality(Owed)
<1>3. m \in Nat /\ n \in Nat /\ n' = n BY <1>1, OwingMoves
<1>4. current = SumFunction(quantity) + m - n BY DEF Totalled
<1>5. CASE TakeStore(c)
  <2> DEFINE i == Head(ask[c])
  <2>1. /\ cpc[c] = "store" /\ cpc'[c] = "countload" /\ current' = current /\ OnQuantity(i, c)
        /\ quantity' = [quantity EXCEPT ![i] = creg[c] - 1] /\ ask[c] # <<>> /\ ask[c] \in Seq(Items)
    BY <1>5 DEF TakeStore, CallersTyped, CallerTyped
  <2>2. i \in Items BY <2>1, HeadTail
  <2>3. i \notin raced BY <2>2 DEF Undisturbed
  <2>4. creg[c] = quantity[i] /\ quantity[i] > 0 /\ quantity[i] \in Int
    <3>1. c \in CallerAt(i, {"store"}) /\ c \in CallerAt(i, {"load", "store"})
      BY <2>1 DEF CallerAt
    <3>2. QuantityAgrees(i) BY <2>2, <2>3 DEF Agree, ItemsAgree
    <3> QED BY <2>2, <3>1, <3>2 DEF QuantityAgrees
  <2> DEFINE k == creg[c] - 1
  <2>5. k \in Nat /\ k = quantity[i] - 1 BY <2>4
  <2> HIDE DEF k, i
  <2>6. SumFunction([quantity EXCEPT ![i] = k]) = SumFunction(quantity) - quantity[i] + k
    BY <2>2, <2>5, SumMoves
  <2>7. SumFunction(quantity') = SumFunction(quantity) - 1
    <3>1. quantity' = [quantity EXCEPT ![i] = k] BY <2>1 DEF k
    <3> QED BY <1>2, <2>4, <2>5, <2>6, <3>1
  <2>8. m' = m + 1
    <3>1. c \notin Owing /\ c \in Owing' BY <2>1 DEF Owing
    <3> QED BY <1>1, <3>1, OwingMoves
  <2> HIDE DEF m, n
  <2>9. current' = SumFunction(quantity') + m' - n'
    BY <1>2, <1>3, <1>4, <2>1, <2>7, <2>8
  <2> QED BY <2>9 DEF Totalled, m, n
<1>6. CASE CountStore(c)
  <2>1. cpc[c] = "countstore" /\ cpc'[c] = "weigh" /\ current' = creg[c] - 1 /\ quantity' = quantity
    BY <1>6 DEF CountStore
  <2>2. creg[c] = current BY <2>1 DEF Agree, CurrentAgrees, Undisturbed
  <2>3. m' = m - 1
    <3>1. c \in Owing /\ c \notin Owing' BY <2>1 DEF Owing
    <3> QED BY <1>1, <3>1, OwingMoves
  <2> HIDE DEF m, n
  <2>4. current' = SumFunction(quantity') + m' - n' BY <1>2, <1>3, <1>4, <2>1, <2>2, <2>3
  <2> QED BY <2>4 DEF Totalled, m, n
<1>7. CASE ~ TakeStore(c) /\ ~ CountStore(c)
  <2>1. UNCHANGED <<current, quantity>>
    BY <1>7 DEF CallStep, CallDelivery, CallRestock, WorkStep, SendStep, TestInStock,
           TestOutOfStock, TakeLoad, CountLoad, LoadItem,
           SendFull, SendRest, PushLoad, PushStore, StartTruck
  <2>2. c \in Owing <=> c \in Owing'
    BY <1>7 DEF Owing, CallStep, CallDelivery, CallRestock, WorkStep, SendStep, TestInStock,
           TestOutOfStock, TakeLoad, CountLoad, LoadItem,
           SendFull, SendRest, PushLoad, PushStore, StartTruck
  <2>3. m' = m BY <1>1, <2>2, OwingMoves
  <2> QED BY <1>3, <1>4, <2>1, <2>3 DEF Totalled
<1> QED BY <1>5, <1>6, <1>7

LEMMA RobotTotals ==
    ASSUME Typed, Agree, Undisturbed', Undisturbed, Totalled, NEW r \in Robots, RobotStep(r)
    PROVE  Totalled'
<1> USE DEF Typed, TypeOK
<1>1. UNCHANGED callVars /\ \A q \in Robots : q # r => rpc'[q] = rpc[q]
  BY DEF RobotStep, RobotTake, RobotLoad, RobotStore, RobotPlaceLoad, RobotPlaceStore,
         RobotCountLoad, RobotCountStore
<1>2. SumFunction(quantity) \in Nat /\ current \in Int BY TotalIsNat
<1> DEFINE m == Cardinality(Owing)
           n == Cardinality(Owed)
<1>3. m \in Nat /\ n \in Nat /\ m' = m BY <1>1, OwedMoves
<1>4. current = SumFunction(quantity) + m - n BY DEF Totalled
<1>5. CASE RobotStore(r)
  <2> DEFINE i == carried[r]
  <2>1. /\ rpc[r] = "store" /\ rpc'[r] = "placeload" /\ current' = current
        /\ quantity' = [quantity EXCEPT ![i] = rreg[r] + 1]
    BY <1>5 DEF RobotStore
  <2>2. i \in Items /\ i \notin raced BY DEF Undisturbed
  <2>3. rreg[r] = quantity[i] /\ quantity[i] >= 0 /\ quantity[i] \in Int
    <3>1. r \in RobotAt(i, "store") BY <2>1 DEF RobotAt
    <3>2. QuantityAgrees(i) BY <2>2 DEF Agree, ItemsAgree
    <3> QED BY <2>2, <3>1, <3>2 DEF QuantityAgrees
  <2> DEFINE k == rreg[r] + 1
  <2>5. k \in Nat /\ k = quantity[i] + 1 BY <2>3
  <2> HIDE DEF k, i
  <2>6. SumFunction([quantity EXCEPT ![i] = k]) = SumFunction(quantity) - quantity[i] + k
    BY <2>2, <2>5, SumMoves
  <2>7. SumFunction(quantity') = SumFunction(quantity) + 1
    <3>1. quantity' = [quantity EXCEPT ![i] = k] BY <2>1 DEF k
    <3> QED BY <1>2, <2>3, <2>5, <2>6, <3>1
  <2>8. n' = n + 1
    <3>1. r \notin Owed /\ r \in Owed' BY <2>1 DEF Owed
    <3> QED BY <1>1, <3>1, OwedMoves
  <2> HIDE DEF m, n
  <2>9. current' = SumFunction(quantity') + m' - n'
    BY <1>2, <1>3, <1>4, <2>1, <2>7, <2>8
  <2> QED BY <2>9 DEF Totalled, m, n
<1>6. CASE RobotCountStore(r)
  <2>1. rpc[r] = "countstore" /\ rpc'[r] = "idle" /\ current' = rreg[r] + 1 /\ quantity' = quantity
    BY <1>6 DEF RobotCountStore
  <2>2. rreg[r] = current BY <2>1 DEF Agree, CurrentAgrees, Undisturbed
  <2>3. n' = n - 1
    <3>1. r \in Owed /\ r \notin Owed' BY <2>1 DEF Owed
    <3> QED BY <1>1, <3>1, OwedMoves
  <2> HIDE DEF m, n
  <2>4. current' = SumFunction(quantity') + m' - n' BY <1>2, <1>3, <1>4, <2>1, <2>2, <2>3
  <2> QED BY <2>4 DEF Totalled, m, n
<1>7. CASE ~ RobotStore(r) /\ ~ RobotCountStore(r)
  <2>1. UNCHANGED <<current, quantity>>
    BY <1>7 DEF RobotStep, RobotTake, RobotLoad, RobotPlaceLoad, RobotPlaceStore, RobotCountLoad
  <2>2. r \in Owed <=> r \in Owed'
    BY <1>7 DEF Owed, RobotStep, RobotTake, RobotLoad, RobotPlaceLoad, RobotPlaceStore, RobotCountLoad
  <2>3. n' = n BY <1>1, <2>2, OwedMoves
  <2> QED BY <1>3, <1>4, <2>1, <2>3 DEF Totalled
<1> QED BY <1>5, <1>6, <1>7

LEMMA OthersTotal ==
    ASSUME Totalled, HandlerStep \/ UNCHANGED vars PROVE Totalled'
<1>1. UNCHANGED <<quantity, current, cpc, rpc>>
  BY DEF HandlerStep, PlanTruck, PlanItem, PlanOverload, PlanRest, LocationLoad, LocationStore, vars
<1> QED BY <1>1 DEF Totalled, Owing, Owed

\* As long as no two threads have met on an item or on the total, the total is
\* the sum of the quantities, up to those who have yet to change it.
THEOREM TotalBalanced == Spec => []TotalBalance
<1> DEFINE Inv == StockInv /\ (Undisturbed => Totalled)
<1>1. Init => Inv
  <2>1. SUFFICES ASSUME Init PROVE Inv OBVIOUS
  <2>2. StockInv BY <2>1, InitTyped, InitAgrees, InitBalances, InitLoad DEF StockInv
  <2>3. current = SumFunction(quantity) BY <2>1 DEF Init
  <2>4. Cardinality(Owing) = 0 /\ Cardinality(Owed) = 0
    <3>1. Owing = {} /\ Owed = {} BY <2>1 DEF Init, Owing, Owed
    <3> QED BY <3>1, FS_EmptySet
  <2>5. Undisturbed => SumFunction(quantity) \in Nat BY <2>2, TotalIsNat DEF StockInv
  <2> QED BY <2>2, <2>3, <2>4, <2>5 DEF Totalled
<1>2. Inv /\ [Next]_vars => Inv'
  <2>1. SUFFICES ASSUME Inv, [Next]_vars PROVE Inv' OBVIOUS
  <2>2. StockInv' /\ raced \subseteq raced' BY <2>1, InvNext, RacedGrows
  <2>3. SUFFICES ASSUME Undisturbed' PROVE Totalled' BY <2>2
  <2>4. Undisturbed BY <2>2, <2>3 DEF Undisturbed
  <2>5. Totalled /\ Typed /\ Agree BY <2>1, <2>4 DEF StockInv
  <2> QED BY <2>1, <2>3, <2>4, <2>5, StepCases, CallerTotals, RobotTotals, OthersTotal
<1>3. Inv => TotalBalance
  BY DEF Undisturbed, Totalled, TotalBalance, Owing, Owed
<1> QED BY <1>1, <1>2, <1>3, PTL DEF Spec
=============================================================================
