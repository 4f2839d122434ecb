------------------------------ MODULE OrderIntake ------------------------------
(***************************************************************************)
(* The order queue's other end: one warehouseservice thread of the web     *)
(* server per warehouse, its connection, the thread in the warehouse that  *)
(* runs GetOrdersFromServer, orderbuff, and ClientOrderHandler, which      *)
(* calls CallDelivery.  What CallDelivery does with the stock is not part  *)
(* of this module: an order that has come to it has been called.           *)
(***************************************************************************)
EXTENDS OrderServer

CONSTANT Warehouses

VARIABLES
    wpc,             \* warehouseservice: program point
    receivedorder,   \* warehouseservice: receivedorder, until it is sent
    wire,            \* connection, towards the warehouse
    rpc,             \* GetOrdersFromServer: program point
    incoming,        \* GetOrdersFromServer: msg, until it is buffered
    itemList,        \* GetOrdersFromServer: OrderItemList
    orderbuff,       \* orderbuff
    hpc,             \* ClientOrderHandler: program point
    warehouseMutex,  \* Warehouse_Mutex, of all these processes
    called,          \* per warehouse, the orders CallDelivery was called with
    lost             \* orders a connection or a process has ended with

sendVars == <<wpc, receivedorder>>
warehouseVars == <<rpc, incoming, itemList, orderbuff, hpc>>
intakeVars == <<sendVars, wire, warehouseVars, warehouseMutex, called, lost>>

\* The two threads of a warehouse that lock Warehouse_Mutex
Sender(w) == <<w, "warehouseservice">>
Receiver(w) == <<w, "GetOrdersFromServer">>

GroupSize == 1      \* ORDERGROUPSIZE

IntakeTypeOK ==
    /\ wpc \in [Warehouses -> {"absent", "start", "take", "send"}]
    /\ receivedorder \in [Warehouses -> Seq(OrderRecord)]
    /\ wire \in [Warehouses -> Seq(OrderRecord)]
    /\ rpc \in [Warehouses -> {"absent", "start", "recv", "lock", "handle", "notify", "gone"}]
    /\ incoming \in [Warehouses -> Seq(OrderRecord)]
    /\ itemList \in [Warehouses -> Items]
    /\ orderbuff \in [Warehouses -> Seq(OrderRecord)]
    /\ hpc \in [Warehouses -> {"absent", "test", "asleep", "drain", "gone"}]
    /\ warehouseMutex \in MutexOf({Sender(w) : w \in Warehouses} \cup {Receiver(w) : w \in Warehouses})
    /\ called \in [Warehouses -> Seq(OrderRecord)]
    /\ lost \in SUBSET OrderRecord

IntakeInit ==
    /\ wpc = [w \in Warehouses |-> "absent"]
    /\ receivedorder = [w \in Warehouses |-> <<>>]
    /\ wire = [w \in Warehouses |-> <<>>]
    /\ rpc = [w \in Warehouses |-> "absent"]
    /\ incoming = [w \in Warehouses |-> <<>>]
    /\ itemList = [w \in Warehouses |-> NoItems]
    /\ orderbuff = [w \in Warehouses |-> <<>>]
    /\ hpc = [w \in Warehouses |-> "absent"]
    /\ warehouseMutex = FreeMutex
    /\ called = [w \in Warehouses |-> <<>>]
    /\ lost = {}

ToSetOf(s) == {s[k] : k \in 1 .. Len(s)}

-----------------------------------------------------------------------------
(* warehouseservice(), in the web server.                                  *)

SendGo(w, from, to) == wpc[w] = from /\ wpc' = [wpc EXCEPT ![w] = to]

\* Mistake: memLock is kept.
SenderStartLocked(w) ==
    /\ SendGo(w, "start", "take")
    /\ MayLock(warehouseMutex, Sender(w))
    /\ warehouseMutex' = Locked(warehouseMutex, Sender(w))
    /\ UNCHANGED <<receivedorder, queue, wire, warehouseVars, called, lost>>

\* memLock, built locked, is unlocked at once.
SenderStart(w) ==
    /\ SendGo(w, "start", "take")
    /\ MayLock(warehouseMutex, Sender(w))
    /\ warehouseMutex' = Unlocked(Locked(warehouseMutex, Sender(w)))
    /\ UNCHANGED <<receivedorder, queue, wire, warehouseVars, called, lost>>

\* Mistake: the order is copied and not taken out.
TakeOrderCopy(w) ==
    /\ SendGo(w, "take", "send")
    /\ queue # <<>>
    /\ receivedorder' = [receivedorder EXCEPT ![w] = <<Head(queue)>>]
    /\ UNCHANGED <<queue, wire, warehouseVars, warehouseMutex, called, lost>>

\* Mistake: the newest order first.
TakeOrderNewest(w) ==
    /\ SendGo(w, "take", "send")
    /\ queue # <<>>
    /\ receivedorder' = [receivedorder EXCEPT ![w] = <<queue[Len(queue)]>>]
    /\ queue' = SubSeq(queue, 1, Len(queue) - 1)
    /\ UNCHANGED <<wire, warehouseVars, warehouseMutex, called, lost>>

\* order_queue.get() waits for an order, under the queue's mutex
TakeOrder(w) ==
    /\ SendGo(w, "take", "send")
    /\ queue # <<>>
    /\ receivedorder' = [receivedorder EXCEPT ![w] = <<Head(queue)>>]
    /\ queue' = Tail(queue)
    /\ UNCHANGED <<wire, warehouseVars, warehouseMutex, called, lost>>

\* What sendMessage returns is not looked at: an order for a warehouse that
\* is gone is lost, and the thread takes the next one.
SendOrder(w) ==
    /\ SendGo(w, "send", "take")
    /\ IF rpc[w] # "gone"
       THEN /\ wire' = [wire EXCEPT ![w] = @ \o receivedorder[w]]
            /\ UNCHANGED lost
       ELSE /\ lost' = lost \cup ToSetOf(receivedorder[w])
            /\ UNCHANGED wire
    /\ receivedorder' = [receivedorder EXCEPT ![w] = <<>>]
    /\ UNCHANGED <<queue, warehouseVars, warehouseMutex, called>>

-----------------------------------------------------------------------------
(* GetOrdersFromServer(), in the warehouse.                                *)

\* main starts the thread that connects, and the order handler.
WarehouseConnect(w) ==
    /\ rpc[w] = "absent"
    /\ rpc' = [rpc EXCEPT ![w] = "start"]
    /\ hpc' = [hpc EXCEPT ![w] = "test"]
    /\ wpc' = [wpc EXCEPT ![w] = "start"]
    /\ UNCHANGED <<receivedorder, queue, wire, incoming, itemList, orderbuff,
                   warehouseMutex, called, lost>>

ReceiverGo(w, from, to) == rpc[w] = from /\ rpc' = [rpc EXCEPT ![w] = to]

ReceiverStart(w) ==
    /\ ReceiverGo(w, "start", "recv")
    /\ MayLock(warehouseMutex, Receiver(w))
    /\ warehouseMutex' = Unlocked(Locked(warehouseMutex, Receiver(w)))
    /\ UNCHANGED <<sendVars, queue, wire, incoming, itemList, orderbuff, hpc, called, lost>>

ReceiveOrder(w) ==
    /\ ReceiverGo(w, "recv", "lock")
    /\ wire[w] # <<>>
    /\ incoming' = [incoming EXCEPT ![w] = <<Head(wire[w])>>]
    /\ wire' = [wire EXCEPT ![w] = Tail(@)]
    /\ UNCHANGED <<sendVars, queue, itemList, orderbuff, hpc, warehouseMutex, called, lost>>

ReceiverLock(w) ==
    /\ ReceiverGo(w, "lock", "handle")
    /\ MayLock(warehouseMutex, Receiver(w))
    /\ warehouseMutex' = Locked(warehouseMutex, Receiver(w))
    /\ UNCHANGED <<sendVars, queue, wire, incoming, itemList, orderbuff, hpc, called, lost>>

\* The items join those of the orders before, and all of them go into
\* orderbuff, under mutex_orderbuff.
BufferOrder(w) ==
    /\ ReceiverGo(w, "handle", "notify")
    /\ hpc[w] # "drain"
    /\ LET o == incoming[w][1]
           list == Plus(itemList[w], o.items)
       IN  /\ itemList' = [itemList EXCEPT ![w] = list]
           /\ orderbuff' = [orderbuff EXCEPT ![w] = Append(@, [o EXCEPT !.items = list])]
    /\ incoming' = [incoming EXCEPT ![w] = <<>>]
    /\ UNCHANGED <<sendVars, queue, wire, hpc, warehouseMutex, called, lost>>

\* cv_server_order.notify_one(), and the end of the loop's body
NotifyHandler(w) ==
    /\ ReceiverGo(w, "notify", "recv")
    /\ hpc' = [hpc EXCEPT ![w] = IF @ = "asleep" THEN "test" ELSE @]
    /\ warehouseMutex' = Unlocked(warehouseMutex)
    /\ UNCHANGED <<sendVars, queue, wire, incoming, itemList, orderbuff, called, lost>>

-----------------------------------------------------------------------------
(* ClientOrderHandler(), which holds mutex_orderbuff while it drains.      *)

HandlerTest(w) ==
    /\ hpc[w] = "test"
    /\ hpc' = [hpc EXCEPT ![w] = IF Len(orderbuff[w]) = GroupSize THEN "drain" ELSE "asleep"]
    /\ UNCHANGED <<sendVars, queue, wire, rpc, incoming, itemList, orderbuff,
                   warehouseMutex, called, lost>>

HandlerSpuriousWake(w) ==
    /\ hpc[w] = "asleep"
    /\ hpc' = [hpc EXCEPT ![w] = "test"]
    /\ UNCHANGED <<sendVars, queue, wire, rpc, incoming, itemList, orderbuff,
                   warehouseMutex, called, lost>>

HandlerCall(w) ==
    /\ hpc[w] = "drain"
    /\ called' = [called EXCEPT ![w] = Append(@, Head(orderbuff[w]))]
    /\ orderbuff' = [orderbuff EXCEPT ![w] = Tail(@)]
    /\ hpc' = [hpc EXCEPT ![w] = IF Len(orderbuff[w]) = 1 THEN "test" ELSE @]
    /\ UNCHANGED <<sendVars, queue, wire, rpc, incoming, itemList, warehouseMutex, lost>>

\* The warehouse ends, or is killed.  Its thread in the web server stays.
WarehouseLeaves(w) ==
    /\ w \in MayLeave /\ rpc[w] \notin {"absent", "gone"}
    /\ rpc' = [rpc EXCEPT ![w] = "gone"]
    /\ hpc' = [hpc EXCEPT ![w] = "gone"]
    /\ lost' = lost \cup ToSetOf(wire[w] \o incoming[w] \o orderbuff[w])
    /\ wire' = [wire EXCEPT ![w] = <<>>]
    /\ incoming' = [incoming EXCEPT ![w] = <<>>]
    /\ orderbuff' = [orderbuff EXCEPT ![w] = <<>>]
    /\ warehouseMutex' = Abandoned(warehouseMutex, Receiver(w))
    /\ UNCHANGED <<sendVars, queue, itemList, called>>

-----------------------------------------------------------------------------
SenderStep(w) == SenderStart(w) \/ TakeOrder(w) \/ SendOrder(w)

ReceiverStep(w) ==
    \/ ReceiverStart(w) \/ ReceiveOrder(w) \/ ReceiverLock(w) \/ BufferOrder(w)
    \/ NotifyHandler(w)

HandlerStep(w) == HandlerTest(w) \/ HandlerCall(w)

IntakeStep(w) ==
    \/ WarehouseConnect(w) \/ SenderStep(w) \/ ReceiverStep(w) \/ HandlerStep(w)
    \/ HandlerSpuriousWake(w) \/ WarehouseLeaves(w)
=============================================================================
