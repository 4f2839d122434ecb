------------------------------ MODULE OrderServer ------------------------------
(***************************************************************************)
(* The clients and the web server's side towards them: makeorder and the   *)
(* other commands of the client's menu, one connection per client, and     *)
(* one service thread per connection, which turns "add" messages into      *)
(* orders for the order queue.                                             *)
(*                                                                         *)
(* A product is known by its kind, that is, by its name at the client and  *)
(* by its number from initializeItemID on: the two are in bijection over   *)
(* the catalogue the server loads.  An item list counts units per kind;    *)
(* the text it travels as is left out.  Orders carry, for the properties,  *)
(* their maker's count and the kinds of the cart.                          *)
(***************************************************************************)
EXTENDS NamedMutex, Sequences

CONSTANTS
    Clients, Kinds,
    Carts,         \* the carts a client may fill: functions Kinds -> Nat
    MaxOrders,     \* bound: orders each client makes
    MayLeave       \* clients and warehouses that may go

VARIABLES
    cpc,           \* client: program point
    order,         \* client: Order
    made,          \* client: orders made
    up,            \* connection, towards the server
    spc,           \* service: program point
    msg,           \* service: msg, until it is served
    basket,        \* service: ItemBasket
    serverMutex,   \* Server_Mutex
    queue          \* order_queue

clientVars == <<cpc, order, made>>
serverVars == <<cpc, order, made, up, spc, msg, basket, serverMutex, queue>>

Items == [Kinds -> Nat]
NoItems == [k \in Kinds |-> 0]
Plus(a, b) == [k \in Kinds |-> a[k] + b[k]]
In(items) == {k \in Kinds : items[k] > 0}

OrderRecord == [client : Clients, number : Nat, items : Items, asked : SUBSET Kinds]
AddMessage == [type : {"add"}, order : OrderRecord]
Say(type) == [type |-> type]
Messages == AddMessage \cup {Say(t) : t \in {"search", "goodbye", "nullptr"}}

ServerTypeOK ==
    /\ cpc \in [Clients -> {"absent", "menu", "waiting", "gone"}]
    /\ order \in [Clients -> Items]
    /\ \A c \in Clients : made[c] \in 0 .. MaxOrders[c]
    /\ up \in [Clients -> Seq(Messages)]
    /\ spc \in [Clients -> {"absent", "start", "recv", "lock", "serve", "reply", "ended"}]
    /\ msg \in [Clients -> Seq(Messages)]
    /\ basket \in [Clients -> Items]
    /\ serverMutex \in MutexOf(Clients)
    /\ queue \in Seq(OrderRecord)

ServerInit ==
    /\ cpc = [c \in Clients |-> "absent"]
    /\ order = [c \in Clients |-> NoItems]
    /\ made = [c \in Clients |-> 0]
    /\ up = [c \in Clients |-> <<>>]
    /\ spc = [c \in Clients |-> "absent"]
    /\ msg = [c \in Clients |-> <<>>]
    /\ basket = [c \in Clients |-> NoItems]
    /\ serverMutex = FreeMutex
    /\ queue = <<>>

-----------------------------------------------------------------------------
(* The client.                                                             *)

ClientSays(c, m, point) ==
    /\ up' = [up EXCEPT ![c] = Append(@, m)]
    /\ cpc' = [cpc EXCEPT ![c] = point]

\* main opens the socket and asks for the list of products.  The server's
\* accept loop starts a service thread.
ClientConnect(c) ==
    /\ cpc[c] = "absent"
    /\ ClientSays(c, Say("search"), "waiting")
    /\ spc' = [spc EXCEPT ![c] = "start"]
    /\ UNCHANGED <<order, made, msg, basket, serverMutex, queue>>

ClientSearch(c) ==
    /\ cpc[c] = "menu"
    /\ ClientSays(c, Say("search"), "waiting")
    /\ UNCHANGED <<order, made, spc, msg, basket, serverMutex, queue>>

\* makeorder adds the cart to Order, which it never clears, and sends all
\* of Order.
MakeOrder(c, cart) ==
    /\ cpc[c] = "menu" /\ made[c] < MaxOrders[c]
    /\ order' = [order EXCEPT ![c] = Plus(@, cart)]
    /\ made' = [made EXCEPT ![c] = @ + 1]
    /\ ClientSays(c, [type |-> "add",
                      order |-> [client |-> c, number |-> made'[c],
                                 items |-> order'[c], asked |-> In(cart)]], "waiting")
    /\ UNCHANGED <<spc, msg, basket, serverMutex, queue>>

\* sayGoodbye, and the end of the process
ClientQuit(c) ==
    /\ c \in MayLeave /\ cpc[c] = "menu"
    /\ ClientSays(c, Say("goodbye"), "gone")
    /\ UNCHANGED <<order, made, spc, msg, basket, serverMutex, queue>>

\* The process is killed, or its connection breaks.
ClientDies(c) ==
    /\ c \in MayLeave /\ cpc[c] \in {"menu", "waiting"}
    /\ cpc' = [cpc EXCEPT ![c] = "gone"]
    /\ UNCHANGED <<order, made, up, spc, msg, basket, serverMutex, queue>>

-----------------------------------------------------------------------------
(* service(), one thread per client.                                       *)

ServiceGo(c, from, to) == spc[c] = from /\ spc' = [spc EXCEPT ![c] = to]

\* memLock, built locked, is unlocked at once.
ServiceStart(c) ==
    /\ ServiceGo(c, "start", "recv")
    /\ MayLock(serverMutex, c)
    /\ serverMutex' = Unlocked(Locked(serverMutex, c))
    /\ UNCHANGED <<clientVars, up, msg, basket, queue>>

\* recvMessage: what was sent, in order, and nullptr after the last message
\* of a client that is gone
ServiceReceive(c) ==
    /\ ServiceGo(c, "recv", "lock")
    /\ IF up[c] # <<>>
       THEN /\ msg' = [msg EXCEPT ![c] = <<Head(up[c])>>]
            /\ up' = [up EXCEPT ![c] = Tail(@)]
       ELSE /\ cpc[c] = "gone"
            /\ msg' = [msg EXCEPT ![c] = <<Say("nullptr")>>]
            /\ UNCHANGED up
    /\ UNCHANGED <<clientVars, basket, serverMutex, queue>>

ServiceLock(c) ==
    /\ ServiceGo(c, "lock", "serve")
    /\ MayLock(serverMutex, c)
    /\ serverMutex' = Locked(serverMutex, c)
    /\ UNCHANGED <<clientVars, up, msg, basket, queue>>

Hears(c, types) == msg[c] # <<>> /\ msg[c][1].type \in types

\* Mistake: once filled, the basket takes no new kind.
BasketFilled(b, items) == IF In(b) # {} THEN b ELSE items

\* map::insert leaves a kind that is in the basket as it is.
BasketInsert(b, items) == [k \in Kinds |-> IF b[k] > 0 THEN b[k] ELSE items[k]]

\* ADD: the lock and unlock around each item only nest in the one held.
ServeAdd(c) ==
    /\ ServiceGo(c, "serve", "reply") /\ Hears(c, {"add"})
    /\ LET o == msg[c][1].order
           b == BasketInsert(basket[c], o.items)
       IN  /\ basket' = [basket EXCEPT ![c] = b]
           /\ queue' = Append(queue, [o EXCEPT !.items = b])
    /\ msg' = [msg EXCEPT ![c] = <<>>]
    /\ UNCHANGED <<clientVars, up, serverMutex>>

ServeSearch(c) ==
    /\ ServiceGo(c, "serve", "reply") /\ Hears(c, {"search"})
    /\ msg' = [msg EXCEPT ![c] = <<>>]
    /\ UNCHANGED <<clientVars, up, basket, serverMutex, queue>>

\* Mistake: the mutex is kept while the service waits for its client.
ServeReplyLocked(c) ==
    /\ ServiceGo(c, "reply", "recv")
    /\ cpc' = [cpc EXCEPT ![c] = IF @ = "waiting" THEN "menu" ELSE @]
    /\ UNCHANGED <<order, made, up, msg, basket, serverMutex, queue>>

\* The answer, which a client that is gone does not get, and mutex.unlock()
ServeReply(c) ==
    /\ ServiceGo(c, "reply", "recv")
    /\ serverMutex' = Unlocked(serverMutex)
    /\ cpc' = [cpc EXCEPT ![c] = IF @ = "waiting" THEN "menu" ELSE @]
    /\ UNCHANGED <<order, made, up, msg, basket, queue>>

\* GOODBYE returns and nullptr leaves the loop, both with the mutex locked.
\* A named mutex nobody else has open is gone with the last handle to it,
\* which a service that is starting may have opened or not.
ServiceEnd(c) ==
    /\ ServiceGo(c, "serve", "ended") /\ Hears(c, {"goodbye", "nullptr"})
    /\ msg' = [msg EXCEPT ![c] = <<>>]
    /\ \/ /\ \A d \in Clients \ {c} : spc[d] \in {"absent", "start", "ended"}
          /\ serverMutex' = FreeMutex
       \/ /\ \E d \in Clients \ {c} : spc[d] \notin {"absent", "ended"}
          /\ serverMutex' = Abandoned(serverMutex, c)
    /\ UNCHANGED <<clientVars, up, basket, queue>>

-----------------------------------------------------------------------------
ClientStep(c) ==
    \/ ClientConnect(c) \/ ClientSearch(c) \/ (\E cart \in Carts : MakeOrder(c, cart))
    \/ ClientQuit(c) \/ ClientDies(c)

ServiceStep(c) ==
    \/ ServiceStart(c) \/ ServiceReceive(c) \/ ServiceLock(c)
    \/ ServeAdd(c) \/ ServeSearch(c) \/ ServeReply(c) \/ ServiceEnd(c)
=============================================================================
