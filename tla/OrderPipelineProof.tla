--------------------------- MODULE OrderPipelineProof ---------------------------
(***************************************************************************)
(* Proofs about OrderPipeline, for any number of clients and warehouses,   *)
(* and any number of orders of each: its types (TypeCorrect), that a       *)
(* delivery is called for with all that the client asked for               *)
(* (CalledAsAsked), that each warehouse calls for the orders of a client   *)
(* in the order they were made in (CallsInOrder), and that an order is in  *)
(* one place at any time (PlacedOnce).                                     *)
(*                                                                         *)
(* The last two rest on a picture of the pipeline as lines: for a client   *)
(* and a warehouse, the eight places an order goes through on its way from *)
(* the client's socket to CallDelivery, each a sequence of numbers.  A     *)
(* step of any thread hands the first of a place on to the next one, lets  *)
(* a larger number in at the far end, or empties places; the numbers are   *)
(* in line whatever is done.  The lines of one client meet in the queue of *)
(* the web server, where a number goes to one of them.                     *)
(***************************************************************************)
EXTENDS OrderPipeline, SequenceTheorems, FiniteSetTheorems, TLAPS

-----------------------------------------------------------------------------
(* Sequences, as threads hand them on: one end grows, the other shrinks.   *)

\* What is appended is the last element; the rest stays where it is.
LEMMA Appended ==
    ASSUME NEW S, NEW s \in Seq(S), NEW e \in S
    PROVE  /\ Append(s, e) \in Seq(S) /\ Append(s, e) # <<>>
           /\ Len(Append(s, e)) = Len(s) + 1 /\ Len(s) \in Nat
           /\ Append(s, e)[Len(s) + 1] = e
           /\ \A k \in 1 .. Len(s) : Append(s, e)[k] = s[k]
  BY AppendProperties, LenProperties

\* Without its head a sequence has each element one position earlier.
LEMMA Shortened ==
    ASSUME NEW S, NEW s \in Seq(S), s # <<>>
    PROVE  /\ Head(s) \in S /\ Head(s) = s[1] /\ Tail(s) \in Seq(S)
           /\ Len(s) \in Nat \ {0} /\ Len(Tail(s)) = Len(s) - 1
           /\ \A k \in 1 .. Len(s) - 1 : Tail(s)[k] = s[k + 1]
           /\ Len(s) # 1 => Tail(s) # <<>>
           /\ Len(s) = 1 => Tail(s) = <<>>
<1>1. Len(s) \in Nat \ {0} BY EmptySeq
<1>2. /\ Head(s) \in S /\ Tail(s) \in Seq(S) /\ Len(Tail(s)) = Len(s) - 1
      /\ \A k \in 1 .. Len(Tail(s)) : Tail(s)[k] = s[k + 1]
  BY HeadTailProperties
<1>3. Head(s) = s[1] BY <1>1
<1>4. Len(<<>>) = 0 /\ \A q \in Seq(S) : q # <<>> => Len(q) \in Nat \ {0} BY EmptySeq
<1> DEFINE r == Tail(s)
<1>5. (Len(s) # 1 => r # <<>>) /\ (Len(s) = 1 => r = <<>>)
  <2>1. r \in Seq(S) /\ Len(r) = Len(s) - 1 BY <1>2
  <2> HIDE DEF r
  <2>2. r # <<>> => Len(r) # 0
    <3>1. r # <<>> => Len(r) \in Nat \ {0} BY ONLY <1>4, <2>1, Zenon
    <3> QED BY ONLY <3>1
  <2>3. r = <<>> => Len(r) = 0 BY ONLY <1>4
  <2> QED BY ONLY <1>1, <2>1, <2>2, <2>3
<1> QED BY <1>1, <1>2, <1>3, <1>5

\* A sequence of one element.
LEMMA Alone ==
    ASSUME NEW S, NEW e \in S
    PROVE  <<e>> \in Seq(S) /\ Len(<<e>>) = 1 /\ <<e>>[1] = e /\ <<e>> # <<>> /\ Append(<<>>, e) = <<e>>
  OBVIOUS

\* A sequence of length one is its first element.
LEMMA OnlyOne ==
    ASSUME NEW S, NEW s \in Seq(S), Len(s) = 1
    PROVE  s = <<s[1]>> /\ s[1] \in S /\ s # <<>>
<1>1. s[1] \in S BY ElementOfSeq
<1> QED BY <1>1

-----------------------------------------------------------------------------
(* Orders and messages, and what happens to the items of an order.         *)

\* An order that has every kind its cart had
KeptOrder == {o \in OrderRecord : o.number > 0 /\ o.asked \subseteq In(o.items)}

\* What a client says
MessagesOf(c) ==
    [type : {"add"}, order : {o \in KeptOrder : o.client = c}]
      \cup {Say(t) : t \in {"search", "goodbye", "nullptr"}}

\* The fields of an order as every place keeps it.
LEMMA OrderFields ==
    ASSUME NEW o \in KeptOrder
    PROVE  /\ o \in OrderRecord /\ o.items \in Items /\ o.client \in Clients
           /\ o.number \in Nat /\ o.number > 0 /\ o.asked \subseteq In(o.items)
  BY DEF KeptOrder, OrderRecord

\* The items may only grow on the way, and nothing else changes.
LEMMA MoreItems ==
    ASSUME NEW o \in KeptOrder, NEW items \in Items, In(o.items) \subseteq In(items)
    PROVE  LET p == [o EXCEPT !.items = items]
           IN  p \in KeptOrder /\ p.client = o.client /\ p.number = o.number
  BY DEF KeptOrder, OrderRecord

\* A client may send the messages without an order.
LEMMA SaidMessage ==
    ASSUME NEW c, NEW t \in {"search", "goodbye", "nullptr"}
    PROVE  Say(t) \in MessagesOf(c) /\ Say(t).type = t
  BY DEF MessagesOf, Say

\* A client may send its own orders.
LEMMA AddedMessage ==
    ASSUME NEW c, NEW o \in KeptOrder, o.client = c
    PROVE  LET m == [type |-> "add", order |-> o]
           IN  m \in MessagesOf(c) /\ m.type = "add" /\ m.order = o
  BY DEF MessagesOf

\* The order of a message is one of the client it comes from.
LEMMA MessageFields ==
    ASSUME NEW c, NEW m \in MessagesOf(c), m.type = "add"
    PROVE  m.order \in KeptOrder /\ m.order.client = c
  BY DEF MessagesOf, Say

\* A client's messages are among those the type invariant allows.
LEMMA MessageTypes ==
    ASSUME NEW c PROVE MessagesOf(c) \subseteq Messages
  BY DEF MessagesOf, Messages, AddMessage, KeptOrder, Say

\* Adding two collections of items loses none of them.
LEMMA PlusItems ==
    ASSUME NEW a \in Items, NEW b \in Items
    PROVE  Plus(a, b) \in Items /\ In(a) \subseteq In(Plus(a, b)) /\ In(b) \subseteq In(Plus(a, b))
  BY DEF Items, Plus, In

\* A basket that is put into an order loses none of its items.
LEMMA BasketItems ==
    ASSUME NEW b \in Items, NEW items \in Items
    PROVE  BasketInsert(b, items) \in Items /\ In(items) \subseteq In(BasketInsert(b, items))
  BY DEF Items, BasketInsert, In

-----------------------------------------------------------------------------
(* Mutexes.                                                                *)

\* A thread that starts locks and unlocks, and so has the mutex afterwards
\* if it was abandoned.
LEMMA StartedMutex ==
    ASSUME NEW T, NEW t \in T, NEW m \in MutexOf(T), m.owner = Nobody, m.depth = 0
    PROVE  LET n == Unlocked(Locked(m, t))
           IN  /\ n \in MutexOf(T) /\ ~ n.left
               /\ \/ n.owner = Nobody /\ n.depth = 0
                  \/ n.owner = t /\ n.depth = 1
<1> DEFINE l == Locked(m, t)
<1>1. l.owner = t /\ l.depth = (IF m.left THEN 2 ELSE 1) /\ l.left = FALSE
      /\ l \in [owner : T, depth : 0 .. 2, left : BOOLEAN]
  BY DEF Locked, MutexOf
<1> HIDE DEF l
<1>2. Unlocked(l) = IF l.depth = 1 THEN FreeMutex ELSE [l EXCEPT !.depth = 1]
  BY <1>1 DEF Unlocked
<1>3. CASE l.depth = 1
  BY <1>1, <1>2, <1>3 DEF FreeMutex, MutexOf, l
<1>4. CASE l.depth # 1
  <2>1. [l EXCEPT !.depth = 1] \in [owner : T, depth : 0 .. 2, left : BOOLEAN]
    BY <1>1
  <2> QED BY <1>1, <1>2, <1>4, <2>1 DEF MutexOf, l
<1> QED BY <1>3, <1>4

\* Who has it twice has it once then, and who has it once gives it up.
LEMMA UnlockedMutex ==
    ASSUME NEW T, NEW t \in T, NEW m \in MutexOf(T), m.owner = t, m.depth \in 1 .. 2, ~ m.left
    PROVE  LET n == Unlocked(m)
           IN  /\ n \in MutexOf(T) /\ ~ n.left
               /\ \/ n.owner = Nobody /\ n.depth = 0
                  \/ n.owner = t /\ n.depth = 1
<1>1. CASE m.depth = 1 BY <1>1 DEF Unlocked, FreeMutex, MutexOf
<1>2. CASE m.depth = 2 BY <1>2 DEF Unlocked, MutexOf
<1> QED BY <1>1, <1>2

\* A thread that ends leaves its mutex to nobody.
LEMMA AbandonedMutex ==
    ASSUME NEW T, NEW t, NEW m, m.owner = t
    PROVE  LET n == Abandoned(m, t) IN n \in MutexOf(T) /\ n.owner = Nobody /\ n.depth = 0
<1>1. FreeMutex \in MutexOf(T) /\ FreeMutex.owner = Nobody /\ FreeMutex.depth = 0
  BY DEF FreeMutex, MutexOf
<1> DEFINE left == TRUE
           n == [FreeMutex EXCEPT !.left = left]
<1>2. left \in BOOLEAN OBVIOUS
<1> HIDE DEF left
<1>3. n \in MutexOf(T) /\ n.owner = Nobody /\ n.depth = 0 BY <1>1, <1>2 DEF MutexOf
<1>4. Abandoned(m, t) = n BY DEF Abandoned, left
<1> QED BY <1>3, <1>4

-----------------------------------------------------------------------------
(* The inductive invariant: types.                                         *)

Sessions ==
    /\ cpc \in [Clients -> {"absent", "menu", "waiting", "gone"}]
    /\ spc \in [Clients -> {"absent", "start", "recv", "lock", "serve", "reply", "ended"}]
    /\ order \in [Clients -> Items] /\ basket \in [Clients -> Items]
    /\ made \in [Clients -> Nat] /\ \A c \in Clients : made[c] =< MaxOrders[c]
    /\ up \in [Clients -> Seq(Messages)] /\ \A c \in Clients : up[c] \in Seq(MessagesOf(c))
    /\ msg \in [Clients -> Seq(Messages)] /\ \A c \in Clients : msg[c] \in Seq(MessagesOf(c))
    /\ queue \in Seq(KeptOrder)

\* A service has a message in hand from receiving it until it has served it.
ServicePoints ==
    \A c \in Clients :
       /\ cpc[c] = "absent" => spc[c] = "absent"
       /\ IF spc[c] \in {"lock", "serve"} THEN Len(msg[c]) = 1 ELSE msg[c] = <<>>

\* Who has Server_Mutex, and how often: a service may keep it while it waits
\* for the next message, and then has it twice at the most.
ServerMutexInv ==
    /\ serverMutex \in MutexOf(Clients)
    /\ serverMutex.owner = Nobody => serverMutex.depth = 0
    /\ \A c \in Clients :
          /\ serverMutex.owner = c =>
                /\ ~ serverMutex.left /\ serverMutex.depth # 0
                /\ spc[c] \in {"recv", "lock", "serve", "reply"}
                /\ spc[c] \in {"recv", "lock"} => serverMutex.depth = 1
          /\ spc[c] \in {"serve", "reply"} => serverMutex.owner = c

Intake ==
    /\ wpc \in [Warehouses -> {"absent", "start", "take", "send"}]
    /\ rpc \in [Warehouses -> {"absent", "start", "recv", "lock", "handle", "notify", "gone"}]
    /\ hpc \in [Warehouses -> {"absent", "test", "asleep", "drain", "gone"}]
    /\ itemList \in [Warehouses -> Items]
    /\ receivedorder \in [Warehouses -> Seq(KeptOrder)] /\ wire \in [Warehouses -> Seq(KeptOrder)]
    /\ incoming \in [Warehouses -> Seq(KeptOrder)] /\ orderbuff \in [Warehouses -> Seq(KeptOrder)]
    /\ called \in [Warehouses -> Seq(KeptOrder)] /\ lost \in SUBSET KeptOrder

\* The threads of a warehouse have an order in hand likewise, and the handler
\* drains what is there.
IntakePoints ==
    \A w \in Warehouses :
       /\ rpc[w] = "absent" => wpc[w] = "absent"
       /\ IF wpc[w] = "send" THEN Len(receivedorder[w]) = 1 ELSE receivedorder[w] = <<>>
       /\ IF rpc[w] \in {"lock", "handle"} THEN Len(incoming[w]) = 1 ELSE incoming[w] = <<>>
       /\ hpc[w] = "drain" => orderbuff[w] # <<>>

Threads == {Sender(w) : w \in Warehouses} \cup {Receiver(w) : w \in Warehouses}

\* Who has Warehouse_Mutex: warehouseservice may have it for ever, once.
WarehouseMutexInv ==
    /\ warehouseMutex \in MutexOf(Threads)
    /\ warehouseMutex.owner = Nobody => warehouseMutex.depth = 0
    /\ \A w \in Warehouses :
          /\ warehouseMutex.owner = Sender(w) =>
                /\ ~ warehouseMutex.left /\ warehouseMutex.depth = 1
                /\ wpc[w] \in {"take", "send"}
          /\ warehouseMutex.owner = Receiver(w) =>
                /\ ~ warehouseMutex.left /\ warehouseMutex.depth # 0
                /\ rpc[w] \in {"recv", "lock", "handle", "notify"}
                /\ rpc[w] \in {"recv", "lock"} => warehouseMutex.depth = 1
          /\ rpc[w] \in {"handle", "notify"} => warehouseMutex.owner = Receiver(w)

TypeInv ==
    Sessions /\ ServicePoints /\ ServerMutexInv /\ Intake /\ IntakePoints /\ WarehouseMutexInv

\* The initial states satisfy the invariant.
LEMMA TypeStart == ASSUME Init PROVE TypeInv
<1> USE PipelineAssumption DEF Init, ServerInit, IntakeInit, FreeMutex
<1>1. NoItems \in Items BY DEF NoItems, Items
<1>2. \A S : <<>> \in Seq(S) BY EmptySeq
<1>3. Sessions BY <1>1, <1>2 DEF Sessions
<1>4. ServicePoints BY DEF ServicePoints
<1>5. ServerMutexInv
  <2>1. serverMutex.owner = Nobody /\ serverMutex.depth = 0 /\ serverMutex \in MutexOf(Clients)
    BY DEF MutexOf
  <2> QED BY <2>1 DEF ServerMutexInv
<1>6. Intake BY <1>1, <1>2 DEF Intake
<1>7. IntakePoints BY DEF IntakePoints
<1>8. WarehouseMutexInv
  <2>1. warehouseMutex.owner = Nobody /\ warehouseMutex.depth = 0 /\ warehouseMutex \in MutexOf(Threads)
    BY DEF MutexOf
  <2>2. \A w \in Warehouses : Nobody # Sender(w) /\ Nobody # Receiver(w) OBVIOUS
  <2> QED BY <2>1, <2>2 DEF WarehouseMutexInv
<1> QED BY <1>3, <1>4, <1>5, <1>6, <1>7, <1>8 DEF TypeInv

-----------------------------------------------------------------------------
(* Clients and services keep it.                                           *)

\* A client's step keeps the types of the sessions.
LEMMA ClientTypes ==
    ASSUME Sessions, ServicePoints, NEW c \in Clients, ClientStep(c)
    PROVE  Sessions' /\ ServicePoints'
<1> USE DEF Sessions, ServicePoints
<1>1. CASE ClientConnect(c) \/ ClientSearch(c) \/ ClientQuit(c)
  <2> DEFINE says(m) == up' = [up EXCEPT ![c] = Append(@, m)]
  <2>1. PICK t \in {"search", "goodbye"} : says(Say(t))
    BY <1>1 DEF ClientConnect, ClientSearch, ClientQuit, ClientSays
  <2>2. Say(t) \in MessagesOf(c) BY <2>1, SaidMessage
  <2>3. Append(up[c], Say(t)) \in Seq(MessagesOf(c)) BY <2>2, Appended
  <2>4. Append(up[c], Say(t)) \in Seq(Messages) BY <2>3, MessageTypes, SeqMonotonic
  <2> QED BY <1>1, <2>1, <2>3, <2>4 DEF ClientConnect, ClientSearch, ClientQuit, ClientSays
<1>2. ASSUME NEW cart \in Carts, MakeOrder(c, cart) PROVE Sessions' /\ ServicePoints'
  <2> DEFINE o == [client |-> c, number |-> made'[c], items |-> order'[c], asked |-> In(cart)]
             m == [type |-> "add", order |-> o]
  <2>1. /\ order' = [order EXCEPT ![c] = Plus(@, cart)] /\ made' = [made EXCEPT ![c] = @ + 1]
        /\ up' = [up EXCEPT ![c] = Append(@, m)] /\ cpc' = [cpc EXCEPT ![c] = "waiting"]
        /\ UNCHANGED <<spc, msg, basket, serverMutex, queue>>
        /\ cpc[c] = "menu" /\ made[c] < MaxOrders[c]
    BY <1>2 DEF MakeOrder, ClientSays
  <2>2. cart \in Items BY PipelineAssumption
  <2>3. /\ order'[c] = Plus(order[c], cart) /\ Plus(order[c], cart) \in Items
        /\ In(cart) \subseteq In(Plus(order[c], cart))
    BY <2>1, <2>2, PlusItems
  <2>4. made'[c] = made[c] + 1 /\ made[c] \in Nat BY <2>1
  <2>5. o \in KeptOrder /\ o.client = c
    <3>1. In(cart) \subseteq Kinds BY DEF In
    <3>2. o \in OrderRecord BY <2>3, <2>4, <3>1 DEF OrderRecord
    <3> QED BY <2>3, <2>4, <3>2 DEF KeptOrder
  <2>6. m \in MessagesOf(c) BY <2>5, AddedMessage
  <2> HIDE DEF m
  <2>7. Append(up[c], m) \in Seq(MessagesOf(c)) BY <2>6, Appended
  <2>8. Append(up[c], m) \in Seq(Messages) BY <2>7, MessageTypes, SeqMonotonic
  <2>9. MaxOrders \in [Clients -> Nat] BY PipelineAssumption
  <2>10. made' \in [Clients -> Nat] /\ \A d \in Clients : made'[d] =< MaxOrders[d]
    <3>0. made[c] \in Nat /\ MaxOrders[c] \in Nat /\ made[c] < MaxOrders[c] BY <2>1, <2>4, <2>9
    <3>1. made[c] + 1 \in Nat /\ made[c] + 1 =< MaxOrders[c] BY ONLY <3>0
    <3> QED BY <2>1, <3>1
  <2>11. order' \in [Clients -> Items] BY <2>1, <2>3
  <2> QED BY <2>1, <2>7, <2>8, <2>10, <2>11
<1>3. CASE ClientDies(c) BY <1>3 DEF ClientDies
<1> QED BY <1>1, <1>2, <1>3 DEF ClientStep

\* A client's step leaves the server's mutex to its holders.
LEMMA ClientKeepsMutex ==
    ASSUME ServicePoints, ServerMutexInv, NEW c \in Clients, ClientStep(c),
           spc \in [Clients -> {"absent", "start", "recv", "lock", "serve", "reply", "ended"}]
    PROVE  ServerMutexInv'
<1>1. UNCHANGED serverMutex /\ (UNCHANGED spc \/ (spc[c] = "absent" /\ spc' = [spc EXCEPT ![c] = "start"]))
  BY DEF ClientStep, ClientConnect, ClientSearch, ClientQuit, MakeOrder, ClientDies, ServicePoints
<1> QED BY <1>1 DEF ServerMutexInv

\* What a service takes in hand is a message of its client, and what it puts
\* into the queue an order of it, with all that was asked for.
LEMMA ServedOrder ==
    ASSUME Sessions, ServicePoints, NEW c \in Clients, ServeAdd(c)
    PROVE  /\ msg[c][1] \in MessagesOf(c) /\ msg[c][1].type = "add"
           /\ msg[c][1].order \in KeptOrder /\ msg[c][1].order.client = c
           /\ \E p \in KeptOrder :
                /\ queue' = Append(queue, p)
                /\ p.client = c /\ p.number = msg[c][1].order.number
           /\ basket' \in [Clients -> Items]
<1> DEFINE o == msg[c][1].order
           b == BasketInsert(basket[c], o.items)
<1>1. /\ spc[c] = "serve" /\ msg[c] # <<>> /\ msg[c][1].type = "add"
      /\ basket' = [basket EXCEPT ![c] = b] /\ queue' = Append(queue, [o EXCEPT !.items = b])
  BY DEF ServeAdd, ServiceGo, Hears
<1>2. msg[c][1] \in MessagesOf(c) /\ basket[c] \in Items
  BY <1>1, OnlyOne DEF Sessions, ServicePoints
<1>3. o \in KeptOrder /\ o.client = c BY <1>1, <1>2, MessageFields
<1>4. o.items \in Items BY <1>3, OrderFields
<1>5. b \in Items /\ In(o.items) \subseteq In(b) BY <1>2, <1>4, BasketItems
<1>6. LET p == [o EXCEPT !.items = b]
      IN  p \in KeptOrder /\ p.client = o.client /\ p.number = o.number
  BY <1>3, <1>5, MoreItems
<1>7. basket' \in [Clients -> Items] BY <1>1, <1>5 DEF Sessions
<1> QED BY <1>1, <1>2, <1>3, <1>6, <1>7

\* A service's step keeps the types of the sessions.
LEMMA ServiceTypes ==
    ASSUME Sessions, ServicePoints, NEW c \in Clients, ServiceStep(c)
    PROVE  Sessions' /\ ServicePoints'
<1> USE DEF ServiceGo, clientVars
<1>1. CASE ServiceStart(c) \/ ServiceLock(c)
  BY <1>1 DEF ServiceStart, ServiceLock, Sessions, ServicePoints
<1>2. CASE ServiceReceive(c)
  <2>1. CASE up[c] # <<>>
    <3> DEFINE m == Head(up[c])
    <3>1. m \in MessagesOf(c) /\ Tail(up[c]) \in Seq(MessagesOf(c))
      BY <2>1, Shortened DEF Sessions
    <3>2. /\ msg' = [msg EXCEPT ![c] = <<m>>] /\ up' = [up EXCEPT ![c] = Tail(@)]
          /\ spc[c] = "recv" /\ spc' = [spc EXCEPT ![c] = "lock"]
          /\ UNCHANGED <<cpc, order, made, basket, serverMutex, queue>>
      BY <1>2, <2>1 DEF ServiceReceive
    <3> HIDE DEF m
    <3>3. <<m>> \in Seq(MessagesOf(c)) /\ Len(<<m>>) = 1 BY <3>1, Alone
    <3>4. <<m>> \in Seq(Messages) /\ Tail(up[c]) \in Seq(Messages)
      BY <3>1, <3>3, MessageTypes, SeqMonotonic
    <3>5. Sessions' BY <3>1, <3>2, <3>3, <3>4 DEF Sessions
    <3>6. ServicePoints' BY <3>2, <3>3 DEF Sessions, ServicePoints
    <3> QED BY <3>5, <3>6
  <2>2. CASE up[c] = <<>>
    <3> DEFINE m == Say("nullptr")
    <3>1. m \in MessagesOf(c) BY SaidMessage
    <3>2. /\ msg' = [msg EXCEPT ![c] = <<m>>]
          /\ spc[c] = "recv" /\ spc' = [spc EXCEPT ![c] = "lock"]
          /\ UNCHANGED <<cpc, order, made, up, basket, serverMutex, queue>>
      BY <1>2, <2>2 DEF ServiceReceive
    <3> HIDE DEF m
    <3>3. <<m>> \in Seq(MessagesOf(c)) /\ Len(<<m>>) = 1 BY <3>1, Alone
    <3>4. <<m>> \in Seq(Messages) BY <3>3, MessageTypes, SeqMonotonic
    <3>5. Sessions' BY <3>2, <3>3, <3>4 DEF Sessions
    <3>6. ServicePoints' BY <3>2, <3>3 DEF Sessions, ServicePoints
    <3> QED BY <3>5, <3>6
  <2> QED BY <2>1, <2>2
<1>3. CASE ServeAdd(c)
  <2>1. PICK p \in KeptOrder : queue' = Append(queue, p)
    BY <1>3, ServedOrder
  <2>2. queue' \in Seq(KeptOrder) /\ basket' \in [Clients -> Items]
    BY <1>3, <2>1, Appended, ServedOrder DEF Sessions
  <2>3. <<>> \in Seq(MessagesOf(c)) /\ <<>> \in Seq(Messages) BY EmptySeq
  <2>4. /\ msg' = [msg EXCEPT ![c] = <<>>] /\ spc' = [spc EXCEPT ![c] = "reply"]
        /\ spc[c] = "serve" /\ UNCHANGED <<cpc, order, made, up>>
    BY <1>3 DEF ServeAdd
  <2>5. Sessions'
    <3> SUFFICES msg' \in [Clients -> Seq(Messages)] /\ \A d \in Clients : msg'[d] \in Seq(MessagesOf(d))
      BY <2>2, <2>4 DEF Sessions
    <3> QED BY <2>3, <2>4 DEF Sessions
  <2>6. ServicePoints' BY <2>4 DEF Sessions, ServicePoints
  <2> QED BY <2>5, <2>6
<1>4. CASE ServeSearch(c) \/ ServiceEnd(c)
  <2>1. <<>> \in Seq(MessagesOf(c)) /\ <<>> \in Seq(Messages) BY EmptySeq
  <2>2. PICK to \in {"reply", "ended"} : spc' = [spc EXCEPT ![c] = to]
    BY <1>4 DEF ServeSearch, ServiceEnd
  <2>3. /\ msg' = [msg EXCEPT ![c] = <<>>] /\ UNCHANGED <<cpc, order, made, up, basket, queue>>
        /\ spc[c] = "serve"
    BY <1>4 DEF ServeSearch, ServiceEnd
  <2>4. Sessions' BY <2>1, <2>2, <2>3 DEF Sessions
  <2>5. ServicePoints' BY <2>2, <2>3 DEF Sessions, ServicePoints
  <2> QED BY <2>4, <2>5
<1>5. CASE ServeReply(c)
  BY <1>5 DEF ServeReply, Sessions, ServicePoints
<1> QED BY <1>1, <1>2, <1>3, <1>4, <1>5 DEF ServiceStep

\* A service locks and unlocks the server's mutex in turn.
LEMMA ServiceKeepsMutex ==
    ASSUME Sessions, ServerMutexInv, NEW c \in Clients, ServiceStep(c)
    PROVE  ServerMutexInv'
<1> USE DEF ServiceGo, MutexOf, FreeMutex, MayLock, Locked, Unlocked, ServerMutexInv
<1>0. /\ spc \in [Clients -> {"absent", "start", "recv", "lock", "serve", "reply", "ended"}]
      /\ Nobody \notin Clients
  BY PipelineAssumption DEF Sessions
<1>1. CASE ServiceStart(c)
  <2>1. serverMutex.owner = Nobody /\ serverMutex.depth = 0 /\ serverMutex.left \in BOOLEAN
    BY <1>0, <1>1 DEF ServiceStart
  <2>2. serverMutex' = Unlocked(Locked(serverMutex, c)) BY <1>1 DEF ServiceStart
  <2>3. spc[c] = "start" /\ spc' = [spc EXCEPT ![c] = "recv"]
    BY <1>1 DEF ServiceStart
  <2>4. /\ serverMutex' \in MutexOf(Clients) /\ ~ serverMutex'.left
        /\ \/ serverMutex'.owner = Nobody /\ serverMutex'.depth = 0
           \/ serverMutex'.owner = c /\ serverMutex'.depth = 1
    BY <2>1, <2>2, StartedMutex
  <2> QED BY <1>0, <2>1, <2>3, <2>4
<1>2. CASE ServiceReceive(c) BY <1>0, <1>2 DEF ServiceReceive
<1>3. CASE ServiceLock(c) BY <1>0, <1>3 DEF ServiceLock
<1>4. CASE ServeAdd(c) \/ ServeSearch(c) BY <1>0, <1>4 DEF ServeAdd, ServeSearch
<1>5. CASE ServeReply(c) BY <1>0, <1>5 DEF ServeReply
<1>6. CASE ServiceEnd(c)
  <2>1. serverMutex.owner = c BY <1>6 DEF ServiceEnd
  <2>2. spc[c] = "serve" /\ spc' = [spc EXCEPT ![c] = "ended"] BY <1>6 DEF ServiceEnd
  <2>3. serverMutex' = FreeMutex \/ serverMutex' = Abandoned(serverMutex, c) BY <1>6 DEF ServiceEnd
  <2>4. serverMutex' \in MutexOf(Clients) /\ serverMutex'.owner = Nobody /\ serverMutex'.depth = 0
    <3>1. CASE serverMutex' = FreeMutex BY <3>1
    <3>2. CASE serverMutex' = Abandoned(serverMutex, c) BY <2>1, <3>2, AbandonedMutex
    <3> QED BY <2>3, <3>1, <3>2
  <2> QED BY <1>0, <2>1, <2>2, <2>4
<1> QED BY <1>1, <1>2, <1>3, <1>4, <1>5, <1>6 DEF ServiceStep

-----------------------------------------------------------------------------
(* Warehouses keep it.                                                     *)

\* What the receiver puts into orderbuff is the order it has in hand, with at
\* least its items.
LEMMA BufferedOrder ==
    ASSUME Intake, IntakePoints, NEW w \in Warehouses, BufferOrder(w)
    PROVE  /\ incoming[w] = <<incoming[w][1]>> /\ incoming[w][1] \in KeptOrder
           /\ \E p \in KeptOrder :
                /\ orderbuff' = [orderbuff EXCEPT ![w] = Append(@, p)]
                /\ p.client = incoming[w][1].client /\ p.number = incoming[w][1].number
           /\ itemList' \in [Warehouses -> Items]
<1> DEFINE o == incoming[w][1]
           list == Plus(itemList[w], o.items)
<1>1. /\ rpc[w] = "handle" /\ itemList' = [itemList EXCEPT ![w] = list]
      /\ orderbuff' = [orderbuff EXCEPT ![w] = Append(@, [o EXCEPT !.items = list])]
  BY DEF BufferOrder, ReceiverGo
<1>2. o \in KeptOrder /\ incoming[w] = <<o>> /\ itemList[w] \in Items
  <2>1. incoming[w] \in Seq(KeptOrder) /\ Len(incoming[w]) = 1
    BY <1>1 DEF Intake, IntakePoints
  <2> QED BY <2>1, OnlyOne DEF Intake
<1>3. o.items \in Items BY <1>2, OrderFields
<1>4. list \in Items /\ In(o.items) \subseteq In(list) BY <1>2, <1>3, PlusItems
<1>5. LET p == [o EXCEPT !.items = list]
      IN  p \in KeptOrder /\ p.client = o.client /\ p.number = o.number
  BY <1>2, <1>4, MoreItems
<1>6. itemList' \in [Warehouses -> Items] BY <1>1, <1>4 DEF Intake
<1> QED BY <1>1, <1>2, <1>5, <1>6

\* An order that is sent is under way to the warehouse or, if the warehouse
\* is gone, lost.
LEMMA SentOrder ==
    ASSUME Intake, IntakePoints, NEW w \in Warehouses, SendOrder(w)
    PROVE  /\ receivedorder[w] = <<receivedorder[w][1]>> /\ receivedorder[w][1] \in KeptOrder
           /\ \/ /\ wire' = [wire EXCEPT ![w] = Append(@, receivedorder[w][1])]
                 /\ UNCHANGED lost
              \/ lost' = lost \cup {receivedorder[w][1]} /\ UNCHANGED wire
<1> DEFINE o == receivedorder[w][1]
<1>1. receivedorder[w] \in Seq(KeptOrder) /\ Len(receivedorder[w]) = 1 /\ wire[w] \in Seq(KeptOrder)
  BY DEF SendOrder, SendGo, Intake, IntakePoints
<1>2. receivedorder[w] = <<o>> /\ o \in KeptOrder BY <1>1, OnlyOne
<1>3. CASE rpc[w] # "gone"
  <2>1. wire' = [wire EXCEPT ![w] = @ \o receivedorder[w]] /\ UNCHANGED lost
    BY <1>3 DEF SendOrder
  <2>2. wire[w] \o receivedorder[w] = Append(wire[w], o)
    <3> DEFINE s == wire[w]
    <3>1. s \in Seq(KeptOrder) BY <1>1
    <3> HIDE DEF s, o
    <3>2. Append(s, o) = s \o <<o>> BY <1>2, <3>1, AppendIsConcat
    <3>3. <<o>> = receivedorder[w] BY <1>2
    <3> QED BY <3>2, <3>3 DEF s
  <2> QED BY <1>2, <2>1, <2>2, Zenon
<1>4. CASE rpc[w] = "gone"
  <2>1. lost' = lost \cup ToSetOf(receivedorder[w]) /\ UNCHANGED wire
    BY <1>4 DEF SendOrder
  <2>2. ToSetOf(receivedorder[w]) = {o}
    <3>1. 1 .. Len(receivedorder[w]) = {1} BY <1>1
    <3> QED BY <3>1 DEF ToSetOf
  <2> QED BY <1>2, <2>1, <2>2
<1> QED BY <1>2, <1>3, <1>4

\* The elements of a sequence are in the set it is over.
LEMMA ElementsOf ==
    ASSUME NEW S, NEW s \in Seq(S) PROVE ToSetOf(s) \subseteq S
  BY ElementOfSeq DEF ToSetOf

\* The orders that are lost with a warehouse
LEMMA LostOrders ==
    ASSUME Intake, NEW w \in Warehouses
    PROVE  ToSetOf(wire[w] \o incoming[w] \o orderbuff[w])
             = ToSetOf(wire[w]) \cup ToSetOf(incoming[w]) \cup ToSetOf(orderbuff[w])
<1> DEFINE a == wire[w]
           b == incoming[w]
           d == orderbuff[w]
<1>1. a \in Seq(KeptOrder) /\ b \in Seq(KeptOrder) /\ d \in Seq(KeptOrder) BY DEF Intake
<1> HIDE DEF a, b, d
<1>2. \A s, t \in Seq(KeptOrder) : ToSetOf(s \o t) = ToSetOf(s) \cup ToSetOf(t)
  <2> SUFFICES ASSUME NEW s \in Seq(KeptOrder), NEW t \in Seq(KeptOrder)
               PROVE  ToSetOf(s \o t) = ToSetOf(s) \cup ToSetOf(t)
    OBVIOUS
  <2>1. Range(s \o t) = Range(s) \cup Range(t) BY RangeConcatenation
  <2>2. Range(s) = ToSetOf(s) /\ Range(t) = ToSetOf(t) BY RangeEquality DEF ToSetOf
  <2>3. s \o t \in Seq(KeptOrder) BY ConcatProperties
  <2>4. Range(s \o t) = ToSetOf(s \o t) BY <2>3, RangeEquality DEF ToSetOf
  <2> QED BY <2>1, <2>2, <2>4
<1>3. a \o b \in Seq(KeptOrder) BY <1>1, ConcatProperties
<1>4. ToSetOf((a \o b) \o d) = ToSetOf(a \o b) \cup ToSetOf(d) BY <1>1, <1>2, <1>3, Zenon
<1>5. ToSetOf(a \o b) = ToSetOf(a) \cup ToSetOf(b) BY <1>1, <1>2, Zenon
<1> QED BY <1>4, <1>5 DEF a, b, d

\* The threads of a warehouse and its service keep the types of the intake.
LEMMA WarehouseTypes ==
    ASSUME queue \in Seq(KeptOrder), Intake, IntakePoints, NEW w \in Warehouses, IntakeStep(w)
    PROVE  queue' \in Seq(KeptOrder) /\ Intake' /\ IntakePoints'
<1> USE DEF SendGo, ReceiverGo, sendVars, warehouseVars
<1>0. <<>> \in Seq(KeptOrder) BY EmptySeq
<1>1. CASE WarehouseConnect(w)
  BY <1>1 DEF WarehouseConnect, Intake, IntakePoints
<1>2. CASE SenderStart(w)
  BY <1>2 DEF SenderStart, Intake, IntakePoints
<1>3. CASE TakeOrder(w)
  <2> DEFINE o == Head(queue)
  <2>1. o \in KeptOrder /\ Tail(queue) \in Seq(KeptOrder) BY <1>3, Shortened DEF TakeOrder
  <2>2. /\ receivedorder' = [receivedorder EXCEPT ![w] = <<o>>] /\ queue' = Tail(queue)
        /\ wpc[w] = "take" /\ wpc' = [wpc EXCEPT ![w] = "send"]
        /\ UNCHANGED <<wire, rpc, incoming, itemList, orderbuff, hpc, called, lost>>
    BY <1>3 DEF TakeOrder
  <2> HIDE DEF o
  <2>3. <<o>> \in Seq(KeptOrder) /\ Len(<<o>>) = 1 BY <2>1, Alone
  <2>4. Intake' BY <2>2, <2>3 DEF Intake
  <2>5. IntakePoints' BY <2>2, <2>3 DEF Intake, IntakePoints
  <2> QED BY <2>1, <2>2, <2>4, <2>5
<1>4. CASE SendOrder(w)
  <2> DEFINE o == receivedorder[w][1]
  <2>1. o \in KeptOrder /\ wire[w] \in Seq(KeptOrder) BY <1>4, SentOrder DEF Intake
  <2>2. /\ \/ wire' = [wire EXCEPT ![w] = Append(@, o)] /\ UNCHANGED lost
           \/ lost' = lost \cup {o} /\ UNCHANGED wire
        /\ receivedorder' = [receivedorder EXCEPT ![w] = <<>>]
        /\ wpc[w] = "send" /\ wpc' = [wpc EXCEPT ![w] = "take"]
        /\ UNCHANGED <<queue, rpc, incoming, itemList, orderbuff, hpc, called>>
    BY <1>4, SentOrder DEF SendOrder
  <2> HIDE DEF o
  <2>3. Append(wire[w], o) \in Seq(KeptOrder) BY <2>1, Appended
  <2>4. wire' \in [Warehouses -> Seq(KeptOrder)] /\ lost' \in SUBSET KeptOrder
    BY <2>1, <2>2, <2>3, ZenonT(30) DEF Intake
  <2>5. Intake' BY <1>0, <2>2, <2>4 DEF Intake
  <2>6. IntakePoints' BY <2>2 DEF Intake, IntakePoints
  <2> QED BY <2>2, <2>5, <2>6
<1>5. CASE ReceiverStart(w) \/ ReceiverLock(w)
  BY <1>5, ZenonT(30) DEF ReceiverStart, ReceiverLock, Intake, IntakePoints
<1>6. CASE ReceiveOrder(w)
  <2> DEFINE o == Head(wire[w])
  <2>1. o \in KeptOrder /\ Tail(wire[w]) \in Seq(KeptOrder)
    BY <1>6, Shortened DEF ReceiveOrder, Intake
  <2>2. /\ incoming' = [incoming EXCEPT ![w] = <<o>>] /\ wire' = [wire EXCEPT ![w] = Tail(@)]
        /\ rpc[w] = "recv" /\ rpc' = [rpc EXCEPT ![w] = "lock"]
        /\ UNCHANGED <<queue, wpc, receivedorder, itemList, orderbuff, hpc, called, lost>>
    BY <1>6 DEF ReceiveOrder
  <2> HIDE DEF o
  <2>3. <<o>> \in Seq(KeptOrder) /\ Len(<<o>>) = 1 BY <2>1, Alone
  <2>4. Intake' BY <2>1, <2>2, <2>3 DEF Intake
  <2>5. IntakePoints' BY <2>2, <2>3 DEF Intake, IntakePoints
  <2> QED BY <2>2, <2>4, <2>5
<1>7. CASE BufferOrder(w)
  <2>1. PICK p \in KeptOrder : orderbuff' = [orderbuff EXCEPT ![w] = Append(@, p)]
    BY <1>7, BufferedOrder
  <2>2. orderbuff[w] \in Seq(KeptOrder) BY DEF Intake
  <2>3. Append(orderbuff[w], p) \in Seq(KeptOrder) /\ Append(orderbuff[w], p) # <<>>
    BY <2>2, Appended
  <2>4. /\ incoming' = [incoming EXCEPT ![w] = <<>>]
        /\ rpc[w] = "handle" /\ rpc' = [rpc EXCEPT ![w] = "notify"]
        /\ UNCHANGED <<queue, wpc, receivedorder, wire, hpc, called, lost>>
    BY <1>7 DEF BufferOrder
  <2>5. itemList' \in [Warehouses -> Items] BY <1>7, BufferedOrder
  <2>6. Intake' BY <1>0, <2>1, <2>3, <2>4, <2>5 DEF Intake
  <2>7. IntakePoints' BY <2>1, <2>3, <2>4 DEF Intake, IntakePoints
  <2> QED BY <2>4, <2>6, <2>7
<1>8. CASE NotifyHandler(w)
  BY <1>8 DEF NotifyHandler, Intake, IntakePoints
<1>9. CASE HandlerTest(w)
  <2>1. Len(<<>>) = 0 BY EmptySeq
  <2>2. hpc'[w] = "drain" => orderbuff[w] # <<>>
    <3> SUFFICES ASSUME orderbuff[w] = <<>> PROVE hpc'[w] # "drain"
      OBVIOUS
    <3>1. Len(orderbuff[w]) = 0 BY <2>1
    <3>2. hpc' = [hpc EXCEPT ![w] = "asleep"] BY <1>9, <3>1 DEF HandlerTest, GroupSize
    <3> QED BY <3>2 DEF Intake
  <2>3. Intake' /\ queue' \in Seq(KeptOrder) BY <1>9 DEF HandlerTest, Intake
  <2>4. IntakePoints' BY <1>9, <2>2 DEF HandlerTest, Intake, IntakePoints
  <2> QED BY <2>3, <2>4
<1>10. CASE HandlerSpuriousWake(w)
  BY <1>10 DEF HandlerSpuriousWake, Intake, IntakePoints
<1>11. CASE HandlerCall(w)
  <2> DEFINE b == orderbuff[w]
  <2>1. /\ Head(b) \in KeptOrder /\ Tail(b) \in Seq(KeptOrder)
        /\ Len(b) # 1 => Tail(b) # <<>>
    <3>1. b \in Seq(KeptOrder) /\ b # <<>> BY <1>11 DEF HandlerCall, Intake, IntakePoints
    <3> HIDE DEF b
    <3> QED BY <3>1, Shortened
  <2>2. /\ called' = [called EXCEPT ![w] = Append(@, Head(b))]
        /\ orderbuff' = [orderbuff EXCEPT ![w] = Tail(b)]
        /\ hpc[w] = "drain" /\ hpc' = [hpc EXCEPT ![w] = IF Len(b) = 1 THEN "test" ELSE "drain"]
        /\ UNCHANGED <<queue, wpc, receivedorder, wire, rpc, incoming, itemList, lost>>
    BY <1>11 DEF HandlerCall, Intake
  <2>3. b = orderbuff[w] OBVIOUS
  <2> HIDE DEF b
  <2>4. called[w] \in Seq(KeptOrder) BY DEF Intake
  <2>5. Append(called[w], Head(b)) \in Seq(KeptOrder) BY <2>1, <2>4, Appended
  <2>6. Intake' BY <2>1, <2>2, <2>5 DEF Intake
  <2>7. IntakePoints' BY <2>1, <2>2 DEF Intake, IntakePoints
  <2> QED BY <2>2, <2>6, <2>7
<1>12. CASE WarehouseLeaves(w)
  <2>1. wire[w] \in Seq(KeptOrder) /\ incoming[w] \in Seq(KeptOrder) /\ orderbuff[w] \in Seq(KeptOrder)
    BY DEF Intake
  <2>2. ToSetOf(wire[w] \o incoming[w] \o orderbuff[w]) \subseteq KeptOrder
    BY <2>1, ElementsOf, LostOrders
  <2>3. lost' \in SUBSET KeptOrder
    BY <1>12, <2>2 DEF WarehouseLeaves, Intake
  <2>4. /\ wire' = [wire EXCEPT ![w] = <<>>] /\ incoming' = [incoming EXCEPT ![w] = <<>>]
        /\ orderbuff' = [orderbuff EXCEPT ![w] = <<>>]
        /\ rpc[w] # "absent" /\ rpc' = [rpc EXCEPT ![w] = "gone"] /\ hpc' = [hpc EXCEPT ![w] = "gone"]
        /\ UNCHANGED <<queue, wpc, receivedorder, itemList, called>>
    BY <1>12 DEF WarehouseLeaves
  <2>5. Intake' BY <1>0, <2>3, <2>4 DEF Intake
  <2>6. IntakePoints' BY <2>4 DEF Intake, IntakePoints
  <2> QED BY <2>4, <2>5, <2>6
<1> QED
  BY <1>1, <1>2, <1>3, <1>4, <1>5, <1>6, <1>7, <1>8, <1>9, <1>10, <1>11, <1>12
  DEF IntakeStep, SenderStep, ReceiverStep, HandlerStep

\* The threads of a warehouse lock and unlock its mutexes in turn.
LEMMA WarehouseKeepsMutex ==
    ASSUME Intake, IntakePoints, WarehouseMutexInv, NEW w \in Warehouses, IntakeStep(w)
    PROVE  WarehouseMutexInv'
<1> USE DEF SendGo, ReceiverGo, sendVars, warehouseVars
<1> DEFINE m == warehouseMutex
<1>0. /\ wpc \in [Warehouses -> {"absent", "start", "take", "send"}]
      /\ rpc \in [Warehouses -> {"absent", "start", "recv", "lock", "handle", "notify", "gone"}]
      /\ \A v \in Warehouses : Nobody # Sender(v) /\ Nobody # Receiver(v)
      /\ Sender(w) \in Threads /\ Receiver(w) \in Threads
      /\ \A v \in Warehouses : /\ Sender(v) # Receiver(w) /\ Receiver(v) # Sender(w)
                               /\ v # w => Sender(v) # Sender(w) /\ Receiver(v) # Receiver(w)
  BY PipelineAssumption DEF Intake, Threads, Sender, Receiver
<1>1. CASE WarehouseConnect(w)
  BY <1>0, <1>1 DEF WarehouseConnect, WarehouseMutexInv, IntakePoints
<1>2. CASE SenderStart(w)
  <2>1. m.owner = Nobody /\ m.depth = 0 /\ m \in MutexOf(Threads)
    BY <1>0, <1>2 DEF SenderStart, MayLock, WarehouseMutexInv
  <2>2. /\ m' = Unlocked(Locked(m, Sender(w))) /\ UNCHANGED rpc
        /\ wpc[w] = "start" /\ wpc' = [wpc EXCEPT ![w] = "take"]
    BY <1>2 DEF SenderStart
  <2>3. /\ m' \in MutexOf(Threads) /\ ~ m'.left
        /\ \/ m'.owner = Nobody /\ m'.depth = 0
           \/ m'.owner = Sender(w) /\ m'.depth = 1
    BY <1>0, <2>1, <2>2, StartedMutex
  <2> QED BY <1>0, <2>1, <2>2, <2>3 DEF WarehouseMutexInv
<1>3. CASE TakeOrder(w) \/ SendOrder(w)
  BY <1>0, <1>3 DEF TakeOrder, SendOrder, WarehouseMutexInv
<1>4. CASE ReceiverStart(w)
  <2>1. m.owner = Nobody /\ m.depth = 0 /\ m \in MutexOf(Threads)
    BY <1>0, <1>4 DEF ReceiverStart, MayLock, WarehouseMutexInv
  <2>2. /\ m' = Unlocked(Locked(m, Receiver(w))) /\ UNCHANGED wpc
        /\ rpc[w] = "start" /\ rpc' = [rpc EXCEPT ![w] = "recv"]
    BY <1>4 DEF ReceiverStart
  <2>3. /\ m' \in MutexOf(Threads) /\ ~ m'.left
        /\ \/ m'.owner = Nobody /\ m'.depth = 0
           \/ m'.owner = Receiver(w) /\ m'.depth = 1
    BY <1>0, <2>1, <2>2, StartedMutex
  <2> QED BY <1>0, <2>1, <2>2, <2>3 DEF WarehouseMutexInv
<1>5. CASE ReceiverLock(w)
  <2>1. /\ m' = Locked(m, Receiver(w)) /\ UNCHANGED wpc /\ m.owner \in {Nobody, Receiver(w)}
        /\ rpc[w] = "lock" /\ rpc' = [rpc EXCEPT ![w] = "handle"]
    BY <1>5 DEF ReceiverLock, MayLock
  <2>2. m'.owner = Receiver(w) /\ ~ m'.left /\ m'.depth \in 1 .. 2 /\ m' \in MutexOf(Threads)
    BY <1>0, <2>1 DEF Locked, WarehouseMutexInv, MutexOf
  <2> QED BY <1>0, <2>1, <2>2 DEF WarehouseMutexInv
<1>6. CASE ReceiveOrder(w) \/ BufferOrder(w)
  BY <1>0, <1>6 DEF ReceiveOrder, BufferOrder, WarehouseMutexInv
<1>7. CASE NotifyHandler(w)
  <2>1. /\ m' = Unlocked(m) /\ UNCHANGED wpc
        /\ rpc[w] = "notify" /\ rpc' = [rpc EXCEPT ![w] = "recv"]
    BY <1>7 DEF NotifyHandler
  <2>2. m.owner = Receiver(w) /\ ~ m.left /\ m.depth \in 1 .. 2 /\ m \in MutexOf(Threads)
    BY <2>1 DEF WarehouseMutexInv, MutexOf
  <2>3. /\ m' \in MutexOf(Threads) /\ ~ m'.left
        /\ \/ m'.owner = Nobody /\ m'.depth = 0
           \/ m'.owner = Receiver(w) /\ m'.depth = 1
    BY <1>0, <2>1, <2>2, UnlockedMutex
  <2> QED BY <1>0, <2>1, <2>2, <2>3 DEF WarehouseMutexInv
<1>8. CASE HandlerTest(w) \/ HandlerSpuriousWake(w) \/ HandlerCall(w)
  BY <1>8 DEF HandlerTest, HandlerSpuriousWake, HandlerCall, WarehouseMutexInv
<1>9. CASE WarehouseLeaves(w)
  <2>1. /\ m' = Abandoned(m, Receiver(w)) /\ UNCHANGED wpc
        /\ rpc' = [rpc EXCEPT ![w] = "gone"]
    BY <1>9 DEF WarehouseLeaves
  <2>2. CASE m.owner = Receiver(w)
    <3>1. m' \in MutexOf(Threads) /\ m'.owner = Nobody /\ m'.depth = 0
      <4>1. m' = [owner |-> Nobody, depth |-> 0, left |-> TRUE]
        BY <2>1, <2>2 DEF Abandoned, FreeMutex
      <4> QED BY <4>1 DEF MutexOf
    <3> QED BY <1>0, <2>1, <2>2, <3>1 DEF WarehouseMutexInv
  <2>3. CASE m.owner # Receiver(w)
    <3>1. m' = m BY <2>1, <2>3 DEF Abandoned
    <3> QED BY <1>0, <2>1, <2>3, <3>1 DEF WarehouseMutexInv
  <2> QED BY <2>2, <2>3
<1> QED
  BY <1>1, <1>2, <1>3, <1>4, <1>5, <1>6, <1>7, <1>8, <1>9
  DEF IntakeStep, SenderStep, ReceiverStep, HandlerStep

\* Every step keeps the invariant.
LEMMA TypeStep == ASSUME TypeInv, [Next]_vars PROVE TypeInv'
<1> USE DEF TypeInv
<1>1. CASE UNCHANGED vars
  BY <1>1 DEF vars, serverVars, intakeVars, sendVars, warehouseVars,
     Sessions, ServicePoints, ServerMutexInv, Intake, IntakePoints, WarehouseMutexInv
<1>2. ASSUME NEW c \in Clients, ServerSide(c) PROVE TypeInv'
  <2>1. Sessions' /\ ServicePoints' /\ ServerMutexInv'
    <3>1. CASE ClientStep(c)
      BY <3>1, ClientTypes, ClientKeepsMutex DEF Sessions
    <3>2. CASE ServiceStep(c)
      BY <3>2, ServiceTypes, ServiceKeepsMutex
    <3> QED BY <1>2, <3>1, <3>2 DEF ServerSide
  <2>2. Intake' /\ IntakePoints' /\ WarehouseMutexInv'
    BY <1>2 DEF ServerSide, intakeVars, sendVars, warehouseVars, Intake, IntakePoints, WarehouseMutexInv
  <2> QED BY <2>1, <2>2
<1>3. ASSUME NEW w \in Warehouses, WarehouseSide(w) PROVE TypeInv'
  <2>1. queue' \in Seq(KeptOrder) /\ Intake' /\ IntakePoints' /\ WarehouseMutexInv'
    BY <1>3, WarehouseTypes, WarehouseKeepsMutex DEF WarehouseSide, Sessions
  <2>2. Sessions' /\ ServicePoints' /\ ServerMutexInv'
    BY <1>3, <2>1 DEF WarehouseSide, sessionVars, Sessions, ServicePoints, ServerMutexInv
  <2> QED BY <2>1, <2>2
<1> QED BY <1>1, <1>2, <1>3 DEF Next

\* The invariant of the types.
LEMMA TypeInvHolds == Spec => []TypeInv
  BY TypeStart, TypeStep, PTL DEF Spec

\* Every variable of the order pipeline stays in its type: a mutex is held
\* twice at the most, and each thread has one message in hand.
THEOREM TypeCorrect == Spec => []TypeOK
<1>1. TypeInv => TypeOK
  <2> SUFFICES ASSUME TypeInv PROVE TypeOK OBVIOUS
  <2>1. KeptOrder \subseteq OrderRecord BY DEF KeptOrder
  <2>2. \A s \in Seq(KeptOrder) : s \in Seq(OrderRecord) BY <2>1, SeqMonotonic
  <2>3. ServerTypeOK
    <3>1. \A c \in Clients : made[c] \in 0 .. MaxOrders[c]
      BY PipelineAssumption DEF TypeInv, Sessions
    <3> QED BY <2>2, <3>1 DEF TypeInv, Sessions, ServerMutexInv, ServerTypeOK
  <2>4. \A f \in [Warehouses -> Seq(KeptOrder)] : f \in [Warehouses -> Seq(OrderRecord)]
    BY <2>2
  <2>5. IntakeTypeOK
    BY <2>1, <2>4 DEF TypeInv, Intake, WarehouseMutexInv, Threads, IntakeTypeOK
  <2> QED BY <2>3, <2>5 DEF TypeOK
<1> QED BY <1>1, TypeInvHolds, PTL

\* That baskets, carts and item lists keep what they held adds items to an
\* order, and never takes one from it: whatever a cart had is called for.
THEOREM CalledAsAsked == Spec => []NothingForgotten
<1>1. TypeInv => NothingForgotten
  <2> SUFFICES ASSUME TypeInv, NEW w \in Warehouses, NEW i \in 1 .. Len(called[w])
               PROVE  called[w][i].asked \subseteq In(called[w][i].items)
    BY DEF NothingForgotten
  <2>1. called[w] \in Seq(KeptOrder) BY DEF TypeInv, Intake
  <2>2. called[w][i] \in KeptOrder BY <2>1, ElementOfSeq
  <2> QED BY <2>2, OrderFields
<1> QED BY <1>1, TypeInvHolds, PTL

-----------------------------------------------------------------------------
(* Numbers in line.  A line has eight places, each with a sequence of      *)
(* numbers, of which zeros do not count; what goes on enters at the eighth *)
(* place and comes out at the first.                                       *)

Lines == [1 .. 8 -> Seq(Nat)]

\* Position i of place a is before position j of place b.
Before(a, i, b, j) == a < b \/ (a = b /\ i < j)

\* Numbers leave in the order in which they came, each of them once.
InLine(f) ==
    \A a, b \in 1 .. 8 : \A i \in 1 .. Len(f[a]) : \A j \in 1 .. Len(f[b]) :
        Before(a, i, b, j) /\ f[a][i] > 0 /\ f[b][j] > 0 => f[a][i] < f[b][j]

Numbers(s) == {s[k] : k \in 1 .. Len(s)} \ {0}

\* A place that grows has one number more, unless it is zero.
LEMMA NumbersAppend ==
    ASSUME NEW s \in Seq(Nat), NEW n \in Nat
    PROVE  Numbers(Append(s, n)) = Numbers(s) \cup ({n} \ {0})
<1> DEFINE r == Append(s, n)
<1>1. /\ Len(r) = Len(s) + 1 /\ Len(s) \in Nat /\ r[Len(s) + 1] = n
      /\ \A k \in 1 .. Len(s) : r[k] = s[k]
  BY Appended
<1> HIDE DEF r
<1>2. ASSUME NEW x \in Numbers(r) PROVE x \in Numbers(s) \cup ({n} \ {0})
  <2>1. PICK k \in 1 .. Len(r) : x = r[k] /\ x # 0 BY DEF Numbers
  <2>2. k \in 1 .. Len(s) \/ k = Len(s) + 1 BY <1>1
  <2> QED BY <1>1, <2>1, <2>2 DEF Numbers
<1>3. ASSUME NEW x \in Numbers(s) \cup ({n} \ {0}) PROVE x \in Numbers(r)
  <2>1. CASE x \in Numbers(s)
    <3>1. PICK k \in 1 .. Len(s) : x = s[k] /\ x # 0 BY <2>1 DEF Numbers
    <3>2. k \in 1 .. Len(r) /\ x = r[k] BY <1>1, <3>1
    <3> QED BY <3>1, <3>2 DEF Numbers
  <2>2. CASE x = n /\ n # 0
    <3>1. Len(s) + 1 \in 1 .. Len(r) BY <1>1
    <3> QED BY <1>1, <2>2, <3>1 DEF Numbers
  <2> QED BY <2>1, <2>2
<1>4. Numbers(r) = Numbers(s) \cup ({n} \ {0}) BY <1>2, <1>3
<1> QED BY <1>4 DEF r

\* A place that shrinks loses the number of its head.
LEMMA NumbersTail ==
    ASSUME NEW s \in Seq(Nat), s # <<>>
    PROVE  Numbers(s) = Numbers(Tail(s)) \cup ({Head(s)} \ {0})
<1> DEFINE r == Tail(s)
           h == Head(s)
<1>1. /\ h = s[1] /\ Len(s) \in Nat \ {0} /\ Len(r) = Len(s) - 1
      /\ \A k \in 1 .. Len(s) - 1 : r[k] = s[k + 1]
  BY Shortened
<1> HIDE DEF r, h
<1>2. ASSUME NEW x \in Numbers(s) PROVE x \in Numbers(r) \cup ({h} \ {0})
  <2>1. PICK k \in 1 .. Len(s) : x = s[k] /\ x # 0 BY DEF Numbers
  <2>2. CASE k = 1 BY <1>1, <2>1, <2>2
  <2>3. CASE k # 1
    <3>1. k - 1 \in 1 .. Len(r) /\ r[k - 1] = x
      <4>1. k - 1 \in 1 .. Len(s) - 1 /\ (k - 1) + 1 = k BY <1>1, <2>3
      <4> QED BY <1>1, <2>1, <4>1
    <3> QED BY <2>1, <3>1 DEF Numbers
  <2> QED BY <2>2, <2>3
<1>3. ASSUME NEW x \in Numbers(r) \cup ({h} \ {0}) PROVE x \in Numbers(s)
  <2>1. CASE x \in Numbers(r)
    <3>1. PICK k \in 1 .. Len(r) : x = r[k] /\ x # 0 BY <2>1 DEF Numbers
    <3>2. k + 1 \in 1 .. Len(s) /\ x = s[k + 1] BY <1>1, <3>1
    <3> QED BY <3>1, <3>2 DEF Numbers
  <2>2. CASE x = h /\ h # 0
    <3>1. 1 \in 1 .. Len(s) BY <1>1
    <3> QED BY <1>1, <2>2, <3>1 DEF Numbers
  <2> QED BY <2>1, <2>2
<1>4. Numbers(s) = Numbers(r) \cup ({h} \ {0}) BY <1>2, <1>3
<1> QED BY <1>4 DEF r, h

\* No number is in an empty place.
LEMMA NumbersEmpty == Numbers(<<>>) = {}
  BY EmptySeq DEF Numbers

\* The first of a place goes on to the place before.
Move(f, g, a) ==
    /\ f[a + 1] # <<>>
    /\ g[a] = Append(f[a], Head(f[a + 1])) /\ g[a + 1] = Tail(f[a + 1])
    /\ \A b \in 1 .. 8 : b # a /\ b # a + 1 => g[b] = f[b]

\* Handing on the first of a place keeps the numbers in line.
LEMMA MoveInLine ==
    ASSUME NEW f \in Lines, NEW g \in Lines, InLine(f), NEW a \in 1 .. 7, Move(f, g, a)
    PROVE  InLine(g)
<1> DEFINE n == Len(f[a])
           m == Len(f[a + 1])
<1>1. /\ f[a] \in Seq(Nat) /\ f[a + 1] \in Seq(Nat) /\ f[a + 1] # <<>>
      /\ a \in 1 .. 8 /\ a + 1 \in 1 .. 8
  <2>1. a \in 1 .. 8 /\ a + 1 \in 1 .. 8 OBVIOUS
  <2>2. \A b \in 1 .. 8 : f[b] \in Seq(Nat) BY DEF Lines
  <2>3. f[a + 1] # <<>> BY DEF Move
  <2> QED BY <2>1, <2>2, <2>3
<1>2. /\ Head(f[a + 1]) \in Nat /\ Head(f[a + 1]) = f[a + 1][1] /\ Tail(f[a + 1]) \in Seq(Nat)
      /\ m \in Nat \ {0} /\ Len(Tail(f[a + 1])) = m - 1
      /\ \A k \in 1 .. m - 1 : Tail(f[a + 1])[k] = f[a + 1][k + 1]
  BY <1>1, Shortened
<1>3. LET s == Append(f[a], Head(f[a + 1]))
      IN  /\ s \in Seq(Nat) /\ Len(s) = n + 1 /\ n \in Nat /\ s[n + 1] = Head(f[a + 1])
          /\ \A k \in 1 .. n : s[k] = f[a][k]
  BY <1>1, <1>2, Appended
<1>4. /\ g[a] = Append(f[a], Head(f[a + 1])) /\ g[a + 1] = Tail(f[a + 1])
      /\ \A b \in 1 .. 8 : b # a /\ b # a + 1 => g[b] = f[b]
  BY DEF Move
<1>5. /\ Len(g[a]) = n + 1 /\ g[a][n + 1] = f[a + 1][1] /\ \A k \in 1 .. n : g[a][k] = f[a][k]
      /\ Len(g[a + 1]) = m - 1 /\ \A k \in 1 .. m - 1 : g[a + 1][k] = f[a + 1][k + 1]
      /\ n \in Nat /\ m \in Nat \ {0} /\ a \in Nat
  BY <1>2, <1>3, <1>4
<1> HIDE DEF n, m
<1>6. n = Len(f[a]) /\ m = Len(f[a + 1]) BY DEF n, m
<1> DEFINE place(b, i) == IF b = a /\ i = n + 1 THEN a + 1 ELSE b
           index(b, i) == IF b = a /\ i = n + 1 THEN 1 ELSE IF b = a + 1 THEN i + 1 ELSE i
<1>7. ASSUME NEW b \in 1 .. 8, NEW i \in 1 .. Len(g[b])
      PROVE  /\ place(b, i) \in 1 .. 8 /\ index(b, i) \in 1 .. Len(f[place(b, i)])
             /\ g[b][i] = f[place(b, i)][index(b, i)]
  <2>1. CASE b = a /\ i = n + 1 BY <1>1, <1>5, <1>6, <2>1
  <2>2. CASE b = a /\ i # n + 1
    <3>1. i \in 1 .. n BY <1>5, <2>2
    <3> QED BY <1>1, <1>5, <1>6, <2>2, <3>1
  <2>3. CASE b = a + 1
    <3>1. i \in 1 .. m - 1 /\ i + 1 \in 1 .. m /\ b # a BY <1>5, <2>3
    <3> QED BY <1>1, <1>5, <1>6, <2>3, <3>1
  <2>4. CASE b # a /\ b # a + 1 BY <1>4, <2>4
  <2> QED BY <2>1, <2>2, <2>3, <2>4
<1>8. ASSUME NEW b \in 1 .. 8, NEW i \in 1 .. Len(g[b]), NEW d \in 1 .. 8, NEW j \in 1 .. Len(g[d]),
             Before(b, i, d, j)
      PROVE  Before(place(b, i), index(b, i), place(d, j), index(d, j))
  <2>1. b = a => i =< n + 1 BY <1>5
  <2>2. d = a => j =< n + 1 BY <1>5
  <2>3. i \in Int /\ j \in Int /\ i >= 1 /\ j >= 1 OBVIOUS
  <2> QED BY <1>5, <1>8, <2>1, <2>2, <2>3 DEF Before
<1> HIDE DEF place, index
<1>9. ASSUME NEW b \in 1 .. 8, NEW d \in 1 .. 8, NEW i \in 1 .. Len(g[b]), NEW j \in 1 .. Len(g[d]),
             Before(b, i, d, j), g[b][i] > 0, g[d][j] > 0
      PROVE  g[b][i] < g[d][j]
  <2> DEFINE bb == place(b, i)
             ii == index(b, i)
             dd == place(d, j)
             jj == index(d, j)
  <2>1. /\ bb \in 1 .. 8 /\ ii \in 1 .. Len(f[bb]) /\ g[b][i] = f[bb][ii]
        /\ dd \in 1 .. 8 /\ jj \in 1 .. Len(f[dd]) /\ g[d][j] = f[dd][jj]
    BY <1>7
  <2>2. Before(bb, ii, dd, jj) BY <1>8, <1>9
  <2> HIDE DEF bb, ii, dd, jj
  <2> QED BY <1>9, <2>1, <2>2 DEF InLine
<1>10. InLine(g) BY <1>9 DEF InLine
<1> QED BY <1>10

\* Some places lose their first number, or all they have.
LEMMA ShrinkInLine ==
    ASSUME NEW f \in Lines, InLine(f), NEW g, g \in Lines,
           \A a \in 1 .. 8 : \/ g[a] = f[a] \/ g[a] = <<>>
                             \/ f[a] # <<>> /\ g[a] = Tail(f[a])
    PROVE  InLine(g)
<1> DEFINE shift == [a \in 1 .. 8 |-> IF g[a] = f[a] THEN 0 ELSE 1]
<1>1. ASSUME NEW a \in 1 .. 8, NEW i \in 1 .. Len(g[a])
      PROVE  i + shift[a] \in 1 .. Len(f[a]) /\ g[a][i] = f[a][i + shift[a]]
  <2>1. f[a] \in Seq(Nat) /\ Len(<<>>) = 0 BY EmptySeq DEF Lines
  <2>2. g[a] # <<>> BY <2>1
  <2>3. CASE g[a] = f[a] BY <2>1, <2>3
  <2>4. CASE g[a] # f[a] /\ f[a] # <<>> /\ g[a] = Tail(f[a])
    <3>1. /\ Len(f[a]) \in Nat /\ Len(Tail(f[a])) = Len(f[a]) - 1
          /\ \A k \in 1 .. Len(f[a]) - 1 : Tail(f[a])[k] = f[a][k + 1]
      BY <2>1, <2>4, Shortened
    <3> QED BY <2>4, <3>1
  <2> QED BY <2>2, <2>3, <2>4
<1>2. \A a \in 1 .. 8 : shift[a] \in Nat OBVIOUS
<1> HIDE DEF shift
<1>3. ASSUME NEW a \in 1 .. 8, NEW b \in 1 .. 8, NEW i \in 1 .. Len(g[a]), NEW j \in 1 .. Len(g[b]),
             Before(a, i, b, j), g[a][i] > 0, g[b][j] > 0
      PROVE  g[a][i] < g[b][j]
  <2>1. Before(a, i + shift[a], b, j + shift[b])
    <3>1. CASE a < b BY <3>1 DEF Before
    <3>2. CASE a = b
      <4>1. i < j /\ i \in Nat /\ j \in Nat BY <1>3, <3>2 DEF Before
      <4>2. shift[a] \in Nat /\ shift[b] = shift[a] BY <1>2, <3>2
      <4>3. i + shift[a] < j + shift[b] BY ONLY <4>1, <4>2
      <4> QED BY <3>2, <4>3 DEF Before
    <3> QED BY <1>3, <3>1, <3>2 DEF Before
  <2> QED BY <1>1, <1>3, <2>1 DEF InLine
<1> QED BY <1>3 DEF InLine

\* A number joins that does not count, or that is greater than all there are.
Grow(f, g, a, n) ==
    g[a] = Append(f[a], n) /\ \A b \in 1 .. 8 : b # a => g[b] = f[b]

\* A number above all others may enter at the eighth place, and zeros anywhere.
LEMMA GrowInLine ==
    ASSUME NEW f \in Lines, InLine(f), NEW a \in 1 .. 8, NEW n \in Nat,
           n = 0 \/ (a = 8 /\ \A b \in 1 .. 8 : \A x \in Numbers(f[b]) : x < n),
           NEW g, Grow(f, g, a, n)
    PROVE  InLine(g)
<1> DEFINE l == Len(f[a])
<1>1. f[a] \in Seq(Nat) BY DEF Lines
<1>2. /\ Append(f[a], n) \in Seq(Nat) /\ Len(Append(f[a], n)) = l + 1 /\ l \in Nat
      /\ Append(f[a], n)[l + 1] = n /\ \A k \in 1 .. l : Append(f[a], n)[k] = f[a][k]
  BY <1>1, Appended
<1>3. g[a] = Append(f[a], n) /\ \A b \in 1 .. 8 : b # a => g[b] = f[b]
  BY DEF Grow
<1>4. l \in Nat /\ Len(g[a]) = l + 1 /\ g[a][l + 1] = n /\ \A k \in 1 .. l : g[a][k] = f[a][k]
  BY <1>2, <1>3
<1>5. l = Len(f[a]) OBVIOUS
<1> HIDE DEF l
<1>6. ASSUME NEW b \in 1 .. 8, NEW i \in 1 .. Len(g[b]), ~ (b = a /\ i = l + 1)
      PROVE  i \in 1 .. Len(f[b]) /\ g[b][i] = f[b][i]
  <2>1. CASE b = a
    <3>1. i \in 1 .. l BY <1>4, <1>6, <2>1
    <3> QED BY <1>4, <1>5, <2>1, <3>1
  <2> QED BY <1>3, <2>1
<1>7. ASSUME NEW b \in 1 .. 8, NEW d \in 1 .. 8, NEW i \in 1 .. Len(g[b]), NEW j \in 1 .. Len(g[d]),
             Before(b, i, d, j), g[b][i] > 0, g[d][j] > 0
      PROVE  g[b][i] < g[d][j]
  <2>1. CASE b = a /\ i = l + 1
    <3>1. g[b][i] = n BY <1>4, <2>1
    <3>2. a < d \/ (a = d /\ l + 1 < j) BY <1>7, <2>1 DEF Before
    <3>3. a # d
      <4> SUFFICES ASSUME a = d PROVE FALSE OBVIOUS
      <4>1. j \in 1 .. l + 1 BY <1>4
      <4>2. l + 1 < j BY <3>2
      <4> QED BY ONLY <1>4, <4>1, <4>2
    <3>4. n # 0 BY <1>7, <3>1
    <3>5. a = 8 BY <3>4
    <3> QED BY <3>2, <3>3, <3>5
  <2>2. CASE d = a /\ j = l + 1 /\ ~ (b = a /\ i = l + 1)
    <3>1. g[d][j] = n /\ n > 0 BY <1>4, <1>7, <2>2
    <3>2. i \in 1 .. Len(f[b]) /\ g[b][i] = f[b][i] BY <1>6, <2>2
    <3>3. g[b][i] \in Numbers(f[b])
      <4>1. f[b][i] # 0 BY <1>7, <3>2
      <4>2. f[b][i] \in Numbers(f[b]) BY <3>2, <4>1 DEF Numbers
      <4> QED BY <3>2, <4>2
    <3>4. a = 8 /\ \A e \in 1 .. 8 : \A x \in Numbers(f[e]) : x < n BY <3>1
    <3> QED BY <3>1, <3>3, <3>4
  <2>3. CASE ~ (b = a /\ i = l + 1) /\ ~ (d = a /\ j = l + 1)
    BY <1>6, <1>7, <2>3 DEF InLine
  <2> QED BY <2>1, <2>2, <2>3
<1>8. InLine(g) BY <1>7 DEF InLine
<1> QED BY <1>8

\* A number that counts is at one position of a line.
LEMMA OncePlaced ==
    ASSUME NEW f \in Lines, InLine(f), NEW a \in 1 .. 8, NEW b \in 1 .. 8,
           NEW i \in 1 .. Len(f[a]), NEW j \in 1 .. Len(f[b]), f[a][i] = f[b][j], f[a][i] # 0
    PROVE  a = b /\ i = j
<1>1. f[a] \in Seq(Nat) /\ f[b] \in Seq(Nat) BY DEF Lines
<1>2. f[a][i] \in Nat /\ f[b][j] \in Nat BY <1>1, ElementOfSeq
<1>3. f[a][i] > 0 /\ f[b][j] > 0 BY <1>2
<1>4. Before(a, i, b, j) => f[a][i] < f[b][j] BY <1>3 DEF InLine
<1>5. Before(b, j, a, i) => f[b][j] < f[a][i] BY <1>3 DEF InLine
<1> QED BY <1>2, <1>4, <1>5 DEF Before

\* A number in line is in one place only.
LEMMA PlacesApart ==
    ASSUME NEW f \in Lines, InLine(f), NEW a \in 1 .. 8, NEW b \in 1 .. 8, a # b
    PROVE  Numbers(f[a]) \cap Numbers(f[b]) = {}
<1> SUFFICES ASSUME NEW x \in Numbers(f[a]), x \in Numbers(f[b]) PROVE FALSE
  OBVIOUS
<1>1. PICK i \in 1 .. Len(f[a]) : x = f[a][i] /\ x # 0 BY DEF Numbers
<1>2. PICK j \in 1 .. Len(f[b]) : x = f[b][j] BY DEF Numbers
<1> QED BY <1>1, <1>2, OncePlaced, ZenonT(30)

\* What a move, or a place that grows, does to the numbers
MovedBy(f, g, a, H) ==
    /\ Numbers(g[a]) = Numbers(f[a]) \cup H
    /\ Numbers(f[a + 1]) = Numbers(g[a + 1]) \cup H
    /\ \A b \in 1 .. 8 : b # a /\ b # a + 1 => Numbers(g[b]) = Numbers(f[b])
    /\ \A b \in 1 .. 8 : b # a => H \cap Numbers(g[b]) = {}

\* What is handed on leaves the one place and is in the other.
LEMMA MovedNumbers ==
    ASSUME NEW f \in Lines, NEW g \in Lines, InLine(f), NEW a \in 1 .. 7, Move(f, g, a)
    PROVE  \E H : MovedBy(f, g, a, H)
<1> DEFINE s == f[a]
           t == f[a + 1]
           H == {Head(t)} \ {0}
<1>1. s \in Seq(Nat) /\ t \in Seq(Nat) /\ t # <<>> /\ a \in 1 .. 8
  <2>1. a \in 1 .. 8 /\ a + 1 \in 1 .. 8 OBVIOUS
  <2>2. \A b \in 1 .. 8 : f[b] \in Seq(Nat) BY DEF Lines
  <2>3. f[a + 1] # <<>> BY DEF Move
  <2> QED BY <2>1, <2>2, <2>3
<1>2. /\ g[a] = Append(s, Head(t)) /\ g[a + 1] = Tail(t)
      /\ \A b \in 1 .. 8 : b # a /\ b # a + 1 => g[b] = f[b]
  BY DEF Move
<1> HIDE DEF s, t
<1>3. Head(t) \in Nat BY <1>1, Shortened
<1>4. Numbers(g[a]) = Numbers(s) \cup H BY <1>1, <1>2, <1>3, NumbersAppend
<1>5. Numbers(t) = Numbers(g[a + 1]) \cup H BY <1>1, <1>2, NumbersTail
<1>6. \A b \in 1 .. 8 : b # a => H \cap Numbers(g[b]) = {}
  <2>1. InLine(g) BY MoveInLine
  <2>2. \A b \in 1 .. 8 : b # a => Numbers(g[a]) \cap Numbers(g[b]) = {}
    BY <1>1, <2>1, PlacesApart
  <2> QED BY <1>4, <2>2
<1>7. \A b \in 1 .. 8 : b # a /\ b # a + 1 => Numbers(g[b]) = Numbers(f[b]) BY <1>2
<1>8. MovedBy(f, g, a, H) BY <1>4, <1>5, <1>6, <1>7 DEF s, t, MovedBy
<1> HIDE DEF H
<1> QED BY <1>8

GrownBy(f, g, a, H) ==
    /\ Numbers(g[a]) = Numbers(f[a]) \cup H
    /\ \A b \in 1 .. 8 : b # a => Numbers(g[b]) = Numbers(f[b])

\* What is appended is in the place afterwards, and no other place changes.
LEMMA GrownNumbers ==
    ASSUME NEW f \in Lines, NEW g, NEW a \in 1 .. 8, NEW n \in Nat, Grow(f, g, a, n)
    PROVE  GrownBy(f, g, a, {n} \ {0})
  BY NumbersAppend DEF Grow, Lines, GrownBy

-----------------------------------------------------------------------------
(* The lines of one client, one for each warehouse, which share the places *)
(* from the queue on; what is gone, and the number of the last order made. *)

Held(f) ==
    Numbers(f[1]) \cup Numbers(f[2]) \cup Numbers(f[3]) \cup Numbers(f[4]) \cup Numbers(f[5])
Coming(f) == Numbers(f[6]) \cup Numbers(f[7]) \cup Numbers(f[8])

\* What a warehouse holds is no longer on the way to the queue.
LEMMA ComingApart ==
    ASSUME NEW f \in Lines, InLine(f) PROVE Held(f) \cap Coming(f) = {}
<1>1. \A a, b \in 1 .. 8 : a # b => Numbers(f[a]) \cap Numbers(f[b]) = {}
  BY PlacesApart
<1>2. \A a \in 1 .. 5 : \A b \in 6 .. 8 : Numbers(f[a]) \cap Numbers(f[b]) = {}
  <2>1. \A a \in 1 .. 5 : \A b \in 6 .. 8 : a \in 1 .. 8 /\ b \in 1 .. 8 /\ a # b OBVIOUS
  <2> QED BY <1>1, <2>1
<1>3. 1 \in 1 .. 5 /\ 2 \in 1 .. 5 /\ 3 \in 1 .. 5 /\ 4 \in 1 .. 5 /\ 5 \in 1 .. 5
      /\ 6 \in 6 .. 8 /\ 7 \in 6 .. 8 /\ 8 \in 6 .. 8
  OBVIOUS
<1>4. \A x : \A b \in 6 .. 8 : x \in Held(f) => x \notin Numbers(f[b])
  BY <1>2, <1>3 DEF Held
<1> QED BY <1>3, <1>4 DEF Coming

SharedPlaces(f) == \A w, v \in Warehouses : \A a \in 6 .. 8 : f[w][a] = f[v][a]

\* Each number that was given out is in one place.
Placed(f, gone, m) ==
    /\ \A w \in Warehouses : InLine(f[w])
    /\ \A w, v \in Warehouses : w # v => Held(f[w]) \cap Held(f[v]) = {}
    /\ \A w \in Warehouses : (Held(f[w]) \cup Coming(f[w])) \cap gone = {}
    /\ \A w \in Warehouses : 1 .. m = gone \cup Coming(f[w]) \cup UNION {Held(f[v]) : v \in Warehouses}

\* Lines with the same numbers, in line again, have them placed.
LEMMA PlacedSame ==
    ASSUME NEW f, NEW g, NEW gone, NEW m, Placed(f, gone, m),
           \A w \in Warehouses : InLine(g[w]) /\ Held(g[w]) = Held(f[w]) /\ Coming(g[w]) = Coming(f[w])
    PROVE  Placed(g, gone, m)
<1>1. UNION {Held(g[v]) : v \in Warehouses} = UNION {Held(f[v]) : v \in Warehouses}
  OBVIOUS
<1> QED BY <1>1 DEF Placed

\* An order moves between two places of a warehouse, or two of the server.
LEMMA PlacedMove ==
    ASSUME NEW f \in [Warehouses -> Lines], NEW g \in [Warehouses -> Lines], NEW gone, NEW m,
           Placed(f, gone, m), NEW a \in {1, 2, 3, 4, 6, 7},
           \A v \in Warehouses : g[v] = f[v] \/ Move(f[v], g[v], a)
    PROVE  Placed(g, gone, m)
<1> SUFFICES ASSUME NEW v \in Warehouses, Move(f[v], g[v], a)
             PROVE  InLine(g[v]) /\ Held(g[v]) = Held(f[v]) /\ Coming(g[v]) = Coming(f[v])
  BY PlacedSame DEF Placed
<1>1. InLine(f[v]) /\ f[v] \in Lines /\ g[v] \in Lines /\ a \in 1 .. 7 BY DEF Placed
<1>2. InLine(g[v]) BY <1>1, MoveInLine
<1> DEFINE F(b) == Numbers(f[v][b])
           G(b) == Numbers(g[v][b])
<1>3. PICK H : /\ G(a) = F(a) \cup H /\ F(a + 1) = G(a + 1) \cup H
               /\ \A b \in 1 .. 8 : b # a /\ b # a + 1 => G(b) = F(b)
  <2>1. \E H : MovedBy(f[v], g[v], a, H) BY ONLY <1>1, Move(f[v], g[v], a), MovedNumbers
  <2> QED BY <2>1 DEF MovedBy
<1>4. /\ Held(f[v]) = F(1) \cup F(2) \cup F(3) \cup F(4) \cup F(5)
      /\ Held(g[v]) = G(1) \cup G(2) \cup G(3) \cup G(4) \cup G(5)
      /\ Coming(f[v]) = F(6) \cup F(7) \cup F(8) /\ Coming(g[v]) = G(6) \cup G(7) \cup G(8)
  BY DEF Held, Coming
<1> HIDE DEF F, G
<1>5. CASE a = 1
  <2>1. G(1) = F(1) \cup H /\ F(2) = G(2) \cup H
    BY ONLY <1>3, <1>5
  <2>2. G(3) = F(3) /\ G(4) = F(4) /\ G(5) = F(5) /\ G(6) = F(6) /\ G(7) = F(7) /\ G(8) = F(8)
    BY ONLY <1>3, <1>5
  <2> QED BY <1>2, <1>4, <2>1, <2>2
<1>6. CASE a = 2
  <2>1. G(2) = F(2) \cup H /\ F(3) = G(3) \cup H
    BY ONLY <1>3, <1>6
  <2>2. G(1) = F(1) /\ G(4) = F(4) /\ G(5) = F(5) /\ G(6) = F(6) /\ G(7) = F(7) /\ G(8) = F(8)
    BY ONLY <1>3, <1>6
  <2> QED BY <1>2, <1>4, <2>1, <2>2
<1>7. CASE a = 3
  <2>1. G(3) = F(3) \cup H /\ F(4) = G(4) \cup H
    BY ONLY <1>3, <1>7
  <2>2. G(1) = F(1) /\ G(2) = F(2) /\ G(5) = F(5) /\ G(6) = F(6) /\ G(7) = F(7) /\ G(8) = F(8)
    BY ONLY <1>3, <1>7
  <2> QED BY <1>2, <1>4, <2>1, <2>2
<1>8. CASE a = 4
  <2>1. G(4) = F(4) \cup H /\ F(5) = G(5) \cup H
    BY ONLY <1>3, <1>8
  <2>2. G(1) = F(1) /\ G(2) = F(2) /\ G(3) = F(3) /\ G(6) = F(6) /\ G(7) = F(7) /\ G(8) = F(8)
    BY ONLY <1>3, <1>8
  <2> QED BY <1>2, <1>4, <2>1, <2>2
<1>9. CASE a \in {6, 7}
  <2>1. G(1) = F(1) /\ G(2) = F(2) /\ G(3) = F(3) /\ G(4) = F(4) /\ G(5) = F(5)
    BY ONLY <1>3, <1>9
  <2>2. \/ G(6) = F(6) \cup H /\ F(7) = G(7) \cup H /\ G(8) = F(8)
        \/ G(7) = F(7) \cup H /\ F(8) = G(8) \cup H /\ G(6) = F(6)
    BY ONLY <1>3, <1>9
  <2> QED BY <1>2, <1>4, <2>1, <2>2
<1> QED BY <1>5, <1>6, <1>7, <1>8, <1>9

\* A place of the server gets something that is no order of the client, or
\* loses it.
Dropped(f, g, a) ==
    Numbers(f[a]) = {} /\ g[a] = <<>> /\ \A b \in 1 .. 8 : b # a => g[b] = f[b]

\* A message without an order does not matter to the orders.
LEMMA PlacedIdle ==
    ASSUME NEW f \in [Warehouses -> Lines], NEW g \in [Warehouses -> Lines], NEW gone, NEW m,
           Placed(f, gone, m), NEW a \in 6 .. 8,
           \A v \in Warehouses : Grow(f[v], g[v], a, 0) \/ Dropped(f[v], g[v], a)
    PROVE  Placed(g, gone, m)
<1> SUFFICES ASSUME NEW v \in Warehouses
             PROVE  InLine(g[v]) /\ Held(g[v]) = Held(f[v]) /\ Coming(g[v]) = Coming(f[v])
  BY PlacedSame
<1>1. InLine(f[v]) /\ f[v] \in Lines /\ g[v] \in Lines /\ a \in 1 .. 8 /\ 0 \in Nat BY DEF Placed
<1>2. InLine(g[v]) /\ \A b \in 1 .. 8 : Numbers(g[v][b]) = Numbers(f[v][b])
  <2>1. CASE Grow(f[v], g[v], a, 0)
    <3>1. InLine(g[v]) BY <1>1, <2>1, GrowInLine
    <3>2. /\ Numbers(g[v][a]) = Numbers(f[v][a]) \cup ({0} \ {0})
          /\ \A b \in 1 .. 8 : b # a => Numbers(g[v][b]) = Numbers(f[v][b])
      <4>1. GrownBy(f[v], g[v], a, {0} \ {0}) BY <1>1, <2>1, GrownNumbers
      <4> QED BY <4>1 DEF GrownBy
    <3> QED BY <3>1, <3>2
  <2>2. CASE Dropped(f[v], g[v], a)
    <3>1. InLine(g[v]) BY <1>1, <2>2, ShrinkInLine DEF Dropped
    <3> QED BY <2>2, <3>1, NumbersEmpty DEF Dropped
  <2> QED BY <2>1, <2>2
<1> QED BY <1>2 DEF Held, Coming

\* A warehouse takes the next order, which goes from every line.
LEMMA PlacedTake ==
    ASSUME NEW f \in [Warehouses -> Lines], NEW g \in [Warehouses -> Lines], NEW gone, NEW m,
           Placed(f, gone, m), SharedPlaces(f), NEW w \in Warehouses, Move(f[w], g[w], 5),
           \A v \in Warehouses \ {w} :
              g[v][6] = Tail(f[v][6]) /\ \A b \in 1 .. 8 : b # 6 => g[v][b] = f[v][b]
    PROVE  Placed(g, gone, m)
<1>1. \A v \in Warehouses : InLine(f[v]) /\ f[v] \in Lines /\ g[v] \in Lines BY DEF Placed
<1>2. 5 \in 1 .. 7 /\ 5 + 1 = 6 OBVIOUS
<1>3. PICK H : /\ Numbers(g[w][5]) = Numbers(f[w][5]) \cup H
               /\ Numbers(f[w][6]) = Numbers(g[w][6]) \cup H
               /\ \A b \in 1 .. 8 : b # 5 /\ b # 6 => Numbers(g[w][b]) = Numbers(f[w][b])
               /\ \A b \in 1 .. 8 : b # 5 => H \cap Numbers(g[w][b]) = {}
  <2>1. \E H : MovedBy(f[w], g[w], 5, H) BY ONLY <1>1, <1>2, w \in Warehouses, Move(f[w], g[w], 5), MovedNumbers
  <2> QED BY <1>2, <2>1 DEF MovedBy
<1>4. \A v \in Warehouses : \A a \in 6 .. 8 : g[v][a] = g[w][a] /\ f[v][a] = f[w][a]
  BY <1>2 DEF SharedPlaces, Move
<1>5. /\ Held(g[w]) = Held(f[w]) \cup H
      /\ Coming(f[w]) = Coming(g[w]) \cup H /\ H \cap Coming(g[w]) = {}
  BY <1>3 DEF Held, Coming
<1>6. ASSUME NEW v \in Warehouses, v # w PROVE Held(g[v]) = Held(f[v])
  BY <1>6 DEF Held
<1>7. \A v \in Warehouses : Coming(g[v]) = Coming(g[w]) /\ Coming(f[v]) = Coming(f[w])
  BY <1>4 DEF Coming
<1>8. ASSUME NEW v \in Warehouses PROVE InLine(g[v])
  <2>1. CASE v = w BY <1>1, <1>2, <2>1, MoveInLine
  <2>2. CASE v # w
    <3>1. f[v][6] # <<>>
      <4>1. f[w][6] # <<>> BY <1>2 DEF Move
      <4> QED BY <1>4, <4>1
    <3> QED BY <1>1, <2>2, <3>1, ShrinkInLine
  <2> QED BY <2>1, <2>2
<1>9. ASSUME NEW v \in Warehouses, NEW u \in Warehouses, v # u PROVE Held(g[v]) \cap Held(g[u]) = {}
  <2>1. \A x \in Warehouses : x # w => Held(f[x]) \cap H = {}
    <3>1. \A x \in Warehouses : Held(f[x]) \cap Coming(f[x]) = {} BY <1>1, ComingApart
    <3> QED BY <1>5, <1>7, <3>1
  <2> QED BY <1>5, <1>6, <1>9, <2>1 DEF Placed
<1>10. ASSUME NEW v \in Warehouses PROVE (Held(g[v]) \cup Coming(g[v])) \cap gone = {}
  <2>1. (Held(f[v]) \cup Coming(f[v])) \cap gone = {} BY DEF Placed
  <2> QED BY <1>5, <1>6, <1>7, <2>1
<1>11. UNION {Held(g[v]) : v \in Warehouses} = H \cup UNION {Held(f[v]) : v \in Warehouses}
  BY <1>5, <1>6
<1>12. ASSUME NEW v \in Warehouses
       PROVE  1 .. m = gone \cup Coming(g[v]) \cup UNION {Held(g[u]) : u \in Warehouses}
  <2>1. 1 .. m = gone \cup Coming(f[v]) \cup UNION {Held(f[u]) : u \in Warehouses} BY DEF Placed
  <2> QED BY <1>5, <1>7, <1>11, <2>1
<1> QED BY <1>8, <1>9, <1>10, <1>12 DEF Placed

\* Some of a warehouse's places are emptied.
Emptied(f, g, w, A) ==
    /\ \A a \in 1 .. 8 : g[w][a] = IF a \in A THEN <<>> ELSE f[w][a]
    /\ \A v \in Warehouses \ {w} : g[v] = f[v]

\* What is emptied out of a line is gone, and in no other place.
LEMMA PlacedLose ==
    ASSUME NEW f \in [Warehouses -> Lines], NEW g \in [Warehouses -> Lines], NEW gone, NEW m,
           Placed(f, gone, m), SharedPlaces(f), NEW w \in Warehouses, NEW A \in SUBSET (1 .. 5),
           Emptied(f, g, w, A)
    PROVE  Placed(g, gone \cup UNION {Numbers(f[w][a]) : a \in A}, m)
<1> DEFINE H == UNION {Numbers(f[w][a]) : a \in A}
<1> USE DEF Emptied
<1>1. InLine(f[w]) /\ f[w] \in Lines /\ g[w] \in Lines BY DEF Placed
<1>2. InLine(g[w]) BY <1>1, ShrinkInLine
<1>3. \A a \in 1 .. 8 : Numbers(g[w][a]) = IF a \in A THEN {} ELSE Numbers(f[w][a])
  BY NumbersEmpty
<1>4. 6 \notin A /\ 7 \notin A /\ 8 \notin A OBVIOUS
<1>5. Coming(g[w]) = Coming(f[w]) BY <1>3, <1>4 DEF Coming
<1>6. Held(f[w]) = Held(g[w]) \cup H
  <2>1. \A x : x \in H <=> \E a \in A : x \in Numbers(f[w][a]) OBVIOUS
  <2>2. \A h : \A x : h \in Lines => (x \in Held(h) <=> \E a \in 1 .. 5 : x \in Numbers(h[a]))
    <3>1. \A a : a \in 1 .. 5 <=> a \in {1, 2, 3, 4, 5} OBVIOUS
    <3> QED BY <3>1 DEF Held
  <2>3. \A a \in 1 .. 5 : a \in 1 .. 8 OBVIOUS
  <2>4. ASSUME NEW x \in Held(f[w]) PROVE x \in Held(g[w]) \cup H
    <3>1. PICK a \in 1 .. 5 : x \in Numbers(f[w][a]) BY <1>1, <2>2
    <3> QED BY <1>1, <1>3, <2>1, <2>2, <2>3, <3>1
  <2>5. ASSUME NEW x \in Held(g[w]) \cup H PROVE x \in Held(f[w])
    <3>1. PICK a \in 1 .. 5 : x \in Numbers(f[w][a]) BY <1>1, <1>3, <2>1, <2>2, <2>3
    <3> QED BY <1>1, <2>2, <3>1
  <2> QED BY <2>4, <2>5
<1>7. H \cap Held(g[w]) = {}
  <2> SUFFICES ASSUME NEW x \in H, x \in Held(g[w]) PROVE FALSE OBVIOUS
  <2>1. PICK a \in A : x \in Numbers(f[w][a]) OBVIOUS
  <2>2. \A b : b \in 1 .. 5 <=> b \in {1, 2, 3, 4, 5} OBVIOUS
  <2>3. PICK b \in 1 .. 5 : x \in Numbers(g[w][b]) BY <2>2 DEF Held
  <2>4. a \in 1 .. 8 /\ b \in 1 .. 8 OBVIOUS
  <2>5. b \notin A /\ x \in Numbers(f[w][b]) BY <1>3, <2>3, <2>4
  <2> QED BY <1>1, <2>1, <2>4, <2>5, PlacesApart
<1>8. H \cap Coming(f[w]) = {} BY <1>1, <1>6, ComingApart
<1>9. H \cap gone = {} BY <1>6 DEF Placed
<1>10. ASSUME NEW v \in Warehouses PROVE InLine(g[v]) /\ Coming(g[v]) = Coming(f[v])
  BY <1>2, <1>5 DEF Placed
<1>11. ASSUME NEW v \in Warehouses, NEW u \in Warehouses, v # u PROVE Held(g[v]) \cap Held(g[u]) = {}
  BY <1>6, <1>11 DEF Placed
<1>12. UNION {Held(f[v]) : v \in Warehouses} = H \cup UNION {Held(g[v]) : v \in Warehouses}
  BY <1>6
<1>13. ASSUME NEW v \in Warehouses
       PROVE  1 .. m = (gone \cup H) \cup Coming(g[v]) \cup UNION {Held(g[u]) : u \in Warehouses}
  <2>1. 1 .. m = gone \cup Coming(f[v]) \cup UNION {Held(f[u]) : u \in Warehouses} BY DEF Placed
  <2> QED BY <1>10, <1>12, <2>1
<1>14. ASSUME NEW v \in Warehouses PROVE (Held(g[v]) \cup Coming(g[v])) \cap (gone \cup H) = {}
  <2>1. (Held(f[v]) \cup Coming(f[v])) \cap gone = {} BY DEF Placed
  <2>2. CASE v = w BY <1>5, <1>6, <1>7, <1>8, <2>1, <2>2
  <2>3. CASE v # w
    <3>1. Held(f[v]) \cap Held(f[w]) = {} BY <2>3 DEF Placed
    <3>2. Coming(f[v]) = Coming(f[w]) BY DEF SharedPlaces, Coming
    <3>3. Coming(g[v]) = Coming(f[v]) /\ Held(g[v]) = Held(f[v]) BY <2>3
    <3> QED BY <1>6, <1>8, <2>1, <3>1, <3>2, <3>3
  <2> QED BY <2>2, <2>3
<1>15. Placed(g, gone \cup H, m) BY <1>10, <1>11, <1>13, <1>14 DEF Placed
<1> QED BY <1>15

\* A client makes its next order.
LEMMA PlacedNew ==
    ASSUME NEW f \in [Warehouses -> Lines], NEW g \in [Warehouses -> Lines], NEW gone, NEW m \in Nat,
           Placed(f, gone, m), \A v \in Warehouses : Grow(f[v], g[v], 8, m + 1)
    PROVE  Placed(g, gone, m + 1)
<1>1. \A v \in Warehouses : InLine(f[v]) /\ f[v] \in Lines /\ g[v] \in Lines BY DEF Placed
<1>2. 8 \in 1 .. 8 /\ m + 1 \in Nat /\ {m + 1} \ {0} = {m + 1} OBVIOUS
<1>3. ASSUME NEW v \in Warehouses
      PROVE  Held(g[v]) = Held(f[v]) /\ Coming(g[v]) = Coming(f[v]) \cup {m + 1}
  <2>1. GrownBy(f[v], g[v], 8, {m + 1} \ {0})
    BY ONLY <1>1, <1>2, v \in Warehouses, Grow(f[v], g[v], 8, m + 1), GrownNumbers
  <2> QED BY <1>2, <2>1 DEF GrownBy, Held, Coming
<1>4. \A v \in Warehouses : Held(f[v]) \cup Coming(f[v]) \cup gone \subseteq 1 .. m BY DEF Placed
<1>5. m + 1 \notin 1 .. m /\ 1 .. m + 1 = (1 .. m) \cup {m + 1} OBVIOUS
<1>6. ASSUME NEW v \in Warehouses PROVE InLine(g[v])
  <2>1. \A b \in 1 .. 8 : \A x \in Numbers(f[v][b]) : x < m + 1
    <3> SUFFICES ASSUME NEW b \in 1 .. 8, NEW x \in Numbers(f[v][b]) PROVE x < m + 1
      OBVIOUS
    <3>1. b \in {1, 2, 3, 4, 5, 6, 7, 8} OBVIOUS
    <3>2. x \in Held(f[v]) \cup Coming(f[v]) BY <3>1 DEF Held, Coming
    <3>3. x \in 1 .. m BY <1>4, <3>2
    <3> QED BY <3>3
  <2> QED BY <1>1, <1>2, <2>1, GrowInLine
<1>7. UNION {Held(g[v]) : v \in Warehouses} = UNION {Held(f[v]) : v \in Warehouses} BY <1>3
<1>8. ASSUME NEW v \in Warehouses
      PROVE  1 .. m + 1 = gone \cup Coming(g[v]) \cup UNION {Held(g[u]) : u \in Warehouses}
  <2>1. 1 .. m = gone \cup Coming(f[v]) \cup UNION {Held(f[u]) : u \in Warehouses} BY DEF Placed
  <2> QED BY <1>3, <1>5, <1>7, <2>1
<1>9. ASSUME NEW v \in Warehouses PROVE (Held(g[v]) \cup Coming(g[v])) \cap gone = {}
  <2>1. (Held(f[v]) \cup Coming(f[v])) \cap gone = {} BY DEF Placed
  <2> QED BY <1>3, <1>4, <1>5, <2>1
<1>10. ASSUME NEW v \in Warehouses, NEW u \in Warehouses, v # u PROVE Held(g[v]) \cap Held(g[u]) = {}
  BY <1>3, <1>10 DEF Placed
<1> QED BY <1>6, <1>8, <1>9, <1>10 DEF Placed

-----------------------------------------------------------------------------
(* The numbers of a sequence.                                              *)

Mapped(f, s) == [k \in 1 .. Len(s) |-> f[s[k]]]

\* The numbers of a sequence, position by position.
LEMMA MappedSeq ==
    ASSUME NEW S, NEW f, NEW s, f \in [S -> Nat], s \in Seq(S)
    PROVE  /\ Mapped(f, s) \in Seq(Nat) /\ Len(Mapped(f, s)) = Len(s)
           /\ \A k \in 1 .. Len(s) : Mapped(f, s)[k] = f[s[k]]
<1>1. \A k \in 1 .. Len(s) : s[k] \in S BY ElementOfSeq
<1>2. Len(s) \in Nat OBVIOUS
<1> QED BY <1>1, <1>2 DEF Mapped

\* The numbers of a sequence that grows.
LEMMA MappedAppend ==
    ASSUME NEW S, NEW f, NEW s, NEW e, f \in [S -> Nat], s \in Seq(S), e \in S
    PROVE  Mapped(f, Append(s, e)) = Append(Mapped(f, s), f[e])
<1> DEFINE r == Append(s, e)
           p == Mapped(f, s)
           q == Mapped(f, r)
           t == Append(p, f[e])
<1>1. /\ r \in Seq(S) /\ Len(r) = Len(s) + 1 /\ Len(s) \in Nat /\ r[Len(s) + 1] = e
      /\ \A k \in 1 .. Len(s) : r[k] = s[k]
  BY Appended
<1>2. p \in Seq(Nat) /\ Len(p) = Len(s) /\ \A k \in 1 .. Len(s) : p[k] = f[s[k]] BY MappedSeq
<1> HIDE DEF r, p
<1>3. q \in Seq(Nat) /\ Len(q) = Len(r) /\ \A k \in 1 .. Len(r) : q[k] = f[r[k]] BY <1>1, MappedSeq
<1>4. /\ t \in Seq(Nat) /\ Len(t) = Len(p) + 1 /\ t[Len(p) + 1] = f[e]
      /\ \A k \in 1 .. Len(p) : t[k] = p[k]
  <2>1. f[e] \in Nat OBVIOUS
  <2> QED BY <1>2, <2>1, Appended
<1> HIDE DEF q, t
<1>5. ASSUME NEW k \in 1 .. Len(q) PROVE q[k] = t[k]
  <2>1. CASE k = Len(s) + 1 BY <1>1, <1>2, <1>3, <1>4, <2>1
  <2>2. CASE k # Len(s) + 1
    <3>1. k \in 1 .. Len(s) BY <1>1, <1>3, <2>2
    <3> QED BY <1>1, <1>2, <1>3, <1>4, <3>1
  <2> QED BY <2>1, <2>2
<1>6. q = t
  <2>1. Len(q) = Len(t) BY <1>1, <1>2, <1>3, <1>4
  <2> QED BY <1>3, <1>4, <1>5, <2>1, SeqEqual
<1> QED BY <1>6 DEF q, t, r, p

\* The numbers of a sequence that shrinks.
LEMMA MappedTail ==
    ASSUME NEW S, NEW f, NEW s, f \in [S -> Nat], s \in Seq(S), s # <<>>
    PROVE  /\ Mapped(f, s) # <<>> /\ Head(Mapped(f, s)) = f[Head(s)]
           /\ Mapped(f, Tail(s)) = Tail(Mapped(f, s))
<1>0. \A u \in Seq(S) : /\ Mapped(f, u) \in Seq(Nat) /\ Len(Mapped(f, u)) = Len(u)
                        /\ \A k \in 1 .. Len(u) : Mapped(f, u)[k] = f[u[k]]
  BY MappedSeq
<1> DEFINE r == Tail(s)
           p == Mapped(f, s)
           q == Mapped(f, r)
           t == Tail(p)
<1>1. /\ r \in Seq(S) /\ Len(r) = Len(s) - 1 /\ Len(s) \in Nat \ {0} /\ Head(s) = s[1]
      /\ \A k \in 1 .. Len(s) - 1 : r[k] = s[k + 1]
  BY Shortened
<1>2. p \in Seq(Nat) /\ Len(p) = Len(s) /\ \A k \in 1 .. Len(s) : p[k] = f[s[k]] BY <1>0
<1> HIDE DEF r, p
<1>3. q \in Seq(Nat) /\ Len(q) = Len(r) /\ \A k \in 1 .. Len(r) : q[k] = f[r[k]] BY <1>0, <1>1
<1>4. p # <<>>
  <2>1. Len(<<>>) = 0 BY EmptySeq
  <2> QED BY <1>1, <1>2, <2>1
<1>5. /\ t \in Seq(Nat) /\ Len(t) = Len(p) - 1 /\ Head(p) = p[1]
      /\ \A k \in 1 .. Len(p) - 1 : t[k] = p[k + 1]
  BY <1>2, <1>4, Shortened
<1> HIDE DEF q, t
<1>6. ASSUME NEW k \in 1 .. Len(q) PROVE q[k] = t[k]
  <2>1. k \in 1 .. Len(s) - 1 /\ k + 1 \in 1 .. Len(s) BY <1>1, <1>3
  <2> QED BY <1>1, <1>2, <1>3, <1>5, <2>1, ZenonT(30)
<1>7. q = t
  <2>1. Len(q) = Len(t) BY <1>1, <1>2, <1>3, <1>5
  <2> QED BY <1>3, <1>5, <1>6, <2>1, SeqEqual
<1>8. Head(p) = f[Head(s)] BY <1>1, <1>2, <1>5
<1> QED BY <1>4, <1>7, <1>8 DEF q, t, r, p

\* An empty sequence has no numbers.
LEMMA MappedEmpty == ASSUME NEW f PROVE Mapped(f, <<>>) = <<>>
  BY EmptySeq DEF Mapped

-----------------------------------------------------------------------------
(* The lines of a client: where its orders are, on their way to each       *)
(* warehouse.                                                              *)

NumberOf(c) == [o \in KeptOrder |-> IF o.client = c THEN o.number ELSE 0]
NumberIn(c) == [m \in MessagesOf(c) |-> IF m.type = "add" THEN m.order.number ELSE 0]

\* The number of an order, or of a message, is a natural number.
LEMMA NumberTypes ==
    ASSUME NEW c
    PROVE  NumberOf(c) \in [KeptOrder -> Nat] /\ NumberIn(c) \in [MessagesOf(c) -> Nat]
<1>1. \A o \in KeptOrder : o.number \in Nat BY OrderFields
<1>2. \A m \in MessagesOf(c) : m.type = "add" => m.order.number \in Nat
  BY <1>1, MessageFields
<1> QED BY <1>1, <1>2 DEF NumberOf, NumberIn

LineOf(c, ca, ob, ic, wi, re, qu, ms, us) ==
    [a \in 1 .. 8 |->
       CASE a = 1 -> Mapped(NumberOf(c), ca) [] a = 2 -> Mapped(NumberOf(c), ob)
         [] a = 3 -> Mapped(NumberOf(c), ic) [] a = 4 -> Mapped(NumberOf(c), wi)
         [] a = 5 -> Mapped(NumberOf(c), re) [] a = 6 -> Mapped(NumberOf(c), qu)
         [] a = 7 -> Mapped(NumberIn(c), ms) [] a = 8 -> Mapped(NumberIn(c), us)]

LinesOf(c) ==
    [w \in Warehouses |-> LineOf(c, called[w], orderbuff[w], incoming[w], wire[w],
                                    receivedorder[w], queue, msg[c], up[c])]

LostOf(c) == {o.number : o \in {p \in lost : p.client = c}}

\* Every order that was made is in one place, or lost.
LinesInv ==
    /\ \A c \in Clients : Placed(LinesOf(c), LostOf(c), made[c])
    /\ \A o, p \in lost : o.client = p.client /\ o.number = p.number => o = p

\* The eight places of a line.
LEMMA LinePlaces ==
    ASSUME NEW c, NEW ca, NEW ob, NEW ic, NEW wi, NEW re, NEW qu, NEW ms, NEW us,
           ca \in Seq(KeptOrder), ob \in Seq(KeptOrder), ic \in Seq(KeptOrder), wi \in Seq(KeptOrder),
           re \in Seq(KeptOrder), qu \in Seq(KeptOrder), ms \in Seq(MessagesOf(c)), us \in Seq(MessagesOf(c))
    PROVE  LET f == LineOf(c, ca, ob, ic, wi, re, qu, ms, us)
           IN  /\ f \in Lines
               /\ f[1] = Mapped(NumberOf(c), ca) /\ f[2] = Mapped(NumberOf(c), ob)
               /\ f[3] = Mapped(NumberOf(c), ic) /\ f[4] = Mapped(NumberOf(c), wi)
               /\ f[5] = Mapped(NumberOf(c), re) /\ f[6] = Mapped(NumberOf(c), qu)
               /\ f[7] = Mapped(NumberIn(c), ms) /\ f[8] = Mapped(NumberIn(c), us)
<1> DEFINE f == LineOf(c, ca, ob, ic, wi, re, qu, ms, us)
<1>1. /\ f[1] = Mapped(NumberOf(c), ca) /\ f[2] = Mapped(NumberOf(c), ob)
      /\ f[3] = Mapped(NumberOf(c), ic) /\ f[4] = Mapped(NumberOf(c), wi)
      /\ f[5] = Mapped(NumberOf(c), re) /\ f[6] = Mapped(NumberOf(c), qu)
      /\ f[7] = Mapped(NumberIn(c), ms) /\ f[8] = Mapped(NumberIn(c), us)
      /\ f = [a \in 1 .. 8 |-> f[a]]
  BY DEF LineOf
<1>2. \A s : s \in Seq(KeptOrder) => Mapped(NumberOf(c), s) \in Seq(Nat)
  BY NumberTypes, MappedSeq
<1>3. \A s : s \in Seq(MessagesOf(c)) => Mapped(NumberIn(c), s) \in Seq(Nat)
  BY NumberTypes, MappedSeq
<1> HIDE DEF f
<1>4. \A a \in 1 .. 8 : f[a] \in Seq(Nat)
  <2>1. \A a \in 1 .. 8 : a \in {1, 2, 3, 4, 5, 6, 7, 8} OBVIOUS
  <2> QED BY <1>1, <1>2, <1>3, <2>1
<1>5. f \in Lines BY <1>1, <1>4 DEF Lines
<1> QED BY <1>1, <1>5 DEF f

Pictured(c) ==
    /\ LinesOf(c) \in [Warehouses -> Lines]
    /\ \A w \in Warehouses :
          /\ LinesOf(c)[w] = LineOf(c, called[w], orderbuff[w], incoming[w], wire[w],
                                    receivedorder[w], queue, msg[c], up[c])
          /\ LinesOf(c)[w][1] = Mapped(NumberOf(c), called[w])
          /\ LinesOf(c)[w][2] = Mapped(NumberOf(c), orderbuff[w])
          /\ LinesOf(c)[w][3] = Mapped(NumberOf(c), incoming[w])
          /\ LinesOf(c)[w][4] = Mapped(NumberOf(c), wire[w])
          /\ LinesOf(c)[w][5] = Mapped(NumberOf(c), receivedorder[w])
          /\ LinesOf(c)[w][6] = Mapped(NumberOf(c), queue)
          /\ LinesOf(c)[w][7] = Mapped(NumberIn(c), msg[c])
          /\ LinesOf(c)[w][8] = Mapped(NumberIn(c), up[c])

\* The places of the lines, in a state of the invariant.
LEMMA Picture == ASSUME TypeInv, NEW c \in Clients PROVE Pictured(c)
<1>1. ASSUME NEW w \in Warehouses
      PROVE  /\ called[w] \in Seq(KeptOrder) /\ orderbuff[w] \in Seq(KeptOrder)
             /\ incoming[w] \in Seq(KeptOrder) /\ wire[w] \in Seq(KeptOrder)
             /\ receivedorder[w] \in Seq(KeptOrder) /\ queue \in Seq(KeptOrder)
             /\ msg[c] \in Seq(MessagesOf(c)) /\ up[c] \in Seq(MessagesOf(c))
  BY DEF TypeInv, Sessions, Intake
<1>2. \A w \in Warehouses :
         LinesOf(c)[w] = LineOf(c, called[w], orderbuff[w], incoming[w], wire[w],
                                receivedorder[w], queue, msg[c], up[c])
  BY DEF LinesOf
<1>3. ASSUME NEW w \in Warehouses
      PROVE  LET f == LinesOf(c)[w]
             IN  /\ f \in Lines
                 /\ f[1] = Mapped(NumberOf(c), called[w]) /\ f[2] = Mapped(NumberOf(c), orderbuff[w])
                 /\ f[3] = Mapped(NumberOf(c), incoming[w]) /\ f[4] = Mapped(NumberOf(c), wire[w])
                 /\ f[5] = Mapped(NumberOf(c), receivedorder[w]) /\ f[6] = Mapped(NumberOf(c), queue)
                 /\ f[7] = Mapped(NumberIn(c), msg[c]) /\ f[8] = Mapped(NumberIn(c), up[c])
  BY <1>1, <1>2, LinePlaces, SMTT(30)
<1>4. LinesOf(c) \in [Warehouses -> Lines] BY <1>3 DEF LinesOf
<1> QED BY <1>2, <1>3, <1>4 DEF Pictured

\* The places of the lines, after a step.
LEMMA PictureNext == ASSUME TypeInv', NEW c \in Clients PROVE Pictured(c)'
<1>1. ASSUME NEW w \in Warehouses
      PROVE  /\ called'[w] \in Seq(KeptOrder) /\ orderbuff'[w] \in Seq(KeptOrder)
             /\ incoming'[w] \in Seq(KeptOrder) /\ wire'[w] \in Seq(KeptOrder)
             /\ receivedorder'[w] \in Seq(KeptOrder) /\ queue' \in Seq(KeptOrder)
             /\ msg'[c] \in Seq(MessagesOf(c)) /\ up'[c] \in Seq(MessagesOf(c))
  BY DEF TypeInv, Sessions, Intake
<1>2. \A w \in Warehouses :
         LinesOf(c)'[w] = LineOf(c, called'[w], orderbuff'[w], incoming'[w], wire'[w],
                                 receivedorder'[w], queue', msg'[c], up'[c])
  BY DEF LinesOf
<1>3. ASSUME NEW w \in Warehouses
      PROVE  LET f == LinesOf(c)'[w]
             IN  /\ f \in Lines
                 /\ f[1] = Mapped(NumberOf(c), called'[w]) /\ f[2] = Mapped(NumberOf(c), orderbuff'[w])
                 /\ f[3] = Mapped(NumberOf(c), incoming'[w]) /\ f[4] = Mapped(NumberOf(c), wire'[w])
                 /\ f[5] = Mapped(NumberOf(c), receivedorder'[w]) /\ f[6] = Mapped(NumberOf(c), queue')
                 /\ f[7] = Mapped(NumberIn(c), msg'[c]) /\ f[8] = Mapped(NumberIn(c), up'[c])
  BY <1>1, <1>2, LinePlaces, SMTT(30)
<1>4. LinesOf(c)' \in [Warehouses -> Lines] BY <1>3 DEF LinesOf
<1> QED BY <1>2, <1>3, <1>4 DEF Pictured

-----------------------------------------------------------------------------
(* Warehouses keep each order in its place.                                *)

\* A thread of warehouse w hands on an order from place b of its lines to
\* place a, and keeps its maker and its number.
Handed(c, f, g, w, a, b) ==
    \E s, t \in Seq(KeptOrder) : \E p \in KeptOrder :
       /\ t # <<>> /\ p.client = Head(t).client /\ p.number = Head(t).number
       /\ f[w][a] = Mapped(NumberOf(c), s) /\ g[w][a] = Mapped(NumberOf(c), Append(s, p))
       /\ f[w][b] = Mapped(NumberOf(c), t) /\ g[w][b] = Mapped(NumberOf(c), Tail(t))
       /\ \A d \in 1 .. 8 : d # a /\ d # b => g[w][d] = f[w][d]

\* An order that is handed on moves in the line of its client.
LEMMA HandedMove ==
    ASSUME NEW c, NEW w, NEW f, NEW g, NEW a, Handed(c, f, g, w, a, a + 1)
    PROVE  Move(f[w], g[w], a)
<1> DEFINE h == NumberOf(c)
           b == a + 1
<1> HIDE DEF b
<1>1. PICK s \in Seq(KeptOrder), t \in Seq(KeptOrder), p \in KeptOrder :
         /\ t # <<>> /\ p.client = Head(t).client /\ p.number = Head(t).number
         /\ f[w][a] = Mapped(h, s) /\ g[w][a] = Mapped(h, Append(s, p))
         /\ f[w][b] = Mapped(h, t) /\ g[w][b] = Mapped(h, Tail(t))
         /\ \A d \in 1 .. 8 : d # a /\ d # b => g[w][d] = f[w][d]
  BY DEF Handed, b
<1>2. Head(t) \in KeptOrder BY <1>1, Shortened
<1>3. h[p] = h[Head(t)] BY <1>1, <1>2 DEF NumberOf
<1>4. h \in [KeptOrder -> Nat] BY NumberTypes
<1> HIDE DEF h
<1>5. Mapped(h, Append(s, p)) = Append(Mapped(h, s), h[p])
  <2>1. s \in Seq(KeptOrder) /\ p \in KeptOrder OBVIOUS
  <2> QED BY ONLY <1>4, <2>1, MappedAppend
<1>6. /\ Mapped(h, t) # <<>> /\ Head(Mapped(h, t)) = h[Head(t)]
      /\ Mapped(h, Tail(t)) = Tail(Mapped(h, t))
  <2>1. t \in Seq(KeptOrder) /\ t # <<>> BY <1>1
  <2> QED BY ONLY <1>4, <2>1, MappedTail
<1>7. /\ f[w][b] # <<>> /\ g[w][a] = Append(f[w][a], Head(f[w][b])) /\ g[w][b] = Tail(f[w][b])
  BY <1>1, <1>3, <1>5, <1>6, Zenon
<1> QED BY <1>1, <1>7 DEF Move, b

\* Handing on an order, at one warehouse, keeps all of them placed.
LEMMA OrderMoves ==
    ASSUME NEW c, NEW w \in Warehouses, NEW a \in {1, 2, 3, 4}, NEW gone, NEW m,
           NEW f \in [Warehouses -> Lines], NEW g \in [Warehouses -> Lines], Placed(f, gone, m),
           Handed(c, f, g, w, a, a + 1), \A v \in Warehouses : v # w => g[v] = f[v]
    PROVE  Placed(g, gone, m)
<1>1. Move(f[w], g[w], a) BY HandedMove
<1>2. \A v \in Warehouses : g[v] = f[v] \/ Move(f[v], g[v], a) BY <1>1
<1>3. a \in {1, 2, 3, 4, 6, 7} OBVIOUS
<1> QED BY <1>2, <1>3, PlacedMove

\* The places of a warehouse, and what a thread does that hands on an order
Station(w, a) ==
    CASE a = 1 -> called[w] [] a = 2 -> orderbuff[w] [] a = 3 -> incoming[w]
      [] a = 4 -> wire[w] [] a = 5 -> receivedorder[w]

HandsOn(w, a, b) ==
    /\ \E p \in KeptOrder :
         /\ Station(w, b) # <<>> /\ Station(w, b)' = Tail(Station(w, b))
         /\ Station(w, a)' = Append(Station(w, a), p)
         /\ p.client = Head(Station(w, b)).client /\ p.number = Head(Station(w, b)).number
    /\ \A v \in Warehouses : \A d \in 1 .. 5 :
         v # w \/ d \notin {a, b} => Station(v, d)' = Station(v, d)
    /\ UNCHANGED <<queue, msg, up, made, lost>>

\* The five places at a warehouse.
LEMMA FiveStations ==
    ASSUME NEW w
    PROVE  /\ Station(w, 1) = called[w] /\ Station(w, 2) = orderbuff[w] /\ Station(w, 3) = incoming[w]
           /\ Station(w, 4) = wire[w] /\ Station(w, 5) = receivedorder[w]
  BY DEF Station

\* The five places at a warehouse, after a step.
LEMMA FiveStationsNext ==
    ASSUME NEW w
    PROVE  /\ Station(w, 1)' = called'[w] /\ Station(w, 2)' = orderbuff'[w] /\ Station(w, 3)' = incoming'[w]
           /\ Station(w, 4)' = wire'[w] /\ Station(w, 5)' = receivedorder'[w]
  BY DEF Station

\* The first five places of a line are those at the warehouse.
LEMMA StationLines ==
    ASSUME TypeInv, TypeInv', NEW c \in Clients, NEW w \in Warehouses, NEW a \in 1 .. 5
    PROVE  /\ LinesOf(c)[w][a] = Mapped(NumberOf(c), Station(w, a))
           /\ LinesOf(c)'[w][a] = Mapped(NumberOf(c), Station(w, a)')
           /\ Station(w, a) \in Seq(KeptOrder)
<1>1. a \in {1, 2, 3, 4, 5} OBVIOUS
<1>2. Pictured(c) /\ Pictured(c)' BY Picture, PictureNext
<1>3. LinesOf(c)[w][a] = Mapped(NumberOf(c), Station(w, a)) BY <1>1, <1>2, FiveStations DEF Pictured
<1>4. LinesOf(c)'[w][a] = Mapped(NumberOf(c), Station(w, a)') BY <1>1, <1>2, FiveStationsNext DEF Pictured
<1>5. Station(w, a) \in Seq(KeptOrder) BY <1>1, FiveStations DEF TypeInv, Intake
<1> QED BY <1>3, <1>4, <1>5

\* Where nothing happens, the lines stay as they are.
LEMMA LineStays ==
    ASSUME TypeInv, TypeInv', NEW c \in Clients, NEW v \in Warehouses,
           \A d \in 1 .. 5 : Station(v, d)' = Station(v, d), UNCHANGED <<queue, msg, up>>
    PROVE  LinesOf(c)'[v] = LinesOf(c)[v]
<1>1. /\ called'[v] = called[v] /\ orderbuff'[v] = orderbuff[v] /\ incoming'[v] = incoming[v]
      /\ wire'[v] = wire[v] /\ receivedorder'[v] = receivedorder[v]
  <2>1. 1 \in 1 .. 5 /\ 2 \in 1 .. 5 /\ 3 \in 1 .. 5 /\ 4 \in 1 .. 5 /\ 5 \in 1 .. 5 OBVIOUS
  <2> QED BY <2>1, FiveStations, FiveStationsNext
<1>2. Pictured(c) /\ Pictured(c)' BY Picture, PictureNext
<1> QED BY <1>1, <1>2 DEF Pictured

\* A thread that hands an order on keeps the orders of every client placed.
LEMMA HandsOnPlaced ==
    ASSUME TypeInv, TypeInv', NEW c \in Clients, NEW w \in Warehouses, NEW a \in {1, 2, 3, 4},
           HandsOn(w, a, a + 1), Placed(LinesOf(c), LostOf(c), made[c])
    PROVE  Placed(LinesOf(c), LostOf(c), made[c])'
<1> DEFINE f == LinesOf(c)
           g == LinesOf(c)'
           b == a + 1
           s == Station(w, a)
           t == Station(w, b)
           gone == LostOf(c)
           m == made[c]
<1>1. a \in 1 .. 5 /\ b \in 1 .. 5 /\ a # b OBVIOUS
<1>2. /\ f[w][a] = Mapped(NumberOf(c), s) /\ g[w][a] = Mapped(NumberOf(c), s') /\ s \in Seq(KeptOrder)
      /\ f[w][b] = Mapped(NumberOf(c), t) /\ g[w][b] = Mapped(NumberOf(c), t') /\ t \in Seq(KeptOrder)
  BY <1>1, StationLines
<1>3. PICK p \in KeptOrder :
         /\ t # <<>> /\ t' = Tail(t) /\ s' = Append(s, p)
         /\ p.client = Head(t).client /\ p.number = Head(t).number
  BY DEF HandsOn
<1>4. /\ \A v \in Warehouses : \A d \in 1 .. 5 : v # w \/ d \notin {a, b} => Station(v, d)' = Station(v, d)
      /\ UNCHANGED <<queue, msg, up, made, lost>>
  BY DEF HandsOn
<1>5. \A v \in Warehouses : v # w => g[v] = f[v] BY <1>4, LineStays
<1>6. Pictured(c) /\ Pictured(c)' BY Picture, PictureNext
<1>7. ASSUME NEW d \in 1 .. 8, d # a, d # b PROVE g[w][d] = f[w][d]
  <2>1. CASE d \in 1 .. 5
    <3>1. Station(w, d)' = Station(w, d) BY <1>4, <1>7, <2>1
    <3>2. f[w][d] = Mapped(NumberOf(c), Station(w, d)) /\ g[w][d] = Mapped(NumberOf(c), Station(w, d)')
      BY <2>1, StationLines
    <3> QED BY <3>1, <3>2
  <2>2. CASE d \in {6, 7, 8} BY <1>4, <1>6, <2>2 DEF Pictured
  <2>3. d \in 1 .. 5 \/ d \in {6, 7, 8} OBVIOUS
  <2> QED BY <2>1, <2>2, <2>3
<1>8. f \in [Warehouses -> Lines] /\ g \in [Warehouses -> Lines] /\ Placed(f, gone, m)
  BY <1>6 DEF Pictured
<1> HIDE DEF f, g, s, t, b
<1>9. Handed(c, f, g, w, a, b) BY <1>2, <1>3, <1>7 DEF Handed
<1>10. Handed(c, f, g, w, a, a + 1) BY <1>9 DEF b
<1> HIDE DEF gone, m
<1>11. Placed(g, gone, m) BY <1>5, <1>8, <1>10, OrderMoves
<1> QED BY <1>4, <1>11 DEF g, gone, m, LostOf

\* CallDelivery is called for the first order in orderbuff.
LEMMA HandlerHandsOn ==
    ASSUME TypeInv, NEW w \in Warehouses, HandlerCall(w), UNCHANGED sessionVars
    PROVE  HandsOn(w, 1, 2)
<1>1. /\ called' = [called EXCEPT ![w] = Append(@, Head(orderbuff[w]))]
      /\ orderbuff' = [orderbuff EXCEPT ![w] = Tail(orderbuff[w])]
      /\ UNCHANGED <<receivedorder, wire, incoming, queue, msg, up, made, lost>>
  BY DEF HandlerCall, sendVars, sessionVars
<1>2. called \in [Warehouses -> Seq(KeptOrder)] /\ orderbuff \in [Warehouses -> Seq(KeptOrder)]
      /\ orderbuff[w] # <<>>
  BY DEF TypeInv, Intake, IntakePoints, HandlerCall
<1>3. Head(orderbuff[w]) \in KeptOrder BY <1>2, Shortened
<1>4. \A v \in Warehouses : v # w => called'[v] = called[v] /\ orderbuff'[v] = orderbuff[v] BY <1>1, <1>2
<1>5. called'[w] = Append(called[w], Head(orderbuff[w])) /\ orderbuff'[w] = Tail(orderbuff[w])
  BY <1>1, <1>2
<1>6. ASSUME NEW v \in Warehouses, NEW d \in 1 .. 5, v # w \/ d \notin {1, 2}
      PROVE  Station(v, d)' = Station(v, d)
  <2>1. d \in {1, 2, 3, 4, 5} OBVIOUS
  <2> QED BY <1>1, <1>4, <1>6, <2>1, FiveStations, FiveStationsNext
<1>7. \E p \in KeptOrder :
         /\ Station(w, 2) # <<>> /\ Station(w, 2)' = Tail(Station(w, 2))
         /\ Station(w, 1)' = Append(Station(w, 1), p)
         /\ p.client = Head(Station(w, 2)).client /\ p.number = Head(Station(w, 2)).number
  BY <1>2, <1>3, <1>5, FiveStations, FiveStationsNext
<1> QED BY <1>1, <1>6, <1>7 DEF HandsOn

\* GetOrdersFromServer puts the order it has in hand into orderbuff.
LEMMA BufferHandsOn ==
    ASSUME TypeInv, NEW w \in Warehouses, BufferOrder(w), UNCHANGED sessionVars
    PROVE  HandsOn(w, 2, 3)
<1>1. /\ incoming' = [incoming EXCEPT ![w] = <<>>]
      /\ UNCHANGED <<receivedorder, wire, called, queue, msg, up, made, lost>>
  BY DEF BufferOrder, sendVars, sessionVars
<1>2. incoming \in [Warehouses -> Seq(KeptOrder)] /\ orderbuff \in [Warehouses -> Seq(KeptOrder)]
  BY DEF TypeInv, Intake
<1>3. PICK p \in KeptOrder :
         /\ orderbuff' = [orderbuff EXCEPT ![w] = Append(@, p)]
         /\ p.client = incoming[w][1].client /\ p.number = incoming[w][1].number
  BY BufferedOrder DEF TypeInv
<1>4. incoming[w] # <<>> /\ Head(incoming[w]) = incoming[w][1] /\ Tail(incoming[w]) = <<>>
  <2>1. incoming[w] = <<incoming[w][1]>> /\ incoming[w][1] \in KeptOrder BY BufferedOrder DEF TypeInv
  <2> DEFINE o == incoming[w][1]
  <2> HIDE DEF o
  <2>2. <<o>> # <<>> /\ Head(<<o>>) = o /\ Tail(<<o>>) = <<>> OBVIOUS
  <2>3. incoming[w] = <<o>> BY <2>1 DEF o
  <2> QED BY <2>2, <2>3 DEF o
<1>5. \A v \in Warehouses : v # w => incoming'[v] = incoming[v] /\ orderbuff'[v] = orderbuff[v]
  BY <1>1, <1>2, <1>3
<1>6. orderbuff'[w] = Append(orderbuff[w], p) /\ incoming'[w] = <<>> BY <1>1, <1>2, <1>3
<1>7. ASSUME NEW v \in Warehouses, NEW d \in 1 .. 5, v # w \/ d \notin {2, 3}
      PROVE  Station(v, d)' = Station(v, d)
  <2>1. d \in {1, 2, 3, 4, 5} OBVIOUS
  <2> QED BY <1>1, <1>5, <1>7, <2>1, FiveStations, FiveStationsNext
<1>8. \E q \in KeptOrder :
         /\ Station(w, 3) # <<>> /\ Station(w, 3)' = Tail(Station(w, 3))
         /\ Station(w, 2)' = Append(Station(w, 2), q)
         /\ q.client = Head(Station(w, 3)).client /\ q.number = Head(Station(w, 3)).number
  <2>1. /\ Station(w, 2) = orderbuff[w] /\ Station(w, 2)' = orderbuff'[w]
        /\ Station(w, 3) = incoming[w] /\ Station(w, 3)' = incoming'[w]
    BY FiveStations, FiveStationsNext
  <2>2. /\ Station(w, 3) # <<>> /\ Station(w, 3)' = Tail(Station(w, 3))
        /\ Station(w, 2)' = Append(Station(w, 2), p)
        /\ p.client = Head(Station(w, 3)).client /\ p.number = Head(Station(w, 3)).number
    BY <1>3, <1>4, <1>6, <2>1, Zenon
  <2> QED BY <2>2, Zenon
<1> QED BY <1>1, <1>7, <1>8 DEF HandsOn

\* GetOrdersFromServer receives the first order on the wire.
LEMMA ReceiveHandsOn ==
    ASSUME TypeInv, NEW w \in Warehouses, ReceiveOrder(w), UNCHANGED sessionVars
    PROVE  HandsOn(w, 3, 4)
<1> DEFINE o == Head(wire[w])
<1>1. /\ incoming' = [incoming EXCEPT ![w] = <<o>>] /\ wire' = [wire EXCEPT ![w] = Tail(wire[w])]
      /\ UNCHANGED <<receivedorder, orderbuff, called, queue, msg, up, made, lost>>
  BY DEF ReceiveOrder, sendVars, sessionVars
<1>2. incoming \in [Warehouses -> Seq(KeptOrder)] /\ wire \in [Warehouses -> Seq(KeptOrder)]
      /\ wire[w] # <<>> /\ incoming[w] = <<>>
  BY DEF TypeInv, Intake, IntakePoints, ReceiveOrder, ReceiverGo
<1>3. o \in KeptOrder BY <1>2, Shortened
<1>4. \A v \in Warehouses : v # w => incoming'[v] = incoming[v] /\ wire'[v] = wire[v] BY <1>1, <1>2
<1>5. incoming'[w] = Append(incoming[w], o) /\ wire'[w] = Tail(wire[w])
  <2>1. incoming'[w] = <<o>> /\ wire'[w] = Tail(wire[w]) BY <1>1, <1>2
  <2> HIDE DEF o
  <2>2. Append(<<>>, o) = <<o>> BY <1>3, Alone
  <2> QED BY <1>2, <2>1, <2>2
<1>6. ASSUME NEW v \in Warehouses, NEW d \in 1 .. 5, v # w \/ d \notin {3, 4}
      PROVE  Station(v, d)' = Station(v, d)
  <2>1. d \in {1, 2, 3, 4, 5} OBVIOUS
  <2> QED BY <1>1, <1>4, <1>6, <2>1, FiveStations, FiveStationsNext
<1>7. \E p \in KeptOrder :
         /\ Station(w, 4) # <<>> /\ Station(w, 4)' = Tail(Station(w, 4))
         /\ Station(w, 3)' = Append(Station(w, 3), p)
         /\ p.client = Head(Station(w, 4)).client /\ p.number = Head(Station(w, 4)).number
  BY <1>2, <1>3, <1>5, FiveStations, FiveStationsNext
<1> QED BY <1>1, <1>6, <1>7 DEF HandsOn

\* warehouseservice sends the order it has in hand, to a warehouse that is
\* there.
LEMMA SendHandsOn ==
    ASSUME TypeInv, NEW w \in Warehouses, SendOrder(w), UNCHANGED sessionVars,
           wire' = [wire EXCEPT ![w] = Append(@, receivedorder[w][1])], UNCHANGED lost
    PROVE  HandsOn(w, 4, 5)
<1> DEFINE o == receivedorder[w][1]
<1>1. /\ receivedorder' = [receivedorder EXCEPT ![w] = <<>>]
      /\ UNCHANGED <<incoming, orderbuff, called, queue, msg, up, made, lost>>
  BY DEF SendOrder, warehouseVars, sessionVars
<1>2. receivedorder \in [Warehouses -> Seq(KeptOrder)] /\ wire \in [Warehouses -> Seq(KeptOrder)]
  BY DEF TypeInv, Intake
<1>3. receivedorder[w] = <<o>> /\ o \in KeptOrder BY SentOrder DEF TypeInv
<1>4. receivedorder[w] # <<>> /\ Head(receivedorder[w]) = o /\ Tail(receivedorder[w]) = <<>>
  <2> HIDE DEF o
  <2>1. <<o>> # <<>> /\ Head(<<o>>) = o /\ Tail(<<o>>) = <<>> OBVIOUS
  <2> QED BY <1>3, <2>1
<1>5. \A v \in Warehouses : v # w => receivedorder'[v] = receivedorder[v] /\ wire'[v] = wire[v] BY <1>1, <1>2
<1>6. wire'[w] = Append(wire[w], o) /\ receivedorder'[w] = <<>> BY <1>1, <1>2
<1>7. ASSUME NEW v \in Warehouses, NEW d \in 1 .. 5, v # w \/ d \notin {4, 5}
      PROVE  Station(v, d)' = Station(v, d)
  <2>1. d \in {1, 2, 3, 4, 5} OBVIOUS
  <2> QED BY <1>1, <1>5, <1>7, <2>1, FiveStations, FiveStationsNext
<1>8. \E q \in KeptOrder :
         /\ Station(w, 5) # <<>> /\ Station(w, 5)' = Tail(Station(w, 5))
         /\ Station(w, 4)' = Append(Station(w, 4), q)
         /\ q.client = Head(Station(w, 5)).client /\ q.number = Head(Station(w, 5)).number
  <2>1. /\ Station(w, 4) = wire[w] /\ Station(w, 4)' = wire'[w]
        /\ Station(w, 5) = receivedorder[w] /\ Station(w, 5)' = receivedorder'[w]
    BY FiveStations, FiveStationsNext
  <2> HIDE DEF o
  <2>2. /\ Station(w, 5) # <<>> /\ Station(w, 5)' = Tail(Station(w, 5))
        /\ Station(w, 4)' = Append(Station(w, 4), o)
        /\ o.client = Head(Station(w, 5)).client /\ o.number = Head(Station(w, 5)).number
    BY <1>4, <1>6, <2>1, Zenon
  <2> QED BY <1>3, <2>2, Zenon
<1> QED BY <1>1, <1>7, <1>8 DEF HandsOn

\* warehouseservice takes the next order out of the order queue.
LEMMA TakePlaced ==
    ASSUME TypeInv, TypeInv', NEW c \in Clients, NEW w \in Warehouses, TakeOrder(w), UNCHANGED sessionVars,
           Placed(LinesOf(c), LostOf(c), made[c])
    PROVE  Placed(LinesOf(c), LostOf(c), made[c])'
<1> DEFINE f == LinesOf(c)
           g == LinesOf(c)'
           o == Head(queue)
           h == NumberOf(c)
           gone == LostOf(c)
           m == made[c]
<1>1. /\ receivedorder' = [receivedorder EXCEPT ![w] = <<o>>] /\ queue' = Tail(queue) /\ queue # <<>>
      /\ UNCHANGED <<wire, incoming, orderbuff, called, msg, up, made, lost>>
  BY DEF TakeOrder, warehouseVars, sessionVars
<1>2. /\ receivedorder \in [Warehouses -> Seq(KeptOrder)] /\ queue \in Seq(KeptOrder)
      /\ receivedorder[w] = <<>>
  BY DEF TypeInv, Sessions, Intake, IntakePoints, TakeOrder, SendGo
<1>3. o \in KeptOrder BY <1>1, <1>2, Shortened
<1>4. /\ \A v \in Warehouses : v # w => receivedorder'[v] = receivedorder[v]
      /\ receivedorder'[w] = Append(receivedorder[w], o)
  <2>1. \A v \in Warehouses : v # w => receivedorder'[v] = receivedorder[v] BY <1>1, <1>2
  <2>2. receivedorder'[w] = <<o>> BY <1>1, <1>2
  <2> HIDE DEF o
  <2>3. Append(<<>>, o) = <<o>> BY <1>3, Alone
  <2> QED BY <1>2, <2>1, <2>2, <2>3
<1>5. Pictured(c) /\ Pictured(c)' BY Picture, PictureNext
<1>6. /\ f \in [Warehouses -> Lines] /\ g \in [Warehouses -> Lines] /\ Placed(f, gone, m)
      /\ SharedPlaces(f)
  <2>1. \A b \in 6 .. 8 : b \in {6, 7, 8} OBVIOUS
  <2> QED BY <1>5, <2>1 DEF Pictured, SharedPlaces
<1>7. ASSUME NEW v \in Warehouses
      PROVE  /\ f[v][5] = Mapped(h, receivedorder[v]) /\ g[v][5] = Mapped(h, receivedorder'[v])
             /\ f[v][6] = Mapped(h, queue) /\ g[v][6] = Mapped(h, Tail(queue))
             /\ \A b \in {1, 2, 3, 4, 7, 8} : g[v][b] = f[v][b]
  BY <1>1, <1>5 DEF Pictured
<1> HIDE DEF f, g
<1>8. \A b \in 1 .. 8 : b # 5 /\ b # 6 => b \in {1, 2, 3, 4, 7, 8} OBVIOUS
<1>9. Move(f[w], g[w], 5)
  <2> DEFINE r == receivedorder[w]
  <2>0. r \in Seq(KeptOrder) /\ receivedorder'[w] = Append(r, o) BY <1>2, <1>4
  <2>1. /\ f[w][5] = Mapped(h, r) /\ g[w][5] = Mapped(h, Append(r, o))
        /\ f[w][6] = Mapped(h, queue) /\ g[w][6] = Mapped(h, Tail(queue))
        /\ \A b \in 1 .. 8 : b # 5 /\ b # 6 => g[w][b] = f[w][b]
        /\ queue # <<>> /\ queue \in Seq(KeptOrder)
    BY <1>1, <1>2, <1>7, <1>8, <2>0
  <2>2. o.client = Head(queue).client /\ o.number = Head(queue).number OBVIOUS
  <2> HIDE DEF o, r
  <2>3. Handed(c, f, g, w, 5, 6) BY <1>3, <2>0, <2>1, <2>2 DEF Handed
  <2>4. Handed(c, f, g, w, 5, 5 + 1) BY <2>3
  <2> QED BY <2>4, HandedMove
<1>10. ASSUME NEW v \in Warehouses \ {w}
       PROVE  g[v][6] = Tail(f[v][6]) /\ \A b \in 1 .. 8 : b # 6 => g[v][b] = f[v][b]
  <2>1. h \in [KeptOrder -> Nat] BY NumberTypes
  <2> HIDE DEF h
  <2>2. Mapped(h, Tail(queue)) = Tail(Mapped(h, queue))
    BY ONLY <1>1, <1>2, <2>1, MappedTail
  <2>3. g[v][5] = f[v][5] BY <1>4, <1>7
  <2> QED BY <1>7, <1>8, <2>2, <2>3
<1> HIDE DEF gone, m
<1>11. Placed(g, gone, m) BY <1>6, <1>9, <1>10, PlacedTake
<1> QED BY <1>1, <1>11 DEF g, gone, m, LostOf

-----------------------------------------------------------------------------
(* Orders that are lost.                                                   *)

\* The numbers of a client's orders in a sequence of orders.
LEMMA NumbersOfClient ==
    ASSUME NEW c \in Clients, NEW s \in Seq(KeptOrder)
    PROVE  Numbers(Mapped(NumberOf(c), s)) = {o.number : o \in {p \in ToSetOf(s) : p.client = c}}
<1> DEFINE q == Mapped(NumberOf(c), s)
           R == {o.number : o \in {p \in ToSetOf(s) : p.client = c}}
<1>1. Len(q) = Len(s) /\ \A k \in 1 .. Len(s) : q[k] = NumberOf(c)[s[k]]
  BY NumberTypes, MappedSeq
<1>2. \A k \in 1 .. Len(s) : s[k] \in KeptOrder BY ElementOfSeq
<1>3. \A k \in 1 .. Len(s) : /\ q[k] = IF s[k].client = c THEN s[k].number ELSE 0
                             /\ s[k].number # 0
  <2>1. \A o \in KeptOrder : o.number # 0 BY OrderFields
  <2> QED BY <1>1, <1>2, <2>1 DEF NumberOf
<1> HIDE DEF q
<1>4. ASSUME NEW x \in Numbers(q) PROVE x \in R
  <2>1. PICK k \in 1 .. Len(s) : x = q[k] /\ x # 0 BY <1>1 DEF Numbers
  <2>2. s[k].client = c /\ x = s[k].number BY <1>3, <2>1
  <2>3. s[k] \in ToSetOf(s) BY DEF ToSetOf
  <2> QED BY <2>2, <2>3
<1>5. ASSUME NEW x \in R PROVE x \in Numbers(q)
  <2>1. PICK o \in ToSetOf(s) : o.client = c /\ x = o.number OBVIOUS
  <2>2. PICK k \in 1 .. Len(s) : o = s[k] BY DEF ToSetOf
  <2>3. x = q[k] /\ x # 0 BY <1>3, <2>1, <2>2
  <2> QED BY <1>1, <2>3 DEF Numbers
<1>6. Numbers(q) = R BY <1>4, <1>5
<1> QED BY <1>6 DEF q

\* What places A of warehouse w hold is lost.
Loses(w, A) ==
    /\ lost' = lost \cup UNION {ToSetOf(Station(w, a)) : a \in A}
    /\ \A a \in A : Station(w, a)' = <<>>
    /\ \A v \in Warehouses : \A d \in 1 .. 5 :
         v # w \/ d \notin A => Station(v, d)' = Station(v, d)
    /\ UNCHANGED <<queue, msg, up, made>>

\* A place that is emptied into lost keeps the orders of every client placed.
LEMMA LosesPlaced ==
    ASSUME TypeInv, TypeInv', NEW c \in Clients, NEW w \in Warehouses, NEW A \in SUBSET (1 .. 5),
           Loses(w, A), Placed(LinesOf(c), LostOf(c), made[c])
    PROVE  Placed(LinesOf(c), LostOf(c), made[c])'
<1> DEFINE f == LinesOf(c)
           g == LinesOf(c)'
           gone == LostOf(c)
           m == made[c]
           H == UNION {Numbers(f[w][a]) : a \in A}
<1>1. Pictured(c) /\ Pictured(c)' BY Picture, PictureNext
<1>2. /\ f \in [Warehouses -> Lines] /\ g \in [Warehouses -> Lines] /\ Placed(f, gone, m)
      /\ SharedPlaces(f)
  <2>1. \A b \in 6 .. 8 : b \in {6, 7, 8} OBVIOUS
  <2> QED BY <1>1, <2>1 DEF Pictured, SharedPlaces
<1>3. \A v \in Warehouses \ {w} : g[v] = f[v] BY LineStays DEF Loses
<1>4. ASSUME NEW a \in 1 .. 8
      PROVE  g[w][a] = IF a \in A THEN <<>> ELSE f[w][a]
  <2>1. CASE a \in 1 .. 5
    <3>1. /\ f[w][a] = Mapped(NumberOf(c), Station(w, a)) /\ g[w][a] = Mapped(NumberOf(c), Station(w, a)')
      BY <2>1, StationLines
    <3>2. IF a \in A THEN Station(w, a)' = <<>> ELSE Station(w, a)' = Station(w, a)
      BY <2>1 DEF Loses
    <3> QED BY <3>1, <3>2, MappedEmpty
  <2>2. CASE a \in {6, 7, 8}
    <3>1. a \notin A BY <2>2
    <3> QED BY <1>1, <2>2, <3>1 DEF Pictured, Loses
  <2>3. a \in 1 .. 5 \/ a \in {6, 7, 8} OBVIOUS
  <2> QED BY <2>1, <2>2, <2>3
<1>5. LostOf(c)' = gone \cup H
  <2>1. \A a \in A : Numbers(f[w][a]) = {o.number : o \in {p \in ToSetOf(Station(w, a)) : p.client = c}}
    BY StationLines, NumbersOfClient
  <2>2. \A o : o \in lost' <=> o \in lost \/ \E a \in A : o \in ToSetOf(Station(w, a))
    BY DEF Loses
  <2> HIDE DEF f
  <2>3. \A x : x \in H <=> \E a \in A : \E o \in ToSetOf(Station(w, a)) : o.client = c /\ x = o.number
    BY <2>1
  <2>4. \A x : x \in LostOf(c)' <=> \E o \in lost' : o.client = c /\ x = o.number BY DEF LostOf
  <2>5. \A x : x \in gone <=> \E o \in lost : o.client = c /\ x = o.number BY DEF LostOf
  <2> HIDE DEF gone, H
  <2>6. \A x : x \in LostOf(c)' <=> x \in gone \/ x \in H BY <2>2, <2>3, <2>4, <2>5
  <2> QED BY <2>6
<1>6. made'[c] = m BY DEF Loses
<1> HIDE DEF f, g, gone, m, H
<1>7. Emptied(f, g, w, A) BY <1>3, <1>4 DEF Emptied
<1>8. Placed(g, gone \cup H, m) BY <1>2, <1>7, PlacedLose DEF H
<1> QED BY <1>5, <1>6, <1>8 DEF g

\* No two orders that are lost are the same client's with the same number.
LEMMA LosesOnce ==
    ASSUME TypeInv, TypeInv', LinesInv, NEW w \in Warehouses, NEW A \in SUBSET (1 .. 5), Loses(w, A),
           NEW o \in lost', NEW p \in lost', o.client = p.client, o.number = p.number
    PROVE  o = p
<1> DEFINE L == UNION {ToSetOf(Station(w, a)) : a \in A}
           c == o.client
           f == LinesOf(c)
<1>1. lost' = lost \cup L BY DEF Loses
<1>2. o \in KeptOrder /\ p \in KeptOrder BY DEF TypeInv, Intake
<1>3. c \in Clients /\ o.number # 0 BY <1>2, OrderFields
<1>4. Placed(f, LostOf(c), made[c]) /\ f \in [Warehouses -> Lines]
  BY <1>3, Picture DEF LinesInv, Pictured
<1>5. ASSUME NEW q \in L, q.client = c, q \in KeptOrder
      PROVE  \E a \in A : \E k \in 1 .. Len(f[w][a]) :
                q = Station(w, a)[k] /\ f[w][a][k] = q.number /\ a \in 1 .. 5
  <2>1. PICK a \in A : q \in ToSetOf(Station(w, a)) OBVIOUS
  <2>2. PICK k \in 1 .. Len(Station(w, a)) : q = Station(w, a)[k] BY <2>1 DEF ToSetOf
  <2>3. a \in 1 .. 5 /\ Station(w, a) \in Seq(KeptOrder) /\ f[w][a] = Mapped(NumberOf(c), Station(w, a))
    BY <1>3, StationLines
  <2>4. /\ Len(f[w][a]) = Len(Station(w, a))
        /\ f[w][a][k] = NumberOf(c)[Station(w, a)[k]]
    <3>1. NumberOf(c) \in [KeptOrder -> Nat] BY NumberTypes
    <3> QED BY <2>3, <3>1, MappedSeq
  <2>5. NumberOf(c)[q] = q.number BY <1>5 DEF NumberOf
  <2> QED BY <2>2, <2>3, <2>4, <2>5
<1> HIDE DEF f
<1>6. \A q \in L : q \in KeptOrder /\ q.client = c => q.number \in Held(f[w]) /\ q.number \notin LostOf(c)
  <2> SUFFICES ASSUME NEW q \in L, q \in KeptOrder, q.client = c
               PROVE  q.number \in Held(f[w]) /\ q.number \notin LostOf(c)
    OBVIOUS
  <2>1. PICK a \in A : \E k \in 1 .. Len(f[w][a]) : f[w][a][k] = q.number /\ a \in 1 .. 5
    BY <1>5
  <2>2. q.number # 0 BY OrderFields
  <2>3. q.number \in Numbers(f[w][a]) BY <2>1, <2>2 DEF Numbers
  <2>4. a \in {1, 2, 3, 4, 5} BY <2>1
  <2>5. q.number \in Held(f[w]) BY <2>3, <2>4 DEF Held
  <2> QED BY <1>4, <2>5 DEF Placed
<1> HIDE DEF L, c
<1>7. o.client = c /\ p.client = c BY DEF c
<1>8. CASE o \in lost /\ p \in lost BY <1>8 DEF LinesInv
<1>9. CASE o \in L /\ p \in L
  <2>1. PICK a \in A : \E k \in 1 .. Len(f[w][a]) : o = Station(w, a)[k] /\ f[w][a][k] = o.number /\ a \in 1 .. 5
    BY <1>2, <1>5, <1>7, <1>9
  <2>2. PICK i \in 1 .. Len(f[w][a]) : o = Station(w, a)[i] /\ f[w][a][i] = o.number BY <2>1
  <2>3. PICK b \in A : \E k \in 1 .. Len(f[w][b]) : p = Station(w, b)[k] /\ f[w][b][k] = p.number /\ b \in 1 .. 5
    BY <1>2, <1>5, <1>7, <1>9
  <2>4. PICK j \in 1 .. Len(f[w][b]) : p = Station(w, b)[j] /\ f[w][b][j] = p.number BY <2>3
  <2>5. a \in 1 .. 8 /\ b \in 1 .. 8 /\ f[w] \in Lines /\ InLine(f[w])
    BY <1>4, <2>1, <2>3 DEF Placed
  <2>6. f[w][a][i] = f[w][b][j] /\ f[w][a][i] # 0 BY <1>3, <2>2, <2>4
  <2>7. a = b /\ i = j BY <2>5, <2>6, OncePlaced
  <2> QED BY <2>2, <2>4, <2>7
<1>10. CASE o \in lost /\ p \in L
  <2>1. o.number \in LostOf(c) BY <1>7, <1>10 DEF LostOf
  <2> QED BY <1>2, <1>6, <1>7, <1>10, <2>1
<1>11. CASE o \in L /\ p \in lost
  <2>1. p.number \in LostOf(c) BY <1>7, <1>11 DEF LostOf
  <2> QED BY <1>2, <1>6, <1>7, <1>11, <2>1
<1> QED BY <1>1, <1>8, <1>9, <1>10, <1>11

\* An order that is sent to a warehouse that left is lost.
LEMMA SendLoses ==
    ASSUME TypeInv, NEW w \in Warehouses, SendOrder(w), UNCHANGED sessionVars,
           lost' = lost \cup {receivedorder[w][1]}, UNCHANGED wire
    PROVE  Loses(w, {5})
<1> DEFINE o == receivedorder[w][1]
<1>1. /\ receivedorder' = [receivedorder EXCEPT ![w] = <<>>]
      /\ UNCHANGED <<wire, incoming, orderbuff, called, queue, msg, up, made>>
  BY DEF SendOrder, warehouseVars, sessionVars
<1>2. receivedorder \in [Warehouses -> Seq(KeptOrder)] BY DEF TypeInv, Intake
<1>3. receivedorder'[w] = <<>> /\ \A v \in Warehouses : v # w => receivedorder'[v] = receivedorder[v]
  BY <1>1, <1>2
<1>4. ASSUME NEW v \in Warehouses, NEW d \in 1 .. 5, v # w \/ d \notin {5}
      PROVE  Station(v, d)' = Station(v, d)
  <2>1. d \in {1, 2, 3, 4, 5} OBVIOUS
  <2> QED BY <1>1, <1>3, <1>4, <2>1, FiveStations, FiveStationsNext
<1>5. ToSetOf(Station(w, 5)) = {o}
  <2>1. receivedorder[w] = <<o>> BY SentOrder DEF TypeInv
  <2> HIDE DEF o
  <2>2. Len(<<o>>) = 1 /\ <<o>>[1] = o OBVIOUS
  <2>3. ToSetOf(<<o>>) = {o} BY <2>2 DEF ToSetOf
  <2> QED BY <2>1, <2>3, FiveStations
<1>6. Station(w, 5)' = <<>> BY <1>3, FiveStationsNext
<1>7. UNION {ToSetOf(Station(w, a)) : a \in {5}} = ToSetOf(Station(w, 5)) OBVIOUS
<1> QED BY <1>1, <1>4, <1>5, <1>6, <1>7 DEF Loses

\* A warehouse that leaves loses what it has not called for.
LEMMA LeavesLoses ==
    ASSUME TypeInv, NEW w \in Warehouses, WarehouseLeaves(w), UNCHANGED sessionVars
    PROVE  Loses(w, {2, 3, 4})
<1>1. /\ lost' = lost \cup ToSetOf(wire[w] \o incoming[w] \o orderbuff[w])
      /\ wire' = [wire EXCEPT ![w] = <<>>] /\ incoming' = [incoming EXCEPT ![w] = <<>>]
      /\ orderbuff' = [orderbuff EXCEPT ![w] = <<>>]
      /\ UNCHANGED <<receivedorder, called, queue, msg, up, made>>
  BY DEF WarehouseLeaves, sendVars, sessionVars
<1>2. /\ wire \in [Warehouses -> Seq(KeptOrder)] /\ incoming \in [Warehouses -> Seq(KeptOrder)]
      /\ orderbuff \in [Warehouses -> Seq(KeptOrder)]
  BY DEF TypeInv, Intake
<1>3. /\ wire'[w] = <<>> /\ incoming'[w] = <<>> /\ orderbuff'[w] = <<>>
      /\ \A v \in Warehouses : v # w => wire'[v] = wire[v] /\ incoming'[v] = incoming[v] /\ orderbuff'[v] = orderbuff[v]
  BY <1>1, <1>2
<1>4. ASSUME NEW v \in Warehouses, NEW d \in 1 .. 5, v # w \/ d \notin {2, 3, 4}
      PROVE  Station(v, d)' = Station(v, d)
  <2>1. d \in {1, 2, 3, 4, 5} OBVIOUS
  <2> QED BY <1>1, <1>3, <1>4, <2>1, FiveStations, FiveStationsNext
<1>5. \A a \in {2, 3, 4} : Station(w, a)' = <<>> BY <1>3, FiveStationsNext
<1>6. ToSetOf(wire[w] \o incoming[w] \o orderbuff[w])
        = ToSetOf(Station(w, 2)) \cup ToSetOf(Station(w, 3)) \cup ToSetOf(Station(w, 4))
  <2>1. ToSetOf(wire[w] \o incoming[w] \o orderbuff[w])
          = ToSetOf(wire[w]) \cup ToSetOf(incoming[w]) \cup ToSetOf(orderbuff[w])
    BY LostOrders DEF TypeInv
  <2> QED BY <2>1, FiveStations
<1>7. UNION {ToSetOf(Station(w, a)) : a \in {2, 3, 4}}
        = ToSetOf(Station(w, 2)) \cup ToSetOf(Station(w, 3)) \cup ToSetOf(Station(w, 4))
  OBVIOUS
<1> QED BY <1>1, <1>4, <1>5, <1>6, <1>7 DEF Loses

\* Each step of a warehouse keeps every order that was made in one place.
LEMMA WarehouseKeepsLines ==
    ASSUME TypeInv, TypeInv', LinesInv, NEW w \in Warehouses, WarehouseSide(w)
    PROVE  LinesInv'
<1>0. IntakeStep(w) /\ UNCHANGED sessionVars BY DEF WarehouseSide
<1>1. ASSUME NEW A \in SUBSET (1 .. 5), Loses(w, A) PROVE LinesInv'
  <2>1. \A c \in Clients : Placed(LinesOf(c), LostOf(c), made[c])'
    BY <1>1, LosesPlaced DEF LinesInv
  <2>2. \A o, p \in lost' : o.client = p.client /\ o.number = p.number => o = p
    BY <1>1, LosesOnce
  <2> QED BY <2>1, <2>2 DEF LinesInv
<1>2. ASSUME UNCHANGED lost, \A c \in Clients : Placed(LinesOf(c), LostOf(c), made[c])' PROVE LinesInv'
  BY <1>2 DEF LinesInv
<1>3. ASSUME NEW a \in {1, 2, 3, 4}, HandsOn(w, a, a + 1) PROVE LinesInv'
  <2>1. \A c \in Clients : Placed(LinesOf(c), LostOf(c), made[c])'
    BY <1>3, HandsOnPlaced DEF LinesInv
  <2>2. UNCHANGED lost BY <1>3 DEF HandsOn
  <2> QED BY <1>2, <2>1, <2>2
<1>4. CASE HandlerCall(w) \/ BufferOrder(w) \/ ReceiveOrder(w)
  <2>1. HandsOn(w, 1, 1 + 1) \/ HandsOn(w, 2, 2 + 1) \/ HandsOn(w, 3, 3 + 1)
    <3>1. 1 + 1 = 2 /\ 2 + 1 = 3 /\ 3 + 1 = 4 OBVIOUS
    <3> QED BY <1>0, <1>4, <3>1, HandlerHandsOn, BufferHandsOn, ReceiveHandsOn
  <2> QED BY <1>3, <2>1
<1>5. CASE SendOrder(w)
  <2>1. CASE wire' = [wire EXCEPT ![w] = Append(@, receivedorder[w][1])] /\ UNCHANGED lost
    <3>1. HandsOn(w, 4, 5) BY <1>0, <1>5, <2>1, SendHandsOn
    <3>2. HandsOn(w, 4, 4 + 1) BY <3>1
    <3> QED BY <1>3, <3>2
  <2>2. CASE lost' = lost \cup {receivedorder[w][1]} /\ UNCHANGED wire
    <3>1. Loses(w, {5}) BY <1>0, <1>5, <2>2, SendLoses
    <3>2. {5} \in SUBSET (1 .. 5) OBVIOUS
    <3> QED BY <1>1, <3>1, <3>2
  <2> QED BY <1>5, <2>1, <2>2, SentOrder DEF TypeInv
<1>6. CASE WarehouseLeaves(w)
  <2>1. {2, 3, 4} \in SUBSET (1 .. 5) OBVIOUS
  <2> QED BY <1>0, <1>1, <1>6, <2>1, LeavesLoses
<1>7. CASE TakeOrder(w)
  <2>1. UNCHANGED lost BY <1>7 DEF TakeOrder
  <2> QED BY <1>0, <1>2, <1>7, <2>1, TakePlaced DEF LinesInv
<1>8. CASE \/ WarehouseConnect(w) \/ SenderStart(w) \/ ReceiverStart(w) \/ ReceiverLock(w)
           \/ NotifyHandler(w) \/ HandlerTest(w) \/ HandlerSpuriousWake(w)
  <2>1. UNCHANGED <<called, orderbuff, incoming, wire, receivedorder, queue, lost>>
    BY <1>8 DEF WarehouseConnect, SenderStart, ReceiverStart, ReceiverLock, NotifyHandler, HandlerTest,
                HandlerSpuriousWake, sendVars, warehouseVars
  <2>2. UNCHANGED <<msg, up, made>> BY <1>0 DEF sessionVars
  <2> QED BY <2>1, <2>2 DEF LinesInv, LinesOf, LostOf
<1> QED
  BY <1>0, <1>4, <1>5, <1>6, <1>7, <1>8 DEF IntakeStep, SenderStep, ReceiverStep, HandlerStep

-----------------------------------------------------------------------------
(* Clients and services keep each order in its place.                      *)

\* What a step of another session leaves alone
LEMMA OtherSession ==
    ASSUME TypeInv, TypeInv', NEW c \in Clients, UNCHANGED <<intakeVars, queue>>,
           msg'[c] = msg[c], up'[c] = up[c], made'[c] = made[c],
           Placed(LinesOf(c), LostOf(c), made[c])
    PROVE  Placed(LinesOf(c), LostOf(c), made[c])'
  BY DEF intakeVars, sendVars, warehouseVars, LinesOf, LostOf

\* The places of a client's line that are not the warehouses'
SharedLines(c, f, g) ==
    /\ f \in [Warehouses -> Lines] /\ g \in [Warehouses -> Lines]
    /\ \A v \in Warehouses :
         /\ \A b \in 1 .. 5 : g[v][b] = f[v][b]
         /\ f[v][6] = Mapped(NumberOf(c), queue) /\ g[v][6] = Mapped(NumberOf(c), queue')
         /\ f[v][7] = Mapped(NumberIn(c), msg[c]) /\ g[v][7] = Mapped(NumberIn(c), msg'[c])
         /\ f[v][8] = Mapped(NumberIn(c), up[c]) /\ g[v][8] = Mapped(NumberIn(c), up'[c])

\* Without a step at the warehouses, the lines share the places that change.
LEMMA SessionLines ==
    ASSUME TypeInv, TypeInv', NEW c \in Clients, UNCHANGED intakeVars
    PROVE  SharedLines(c, LinesOf(c), LinesOf(c)') /\ LostOf(c)' = LostOf(c)
<1>1. Pictured(c) /\ Pictured(c)' BY Picture, PictureNext
<1>2. UNCHANGED <<called, orderbuff, incoming, wire, receivedorder, lost>>
  BY DEF intakeVars, sendVars, warehouseVars
<1>3. \A b \in 1 .. 5 : b \in {1, 2, 3, 4, 5} OBVIOUS
<1>4. \A v \in Warehouses : \A b \in {1, 2, 3, 4, 5} : LinesOf(c)'[v][b] = LinesOf(c)[v][b]
  BY <1>1, <1>2 DEF Pictured
<1>5. \A v \in Warehouses :
         /\ LinesOf(c)[v][6] = Mapped(NumberOf(c), queue) /\ LinesOf(c)'[v][6] = Mapped(NumberOf(c), queue')
         /\ LinesOf(c)[v][7] = Mapped(NumberIn(c), msg[c]) /\ LinesOf(c)'[v][7] = Mapped(NumberIn(c), msg'[c])
         /\ LinesOf(c)[v][8] = Mapped(NumberIn(c), up[c]) /\ LinesOf(c)'[v][8] = Mapped(NumberIn(c), up'[c])
  BY <1>1 DEF Pictured
<1>6. LinesOf(c) \in [Warehouses -> Lines] /\ LinesOf(c)' \in [Warehouses -> Lines]
  BY <1>1 DEF Pictured
<1>7. SharedLines(c, LinesOf(c), LinesOf(c)') BY <1>3, <1>4, <1>5, <1>6 DEF SharedLines
<1> QED BY <1>2, <1>7 DEF LostOf

\* A message that a client sends keeps its orders placed.
LEMMA SaidPlaced ==
    ASSUME TypeInv, TypeInv', NEW c \in Clients, UNCHANGED <<intakeVars, queue>>,
           NEW m \in MessagesOf(c), up' = [up EXCEPT ![c] = Append(@, m)], msg'[c] = msg[c],
           made'[c] \in Nat,
           IF m.type = "add" THEN m.order.number = made'[c] /\ made'[c] = made[c] + 1 ELSE made'[c] = made[c],
           Placed(LinesOf(c), LostOf(c), made[c])
    PROVE  Placed(LinesOf(c), LostOf(c), made[c])'
<1> DEFINE f == LinesOf(c)
           g == LinesOf(c)'
           gone == LostOf(c)
           i == made[c]
           n == NumberIn(c)[m]
           u == up[c]
           h == NumberIn(c)
<1>1. SharedLines(c, f, g) /\ gone' = gone BY SessionLines
<1>2. u \in Seq(MessagesOf(c)) /\ up'[c] = Append(u, m) /\ i \in Nat BY DEF TypeInv, Sessions
<1>3. h \in [MessagesOf(c) -> Nat] BY NumberTypes
<1>4. n = IF m.type = "add" THEN made[c] + 1 ELSE 0 BY DEF NumberIn
<1>5. Placed(f, gone, i) OBVIOUS
<1> HIDE DEF f, g, gone, h, u
<1>6. Mapped(h, Append(u, m)) = Append(Mapped(h, u), h[m])
  <2>1. m \in MessagesOf(c) OBVIOUS
  <2> QED BY ONLY <1>2, <1>3, <2>1, MappedAppend
<1>7. h[m] = n BY DEF h
<1> HIDE DEF n
<1>8. ASSUME NEW v \in Warehouses PROVE Grow(f[v], g[v], 8, n)
  <2>1. g[v][8] = Append(f[v][8], n) BY <1>1, <1>2, <1>6, <1>7 DEF SharedLines, h, u
  <2>2. \A b \in 1 .. 8 : b # 8 => b \in 1 .. 5 \/ b \in {6, 7} OBVIOUS
  <2>3. \A b \in 1 .. 5 : g[v][b] = f[v][b] BY <1>1 DEF SharedLines
  <2>4. \A b \in {6, 7} : g[v][b] = f[v][b] BY <1>1 DEF SharedLines
  <2> QED BY <2>1, <2>2, <2>3, <2>4 DEF Grow
<1>9. f \in [Warehouses -> Lines] /\ g \in [Warehouses -> Lines] BY <1>1 DEF SharedLines
<1> HIDE DEF i
<1>10. CASE m.type = "add"
  <2>1. n = i + 1 /\ made'[c] = i + 1 BY <1>4, <1>10 DEF i
  <2>2. \A v \in Warehouses : Grow(f[v], g[v], 8, i + 1) BY <1>8, <2>1
  <2>3. Placed(g, gone, i + 1) BY <1>2, <1>5, <1>9, <2>2, PlacedNew
  <2> QED BY <1>1, <2>1, <2>3 DEF g, gone
<1>11. CASE m.type # "add"
  <2>1. n = 0 /\ made'[c] = i BY <1>4, <1>11 DEF i
  <2>2. \A v \in Warehouses : Grow(f[v], g[v], 8, 0) BY <1>8, <2>1
  <2>3. 8 \in 6 .. 8 OBVIOUS
  <2>4. Placed(g, gone, i) BY <1>5, <1>9, <2>2, <2>3, PlacedIdle
  <2> QED BY <1>1, <2>1, <2>4 DEF g, gone
<1> QED BY <1>10, <1>11

\* A client that makes an order numbers it above all its orders.
LEMMA ClientKeepsLines ==
    ASSUME TypeInv, TypeInv', NEW d \in Clients, ClientStep(d), UNCHANGED intakeVars,
           NEW c \in Clients, Placed(LinesOf(c), LostOf(c), made[c])
    PROVE  Placed(LinesOf(c), LostOf(c), made[c])'
<1>1. CASE ClientDies(d)
  BY <1>1, OtherSession DEF ClientDies
<1>2. CASE ~ ClientDies(d)
  <2>1. PICK m \in MessagesOf(d) :
           /\ up' = [up EXCEPT ![d] = Append(@, m)] /\ UNCHANGED <<msg, queue>>
           /\ \A e \in Clients \ {d} : made'[e] = made[e]
           /\ IF m.type = "add" THEN m.order.number = made'[d] /\ made'[d] = made[d] + 1
                                ELSE made'[d] = made[d]
    <3>1. CASE ClientConnect(d) \/ ClientSearch(d) \/ ClientQuit(d)
      <4>1. PICK t \in {"search", "goodbye"} : up' = [up EXCEPT ![d] = Append(@, Say(t))]
        BY <3>1 DEF ClientConnect, ClientSearch, ClientQuit, ClientSays
      <4>2. UNCHANGED <<msg, queue, made>> BY <3>1 DEF ClientConnect, ClientSearch, ClientQuit
      <4>3. Say(t) \in MessagesOf(d) /\ Say(t).type # "add" BY SaidMessage
      <4> QED BY <4>1, <4>2, <4>3
    <3>2. ASSUME NEW cart \in Carts, MakeOrder(d, cart)
          PROVE  \E m \in MessagesOf(d) :
                    /\ up' = [up EXCEPT ![d] = Append(@, m)] /\ UNCHANGED <<msg, queue>>
                    /\ \A e \in Clients \ {d} : made'[e] = made[e]
                    /\ IF m.type = "add" THEN m.order.number = made'[d] /\ made'[d] = made[d] + 1
                                         ELSE made'[d] = made[d]
      <4> DEFINE m == [type |-> "add", order |-> [client |-> d, number |-> made'[d],
                                                  items |-> order'[d], asked |-> In(cart)]]
      <4>1. /\ up' = [up EXCEPT ![d] = Append(@, m)] /\ UNCHANGED <<msg, queue>>
            /\ made' = [made EXCEPT ![d] = @ + 1]
        BY <3>2 DEF MakeOrder, ClientSays
      <4>2. made \in [Clients -> Nat] BY DEF TypeInv, Sessions
      <4>3. made'[d] = made[d] + 1 /\ \A e \in Clients \ {d} : made'[e] = made[e] BY <4>1, <4>2
      <4>4. m \in MessagesOf(d)
        <5>1. up'[d] \in Seq(MessagesOf(d)) /\ up[d] \in Seq(Messages) /\ up'[d] = Append(up[d], m)
          BY <4>1 DEF TypeInv, Sessions
        <5> HIDE DEF m
        <5> QED BY <5>1, ElementOfSeq
      <4>5. m.type = "add" /\ m.order.number = made'[d] OBVIOUS
      <4> HIDE DEF m
      <4> QED BY <4>1, <4>3, <4>4, <4>5
    <3> QED BY <1>2, <3>1, <3>2 DEF ClientStep
  <2>2. made'[d] \in Nat /\ up \in [Clients -> Seq(Messages)] BY DEF TypeInv, Sessions
  <2>3. CASE c = d BY <2>1, <2>2, <2>3, SaidPlaced
  <2>4. CASE c # d BY <2>1, <2>2, <2>4, OtherSession
  <2> QED BY <2>3, <2>4
<1> QED BY <1>1, <1>2

\* recvMessage
LEMMA ReceivedPlaced ==
    ASSUME TypeInv, TypeInv', NEW c \in Clients, ServiceReceive(c), UNCHANGED intakeVars,
           Placed(LinesOf(c), LostOf(c), made[c])
    PROVE  Placed(LinesOf(c), LostOf(c), made[c])'
<1> DEFINE f == LinesOf(c)
           g == LinesOf(c)'
           gone == LostOf(c)
           i == made[c]
           u == up[c]
           h == NumberIn(c)
<1>1. SharedLines(c, f, g) /\ gone' = gone BY SessionLines
<1>2. UNCHANGED <<made, queue>> BY DEF ServiceReceive, clientVars
<1>3. /\ u \in Seq(MessagesOf(c)) /\ msg[c] = <<>>
      /\ up \in [Clients -> Seq(Messages)] /\ msg \in [Clients -> Seq(Messages)]
  BY DEF ServiceReceive, ServiceGo, TypeInv, Sessions, ServicePoints
<1>4. h \in [MessagesOf(c) -> Nat] BY NumberTypes
<1>5. Placed(f, gone, i) OBVIOUS
<1>6. f \in [Warehouses -> Lines] /\ g \in [Warehouses -> Lines] BY <1>1 DEF SharedLines
<1>7. \A b \in 1 .. 8 : b # 7 => b \in 1 .. 5 \/ b \in {6, 8} OBVIOUS
<1>8. \A m \in MessagesOf(c) : Mapped(h, <<m>>) = Append(Mapped(h, <<>>), h[m])
  <2> SUFFICES ASSUME NEW m \in MessagesOf(c) PROVE Mapped(h, <<m>>) = Append(Mapped(h, <<>>), h[m])
    OBVIOUS
  <2> DEFINE e == <<>>
  <2>0. Append(e, m) = <<m>> BY Alone
  <2>1. e \in Seq(MessagesOf(c)) /\ m \in MessagesOf(c) BY EmptySeq
  <2> HIDE DEF h, e
  <2>2. Mapped(h, Append(e, m)) = Append(Mapped(h, e), h[m]) BY ONLY <1>4, <2>1, MappedAppend
  <2>3. Mapped(h, <<m>>) = Append(Mapped(h, e), h[m]) BY <2>0, <2>2, Zenon
  <2> QED BY <2>3 DEF e
<1>9. CASE u # <<>>
  <2> DEFINE m == Head(u)
  <2>1. msg'[c] = <<m>> /\ up'[c] = Tail(u) BY <1>3, <1>9 DEF ServiceReceive
  <2>2. m \in MessagesOf(c) BY <1>3, <1>9, Shortened
  <2> HIDE DEF m, h, u, f, g
  <2>3. /\ Mapped(h, u) # <<>> /\ Head(Mapped(h, u)) = h[m] /\ Mapped(h, Tail(u)) = Tail(Mapped(h, u))
    BY ONLY <1>3, <1>4, <1>9, MappedTail DEF m
  <2>4. Mapped(h, <<m>>) = Append(Mapped(h, <<>>), h[m]) BY <1>8, <2>2
  <2>5. ASSUME NEW v \in Warehouses PROVE Move(f[v], g[v], 7)
    <3>1. /\ f[v][7] = Mapped(h, <<>>) /\ g[v][7] = Mapped(h, <<m>>)
          /\ f[v][8] = Mapped(h, u) /\ g[v][8] = Mapped(h, Tail(u))
      BY <1>1, <1>3, <2>1 DEF SharedLines, h, u
    <3>2. \A b \in 1 .. 8 : b # 7 /\ b # 8 => b \in 1 .. 5 \/ b = 6 OBVIOUS
    <3>3. (\A b \in 1 .. 5 : g[v][b] = f[v][b]) /\ g[v][6] = f[v][6]
      BY <1>1, <1>2 DEF SharedLines
    <3>4. f[v][8] # <<>> /\ g[v][7] = Append(f[v][7], Head(f[v][8])) /\ g[v][8] = Tail(f[v][8])
      BY <2>3, <2>4, <3>1, Zenon
    <3>5. 7 + 1 = 8 OBVIOUS
    <3> QED BY <3>2, <3>3, <3>4, <3>5 DEF Move
  <2>6. 7 \in {1, 2, 3, 4, 6, 7} OBVIOUS
  <2> HIDE DEF gone, i
  <2>7. Placed(g, gone, i) BY <1>5, <1>6, <2>5, <2>6, PlacedMove
  <2> QED BY <1>1, <1>2, <2>7 DEF g, gone, i
<1>10. CASE u = <<>>
  <2> DEFINE m == Say("nullptr")
  <2>1. msg'[c] = <<m>> /\ up'[c] = up[c] BY <1>3, <1>10 DEF ServiceReceive
  <2>2. m \in MessagesOf(c) /\ m.type # "add" BY SaidMessage
  <2>3. h[m] = 0 BY <2>2 DEF NumberIn
  <2> HIDE DEF m, h, u, f, g
  <2>4. Mapped(h, <<m>>) = Append(Mapped(h, <<>>), 0) BY <1>8, <2>2, <2>3
  <2>5. ASSUME NEW v \in Warehouses PROVE Grow(f[v], g[v], 7, 0)
    <3>1. f[v][7] = Mapped(h, <<>>) /\ g[v][7] = Mapped(h, <<m>>)
      BY <1>1, <1>3, <2>1 DEF SharedLines, h
    <3>2. (\A b \in 1 .. 5 : g[v][b] = f[v][b]) /\ g[v][6] = f[v][6] /\ g[v][8] = f[v][8]
      BY <1>1, <1>2, <2>1 DEF SharedLines
    <3>3. g[v][7] = Append(f[v][7], 0) BY <2>4, <3>1, Zenon
    <3> QED BY <1>7, <3>2, <3>3 DEF Grow
  <2>6. 7 \in 6 .. 8 OBVIOUS
  <2> HIDE DEF gone, i
  <2>7. Placed(g, gone, i) BY <1>5, <1>6, <2>5, <2>6, PlacedIdle
  <2> QED BY <1>1, <1>2, <2>7 DEF g, gone, i
<1> QED BY <1>9, <1>10

\* ADD: the message of the service's client becomes an order in the queue.
LEMMA ServedPlaced ==
    ASSUME TypeInv, TypeInv', NEW d \in Clients, ServeAdd(d), UNCHANGED intakeVars,
           NEW c \in Clients, Placed(LinesOf(c), LostOf(c), made[c])
    PROVE  Placed(LinesOf(c), LostOf(c), made[c])'
<1> DEFINE f == LinesOf(c)
           g == LinesOf(c)'
           gone == LostOf(c)
           i == made[c]
           h == NumberOf(c)
           k == NumberIn(c)
           m == msg[d][1]
<1>1. SharedLines(c, f, g) /\ gone' = gone BY SessionLines
<1>2. UNCHANGED <<made, up>> /\ msg' = [msg EXCEPT ![d] = <<>>] BY DEF ServeAdd, clientVars
<1>3. PICK p \in KeptOrder : queue' = Append(queue, p) /\ p.client = d /\ p.number = m.order.number
  BY ServedOrder DEF TypeInv
<1>4. m \in MessagesOf(d) /\ m.type = "add" BY ServedOrder DEF TypeInv
<1>5. queue \in Seq(KeptOrder) /\ msg \in [Clients -> Seq(Messages)] /\ msg[d] = <<m>>
  <2>1. msg[d] \in Seq(Messages) /\ Len(msg[d]) = 1
    BY DEF ServeAdd, ServiceGo, TypeInv, Sessions, ServicePoints
  <2> QED BY <2>1, OnlyOne DEF TypeInv, Sessions
<1>6. h \in [KeptOrder -> Nat] /\ k \in [MessagesOf(c) -> Nat] BY NumberTypes
<1>7. h[p] = IF c = d THEN p.number ELSE 0 BY <1>3 DEF NumberOf
<1>8. Placed(f, gone, i) OBVIOUS
<1>9. f \in [Warehouses -> Lines] /\ g \in [Warehouses -> Lines] BY <1>1 DEF SharedLines
<1>10. c = d => k[m] = p.number BY <1>3, <1>4 DEF NumberIn
<1> HIDE DEF h, k, f, g, m
<1>11. Mapped(h, Append(queue, p)) = Append(Mapped(h, queue), h[p])
  <2>1. p \in KeptOrder OBVIOUS
  <2> QED BY ONLY <1>5, <1>6, <2>1, MappedAppend
<1>12. ASSUME NEW v \in Warehouses
       PROVE  /\ g[v][6] = Append(f[v][6], h[p]) /\ \A b \in 1 .. 5 : g[v][b] = f[v][b]
              /\ g[v][8] = f[v][8]
              /\ f[v][7] = Mapped(k, msg[c]) /\ g[v][7] = Mapped(k, msg'[c])
  <2>1. f[v][6] = Mapped(h, queue) /\ g[v][6] = Mapped(h, queue') BY <1>1 DEF SharedLines, h
  <2>2. g[v][6] = Append(f[v][6], h[p]) BY <1>3, <1>11, <2>1, Zenon
  <2> QED BY <1>1, <1>2, <2>2 DEF SharedLines, k
<1>13. CASE c = d
  <2>1. msg[c] = <<m>> /\ msg'[c] = <<>> /\ m \in MessagesOf(c) BY <1>2, <1>4, <1>5, <1>13
  <2>2. /\ Mapped(k, <<m>>) # <<>> /\ Head(Mapped(k, <<m>>)) = k[m]
        /\ Mapped(k, <<>>) = Tail(Mapped(k, <<m>>))
    <3> DEFINE t == <<m>>
    <3>1. t \in Seq(MessagesOf(c)) /\ t # <<>> /\ Head(t) = m /\ Tail(t) = <<>> BY <2>1
    <3> HIDE DEF t
    <3>2. /\ Mapped(k, t) # <<>> /\ Head(Mapped(k, t)) = k[Head(t)] /\ Mapped(k, Tail(t)) = Tail(Mapped(k, t))
      BY ONLY <1>6, <3>1, MappedTail
    <3>3. Mapped(k, t) # <<>> /\ Head(Mapped(k, t)) = k[m] /\ Mapped(k, <<>>) = Tail(Mapped(k, t))
      BY <3>1, <3>2, Zenon
    <3> QED BY <3>3 DEF t
  <2>3. ASSUME NEW v \in Warehouses PROVE Move(f[v], g[v], 6)
    <3>1. f[v][7] # <<>> /\ g[v][6] = Append(f[v][6], Head(f[v][7])) /\ g[v][7] = Tail(f[v][7])
      <4>1. f[v][7] = Mapped(k, <<m>>) /\ g[v][7] = Mapped(k, <<>>) /\ g[v][6] = Append(f[v][6], h[p])
        BY <1>12, <2>1
      <4>2. h[p] = k[m] BY <1>7, <1>10, <1>13
      <4> QED BY <2>2, <4>1, <4>2, Zenon
    <3>2. \A b \in 1 .. 8 : b # 6 /\ b # 7 => b \in 1 .. 5 \/ b = 8 OBVIOUS
    <3>3. 6 + 1 = 7 OBVIOUS
    <3> QED BY <1>12, <3>1, <3>2, <3>3 DEF Move
  <2>4. 6 \in {1, 2, 3, 4, 6, 7} OBVIOUS
  <2> HIDE DEF gone, i
  <2>5. Placed(g, gone, i) BY <1>8, <1>9, <2>3, <2>4, PlacedMove
  <2> QED BY <1>1, <1>2, <2>5 DEF g, gone, i
<1>14. CASE c # d
  <2>1. msg'[c] = msg[c] /\ h[p] = 0 BY <1>2, <1>5, <1>7, <1>14
  <2>2. ASSUME NEW v \in Warehouses PROVE Grow(f[v], g[v], 6, 0)
    <3>1. \A b \in 1 .. 8 : b # 6 => b \in 1 .. 5 \/ b = 7 \/ b = 8 OBVIOUS
    <3>2. g[v][7] = f[v][7] /\ g[v][6] = Append(f[v][6], 0) BY <1>12, <2>1
    <3> QED BY <1>12, <3>1, <3>2 DEF Grow
  <2>3. 6 \in 6 .. 8 OBVIOUS
  <2> HIDE DEF gone, i
  <2>4. Placed(g, gone, i) BY <1>8, <1>9, <2>2, <2>3, PlacedIdle
  <2> QED BY <1>1, <1>2, <2>4 DEF g, gone, i
<1> QED BY <1>13, <1>14

\* A message that is no order is served.
LEMMA HeardPlaced ==
    ASSUME TypeInv, TypeInv', NEW c \in Clients, ServeSearch(c) \/ ServiceEnd(c), UNCHANGED intakeVars,
           Placed(LinesOf(c), LostOf(c), made[c])
    PROVE  Placed(LinesOf(c), LostOf(c), made[c])'
<1> DEFINE f == LinesOf(c)
           g == LinesOf(c)'
           gone == LostOf(c)
           i == made[c]
           k == NumberIn(c)
           m == msg[c][1]
<1>1. SharedLines(c, f, g) /\ gone' = gone BY SessionLines
<1>2. UNCHANGED <<made, up, queue>> /\ msg' = [msg EXCEPT ![c] = <<>>] /\ m.type # "add"
  BY DEF ServeSearch, ServiceEnd, clientVars, Hears
<1>3. msg[c] = <<m>> /\ m \in MessagesOf(c) /\ msg'[c] = <<>>
  <2>1. msg[c] \in Seq(MessagesOf(c)) /\ Len(msg[c]) = 1
    BY DEF ServeSearch, ServiceEnd, ServiceGo, TypeInv, Sessions, ServicePoints
  <2>2. msg \in [Clients -> Seq(Messages)] BY DEF TypeInv, Sessions
  <2> QED BY <1>2, <2>1, <2>2, OnlyOne
<1>4. k[m] = 0 BY <1>2, <1>3 DEF NumberIn
<1>5. k \in [MessagesOf(c) -> Nat] BY NumberTypes
<1>6. Placed(f, gone, i) OBVIOUS
<1>7. f \in [Warehouses -> Lines] /\ g \in [Warehouses -> Lines] BY <1>1 DEF SharedLines
<1> HIDE DEF k, f, g, m
<1>8. Numbers(Mapped(k, <<m>>)) = {}
  <2>1. <<m>> \in Seq(MessagesOf(c)) /\ Len(<<m>>) = 1 /\ <<m>>[1] = m BY <1>3, Alone
  <2>2. Len(Mapped(k, <<m>>)) = 1 /\ Mapped(k, <<m>>)[1] = k[m]
    <3> DEFINE t == <<m>>
    <3>1. t \in Seq(MessagesOf(c)) /\ Len(t) = 1 /\ t[1] = m BY <2>1
    <3> HIDE DEF t
    <3>2. Len(Mapped(k, t)) = Len(t) /\ \A j \in 1 .. Len(t) : Mapped(k, t)[j] = k[t[j]]
      BY ONLY <1>5, <3>1, MappedSeq
    <3>3. Len(Mapped(k, t)) = 1 /\ Mapped(k, t)[1] = k[m] BY <3>1, <3>2
    <3> QED BY <3>3 DEF t
  <2> QED BY <1>4, <2>2 DEF Numbers
<1>9. ASSUME NEW v \in Warehouses
      PROVE  Dropped(f[v], g[v], 7)
  <2>1. f[v][7] = Mapped(k, <<m>>) /\ g[v][7] = Mapped(k, <<>>) BY <1>1, <1>3 DEF SharedLines, k
  <2>2. (\A b \in 1 .. 5 : g[v][b] = f[v][b]) /\ g[v][6] = f[v][6] /\ g[v][8] = f[v][8]
    BY <1>1, <1>2 DEF SharedLines
  <2>3. \A b \in 1 .. 8 : b # 7 => b \in 1 .. 5 \/ b = 6 \/ b = 8 OBVIOUS
  <2> QED BY <1>8, <2>1, <2>2, <2>3, MappedEmpty DEF Dropped
<1>10. 7 \in 6 .. 8 OBVIOUS
<1> HIDE DEF gone, i
<1>11. Placed(g, gone, i) BY <1>6, <1>7, <1>9, <1>10, PlacedIdle
<1> QED BY <1>1, <1>2, <1>11 DEF g, gone, i

\* A step of a client or its service keeps every order in its place.
LEMMA SessionKeepsLines ==
    ASSUME TypeInv, TypeInv', LinesInv, NEW d \in Clients, ServerSide(d) PROVE LinesInv'
<1>1. UNCHANGED intakeVars /\ UNCHANGED lost BY DEF ServerSide, intakeVars
<1>2. ASSUME NEW c \in Clients PROVE Placed(LinesOf(c), LostOf(c), made[c])'
  <2>1. Placed(LinesOf(c), LostOf(c), made[c]) BY DEF LinesInv
  <2>2. CASE ClientStep(d) BY <1>1, <2>1, <2>2, ClientKeepsLines
  <2>3. CASE ServiceStart(d) \/ ServiceLock(d) \/ ServeReply(d)
    <3>1. UNCHANGED <<made, up, msg, queue>>
      BY <2>3 DEF ServiceStart, ServiceLock, ServeReply, clientVars
    <3> QED BY <1>1, <2>1, <3>1, OtherSession
  <2>4. CASE c = d /\ (ServiceReceive(d) \/ ServeAdd(d) \/ ServeSearch(d) \/ ServiceEnd(d))
    BY <1>1, <2>1, <2>4, ReceivedPlaced, ServedPlaced, HeardPlaced
  <2>5. CASE c # d /\ (ServiceReceive(d) \/ ServeSearch(d) \/ ServiceEnd(d))
    <3>1. up \in [Clients -> Seq(Messages)] /\ msg \in [Clients -> Seq(Messages)] BY DEF TypeInv, Sessions
    <3>2. UNCHANGED <<made, queue>> /\ msg'[c] = msg[c] /\ up'[c] = up[c]
      BY <2>5, <3>1 DEF ServiceReceive, ServeSearch, ServiceEnd, clientVars
    <3> QED BY <1>1, <2>1, <3>2, OtherSession
  <2>6. CASE c # d /\ ServeAdd(d) BY <1>1, <2>1, <2>6, ServedPlaced
  <2> QED BY <2>2, <2>3, <2>4, <2>5, <2>6 DEF ServerSide, ServiceStep
<1> QED BY <1>1, <1>2 DEF LinesInv

-----------------------------------------------------------------------------
(* The invariant and what follows from it.                                 *)

\* The initial states satisfy the invariant: no order is made yet.
LEMMA LinesStart == ASSUME Init PROVE LinesInv
<1>1. TypeInv BY TypeStart
<1>2. /\ called = [w \in Warehouses |-> <<>>] /\ orderbuff = [w \in Warehouses |-> <<>>]
      /\ incoming = [w \in Warehouses |-> <<>>] /\ wire = [w \in Warehouses |-> <<>>]
      /\ receivedorder = [w \in Warehouses |-> <<>>] /\ queue = <<>> /\ lost = {}
      /\ msg = [c \in Clients |-> <<>>] /\ up = [c \in Clients |-> <<>>]
      /\ made = [c \in Clients |-> 0]
  BY DEF Init, ServerInit, IntakeInit
<1>3. ASSUME NEW c \in Clients PROVE Placed(LinesOf(c), LostOf(c), made[c])
  <2> DEFINE f == LinesOf(c)
  <2>1. LostOf(c) = {} /\ made[c] = 0 BY <1>2 DEF LostOf
  <2>2. ASSUME NEW w \in Warehouses, NEW a \in 1 .. 8 PROVE f[w][a] = <<>>
    <3>1. Pictured(c) BY <1>1, Picture
    <3>2. a \in {1, 2, 3, 4, 5, 6, 7, 8} OBVIOUS
    <3> QED BY <1>2, <3>1, <3>2, MappedEmpty DEF Pictured
  <2> HIDE DEF f
  <2>3. \A w \in Warehouses : \A a \in 1 .. 8 : Numbers(f[w][a]) = {} BY <2>2, NumbersEmpty
  <2>4. \A w \in Warehouses : Held(f[w]) = {} /\ Coming(f[w]) = {} BY <2>3 DEF Held, Coming
  <2>5. Len(<<>>) = 0 BY EmptySeq
  <2>6. \A w \in Warehouses : InLine(f[w]) BY <2>2, <2>5, SMTT(30) DEF InLine
  <2>7. 1 .. 0 = {} OBVIOUS
  <2>8. UNION {Held(f[v]) : v \in Warehouses} = {} BY <2>4
  <2>9. Placed(f, {}, 0) BY <2>4, <2>6, <2>7, <2>8 DEF Placed
  <2> QED BY <2>1, <2>9 DEF f
<1> QED BY <1>2, <1>3 DEF LinesInv

\* Every step keeps the invariant.
LEMMA LinesStep == ASSUME TypeInv, TypeInv', LinesInv, [Next]_vars PROVE LinesInv'
<1>1. CASE UNCHANGED vars
  BY <1>1 DEF vars, serverVars, intakeVars, sendVars, warehouseVars, LinesInv, LinesOf, LostOf
<1> QED BY <1>1, SessionKeepsLines, WarehouseKeepsLines DEF Next

\* Every order that was made is in one place, or lost, and in line there.
LEMMA LinesInvHolds == Spec => [](TypeInv /\ LinesInv)
<1>1. Init => TypeInv /\ LinesInv BY TypeStart, LinesStart
<1>2. TypeInv /\ LinesInv /\ [Next]_vars => (TypeInv /\ LinesInv)' BY TypeStep, LinesStep
<1> QED BY <1>1, <1>2, PTL DEF Spec

\* CallDelivery is called for the orders of a client in the order in which
\* the client made them, at every warehouse.
THEOREM CallsInOrder == Spec => []CalledInOrder
<1>1. ASSUME TypeInv, LinesInv, NEW w \in Warehouses, NEW i \in 1 .. Len(called[w]),
             NEW j \in 1 .. Len(called[w]), i < j, called[w][i].client = called[w][j].client
      PROVE  called[w][i].number < called[w][j].number
  <2> DEFINE s == called[w]
             c == s[i].client
             f == LinesOf(c)[w]
             h == NumberOf(c)
  <2>1. s \in Seq(KeptOrder) BY <1>1 DEF TypeInv, Intake
  <2>2. s[i] \in KeptOrder /\ s[j] \in KeptOrder BY <2>1, ElementOfSeq
  <2>3. c \in Clients /\ s[i].number > 0 /\ s[j].number > 0 BY <2>2, OrderFields
  <2>4. h[s[i]] = s[i].number /\ h[s[j]] = s[j].number BY <1>1, <2>2 DEF NumberOf
  <2>5. f[1] = Mapped(h, s) BY <1>1, <2>3, Picture DEF Pictured
  <2>6. Len(f[1]) = Len(s) /\ f[1][i] = h[s[i]] /\ f[1][j] = h[s[j]]
    <3>1. h \in [KeptOrder -> Nat] BY NumberTypes
    <3> QED BY <2>1, <2>5, <3>1, MappedSeq, SMTT(30)
  <2>7. InLine(f) BY <1>1, <2>3 DEF LinesInv, Placed
  <2>8. 1 \in 1 .. 8 /\ Before(1, i, 1, j) BY <1>1 DEF Before
  <2> HIDE DEF f, h, c
  <2>9. /\ i \in 1 .. Len(f[1]) /\ j \in 1 .. Len(f[1]) /\ f[1][i] > 0 /\ f[1][j] > 0
    BY <2>3, <2>4, <2>6
  <2>10. f[1][i] < f[1][j] BY <2>7, <2>8, <2>9 DEF InLine
  <2> QED BY <2>4, <2>6, <2>10
<1>2. TypeInv /\ LinesInv => CalledInOrder BY <1>1 DEF CalledInOrder
<1> QED BY <1>2, LinesInvHolds, PTL

-----------------------------------------------------------------------------
(* Counting.                                                               *)

Once(b) == IF b THEN 1 ELSE 0

\* A number in line has one position in its place.
LEMMA CountPositions ==
    ASSUME NEW f \in Lines, InLine(f), NEW a \in 1 .. 8, NEW n, n # 0
    PROVE  Cardinality({k \in 1 .. Len(f[a]) : f[a][k] = n}) = Once(n \in Numbers(f[a]))
<1> DEFINE S == {k \in 1 .. Len(f[a]) : f[a][k] = n}
<1>1. CASE n \in Numbers(f[a])
  <2>1. PICK i \in 1 .. Len(f[a]) : n = f[a][i] BY <1>1 DEF Numbers
  <2>2. \A j \in 1 .. Len(f[a]) : f[a][j] = n => j = i BY <2>1, OncePlaced
  <2>3. S = {i} BY <2>1, <2>2
  <2> QED BY <1>1, <2>3, FS_Singleton DEF Once
<1>2. CASE n \notin Numbers(f[a])
  <2>1. S = {} BY <1>2 DEF Numbers
  <2> QED BY <1>2, <2>1, FS_EmptySet DEF Once
<1> QED BY <1>1, <1>2

\* An order in line is in its place once.
LEMMA CountOrders ==
    ASSUME NEW c \in Clients, NEW f \in Lines, InLine(f), NEW a \in 1 .. 8, NEW n \in Nat, n # 0,
           NEW s \in Seq(KeptOrder), f[a] = Mapped(NumberOf(c), s)
    PROVE  CountIn(s, c, n) = Once(n \in Numbers(f[a]))
<1>1. Len(f[a]) = Len(s) /\ \A k \in 1 .. Len(s) : f[a][k] = NumberOf(c)[s[k]]
  BY NumberTypes, MappedSeq
<1>2. \A k \in 1 .. Len(s) : s[k] \in KeptOrder BY ElementOfSeq
<1>3. \A k \in 1 .. Len(s) : f[a][k] = n <=> Is(s[k], c, n)
  BY <1>1, <1>2 DEF NumberOf, Is
<1>4. {k \in 1 .. Len(f[a]) : f[a][k] = n} = {k \in 1 .. Len(s) : Is(s[k], c, n)}
  BY <1>1, <1>3
<1> QED BY <1>4, CountPositions DEF CountIn

\* An order in line is in the messages of its client once.
LEMMA CountSaid ==
    ASSUME NEW c \in Clients, NEW f \in Lines, InLine(f), NEW a \in 1 .. 8, NEW n \in Nat, n # 0,
           NEW s \in Seq(MessagesOf(c)), f[a] = Mapped(NumberIn(c), s)
    PROVE  CountMessages(s, c, n) = Once(n \in Numbers(f[a]))
<1>1. Len(f[a]) = Len(s) /\ \A k \in 1 .. Len(s) : f[a][k] = NumberIn(c)[s[k]]
  BY NumberTypes, MappedSeq
<1>2. \A k \in 1 .. Len(s) : s[k] \in MessagesOf(c) BY ElementOfSeq
<1>3. \A k \in 1 .. Len(s) : f[a][k] = n <=> s[k].type = "add" /\ Is(s[k].order, c, n)
  BY <1>1, <1>2, MessageFields DEF NumberIn, Is
<1>4. {k \in 1 .. Len(f[a]) : f[a][k] = n} = {k \in 1 .. Len(s) : s[k].type = "add" /\ Is(s[k].order, c, n)}
  BY <1>1, <1>3
<1> QED BY <1>4, CountPositions DEF CountMessages

\* An order is lost once.
LEMMA CountLost ==
    ASSUME LinesInv, NEW c \in Clients, NEW n
    PROVE  CountSet(lost, c, n) = Once(n \in LostOf(c))
<1> DEFINE S == {o \in lost : Is(o, c, n)}
<1>1. CASE n \in LostOf(c)
  <2>1. PICK o \in lost : o.client = c /\ o.number = n BY <1>1 DEF LostOf
  <2>2. S = {o} BY <2>1 DEF LinesInv, Is
  <2> QED BY <1>1, <2>2, FS_Singleton DEF Once, CountSet
<1>2. CASE n \notin LostOf(c)
  <2>1. S = {} BY <1>2 DEF LostOf, Is
  <2> QED BY <1>2, <2>1, FS_EmptySet DEF Once, CountSet
<1> QED BY <1>1, <1>2

\* A warehouse has an order in one of its places at the most.
LEMMA CountAtWarehouse ==
    ASSUME TypeInv, LinesInv, NEW c \in Clients, NEW w \in Warehouses, NEW n \in Nat, n # 0
    PROVE  PlacesAt(w, c, n) = Once(n \in Held(LinesOf(c)[w]))
<1> DEFINE f == LinesOf(c)[w]
           N(a) == n \in Numbers(f[a])
<1>1. Pictured(c) /\ f \in Lines /\ InLine(f) BY Picture DEF Pictured, LinesInv, Placed
<1>2. /\ called[w] \in Seq(KeptOrder) /\ orderbuff[w] \in Seq(KeptOrder) /\ incoming[w] \in Seq(KeptOrder)
      /\ wire[w] \in Seq(KeptOrder) /\ receivedorder[w] \in Seq(KeptOrder)
  BY DEF TypeInv, Intake
<1>3. /\ f[1] = Mapped(NumberOf(c), called[w]) /\ f[2] = Mapped(NumberOf(c), orderbuff[w])
      /\ f[3] = Mapped(NumberOf(c), incoming[w]) /\ f[4] = Mapped(NumberOf(c), wire[w])
      /\ f[5] = Mapped(NumberOf(c), receivedorder[w])
  BY <1>1 DEF Pictured
<1> HIDE DEF f
<1>4. 1 \in 1 .. 8 /\ 2 \in 1 .. 8 /\ 3 \in 1 .. 8 /\ 4 \in 1 .. 8 /\ 5 \in 1 .. 8 OBVIOUS
<1>5. /\ CountIn(called[w], c, n) = Once(N(1)) /\ CountIn(orderbuff[w], c, n) = Once(N(2))
      /\ CountIn(incoming[w], c, n) = Once(N(3)) /\ CountIn(wire[w], c, n) = Once(N(4))
      /\ CountIn(receivedorder[w], c, n) = Once(N(5))
  BY <1>1, <1>2, <1>3, <1>4, CountOrders, SMTT(30)
<1>6. \A a, b \in 1 .. 8 : a # b => ~ (N(a) /\ N(b)) BY <1>1, PlacesApart
<1>7. n \in Held(f) <=> N(1) \/ N(2) \/ N(3) \/ N(4) \/ N(5) BY DEF Held
<1> HIDE DEF N
<1>8. PlacesAt(w, c, n) = Once(N(5)) + Once(N(4)) + Once(N(3)) + Once(N(2)) + Once(N(1))
  BY <1>5 DEF PlacesAt
<1>9. /\ ~ (N(1) /\ N(2)) /\ ~ (N(1) /\ N(3)) /\ ~ (N(1) /\ N(4)) /\ ~ (N(1) /\ N(5))
      /\ ~ (N(2) /\ N(3)) /\ ~ (N(2) /\ N(4)) /\ ~ (N(2) /\ N(5)) /\ ~ (N(3) /\ N(4))
      /\ ~ (N(3) /\ N(5)) /\ ~ (N(4) /\ N(5))
  BY <1>4, <1>6
<1> QED BY <1>7, <1>8, <1>9 DEF Once, f

\* An order that was made is in one place, whatever warehouses and clients
\* do; here there is a warehouse that might come.
THEOREM PlacedOnce == ASSUME Warehouses # {} PROVE Spec => []OrderInOnePlace
<1>1. ASSUME TypeInv, LinesInv, NEW c \in Clients, NEW n \in 1 .. MaxOrders[c]
      PROVE  Places(c, n) = IF n <= made[c] THEN 1 ELSE 0
  <2> DEFINE f == LinesOf(c)
             gone == LostOf(c)
             at == UNION {{<<w, k>> : k \in 1 .. PlacesAt(w, c, n)} : w \in Warehouses}
  <2>1. PICK u \in Warehouses : TRUE OBVIOUS
  <2>2. n \in Nat /\ n # 0 /\ made[c] \in Nat
    <3>1. MaxOrders[c] \in Nat BY PipelineAssumption
    <3> QED BY <1>1, <3>1 DEF TypeInv, Sessions
  <2>3. Pictured(c) /\ Placed(f, gone, made[c]) /\ f \in [Warehouses -> Lines]
    BY <1>1, Picture DEF Pictured, LinesInv
  <2>4. f[u] \in Lines /\ InLine(f[u]) BY <2>3 DEF Placed
  <2>5. /\ CountIn(queue, c, n) = Once(n \in Numbers(f[u][6]))
        /\ CountMessages(msg[c], c, n) = Once(n \in Numbers(f[u][7]))
        /\ CountMessages(up[c], c, n) = Once(n \in Numbers(f[u][8]))
    <3>1. /\ f[u][6] = Mapped(NumberOf(c), queue) /\ f[u][7] = Mapped(NumberIn(c), msg[c])
          /\ f[u][8] = Mapped(NumberIn(c), up[c])
      BY <2>3 DEF Pictured
    <3>2. queue \in Seq(KeptOrder) /\ msg[c] \in Seq(MessagesOf(c)) /\ up[c] \in Seq(MessagesOf(c))
      BY <1>1 DEF TypeInv, Sessions
    <3>3. 6 \in 1 .. 8 /\ 7 \in 1 .. 8 /\ 8 \in 1 .. 8 OBVIOUS
    <3> HIDE DEF f
    <3> QED BY <2>2, <2>4, <3>1, <3>2, <3>3, CountOrders, CountSaid
  <2>6. CountSet(lost, c, n) = Once(n \in gone) BY <1>1, CountLost
  <2>7. \A w \in Warehouses : PlacesAt(w, c, n) = Once(n \in Held(f[w])) BY <1>1, <2>2, CountAtWarehouse
  <2> DEFINE H == UNION {Held(f[w]) : w \in Warehouses}
  <2> HIDE DEF f, gone
  <2>8. Cardinality(at) = Once(n \in H)
    <3>1. CASE n \in H
      <4>1. PICK v \in Warehouses : n \in Held(f[v]) BY <3>1
      <4>2. \A w \in Warehouses : w # v => n \notin Held(f[w]) BY <2>3, <4>1 DEF Placed
      <4>3. \A w \in Warehouses : 1 .. PlacesAt(w, c, n) = IF w = v THEN {1} ELSE {}
        <5>1. 1 .. 1 = {1} /\ 1 .. 0 = {} OBVIOUS
        <5> QED BY <2>7, <4>1, <4>2, <5>1 DEF Once
      <4>4. at = {<<v, 1>>}
        <5>1. ASSUME NEW x \in at PROVE x = <<v, 1>>
          <6>1. PICK w \in Warehouses : \E k \in 1 .. PlacesAt(w, c, n) : x = <<w, k>> OBVIOUS
          <6> QED BY <4>3, <6>1
        <5>2. <<v, 1>> \in at
          <6>1. 1 \in 1 .. PlacesAt(v, c, n) BY <4>3
          <6> QED BY <6>1
        <5> QED BY <5>1, <5>2
      <4> QED BY <3>1, <4>4, FS_Singleton DEF Once
    <3>2. CASE n \notin H
      <4>1. \A w \in Warehouses : PlacesAt(w, c, n) = 0 BY <2>7, <3>2 DEF Once
      <4>2. at = {}
        <5> SUFFICES ASSUME NEW x \in at PROVE FALSE OBVIOUS
        <5>1. PICK w \in Warehouses : \E k \in 1 .. PlacesAt(w, c, n) : x = <<w, k>> OBVIOUS
        <5>2. 1 .. PlacesAt(w, c, n) = {} BY <4>1
        <5> QED BY <5>1, <5>2
      <4> QED BY <3>2, <4>2, FS_EmptySet DEF Once
    <3> QED BY <3>1, <3>2
  <2> DEFINE N(a) == n \in Numbers(f[u][a])
  <2>9. ~ (N(6) /\ N(7)) /\ ~ (N(6) /\ N(8)) /\ ~ (N(7) /\ N(8))
    <3>1. 6 \in 1 .. 8 /\ 7 \in 1 .. 8 /\ 8 \in 1 .. 8 OBVIOUS
    <3> QED BY <2>4, <3>1, PlacesApart
  <2>10. n \in Coming(f[u]) <=> N(6) \/ N(7) \/ N(8) BY DEF Coming
  <2>11. n \in gone => n \notin Coming(f[u]) /\ n \notin H BY <2>3 DEF Placed
  <2>12. n \in H => n \notin Coming(f[u])
    <3> SUFFICES ASSUME NEW v \in Warehouses, n \in Held(f[v]) PROVE n \notin Coming(f[u])
      OBVIOUS
    <3>1. f[v][6] = f[u][6] /\ f[v][7] = f[u][7] /\ f[v][8] = f[u][8]
      BY <2>3 DEF Pictured, f
    <3>3. Coming(f[v]) = Coming(f[u]) BY <3>1 DEF Coming
    <3>2. f[v] \in Lines /\ InLine(f[v]) BY <2>3 DEF Placed
    <3> QED BY <3>2, <3>3, ComingApart
  <2>13. n \in 1 .. made[c] <=> n \in gone \/ n \in Coming(f[u]) \/ n \in H
    BY <2>3 DEF Placed
  <2>14. n \in 1 .. made[c] <=> n <= made[c] BY <2>2
  <2>15. Places(c, n) = Once(N(8)) + Once(N(7)) + Once(N(6)) + Once(n \in gone) + Once(n \in H)
    BY <2>5, <2>6, <2>8 DEF Places
  <2> DEFINE P == n \in gone
             Q == n \in H
             R == n \in Coming(f[u])
             M == n <= made[c]
  <2> HIDE DEF N, H, P, Q, R, M
  <2>16. /\ P => ~ R /\ ~ Q
         /\ Q => ~ R
         /\ R <=> N(6) \/ N(7) \/ N(8)
         /\ M <=> P \/ R \/ Q
    BY <2>10, <2>11, <2>12, <2>13, <2>14 DEF P, Q, R, M
  <2>17. Places(c, n) = Once(N(8)) + Once(N(7)) + Once(N(6)) + Once(P) + Once(Q)
    BY <2>15 DEF P, Q
  <2>18. Places(c, n) = IF M THEN 1 ELSE 0 BY <2>9, <2>16, <2>17 DEF Once
  <2> QED BY <2>18 DEF M
<1>2. TypeInv /\ LinesInv => OrderInOnePlace BY <1>1 DEF OrderInOnePlace
<1> QED BY <1>2, LinesInvHolds, PTL
=============================================================================
