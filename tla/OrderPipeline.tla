----------------------------- MODULE OrderPipeline -----------------------------
(***************************************************************************)
(* From the clients' carts to CallDelivery: the web server with its        *)
(* clients (OrderServer) and its warehouses (OrderIntake), which share the *)
(* order queue.  The web server itself does not end.                       *)
(***************************************************************************)
EXTENDS OrderIntake, FiniteSets

ASSUME PipelineAssumption ==
    /\ IsFiniteSet(Clients) /\ IsFiniteSet(Warehouses) /\ IsFiniteSet(Kinds)
    /\ MaxOrders \in [Clients -> Nat]
    /\ \A cart \in Carts : cart \in Items /\ In(cart) # {}
    /\ Nobody \notin Clients
    /\ \A w \in Warehouses : Nobody \notin {Sender(w), Receiver(w)}

sessionVars == <<cpc, order, made, up, spc, msg, basket, serverMutex>>
vars == <<serverVars, intakeVars>>

TypeOK == ServerTypeOK /\ IntakeTypeOK

Init == ServerInit /\ IntakeInit

ServerSide(c) == (ClientStep(c) \/ ServiceStep(c)) /\ UNCHANGED intakeVars
WarehouseSide(w) == IntakeStep(w) /\ UNCHANGED sessionVars

Next == (\E c \in Clients : ServerSide(c)) \/ (\E w \in Warehouses : WarehouseSide(w))

Spec == Init /\ [][Next]_vars

\* Threads run, and a mutex that is released again and again is acquired in
\* the end: the kernel serves its waiters in turn.  What clients do is up to
\* them, and so is when a warehouse comes and leaves.
FairSpec ==
    /\ Spec
    /\ \A c \in Clients : SF_vars(ServiceStep(c) /\ UNCHANGED intakeVars)
    /\ \A w \in Warehouses :
          /\ SF_vars(SenderStep(w) /\ UNCHANGED sessionVars)
          /\ SF_vars(ReceiverStep(w) /\ UNCHANGED sessionVars)
          /\ WF_vars(HandlerStep(w) /\ UNCHANGED sessionVars)

-----------------------------------------------------------------------------
(* Properties.                                                             *)

Is(o, c, n) == o.client = c /\ o.number = n
CountIn(s, c, n) == Cardinality({k \in 1 .. Len(s) : Is(s[k], c, n)})
CountMessages(s, c, n) ==
    Cardinality({k \in 1 .. Len(s) : s[k].type = "add" /\ Is(s[k].order, c, n)})
CountSet(S, c, n) == Cardinality({o \in S : Is(o, c, n)})

\* How many orders are in the pipeline's places at w for one that c made
PlacesAt(w, c, n) ==
    CountIn(receivedorder[w], c, n) + CountIn(wire[w], c, n) + CountIn(incoming[w], c, n)
      + CountIn(orderbuff[w], c, n) + CountIn(called[w], c, n)

\* As many as there are pairs of a warehouse and an order in it; each place
\* holds an order at most once when this is one.
Places(c, n) ==
    CountMessages(up[c], c, n) + CountMessages(msg[c], c, n) + CountIn(queue, c, n)
      + CountSet(lost, c, n)
      + Cardinality(UNION {{<<w, k>> : k \in 1 .. PlacesAt(w, c, n)} : w \in Warehouses})

\* An order that was made is in exactly one place, whatever ends in
\* between: it is not delivered twice, and it is lost only by a connection.
OrderInOnePlace ==
    \A c \in Clients : \A n \in 1 .. MaxOrders[c] : Places(c, n) = IF n <= made[c] THEN 1 ELSE 0

\* A warehouse is called for the orders of a client in the order in which
\* the client made them, although two threads and two processes hand them on.
CalledInOrder ==
    \A w \in Warehouses : \A i, j \in 1 .. Len(called[w]) :
        i < j /\ called[w][i].client = called[w][j].client
          => called[w][i].number < called[w][j].number

\* What is called for an order has every kind its cart had: that the cart,
\* the basket and the item list all keep what they held adds items, and
\* never hides one.
NothingForgotten ==
    \A w \in Warehouses : \A i \in 1 .. Len(called[w]) :
        called[w][i].asked \subseteq In(called[w][i].items)

\* A client whose order or search is unanswered is answered once the others
\* are gone, however they went: a mutex they left behind is still acquired.
AnsweredOnceAlone ==
    \A c \in Clients :
        (cpc[c] = "waiting" /\ \A d \in Clients \ {c} : cpc[d] = "gone") ~> (cpc[c] # "waiting")

\* Once there is a warehouse, and while none leaves, an order that was
\* served gets to the order buffer of a warehouse, or has been called.
ServedIsBuffered ==
    \A c \in Clients : \A n \in 1 .. MaxOrders[c] :
        (CountIn(queue, c, n) > 0 /\ \E w \in Warehouses : rpc[w] # "absent") ~>
           (\E w \in Warehouses : rpc[w] = "gone" \/ CountIn(orderbuff[w] \o called[w], c, n) > 0)

\* WarehouseComm.h:94 "let warehouse main. ClientOrderHandler know an order
\* has come in": an order in the buffer is called, while the warehouse stays.
BufferedIsCalled ==
    \A w \in Warehouses :
        (orderbuff[w] # <<>>) ~> (orderbuff[w] = <<>> \/ rpc[w] = "gone")

\* Webserver.cpp:285 "Detach client to let it run on its own": a client is
\* answered whatever the others do, or leave undone.
AnsweredOnItsOwn ==
    \A c \in Clients : (cpc[c] = "waiting") ~> (cpc[c] # "waiting")
=============================================================================
