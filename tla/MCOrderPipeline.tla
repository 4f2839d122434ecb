---------------------------- MODULE MCOrderPipeline ----------------------------
(* Instances of OrderPipeline for TLC. *)
EXTENDS OrderPipeline, TLC

CONSTANTS c1, c2, c3, w1, w2, pen, hat

\* One unit of one kind per cart
SingleCarts == {[k \in Kinds |-> IF k = kind THEN 1 ELSE 0] : kind \in Kinds}

\* c1 makes two orders, which the others only wait beside.
OrdersOfOne == [c \in Clients |-> IF c = c1 THEN 2 ELSE 0]
NoOrders == [c \in Clients |-> 0]

KindSymmetry == Permutations(Kinds) \cup Permutations(Warehouses)
=============================================================================
