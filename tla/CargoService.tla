------------------------------ MODULE CargoService ------------------------------
(***************************************************************************)
(* What either dock promises, with no threads in it: the cargo of a truck  *)
(* is taken up in one piece, and every unit of it is handled once.  For a  *)
(* restock truck, handled means put on a shelf; for a delivery truck,      *)
(* brought to the truck.                                                   *)
(***************************************************************************)
EXTENDS Naturals, Sequences, FiniteSets, Functions

CONSTANTS Trucks, Items, Cargo

VARIABLES
    waiting,    \* trucks not yet served
    pending,    \* units taken up and not yet handled, per item
    handled     \* units handled, per item

vars == <<waiting, pending, handled>>

\* How many units of item i a sequence of items holds.
Units(s, i) == Cardinality({k \in DOMAIN s : s[k] = i})

Init ==
    /\ waiting = Trucks
    /\ pending = [i \in Items |-> 0]
    /\ handled = [i \in Items |-> 0]

Unload(t) ==
    /\ t \in waiting
    /\ waiting' = waiting \ {t}
    /\ pending' = [i \in Items |-> pending[i] + Units(Cargo[t], i)]
    /\ UNCHANGED handled

\* Of any items, units that were pending are handled: a robot shelves them
\* one by one, and hands all of its task to a delivery truck at once.
Handle ==
    /\ pending' \in [Items -> Nat]
    /\ handled' = [i \in Items |-> handled[i] + (pending[i] - pending'[i])]
    /\ \A i \in Items : handled[i] =< handled'[i]
    /\ UNCHANGED waiting

Next == (\E t \in Trucks : Unload(t)) \/ Handle

Spec == Init /\ [][Next]_vars

Called(i) == SumFunction([t \in Trucks |-> Units(Cargo[t], i)])

\* Every unit of every truck is handled in the end.
AllHandled == <>(\A i \in Items : handled[i] = Called(i))
=============================================================================
