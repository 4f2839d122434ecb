---------------------------- MODULE MCDeliveryDock ----------------------------
(* Instances of DeliveryDock for TLC. *)
EXTENDS DeliveryDock

CONSTANTS t1, t2, r1, r2, light, heavy, other

\* t1 overloads a robot, t2 does not; both ask for light.
CargoTwo == t1 :> <<heavy, light, heavy>> @@ t2 :> <<other, light>>
\* Two trucks that each fit one robot, asking for a common item.
CargoFits == t1 :> <<heavy, light>> @@ t2 :> <<light, other>>
\* A single truck that overloads.
CargoOver == t1 :> <<heavy, light, heavy>>

MassOfItem == light :> 1 @@ heavy :> 2 @@ other :> 2

\* Enough for t1, whose overload takes some locations twice, and then not for
\* t2; exactly the locations that the trucks' items need; and many more.
StoredTwo == heavy :> 3 @@ light :> 2 @@ other :> 1
StoredExact == [i \in Items |-> SumFunction([t \in Trucks |-> UnitsOf(Cargo[t], i)])]
StoredAmple == [i \in Items |-> 6]
=============================================================================
