---------------------------- MODULE MCRestockDock ----------------------------
(* Instances of RestockDock for TLC. *)
EXTENDS RestockDock

CONSTANTS t1, t2, r1, r2, light, heavy, other

\* t1 needs an overload task and a last one, t2 fits one robot.
CargoTwo == t1 :> <<heavy, light, heavy>> @@ t2 :> <<other>>
\* A single truck that needs two robots.
CargoOver == t1 :> <<heavy, light, heavy>>

MassOfItem == light :> 1 @@ heavy :> 2 @@ other :> 2
=============================================================================
