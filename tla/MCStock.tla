------------------------------- MODULE MCStock -------------------------------
(* Instances of Stock for TLC. *)
EXTENDS Stock

CONSTANTS r1, hat, pen

MassOfItem == hat :> 1 @@ pen :> 2
\* Hats enough for a dropped task, too few, and only once some are restocked
InitialUnits == {hat :> 2 @@ pen :> 1, hat :> 1 @@ pen :> 2, hat :> 0 @@ pen :> 2}

\* One unit; two that are too much for one robot; two, for one truck.
SomeOrders == {<<hat>>, <<pen, hat>>, <<pen, pen>>}
OneUnit == {<<hat>>}
=============================================================================
