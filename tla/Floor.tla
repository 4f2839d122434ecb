------------------------------- MODULE Floor -------------------------------
(***************************************************************************)
(* The warehouse's way into its layout: the slots in which layouts and     *)
(* warehouses meet (LayoutSlots), and the paths that a warehouse then      *)
(* plans over the layout it has found (PathPlanner).  After the search for *)
(* a slot the two share nothing: a behaviour is about one of them.         *)
(***************************************************************************)
EXTENDS LayoutSlots, PathPlanner

VARIABLE subject       \* what the behaviour is about

vars == <<slotVars, plannerVars, subject>>

FloorTypeOK == SlotTypeOK /\ PlannerTypeOK

\* The slots do not need more than one of the layouts.
Init ==
    /\ SlotInit /\ PlannerInit
    /\ subject \in {"paths"} \cup (IF active = Planners THEN {"slots"} ELSE {})

Next ==
    \/ subject = "slots" /\ SlotNext /\ UNCHANGED <<plannerVars, subject>>
    \/ subject = "paths" /\ PlannerNext /\ UNCHANGED <<slotVars, subject>>

Spec == Init /\ [][Next]_vars
=============================================================================
