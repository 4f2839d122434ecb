------------------------------- MODULE MCFloor -------------------------------
(* An instance of Floor for TLC: five rows of eight places with walls and  *)
(* docks around, and shelves in some of the places given here: three       *)
(* columns apart, in one column, in a corner, and in the way.  One of the  *)
(* layouts has no docks.                                                   *)
EXTENDS Floor

CONSTANTS l1, l2, l3, w1, w2

ShelfPlaces == {2 * Cols + 2, 2 * Cols + 5, 2 * Cols + 6, Cols + 5, 3 * Cols + 2}

Border(n) == Row(n) \in {0, Rows - 1} \/ Col(n) \in {0, Cols - 1}

LayoutOf(shelves) ==
    [n \in Nodes |->
        CASE n = 4 * Cols + 1 -> "restock"
          [] n = 4 * Cols + 6 -> "delivery"
          [] Border(n) -> "wall"
          [] n \in shelves -> "shelf"
          [] OTHER -> "empty"]

LeftRight == {-1, 1}

OneLayout == {LayoutOf({2 * Cols + 2, 2 * Cols + 5})}
Undocked(layout1) == [n \in Nodes |-> IF Border(n) THEN "wall" ELSE layout1[n]]
AllLayouts == {LayoutOf(S) : S \in SUBSET ShelfPlaces} \cup {Undocked(l) : l \in OneLayout}

SlotSymmetry == Permutations(LayoutProcs) \cup Permutations(WarehouseProcs)
=============================================================================
