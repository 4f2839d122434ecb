SPECIFICATION Spec
CONSTANTS
  l1 = l1
  l2 = l2
  w1 = w1
  w2 = w2
  Slots = 2
  LayoutProcs = {l1, l2, l3}
  WarehouseProcs = {w1, w2}
  l3 = l3
  Unlocked = Unlocked
  Rows = 5
  Cols = 8
  ResHandler = ResHandler
  DelHandler = DelHandler
  Layouts <- AllLayouts
  SharedLayouts <- OneLayout
  Sides <- LeftRight
  MaxItems = 2
  MaxSharedItems = 1
SYMMETRY SlotSymmetry
INVARIANTS
  FloorTypeOK
  LegsAreShortest
  StopsActedOnOnce
  ShelvesAreFound
  SlotOwners
CHECK_DEADLOCK FALSE
