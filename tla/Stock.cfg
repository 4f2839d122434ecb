SPECIFICATION FairSpec
CONSTANTS
  r1 = r1
  hat = hat
  pen = pen
  Items = {hat, pen}
  Mass <- MassOfItem
  TruckCapacity = 4
  RobotCapacity = 3
  MaxStock = 5
  InitialStocks <- InitialUnits
  Menu = Menu
  OrderHandler = OrderHandler
  Robots = {r1}
  Orders <- SomeOrders
  Restocks <- OneUnit
  MaxCalls = 2
INVARIANTS
  TypeOK
  LocationsBalance
  TotalBalance
PROPERTIES
  PromisedIsLocated
  EveryTruckServed
CHECK_DEADLOCK FALSE
