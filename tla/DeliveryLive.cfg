SPECIFICATION FairSpec
CONSTANTS
  t1 = t1
  t2 = t2
  light = light
  heavy = heavy
  other = other
  r1 = r1
  r2 = r2
  Trucks = {t1, t2}
  Items = {light, heavy, other}
  Cargo <- CargoFits
  Mass <- MassOfItem
  Capacity = 4
  Stored <- StoredExact
  Handler = Handler
  Nobody = Nobody
  CounterMod = 8
  MaxSpurious = 0
  Robots = {r1, r2}
  InitialRobots = {r1, r2}
  MaxTasks = 2
  MaxPoison = 1
  LoopingLegs = FALSE
INVARIANTS
  DeletedIsTakenOut
  LocationsSuffice
PROPERTY
  AllDelivered
CHECK_DEADLOCK FALSE
