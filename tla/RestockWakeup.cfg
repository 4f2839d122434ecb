SPECIFICATION FairSpec
CONSTANTS
  t1 = t1
  t2 = t2
  light = light
  heavy = heavy
  other = other
  r1 = r1
  r2 = r2
  Trucks = {t1}
  Items = {light, heavy, other}
  Cargo <- CargoOver
  Mass <- MassOfItem
  Capacity = 4
  Handler = Handler
  Nobody = Nobody
  CounterMod = 8
  MaxSpurious = 0
  Robots = {r1}
  InitialRobots = {r1}
  MaxTasks = 2
  MaxPoison = 0
  LoopingLegs = FALSE
PROPERTY
  DoneTruckLeaves
CHECK_DEADLOCK FALSE
