SPECIFICATION Spec
CONSTANTS
  t1 = t1
  t2 = t2
  light = light
  heavy = heavy
  other = other
  r1 = r1
  r2 = r2
  Trucks = {t1, t2}
  Items = {light, heavy, other}
  Cargo <- CargoTwo
  Mass <- MassOfItem
  Capacity = 4
  Stored <- StoredTwo
  Handler = Handler
  Nobody = Nobody
  CounterMod = 8
  MaxSpurious = 1
  Robots = {r1, r2}
  InitialRobots = {r1}
  MaxTasks = 1
  MaxPoison = 1
  LoopingLegs = TRUE
INVARIANTS
  TypeOK
  TasksOfOneTruck
PROPERTY
  ImplementsCargoService
CHECK_DEADLOCK FALSE
