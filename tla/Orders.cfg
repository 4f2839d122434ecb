SPECIFICATION Spec
CONSTANTS
  c1 = c1
  c2 = c2
  c3 = c3
  w1 = w1
  w2 = w2
  pen = pen
  hat = hat
  Clients = {c1, c2}
  Warehouses = {w1, w2}
  Kinds = {pen, hat}
  Carts <- SingleCarts
  MaxOrders <- OrdersOfOne
  MayLeave = {c1, w1, w2}
  Nobody = Nobody
SYMMETRY KindSymmetry
INVARIANTS
  TypeOK
  OrderInOnePlace
  CalledInOrder
  NothingForgotten
