SPECIFICATION FairSpec
CONSTANTS
  c1 = c1
  c2 = c2
  c3 = c3
  w1 = w1
  w2 = w2
  pen = pen
  hat = hat
  Clients = {c1}
  Warehouses = {w1}
  Kinds = {pen}
  Carts <- SingleCarts
  MaxOrders <- OrdersOfOne
  MayLeave = {}
  Nobody = Nobody
PROPERTIES
  BufferedIsCalled
