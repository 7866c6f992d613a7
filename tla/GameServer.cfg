SPECIFICATION Spec
CONSTANTS
  p1 = p1
  p2 = p2
  u1 = u1
  u2 = u2
  k1 = k1
  i1 = i1
  i2 = i2
  i3 = i3
  o1 = o1
  g1 = g1
  Clients = {p1, p2}
  Users = {u1, u2}
  Kinds = {k1}
  ItemIds = {i1, i2, i3}
  NoRow = NoRow
  NoId = NoId
  Stocks <- MCStocks
  Quantities = {2}
  NewQuantities = {0, 1}
  OrderIds = {o1}
  NoOrder = NoOrder
  OrderTables <- MCOrderTables
  Games = {g1}
  MaxCalls = 3
  MaxFaults = 1
  MaxCrashes = 1
SYMMETRY ClientSymmetry
INVARIANTS TypeOK QuantityNotNegative NoDuplication NothingLost RefundFollowsPayment
PROPERTIES SettledStays
