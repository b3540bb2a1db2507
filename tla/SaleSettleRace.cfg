\* A purchase or a cancellation commits while the event is being settled.
CONSTANTS
  r1 = r1  r2 = r2  r3 = r3  ann = ann  bob = bob  k1 = k1
  Users = {ann, bob}
  Keys = {k1}
  Qty <- OneAndTwo
  MaxQuantity = 2
  Requests = {r1, r2}
  User <- OneEach
  Key <- SameString
  Limit = 3
  Allocated = 3
  Total = 4
  MaxDirect = 0
  MaxDeaths = 0
SPECIFICATION SaleSpec
INVARIANT UnitsConserved
CHECK_DEADLOCK FALSE
