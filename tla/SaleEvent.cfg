\* Two buyers, one of whom repeats a call and hits the limit; a process dies.
CONSTANTS
  r1 = r1  r2 = r2  r3 = r3  ann = ann  bob = bob  k1 = k1
  Users = {ann, bob}
  Keys = {k1}
  Qty <- Amounts
  MaxQuantity = 2
  Requests = {r1, r2, r3}
  User <- TwoBuyers
  Key <- RetriedKey
  Limit = 2
  Allocated = 2
  Total = 4
  MaxDirect = 2
  MaxDeaths = 1
SPECIFICATION FairSaleSpec
INVARIANT UnitsAccounted
PROPERTIES KeepsQuota EndedIsSettled NothingStaysHeld
CHECK_DEADLOCK FALSE
