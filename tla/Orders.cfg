\* A call, its retry and another buyer's call, one cancellation at a time on two
\* clocks, a lost job or a death.
CONSTANTS
  r1 = r1  r2 = r2  r3 = r3
  ann = ann  bob = bob  k1 = k1
  c1 = c1
  Requests = {r1, r2, r3}
  Users = {ann, bob}
  Keys = {k1}
  User <- TwoBuyers
  Key <- SameString
  Qty <- Amounts
  InitialStock = 3
  Cancellers = {c1}
  SweepBatch = 1
  Hold = 1
  Horizon = 1
  MaxFaults = 1
  NoOrder = NoOrder
SPECIFICATION FairSpec
INVARIANTS OneOrderPerKey DuplicateFindsOrder
PROPERTIES KeepsLedger NoEarlyExpiry OverdueIsResolved CancelledIsReturned
