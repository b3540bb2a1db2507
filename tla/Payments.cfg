\* One order, two cancellations at a time, an event for each of two intents, two
\* workers, a transaction that fails.
CONSTANTS
  r1 = r1  ann = ann  k1 = k1  c1 = c1  c2 = c2
  i1 = i1  i2 = i2  e1 = e1  e2 = e2  w1 = w1  w2 = w2
  Requests = {r1}
  Users = {ann}
  Keys = {k1}
  User <- Buyer
  Key <- TheKey
  Qty <- One
  InitialStock = 1
  Cancellers = {c1, c2}
  SweepBatch = 1
  Hold = 1
  Horizon = 1
  MaxFaults = 0
  NoOrder = NoOrder
  Intents = {i1, i2}
  IntentOf <- BothForR1
  NoEvent = NoEvent
  NoIntent = NoIntent
  Fits <- FirstFits
  Events = {e1, e2}
  EventOf <- OneEach
  Workers = {w1, w2}
  MaxCrashes = 1
SPECIFICATION FairPaySpec
INVARIANTS PaidByItsCharge KeptOrRefunded
PROPERTIES EndIsFinal KeepsLedger ChargeIsDecided KeepsFlow LateChargeIsRefunded
