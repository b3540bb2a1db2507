--------------------------- MODULE SaleEventProofs ---------------------------
(* What SaleEvent promises, for any buyers, calls, limits and amounts. *)
EXTENDS SaleEvent, FiniteSetTheorems, TLAPS

USE SaleAssumption

\* What StockLedgerProofs says of numbered units holds of those of the event.
Numbered == INSTANCE StockLedgerProofs WITH
  Claims <- Requests, Amount <- Qty, MaxAmount <- MaxQuantity,
  free <- skuStock, hold <- phase

(* One more request adds its quantity to the units. *)
LEMMA SaleUnitsAdd ==
  ASSUME NEW S \in SUBSET Requests, NEW r \in Requests \ S
  PROVE  /\ UnitsOf(S) \in Nat
         /\ UnitsOf(S \union {r}) = UnitsOf(S) + Qty[r]
<1>1. Numbered!LedgerConstants
  BY DEF Numbered!LedgerConstants, Numbered!IsFiniteSet, IsFiniteSet
<1>2. /\ Numbered!IsFiniteSet(Numbered!Units(S))
      /\ Numbered!Cardinality(Numbered!Units(S \union {r}))
           = Numbered!Cardinality(Numbered!Units(S)) + Qty[r]
  BY <1>1, Numbered!UnitsAdd
<1>3. \A T : UnitsOf(T) = Numbered!Cardinality(Numbered!Units(T))
  BY DEF UnitsOf, Numbered!Units, Numbered!Cardinality, Cardinality
<1>4. UnitsOf(S) \in Nat
  <2>1. IsFiniteSet(Numbered!Units(S))
    BY <1>2 DEF Numbered!IsFiniteSet, IsFiniteSet
  <2>2. Cardinality(Numbered!Units(S)) \in Nat
    BY <2>1, FS_CardinalityType
  <2> QED BY <2>2 DEF UnitsOf, Numbered!Units
<1> QED BY <1>2, <1>3, <1>4

(* The units of some requests are finitely many. *)
LEMMA SaleUnitsNat == ASSUME NEW S \in SUBSET Requests PROVE UnitsOf(S) \in Nat
<1>1. IsFiniteSet(1..MaxQuantity)
  BY FS_Interval
<1>2. IsFiniteSet(Requests \X (1..MaxQuantity))
  BY <1>1, FS_Product
<1> QED BY <1>2, FS_Subset, FS_CardinalityType DEF UnitsOf

-----------------------------------------------------------------------------
\* The quota of a buyer is what the buyer's purchases hold of it.
QuotaKept == \A u \in Users : quota[u] = UnitsOf(HoldingQuota(u))

\* Before the event is published nothing of it is for sale.
UnpublishedIsEmpty ==
  ~published =>
    /\ saleStock = 0 /\ settling = NoSettlement
    /\ \A r \in Requests : phase[r] \notin StockPhases \union {"asking"}

\* What is left and what is held never exceeds what was cut out.
WithinAllocation ==
  published => saleStock + UnitsOf(HoldingStock) <= Allocated

SaleInv ==
  /\ SaleTypeOK /\ UnitsAccounted
  /\ QuotaKept /\ UnpublishedIsEmpty /\ WithinAllocation

LEMMA SaleStart == SaleInit => SaleInv
<1> SUFFICES ASSUME SaleInit PROVE SaleInv
  OBVIOUS
<1> USE DEF SaleInit
<1>1. SaleTypeOK
  <2>1. clock \in 0..2 /\ settling \in Nat \union {NoSettlement}
    BY DEF Clock
  <2>2. phase \in [Requests -> Phases]
    BY DEF Phases
  <2>3. quota \in [Users -> 0..Limit] /\ direct \in 0..MaxDirect /\ missed \in Int
    OBVIOUS
  <2> QED BY <2>1, <2>2, <2>3 DEF SaleTypeOK
<1>2. UnitsOf({}) = 0
  BY FS_EmptySet DEF UnitsOf
<1>3. HoldingStock = {} /\ \A u : HoldingQuota(u) = {}
  BY DEF HoldingStock, HoldingQuota, QuotaPhases, StockPhases
<1>4. UnitsAccounted /\ QuotaKept
  BY <1>2, <1>3 DEF UnitsAccounted, QuotaKept
<1>5. UnpublishedIsEmpty /\ WithinAllocation
  BY DEF UnpublishedIsEmpty, WithinAllocation, StockPhases
<1> QED BY <1>1, <1>4, <1>5 DEF SaleInv

-----------------------------------------------------------------------------
(* Calls that go on. *)

\* How the units in calls' hands change when one of them goes on.
LEMMA StockMoves ==
  ASSUME phase \in [Requests -> Phases],
         NEW r \in Requests, NEW from, NEW to, Goto(r, from, to)
  PROVE  /\ UnitsOf(HoldingStock) \in Nat /\ UnitsOf(HoldingStock') \in Nat
         /\ (from \in StockPhases <=> to \in StockPhases)
              => UnitsOf(HoldingStock') = UnitsOf(HoldingStock)
         /\ from \notin StockPhases /\ to \in StockPhases
              => UnitsOf(HoldingStock') = UnitsOf(HoldingStock) + Qty[r]
         /\ from \in StockPhases /\ to \notin StockPhases
              => UnitsOf(HoldingStock) = UnitsOf(HoldingStock') + Qty[r]
<1>1. phase[r] = from /\ phase' = [phase EXCEPT ![r] = to]
  BY DEF Goto
<1>2. HoldingStock \in SUBSET Requests /\ HoldingStock' \in SUBSET Requests
  BY DEF HoldingStock
<1>3. (from \in StockPhases <=> to \in StockPhases) => HoldingStock' = HoldingStock
  BY <1>1 DEF HoldingStock
<1>4. from \notin StockPhases /\ to \in StockPhases
        => HoldingStock' = HoldingStock \union {r} /\ r \in Requests \ HoldingStock
  BY <1>1 DEF HoldingStock
<1>5. from \in StockPhases /\ to \notin StockPhases
        => HoldingStock = HoldingStock' \union {r} /\ r \in Requests \ HoldingStock'
  BY <1>1 DEF HoldingStock
<1> QED BY <1>2, <1>3, <1>4, <1>5, SaleUnitsNat, SaleUnitsAdd

\* The same for the quota of each buyer.
LEMMA QuotaMoves ==
  ASSUME phase \in [Requests -> Phases], NEW u \in Users,
         NEW r \in Requests, NEW from, NEW to, Goto(r, from, to)
  PROVE  /\ UnitsOf(HoldingQuota(u)) \in Nat /\ UnitsOf(HoldingQuota(u)') \in Nat
         /\ User[r] # u \/ (from \in QuotaPhases <=> to \in QuotaPhases)
              => UnitsOf(HoldingQuota(u)') = UnitsOf(HoldingQuota(u))
         /\ User[r] = u /\ from \notin QuotaPhases /\ to \in QuotaPhases
              => UnitsOf(HoldingQuota(u)') = UnitsOf(HoldingQuota(u)) + Qty[r]
         /\ User[r] = u /\ from \in QuotaPhases /\ to \notin QuotaPhases
              => UnitsOf(HoldingQuota(u)) = UnitsOf(HoldingQuota(u)') + Qty[r]
<1>1. phase[r] = from /\ phase' = [phase EXCEPT ![r] = to]
  BY DEF Goto
<1>2. HoldingQuota(u) \in SUBSET Requests /\ HoldingQuota(u)' \in SUBSET Requests
  BY DEF HoldingQuota
<1>3. User[r] # u \/ (from \in QuotaPhases <=> to \in QuotaPhases)
        => HoldingQuota(u)' = HoldingQuota(u)
  BY <1>1 DEF HoldingQuota
<1>4. User[r] = u /\ from \notin QuotaPhases /\ to \in QuotaPhases
        => HoldingQuota(u)' = HoldingQuota(u) \union {r} /\ r \in Requests \ HoldingQuota(u)
  BY <1>1 DEF HoldingQuota
<1>5. User[r] = u /\ from \in QuotaPhases /\ to \notin QuotaPhases
        => HoldingQuota(u) = HoldingQuota(u)' \union {r} /\ r \in Requests \ HoldingQuota(u)'
  BY <1>1 DEF HoldingQuota
<1> QED BY <1>2, <1>3, <1>4, <1>5, SaleUnitsNat, SaleUnitsAdd

\* Primed, the parts speak of the units of the primed sets.
LEMMA PrimedParts ==
  /\ UnitsAccounted' <=> skuStock' + saleStock' + UnitsOf(HoldingStock') + direct' + missed' = Total
  /\ QuotaKept' <=> \A u \in Users : quota'[u] = UnitsOf(HoldingQuota(u)')
  /\ WithinAllocation' <=> (published' => saleStock' + UnitsOf(HoldingStock') <= Allocated)
BY DEF UnitsAccounted, QuotaKept, WithinAllocation, UnitsOf

\* What a step of one call may do keeps the invariant: the quota and the units
\* it writes are those that its phases count.
LEMMA CallStep ==
  ASSUME SaleInv, NEW r \in Requests, NEW from, NEW to \in Phases, Goto(r, from, to),
         to \in StockPhases \union {"asking"} => published,
         UNCHANGED << skuStock, published, settled, clock, settling, direct, missed, dead >>,
         IF from \notin StockPhases /\ to \in StockPhases
         THEN saleStock' = saleStock - Qty[r] /\ saleStock >= Qty[r]
         ELSE IF from \in StockPhases /\ to \notin StockPhases
         THEN saleStock' = saleStock + Qty[r]
         ELSE saleStock' = saleStock,
         IF from \notin QuotaPhases /\ to \in QuotaPhases
         THEN quota' = [quota EXCEPT ![User[r]] = @ + Qty[r]] /\ MayClaim(r)
         ELSE IF from \in QuotaPhases /\ to \notin QuotaPhases
         THEN quota' = [quota EXCEPT ![User[r]] = @ - Qty[r]]
         ELSE quota' = quota
  PROVE  SaleInv'
<1>1. phase[r] = from /\ phase' = [phase EXCEPT ![r] = to] /\ phase \in [Requests -> Phases]
  BY DEF Goto, SaleInv, SaleTypeOK
<1>2. Qty[r] \in Nat /\ User[r] \in Users
  OBVIOUS
<1>3. /\ skuStock \in Nat /\ saleStock \in Nat /\ direct \in Nat /\ missed \in Int
      /\ quota \in [Users -> 0..Limit]
  BY DEF SaleInv, SaleTypeOK
<1>4. UnitsAccounted' /\ WithinAllocation'
  BY <1>1, <1>2, <1>3, StockMoves, PrimedParts
     DEF SaleInv, UnitsAccounted, WithinAllocation, UnpublishedIsEmpty
<1>5. \A u \in Users : quota'[u] = UnitsOf(HoldingQuota(u)')
  <2> SUFFICES ASSUME NEW u \in Users PROVE quota'[u] = UnitsOf(HoldingQuota(u)')
    OBVIOUS
  <2>1. quota[u] = UnitsOf(HoldingQuota(u)) /\ quota[u] \in Nat
    BY <1>3 DEF SaleInv, QuotaKept
  <2>2. CASE User[r] = u
    BY <1>1, <1>2, <1>3, <2>1, <2>2, QuotaMoves
  <2>3. CASE User[r] # u
    BY <1>1, <1>2, <1>3, <2>1, <2>3, QuotaMoves
  <2> QED BY <2>2, <2>3
<1>6. quota' \in [Users -> 0..Limit]
  <2>1. quota' \in [Users -> Int]
    BY <1>2, <1>3
  <2>2. \A u \in Users : quota'[u] \in Nat
    BY <1>1, <1>5, QuotaMoves
  <2>3. \A u \in Users : quota'[u] <= Limit
    BY <1>2, <1>3 DEF MayClaim
  <2> QED BY <2>1, <2>2, <2>3
<1>7. SaleTypeOK'
  <2>1. phase' \in [Requests -> Phases]
    BY <1>1
  <2>2. saleStock' \in Nat
    BY <1>2, <1>3
  <2> QED BY <1>6, <2>1, <2>2 DEF SaleInv, SaleTypeOK
<1>8. UnpublishedIsEmpty'
  BY <1>1 DEF SaleInv, UnpublishedIsEmpty
<1> QED BY <1>4, <1>5, <1>7, <1>8, PrimedParts DEF SaleInv

-----------------------------------------------------------------------------
(* Every step. *)

LEMMA PurchaseKeepsInv ==
  ASSUME SaleInv, NEW r \in Requests, Purchase(r)
  PROVE  SaleInv'
<1> USE DEF Phases, QuotaPhases, StockPhases, UnpublishedIsEmpty
<1>0. UnpublishedIsEmpty /\ phase \in [Requests -> Phases]
  BY DEF SaleInv, SaleTypeOK
<1>1. CASE ClaimQuota(r)
  <2>1. CASE MayClaim(r)
    BY <1>1, <2>1, CallStep DEF ClaimQuota
  <2>2. CASE ~MayClaim(r)
    BY <1>1, <2>2, CallStep DEF ClaimQuota
  <2> QED BY <2>1, <2>2
<1>2. CASE AskStock(r)
  <2>1. CASE published /\ clock = Clock.open
    BY <1>2, <2>1, CallStep DEF AskStock
  <2>2. CASE ~(published /\ clock = Clock.open)
    BY <1>2, <2>2, CallStep DEF AskStock
  <2> QED BY <2>1, <2>2
<1>3. CASE TakeStock(r)
  <2>0. published
    BY <1>0, <1>3 DEF TakeStock, Goto
  <2>1. CASE saleStock >= Qty[r]
    BY <1>3, <2>0, <2>1, CallStep DEF TakeStock
  <2>2. CASE ~(saleStock >= Qty[r])
    BY <1>3, <2>2, CallStep DEF TakeStock
  <2> QED BY <2>1, <2>2
<1>4. CASE Refuse(r)
  BY <1>4, CallStep DEF Refuse, GiveQuota
<1>5. CASE CreateOrder(r)
  <2>0. published
    BY <1>0, <1>5 DEF CreateOrder, Goto
  <2>1. CASE KeyTaken(r)
    BY <1>5, <2>0, <2>1, CallStep DEF CreateOrder
  <2>2. CASE ~KeyTaken(r)
    BY <1>5, <2>0, <2>2, CallStep DEF CreateOrder
  <2> QED BY <2>1, <2>2
<1>6. CASE ReturnDuplicate(r)
  BY <1>6, CallStep DEF ReturnDuplicate, GiveStock
<1>7. CASE ReturnDuplicateQuota(r)
  BY <1>7, CallStep DEF ReturnDuplicateQuota, GiveQuota
<1>8. ASSUME NEW to, Decide(r, to) PROVE SaleInv'
  <2>0. published
    BY <1>0, <1>8 DEF Decide, Goto
  <2>1. CASE to = "paid"
    BY <1>8, <2>0, <2>1, CallStep DEF Decide
  <2>2. CASE to = "returning"
    BY <1>8, <2>0, <2>2, CallStep DEF Decide
  <2> QED BY <1>8, <2>1, <2>2 DEF Decide
<1>9. CASE ReleaseStock(r)
  BY <1>9, CallStep DEF ReleaseStock, GiveStock
<1>10. CASE ReleaseQuota(r)
  BY <1>10, CallStep DEF ReleaseQuota, GiveQuota
<1>11. CASE Dies(r)
  <2>1. /\ UNCHANGED << skuStock, saleStock, quota, published, settled, clock,
                        phase, settling, direct, missed >>
        /\ dead' \in SUBSET Requests
    BY <1>11 DEF Dies, SaleInv, SaleTypeOK
  <2>2. HoldingStock' = HoldingStock /\ \A u : HoldingQuota(u)' = HoldingQuota(u)
    BY <2>1 DEF HoldingStock, HoldingQuota
  <2> QED BY <2>1, <2>2, PrimedParts
          DEF SaleInv, SaleTypeOK, UnitsAccounted, QuotaKept, WithinAllocation
<1> QED BY <1>1, <1>2, <1>3, <1>4, <1>5, <1>6, <1>7, <1>8, <1>9, <1>10, <1>11
        DEF Purchase

LEMMA EventKeepsInv ==
  ASSUME SaleInv, Publish \/ Settlement \/ DirectSale \/ Tick \/ UNCHANGED saleVars
  PROVE  SaleInv'
<1>1. /\ phase' = phase /\ quota' = quota
      /\ HoldingStock' = HoldingStock /\ \A u : HoldingQuota(u)' = HoldingQuota(u)
  BY DEF Publish, Settlement, SettleRead, SettleReturn, SettleDies, DirectSale, Tick,
         saleVars, HoldingStock, HoldingQuota
<1>2. QuotaKept'
  BY <1>1, PrimedParts DEF SaleInv, QuotaKept
<1>3. UnitsOf(HoldingStock) \in Nat
  BY SaleUnitsNat DEF HoldingStock
<1>4. SaleTypeOK /\ UnitsAccounted /\ UnpublishedIsEmpty /\ WithinAllocation
  BY DEF SaleInv
<1> SUFFICES SaleTypeOK' /\ UnitsAccounted' /\ UnpublishedIsEmpty' /\ WithinAllocation'
  BY <1>2 DEF SaleInv
<1>5. CASE Publish
  <2>1. saleStock = 0 /\ HoldingStock = {}
    BY <1>4, <1>5 DEF Publish, UnpublishedIsEmpty, HoldingStock
  <2>2. UnitsOf({}) = 0
    BY FS_EmptySet DEF UnitsOf
  <2> QED BY <1>1, <1>4, <1>5, <2>1, <2>2, PrimedParts
          DEF Publish, SaleTypeOK, UnitsAccounted, UnpublishedIsEmpty, WithinAllocation
<1>6. CASE SettleRead \/ SettleDies
  BY <1>1, <1>3, <1>4, <1>6, PrimedParts
     DEF SettleRead, SettleDies, SaleTypeOK, UnitsAccounted, UnpublishedIsEmpty,
         WithinAllocation
<1>7. CASE SettleReturn
  <2>1. settling \in Nat /\ saleStock \in Nat /\ skuStock \in Nat /\ missed \in Int /\ direct \in Nat
    BY <1>4, <1>7 DEF SettleReturn, SaleTypeOK
  <2>2. /\ saleStock' \in Nat /\ saleStock' <= saleStock
        /\ skuStock' \in Nat /\ missed' \in Int
        /\ skuStock' + saleStock' + missed' = skuStock + saleStock + missed
    BY <1>7, <2>1 DEF SettleReturn
  <2>3. published /\ published' /\ settled' /\ direct' = direct /\ clock' = clock /\ dead' = dead
        /\ settling' = NoSettlement
    BY <1>4, <1>7 DEF SettleReturn, UnpublishedIsEmpty, SaleTypeOK
  <2>4. SaleTypeOK'
    BY <1>1, <1>4, <1>7, <2>2, <2>3 DEF SaleTypeOK, SettleReturn
  <2>5. UnitsAccounted'
    <3>1. skuStock + saleStock + UnitsOf(HoldingStock) + direct + missed = Total
      BY <1>4 DEF UnitsAccounted
    <3>2. CASE settling > 0
      <4>1. /\ skuStock' = skuStock + settling /\ saleStock' = 0
            /\ missed' = missed + saleStock - settling
        BY <1>7, <3>2 DEF SettleReturn
      <4> QED BY <1>1, <1>3, <2>1, <2>3, <3>1, <4>1, PrimedParts
    <3>3. CASE ~(settling > 0)
      <4>1. skuStock' = skuStock /\ saleStock' = saleStock /\ missed' = missed
        BY <1>7, <2>1, <3>3 DEF SettleReturn
      <4> QED BY <1>1, <1>3, <2>1, <2>3, <3>1, <4>1, PrimedParts
    <3> QED BY <3>2, <3>3
  <2>6. WithinAllocation'
    BY <1>1, <1>3, <1>4, <2>1, <2>2, <2>3, PrimedParts DEF WithinAllocation
  <2> QED BY <2>3, <2>4, <2>5, <2>6 DEF UnpublishedIsEmpty
<1>8. CASE DirectSale
  BY <1>1, <1>3, <1>4, <1>8, PrimedParts
     DEF DirectSale, SaleTypeOK, UnitsAccounted, UnpublishedIsEmpty, WithinAllocation
<1>9. CASE Tick
  BY <1>1, <1>3, <1>4, <1>9, PrimedParts
     DEF Tick, Clock, SaleTypeOK, UnitsAccounted, UnpublishedIsEmpty, WithinAllocation
<1>10. CASE UNCHANGED saleVars
  BY <1>1, <1>3, <1>4, <1>10, PrimedParts
     DEF saleVars, SaleTypeOK, UnitsAccounted, UnpublishedIsEmpty, WithinAllocation
<1> QED BY <1>5, <1>6, <1>7, <1>8, <1>9, <1>10 DEF Settlement

\* SaleInv is an invariant, for any buyers, calls, limits and amounts.
THEOREM SaleInvariant == SaleSpec => []SaleInv
<1>1. SaleInit => SaleInv
  BY SaleStart
<1>2. SaleInv /\ [SaleNext]_saleVars => SaleInv'
  BY PurchaseKeepsInv, EventKeepsInv DEF SaleNext
<1> QED BY <1>1, <1>2, PTL DEF SaleSpec

\* Types: in particular no buyer holds more than per_user_limit and neither
\* stock goes below zero (order.repository.ts claimUserQuota, decrementSaleEventStock).
THEOREM SaleTypes == SaleSpec => []SaleTypeOK
<1>1. SaleInv => SaleTypeOK
  BY DEF SaleInv
<1> QED BY <1>1, SaleInvariant, PTL

\* However many calls of a buyer race, what they hold together stays within the
\* limit (order.repository.ts claimUserQuota).
THEOREM LimitIsKept == SaleSpec => []LimitKept
<1>1. SaleInv => LimitKept
  BY DEF SaleInv, SaleTypeOK, QuotaKept, LimitKept
<1> QED BY <1>1, SaleInvariant, PTL

\* Units are in product_skus, in the event, with one purchase or sold directly,
\* but for those that settleEnded overwrote.
THEOREM UnitsAreAccounted == SaleSpec => []UnitsAccounted
<1>1. SaleInv => UnitsAccounted
  BY DEF SaleInv
<1> QED BY <1>1, SaleInvariant, PTL

\* Orders of an event never take more than was cut out for it
\* (sale-event.repository.ts publish).
THEOREM EventIsNotOversold == SaleSpec => []EventNotOversold
<1>1. SaleInv => EventNotOversold
  <2> SUFFICES ASSUME SaleInv PROVE UnitsOf(HoldingStock) <= Allocated
    BY DEF EventNotOversold
  <2>1. UnitsOf(HoldingStock) \in Nat
    BY SaleUnitsNat DEF HoldingStock
  <2>2. CASE published
    BY <2>1, <2>2 DEF SaleInv, SaleTypeOK, WithinAllocation
  <2>3. CASE ~published
    <3>1. HoldingStock = {}
      BY <2>3 DEF SaleInv, UnpublishedIsEmpty, HoldingStock
    <3>2. UnitsOf({}) = 0
      BY FS_EmptySet DEF UnitsOf
    <3> QED BY <3>1, <3>2
  <2> QED BY <2>2, <2>3 DEF SaleInv, SaleTypeOK
<1> QED BY <1>1, SaleInvariant, PTL

-----------------------------------------------------------------------------
(* The ledger of a buyer's quota. *)

\* What a call holds after it went on.
LEMMA HoldMoves ==
  ASSUME phase \in [Requests -> Phases],
         NEW r \in Requests, NEW from, NEW to, Goto(r, from, to), UNCHANGED dead,
         NEW q \in Requests
  PROVE  QuotaHold(q)' = IF q # r THEN QuotaHold(q)
                         ELSE IF to \notin QuotaPhases THEN "none"
                         ELSE IF to = "paid" THEN "sold" ELSE "held"
<1>1. phase[r] = from /\ phase' = [phase EXCEPT ![r] = to] /\ r \notin dead
  BY DEF Goto
<1> QED BY <1>1 DEF QuotaHold

HoldOfBuyer(u) == [ r \in { q \in Requests : User[q] = u } |-> QuotaHold(r) ]

\* One buyer's ledger takes, gives back or settles, or does not notice.
LEMMA QuotaLedgerStep ==
  ASSUME NEW u \in Users,
         \/ UNCHANGED << quota, HoldOfBuyer(u) >>
         \/ \E r \in Requests :
              /\ User[r] = u
              /\ \/ /\ QuotaHold(r) = "none" /\ Limit - quota[u] >= Qty[r]
                    /\ HoldOfBuyer(u)' = [HoldOfBuyer(u) EXCEPT ![r] = "held"]
                    /\ Limit - quota'[u] = Limit - quota[u] - Qty[r]
                 \/ /\ QuotaHold(r) = "held"
                    /\ HoldOfBuyer(u)' = [HoldOfBuyer(u) EXCEPT ![r] = "none"]
                    /\ Limit - quota'[u] = Limit - quota[u] + Qty[r]
                 \/ /\ QuotaHold(r) = "held"
                    /\ \E end \in {"sold", "lost"} :
                         HoldOfBuyer(u)' = [HoldOfBuyer(u) EXCEPT ![r] = end]
                    /\ Limit - quota'[u] = Limit - quota[u]
  PROVE  [Quota(u)!LedgerNext]_(Quota(u)!ledgerVars)
BY DEF Quota!LedgerNext, Quota!ledgerVars, Quota!Take, Quota!GiveBack, Quota!Settle, HoldOfBuyer

\* The step of a call is a step of its buyer's ledger and of no other.
LEMMA CallInLedger ==
  ASSUME SaleTypeOK, NEW u \in Users, NEW r \in Requests, NEW from, NEW to,
         Goto(r, from, to), UNCHANGED dead,
         \/ /\ from \notin QuotaPhases /\ to \in QuotaPhases \ {"paid"}
            /\ MayClaim(r)
            /\ quota' = [quota EXCEPT ![User[r]] = @ + Qty[r]]
         \/ /\ from \in QuotaPhases \ {"paid"} /\ to \notin QuotaPhases
            /\ quota' = [quota EXCEPT ![User[r]] = @ - Qty[r]]
         \/ /\ from \in QuotaPhases \ {"paid"} /\ to \in QuotaPhases
            /\ quota' = quota
         \/ /\ from \notin QuotaPhases /\ to \notin QuotaPhases
            /\ quota' = quota
  PROVE  [Quota(u)!LedgerNext]_(Quota(u)!ledgerVars)
<1> DEFINE new == IF to \notin QuotaPhases THEN "none"
                  ELSE IF to = "paid" THEN "sold" ELSE "held"
           old == IF from \notin QuotaPhases THEN "none" ELSE "held"
<1>1. \A q \in Requests : QuotaHold(q)' = IF q # r THEN QuotaHold(q) ELSE new
  BY HoldMoves DEF SaleTypeOK
<1>2. from # "paid" => QuotaHold(r) = old
  BY DEF QuotaHold, Goto
<1>3. /\ quota \in [Users -> Int] /\ Limit \in Int /\ Qty[r] \in Int
      /\ User[r] \in Users
  BY DEF SaleTypeOK
<1>4. HoldOfBuyer(u)' = [ q \in { x \in Requests : User[x] = u } |-> QuotaHold(q)' ]
  BY DEF HoldOfBuyer
<1>5. CASE User[r] # u
  <2>1. HoldOfBuyer(u)' = HoldOfBuyer(u)
    BY <1>1, <1>4, <1>5 DEF HoldOfBuyer
  <2>2. quota'[u] = quota[u]
    BY <1>3, <1>5
  <2> QED BY <2>1, <2>2 DEF Quota!ledgerVars, HoldOfBuyer
<1>6. CASE User[r] = u
  <2>1. HoldOfBuyer(u)' = [HoldOfBuyer(u) EXCEPT ![r] = new]
    BY <1>1, <1>4, <1>6 DEF HoldOfBuyer
  <2>2. CASE from \notin QuotaPhases /\ to \in QuotaPhases \ {"paid"}
    <3>1. /\ quota' = [quota EXCEPT ![u] = @ + Qty[r]] /\ quota[u] + Qty[r] <= Limit
      BY <1>6, <2>2 DEF MayClaim
    <3>2. QuotaHold(r) = "none" /\ new = "held"
      BY <1>2, <2>2 DEF QuotaPhases, StockPhases
    <3>3. Limit - quota[u] >= Qty[r] /\ Limit - quota'[u] = Limit - quota[u] - Qty[r]
      BY <1>3, <3>1
    <3> HIDE DEF new
    <3> QED BY <1>6, <2>1, <3>2, <3>3, QuotaLedgerStep
  <2>3. CASE from \in QuotaPhases \ {"paid"} /\ to \notin QuotaPhases
    <3>1. quota' = [quota EXCEPT ![u] = @ - Qty[r]]
      BY <1>6, <2>3
    <3>2. QuotaHold(r) = "held" /\ new = "none"
      BY <1>2, <2>3
    <3>3. Limit - quota'[u] = Limit - quota[u] + Qty[r]
      BY <1>3, <3>1
    <3> HIDE DEF new
    <3> QED BY <1>6, <2>1, <3>2, <3>3, QuotaLedgerStep
  <2>4. CASE from \in QuotaPhases \ {"paid"} /\ to \in QuotaPhases /\ quota' = quota
    <3>1. QuotaHold(r) = "held"
      BY <1>2, <2>4
    <3>2. CASE to = "paid"
      <4>1. new = "sold"
        BY <2>4, <3>2
      <4> HIDE DEF new
      <4> QED BY <1>6, <2>1, <2>4, <3>1, <4>1, QuotaLedgerStep
    <3>3. CASE to # "paid"
      <4>1. new = "held"
        BY <2>4, <3>3
      <4>2. HoldOfBuyer(u)' = HoldOfBuyer(u)
        BY <1>6, <2>1, <3>1, <4>1 DEF HoldOfBuyer
      <4> QED BY <2>4, <4>2, QuotaLedgerStep
    <3> QED BY <3>2, <3>3
  <2>5. CASE from \notin QuotaPhases /\ to \notin QuotaPhases /\ quota' = quota
    <3>1. QuotaHold(r) = "none" /\ new = "none"
      BY <1>2, <2>5 DEF QuotaPhases, StockPhases
    <3>2. HoldOfBuyer(u)' = HoldOfBuyer(u)
      BY <1>6, <2>1, <3>1 DEF HoldOfBuyer
    <3> QED BY <2>5, <3>2, QuotaLedgerStep
  <2> QED BY <2>2, <2>3, <2>4, <2>5
<1> QED BY <1>5, <1>6

LEMMA PurchaseInLedger ==
  ASSUME SaleTypeOK, NEW u \in Users, NEW r \in Requests, Purchase(r)
  PROVE  [Quota(u)!LedgerNext]_(Quota(u)!ledgerVars)
<1> USE DEF QuotaPhases, StockPhases
<1>1. CASE ClaimQuota(r)
  <2>1. CASE MayClaim(r)
    BY <1>1, <2>1, CallInLedger DEF ClaimQuota
  <2>2. CASE ~MayClaim(r)
    BY <1>1, <2>2, CallInLedger DEF ClaimQuota
  <2> QED BY <2>1, <2>2
<1>2. CASE AskStock(r)
  <2>1. CASE published /\ clock = Clock.open
    BY <1>2, <2>1, CallInLedger DEF AskStock
  <2>2. CASE ~(published /\ clock = Clock.open)
    BY <1>2, <2>2, CallInLedger DEF AskStock
  <2> QED BY <2>1, <2>2
<1>3. CASE TakeStock(r)
  <2>1. CASE saleStock >= Qty[r]
    BY <1>3, <2>1, CallInLedger DEF TakeStock
  <2>2. CASE ~(saleStock >= Qty[r])
    BY <1>3, <2>2, CallInLedger DEF TakeStock
  <2> QED BY <2>1, <2>2
<1>4. CASE Refuse(r)
  BY <1>4, CallInLedger DEF Refuse, GiveQuota
<1>5. CASE CreateOrder(r)
  <2>1. CASE KeyTaken(r)
    BY <1>5, <2>1, CallInLedger DEF CreateOrder
  <2>2. CASE ~KeyTaken(r)
    BY <1>5, <2>2, CallInLedger DEF CreateOrder
  <2> QED BY <2>1, <2>2
<1>6. CASE ReturnDuplicate(r)
  BY <1>6, CallInLedger DEF ReturnDuplicate
<1>7. CASE ReturnDuplicateQuota(r)
  BY <1>7, CallInLedger DEF ReturnDuplicateQuota, GiveQuota
<1>8. ASSUME NEW to, Decide(r, to) PROVE [Quota(u)!LedgerNext]_(Quota(u)!ledgerVars)
  BY <1>8, CallInLedger DEF Decide
<1>9. CASE ReleaseStock(r)
  BY <1>9, CallInLedger DEF ReleaseStock
<1>10. CASE ReleaseQuota(r)
  BY <1>10, CallInLedger DEF ReleaseQuota, GiveQuota
<1>11. CASE Dies(r)
  <2>1. /\ quota' = quota /\ phase' = phase /\ dead' = dead \union {r} /\ r \notin dead
        /\ phase[r] \in QuotaPhases \ {"pending", "paid"}
    BY <1>11 DEF Dies
  <2>2. QuotaHold(r) = "held"
    BY <2>1 DEF QuotaHold
  <2>3. \A q \in Requests : QuotaHold(q)' = IF q = r THEN "lost" ELSE QuotaHold(q)
    BY <2>1 DEF QuotaHold
  <2>4. HoldOfBuyer(u)' = [ q \in { x \in Requests : User[x] = u } |-> QuotaHold(q)' ]
    BY DEF HoldOfBuyer
  <2>5. CASE User[r] # u
    <3>1. HoldOfBuyer(u)' = HoldOfBuyer(u)
      BY <2>3, <2>4, <2>5 DEF HoldOfBuyer
    <3> QED BY <2>1, <3>1, QuotaLedgerStep
  <2>6. CASE User[r] = u
    <3>1. HoldOfBuyer(u)' = [HoldOfBuyer(u) EXCEPT ![r] = "lost"]
      BY <2>3, <2>4, <2>6 DEF HoldOfBuyer
    <3> QED BY <2>1, <2>2, <2>6, <3>1, QuotaLedgerStep
  <2> QED BY <2>5, <2>6
<1> QED BY <1>1, <1>2, <1>3, <1>4, <1>5, <1>6, <1>7, <1>8, <1>9, <1>10, <1>11
        DEF Purchase

\* The quota of every buyer is a ledger of its own: what its purchases hold of
\* it is what they took, and comes back once (order.repository.ts claimUserQuota,
\* releaseUserQuota).
THEOREM QuotaIsKept == SaleSpec => KeepsQuota
<1>1. SaleInit => \A u \in Users : Quota(u)!LedgerInit
  <2> SUFFICES ASSUME SaleInit, NEW u \in Users PROVE Quota(u)!LedgerInit
    OBVIOUS
  <2> QED BY DEF Quota!LedgerInit, SaleInit, QuotaHold, QuotaPhases, StockPhases
<1>2. SaleTypeOK /\ [SaleNext]_saleVars =>
        [\A u \in Users : [Quota(u)!LedgerNext]_(Quota(u)!ledgerVars)]_saleVars
  <2> SUFFICES ASSUME SaleTypeOK, SaleNext, NEW u \in Users
               PROVE  [Quota(u)!LedgerNext]_(Quota(u)!ledgerVars)
    OBVIOUS
  <2>1. CASE Publish \/ Settlement \/ DirectSale \/ Tick
    <3>1. UNCHANGED << quota, phase, dead >>
      BY <2>1 DEF Publish, Settlement, SettleRead, SettleReturn, SettleDies, DirectSale, Tick
    <3>2. HoldOfBuyer(u)' = HoldOfBuyer(u)
      BY <3>1 DEF HoldOfBuyer, QuotaHold
    <3> QED BY <3>1, <3>2, QuotaLedgerStep
  <2> QED BY <2>1, PurchaseInLedger DEF SaleNext
<1> QED BY <1>1, <1>2, SaleTypes, PTL DEF SaleSpec, KeepsQuota
=============================================================================
