------------------------------ MODULE SaleEvent ------------------------------
(***************************************************************************)
(* One SKU of one sale event.  Publishing cuts the event's units out of    *)
(* product_skus, buyers take them under a limit per buyer, and settling    *)
(* returns what is left when the event has ended.                          *)
(*                                                                         *)
(* A purchase claims the buyer's quota and then the units in two           *)
(* statements, and each of its failures and each cancellation gives both   *)
(* back in two more; a process may die between any two.  How the three     *)
(* cancellation paths race for an order is the subject of OrderFlow: here  *)
(* the one that wins is a step.                                            *)
(***************************************************************************)
EXTENDS Integers, FiniteSets

CONSTANTS
  Requests,   \* POST /orders calls with a saleEventSkuId
  Users, Keys,
  User, Key, Qty, \* of each request
  MaxQuantity,
  Limit,      \* per_user_limit
  Allocated,  \* allocated_stock
  Total,      \* product_skus.stock at the start
  MaxDirect,  \* bound on the units sold outside of the event
  MaxDeaths   \* bound on the processes that die

ASSUME SaleAssumption ==
  /\ IsFiniteSet(Requests)
  /\ User \in [Requests -> Users]
  /\ Key \in [Requests -> Keys]
  /\ MaxQuantity \in Nat
  /\ Qty \in [Requests -> 1..MaxQuantity]
  /\ Limit \in Nat
  /\ Allocated \in Nat \ {0}
  /\ Total \in Nat
  /\ MaxDirect \in Nat
  /\ MaxDeaths \in Nat

VARIABLES
  skuStock,   \* product_skus.stock
  saleStock,  \* sale_event_skus.stock
  quota,      \* quota[u]: sale_event_purchases.quantity
  published,  \* sale_events.is_published
  settled,    \* sale_events.is_settled
  clock,      \* now() of PostgreSQL against starts_at and ends_at
  phase,      \* phase[r]: how far r's purchase, and its order, have come
  settling,   \* units the running settlement has read; NoSettlement if none
  direct,     \* history: units sold outside of the event
  missed,     \* history: net units settlements overwrote
  dead        \* history: requests whose process died on them

saleVars == << skuStock, saleStock, quota, published, settled, clock, phase,
               settling, direct, missed, dead >>

NoSettlement == -1

Clock == [ before |-> 0, open |-> 1, ended |-> 2 ]

\* Phases in which r has its units out of sale_event_skus.
StockPhases == { "reserved", "duplicate", "pending", "paid", "returning" }

\* Phases in which r's quantity counts in sale_event_purchases.
QuotaPhases == StockPhases \union
  { "claimed", "asking", "missed", "duplicate_quota", "returning_quota" }

Phases == QuotaPhases \union { "idle", "refused", "answered_200", "cancelled" }

\* Types; no buyer ever holds more than per_user_limit, and neither stock nor
\* quota goes below zero.
SaleTypeOK ==
  /\ skuStock \in Nat
  /\ saleStock \in Nat
  /\ quota \in [Users -> 0..Limit]
  /\ published \in BOOLEAN
  /\ settled \in BOOLEAN
  /\ clock \in 0..2
  /\ phase \in [Requests -> Phases]
  /\ settling \in Nat \union {NoSettlement}
  /\ direct \in 0..MaxDirect
  /\ missed \in Int
  /\ dead \in SUBSET Requests

SaleInit ==
  /\ skuStock = Total
  /\ saleStock = 0
  /\ quota = [u \in Users |-> 0]
  /\ published = FALSE
  /\ settled = FALSE
  /\ clock = Clock.before
  /\ phase = [r \in Requests |-> "idle"]
  /\ settling = NoSettlement
  /\ direct = 0
  /\ missed = 0
  /\ dead = {}

-----------------------------------------------------------------------------
(* The life of the event.                                                  *)

\* The flag and the units in one transaction, or AllocationFailed and nothing.
\* Where the SKU is not active the code fails and the model may go on: what is
\* proved covers both.
Publish ==
  /\ ~published
  /\ skuStock >= Allocated
  /\ published' = TRUE
  /\ skuStock' = skuStock - Allocated
  /\ saleStock' = Allocated
  /\ UNCHANGED << quota, settled, clock, phase, settling, direct, missed, dead >>

\* settleEnded up to its SELECT.  The flag is set but not committed: another
\* settlement waits for it.
SettleReadWhenDecided ==
  /\ published /\ ~settled /\ clock = Clock.ended
  /\ settling = NoSettlement
  /\ \A r \in Requests : phase[r] # "pending"
  /\ settling' = saleStock
  /\ UNCHANGED << skuStock, saleStock, quota, published, settled, clock, phase,
                  direct, missed, dead >>

SettleRead ==
  /\ published /\ ~settled /\ clock = Clock.ended
  /\ settling = NoSettlement
  /\ settling' = saleStock
  /\ UNCHANGED << skuStock, saleStock, quota, published, settled, clock, phase,
                  direct, missed, dead >>

\* Its two UPDATEs per row that had units left, and the commit: what was read
\* goes to product_skus, and the row is set to 0 whatever it holds by now.
SettleReturn ==
  /\ settling # NoSettlement
  /\ settled' = TRUE
  /\ skuStock' = skuStock + settling
  /\ saleStock' = IF settling > 0 THEN 0 ELSE saleStock
  /\ missed' = IF settling > 0 THEN missed + saleStock - settling ELSE missed
  /\ settling' = NoSettlement
  /\ UNCHANGED << quota, published, clock, phase, direct, dead >>

\* The transaction rolls back; the settler comes back in five minutes.
SettleDies ==
  /\ settling # NoSettlement
  /\ settling' = NoSettlement
  /\ UNCHANGED << skuStock, saleStock, quota, published, settled, clock, phase,
                  direct, missed, dead >>

\* A direct order of OrderFlow takes a unit of the same SKU.
DirectSale ==
  /\ skuStock > 0 /\ direct < MaxDirect
  /\ skuStock' = skuStock - 1
  /\ direct' = direct + 1
  /\ UNCHANGED << saleStock, quota, published, settled, clock, phase, settling,
                  missed, dead >>

Tick ==
  /\ clock < Clock.ended
  /\ clock' = clock + 1
  /\ UNCHANGED << skuStock, saleStock, quota, published, settled, phase,
                  settling, direct, missed, dead >>

-----------------------------------------------------------------------------
(* A purchase: OrderService.placeSaleEventOrder and finishOrder.           *)

Goto(r, from, to) ==
  /\ r \notin dead
  /\ phase[r] = from
  /\ phase' = [phase EXCEPT ![r] = to]

GiveQuota(r)  == quota' = [quota EXCEPT ![User[r]] = @ - Qty[r]]
GiveStock(r)  == saleStock' = saleStock + Qty[r]

\* claimUserQuota: one upsert with the limit in its condition.
MayClaim(r) == quota[User[r]] + Qty[r] <= Limit

ClaimQuota(r) ==
  /\ IF MayClaim(r)
     THEN /\ Goto(r, "idle", "claimed")
          /\ quota' = [quota EXCEPT ![User[r]] = @ + Qty[r]]
     ELSE /\ Goto(r, "idle", "refused")
          /\ UNCHANGED quota
  /\ UNCHANGED << skuStock, saleStock, published, settled, clock, settling,
                  direct, missed, dead >>

\* decrementSaleEventStock begins: the event's row and now() are those of the
\* statement's start, though it may then wait for the lock on the stock row.
AskStock(r) ==
  /\ Goto(r, "claimed", IF published /\ clock = Clock.open THEN "asking" ELSE "missed")
  /\ UNCHANGED << skuStock, saleStock, quota, published, settled, clock,
                  settling, direct, missed, dead >>

\* It ends: the stock condition is evaluated on the row's latest version.
TakeStock(r) ==
  /\ IF saleStock >= Qty[r]
     THEN /\ Goto(r, "asking", "reserved")
          /\ saleStock' = saleStock - Qty[r]
     ELSE /\ Goto(r, "asking", "missed")
          /\ UNCHANGED saleStock
  /\ UNCHANGED << skuStock, quota, published, settled, clock, settling,
                  direct, missed, dead >>

\* No units: the quota goes back, then diagnoseSaleEventSku names the reason.
Refuse(r) ==
  /\ Goto(r, "missed", "refused")
  /\ GiveQuota(r)
  /\ UNCHANGED << skuStock, saleStock, published, settled, clock, settling,
                  direct, missed, dead >>

KeyTaken(r) ==
  \E q \in Requests :
    /\ User[q] = User[r] /\ Key[q] = Key[r]
    /\ phase[q] \in { "pending", "paid", "returning", "returning_quota", "cancelled" }

CreateOrder(r) ==
  /\ Goto(r, "reserved", IF KeyTaken(r) THEN "duplicate" ELSE "pending")
  /\ UNCHANGED << skuStock, saleStock, quota, published, settled, clock,
                  settling, direct, missed, dead >>

\* onDuplicate: the units, then the quota.
ReturnDuplicate(r) ==
  /\ Goto(r, "duplicate", "duplicate_quota")
  /\ GiveStock(r)
  /\ UNCHANGED << skuStock, quota, published, settled, clock, settling,
                  direct, missed, dead >>

ReturnDuplicateQuotaForgotten(r) ==
  /\ Goto(r, "duplicate_quota", "answered_200")
  /\ UNCHANGED << skuStock, saleStock, quota, published, settled, clock,
                  settling, direct, missed, dead >>

ReturnDuplicateQuota(r) ==
  /\ Goto(r, "duplicate_quota", "answered_200")
  /\ GiveQuota(r)
  /\ UNCHANGED << skuStock, saleStock, published, settled, clock, settling,
                  direct, missed, dead >>

\* markPaid, or cancelPendingOrder along any of its paths, also when the event
\* is over.
Decide(r, to) ==
  /\ to \in { "paid", "returning" }
  /\ Goto(r, "pending", to)
  /\ UNCHANGED << skuStock, saleStock, quota, published, settled, clock,
                  settling, direct, missed, dead >>

\* releaseStock: the units to the event's row, then the quota.
ReleaseStockToSku(r) ==
  /\ Goto(r, "returning", "returning_quota")
  /\ skuStock' = skuStock + Qty[r]
  /\ GiveStock(r)
  /\ UNCHANGED << quota, published, settled, clock, settling, direct, missed, dead >>

ReleaseStockUnlessSettled(r) ==
  /\ ~settled
  /\ Goto(r, "returning", "returning_quota")
  /\ GiveStock(r)
  /\ UNCHANGED << skuStock, quota, published, settled, clock, settling,
                  direct, missed, dead >>

ReleaseStock(r) ==
  /\ Goto(r, "returning", "returning_quota")
  /\ GiveStock(r)
  /\ UNCHANGED << skuStock, quota, published, settled, clock, settling,
                  direct, missed, dead >>

ReleaseQuota(r) ==
  /\ Goto(r, "returning_quota", "cancelled")
  /\ GiveQuota(r)
  /\ UNCHANGED << skuStock, saleStock, published, settled, clock, settling,
                  direct, missed, dead >>

\* The process that works on r dies, or its next statement throws: what r
\* holds then nobody gives back.
Dies(r) ==
  /\ Cardinality(dead) < MaxDeaths
  /\ r \notin dead
  /\ phase[r] \in QuotaPhases \ { "pending", "paid" }
  /\ dead' = dead \union {r}
  /\ UNCHANGED << skuStock, saleStock, quota, published, settled, clock, phase,
                  settling, direct, missed >>

-----------------------------------------------------------------------------
Purchase(r) ==
  \/ ClaimQuota(r) \/ AskStock(r) \/ TakeStock(r) \/ Refuse(r)
  \/ CreateOrder(r) \/ ReturnDuplicate(r) \/ ReturnDuplicateQuota(r)
  \/ Decide(r, "paid") \/ Decide(r, "returning")
  \/ ReleaseStock(r) \/ ReleaseQuota(r) \/ Dies(r)

Settlement == SettleRead \/ SettleReturn \/ SettleDies

SaleNext ==
  \/ Publish \/ Settlement \/ DirectSale \/ Tick
  \/ \E r \in Requests : Purchase(r)

SaleSpec == SaleInit /\ [][SaleNext]_saleVars

\* The settler comes back until a settlement of its gets through, and a
\* handler that gives something back goes on.
SaleFairness ==
  /\ WF_saleVars(SettleRead)
  /\ SF_saleVars(SettleReturn)
  /\ \A r \in Requests :
       WF_saleVars(Refuse(r) \/ ReturnDuplicate(r) \/ ReturnDuplicateQuota(r)
                   \/ ReleaseStock(r) \/ ReleaseQuota(r))

FairSaleSpec == SaleSpec /\ SaleFairness

-----------------------------------------------------------------------------
QuotaHold(r) ==
  IF phase[r] \notin QuotaPhases THEN "none"
  ELSE IF r \in dead THEN "lost"
  ELSE IF phase[r] = "paid" THEN "sold"
  ELSE "held"

\* The quota of u is a ledger of Limit units, sale_event_purchases.quantity
\* being what is taken out of it.
Quota(u) == INSTANCE StockLedger WITH
  Claims <- { r \in Requests : User[r] = u },
  Amount <- [ r \in { q \in Requests : User[q] = u } |-> Qty[r] ],
  MaxAmount <- MaxQuantity,
  Total <- Limit,
  free <- Limit - quota[u],
  hold <- [ r \in { q \in Requests : User[q] = u } |-> QuotaHold(r) ]

\* The units of the requests in S, numbered as in StockLedger.
UnitsOf(S) ==
  Cardinality({ u \in Requests \X (1..MaxQuantity) : u[1] \in S /\ u[2] <= Qty[u[1]] })

HoldingStock == { r \in Requests : phase[r] \in StockPhases }

\* What a buyer's purchases hold of the quota.
HoldingQuota(u) == { r \in Requests : User[r] = u /\ phase[r] \in QuotaPhases }

\* No buyer has more units than per_user_limit in orders and in purchases under
\* way, however many clicks race: what counts are the units themselves and not
\* only the number that the row keeps of them.
LimitKept == \A u \in Users : UnitsOf(HoldingQuota(u)) <= Limit

\* A buyer's quota is exactly what the buyer's purchases hold of it: however
\* many clicks race, no buyer goes over the limit, and whatever fails or is
\* cancelled gives the quota back once.
KeepsQuota ==
  /\ \A u \in Users : Quota(u)!LedgerInit
  /\ [][\A u \in Users : [Quota(u)!LedgerNext]_(Quota(u)!ledgerVars)]_saleVars

\* Every unit is in product_skus, in the event, with one purchase, or sold
\* directly, but for those that a settlement overwrote.
UnitsAccounted ==
  skuStock + saleStock + UnitsOf(HoldingStock) + direct + missed = Total

\* Orders of the event never take more units than were cut out for it.
EventNotOversold == UnitsOf(HoldingStock) <= Allocated

\* An event that was published and has ended is settled, though settlements
\* fail on the way.
EndedIsSettled == published /\ clock = Clock.ended ~> settled

\* Whoever was refused, repeated a key or cancelled can buy again: both halves
\* of what the purchase held come back, in every order of the steps.
NothingStaysHeld ==
  \A r \in Requests :
    phase[r] \in { "missed", "duplicate", "returning" }
      ~> r \in dead \/ phase[r] \notin QuotaPhases

-----------------------------------------------------------------------------
(* What the repository says of the program and the program does not do.    *)

\* "tổng tồn kho toàn hệ thống vẫn không đổi" (schema.prisma, SaleEventSku): no
\* settlement would make units or lose them.
UnitsConserved == missed = 0

\* The units that are left would not stay in sale_event_skus ("kẹt lại ở
\* sale_event_skus", sale-event.repository.ts) once the event is settled.
SettledIsEmpty == settled => saleStock = 0

=============================================================================
