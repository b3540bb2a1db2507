----------------------------- MODULE OrderProofs -----------------------------
(* For every set of requests, buyers, keys, quantities, handlers and bounds: *)
(* the invariants of OrderFlow, and that it implements StockLedger.  Then,   *)
(* for every set of intents, events and workers over it: what becomes of the *)
(* money, and that settling is only MarkPaid to the flow.                    *)
EXTENDS OrderPayments, TLAPS

USE RequestAssumption, BoundAssumption, NoOrderAssumption DEF MaxQuantity

(* How an order, its call and its cancellation hang together. *)
Links == PhaseMatchesOrder /\ OwedOnce /\ LostIsOver

(* What an Idempotency-Key guarantees. *)
Keyed == OneOrderPerKey /\ DuplicateFindsOrder

(* The initial state satisfies the inductive invariant. *)
LEMMA InitInv == Init => FlowInv
<1> SUFFICES ASSUME Init PROVE FlowInv
  OBVIOUS
<1> USE DEF Init
<1>1. TypeOK
  BY DEF TypeOK, Task, IdleTask, Phases, Statuses
<1>2. PhaseMatchesOrder /\ LostIsOver
  BY DEF PhaseMatchesOrder, LostIsOver
<1>3. OwedOnce
  BY DEF OwedOnce, IdleTask
<1>4. OneOrderPerKey /\ DuplicateFindsOrder
  BY DEF OneOrderPerKey, DuplicateFindsOrder
<1> QED BY <1>1, <1>2, <1>3, <1>4 DEF FlowInv

(* Every step keeps every variable in its type. *)
LEMMA TypeStep == TypeOK /\ [Next]_vars => TypeOK'
<1> SUFFICES ASSUME TypeOK, [Next]_vars PROVE TypeOK'
  OBVIOUS
<1> USE DEF TypeOK, Task, IdleTask, Phases, Statuses, clockVars, requestVars
<1>1. ASSUME NEW r \in Requests, Reserve(r) PROVE TypeOK'
  BY <1>1 DEF Reserve, Goto, CanReserve
<1>2. ASSUME NEW r \in Requests, ReserveRefused(r) PROVE TypeOK'
  BY <1>2 DEF ReserveRefused, Goto
<1>3. ASSUME NEW r \in Requests, DiagnoseRefusal(r) PROVE TypeOK'
  BY <1>3 DEF DiagnoseRefusal, Goto
<1>4. ASSUME NEW r \in Requests, CreateOrder(r) PROVE TypeOK'
  <2>1. appClock + Hold \in 0..(Horizon + Hold)
    OBVIOUS
  <2>2. expiresAt' \in [Requests -> 0..(Horizon + Hold)]
    BY <1>4, <2>1 DEF CreateOrder
  <2>3. /\ phase' \in [Requests -> Phases]
        /\ order' \in [Requests -> Statuses]
        /\ outbox' \in SUBSET Requests
    BY <1>4 DEF CreateOrder, Goto
  <2>4. UNCHANGED << stock, active, appClock, dbClock, jobs, task, lost, faults >>
    BY <1>4 DEF CreateOrder
  <2> QED BY <2>2, <2>3, <2>4
<1>5. ASSUME NEW r \in Requests, InsertThrows(r) PROVE TypeOK'
  BY <1>5 DEF InsertThrows, Goto
<1>6. ASSUME NEW r \in Requests, ReleaseDuplicate(r) PROVE TypeOK'
  BY <1>6 DEF ReleaseDuplicate, Goto
<1>7. ASSUME NEW r \in Requests, AnswerExisting(r) PROVE TypeOK'
  BY <1>7 DEF AnswerExisting, Goto
<1>8. ASSUME NEW r \in Requests, ScheduleExpiry(r) PROVE TypeOK'
  BY <1>8 DEF ScheduleExpiry, Goto
<1>9. ASSUME NEW r \in Requests, RequestDies(r) PROVE TypeOK'
  BY <1>9 DEF RequestDies
<1>10. ASSUME NEW c \in Cancellers, SweepSelects(c) PROVE TypeOK'
  BY <1>10 DEF SweepSelects, OldestOverdue, Overdue
<1>11. ASSUME NEW c \in Cancellers, ReleaseStock(c) PROVE TypeOK'
  BY <1>11 DEF ReleaseStock, DoneWith
<1>12. ASSUME NEW c \in Cancellers, CancellerDies(c) PROVE TypeOK'
  BY <1>12 DEF CancellerDies
<1>13. ASSUME NEW c \in Cancellers, NEW o \in Requests, JobFires(c, o) PROVE TypeOK'
  BY <1>13 DEF JobFires
<1>14. ASSUME NEW c \in Cancellers, NEW o \in Requests, CancelExpired(c, o) PROVE TypeOK'
  BY <1>14 DEF CancelExpired, CancelPendingOrder, DoneWith
<1>15. ASSUME NEW c \in Cancellers, NEW u \in Users, NEW o \in Requests, UserCancels(c, u, o) PROVE TypeOK'
  BY <1>15 DEF UserCancels, CancelPendingOrder
<1>16. ASSUME NEW o \in Requests, LoseJob(o) PROVE TypeOK'
  BY <1>16 DEF LoseJob
<1>17. CASE TickApp
  BY <1>17 DEF TickApp
<1>18. CASE TickDb
  BY <1>18 DEF TickDb
<1>19. CASE SetActive
  BY <1>19 DEF SetActive
<1>20. ASSUME NEW o \in Requests, MarkPaid(o) PROVE TypeOK'
  BY <1>20 DEF MarkPaid
<1>21. CASE UNCHANGED vars
  BY <1>21 DEF vars
<1> QED
  BY <1>1, <1>2, <1>3, <1>4, <1>5, <1>6, <1>7, <1>8, <1>9, <1>10, <1>11, <1>12, <1>13, <1>14, <1>15, <1>16, <1>17, <1>18, <1>19, <1>20, <1>21
  DEF Next, FlowNext, PlaceOrder, Cancel

(* Every step keeps the links: a cancellation starts to owe only an order it   *)
(* moved out of PENDING itself, which no other cancellation can owe then.      *)
LEMMA LinksStep == FlowInv /\ [Next]_vars => Links'
<1> SUFFICES ASSUME FlowInv, [Next]_vars PROVE Links'
  OBVIOUS
<1> USE DEF FlowInv, Links, TypeOK, Task, IdleTask, PhaseMatchesOrder, OwedOnce, LostIsOver, clockVars, requestVars
<1>1. ASSUME NEW r \in Requests, Reserve(r) PROVE Links'
  BY <1>1 DEF Reserve, Goto, CanReserve
<1>2. ASSUME NEW r \in Requests, ReserveRefused(r) PROVE Links'
  BY <1>2 DEF ReserveRefused, Goto
<1>3. ASSUME NEW r \in Requests, DiagnoseRefusal(r) PROVE Links'
  BY <1>3 DEF DiagnoseRefusal, Goto
<1>4. ASSUME NEW r \in Requests, CreateOrder(r) PROVE Links'
  BY <1>4 DEF CreateOrder, Goto
<1>5. ASSUME NEW r \in Requests, InsertThrows(r) PROVE Links'
  BY <1>5 DEF InsertThrows, Goto
<1>6. ASSUME NEW r \in Requests, ReleaseDuplicate(r) PROVE Links'
  BY <1>6 DEF ReleaseDuplicate, Goto
<1>7. ASSUME NEW r \in Requests, AnswerExisting(r) PROVE Links'
  BY <1>7 DEF AnswerExisting, Goto
<1>8. ASSUME NEW r \in Requests, ScheduleExpiry(r) PROVE Links'
  BY <1>8 DEF ScheduleExpiry, Goto
<1>9. ASSUME NEW r \in Requests, RequestDies(r) PROVE Links'
  BY <1>9 DEF RequestDies
<1>10. ASSUME NEW c \in Cancellers, SweepSelects(c) PROVE Links'
  BY <1>10 DEF SweepSelects, OldestOverdue, Overdue
<1>11. ASSUME NEW c \in Cancellers, ReleaseStock(c) PROVE Links'
  BY <1>11 DEF ReleaseStock, DoneWith
<1>12. ASSUME NEW c \in Cancellers, CancellerDies(c) PROVE Links'
  BY <1>12 DEF CancellerDies
<1>13. ASSUME NEW c \in Cancellers, NEW o \in Requests, JobFires(c, o) PROVE Links'
  BY <1>13 DEF JobFires
<1>14. ASSUME NEW c \in Cancellers, NEW o \in Requests, CancelExpired(c, o) PROVE Links'
  BY <1>14 DEF CancelExpired, CancelPendingOrder, DoneWith
<1>15. ASSUME NEW c \in Cancellers, NEW u \in Users, NEW o \in Requests, UserCancels(c, u, o) PROVE Links'
  BY <1>15 DEF UserCancels, CancelPendingOrder
<1>16. ASSUME NEW o \in Requests, LoseJob(o) PROVE Links'
  BY <1>16 DEF LoseJob
<1>17. CASE TickApp
  BY <1>17 DEF TickApp
<1>18. CASE TickDb
  BY <1>18 DEF TickDb
<1>19. CASE SetActive
  BY <1>19 DEF SetActive
<1>20. ASSUME NEW o \in Requests, MarkPaid(o) PROVE Links'
  BY <1>20 DEF MarkPaid
<1>21. CASE UNCHANGED vars
  BY <1>21 DEF vars
<1> QED
  BY <1>1, <1>2, <1>3, <1>4, <1>5, <1>6, <1>7, <1>8, <1>9, <1>10, <1>11, <1>12, <1>13, <1>14, <1>15, <1>16, <1>17, <1>18, <1>19, <1>20, <1>21
  DEF Next, FlowNext, PlaceOrder, Cancel

(* Every step keeps the keys: only CreateOrder adds an order and only when its *)
(* key is free, and no step takes an order away.                               *)
LEMMA KeysStep == FlowInv /\ [Next]_vars => Keyed'
<1> SUFFICES ASSUME FlowInv, [Next]_vars PROVE Keyed'
  OBVIOUS
<1> USE DEF FlowInv, Keyed, TypeOK, OneOrderPerKey, DuplicateFindsOrder, SameKey, KeyTaken, UniqueViolation, clockVars, requestVars
<1>1. ASSUME NEW r \in Requests, Reserve(r) PROVE Keyed'
  BY <1>1 DEF Reserve, Goto, CanReserve
<1>2. ASSUME NEW r \in Requests, ReserveRefused(r) PROVE Keyed'
  BY <1>2 DEF ReserveRefused, Goto
<1>3. ASSUME NEW r \in Requests, DiagnoseRefusal(r) PROVE Keyed'
  BY <1>3 DEF DiagnoseRefusal, Goto
<1>4. ASSUME NEW r \in Requests, CreateOrder(r) PROVE Keyed'
  BY <1>4 DEF CreateOrder, Goto
<1>5. ASSUME NEW r \in Requests, InsertThrows(r) PROVE Keyed'
  BY <1>5 DEF InsertThrows, Goto
<1>6. ASSUME NEW r \in Requests, ReleaseDuplicate(r) PROVE Keyed'
  BY <1>6 DEF ReleaseDuplicate, Goto
<1>7. ASSUME NEW r \in Requests, AnswerExisting(r) PROVE Keyed'
  BY <1>7 DEF AnswerExisting, Goto
<1>8. ASSUME NEW r \in Requests, ScheduleExpiry(r) PROVE Keyed'
  BY <1>8 DEF ScheduleExpiry, Goto
<1>9. ASSUME NEW r \in Requests, RequestDies(r) PROVE Keyed'
  BY <1>9 DEF RequestDies
<1>10. ASSUME NEW c \in Cancellers, SweepSelects(c) PROVE Keyed'
  BY <1>10 DEF SweepSelects, OldestOverdue, Overdue
<1>11. ASSUME NEW c \in Cancellers, ReleaseStock(c) PROVE Keyed'
  BY <1>11 DEF ReleaseStock, DoneWith
<1>12. ASSUME NEW c \in Cancellers, CancellerDies(c) PROVE Keyed'
  BY <1>12 DEF CancellerDies
<1>13. ASSUME NEW c \in Cancellers, NEW o \in Requests, JobFires(c, o) PROVE Keyed'
  BY <1>13 DEF JobFires
<1>14. ASSUME NEW c \in Cancellers, NEW o \in Requests, CancelExpired(c, o) PROVE Keyed'
  BY <1>14 DEF CancelExpired, CancelPendingOrder, DoneWith
<1>15. ASSUME NEW c \in Cancellers, NEW u \in Users, NEW o \in Requests, UserCancels(c, u, o) PROVE Keyed'
  BY <1>15 DEF UserCancels, CancelPendingOrder
<1>16. ASSUME NEW o \in Requests, LoseJob(o) PROVE Keyed'
  BY <1>16 DEF LoseJob
<1>17. CASE TickApp
  BY <1>17 DEF TickApp
<1>18. CASE TickDb
  BY <1>18 DEF TickDb
<1>19. CASE SetActive
  BY <1>19 DEF SetActive
<1>20. ASSUME NEW o \in Requests, MarkPaid(o) PROVE Keyed'
  BY <1>20 DEF MarkPaid
<1>21. CASE UNCHANGED vars
  BY <1>21 DEF vars
<1> QED
  BY <1>1, <1>2, <1>3, <1>4, <1>5, <1>6, <1>7, <1>8, <1>9, <1>10, <1>11, <1>12, <1>13, <1>14, <1>15, <1>16, <1>17, <1>18, <1>19, <1>20, <1>21
  DEF Next, FlowNext, PlaceOrder, Cancel

(* FlowInv is an inductive invariant. *)
THEOREM FlowInvariant == Spec => []FlowInv
<1>1. FlowInv /\ [Next]_vars => FlowInv'
  BY TypeStep, LinksStep, KeysStep DEF FlowInv, Links, Keyed
<1> QED BY InitInv, <1>1, PTL DEF Spec

(* Every variable keeps its type; above all product_skus.stock never goes     *)
(* below zero, however the reservations interleave.                           *)
THEOREM TypeCorrect == Spec => []TypeOK
<1>1. FlowInv => TypeOK
  BY DEF FlowInv
<1> QED BY FlowInvariant, <1>1, PTL

(* However many calls repeat one Idempotency-Key, and however they interleave *)
(* with cancellations and crashes, they make at most one order.               *)
THEOREM KeyMakesOneOrder == Spec => []OneOrderPerKey
<1>1. FlowInv => OneOrderPerKey
  BY DEF FlowInv
<1> QED BY FlowInvariant, <1>1, PTL

(* A repeated call always finds the order it has to be answered with.         *)
THEOREM DuplicateIsAnswered == Spec => []DuplicateFindsOrder
<1>1. FlowInv => DuplicateFindsOrder
  BY DEF FlowInv
<1> QED BY FlowInvariant, <1>1, PTL

(* No step moves an order out of PAID or CANCELLED: every UPDATE of status asks *)
(* for PENDING, and an insert makes an order of a call that has none.           *)
LEMMA EndStep ==
  ASSUME FlowInv, [Next]_vars, NEW e \in Requests, order[e] \in { "PAID", "CANCELLED" }
  PROVE  order'[e] = order[e]
<1> USE DEF FlowInv, TypeOK, PhaseMatchesOrder, clockVars, requestVars
<1>1. ASSUME NEW r \in Requests, Reserve(r) PROVE order'[e] = order[e]
  BY <1>1 DEF Reserve, Goto, CanReserve
<1>2. ASSUME NEW r \in Requests, ReserveRefused(r) PROVE order'[e] = order[e]
  BY <1>2 DEF ReserveRefused, Goto
<1>3. ASSUME NEW r \in Requests, DiagnoseRefusal(r) PROVE order'[e] = order[e]
  BY <1>3 DEF DiagnoseRefusal, Goto
<1>4. ASSUME NEW r \in Requests, CreateOrder(r) PROVE order'[e] = order[e]
  BY <1>4 DEF CreateOrder, Goto
<1>5. ASSUME NEW r \in Requests, InsertThrows(r) PROVE order'[e] = order[e]
  BY <1>5 DEF InsertThrows, Goto
<1>6. ASSUME NEW r \in Requests, ReleaseDuplicate(r) PROVE order'[e] = order[e]
  BY <1>6 DEF ReleaseDuplicate, Goto
<1>7. ASSUME NEW r \in Requests, AnswerExisting(r) PROVE order'[e] = order[e]
  BY <1>7 DEF AnswerExisting, Goto
<1>8. ASSUME NEW r \in Requests, ScheduleExpiry(r) PROVE order'[e] = order[e]
  BY <1>8 DEF ScheduleExpiry, Goto
<1>9. ASSUME NEW r \in Requests, RequestDies(r) PROVE order'[e] = order[e]
  BY <1>9 DEF RequestDies
<1>10. ASSUME NEW c \in Cancellers, SweepSelects(c) PROVE order'[e] = order[e]
  BY <1>10 DEF SweepSelects, OldestOverdue, Overdue
<1>11. ASSUME NEW c \in Cancellers, ReleaseStock(c) PROVE order'[e] = order[e]
  BY <1>11 DEF ReleaseStock, DoneWith
<1>12. ASSUME NEW c \in Cancellers, CancellerDies(c) PROVE order'[e] = order[e]
  BY <1>12 DEF CancellerDies
<1>13. ASSUME NEW c \in Cancellers, NEW o \in Requests, JobFires(c, o) PROVE order'[e] = order[e]
  BY <1>13 DEF JobFires
<1>14. ASSUME NEW c \in Cancellers, NEW o \in Requests, CancelExpired(c, o) PROVE order'[e] = order[e]
  BY <1>14 DEF CancelExpired, CancelPendingOrder, DoneWith
<1>15. ASSUME NEW c \in Cancellers, NEW u \in Users, NEW o \in Requests, UserCancels(c, u, o) PROVE order'[e] = order[e]
  BY <1>15 DEF UserCancels, CancelPendingOrder
<1>16. ASSUME NEW o \in Requests, LoseJob(o) PROVE order'[e] = order[e]
  BY <1>16 DEF LoseJob
<1>17. CASE TickApp
  BY <1>17 DEF TickApp
<1>18. CASE TickDb
  BY <1>18 DEF TickDb
<1>19. CASE SetActive
  BY <1>19 DEF SetActive
<1>20. ASSUME NEW o \in Requests, MarkPaid(o) PROVE order'[e] = order[e]
  BY <1>20 DEF MarkPaid
<1>21. CASE UNCHANGED vars
  BY <1>21 DEF vars
<1> QED
  BY <1>1, <1>2, <1>3, <1>4, <1>5, <1>6, <1>7, <1>8, <1>9, <1>10, <1>11, <1>12, <1>13, <1>14, <1>15, <1>16, <1>17, <1>18, <1>19, <1>20, <1>21
  DEF Next, FlowNext, PlaceOrder, Cancel

(* Of the paths that race for a pending order one wins for good.              *)
THEOREM EndIsForever == Spec => EndIsFinal
<1>1. FlowInv /\ [Next]_vars =>
        [\A o \in Requests :
           order[o] \in { "PAID", "CANCELLED" } => order'[o] = order[o]]_order
  BY EndStep
<1> QED BY FlowInvariant, <1>1, PTL DEF Spec, EndIsFinal

(* Only three actions write an order's status; of the two that cancel, the     *)
(* buyer's own is named in the property and the other one asks the database.   *)
LEMMA ExpiryStep ==
  ASSUME FlowInv, [Next]_vars,
         NEW p \in Requests, order[p] = "PENDING", order'[p] = "CANCELLED", dbClock < expiresAt[p]
  PROVE  \E c \in Cancellers : task'[c].kind = "user" /\ task'[c].owes = p
<1> USE DEF FlowInv, TypeOK
<1>1. ASSUME NEW c \in Cancellers, NEW u \in Users, NEW o \in Requests, UserCancels(c, u, o)
      PROVE  task'[c].kind = "user" /\ task'[c].owes = p
  <2>1. o = p
    BY <1>1 DEF UserCancels, Statuses
  <2> QED BY <1>1, <2>1 DEF UserCancels
<1>2. ASSUME NEW c \in Cancellers, NEW o \in Requests, CancelExpired(c, o) PROVE FALSE
  <2>1. o = p /\ expiresAt[o] <= dbClock
    BY <1>2 DEF CancelExpired, CancelPendingOrder, Expired, Statuses
  <2>2. dbClock \in Int /\ expiresAt[p] \in Int
    OBVIOUS
  <2> QED BY <2>1, <2>2
<1>3. ASSUME NEW o \in Requests, MarkPaid(o) PROVE FALSE
  BY <1>3 DEF MarkPaid, Statuses
<1>4. ASSUME NEW r \in Requests, CreateOrder(r) PROVE FALSE
  BY <1>4 DEF CreateOrder, Statuses
<1>5. ASSUME NEW r \in Requests, PlaceOrder(r), ~CreateOrder(r) PROVE order' = order
  BY <1>5 DEF PlaceOrder, Reserve, ReserveRefused, DiagnoseRefusal, InsertThrows,
              ReleaseDuplicate, AnswerExisting, ScheduleExpiry, RequestDies, Goto, requestVars
<1>6. ASSUME NEW c \in Cancellers,
             SweepSelects(c) \/ ReleaseStock(c) \/ CancellerDies(c) \/ \E o \in Requests : JobFires(c, o)
      PROVE  order' = order
  BY <1>6 DEF SweepSelects, ReleaseStock, CancellerDies, JobFires
<1>7. ASSUME TickApp \/ TickDb \/ SetActive \/ (\E o \in Requests : LoseJob(o)) \/ UNCHANGED vars
      PROVE  order' = order
  BY <1>7 DEF TickApp, TickDb, SetActive, LoseJob, vars
<1> QED BY <1>1, <1>2, <1>3, <1>4, <1>5, <1>6, <1>7 DEF Next, FlowNext, Cancel

(* No order expires before its time on the database's clock.                  *)
THEOREM NothingExpiresEarly == Spec => NoEarlyExpiry
<1>1. FlowInv /\ [Next]_vars =>
        [\A o \in Requests :
           order[o] = "PENDING" /\ order'[o] = "CANCELLED" /\ dbClock < expiresAt[o] =>
             \E c \in Cancellers : task'[c].kind = "user" /\ task'[c].owes = o]_order
  BY ExpiryStep
<1> QED BY FlowInvariant, <1>1, PTL DEF Spec, NoEarlyExpiry

(* One claim moves and the others stand still: the four ways a step of the    *)
(* ledger can look from here.                                                 *)
LEMMA LedgerTake ==
  ASSUME NEW r \in Requests, HoldOf(r) = "none", (HoldOf(r))' = "held",
         \A o \in Requests \ {r} : (HoldOf(o))' = HoldOf(o),
         stock >= Qty[r], stock' = stock - Qty[r]
  PROVE  Ledger!LedgerNext
BY DEF Ledger!LedgerNext, Ledger!Take

(* Units given back: a release, by the duplicate's call or by a canceller.    *)
LEMMA LedgerGiveBack ==
  ASSUME NEW r \in Requests, HoldOf(r) = "held", (HoldOf(r))' = "none",
         \A o \in Requests \ {r} : (HoldOf(o))' = HoldOf(o),
         stock' = stock + Qty[r]
  PROVE  Ledger!LedgerNext
BY DEF Ledger!LedgerNext, Ledger!GiveBack

(* Units settled for good: an order is paid, or a process dies on them.       *)
LEMMA LedgerSettle ==
  ASSUME NEW r \in Requests, HoldOf(r) = "held", (HoldOf(r))' \in { "sold", "lost" },
         \A o \in Requests \ {r} : (HoldOf(o))' = HoldOf(o),
         stock' = stock
  PROVE  Ledger!LedgerNext
BY DEF Ledger!LedgerNext, Ledger!Settle

(* A step that neither moves units nor changes what a claim holds.            *)
LEMMA LedgerStutter ==
  ASSUME \A o \in Requests : (HoldOf(o))' = HoldOf(o), stock' = stock
  PROVE  UNCHANGED Ledger!ledgerVars
BY DEF Ledger!ledgerVars

(* Every step of the flow is a step of the ledger or leaves it as it is.      *)
LEMMA LedgerStep ==
  FlowInv /\ [Next]_vars => [Ledger!LedgerNext]_(Ledger!ledgerVars)
<1> SUFFICES ASSUME FlowInv, [Next]_vars
             PROVE  Ledger!LedgerNext \/ UNCHANGED Ledger!ledgerVars
  OBVIOUS
<1> DEFINE Goal == Ledger!LedgerNext \/ UNCHANGED Ledger!ledgerVars
<1> DEFINE Still == \A o \in Requests : (HoldOf(o))' = HoldOf(o)
<1> DEFINE OthersStill(r) == \A o \in Requests \ {r} : (HoldOf(o))' = HoldOf(o)
<1> USE DEF FlowInv, TypeOK, Task, IdleTask, PhaseMatchesOrder, OwedOnce, LostIsOver,
            HoldOf, Outstanding, requestVars, clockVars
<1>1. ASSUME NEW r \in Requests, Reserve(r) PROVE Goal
  <2> USE <1>1 DEF Reserve, CanReserve, Goto
  <2>1. HoldOf(r) = "none" /\ (HoldOf(r))' = "held"
    OBVIOUS
  <2>2. OthersStill(r)
    OBVIOUS
  <2>3. stock >= Qty[r] /\ stock' = stock - Qty[r]
    OBVIOUS
  <2> QED BY ONLY <2>1, <2>2, <2>3, LedgerTake
<1>2. ASSUME NEW r \in Requests, ReserveRefused(r) PROVE Goal
  <2>1. Still /\ stock' = stock
    BY <1>2 DEF ReserveRefused, Goto
  <2> QED BY <2>1, LedgerStutter
<1>3. ASSUME NEW r \in Requests, DiagnoseRefusal(r) PROVE Goal
  <2>1. Still /\ stock' = stock
    BY <1>3 DEF DiagnoseRefusal, Goto
  <2> QED BY <2>1, LedgerStutter
<1>4. ASSUME NEW r \in Requests, CreateOrder(r) PROVE Goal
  <2>1. Still /\ stock' = stock
    BY <1>4 DEF CreateOrder, Goto
  <2> QED BY <2>1, LedgerStutter
<1>5. ASSUME NEW r \in Requests, InsertThrows(r) PROVE Goal
  <2>1. HoldOf(r) = "held" /\ (HoldOf(r))' = "lost" /\ stock' = stock
    BY <1>5 DEF InsertThrows, Goto
  <2>2. OthersStill(r)
    BY <1>5 DEF InsertThrows, Goto
  <2> QED BY <2>1, <2>2, LedgerSettle
<1>6. ASSUME NEW r \in Requests, ReleaseDuplicate(r) PROVE Goal
  <2>1. HoldOf(r) = "held" /\ (HoldOf(r))' = "none" /\ stock' = stock + Qty[r]
    BY <1>6 DEF ReleaseDuplicate, Goto
  <2>2. OthersStill(r)
    BY <1>6 DEF ReleaseDuplicate, Goto
  <2> QED BY <2>1, <2>2, LedgerGiveBack
<1>7. ASSUME NEW r \in Requests, AnswerExisting(r) PROVE Goal
  <2>1. Still /\ stock' = stock
    BY <1>7 DEF AnswerExisting, Goto
  <2> QED BY <2>1, LedgerStutter
<1>8. ASSUME NEW r \in Requests, ScheduleExpiry(r) PROVE Goal
  <2>1. Still /\ stock' = stock
    BY <1>8 DEF ScheduleExpiry, Goto
  <2> QED BY <2>1, LedgerStutter
<1>9. ASSUME NEW r \in Requests, RequestDies(r) PROVE Goal
  <2>1. OthersStill(r) /\ stock' = stock
    BY <1>9 DEF RequestDies
  <2>2. CASE phase[r] \in { "reserved", "duplicate" }
    <3>1. HoldOf(r) = "held" /\ (HoldOf(r))' = "lost"
      BY <1>9, <2>2 DEF RequestDies
    <3> QED BY <2>1, <3>1, LedgerSettle
  <2>3. CASE phase[r] \notin { "reserved", "duplicate" }
    <3>1. (HoldOf(r))' = HoldOf(r)
      BY <1>9, <2>3 DEF RequestDies
    <3> QED BY <2>1, <3>1, LedgerStutter
  <2> QED BY <2>2, <2>3
<1>10. ASSUME NEW c \in Cancellers, SweepSelects(c) PROVE Goal
  <2>1. Still /\ stock' = stock
    BY <1>10 DEF SweepSelects
  <2> QED BY <2>1, LedgerStutter
<1>11. ASSUME NEW c \in Cancellers, ReleaseStock(c) PROVE Goal
  <2> PICK o \in Requests : task[c].owes = o
    BY <1>11 DEF ReleaseStock
  <2>1. stock' = stock + Qty[o]
    BY <1>11 DEF ReleaseStock
  <2>2. \A d \in Cancellers \ {c} : task'[d] = task[d]
    BY <1>11 DEF ReleaseStock, DoneWith
  <2>3. task'[c].owes = NoOrder
    BY <1>11 DEF ReleaseStock, DoneWith
  <2>4. UNCHANGED << order, phase, lost >>
    BY <1>11 DEF ReleaseStock
  <2>5. HoldOf(o) = "held" /\ (HoldOf(o))' = "none"
    BY <2>1, <2>2, <2>3, <2>4
  <2>6. OthersStill(o)
    BY <2>1, <2>2, <2>3, <2>4
  <2> QED BY <2>1, <2>5, <2>6, LedgerGiveBack
<1>12. ASSUME NEW c \in Cancellers, CancellerDies(c) PROVE Goal
  <2>1. /\ UNCHANGED << stock, order, phase >>
        /\ lost' = lost \union ({task[c].owes} \ {NoOrder})
        /\ task' = [task EXCEPT ![c] = IdleTask]
    BY <1>12 DEF CancellerDies
  <2>2. CASE task[c].owes = NoOrder
    <3>1. Still
      BY <2>1, <2>2
    <3> QED BY <2>1, <3>1, LedgerStutter
  <2>3. CASE task[c].owes # NoOrder
    <3> PICK o \in Requests : task[c].owes = o
      BY <2>3
    <3>1. HoldOf(o) = "held" /\ (HoldOf(o))' = "lost"
      BY <2>1
    <3>2. OthersStill(o)
      BY <2>1
    <3> QED BY <2>1, <3>1, <3>2, LedgerSettle
  <2> QED BY <2>2, <2>3
<1>13. ASSUME NEW c \in Cancellers, NEW o \in Requests, JobFires(c, o) PROVE Goal
  <2>1. Still /\ stock' = stock
    BY <1>13 DEF JobFires
  <2> QED BY <2>1, LedgerStutter
<1>14. ASSUME NEW c \in Cancellers, NEW o \in Requests, CancelExpired(c, o) PROVE Goal
  <2>1. Still /\ stock' = stock
    BY <1>14 DEF CancelExpired, CancelPendingOrder, DoneWith
  <2> QED BY <2>1, LedgerStutter
<1>15. ASSUME NEW c \in Cancellers, NEW u \in Users, NEW o \in Requests, UserCancels(c, u, o)
       PROVE  Goal
  <2>1. Still /\ stock' = stock
    BY <1>15 DEF UserCancels, CancelPendingOrder
  <2> QED BY <2>1, LedgerStutter
<1>16. ASSUME NEW o \in Requests, MarkPaid(o) PROVE Goal
  <2>1. HoldOf(o) = "held" /\ (HoldOf(o))' = "sold" /\ stock' = stock
    BY <1>16 DEF MarkPaid
  <2>2. OthersStill(o)
    BY <1>16 DEF MarkPaid
  <2> QED BY <2>1, <2>2, LedgerSettle
<1>17. CASE (\E o \in Requests : LoseJob(o)) \/ TickApp \/ TickDb \/ SetActive \/ UNCHANGED vars
  <2>1. UNCHANGED << stock, phase, order, task, lost >>
    BY <1>17 DEF LoseJob, TickApp, TickDb, SetActive, vars
  <2>2. Still
    BY <2>1
  <2> QED BY <2>1, <2>2, LedgerStutter
<1> QED
  BY <1>1, <1>2, <1>3, <1>4, <1>5, <1>6, <1>7, <1>8, <1>9, <1>10, <1>11, <1>12,
     <1>13, <1>14, <1>15, <1>16, <1>17
  DEF Next, FlowNext, PlaceOrder, Cancel

(* The flow of orders implements the stock ledger.                            *)
THEOREM ImplementsLedger == Spec => KeepsLedger
<1>1. Init => Ledger!LedgerInit
  BY DEF Init, Ledger!LedgerInit, HoldOf, Outstanding, IdleTask
<1> QED BY FlowInvariant, LedgerStep, <1>1, PTL DEF Spec, KeepsLedger, Ledger!LedgerSpec

LedgerFacts == INSTANCE StockLedgerProofs WITH
  Claims <- Requests, Amount <- Qty, MaxAmount <- MaxQuantity,
  Total <- InitialStock, free <- stock,
  hold <- [ o \in Requests |-> HoldOf(o) ]

(* Every unit is in product_skus.stock or accounted for, in every run: what   *)
(* the ledger guarantees holds for the code that implements it.               *)
THEOREM StockIsConserved == Spec => []StockConserved
<1>1. LedgerFacts!LedgerConstants
  BY DEF LedgerFacts!LedgerConstants, LedgerFacts!IsFiniteSet, IsFiniteSet
<1>2. LedgerFacts!LedgerSpec => []LedgerFacts!Balanced
  BY <1>1, LedgerFacts!LedgerBalanced
<1>3. Ledger!LedgerInit <=> LedgerFacts!LedgerInit
  BY DEF Ledger!LedgerInit, LedgerFacts!LedgerInit
<1>4. [Ledger!LedgerNext]_(Ledger!ledgerVars)
        <=> [LedgerFacts!LedgerNext]_(LedgerFacts!ledgerVars)
  BY DEF Ledger!LedgerNext, Ledger!Take, Ledger!GiveBack, Ledger!Settle, Ledger!ledgerVars,
         LedgerFacts!LedgerNext, LedgerFacts!Take, LedgerFacts!GiveBack,
         LedgerFacts!Settle, LedgerFacts!ledgerVars
<1>5. LedgerFacts!Balanced <=> StockConserved
  BY DEF LedgerFacts!Balanced, StockConserved, Ledger!Balanced, Ledger!Units, Ledger!Taken,
         LedgerFacts!Units, LedgerFacts!Taken, Ledger!Cardinality, LedgerFacts!Cardinality
<1> QED
  BY ImplementsLedger, <1>2, <1>3, <1>4, <1>5, PTL
  DEF KeepsLedger, Ledger!LedgerSpec, LedgerFacts!LedgerSpec

-----------------------------------------------------------------------------
(* Payments over the flow.                                                 *)

USE PaymentAssumption

(* What the flow does to an order that a payment may be looking at.          *)
LEMMA FlowStep ==
  ASSUME FlowInv, FlowNext, NEW p \in Requests
  PROVE  /\ order[p] \in { "PAID", "CANCELLED" } => order'[p] = order[p]
         /\ order'[p] = "PAID" => order[p] = "PAID"
         /\ order[p] # "NONE" => order'[p] # "NONE"
<1>1. order[p] \in { "PAID", "CANCELLED" } => order'[p] = order[p]
  BY EndStep DEF Next
<1>2. /\ order'[p] = "PAID" => order[p] = "PAID"
      /\ order[p] # "NONE" => order'[p] # "NONE"
  <2> USE DEF FlowInv, TypeOK
  <2>1. ASSUME NEW c \in Cancellers, NEW u \in Users, NEW o \in Requests, UserCancels(c, u, o)
        PROVE  order' = [order EXCEPT ![o] = "CANCELLED"]
    BY <2>1 DEF UserCancels
  <2>2. ASSUME NEW c \in Cancellers, NEW o \in Requests, CancelExpired(c, o)
        PROVE  order' = order \/ order' = [order EXCEPT ![o] = "CANCELLED"]
    BY <2>2 DEF CancelExpired
  <2>3. ASSUME NEW r \in Requests, CreateOrder(r)
        PROVE  order' = order \/ order' = [order EXCEPT ![r] = "PENDING"]
    BY <2>3 DEF CreateOrder
  <2>4. ASSUME NEW r \in Requests, PlaceOrder(r), ~CreateOrder(r) PROVE order' = order
    BY <2>4 DEF PlaceOrder, Reserve, ReserveRefused, DiagnoseRefusal, InsertThrows,
                ReleaseDuplicate, AnswerExisting, ScheduleExpiry, RequestDies, Goto, requestVars
  <2>5. ASSUME NEW c \in Cancellers,
               SweepSelects(c) \/ ReleaseStock(c) \/ CancellerDies(c) \/ \E o \in Requests : JobFires(c, o)
        PROVE  order' = order
    BY <2>5 DEF SweepSelects, ReleaseStock, CancellerDies, JobFires
  <2>6. ASSUME TickApp \/ TickDb \/ SetActive \/ (\E o \in Requests : LoseJob(o))
        PROVE  order' = order
    BY <2>6 DEF TickApp, TickDb, SetActive, LoseJob
  <2> QED BY <2>1, <2>2, <2>3, <2>4, <2>5, <2>6 DEF FlowNext, Cancel
<1> QED BY <1>1, <1>2

(* To the flow a settlement is a MarkPaid or nothing.                         *)
LEMMA PayIsFlow == PayInv /\ [PayNext]_allVars => [Next]_vars
<1> SUFFICES ASSUME PayInv, [PayNext]_allVars PROVE [Next]_vars
  OBVIOUS
<1>1. CASE FlowNext
  BY <1>1 DEF Next
<1>2. ASSUME NEW i \in Intents, CreateIntent(i) \/ Charge(i) PROVE UNCHANGED vars
  BY <1>2 DEF CreateIntent, Charge
<1>3. ASSUME NEW e \in Events, Webhook(e) \/ SkipMarked(e) PROVE UNCHANGED vars
  BY <1>3 DEF Webhook, SkipMarked
<1>4. ASSUME NEW w \in Workers, (\E e \in Events : SettleBegin(w, e)) \/ SettleRefund(w) \/ SettleDies(w)
      PROVE  UNCHANGED vars
  BY <1>4 DEF SettleBegin, SettleRefund, RefundRow, SettleDies
<1>5. ASSUME NEW w \in Workers, SettlePaid(w) PROVE [Next]_vars
  <2> DEFINE i == EventOf[settling[w].event]
  <2>1. settling[w].event \in Events
    BY <1>5 DEF SettlePaid, PayInv, PayTypeOK
  <2>2. i \in Intents /\ IntentOf[i] \in Requests
    BY <2>1
  <2>3. PaidRow(i, order[IntentOf[i]] = "PENDING")
    BY <1>5 DEF SettlePaid
  <2>4. CASE order[IntentOf[i]] = "PENDING"
    BY <2>2, <2>3, <2>4 DEF PaidRow, MarkPaid, Next
  <2>5. CASE order[IntentOf[i]] # "PENDING"
    BY <2>3, <2>5 DEF PaidRow, vars, requestVars, clockVars
  <2> QED BY <2>4, <2>5
<1>6. CASE UNCHANGED allVars
  BY <1>6 DEF allVars
<1>7. CASE DeleteProcessedEvents
  BY <1>7 DEF DeleteProcessedEvents
<1> QED BY <1>1, <1>2, <1>3, <1>4, <1>5, <1>6, <1>7 DEF PayNext, Settle

(* The initial state satisfies the inductive invariant. *)
LEMMA InitPay == PayInit => PayInv
<1> SUFFICES ASSUME PayInit PROVE PayInv
  OBVIOUS
<1> USE DEF PayInit
<1>1. FlowInv
  BY InitInv
<1>2. PayTypeOK
  BY DEF PayTypeOK, NotSettling, Statuses
<1>3. PaidByItsCharge /\ KeptOrRefunded /\ RefundIsDue /\ MarkedIsDecided
  BY DEF Init, PaidByItsCharge, KeptOrRefunded, RefundIsDue, MarkedIsDecided
<1>4. ReadIsBehind
  BY DEF ReadIsBehind, NotSettling
<1> QED BY <1>1, <1>2, <1>3, <1>4 DEF PayInv

(* A step of the flow leaves the payments alone, and an order that is decided. *)
LEMMA FlowKeepsPay ==
  ASSUME PayInv, FlowNext, UNCHANGED payVars
  PROVE  PayInv'
<1> USE DEF PayInv
<1>1. /\ opened' = opened /\ charged' = charged /\ queued' = queued /\ settling' = settling
      /\ marks' = marks /\ paidBy' = paidBy /\ refunds' = refunds /\ crashes' = crashes
  BY DEF payVars
<1>2. FlowInv'
  BY TypeStep, LinksStep, KeysStep DEF Next, FlowInv, Links, Keyed
<1>3. \A p \in Requests :
        /\ order[p] \in { "PAID", "CANCELLED" } => order'[p] = order[p]
        /\ order'[p] = "PAID" => order[p] = "PAID"
        /\ order[p] # "NONE" => order'[p] # "NONE"
  BY FlowStep
<1>4. PayTypeOK'
  BY <1>1 DEF PayTypeOK
<1>5. PaidByItsCharge' /\ KeptOrRefunded'
  BY <1>1, <1>3 DEF PaidByItsCharge, KeptOrRefunded
<1>6. RefundIsDue' /\ MarkedIsDecided'
  BY <1>1, <1>3 DEF RefundIsDue, MarkedIsDecided, PayTypeOK
<1>7. ReadIsBehind'
  <2> SUFFICES ASSUME NEW w \in Workers, settling[w].event # NoEvent
               PROVE  LET now == order'[IntentOf[EventOf[settling[w].event]]]
                      IN  settling[w].read # "NONE" /\ (settling[w].read # "PENDING" => now = settling[w].read)
    BY <1>1 DEF ReadIsBehind
  <2> DEFINE o == IntentOf[EventOf[settling[w].event]]
  <2>1. o \in Requests /\ settling[w].read \in { "NONE", "PENDING", "PAID", "CANCELLED" }
    BY DEF PayTypeOK, Statuses
  <2>2. settling[w].read # "NONE" /\ (settling[w].read # "PENDING" => order[o] = settling[w].read)
    BY DEF ReadIsBehind
  <2> QED BY <1>3, <2>1, <2>2
<1>8. \A k \in opened' : order'[IntentOf[k]] # "NONE"
  BY <1>1, <1>3 DEF PayTypeOK
<1> QED BY <1>1, <1>2, <1>4, <1>5, <1>6, <1>7, <1>8 DEF NotSettling

(* The buyer, the gateway, the queue and the first half of a settlement: they  *)
(* decide nothing.                                                             *)
LEMMA GatewayKeepsPay ==
  ASSUME PayInv, UNCHANGED << vars, marks, paidBy, refunds, crashes >>,
         \/ \E k \in Intents : CreateIntent(k) \/ Charge(k)
         \/ \E e \in Events : Webhook(e) \/ SkipMarked(e)
         \/ \E w \in Workers, e \in Events : SettleBegin(w, e)
  PROVE  PayInv'
<1> USE DEF PayInv
<1>1. FlowInv' /\ order' = order
  BY TypeStep, LinksStep, KeysStep DEF FlowInv, Links, Keyed, vars
<1>2. PayTypeOK'
  <2>1. CASE \E k \in Intents : CreateIntent(k) \/ Charge(k)
    BY <2>1 DEF PayTypeOK, CreateIntent, Charge
  <2>2. CASE \E e \in Events : Webhook(e) \/ SkipMarked(e)
    BY <2>2 DEF PayTypeOK, Webhook, SkipMarked, gatewayVars
  <2>3. ASSUME NEW w \in Workers, NEW e \in Events, SettleBegin(w, e) PROVE PayTypeOK'
    BY <2>3 DEF PayTypeOK, SettleBegin, gatewayVars, FlowInv, TypeOK
  <2> QED BY <2>1, <2>2, <2>3
<1>3. charged \subseteq charged'
  BY DEF CreateIntent, Charge, Webhook, SkipMarked, SettleBegin, gatewayVars
<1>4. PaidByItsCharge' /\ KeptOrRefunded' /\ RefundIsDue' /\ MarkedIsDecided'
  BY <1>1, <1>3 DEF PaidByItsCharge, KeptOrRefunded, RefundIsDue, MarkedIsDecided
<1>5. (\A k \in opened : order[IntentOf[k]] # "NONE")'
  BY <1>1 DEF CreateIntent, Charge, Webhook, SkipMarked, SettleBegin, gatewayVars
<1>6. (\A e \in queued \union marks : EventOf[e] \in charged)'
  BY <1>3 DEF CreateIntent, Charge, Webhook, SkipMarked, SettleBegin, gatewayVars
<1>7. ASSUME NEW w \in Workers
      PROVE  \/ settling'[w] = settling[w]
             \/ \E e \in queued \ marks :
                  settling'[w] = [ event |-> e, read |-> order[IntentOf[EventOf[e]]] ]
  BY DEF CreateIntent, Charge, Webhook, SkipMarked, SettleBegin, PayTypeOK
<1>8. ReadIsBehind'
  <2> SUFFICES ASSUME NEW w \in Workers, settling'[w].event # NoEvent
               PROVE  LET now == order[IntentOf[EventOf[settling'[w].event]]]
                      IN  settling'[w].read # "NONE" /\ (settling'[w].read # "PENDING" => now = settling'[w].read)
    BY <1>1 DEF ReadIsBehind
  <2>1. CASE settling'[w] = settling[w]
    BY <2>1 DEF ReadIsBehind
  <2>2. ASSUME NEW e \in queued \ marks,
               settling'[w] = [ event |-> e, read |-> order[IntentOf[EventOf[e]]] ]
        PROVE  settling'[w].event = e /\ settling'[w].read = order[IntentOf[EventOf[e]]]
                 /\ order[IntentOf[EventOf[e]]] # "NONE"
    BY <2>2 DEF PayTypeOK
  <2> QED BY <1>7, <2>1, <2>2
<1>9. (\A w \in Workers : settling[w] # NotSettling =>
         settling[w].event # NoEvent /\ EventOf[settling[w].event] \in charged)'
  <2> SUFFICES ASSUME NEW w \in Workers, settling'[w] # NotSettling
               PROVE  settling'[w].event # NoEvent /\ EventOf[settling'[w].event] \in charged'
    BY DEF NotSettling
  <2>1. CASE settling'[w] = settling[w]
    BY <1>3, <2>1
  <2>2. ASSUME NEW e \in queued \ marks,
               settling'[w] = [ event |-> e, read |-> order[IntentOf[EventOf[e]]] ]
        PROVE  settling'[w].event # NoEvent /\ EventOf[settling'[w].event] \in charged'
    BY <1>3, <2>2 DEF PayTypeOK
  <2> QED BY <1>7, <2>1, <2>2
<1> QED BY <1>1, <1>2, <1>4, <1>5, <1>6, <1>8, <1>9
(* Whichever way w's transaction ends, w settles no more, the other workers    *)
(* stand where they stood, and what is marked or queued is no more than before *)
(* but for w's event.                                                          *)
LEMMA CommitEnds ==
  ASSUME PayTypeOK, NEW w \in Workers, NEW S, S \in SUBSET { settling[w].event }, Commit(w, S),
         UNCHANGED gatewayVars, settling[w].event \in Events
  PROVE  /\ opened' = opened /\ charged' = charged
         /\ settling'[w] = NotSettling
         /\ \A v \in Workers : v # w => settling'[v] = settling[v]
         /\ settling' \in [ Workers -> [ event : Events \union {NoEvent}, read : Statuses ] ]
         /\ marks' \in SUBSET Events /\ queued' \in SUBSET Events
         /\ marks \subseteq marks' /\ marks' \subseteq marks \union S
         /\ queued' \subseteq queued
BY DEF PayTypeOK, Commit, Finish, NotSettling, Statuses, gatewayVars

(* What the settlement of w is about. *)
LEMMA SettlingFacts ==
  ASSUME PayInv, NEW w \in Workers, settling[w] # NotSettling
  PROVE  LET i == EventOf[settling[w].event]
             o == IntentOf[i]
         IN  /\ settling[w].event \in Events
             /\ i \in Intents /\ i \in charged /\ i \in opened /\ o \in Requests
             /\ order[o] \in { "PENDING", "PAID", "CANCELLED" }
             /\ settling[w].read \in { "PENDING", "PAID", "CANCELLED" }
             /\ settling[w].read # "PENDING" => order[o] = settling[w].read
<1>1. settling[w].event # NoEvent /\ EventOf[settling[w].event] \in charged
  BY DEF PayInv
<1>2. settling[w].event \in Events /\ settling[w].read \in Statuses
  BY <1>1 DEF PayInv, PayTypeOK
<1>3. /\ EventOf[settling[w].event] \in Intents
      /\ EventOf[settling[w].event] \in opened
      /\ IntentOf[EventOf[settling[w].event]] \in Requests
  BY <1>1, <1>2 DEF PayInv, PayTypeOK
<1>4. order[IntentOf[EventOf[settling[w].event]]] \in Statuses \ { "NONE" }
  BY <1>3 DEF PayInv, FlowInv, TypeOK
<1>5. /\ settling[w].read # "NONE"
      /\ settling[w].read # "PENDING" =>
           order[IntentOf[EventOf[settling[w].event]]] = settling[w].read
  BY <1>1 DEF PayInv, ReadIsBehind
<1> QED BY <1>1, <1>2, <1>3, <1>4, <1>5 DEF Statuses

(* A transaction that fails leaves everything as it was.                       *)
LEMMA DiesKeepsPay ==
  ASSUME PayInv, NEW w \in Workers, SettleDies(w)
  PROVE  PayInv'
<1> USE DEF PayInv
<1>1. settling[w] # NotSettling
  BY DEF SettleDies, Commit
<1>2. /\ opened' = opened /\ charged' = charged /\ marks' = marks /\ queued' \subseteq queued
      /\ settling'[w] = NotSettling
      /\ \A v \in Workers : v # w => settling'[v] = settling[v]
      /\ settling' \in [ Workers -> [ event : Events \union {NoEvent}, read : Statuses ] ]
      /\ marks' \in SUBSET Events /\ queued' \in SUBSET Events
  BY <1>1, SettlingFacts, CommitEnds DEF SettleDies, Commit
<1>3. FlowInv' /\ order' = order
  BY TypeStep, LinksStep, KeysStep DEF FlowInv, Links, Keyed, SettleDies, vars
<1>4. PayTypeOK'
  BY <1>2, PaymentAssumption DEF PayTypeOK, SettleDies
<1>5. PaidByItsCharge' /\ KeptOrRefunded' /\ RefundIsDue' /\ MarkedIsDecided'
  BY <1>2, <1>3 DEF PaidByItsCharge, KeptOrRefunded, RefundIsDue, MarkedIsDecided, SettleDies
<1>6. ReadIsBehind'
  BY <1>2, <1>3 DEF ReadIsBehind, NotSettling
<1>7. (\A v \in Workers : settling[v] # NotSettling =>
         settling[v].event # NoEvent /\ EventOf[settling[v].event] \in charged)'
  BY <1>2 DEF NotSettling
<1> QED BY <1>2, <1>3, <1>4, <1>5, <1>6, <1>7

(* A refund is written for an order that the transaction has read as CANCELLED *)
(* and that still is, or for a sum that will never fit.                        *)
LEMMA RefundKeepsPay ==
  ASSUME PayInv, NEW w \in Workers, SettleRefund(w)
  PROVE  PayInv'
<1> USE DEF PayInv
<1> DEFINE i == EventOf[settling[w].event]
<1>1. settling[w] # NotSettling
  BY DEF SettleRefund
<1>2. /\ settling[w].event \in Events /\ i \in Intents /\ i \in charged
      /\ ~Fits[i] \/ order[IntentOf[i]] = "CANCELLED"
  BY <1>1, SettlingFacts DEF SettleRefund
<1>3. PICK S : S \in SUBSET { settling[w].event } /\ Commit(w, S)
  BY DEF SettleRefund, RefundRow
<1>4. UNCHANGED << vars, gatewayVars, paidBy, crashes >> /\ refunds' = refunds \union {i}
  BY DEF SettleRefund, RefundRow
<1>5. /\ opened' = opened /\ charged' = charged /\ queued' \subseteq queued
      /\ settling'[w] = NotSettling
      /\ \A v \in Workers : v # w => settling'[v] = settling[v]
      /\ settling' \in [ Workers -> [ event : Events \union {NoEvent}, read : Statuses ] ]
      /\ marks' \in SUBSET Events /\ queued' \in SUBSET Events
      /\ marks' \subseteq marks \union { settling[w].event }
  BY <1>2, <1>3, <1>4, CommitEnds
<1>6. FlowInv' /\ order' = order
  BY <1>4, TypeStep, LinksStep, KeysStep DEF FlowInv, Links, Keyed, vars
<1>7. PayTypeOK'
  BY <1>2, <1>4, <1>5 DEF PayTypeOK
<1>8. PaidByItsCharge' /\ RefundIsDue' /\ MarkedIsDecided'
  BY <1>2, <1>4, <1>5, <1>6 DEF PaidByItsCharge, RefundIsDue, MarkedIsDecided
<1>9. KeptOrRefunded'
  <2> SUFFICES ASSUME NEW o \in Requests, paidBy[o] = i PROVE FALSE
    BY <1>4 DEF KeptOrRefunded
  <2>1. i # NoIntent
    BY <1>2, PaymentAssumption
  <2>2. order[o] = "PAID" /\ IntentOf[i] = o /\ Fits[i]
    BY <2>1 DEF PaidByItsCharge
  <2> QED BY <1>2, <2>2
<1>10. ReadIsBehind'
  BY <1>5, <1>6 DEF ReadIsBehind, NotSettling
<1>11. (\A v \in Workers : settling[v] # NotSettling =>
          settling[v].event # NoEvent /\ EventOf[settling[v].event] \in charged)'
  BY <1>5 DEF NotSettling
<1> QED BY <1>2, <1>5, <1>6, <1>7, <1>8, <1>9, <1>10, <1>11

(* markPaid changes an order that is PENDING at that moment, which has no      *)
(* refund; any other order is decided, whatever the transaction had read.      *)
LEMMA PaidKeepsPay ==
  ASSUME PayInv, NEW w \in Workers, SettlePaid(w)
  PROVE  PayInv'
<1> USE DEF PayInv
<1> DEFINE i == EventOf[settling[w].event]
           o == IntentOf[i]
<1>1. settling[w] # NotSettling
  BY DEF SettlePaid
<1>2. /\ settling[w].event \in Events /\ i \in Intents /\ i \in charged /\ o \in Requests
      /\ order[o] \in { "PENDING", "PAID", "CANCELLED" } /\ Fits[i]
  BY <1>1, SettlingFacts DEF SettlePaid
<1>3. /\ Commit(w, { settling[w].event }) /\ refunds' = refunds
      /\ UNCHANGED << gatewayVars, crashes >>
      /\ PaidRow(i, order[o] = "PENDING")
  BY DEF SettlePaid, PaidRow
<1>4. /\ opened' = opened /\ charged' = charged /\ queued' \subseteq queued
      /\ settling'[w] = NotSettling
      /\ \A v \in Workers : v # w => settling'[v] = settling[v]
      /\ settling' \in [ Workers -> [ event : Events \union {NoEvent}, read : Statuses ] ]
      /\ marks' \in SUBSET Events /\ queued' \in SUBSET Events
      /\ marks' \subseteq marks \union { settling[w].event }
  BY <1>2, <1>3, CommitEnds
<1>5. FlowInv'
  <2>1. [Next]_vars
    BY PayIsFlow DEF PayNext, Settle
  <2> QED BY <2>1, TypeStep, LinksStep, KeysStep DEF FlowInv, Links, Keyed
<1>6. CASE order[o] = "PENDING"
  <2>1. order' = [ order EXCEPT ![o] = "PAID" ] /\ paidBy' = [ paidBy EXCEPT ![o] = i ]
    BY <1>3, <1>6 DEF PaidRow
  <2>2. /\ order'[o] = "PAID" /\ paidBy'[o] = i
        /\ \A p \in Requests : p # o => order'[p] = order[p] /\ paidBy'[p] = paidBy[p]
    BY <1>2, <2>1 DEF FlowInv, TypeOK, PayTypeOK
  <2>3. PayTypeOK'
    BY <1>2, <1>3, <1>4, <2>1 DEF PayTypeOK
  <2>4. PaidByItsCharge'
    BY <1>2, <1>4, <2>2 DEF PaidByItsCharge
  <2>5. i \notin refunds
    BY <1>2, <1>6 DEF RefundIsDue
  <2>6. KeptOrRefunded'
    BY <1>3, <2>2, <2>5 DEF KeptOrRefunded
  <2>7. RefundIsDue'
    BY <1>3, <1>4, <1>6, <2>2 DEF RefundIsDue, PayTypeOK
  <2>8. MarkedIsDecided'
    BY <1>3, <1>4, <2>2 DEF MarkedIsDecided, PayTypeOK
  <2>9. ReadIsBehind'
    <3> SUFFICES ASSUME NEW v \in Workers, settling'[v].event # NoEvent
                 PROVE  LET now == order'[IntentOf[EventOf[settling'[v].event]]]
                        IN  settling'[v].read # "NONE" /\ (settling'[v].read # "PENDING" => now = settling'[v].read)
      BY DEF ReadIsBehind
    <3>1. settling'[v] = settling[v]
      BY <1>4 DEF NotSettling
    <3>2. settling[v].event \in Events
      BY <3>1 DEF PayTypeOK
    <3> QED BY <1>6, <2>2, <3>1, <3>2 DEF ReadIsBehind
  <2>10. \A k \in opened' : order'[IntentOf[k]] # "NONE"
    BY <1>4, <2>2 DEF PayTypeOK
  <2> QED BY <1>2, <1>4, <1>5, <2>3, <2>4, <2>6, <2>7, <2>8, <2>9, <2>10 DEF NotSettling
<1>7. CASE order[o] # "PENDING"
  <2>1. order' = order /\ paidBy' = paidBy
    BY <1>3, <1>7 DEF PaidRow
  <2>2. PayTypeOK'
    BY <1>3, <1>4, <2>1 DEF PayTypeOK
  <2>3. PaidByItsCharge' /\ KeptOrRefunded' /\ RefundIsDue'
    BY <1>3, <1>4, <2>1 DEF PaidByItsCharge, KeptOrRefunded, RefundIsDue
  <2>4. MarkedIsDecided'
    BY <1>2, <1>3, <1>4, <1>7, <2>1 DEF MarkedIsDecided
  <2>5. ReadIsBehind'
    BY <1>4, <2>1 DEF ReadIsBehind, NotSettling
  <2> QED BY <1>2, <1>4, <1>5, <2>1, <2>2, <2>3, <2>4, <2>5 DEF NotSettling
<1> QED BY <1>6, <1>7

(* What holds of the marks holds of fewer of them.                             *)
LEMMA DeletingKeepsPay ==
  ASSUME PayInv, DeleteProcessedEvents
  PROVE  PayInv'
<1>1. marks' \subseteq marks /\ UNCHANGED << vars, opened, charged, queued, settling, paidBy, refunds, crashes >>
  BY DEF DeleteProcessedEvents, gatewayVars
<1>2. FlowInv' /\ order' = order
  BY <1>1, TypeStep, LinksStep, KeysStep DEF PayInv, FlowInv, Links, Keyed, vars
<1>3. PayTypeOK' /\ MarkedIsDecided'
  BY <1>1, <1>2 DEF PayInv, PayTypeOK, MarkedIsDecided
<1> QED
  BY <1>1, <1>2, <1>3
  DEF PayInv, PaidByItsCharge, KeptOrRefunded, RefundIsDue, ReadIsBehind, NotSettling

(* PayInv is an inductive invariant. *)
THEOREM PayInvariant == PaySpec => []PayInv
<1>1. ASSUME PayInv, [PayNext]_allVars PROVE PayInv'
  <2>1. CASE FlowNext /\ UNCHANGED payVars
    BY <1>1, <2>1, FlowKeepsPay
  <2>2. CASE \E k \in Intents : CreateIntent(k) \/ Charge(k)
    BY <1>1, <2>2, GatewayKeepsPay DEF CreateIntent, Charge
  <2>3. CASE \E e \in Events : Webhook(e) \/ SkipMarked(e)
    BY <1>1, <2>3, GatewayKeepsPay DEF Webhook, SkipMarked
  <2>4. CASE \E w \in Workers, e \in Events : SettleBegin(w, e)
    BY <1>1, <2>4, GatewayKeepsPay DEF SettleBegin
  <2>5. ASSUME NEW w \in Workers, SettleRefund(w) \/ SettlePaid(w) \/ SettleDies(w) PROVE PayInv'
    BY <1>1, <2>5, RefundKeepsPay, PaidKeepsPay, DiesKeepsPay
  <2>6. CASE UNCHANGED allVars
    <3>1. UNCHANGED vars /\ UNCHANGED payVars
      BY <2>6 DEF allVars
    <3>2. FlowInv' /\ order' = order
      BY <1>1, <3>1, TypeStep, LinksStep, KeysStep DEF PayInv, FlowInv, Links, Keyed, vars
    <3> QED
      BY <1>1, <3>1, <3>2
      DEF PayInv, PayTypeOK, PaidByItsCharge, KeptOrRefunded, RefundIsDue, MarkedIsDecided,
          ReadIsBehind, payVars, NotSettling
  <2>7. CASE DeleteProcessedEvents
    BY <1>1, <2>7, DeletingKeepsPay
  <2> QED BY <1>1, <2>1, <2>2, <2>3, <2>4, <2>5, <2>6, <2>7 DEF PayNext, Settle
<1> QED BY InitPay, <1>1, PTL DEF PaySpec

(* An order is PAID by a charge of its own and of the right sum, whatever      *)
(* events come how often.                                                      *)
THEOREM OrdersArePaidByTheirCharge == PaySpec => []PaidByItsCharge
<1>1. PayInv => PaidByItsCharge
  BY DEF PayInv
<1> QED BY PayInvariant, <1>1, PTL

(* Types: what is charged was opened, what is refunded is an intent.           *)
THEOREM PayTypes == PaySpec => []PayTypeOK
<1>1. PayInv => PayTypeOK
  BY DEF PayInv
<1> QED BY PayInvariant, <1>1, PTL

(* No charge is both kept and put down for a refund.                           *)
THEOREM NothingIsRefundedAndKept == PaySpec => []KeptOrRefunded
<1>1. PayInv => KeptOrRefunded
  BY DEF PayInv
<1> QED BY PayInvariant, <1>1, PTL

(* Nothing is refunded that ought to be kept.                                  *)
THEOREM RefundsAreDue == PaySpec => []RefundIsDue
<1>1. PayInv => RefundIsDue
  BY DEF PayInv
<1> QED BY PayInvariant, <1>1, PTL

(* No event counts as processed while its order waits for a decision.          *)
THEOREM MarksAreDecided == PaySpec => []MarkedIsDecided
<1>1. PayInv => MarkedIsDecided
  BY DEF PayInv
<1> QED BY PayInvariant, <1>1, PTL

(* With payments the flow is still the flow of OrderFlow, so that all that is  *)
(* proved there, the ledger included, holds with payments too.                 *)
THEOREM PaymentsKeepFlow == PaySpec => KeepsFlow
<1>1. PayInit => Init
  BY DEF PayInit
<1>2. PayInv /\ [PayNext]_allVars => [Next]_vars
  BY PayIsFlow
<1> QED BY PayInvariant, <1>1, <1>2, PTL DEF PaySpec, KeepsFlow, Spec

(* Only the end of a settling transaction marks an event: as its refund is put *)
(* down, or as markPaid finds the order PENDING, PAID, or CANCELLED since.     *)
LEMMA MarkStep ==
  ASSUME PayInv, PayNext, NEW e \in marks' \ marks
  PROVE  LET i == EventOf[e]
             o == IntentOf[i]
         IN  \/ i \in refunds' \/ paidBy'[o] = i \/ order[o] = "PAID"
             \/ /\ order[o] = "CANCELLED"
                /\ \E w \in Workers : settling[w] = [ event |-> e, read |-> "PENDING" ]
<1> USE DEF PayInv, PayTypeOK
<1>1. PICK w \in Workers : SettleRefund(w) \/ SettlePaid(w)
  <2>1. ASSUME NEW w \in Workers, SettleDies(w) PROVE marks' = marks
    BY <2>1 DEF SettleDies, Commit
  <2>2. ASSUME DeleteProcessedEvents PROVE FALSE
    BY <2>2 DEF DeleteProcessedEvents
  <2> QED
    BY <2>1, <2>2 DEF PayNext, payVars, CreateIntent, Charge, Webhook, SkipMarked, Settle, SettleBegin
<1>2. e = settling[w].event
  BY <1>1 DEF SettleRefund, RefundRow, SettlePaid, Commit
<1>3. e \in Events /\ EventOf[e] \in Intents /\ IntentOf[EventOf[e]] \in Requests
  <2>1. marks' \subseteq marks \union {e}
    BY <1>1, <1>2 DEF SettleRefund, RefundRow, SettlePaid, Commit
  <2>2. e # NoEvent /\ settling[w].event \in Events \union {NoEvent}
    BY <1>1, <1>2 DEF SettleRefund, SettlePaid
  <2> QED BY <1>2, <2>2
<1> DEFINE i == EventOf[e]
           o == IntentOf[i]
<1>4. CASE SettleRefund(w)
  BY <1>2, <1>4 DEF SettleRefund, RefundRow
<1>5. CASE SettlePaid(w)
  <2>1. settling[w].read # "CANCELLED" /\ PaidRow(i, order[o] = "PENDING")
    BY <1>2, <1>5 DEF SettlePaid
  <2>2. CASE order[o] = "PENDING"
    BY <1>3, <2>1, <2>2 DEF PaidRow
  <2>3. CASE order[o] = "CANCELLED"
    <3>1. settling[w].read \in Statuses /\ settling[w].read # "NONE"
      BY <1>2, <1>3 DEF ReadIsBehind
    <3>2. settling[w].read = "PENDING"
      BY <1>2, <1>3, <2>1, <2>3, <3>1 DEF ReadIsBehind, Statuses
    <3>3. settling[w] = [ event |-> e, read |-> "PENDING" ]
      BY <1>2, <3>2
    <3> QED BY <2>3, <3>3
  <2>4. order[o] \in Statuses /\ order[o] # "NONE"
    <3>1. i \in charged
      BY <1>2, <1>5 DEF SettlePaid
    <3> QED BY <1>3, <3>1 DEF FlowInv, TypeOK
  <2> QED BY <2>2, <2>3, <2>4 DEF Statuses
<1> QED BY <1>1, <1>4, <1>5

(* A charge is passed over in two cases only: another charge has paid the      *)
(* order, or a cancellation came between reading it and markPaid.              *)
THEOREM ChargesAreDecided == PaySpec => ChargeIsDecided
<1>1. PayInv /\ [PayNext]_allVars =>
        [\A e \in marks' \ marks :
           LET i == EventOf[e]
               o == IntentOf[i]
           IN  \/ i \in refunds' \/ paidBy'[o] = i \/ order[o] = "PAID"
               \/ /\ order[o] = "CANCELLED"
                  /\ \E w \in Workers : settling[w] = [ event |-> e, read |-> "PENDING" ]]_allVars
  BY MarkStep
<1> QED BY PayInvariant, <1>1, PTL DEF PaySpec, ChargeIsDecided

(* No unit is made or lost while intents are opened, events repeated and       *)
(* charges settled or refunded.                                                *)
THEOREM PaymentsConserveStock == PaySpec => []StockConserved
  BY PaymentsKeepFlow, StockIsConserved, PTL DEF KeepsFlow

(* Neither a late charge nor a repeated event brings a cancelled order back or *)
(* takes a paid one's place.                                                   *)
THEOREM PaymentsKeepEnds == PaySpec => EndIsFinal
  BY PaymentsKeepFlow, EndIsForever DEF KeepsFlow

=============================================================================
