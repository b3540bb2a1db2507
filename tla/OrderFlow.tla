------------------------------ MODULE OrderFlow ------------------------------
(***************************************************************************)
(* Orders bought directly from one SKU: placing an order (reserve, insert, *)
(* compensate a repeated Idempotency-Key, schedule the expiry job) and     *)
(* cancelling it along the three paths that share cancelPendingOrder (the  *)
(* buyer, the delayed job order.expire, the sweeper), with the release of  *)
(* the stock that follows the cancellation in a step of its own.           *)
(*                                                                         *)
(* One step of the model is one committed statement or transaction of      *)
(* PostgreSQL, or one call of the queue.  Handlers of several processes    *)
(* interleave between those steps and may die between any two of them.     *)
(*                                                                         *)
(* An order is named after the request that inserted it.                   *)
(***************************************************************************)
EXTENDS Integers, FiniteSets

CONSTANTS
  Requests,     \* POST /orders calls; a retry by the client is one more call
  Users,        \* buyers
  Keys,         \* Idempotency-Key strings
  User,         \* User[r]: who sends r
  Key,          \* Key[r]: the Idempotency-Key r carries
  Qty,          \* Qty[r]: the quantity r asks for
  InitialStock, \* product_skus.stock at the start
  Cancellers,   \* places that can run a cancellation: API handlers, job slots
  SweepBatch,   \* SWEEP_BATCH
  Hold,         \* ORDER_HOLD_MINUTES, in ticks
  Horizon,      \* bound on both clocks
  MaxFaults,    \* bound on the handlers that die or throw half-way
  NoOrder       \* "no order", not a request

MaxQuantity == 5

ASSUME RequestAssumption ==
  /\ User \in [Requests -> Users]
  /\ Key \in [Requests -> Keys]
  /\ Qty \in [Requests -> 1..MaxQuantity]

ASSUME BoundAssumption ==
  /\ IsFiniteSet(Requests)
  /\ InitialStock \in Nat
  /\ MaxFaults \in Nat
  /\ Hold \in Nat
  /\ Horizon \in Nat
  /\ SweepBatch \in Nat \ {0}

ASSUME NoOrderAssumption == NoOrder \notin Requests

VARIABLES
  stock,     \* product_skus.stock
  active,    \* product_skus.is_active
  phase,     \* phase[r]: how far placeOrder has come for r
  order,     \* order[r]: orders.status of the order r inserted, "NONE" if none
  outbox,    \* orders with an order.placed row in outbox_events
  expiresAt, \* orders.expires_at, set from the application's clock
  appClock,  \* Date.now() of the application and of the queue's workers
  dbClock,   \* now() of PostgreSQL, which need not agree
  jobs,      \* orders with an undone order.expire job in the queue
  task,      \* task[c]: the cancellation c is running
  lost,      \* history: orders or requests whose units no handler will return
  faults     \* history: how many handlers died half-way

requestVars == << active, phase, outbox, expiresAt >>
clockVars   == << appClock, dbClock >>
vars == << stock, active, phase, order, outbox, expiresAt, appClock, dbClock,
           jobs, task, lost, faults >>

Phases == { "idle", "reserved", "refused", "duplicate", "compensated",
            "inserted",                     \* still running
            "answered_201", "answered_200", \* answered
            "answered_404", "answered_409", "answered_500", "died" }

Statuses == { "NONE", "PENDING", "PAID", "CANCELLED" }

Task == [ kind : {"idle", "user", "job", "sweep"},
          todo : SUBSET Requests,
          owes : Requests \union {NoOrder} ]

IdleTask == [ kind |-> "idle", todo |-> {}, owes |-> NoOrder ]

\* Types.  In particular product_skus.stock never goes below zero.
TypeOK ==
  /\ stock \in Nat
  /\ active \in BOOLEAN
  /\ phase \in [Requests -> Phases]
  /\ order \in [Requests -> Statuses]
  /\ outbox \in SUBSET Requests
  /\ expiresAt \in [Requests -> 0..(Horizon + Hold)]
  /\ appClock \in 0..Horizon
  /\ dbClock \in 0..Horizon
  /\ jobs \in SUBSET Requests
  /\ task \in [Cancellers -> Task]
  /\ lost \in SUBSET Requests
  /\ faults \in 0..MaxFaults

Init ==
  /\ stock = InitialStock
  /\ active = TRUE
  /\ phase = [r \in Requests |-> "idle"]
  /\ order = [r \in Requests |-> "NONE"]
  /\ outbox = {}
  /\ expiresAt = [r \in Requests |-> 0]
  /\ appClock = 0
  /\ dbClock = 0
  /\ jobs = {}
  /\ task = [c \in Cancellers |-> IdleTask]
  /\ lost = {}
  /\ faults = 0

-----------------------------------------------------------------------------
(* Placing an order: OrderService.placeDirectOrder and finishOrder.        *)

Goto(r, from, to) ==
  /\ phase[r] = from
  /\ phase' = [phase EXCEPT ![r] = to]

SameKey(r, q) == User[r] = User[q] /\ Key[r] = Key[q]

KeyTaken(r) == \E q \in Requests : SameKey(r, q) /\ order[q] # "NONE"

\* UNIQUE(user_id, idempotency_key): an insert waits for a concurrent insert
\* of the same key to commit, so only committed orders count.
UniqueViolationOfLive(r) ==
  \E q \in Requests : SameKey(r, q) /\ order[q] \in { "PENDING", "PAID" }

UniqueViolationOfStarted(r) ==
  \E q \in Requests \ {r} : SameKey(r, q) /\ phase[q] # "idle"

UniqueViolation(r) == KeyTaken(r)

\* The condition inside the UPDATE (optimistic) or under the row lock
\* (pessimistic): evaluated on the row's latest version either way.
CanReserve(r) == active /\ stock >= Qty[r]

Reserve(r) ==
  /\ CanReserve(r)
  /\ Goto(r, "idle", "reserved")
  /\ stock' = stock - Qty[r]
  /\ UNCHANGED << active, order, outbox, expiresAt, clockVars, jobs, task,
                  lost, faults >>

ReserveRefused(r) ==
  /\ ~CanReserve(r)
  /\ Goto(r, "idle", "refused")
  /\ UNCHANGED << stock, active, order, outbox, expiresAt, clockVars, jobs,
                  task, lost, faults >>

\* isSkuOnSale is a second query: it may see another SKU than the UPDATE did.
DiagnoseRefusal(r) ==
  /\ Goto(r, "refused", IF active THEN "answered_409" ELSE "answered_404")
  /\ UNCHANGED << stock, active, order, outbox, expiresAt, clockVars, jobs,
                  task, lost, faults >>

\* Order, item and outbox row in one transaction; P2002 inserts nothing.
CreateOrder(r) ==
  /\ IF UniqueViolation(r)
     THEN /\ Goto(r, "reserved", "duplicate")
          /\ UNCHANGED << order, outbox, expiresAt >>
     ELSE /\ Goto(r, "reserved", "inserted")
          /\ order' = [order EXCEPT ![r] = "PENDING"]
          /\ outbox' = outbox \union {r}
          /\ expiresAt' = [expiresAt EXCEPT ![r] = appClock + Hold]
  /\ UNCHANGED << stock, active, clockVars, jobs, task, lost, faults >>

\* The insert throws something else than P2002: finishOrder has no handler.
InsertThrows(r) ==
  /\ faults < MaxFaults
  /\ Goto(r, "reserved", "answered_500")
  /\ lost' = lost \union {r}
  /\ faults' = faults + 1
  /\ UNCHANGED << stock, active, order, outbox, expiresAt, clockVars, jobs,
                  task >>

\* onDuplicate: reserver.release of what this call took.
ReleaseDuplicateForgotten(r) ==
  /\ Goto(r, "duplicate", "compensated")
  /\ UNCHANGED << stock, active, order, outbox, expiresAt, clockVars, jobs,
                  task, lost, faults >>

ReleaseDuplicate(r) ==
  /\ Goto(r, "duplicate", "compensated")
  /\ stock' = stock + Qty[r]
  /\ UNCHANGED << active, order, outbox, expiresAt, clockVars, jobs, task,
                  lost, faults >>

\* findOrderByIdempotencyKey; a miss is thrown as an error (500).
AnswerExisting(r) ==
  /\ Goto(r, "compensated", IF KeyTaken(r) THEN "answered_200" ELSE "answered_500")
  /\ UNCHANGED << stock, active, order, outbox, expiresAt, clockVars, jobs,
                  task, lost, faults >>

\* queue.add of the delayed job; a failure is swallowed.
ScheduleExpiry(r) ==
  /\ Goto(r, "inserted", "answered_201")
  /\ jobs' \in { jobs, jobs \union {r} }
  /\ UNCHANGED << stock, active, order, outbox, expiresAt, clockVars, task,
                  lost, faults >>

\* The process dies between two steps, or the first one fails for good:
\* nothing that placeOrder already did is undone.
RequestDies(r) ==
  /\ faults < MaxFaults
  /\ phase[r] \in { "idle", "reserved", "duplicate", "compensated", "inserted" }
  /\ phase' = [phase EXCEPT ![r] = "died"]
  /\ lost' = IF phase[r] \in { "reserved", "duplicate" }
             THEN lost \union {r} ELSE lost
  /\ faults' = faults + 1
  /\ UNCHANGED << stock, active, order, outbox, expiresAt, clockVars, jobs,
                  task >>

-----------------------------------------------------------------------------
(* Cancelling: cancelPendingOrder, then releaseStock outside of its        *)
(* transaction.                                                            *)

\* The UPDATE changes one row and the caller gets the items to return, or no
\* row (already PAID, CANCELLED, or the scope's own condition is false).
CancelUnpaidOrder(o, scope) == order[o] \in { "PENDING", "CANCELLED" } /\ scope

CancelPendingOrder(o, scope) == order[o] = "PENDING" /\ scope

\* expires_at <= now(), on PostgreSQL's clock.
ExpiredOnAppClock(o) == expiresAt[o] <= appClock

Expired(o) == expiresAt[o] <= dbClock

\* POST /orders/:id/cancel.  Any other outcome (404, 409, 200 for an order
\* already CANCELLED) reads and changes nothing.
UserCancels(c, u, o) ==
  /\ task[c] = IdleTask
  /\ CancelPendingOrder(o, User[o] = u)
  /\ order' = [order EXCEPT ![o] = "CANCELLED"]
  /\ task' = [task EXCEPT ![c] = [ kind |-> "user", todo |-> {o}, owes |-> o ]]
  /\ UNCHANGED << stock, requestVars, clockVars, jobs, lost, faults >>

\* The queue hands out a job after its delay, at least once: a job whose
\* first run is still going may be handed out again.
JobFires(c, o) ==
  /\ task[c] = IdleTask
  /\ o \in jobs
  /\ expiresAt[o] <= appClock
  /\ task' = [task EXCEPT ![c] =
                [ kind |-> "job", todo |-> {o}, owes |-> NoOrder ]]
  /\ UNCHANGED << stock, requestVars, order, clockVars, jobs, lost, faults >>

OverdueAnyStatus == { o \in Requests : order[o] # "NONE" /\ expiresAt[o] <= appClock }

\* findExpiredPendingOrderIds: the SWEEP_BATCH oldest, by the application's
\* clock.
Overdue == { o \in Requests : order[o] = "PENDING" /\ expiresAt[o] <= appClock }

OldestOverdue ==
  { batch \in SUBSET Overdue :
      /\ batch # {}
      /\ Cardinality(batch) <= SweepBatch
      /\ batch # Overdue => Cardinality(batch) = SweepBatch
      /\ \A b \in batch, o \in Overdue \ batch : expiresAt[b] <= expiresAt[o] }

SweepSelects(c) ==
  /\ task[c] = IdleTask
  /\ \E batch \in OldestOverdue :
       task' = [task EXCEPT ![c] =
                  [ kind |-> "sweep", todo |-> batch, owes |-> NoOrder ]]
  /\ UNCHANGED << stock, requestVars, order, clockVars, jobs, lost, faults >>

\* What is left of c's task when it is done with o; a finished job leaves the
\* queue.
DoneWith(c, o) ==
  LET rest == task[c].todo \ {o}
  IN  /\ task' = [task EXCEPT ![c] =
                    IF rest = {} THEN IdleTask
                    ELSE [ kind |-> task[c].kind, todo |-> rest,
                           owes |-> NoOrder ]]
      /\ jobs' = IF task[c].kind = "job" THEN jobs \ {o} ELSE jobs

\* OrderExpiryService.cancelExpired up to the commit; the sweep takes its
\* orders oldest first.
CancelExpired(c, o) ==
  /\ task[c].kind \in {"job", "sweep"}
  /\ task[c].owes = NoOrder
  /\ o \in task[c].todo
  /\ \A p \in task[c].todo : expiresAt[o] <= expiresAt[p]
  /\ IF CancelPendingOrder(o, Expired(o))
     THEN /\ order' = [order EXCEPT ![o] = "CANCELLED"]
          /\ task' = [task EXCEPT ![c].owes = o]
          /\ UNCHANGED jobs
     ELSE /\ DoneWith(c, o)
          /\ UNCHANGED order
  /\ UNCHANGED << stock, requestVars, clockVars, lost, faults >>

ReleaseStockOnSale(c) ==
  LET o == task[c].owes
  IN  /\ o # NoOrder /\ active
      /\ stock' = stock + Qty[o]
      /\ DoneWith(c, o)
      /\ UNCHANGED << requestVars, order, clockVars, lost, faults >>

ReleaseStock(c) ==
  LET o == task[c].owes
  IN  /\ o # NoOrder
      /\ stock' = stock + Qty[o]
      /\ DoneWith(c, o)
      /\ UNCHANGED << requestVars, order, clockVars, lost, faults >>

\* The process dies or the call throws: a sweep is dropped, a job is retried
\* or, after its last attempt, given up.  Nobody returns what c still owes.
CancellerDies(c) ==
  /\ faults < MaxFaults
  /\ task[c] # IdleTask
  /\ task' = [task EXCEPT ![c] = IdleTask]
  /\ lost' = lost \union ({task[c].owes} \ {NoOrder})
  /\ jobs' \in { jobs, IF task[c].kind = "job" THEN jobs \ task[c].todo ELSE jobs }
  /\ faults' = faults + 1
  /\ UNCHANGED << stock, requestVars, order, clockVars >>

-----------------------------------------------------------------------------
(* What happens around the orders.                                         *)

\* OrderRepository.markPaid, called by the settlement of a payment.
MarkPaid(o) ==
  /\ order[o] = "PENDING"
  /\ order' = [order EXCEPT ![o] = "PAID"]
  /\ UNCHANGED << stock, requestVars, clockVars, jobs, task, lost, faults >>

\* The queue loses a delayed job (Redis restarted without its data).
LoseJob(o) ==
  /\ o \in jobs
  /\ jobs' = jobs \ {o}
  /\ UNCHANGED << stock, requestVars, order, clockVars, task, lost, faults >>

TickApp ==
  /\ appClock < Horizon
  /\ appClock' = appClock + 1
  /\ UNCHANGED << stock, requestVars, order, dbClock, jobs, task, lost, faults >>

TickDb ==
  /\ dbClock < Horizon
  /\ dbClock' = dbClock + 1
  /\ UNCHANGED << stock, requestVars, order, appClock, jobs, task, lost, faults >>

\* PATCH /skus/:id and DELETE /skus/:id take the SKU off sale, PATCH also
\* puts it back.
SetActive ==
  /\ active' = ~active
  /\ UNCHANGED << stock, phase, order, outbox, expiresAt, clockVars, jobs,
                  task, lost, faults >>

-----------------------------------------------------------------------------
PlaceOrder(r) ==
  \/ Reserve(r) \/ ReserveRefused(r) \/ DiagnoseRefusal(r)
  \/ CreateOrder(r) \/ InsertThrows(r) \/ ReleaseDuplicate(r)
  \/ AnswerExisting(r) \/ ScheduleExpiry(r) \/ RequestDies(r)

Cancel(c) ==
  \/ SweepSelects(c) \/ ReleaseStock(c) \/ CancellerDies(c)
  \/ \E o \in Requests : JobFires(c, o) \/ CancelExpired(c, o)
  \/ \E u \in Users, o \in Requests : UserCancels(c, u, o)

\* Everything but the payment, which a module that models it replaces.
FlowNext ==
  \/ \E r \in Requests : PlaceOrder(r)
  \/ \E c \in Cancellers : Cancel(c)
  \/ \E o \in Requests : LoseJob(o)
  \/ TickApp \/ TickDb \/ SetActive

Next == FlowNext \/ \E o \in Requests : MarkPaid(o)

Spec == Init /\ [][Next]_vars

\* A cancellation that runs goes on, and the sweep comes back every minute.
Fairness ==
  /\ \A c \in Cancellers : WF_vars(ReleaseStock(c))
  /\ \A c \in Cancellers : WF_vars(\E o \in Requests : CancelExpired(c, o))
  /\ WF_vars(\E c \in Cancellers : SweepSelects(c))

FairSpec == Spec /\ Fairness

-----------------------------------------------------------------------------
(* What the component promises.                                            *)

\* The units of o are out of the row: o's call holds them before its order
\* exists, or its order is not cancelled, or a cancellation still owes them,
\* or nobody will ever return them.
Outstanding(o) ==
  \/ phase[o] \in { "reserved", "duplicate" }
  \/ order[o] \in { "PENDING", "PAID" }
  \/ \E c \in Cancellers : task[c].owes = o
  \/ o \in lost

HoldOf(o) ==
  IF o \in lost THEN "lost"
  ELSE IF order[o] = "PAID" THEN "sold"
  ELSE IF Outstanding(o) THEN "held"
  ELSE "none"

\* The ledger that this component keeps for one SKU row.
Ledger == INSTANCE StockLedger WITH
  Claims <- Requests, Amount <- Qty, MaxAmount <- MaxQuantity,
  Total <- InitialStock, free <- stock,
  hold <- [ o \in Requests |-> HoldOf(o) ]

\* An order exists only once its call has inserted it.
PhaseMatchesOrder ==
  \A r \in Requests :
    order[r] # "NONE" => phase[r] \in { "inserted", "answered_201", "died" }

\* What a handler owes is a cancelled order's, owed by it alone and not lost.
OwedOnce ==
  \A c \in Cancellers :
    LET o == task[c].owes
    IN  o # NoOrder =>
          /\ order[o] = "CANCELLED"
          /\ o \notin lost
          /\ \A d \in Cancellers : task[d].owes = o => d = c

\* Lost units belong to a call that ended in an error or to a cancelled order.
LostIsOver ==
  \A o \in lost :
    \/ order[o] = "CANCELLED"
    \/ order[o] = "NONE" /\ phase[o] \in { "died", "answered_500" }

\* A repeated Idempotency-Key never makes a second order, however the two
\* calls interleave.
OneOrderPerKey ==
  \A r, q \in Requests :
    SameKey(r, q) /\ order[r] # "NONE" /\ order[q] # "NONE" => r = q

\* The order a repeated call must be answered with is there when it looks for
\* it: the error thrown when findOrderByIdempotencyKey misses is unreachable.
DuplicateFindsOrder ==
  \A r \in Requests : phase[r] \in { "duplicate", "compensated" } => KeyTaken(r)

\* The inductive invariant behind the ledger and the keys.
FlowInv ==
  /\ TypeOK /\ PhaseMatchesOrder /\ OwedOnce /\ LostIsOver
  /\ OneOrderPerKey /\ DuplicateFindsOrder

\* Whatever repeated keys, three racing cancellation paths and deaths between
\* two steps do, every unit is in product_skus.stock or accounted for by one
\* order, one running handler or one recorded loss: nothing is returned twice
\* (order.expiry.service.ts: "trả kho hai lần") and nothing is oversold.
StockConserved == Ledger!Balanced

\* Of the paths that race for a pending order one wins and no later step
\* undoes it: a cancelled order is never paid, a paid one never cancelled.
EndIsFinal ==
  [][\A o \in Requests :
       order[o] \in { "PAID", "CANCELLED" } => order'[o] = order[o]]_order

\* Only the buyer's own click cancels an order before PostgreSQL says that
\* its hold has ended, though the sweeper and the queue choose by another
\* clock and long before they act.
NoEarlyExpiry ==
  [][\A o \in Requests :
       order[o] = "PENDING" /\ order'[o] = "CANCELLED" /\ dbClock < expiresAt[o] =>
         \E c \in Cancellers : task'[c].kind = "user" /\ task'[c].owes = o]_order

\* The component implements the ledger: no handler, job or crash moves units
\* in a way the ledger has no step for.
KeepsLedger == Ledger!LedgerSpec

\* An order whose hold has ended leaves PENDING although its delayed job was
\* never queued, was lost, fired too early or died: the sweeper finds it.
OverdueIsResolved ==
  \A o \in Requests :
    order[o] = "PENDING" /\ expiresAt[o] <= appClock /\ expiresAt[o] <= dbClock
      ~> order[o] # "PENDING"

\* The units of a cancelled order come back unless the process that owed them
\* died.
CancelledIsReturned ==
  \A o \in Requests :
    order[o] = "CANCELLED" ~> o \in lost \/ ~Outstanding(o)

-----------------------------------------------------------------------------
(* What the repository says of the program and the program does not do.    *)

\* "Cùng Idempotency-Key gọi 2 lần => 1 đơn, lần 2 trả 200 + đúng đơn cũ"
\* (docs/specs/phase3-order-concurrency.md): a call whose key already has an
\* order would not be refused.
RetryIsAnswered ==
  [][\A r \in Requests :
       phase'[r] = "refused" /\ phase[r] # "refused" => ~KeyTaken(r)]_phase

=============================================================================
