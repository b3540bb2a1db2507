---------------------------- MODULE OrderPayments ----------------------------
(***************************************************************************)
(* Paying for an order: the buyer opens payment intents, the gateway       *)
(* charges them and delivers its event at least once, a worker settles the *)
(* event in one transaction together with its mark in processed_events.    *)
(*                                                                         *)
(* The transaction is Read Committed: its first statements insert the mark *)
(* and read the order, its last ones act on what was read, and a           *)
(* cancellation may commit in between.  This module takes the place of the *)
(* step MarkPaid of OrderFlow.                                             *)
(***************************************************************************)
EXTENDS OrderFlow

CONSTANTS
  Intents,    \* payment intents
  IntentOf,   \* IntentOf[i]: the order i is for
  Fits,       \* Fits[i]: the gateway charged orders.total_vnd, not another sum
  Events,     \* events payment.succeeded, each with its event_id
  EventOf,    \* EventOf[e]: the intent e is about
  Workers,    \* slots that run payment.process
  MaxCrashes, \* bound on the transactions that fail
  NoEvent, NoIntent

ASSUME PaymentAssumption ==
  /\ IntentOf \in [Intents -> Requests]
  /\ Fits \in [Intents -> BOOLEAN]
  /\ EventOf \in [Events -> Intents]
  /\ MaxCrashes \in Nat
  /\ NoEvent \notin Events
  /\ NoIntent \notin Intents

VARIABLES
  opened,   \* intents a buyer was given
  charged,  \* intents the gateway took the money of
  queued,   \* events with an undone payment.process job
  settling, \* settling[w]: the event w has marked, and the status it then read
  marks,    \* rows of processed_events
  paidBy,   \* paidBy[o]: orders.payment_intent_id
  refunds,  \* intents with a row in refund_requests, UNIQUE(payment_intent_id)
  crashes   \* history: how many transactions failed

gatewayVars == << opened, charged >>
payVars     == << opened, charged, queued, settling, marks, paidBy, refunds, crashes >>
allVars     == << vars, payVars >>

NotSettling == [ event |-> NoEvent, read |-> "NONE" ]

\* Types; only an intent that a buyer was given is ever charged.
PayTypeOK ==
  /\ opened \in SUBSET Intents
  /\ charged \in SUBSET opened
  /\ queued \in SUBSET Events
  /\ settling \in [ Workers -> [ event : Events \union {NoEvent}, read : Statuses ] ]
  /\ marks \in SUBSET Events
  /\ paidBy \in [ Requests -> Intents \union {NoIntent} ]
  /\ refunds \in SUBSET Intents
  /\ crashes \in 0..MaxCrashes

PayInit ==
  /\ Init
  /\ opened = {}
  /\ charged = {}
  /\ queued = {}
  /\ settling = [ w \in Workers |-> NotSettling ]
  /\ marks = {}
  /\ paidBy = [ o \in Requests |-> NoIntent ]
  /\ refunds = {}
  /\ crashes = 0

-----------------------------------------------------------------------------
\* POST /payments/checkout/:orderId: a fresh intent at every call while the
\* order waits for its payment.
CreateIntent(i) ==
  /\ i \notin opened
  /\ order[IntentOf[i]] = "PENDING"
  /\ opened' = opened \union {i}
  /\ UNCHANGED << vars, charged, queued, settling, marks, paidBy, refunds, crashes >>

ChargeUnopened(i) ==
  /\ i \in Intents \ charged
  /\ charged' = charged \union {i}
  /\ UNCHANGED << vars, opened, queued, settling, marks, paidBy, refunds, crashes >>

\* The buyer pays at the gateway, whatever became of the order meanwhile.
Charge(i) ==
  /\ i \in opened \ charged
  /\ charged' = charged \union {i}
  /\ UNCHANGED << vars, opened, queued, settling, marks, paidBy, refunds, crashes >>

\* POST /payments/webhook, as often as the gateway likes.  payment.failed
\* changes nothing.
Webhook(e) ==
  /\ EventOf[e] \in charged
  /\ queued' = queued \union {e}
  /\ UNCHANGED << vars, gatewayVars, settling, marks, paidBy, refunds, crashes >>

\* A finished job leaves the queue unless its acknowledgement is lost.
Finish(e) == queued' \in { queued, queued \ {e} }

\* The insert of the mark fails on a committed mark.
SkipMarked(e) ==
  /\ e \in queued \intersect marks
  /\ queued' = queued \ {e}
  /\ UNCHANGED << vars, gatewayVars, settling, marks, paidBy, refunds, crashes >>

\* The insert of the mark waits for an uncommitted one, and succeeds when
\* there is none; then findOrderForPayment reads the order.
SettleBegin(w, e) ==
  /\ settling[w] = NotSettling
  /\ e \in queued \ marks
  /\ \A v \in Workers : settling[v].event # e
  /\ settling' = [ settling EXCEPT ![w] =
                     [ event |-> e, read |-> order[IntentOf[EventOf[e]]] ] ]
  /\ UNCHANGED << vars, gatewayVars, queued, marks, paidBy, refunds, crashes >>

\* The transaction of w ends: with the rows it wrote, mark included, or with
\* none of them.
Commit(w, events) ==
  /\ settling[w] # NotSettling
  /\ marks' = marks \union events
  /\ settling' = [ settling EXCEPT ![w] = NotSettling ]
  /\ Finish(settling[w].event)

\* recordRefund.  An intent that has its refund already makes the insert, and
\* with it the mark, roll back; runOnceInTransaction takes that for a repeat.
RefundRow(w, i) ==
  /\ Commit(w, IF i \in refunds THEN {} ELSE { settling[w].event })
  /\ refunds' = refunds \union {i}
  /\ UNCHANGED << vars, gatewayVars, paidBy, crashes >>

SettleRefundOfDecided(w) ==
  LET i == EventOf[settling[w].event]
  IN  /\ settling[w] # NotSettling
      /\ ~Fits[i] \/ settling[w].read # "PENDING"
      /\ RefundRow(w, i)

SettleRefund(w) ==
  LET i == EventOf[settling[w].event]
  IN  /\ settling[w] # NotSettling
      /\ ~Fits[i] \/ settling[w].read = "CANCELLED"
      /\ RefundRow(w, i)

\* markPaid's UPDATE: one row if it is PENDING now, or none.
PaidRow(i, pending) ==
  LET o == IntentOf[i]
  IN  /\ IF pending
         THEN /\ order' = [ order EXCEPT ![o] = "PAID" ]
              /\ paidBy' = [ paidBy EXCEPT ![o] = i ]
         ELSE UNCHANGED << order, paidBy >>
      /\ UNCHANGED << stock, requestVars, clockVars, jobs, task, lost, faults,
                      gatewayVars, crashes >>

SettlePaidRevived(w) ==
  LET i == EventOf[settling[w].event]
  IN  /\ settling[w] # NotSettling
      /\ Fits[i] /\ settling[w].read # "CANCELLED"
      /\ PaidRow(i, TRUE)
      /\ Commit(w, { settling[w].event })
      /\ UNCHANGED refunds

SettlePaidOrRefund(w) ==
  LET i == EventOf[settling[w].event]
      pending == order[IntentOf[i]] = "PENDING"
  IN  /\ settling[w] # NotSettling
      /\ Fits[i] /\ settling[w].read # "CANCELLED"
      /\ PaidRow(i, pending)
      /\ Commit(w, { settling[w].event })
      /\ refunds' = IF pending THEN refunds ELSE refunds \union {i}

SettlePaidAnySum(w) ==
  LET i == EventOf[settling[w].event]
  IN  /\ settling[w] # NotSettling
      /\ settling[w].read # "CANCELLED"
      /\ PaidRow(i, order[IntentOf[i]] = "PENDING")
      /\ Commit(w, { settling[w].event })
      /\ UNCHANGED refunds

SettlePaidUnread(w) ==
  LET i == EventOf[settling[w].event]
  IN  /\ settling[w] # NotSettling
      /\ Fits[i]
      /\ PaidRow(i, order[IntentOf[i]] = "PENDING")
      /\ Commit(w, { settling[w].event })
      /\ UNCHANGED refunds

\* The other orders go on to markPaid, and the mark is committed whatever that
\* UPDATE found.
SettlePaid(w) ==
  LET i == EventOf[settling[w].event]
  IN  /\ settling[w] # NotSettling
      /\ Fits[i] /\ settling[w].read # "CANCELLED"
      /\ PaidRow(i, order[IntentOf[i]] = "PENDING")
      /\ Commit(w, { settling[w].event })
      /\ UNCHANGED refunds

\* The transaction rolls back; the job is retried or, after its fifth attempt,
\* left in the failed set.
SettleDiesMarked(w) ==
  /\ crashes < MaxCrashes
  /\ Commit(w, { settling[w].event })
  /\ crashes' = crashes + 1
  /\ UNCHANGED << vars, gatewayVars, paidBy, refunds >>

SettleDies(w) ==
  /\ crashes < MaxCrashes
  /\ Commit(w, {})
  /\ crashes' = crashes + 1
  /\ UNCHANGED << vars, gatewayVars, paidBy, refunds >>

\* The retention sweep deletes marks by their age alone; here of any age, so
\* that an event may come back after its mark has gone.
DeleteProcessedEvents ==
  /\ \E old \in SUBSET marks \ {{}} : marks' = marks \ old
  /\ UNCHANGED << vars, gatewayVars, queued, settling, paidBy, refunds, crashes >>

-----------------------------------------------------------------------------
Settle(w) ==
  \/ \E e \in Events : SettleBegin(w, e)
  \/ SettleRefund(w) \/ SettlePaid(w) \/ SettleDies(w)

PayNext ==
  \/ FlowNext /\ UNCHANGED payVars
  \/ \E i \in Intents : CreateIntent(i) \/ Charge(i)
  \/ \E e \in Events : Webhook(e) \/ SkipMarked(e)
  \/ \E w \in Workers : Settle(w)
  \/ DeleteProcessedEvents

PaySpec == PayInit /\ [][PayNext]_allVars

\* A waiting job is handed out and a transaction that began ends.
PayFairness ==
  /\ \A e \in Events : SF_allVars(\E w \in Workers : SettleBegin(w, e))
  /\ \A w \in Workers : WF_allVars(SettleRefund(w) \/ SettlePaid(w))

FairPaySpec == PaySpec /\ PayFairness

-----------------------------------------------------------------------------
\* An order is PAID by a charge that was made for it, of the right sum.
PaidByItsCharge ==
  \A o \in Requests :
    LET i == paidBy[o]
    IN  IF order[o] = "PAID"
        THEN i \in charged /\ IntentOf[i] = o /\ Fits[i]
        ELSE i = NoIntent

\* No charge is both kept for an order and put down for a refund, however
\* often and to however many workers its events are delivered.
KeptOrRefunded == \A o \in Requests : paidBy[o] \notin refunds

\* A refund is put down only for money that was taken and cannot be kept: a
\* wrong sum, or an order that is cancelled and stays so.
RefundIsDue ==
  \A i \in refunds :
    i \in charged /\ (~Fits[i] \/ order[IntentOf[i]] = "CANCELLED")

\* The mark commits together with the decision: an event that counts as
\* processed, and so is never processed again, has left its order decided or
\* its refund put down, whatever transaction failed and was retried.
MarkedIsDecided ==
  \A e \in marks :
    LET i == EventOf[e]
    IN  i \in refunds \/ order[IntentOf[i]] \in { "PAID", "CANCELLED" }

\* What the transaction read can be out of date in one direction only: the
\* order may have been decided since, never reopened.
ReadIsBehind ==
  \A w \in Workers :
    settling[w].event # NoEvent =>
      LET now == order[IntentOf[EventOf[settling[w].event]]]
      IN  settling[w].read # "NONE" /\ (settling[w].read # "PENDING" => now = settling[w].read)

\* The inductive invariant behind the payments.
PayInv ==
  /\ FlowInv /\ PayTypeOK /\ PaidByItsCharge /\ KeptOrRefunded /\ RefundIsDue
  /\ MarkedIsDecided /\ ReadIsBehind
  /\ \A e \in queued \union marks : EventOf[e] \in charged
  /\ \A w \in Workers : settling[w] # NotSettling =>
       settling[w].event # NoEvent /\ EventOf[settling[w].event] \in charged
  /\ \A i \in opened : order[IntentOf[i]] # "NONE"

\* When an event comes to count as processed its charge is refunded, is kept, or
\* finds the order paid; or a cancellation came between the transaction's
\* reading of a PENDING order and its markPaid.  There is no further way for a
\* charge to be passed over, however events are repeated and transactions fail.
ChargeIsDecided ==
  [][\A e \in marks' \ marks :
       LET i == EventOf[e]
           o == IntentOf[i]
       IN  \/ i \in refunds' \/ paidBy'[o] = i \/ order[o] = "PAID"
           \/ /\ order[o] = "CANCELLED"
              /\ \E w \in Workers : settling[w] = [ event |-> e, read |-> "PENDING" ]]_allVars

\* Settling is no more than the MarkPaid of OrderFlow: with payments the flow
\* still does what it does without, and keeps all of its properties.
KeepsFlow == Spec

\* A charge whose event finds the order cancelled gets its refund, unless the
\* job runs out of attempts.
LateChargeIsRefunded ==
  \A e \in Events :
    LET i == EventOf[e]
    IN  (/\ e \in queued \ marks
         /\ order[IntentOf[i]] = "CANCELLED"
         /\ \A w \in Workers : settling[w].event # e)
        ~> (i \in refunds \/ e \notin queued \union marks)

-----------------------------------------------------------------------------
(* What the repository says of the program and the program does not do.    *)

\* markPaid's caller "đọc lại trạng thái thật để quyết định (... CANCELLED thì
\* phải ghi yêu cầu hoàn tiền)" (order.repository.ts): an event would not count
\* as processed while its order is cancelled and no refund is put down.
CancelledChargeIsRefunded ==
  \A e \in marks :
    order[IntentOf[EventOf[e]]] = "CANCELLED" => EventOf[e] \in refunds

\* "Tiền thật đã chuyển thì hệ thống không được im lặng" (tech-playbook.md): a
\* charge whose event was processed would be kept for its order or refunded.
ChargeIsAccounted ==
  \A e \in marks :
    LET i == EventOf[e] IN order[IntentOf[i]] = "PAID" => paidBy[IntentOf[i]] = i \/ i \in refunds

=============================================================================
