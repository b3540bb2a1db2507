------------------------------- MODULE Outbox -------------------------------
(***************************************************************************)
(* The way of an order.placed event from its outbox row to the buyer's     *)
(* mail.  Relays lock batches of PENDING rows, push a job for each and     *)
(* mark them DISPATCHED in one transaction; a batch that fails is counted  *)
(* against the rows by a statement outside of it.  Notifiers run the jobs, *)
(* which the queue delivers at least once: they put a mark down, send, and *)
(* take the mark back when sending failed.                                 *)
(*                                                                         *)
(* An event is named by its place in the order of created_at.              *)
(***************************************************************************)
EXTENDS Integers, FiniteSets

CONSTANTS
  Events,        \* rows of outbox_events
  Undeliverable, \* events whose buyer has no address that can be sent to
  Relays,        \* relayOnce calls that can overlap: worker, worker-once
  Notifiers,     \* slots that run order.email.confirm
  BatchSize,     \* OUTBOX_BATCH_SIZE
  MaxAttempts,   \* MAX_DISPATCH_ATTEMPTS
  MaxFaults,     \* bound on the failures and deaths
  NoEvent

ASSUME OutboxAssumption ==
  /\ Events \subseteq Nat /\ IsFiniteSet(Events)
  /\ Undeliverable \subseteq Events
  /\ BatchSize \in Nat \ {0}
  /\ MaxAttempts \in Nat \ {0}
  /\ MaxFaults \in Nat
  /\ NoEvent \notin Events

VARIABLES
  row,      \* row[e]: outbox_events.status, "NONE" before the order commits
  attempts, \* attempts[e]: outbox_events.attempts
  relay,    \* relay[w]: stage, rows it holds or blames, rows it has pushed
  jobs,     \* jobs[e]: undone order.email.confirm jobs of e in the queue
  marks,    \* rows of processed_events of the consumer order.email.confirm
  notifier, \* notifier[n]: stage and event
  sent,     \* sent[e]: history, mails sent
  pushes,   \* pushes[e]: history, calls of queue.add that got through
  givenUp,  \* history: events with a job in the failed set, or cut off by a death
  faults    \* history: how many failures and deaths there were

relayVars  == << row, attempts, relay, pushes >>
notifyVars == << marks, notifier, sent, givenUp >>
outboxVars == << row, attempts, relay, jobs, marks, notifier, sent, pushes,
                 givenUp, faults >>

Relay == [ stage : {"idle", "pushing", "failed", "blaming"},
           batch : SUBSET Events, pushed : SUBSET Events ]

IdleRelay == [ stage |-> "idle", batch |-> {}, pushed |-> {} ]

Notifier == [ stage : {"idle", "claimed", "sent", "releasing"},
              event : Events \union {NoEvent} ]

IdleNotifier == [ stage |-> "idle", event |-> NoEvent ]

\* Types; a relay has pushed no row but of its batch, and a row that reached
\* MAX_DISPATCH_ATTEMPTS failures is not tried once more.
OutboxTypeOK ==
  /\ row \in [Events -> {"NONE", "PENDING", "DISPATCHED", "FAILED"}]
  /\ attempts \in [Events -> Nat]
  /\ relay \in [Relays -> Relay]
  /\ \A w \in Relays : relay[w].pushed \subseteq relay[w].batch
  /\ \A e \in Events : row[e] = "PENDING" => attempts[e] < MaxAttempts
  /\ jobs \in [Events -> Nat]
  /\ marks \in SUBSET Events
  /\ notifier \in [Notifiers -> Notifier]
  /\ sent \in [Events -> Nat]
  /\ pushes \in [Events -> Nat]
  /\ givenUp \in SUBSET Events
  /\ faults \in 0..MaxFaults

OutboxInit ==
  /\ row = [e \in Events |-> "NONE"]
  /\ attempts = [e \in Events |-> 0]
  /\ relay = [w \in Relays |-> IdleRelay]
  /\ jobs = [e \in Events |-> 0]
  /\ marks = {}
  /\ notifier = [n \in Notifiers |-> IdleNotifier]
  /\ sent = [e \in Events |-> 0]
  /\ pushes = [e \in Events |-> 0]
  /\ givenUp = {}
  /\ faults = 0

-----------------------------------------------------------------------------
(* The relay.                                                              *)

\* The outbox row commits with its order, not always in created_at order.
Insert(e) ==
  /\ row[e] = "NONE"
  /\ row' = [row EXCEPT ![e] = "PENDING"]
  /\ UNCHANGED << attempts, relay, jobs, notifyVars, pushes, faults >>

\* ORDER BY created_at LIMIT.
Oldest(rows) ==
  { e \in rows : Cardinality({ d \in rows : d < e }) < BatchSize }

Pending == { e \in Events : row[e] = "PENDING" }

Locked == UNION { relay[w].batch : w \in { v \in Relays : relay[v].stage = "pushing" } }

\* SELECT ... FOR UPDATE SKIP LOCKED.
SelectBatchLocked(w) ==
  /\ relay[w].stage = "idle"
  /\ Pending # {}
  /\ relay' = [relay EXCEPT ![w] =
       [ stage |-> "pushing", batch |-> Oldest(Pending), pushed |-> {} ]]
  /\ UNCHANGED << row, attempts, jobs, notifyVars, pushes, faults >>

SelectBatchClogged(w) ==
  LET rows == { e \in Events : row[e] \in {"PENDING", "FAILED"} }
      batch == Oldest(rows \ Locked) \intersect Pending
  IN  /\ relay[w].stage = "idle"
      /\ batch # {}
      /\ relay' = [relay EXCEPT ![w] =
           [ stage |-> "pushing", batch |-> batch, pushed |-> {} ]]
      /\ UNCHANGED << row, attempts, jobs, notifyVars, pushes, faults >>

SelectBatch(w) ==
  /\ relay[w].stage = "idle"
  /\ Pending \ Locked # {}
  /\ relay' = [relay EXCEPT ![w] =
       [ stage |-> "pushing", batch |-> Oldest(Pending \ Locked), pushed |-> {} ]]
  /\ UNCHANGED << row, attempts, jobs, notifyVars, pushes, faults >>

\* queue.add of the next event of the batch; each call makes a job of its own.
Enqueue(e) ==
  /\ jobs' = [jobs EXCEPT ![e] = @ + 1]
  /\ pushes' = [pushes EXCEPT ![e] = @ + 1]

Push(w, e) ==
  /\ relay[w].stage = "pushing"
  /\ e \in relay[w].batch \ relay[w].pushed
  /\ \A d \in relay[w].batch \ relay[w].pushed : e <= d
  /\ Enqueue(e)
  /\ relay' = [relay EXCEPT ![w].pushed = @ \union {e}]
  /\ UNCHANGED << row, attempts, notifyVars, faults >>

\* The UPDATE and the commit, after the whole batch was pushed.
CommitFirst(w) ==
  /\ relay[w].stage = "pushing"
  /\ row' = [e \in Events |-> IF e \in relay[w].batch THEN "DISPATCHED" ELSE row[e]]
  /\ attempts' = [e \in Events |-> IF e \in relay[w].batch THEN attempts[e] + 1 ELSE attempts[e]]
  /\ relay' = [relay EXCEPT ![w] = IdleRelay]
  /\ UNCHANGED << jobs, notifyVars, pushes, faults >>

CommitBatch(w) ==
  /\ relay[w].stage = "pushing"
  /\ relay[w].pushed = relay[w].batch
  /\ row' = [e \in Events |-> IF e \in relay[w].batch THEN "DISPATCHED" ELSE row[e]]
  /\ attempts' = [e \in Events |-> IF e \in relay[w].batch THEN attempts[e] + 1 ELSE attempts[e]]
  /\ relay' = [relay EXCEPT ![w] = IdleRelay]
  /\ UNCHANGED << jobs, notifyVars, pushes, faults >>

\* queue.add throws, or the transaction runs into its limit of time: it rolls
\* back, and the catch of relayOnce comes next.
RelayThrows(w) ==
  /\ faults < MaxFaults
  /\ relay[w].stage = "pushing"
  /\ relay' = [relay EXCEPT ![w] =
       [ stage |-> "failed", batch |-> {}, pushed |-> {} ]]
  /\ faults' = faults + 1
  /\ UNCHANGED << row, attempts, jobs, notifyVars, pushes >>

\* recordDispatchFailure begins: its subquery takes the oldest rows that are
\* PENDING now, which need not be those of the batch and may be locked.
Blame(w) ==
  /\ relay[w].stage = "failed"
  /\ relay' = [relay EXCEPT ![w] =
       IF Pending = {} THEN IdleRelay
       ELSE [ stage |-> "blaming", batch |-> Oldest(Pending), pushed |-> {} ]]
  /\ UNCHANGED << row, attempts, jobs, notifyVars, pushes, faults >>

\* It ends when no relay holds these rows any more, whatever they have become.
RecordFailureOnce(w) ==
  LET blamed == relay[w].batch
  IN  /\ relay[w].stage = "blaming"
      /\ blamed \intersect Locked = {}
      /\ attempts' = [e \in Events |-> IF e \in blamed THEN attempts[e] + 1 ELSE attempts[e]]
      /\ row' = [e \in Events |->
           IF e \notin blamed THEN row[e]
           ELSE IF attempts[e] >= MaxAttempts THEN "FAILED" ELSE "PENDING"]
      /\ relay' = [relay EXCEPT ![w] = IdleRelay]
      /\ UNCHANGED << jobs, notifyVars, pushes, faults >>

RecordFailure(w) ==
  LET blamed == relay[w].batch
  IN  /\ relay[w].stage = "blaming"
      /\ blamed \intersect Locked = {}
      /\ attempts' = [e \in Events |-> IF e \in blamed THEN attempts[e] + 1 ELSE attempts[e]]
      /\ row' = [e \in Events |->
           IF e \notin blamed THEN row[e]
           ELSE IF attempts[e] + 1 >= MaxAttempts THEN "FAILED" ELSE "PENDING"]
      /\ relay' = [relay EXCEPT ![w] = IdleRelay]
      /\ UNCHANGED << jobs, notifyVars, pushes, faults >>

\* The process dies: rollback, and nobody counts the failure.
RelayDies(w) ==
  /\ faults < MaxFaults
  /\ relay[w].stage # "idle"
  /\ faults' = faults + 1
  /\ relay' = [relay EXCEPT ![w] = IdleRelay]
  /\ UNCHANGED << row, attempts, jobs, notifyVars, pushes >>

-----------------------------------------------------------------------------
(* The notifier.                                                           *)

NotifierAt(n, stage) == notifier[n].stage = stage

\* A job that ends leaves the queue, unless its acknowledgement is lost.
EndJob(e) ==
  jobs' \in { jobs, [jobs EXCEPT ![e] = IF @ > 0 THEN @ - 1 ELSE 0] }

\* A job is handed out, also while its first run is still going, and the
\* insert of the mark gets through.
ClaimAgain(n, e) ==
  /\ NotifierAt(n, "idle")
  /\ jobs[e] > 0 /\ \A m \in Notifiers : notifier[m].event # e
  /\ marks' = marks \union {e}
  /\ notifier' = [notifier EXCEPT ![n] = [ stage |-> "claimed", event |-> e ]]
  /\ UNCHANGED << relayVars, jobs, sent, givenUp, faults >>

Claim(n, e) ==
  /\ NotifierAt(n, "idle")
  /\ jobs[e] > 0 /\ e \notin marks
  /\ marks' = marks \union {e}
  /\ notifier' = [notifier EXCEPT ![n] = [ stage |-> "claimed", event |-> e ]]
  /\ UNCHANGED << relayVars, jobs, sent, givenUp, faults >>

\* The mark is there: the job counts as done.
SkipRepeat(n, e) ==
  /\ NotifierAt(n, "idle")
  /\ jobs[e] > 0 /\ e \in marks
  /\ jobs' = [jobs EXCEPT ![e] = @ - 1]
  /\ UNCHANGED << relayVars, notifyVars, faults >>

\* The address is found and the sender takes the mail.
Send(n) ==
  LET e == notifier[n].event
  IN  /\ NotifierAt(n, "claimed") /\ e \notin Undeliverable
      /\ sent' = [sent EXCEPT ![e] = @ + 1]
      /\ notifier' = [notifier EXCEPT ![n].stage = "sent"]
      /\ UNCHANGED << relayVars, jobs, marks, givenUp, faults >>

Finish(n) ==
  LET e == notifier[n].event
  IN  /\ NotifierAt(n, "sent")
      /\ EndJob(e)
      /\ notifier' = [notifier EXCEPT ![n] = IdleNotifier]
      /\ UNCHANGED << relayVars, marks, sent, givenUp, faults >>

\* PermanentMailError: the mark stays, the job goes to the failed set.
SendRefused(n) ==
  LET e == notifier[n].event
  IN  /\ NotifierAt(n, "claimed") /\ e \in Undeliverable
      /\ EndJob(e)
      /\ givenUp' = givenUp \union {e}
      /\ notifier' = [notifier EXCEPT ![n] = IdleNotifier]
      /\ UNCHANGED << relayVars, marks, sent, faults >>

\* Any other error.
SendThrows(n) ==
  /\ faults < MaxFaults
  /\ NotifierAt(n, "claimed")
  /\ notifier' = [notifier EXCEPT ![n].stage = "releasing"]
  /\ faults' = faults + 1
  /\ UNCHANGED << relayVars, jobs, marks, sent, givenUp >>

\* The mark is taken back and the job fails: to be retried, or for good after
\* its fifth attempt.  A job that is not in the queue any more is not retried.
ReleaseForgotten(n) ==
  /\ NotifierAt(n, "releasing")
  /\ notifier' = [notifier EXCEPT ![n] = IdleNotifier]
  /\ UNCHANGED << relayVars, jobs, marks, sent, givenUp, faults >>

Release(n) ==
  LET e == notifier[n].event
  IN  /\ NotifierAt(n, "releasing")
      /\ marks' = marks \ {e}
      /\ \/ UNCHANGED << jobs, givenUp >>
         \/ /\ jobs[e] > 0
            /\ jobs' = [jobs EXCEPT ![e] = @ - 1]
            /\ givenUp' = givenUp \union {e}
      /\ notifier' = [notifier EXCEPT ![n] = IdleNotifier]
      /\ UNCHANGED << relayVars, sent, faults >>

\* The process dies, or the release throws: what mark it had put down stays.
NotifierDies(n) ==
  /\ faults < MaxFaults
  /\ ~NotifierAt(n, "idle")
  /\ faults' = faults + 1
  /\ givenUp' = IF NotifierAt(n, "sent") THEN givenUp
                ELSE givenUp \union { notifier[n].event }
  /\ notifier' = [notifier EXCEPT ![n] = IdleNotifier]
  /\ UNCHANGED << relayVars, jobs, marks, sent >>

-----------------------------------------------------------------------------
RelayOnce(w) ==
  \/ SelectBatch(w) \/ CommitBatch(w) \/ RelayThrows(w) \/ Blame(w)
  \/ RecordFailure(w) \/ RelayDies(w)
  \/ \E e \in Events : Push(w, e)

SendConfirmation(n) ==
  \/ Send(n) \/ Finish(n) \/ SendRefused(n) \/ SendThrows(n) \/ Release(n)
  \/ NotifierDies(n)
  \/ \E e \in Events : Claim(n, e) \/ SkipRepeat(n, e)

OutboxNext ==
  \/ \E e \in Events : Insert(e)
  \/ \E w \in Relays : RelayOnce(w)
  \/ \E n \in Notifiers : SendConfirmation(n)

OutboxSpec == OutboxInit /\ [][OutboxNext]_outboxVars

\* The relay is scheduled again and again, and a relay or a notifier that runs
\* goes on; a waiting job is handed out.
OutboxFairness ==
  /\ WF_outboxVars(\E w \in Relays : SelectBatch(w))
  /\ \A w \in Relays :
       /\ WF_outboxVars(\E e \in Events : Push(w, e))
       /\ WF_outboxVars(CommitBatch(w))
       /\ WF_outboxVars(Blame(w))
       /\ WF_outboxVars(RecordFailure(w))
  /\ \A n \in Notifiers :
       WF_outboxVars(Send(n) \/ Finish(n) \/ SendRefused(n) \/ Release(n))
  /\ \A e \in Events : SF_outboxVars(\E n \in Notifiers : Claim(n, e))

FairOutboxSpec == OutboxSpec /\ OutboxFairness

-----------------------------------------------------------------------------
\* A buyer gets one mail for an order at most, though the relay may push its
\* event several times, the queue may hand a job out twice and acknowledgements
\* are lost.
MailedAtMostOnce == \A e \in Events : sent[e] <= 1

\* An event whose row says DISPATCHED did get into the queue, whenever the
\* relay died or threw.
DispatchedWasPushed == \A e \in Events : row[e] = "DISPATCHED" => pushes[e] > 0

\* Relays that overlap share the rows: without a failure no event is pushed
\* twice.
PushedTwiceByFailure == \A e \in Events : pushes[e] > 1 => faults > 0

OneSlot == \A m, n \in Notifiers : m = n

\* A mail whose row says DISPATCHED, or that was asked for, is still to be sent,
\* was sent, or is where one can look for it, wherever relays and sending threw
\* and processes died: with one slot for the jobs always, with several (see
\* README) as long as nothing fails.
MailIsNotLost ==
  OneSlot \/ faults = 0 =>
    \A e \in Events \ Undeliverable :
      row[e] = "DISPATCHED" \/ pushes[e] > 0 =>
        \/ jobs[e] > 0 \/ sent[e] > 0 \/ e \in givenUp
        \/ \E n \in Notifiers : notifier[n].event = e

\* Every row leaves PENDING, whatever became of the rows before it.
PendingIsResolved ==
  \A e \in Events : row[e] = "PENDING" ~> row[e] \in {"DISPATCHED", "FAILED"}

\* Where one slot runs the jobs, a mail that can be sent goes out, though
\* sending fails for a while, unless the job runs out of attempts or a process
\* dies between the mark and the mail.
MailGoesOut ==
  \A e \in Events \ Undeliverable : jobs[e] > 0 ~> sent[e] = 1 \/ e \in givenUp

-----------------------------------------------------------------------------
(* What the repository says of the program and the program does not do.    *)

\* "DISPATCHED /// đã đẩy, không xử lý lại" (schema.prisma): no later step
\* would take the row up again.
DispatchedIsFinal ==
  [][\A e \in Events : row[e] = "DISPATCHED" => row'[e] = "DISPATCHED"]_row

=============================================================================
