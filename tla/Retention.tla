------------------------------ MODULE Retention ------------------------------
(***************************************************************************)
(* The hourly sweep that takes old rows out of outbox_events and           *)
(* processed_events while relays and notifiers of Outbox go on using them. *)
(* A sweep deletes in rounds that commit one by one, gives up after so     *)
(* many of them, and ends by counting the FAILED rows it never deletes.    *)
(*                                                                         *)
(* Age is DATA_RETENTION_DAYS.  olderThan is taken when a sweep begins, so *)
(* nothing gets old during one.  The DELETEs ask for the age alone; what   *)
(* an age of that many days rules out is assumed, in OutlastsResends and   *)
(* OutlastsStatements.                                                     *)
(***************************************************************************)
EXTENDS Outbox

CONSTANTS
  RetentionBatch, \* RETENTION_BATCH_SIZE
  MaxRounds       \* MAX_ROUNDS

ASSUME RetentionAssumption ==
  /\ RetentionBatch \in Nat \ {0}
  /\ MaxRounds \in Nat \ {0}

VARIABLES
  deleted,      \* events whose row was deleted from outbox_events
  oldRows,      \* rows with dispatched_at < olderThan
  oldMarks,     \* rows of processed_events with processed_at < olderThan
  sweep         \* what the sweep works on, and its rounds so far

sweepVars == << deleted, oldRows, oldMarks, sweep >>
retainVars == << outboxVars, sweepVars >>

\* No sweep runs, or one begins; taking olderThan is part of the first round.
NotSweeping == [ table |-> "outbox_events", round |-> 0 ]

RetainTypeOK ==
  /\ OutboxTypeOK
  /\ deleted \in SUBSET Events
  /\ oldRows \in SUBSET { e \in Events \ deleted : row[e] = "DISPATCHED" }
  /\ oldMarks \in SUBSET marks
  /\ sweep \in [ table : {"outbox_events", "processed_events"},
                 round : 0..(MaxRounds - 1) ]

RetainInit ==
  /\ OutboxInit
  /\ deleted = {} /\ oldRows = {} /\ oldMarks = {}
  /\ sweep = NotSweeping

-----------------------------------------------------------------------------
(* Days go by.                                                             *)

Blamed == UNION { relay[w].batch : w \in { v \in Relays : relay[v].stage = "blaming" } }

\* What can still make a job of e, or is one.
ComesBack(e) ==
  \/ row[e] \in {"NONE", "PENDING"} \/ e \in Blamed
  \/ jobs[e] > 0
  \/ \E n \in Notifiers : notifier[n].event = e

\* Assumed: DATA_RETENTION_DAYS is longer than every window in which an event
\* is sent again, as env.schema.ts 150-166 demands of whoever sets it.
OutlastsResends(e) == ~ComesBack(e)

\* Assumed: no relay is that many days about the statement that counts a failed
\* attempt.
OutlastsStatements(e) == e \notin Blamed

RowGetsOldAnyStatus(e) ==
  /\ sweep = NotSweeping
  /\ row[e] # "NONE" /\ e \notin deleted /\ OutlastsStatements(e)
  /\ oldRows' = oldRows \union {e}
  /\ UNCHANGED << outboxVars, deleted, oldMarks, sweep >>

RowGetsOld(e) ==
  /\ sweep = NotSweeping
  /\ row[e] = "DISPATCHED" /\ e \notin deleted /\ OutlastsStatements(e)
  /\ oldRows' = oldRows \union {e}
  /\ UNCHANGED << outboxVars, deleted, oldMarks, sweep >>

MarkGetsOld(e) ==
  /\ sweep = NotSweeping
  /\ e \in marks /\ OutlastsResends(e)
  /\ oldMarks' = oldMarks \union {e}
  /\ UNCHANGED << outboxVars, deleted, oldRows, sweep >>

-----------------------------------------------------------------------------
(* The sweep.                                                              *)

\* The rows one DELETE takes: of those that qualify, LIMIT of them.
RoundsOfAll(rows) == { IF Cardinality(rows) > RetentionBatch THEN {} ELSE rows }

Rounds(rows) ==
  { S \in SUBSET rows :
      \/ S = rows /\ Cardinality(S) < RetentionBatch
      \/ Cardinality(S) = RetentionBatch }

\* Only a full batch is followed by another one, MaxRounds at the most.
NextRound(batch, then) ==
  sweep' = IF Cardinality(batch) = RetentionBatch /\ sweep.round + 1 < MaxRounds
           THEN [sweep EXCEPT !.round = @ + 1]
           ELSE [ table |-> then, round |-> 0 ]

DeleteDispatchedOutbox ==
  /\ sweep.table = "outbox_events"
  /\ \E batch \in Rounds(oldRows) :
       /\ deleted' = deleted \union batch
       /\ oldRows' = oldRows \ batch
       /\ NextRound(batch, "processed_events")
  /\ UNCHANGED << outboxVars, oldMarks >>

DeleteProcessedEvents ==
  /\ sweep.table = "processed_events"
  /\ \E batch \in Rounds(oldMarks) :
       /\ marks' = marks \ batch
       /\ oldMarks' = oldMarks \ batch
       /\ NextRound(batch, "outbox_events")
  /\ UNCHANGED << relayVars, jobs, notifier, sent, givenUp, faults,
                  deleted, oldRows >>

\* The worker dies or a statement throws: finished rounds stay, the next
\* hour's job starts over.
SweepDies ==
  /\ faults < MaxFaults
  /\ sweep # NotSweeping
  /\ sweep' = NotSweeping
  /\ faults' = faults + 1
  /\ UNCHANGED << relayVars, notifyVars, jobs, deleted, oldRows, oldMarks >>

-----------------------------------------------------------------------------
Sweep ==
  \/ DeleteDispatchedOutbox \/ DeleteProcessedEvents \/ SweepDies

RetainNext ==
  \/ OutboxNext /\ UNCHANGED sweepVars
  \/ \E e \in Events : RowGetsOld(e) \/ MarkGetsOld(e)
  \/ Sweep

RetainSpec == RetainInit /\ [][RetainNext]_retainVars

\* The scheduler queues the sweep every hour and a sweep that runs goes on.
RetainFairness ==
  WF_retainVars(DeleteDispatchedOutbox \/ DeleteProcessedEvents)

FairRetainSpec == RetainSpec /\ RetainFairness /\ OutboxFairness

-----------------------------------------------------------------------------
\* The sweep deletes no row that somebody still has to work on or look at:
\* what it has deleted was DISPATCHED, got into the queue and is never taken up
\* by a relay again, though relays that fail write to rows they do not hold.
DeletedIsDone ==
  \A e \in deleted :
    /\ row[e] = "DISPATCHED" /\ pushes[e] > 0
    /\ \A w \in Relays : e \notin relay[w].batch

\* The mails as a buyer sees them.
Delivery == INSTANCE MailDelivery WITH
  Orders <- Events,
  placed <- { e \in Events : row[e] # "NONE" },
  asked  <- { e \in Events : pushes[e] > 0 }

\* Relays, queue, notifiers and sweep deliver mails as the promise has it: no
\* mail without its order or before it, and one step only that sends it, though
\* events are pushed again, jobs handed out again and marks deleted.
KeepsDelivery == Delivery!DeliverySpec

\* A row or a mark that is old goes away, also when there are more of them than
\* one sweep's rounds can take and sweeps die on the way.
OldGoesAway ==
  \A e \in Events :
    /\ e \in oldRows ~> e \in deleted
    /\ e \in oldMarks ~> e \notin marks

=============================================================================
