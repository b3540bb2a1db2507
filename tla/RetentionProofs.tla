--------------------------- MODULE RetentionProofs ---------------------------
(* What Outbox and Retention promise, for any events, relays, notifiers,   *)
(* batches, attempts and failures.                                         *)
EXTENDS Retention, TLAPS

USE OutboxAssumption
USE RetentionAssumption

\* Relays: who is at rest holds nothing; a batch that is being pushed is locked
\* and so nobody else's, and its rows are PENDING; what counts as pushed is.
RelaysHold ==
  /\ \A w \in Relays :
       /\ relay[w].stage \in {"idle", "failed"} => relay[w].batch = {}
       /\ \A e \in relay[w].batch :
            /\ row[e] # "NONE"
            /\ relay[w].stage = "pushing" => row[e] = "PENDING"
       /\ \A e \in relay[w].pushed : pushes[e] > 0
  /\ \A v, w \in Relays :
       v # w /\ relay[v].stage = "pushing" /\ relay[w].stage = "pushing"
         => relay[v].batch \intersect relay[w].batch = {}

\* A row that has not been written has not failed.
NotWrittenNotTried == \A e \in Events : row[e] = "NONE" => attempts[e] = 0

\* No relay has e, or will take it up: neither its batch nor a failure does.
LeftAlone(e) == row[e] = "DISPATCHED" /\ \A w \in Relays : e \notin relay[w].batch

OldIsLeftAlone == \A e \in oldRows \union deleted : LeftAlone(e)

\* Notifiers: one at a time has an event, while its mark is there, and before it
\* sends nothing was sent.
NotifiersHold ==
  /\ \A n \in Notifiers :
       /\ notifier[n].stage = "idle" => notifier[n].event = NoEvent
       /\ notifier[n].stage # "idle" => notifier[n].event \in marks
       /\ notifier[n].stage \in {"claimed", "releasing"} => sent[notifier[n].event] = 0
  /\ \A m, n \in Notifiers : m # n /\ notifier[m].event = notifier[n].event
       => notifier[n].event = NoEvent

\* Nothing makes a job of e any more.
NeverComesBack(e) ==
  /\ row[e] \in {"DISPATCHED", "FAILED"} /\ \A w \in Relays : e \notin relay[w].batch
  /\ jobs[e] = 0
  /\ \A n \in Notifiers : notifier[n].event # e

\* So a mark that is old, or gone although the mail went out, is not missed.
MarkIsNotMissed ==
  \A e \in Events :
    e \in oldMarks \/ (sent[e] > 0 /\ e \notin marks) => NeverComesBack(e)

RetainInv ==
  /\ RetainTypeOK
  /\ RelaysHold /\ NotWrittenNotTried /\ DispatchedWasPushed /\ OldIsLeftAlone
  /\ NotifiersHold /\ MarkIsNotMissed /\ MailedAtMostOnce

-----------------------------------------------------------------------------
LEMMA RetainStart == RetainInit => RetainInv
<1> SUFFICES ASSUME RetainInit PROVE RetainInv
  OBVIOUS
<1> USE DEF RetainInit, OutboxInit, IdleRelay, IdleNotifier
<1>1. OutboxTypeOK
  <2>1. relay \in [Relays -> Relay] /\ notifier \in [Notifiers -> Notifier]
    BY DEF Relay, Notifier
  <2> QED BY <2>1 DEF OutboxTypeOK
<1>2. RetainTypeOK
  BY <1>1 DEF RetainTypeOK, NotSweeping
<1>3. RelaysHold /\ NotWrittenNotTried /\ DispatchedWasPushed /\ OldIsLeftAlone
  BY DEF RelaysHold, NotWrittenNotTried, DispatchedWasPushed, OldIsLeftAlone
<1>4. NotifiersHold /\ MarkIsNotMissed /\ MailedAtMostOnce
  BY DEF NotifiersHold, MarkIsNotMissed, MailedAtMostOnce
<1> QED BY <1>2, <1>3, <1>4 DEF RetainInv

-----------------------------------------------------------------------------
(* The relay. *)

\* What the relays share.
RelayTypes ==
  /\ row \in [Events -> {"NONE", "PENDING", "DISPATCHED", "FAILED"}]
  /\ attempts \in [Events -> Nat]
  /\ relay \in [Relays -> Relay]
  /\ \A w \in Relays : relay[w].pushed \subseteq relay[w].batch
  /\ \A e \in Events : row[e] = "PENDING" => attempts[e] < MaxAttempts
  /\ jobs \in [Events -> Nat] /\ pushes \in [Events -> Nat]

RelayInv ==
  RelayTypes /\ RelaysHold /\ NotWrittenNotTried /\ DispatchedWasPushed

LEMMA RelayKeepsInv ==
  ASSUME RelayInv, NEW w \in Relays, RelayOnce(w)
  PROVE  RelayInv'
<1> USE DEF RelayInv, Relay, IdleRelay
<1>1. CASE SelectBatch(w)
  <2>1. /\ relay[w].stage = "idle"
        /\ relay' = [relay EXCEPT ![w] =
             [ stage |-> "pushing", batch |-> Oldest(Pending \ Locked), pushed |-> {} ]]
        /\ UNCHANGED << row, attempts, jobs, pushes >>
    BY <1>1 DEF SelectBatch
  <2>2. Oldest(Pending \ Locked) \subseteq Pending \ Locked /\ Pending \subseteq Events
    BY DEF Oldest, Pending
  <2>3. \A v \in Relays : relay[v].stage = "pushing" => relay[v].batch \subseteq Locked
    BY DEF Locked
  <2>4. RelayTypes'
    BY <2>1, <2>2 DEF RelayTypes
  <2>5. RelaysHold'
    BY <2>1, <2>2, <2>3 DEF RelaysHold, RelayTypes, Pending
  <2> QED BY <2>1, <2>4, <2>5 DEF NotWrittenNotTried, DispatchedWasPushed
<1>2. ASSUME NEW e \in Events, Push(w, e) PROVE RelayInv'
  <2>1. /\ relay[w].stage = "pushing" /\ e \in relay[w].batch
        /\ relay' = [relay EXCEPT ![w].pushed = @ \union {e}]
        /\ jobs' = [jobs EXCEPT ![e] = @ + 1]
        /\ pushes' = [pushes EXCEPT ![e] = @ + 1]
        /\ UNCHANGED << row, attempts >>
    BY <1>2 DEF Push, Enqueue
  <2>2. /\ \A v \in Relays : relay'[v].stage = relay[v].stage /\ relay'[v].batch = relay[v].batch
        /\ relay'[w].pushed = relay[w].pushed \union {e}
        /\ \A v \in Relays : v # w => relay'[v].pushed = relay[v].pushed
        /\ relay' \in [Relays -> Relay]
    BY <2>1 DEF RelayTypes
  <2>3. /\ \A d \in Events : pushes[d] > 0 => pushes'[d] > 0
        /\ pushes'[e] > 0
        /\ jobs' \in [Events -> Nat] /\ pushes' \in [Events -> Nat]
    BY <2>1 DEF RelayTypes
  <2>4. RelayTypes'
    BY <2>1, <2>2, <2>3 DEF RelayTypes
  <2>5. RelaysHold'
    <3>1. \A v \in Relays : relay[v].pushed \subseteq Events
      BY DEF RelayTypes
    <3> QED BY <2>1, <2>2, <2>3, <3>1 DEF RelaysHold
  <2> QED BY <2>1, <2>3, <2>4, <2>5 DEF NotWrittenNotTried, DispatchedWasPushed
<1>3. CASE CommitBatch(w)
  <2> DEFINE batch == relay[w].batch
  <2>1. /\ relay[w].stage = "pushing" /\ relay[w].pushed = batch
        /\ row' = [e \in Events |-> IF e \in batch THEN "DISPATCHED" ELSE row[e]]
        /\ attempts' = [e \in Events |-> IF e \in batch THEN attempts[e] + 1 ELSE attempts[e]]
        /\ relay' = [relay EXCEPT ![w] = IdleRelay]
        /\ UNCHANGED << jobs, pushes >>
    BY <1>3 DEF CommitBatch
  <2>2. /\ \A e \in batch : pushes[e] > 0
        /\ \A v \in Relays : v # w /\ relay[v].stage = "pushing" => relay[v].batch \intersect batch = {}
    BY <2>1 DEF RelaysHold
  <2> HIDE DEF batch
  <2>3. RelayTypes'
    BY <2>1 DEF RelayTypes
  <2>4. RelaysHold'
    BY <2>1, <2>2 DEF RelaysHold, RelayTypes
  <2>5. NotWrittenNotTried' /\ DispatchedWasPushed'
    BY <2>1, <2>2 DEF NotWrittenNotTried, DispatchedWasPushed
  <2> QED BY <2>3, <2>4, <2>5
<1>4. CASE RelayThrows(w) \/ RelayDies(w)
  <2>1. PICK stage \in {"idle", "failed"} :
          /\ relay' = [relay EXCEPT ![w] = [ stage |-> stage, batch |-> {}, pushed |-> {} ]]
          /\ UNCHANGED << row, attempts, jobs, pushes >>
    BY <1>4 DEF RelayThrows, RelayDies
  <2> DEFINE empty == [ stage |-> stage, batch |-> {}, pushed |-> {} ]
  <2>2. empty \in Relay /\ empty.pushed \subseteq empty.batch
    OBVIOUS
  <2>3. relay' = [relay EXCEPT ![w] = empty] /\ empty.batch = {} /\ empty.pushed = {}
        /\ empty.stage # "pushing"
    BY <2>1
  <2> HIDE DEF empty
  <2>4. RelayTypes'
    BY <2>1, <2>2, <2>3 DEF RelayTypes
  <2>5. RelaysHold'
    BY <2>1, <2>3 DEF RelaysHold, RelayTypes
  <2> QED BY <2>1, <2>4, <2>5 DEF NotWrittenNotTried, DispatchedWasPushed
<1>5. CASE Blame(w)
  <2>1. Oldest(Pending) \subseteq Pending /\ Pending \subseteq Events
    BY DEF Oldest, Pending
  <2>2. PICK stage \in {"idle", "blaming"}, batch \in SUBSET Pending :
          /\ relay' = [relay EXCEPT ![w] = [ stage |-> stage, batch |-> batch, pushed |-> {} ]]
          /\ stage = "idle" => batch = {}
          /\ UNCHANGED << row, attempts, jobs, pushes >>
    <3>1. {} \in SUBSET Pending /\ Oldest(Pending) \in SUBSET Pending
      BY <2>1
    <3> QED BY <1>5, <3>1 DEF Blame
  <2>3. batch \subseteq Events /\ \A e \in batch : row[e] = "PENDING"
    BY DEF Pending
  <2> DEFINE hands == [ stage |-> stage, batch |-> batch, pushed |-> {} ]
  <2>4. hands \in Relay /\ hands.pushed = {} /\ hands.stage = stage /\ hands.batch = batch
    BY <2>3
  <2>5. relay' = [relay EXCEPT ![w] = hands]
    BY <2>2
  <2> HIDE DEF hands
  <2>6. RelayTypes'
    BY <2>2, <2>4, <2>5 DEF RelayTypes
  <2>7. RelaysHold'
    BY <2>2, <2>3, <2>4, <2>5 DEF RelaysHold, RelayTypes
  <2> QED BY <2>2, <2>6, <2>7 DEF NotWrittenNotTried, DispatchedWasPushed
<1>6. CASE RecordFailure(w)
  <2> DEFINE blamed == relay[w].batch
  <2>1. /\ relay[w].stage = "blaming" /\ blamed \intersect Locked = {}
        /\ attempts' = [e \in Events |-> IF e \in blamed THEN attempts[e] + 1 ELSE attempts[e]]
        /\ row' = [e \in Events |->
             IF e \notin blamed THEN row[e]
             ELSE IF attempts[e] + 1 >= MaxAttempts THEN "FAILED" ELSE "PENDING"]
        /\ relay' = [relay EXCEPT ![w] = IdleRelay]
        /\ UNCHANGED << jobs, pushes >>
    BY <1>6 DEF RecordFailure
  <2>2. \A v \in Relays : relay[v].stage = "pushing" => relay[v].batch \intersect blamed = {}
    BY <2>1 DEF Locked
  <2>3. \A e \in blamed : row[e] # "NONE"
    BY DEF RelaysHold
  <2> HIDE DEF blamed
  <2>4. RelayTypes'
    BY <2>1 DEF RelayTypes
  <2>5. RelaysHold'
    BY <2>1, <2>2 DEF RelaysHold, RelayTypes
  <2>6. NotWrittenNotTried' /\ DispatchedWasPushed'
    BY <2>1, <2>3 DEF NotWrittenNotTried, DispatchedWasPushed
  <2> QED BY <2>4, <2>5, <2>6
<1> QED BY <1>1, <1>2, <1>3, <1>4, <1>5, <1>6 DEF RelayOnce

\* What is dispatched or failed and in no relay's hands stays so: only such rows
\* are pushed and blamed as a relay selected while they were PENDING.
LEMMA RelayLeavesAlone ==
  ASSUME RelayInv, NEW w \in Relays, RelayOnce(w), NEW e \in Events,
         row[e] \in {"DISPATCHED", "FAILED"},
         \A v \in Relays : e \notin relay[v].batch
  PROVE  /\ row'[e] = row[e] /\ jobs'[e] = jobs[e]
         /\ \A v \in Relays : e \notin relay'[v].batch
<1> USE DEF RelayInv, RelayTypes, Relay, IdleRelay
<1>1. e \notin Pending /\ \A S \in SUBSET Pending : e \notin Oldest(S)
  BY DEF Pending, Oldest
<1>2. CASE SelectBatch(w)
  BY <1>1, <1>2 DEF SelectBatch
<1>3. ASSUME NEW d \in Events, Push(w, d)
      PROVE  /\ row'[e] = row[e] /\ jobs'[e] = jobs[e]
             /\ \A v \in Relays : e \notin relay'[v].batch
  BY <1>3 DEF Push, Enqueue
<1>4. CASE CommitBatch(w)
  BY <1>4 DEF CommitBatch
<1>5. CASE RelayThrows(w) \/ RelayDies(w)
  BY <1>5 DEF RelayThrows, RelayDies
<1>6. CASE Blame(w)
  BY <1>1, <1>6 DEF Blame
<1>7. CASE RecordFailure(w)
  BY <1>7 DEF RecordFailure
<1> QED BY <1>2, <1>3, <1>4, <1>5, <1>6, <1>7 DEF RelayOnce

\* What a relay leaves to the others.
LEMMA RelayLeavesRest ==
  ASSUME NEW w \in Relays, RelayOnce(w), faults \in 0..MaxFaults
  PROVE  /\ UNCHANGED << marks, notifier, sent, givenUp >>
         /\ faults' \in 0..MaxFaults
  BY DEF RelayOnce, SelectBatch, Push, CommitBatch, RelayThrows, Blame,
         RecordFailure, RelayDies, notifyVars

LEMMA InsertKeepsInv ==
  ASSUME RelayInv, NEW e \in Events, Insert(e)
  PROVE  RelayInv'
<1>1. /\ row[e] = "NONE" /\ row' = [row EXCEPT ![e] = "PENDING"]
      /\ UNCHANGED << attempts, relay, jobs, pushes >>
  BY DEF Insert
<1>2. attempts[e] < MaxAttempts
  BY <1>1 DEF RelayInv, NotWrittenNotTried
<1>3. RelayTypes'
  BY <1>1, <1>2 DEF RelayInv, RelayTypes
<1>4. RelaysHold'
  BY <1>1 DEF RelayInv, RelaysHold, RelayTypes, Relay
<1> QED BY <1>1, <1>3, <1>4 DEF RelayInv, RelayTypes, NotWrittenNotTried, DispatchedWasPushed

\* The relay's side of a step, for what the sweep and the notifiers rely on.
LEMMA RelaySideKeepsInv ==
  ASSUME RetainInv, UNCHANGED sweepVars,
         \/ \E e \in Events : Insert(e)
         \/ \E w \in Relays : RelayOnce(w)
  PROVE  RetainInv'
<1> USE DEF RetainInv, RetainTypeOK, OutboxTypeOK, sweepVars
<1>1. RelayInv
  BY DEF RelayInv, RelayTypes
<1>2. RelayInv'
  BY <1>1, InsertKeepsInv, RelayKeepsInv
<1>3. /\ UNCHANGED << marks, notifier, sent, givenUp >> /\ faults' \in 0..MaxFaults
  <2>1. ASSUME NEW e \in Events, Insert(e)
        PROVE  UNCHANGED << marks, notifier, sent, givenUp, faults >>
    BY <2>1 DEF Insert, notifyVars
  <2> QED BY <2>1, RelayLeavesRest
<1>4. ASSUME NEW e \in Events, row[e] \in {"DISPATCHED", "FAILED"},
             \A v \in Relays : e \notin relay[v].batch
      PROVE  /\ row'[e] = row[e] /\ jobs'[e] = jobs[e]
             /\ \A v \in Relays : e \notin relay'[v].batch
  <2>1. ASSUME NEW d \in Events, Insert(d)
        PROVE  row'[e] = row[e] /\ UNCHANGED << jobs, relay >>
    BY <1>4, <2>1 DEF Insert
  <2> QED BY <1>1, <1>4, <2>1, RelayLeavesAlone
<1>5. oldRows \subseteq Events /\ deleted \subseteq Events
  OBVIOUS
<1>6. OldIsLeftAlone'
  BY <1>4, <1>5 DEF OldIsLeftAlone, LeftAlone
<1>7. NotifiersHold' /\ MailedAtMostOnce'
  BY <1>3 DEF NotifiersHold, MailedAtMostOnce
<1>8. MarkIsNotMissed'
  BY <1>3, <1>4 DEF MarkIsNotMissed, NeverComesBack
<1>9. RetainTypeOK'
  <2>1. OutboxTypeOK'
    BY <1>2, <1>3 DEF RelayInv, RelayTypes
  <2>2. oldRows' \in SUBSET { e \in Events \ deleted' : row'[e] = "DISPATCHED" }
    BY <1>5, <1>6 DEF OldIsLeftAlone, LeftAlone
  <2> QED BY <1>3, <2>1, <2>2
<1> QED BY <1>2, <1>6, <1>7, <1>8, <1>9 DEF RelayInv

-----------------------------------------------------------------------------
(* The notifier. *)

\* What the notifiers share with the queue and the sweep.
NotifierTypes ==
  /\ jobs \in [Events -> Nat] /\ sent \in [Events -> Nat]
  /\ marks \in SUBSET Events /\ oldMarks \in SUBSET marks
  /\ notifier \in [Notifiers -> Notifier]
  /\ givenUp \in SUBSET Events
  /\ faults \in 0..MaxFaults

NotifierInv == NotifierTypes /\ NotifiersHold /\ MarkIsNotMissed /\ MailedAtMostOnce

\* A notifier that puts its event down.
LEMMA NotifierLetsGo ==
  ASSUME NotifierInv, NEW n \in Notifiers,
         notifier' = [notifier EXCEPT ![n] = IdleNotifier],
         UNCHANGED << row, relay, sent, oldMarks >>,
         jobs' \in [Events -> Nat], \A e \in Events : jobs[e] = 0 => jobs'[e] = 0,
         marks' \in SUBSET Events, marks \ {notifier[n].event} \subseteq marks',
         marks' \subseteq marks, notifier[n].event \in marks, 
         notifier[n].event \in marks' \/ sent[notifier[n].event] = 0,
         givenUp' \in SUBSET Events, faults' \in 0..MaxFaults
  PROVE  NotifierInv'
<1> USE DEF NotifierInv, NotifierTypes, Notifier, IdleNotifier
<1> DEFINE held == notifier[n].event
<1>1. held \in Events /\ held \notin oldMarks
  BY DEF MarkIsNotMissed, NeverComesBack
<1>2. \A m \in Notifiers : m # n => notifier'[m] = notifier[m] /\ notifier'[m].event # held
  BY <1>1 DEF NotifiersHold
<1>3. notifier'[n] = IdleNotifier
  OBVIOUS
<1>4. NotifierTypes'
  BY <1>1
<1>5. NotifiersHold'
  BY <1>1, <1>2, <1>3 DEF NotifiersHold
<1>6. MarkIsNotMissed'
  BY <1>1, <1>2, <1>3 DEF MarkIsNotMissed, NeverComesBack
<1> QED BY <1>4, <1>5, <1>6 DEF MailedAtMostOnce

LEMMA EndJobCounts ==
  ASSUME jobs \in [Events -> Nat], NEW e \in Events, EndJob(e)
  PROVE  jobs' \in [Events -> Nat] /\ \A d \in Events : jobs[d] = 0 => jobs'[d] = 0
<1>1. jobs' = jobs \/ jobs' = [jobs EXCEPT ![e] = IF jobs[e] > 0 THEN jobs[e] - 1 ELSE 0]
  BY DEF EndJob
<1>2. (IF jobs[e] > 0 THEN jobs[e] - 1 ELSE 0) \in Nat
  OBVIOUS
<1> QED BY <1>1, <1>2

LEMMA NotifierKeepsInv ==
  ASSUME NotifierInv, NEW n \in Notifiers, SendConfirmation(n), UNCHANGED sweepVars
  PROVE  NotifierInv'
<1> USE DEF NotifierInv, NotifierTypes, Notifier, NotifierAt, sweepVars
<1> DEFINE held == notifier[n].event
<1>1. notifier[n].stage # "idle" => held \in Events /\ held \in marks
  BY DEF NotifiersHold
<1>2. UNCHANGED << row, relay >>
  BY DEF SendConfirmation, Send, Finish, SendRefused, SendThrows, Release,
         NotifierDies, Claim, SkipRepeat, relayVars
<1>3. ASSUME NEW e \in Events, Claim(n, e) PROVE NotifierInv'
  <2>1. /\ notifier[n].stage = "idle" /\ jobs[e] > 0 /\ e \notin marks
        /\ marks' = marks \union {e}
        /\ notifier' = [notifier EXCEPT ![n] = [ stage |-> "claimed", event |-> e ]]
        /\ UNCHANGED << jobs, sent, givenUp, faults, oldMarks >>
    BY <1>3 DEF Claim
  <2>2. sent[e] = 0
    BY <2>1 DEF MarkIsNotMissed, NeverComesBack
  <2>3. \A m \in Notifiers : notifier[m].event # e
    BY <2>1 DEF NotifiersHold
  <2>4. NotifiersHold'
    BY <2>1, <2>2, <2>3 DEF NotifiersHold
  <2>5. MarkIsNotMissed'
    BY <1>2, <2>1 DEF MarkIsNotMissed, NeverComesBack
  <2> QED BY <2>1, <2>4, <2>5 DEF MailedAtMostOnce
<1>4. ASSUME NEW e \in Events, SkipRepeat(n, e) PROVE NotifierInv'
  <2>1. /\ jobs[e] > 0 /\ jobs' = [jobs EXCEPT ![e] = jobs[e] - 1]
        /\ UNCHANGED << marks, notifier, sent, givenUp, faults, oldMarks >>
    BY <1>4 DEF SkipRepeat, notifyVars
  <2>2. jobs' \in [Events -> Nat] /\ \A d \in Events : jobs[d] = 0 => jobs'[d] = 0
    <3>1. jobs[e] - 1 \in Nat
      BY <2>1
    <3> QED BY <2>1, <3>1
  <2> QED BY <1>2, <2>1, <2>2 DEF NotifiersHold, MarkIsNotMissed, NeverComesBack, MailedAtMostOnce
<1>5. CASE Send(n) \/ SendThrows(n)
  <2>1. PICK stage \in {"sent", "releasing"} :
          /\ notifier[n].stage = "claimed"
          /\ notifier' = [notifier EXCEPT ![n].stage = stage]
          /\ sent' = IF stage = "sent" THEN [sent EXCEPT ![held] = sent[held] + 1] ELSE sent
          /\ faults' \in 0..MaxFaults
          /\ UNCHANGED << jobs, marks, givenUp, oldMarks >>
    BY <1>5 DEF Send, SendThrows
  <2>2. /\ \A m \in Notifiers : notifier'[m].event = notifier[m].event
        /\ \A m \in Notifiers : m # n => notifier'[m].stage = notifier[m].stage
        /\ notifier'[n].stage = stage
        /\ notifier' \in [Notifiers -> Notifier]
    BY <2>1
  <2>3. /\ sent[held] = 0 /\ held \in Events /\ held \in marks
        /\ held # NoEvent /\ held \notin oldMarks
    BY <1>1, <2>1 DEF NotifiersHold, MarkIsNotMissed, NeverComesBack
  <2>4. /\ sent' \in [Events -> Nat]
        /\ sent'[held] = IF stage = "sent" THEN 1 ELSE 0
        /\ \A e \in Events : e # held => sent'[e] = sent[e]
    BY <2>1, <2>3
  <2>5. NotifiersHold'
    BY <1>1, <2>1, <2>2, <2>3, <2>4 DEF NotifiersHold
  <2>6. MarkIsNotMissed'
    BY <1>2, <2>1, <2>2, <2>3, <2>4 DEF MarkIsNotMissed, NeverComesBack
  <2> QED BY <2>1, <2>2, <2>3, <2>4, <2>5, <2>6 DEF MailedAtMostOnce
<1>6. CASE Finish(n)
  <2>1. /\ notifier[n].stage = "sent" /\ EndJob(held)
        /\ notifier' = [notifier EXCEPT ![n] = IdleNotifier]
        /\ UNCHANGED << marks, sent, givenUp, faults, oldMarks >>
    BY <1>6 DEF Finish
  <2> QED BY <1>1, <1>2, <2>1, EndJobCounts, NotifierLetsGo
<1>7. CASE SendRefused(n)
  <2>1. /\ notifier[n].stage = "claimed" /\ EndJob(held)
        /\ notifier' = [notifier EXCEPT ![n] = IdleNotifier]
        /\ givenUp' = givenUp \union {held}
        /\ UNCHANGED << marks, sent, faults, oldMarks >>
    BY <1>7 DEF SendRefused
  <2> QED BY <1>1, <1>2, <2>1, EndJobCounts, NotifierLetsGo
<1>8. CASE Release(n)
  <2>1. /\ notifier[n].stage = "releasing" /\ marks' = marks \ {held}
        /\ \/ UNCHANGED << jobs, givenUp >>
           \/ /\ jobs[held] > 0 /\ jobs' = [jobs EXCEPT ![held] = jobs[held] - 1]
              /\ givenUp' = givenUp \union {held}
        /\ notifier' = [notifier EXCEPT ![n] = IdleNotifier]
        /\ UNCHANGED << sent, faults, oldMarks >>
    BY <1>8 DEF Release
  <2>2. sent[held] = 0
    BY <2>1 DEF NotifiersHold
  <2>3. jobs' \in [Events -> Nat] /\ \A d \in Events : jobs[d] = 0 => jobs'[d] = 0
    <3>1. held \in Events /\ jobs[held] \in Nat
      BY <1>1, <2>1
    <3>2. jobs[held] > 0 => jobs[held] - 1 \in Nat
      BY <3>1
    <3> QED BY <2>1, <3>1, <3>2
  <2> QED BY <1>1, <1>2, <2>1, <2>2, <2>3, NotifierLetsGo
<1>9. CASE NotifierDies(n)
  <2>1. /\ notifier[n].stage # "idle"
        /\ givenUp' \subseteq givenUp \union {held}
        /\ notifier' = [notifier EXCEPT ![n] = IdleNotifier]
        /\ faults' \in 0..MaxFaults
        /\ UNCHANGED << jobs, marks, sent, oldMarks >>
    BY <1>9 DEF NotifierDies
  <2> QED BY <1>1, <1>2, <2>1, NotifierLetsGo
<1> QED BY <1>3, <1>4, <1>5, <1>6, <1>7, <1>8, <1>9 DEF SendConfirmation

-----------------------------------------------------------------------------
(* The sweep. *)

LEMMA RowGetsOldKeepsInv ==
  ASSUME RetainInv, NEW e \in Events, RowGetsOld(e)
  PROVE  RetainInv'
<1> USE DEF RetainInv, RetainTypeOK, OutboxTypeOK
<1>1. /\ row[e] = "DISPATCHED" /\ e \notin Blamed /\ e \notin deleted
      /\ oldRows' = oldRows \union {e}
      /\ UNCHANGED << outboxVars, deleted, oldMarks, sweep >>
  BY DEF RowGetsOld, OutlastsStatements
<1>2. UNCHANGED << row, attempts, relay, jobs, marks, notifier, sent, pushes, givenUp, faults >>
  BY <1>1 DEF outboxVars
<1>3. ASSUME NEW w \in Relays PROVE e \notin relay[w].batch
  <2>1. relay[w].stage \in {"idle", "pushing", "failed", "blaming"}
    BY DEF Relay
  <2>2. relay[w].stage = "blaming" => e \notin relay[w].batch
    BY <1>1 DEF Blamed
  <2> QED BY <1>1, <2>1, <2>2 DEF RelaysHold
<1>4. OldIsLeftAlone'
  BY <1>1, <1>2, <1>3 DEF OldIsLeftAlone, LeftAlone
<1>5. RetainTypeOK'
  BY <1>1, <1>2
<1> QED
  BY <1>1, <1>2, <1>4, <1>5 DEF RelaysHold, NotWrittenNotTried, DispatchedWasPushed,
     NotifiersHold, MarkIsNotMissed, NeverComesBack, MailedAtMostOnce

LEMMA MarkGetsOldKeepsInv ==
  ASSUME RetainInv, NEW e \in Events, MarkGetsOld(e)
  PROVE  RetainInv'
<1> USE DEF RetainInv, RetainTypeOK, OutboxTypeOK
<1>1. /\ e \in marks /\ ~ComesBack(e)
      /\ oldMarks' = oldMarks \union {e}
      /\ UNCHANGED << outboxVars, deleted, oldRows, sweep >>
  BY DEF MarkGetsOld, OutlastsResends
<1>2. UNCHANGED << row, attempts, relay, jobs, marks, notifier, sent, pushes, givenUp, faults >>
  BY <1>1 DEF outboxVars
<1>3. /\ row[e] \in {"DISPATCHED", "FAILED"} /\ e \notin Blamed
      /\ jobs[e] = 0 /\ \A n \in Notifiers : notifier[n].event # e
  <2>1. row[e] \in {"NONE", "PENDING", "DISPATCHED", "FAILED"} /\ jobs[e] \in Nat
    OBVIOUS
  <2> QED BY <1>1, <2>1 DEF ComesBack
<1>4. ASSUME NEW w \in Relays PROVE e \notin relay[w].batch
  <2>1. relay[w].stage \in {"idle", "pushing", "failed", "blaming"}
    BY DEF Relay
  <2>2. relay[w].stage = "blaming" => e \notin relay[w].batch
    BY <1>3 DEF Blamed
  <2> QED BY <1>3, <2>1, <2>2 DEF RelaysHold
<1>5. MarkIsNotMissed'
  BY <1>1, <1>2, <1>3, <1>4 DEF MarkIsNotMissed, NeverComesBack
<1>6. RetainTypeOK'
  BY <1>1, <1>2
<1> QED
  BY <1>1, <1>2, <1>5, <1>6 DEF RelaysHold, NotWrittenNotTried, DispatchedWasPushed,
     NotifiersHold, OldIsLeftAlone, LeftAlone, MailedAtMostOnce

LEMMA NextRoundType ==
  ASSUME NEW batch, NEW then \in {"outbox_events", "processed_events"}, RetainTypeOK,
         NextRound(batch, then)
  PROVE  sweep' \in [ table : {"outbox_events", "processed_events"},
                      round : 0..(MaxRounds - 1) ]
<1>1. /\ sweep.table \in {"outbox_events", "processed_events"}
      /\ sweep.round \in 0..(MaxRounds - 1)
  BY DEF RetainTypeOK
<1>2. \/ /\ sweep.round + 1 < MaxRounds
         /\ sweep' = [sweep EXCEPT !.round = sweep.round + 1]
      \/ sweep' = [ table |-> then, round |-> 0 ]
  BY DEF NextRound
<1>3. CASE /\ sweep.round + 1 < MaxRounds
           /\ sweep' = [sweep EXCEPT !.round = sweep.round + 1]
  <2>1. sweep.round + 1 \in 0..(MaxRounds - 1)
    BY <1>1, <1>3
  <2> QED BY <1>3, <2>1 DEF RetainTypeOK
<1>4. CASE sweep' = [ table |-> then, round |-> 0 ]
  BY <1>4
<1> QED BY <1>2, <1>3, <1>4

LEMMA RoundsAreTaken ==
  ASSUME NEW rows, NEW batch \in Rounds(rows) PROVE batch \subseteq rows
  BY DEF Rounds

LEMMA SweepKeepsInv ==
  ASSUME RetainInv, Sweep
  PROVE  RetainInv'
<1> USE DEF RetainInv
<1>1. CASE DeleteDispatchedOutbox
  <2>1. PICK batch \in Rounds(oldRows) :
          /\ deleted' = deleted \union batch
          /\ oldRows' = oldRows \ batch
          /\ NextRound(batch, "processed_events")
    BY <1>1 DEF DeleteDispatchedOutbox
  <2>2. UNCHANGED << row, attempts, relay, jobs, marks, notifier, sent, pushes,
                     givenUp, faults, oldMarks >>
    BY <1>1 DEF DeleteDispatchedOutbox, outboxVars
  <2>3. batch \subseteq oldRows
    BY RoundsAreTaken
  <2>4. RetainTypeOK'
    <3>1. OutboxTypeOK'
      BY <2>2 DEF RetainTypeOK, OutboxTypeOK
    <3>2. sweep' \in [ table : {"outbox_events", "processed_events"},
                       round : 0..(MaxRounds - 1) ]
      BY <2>1, NextRoundType
    <3> QED BY <2>1, <2>2, <2>3, <3>1, <3>2 DEF RetainTypeOK
  <2>5. OldIsLeftAlone'
    BY <2>1, <2>2, <2>3 DEF OldIsLeftAlone, LeftAlone
  <2> QED
    BY <2>2, <2>4, <2>5 DEF RelaysHold, NotWrittenNotTried, DispatchedWasPushed,
       NotifiersHold, MarkIsNotMissed, NeverComesBack, MailedAtMostOnce
<1>2. CASE DeleteProcessedEvents
  <2>1. PICK batch \in Rounds(oldMarks) :
          /\ marks' = marks \ batch
          /\ oldMarks' = oldMarks \ batch
          /\ NextRound(batch, "outbox_events")
    BY <1>2 DEF DeleteProcessedEvents
  <2>2. UNCHANGED << row, attempts, relay, jobs, notifier, sent, pushes,
                     givenUp, faults, deleted, oldRows >>
    BY <1>2 DEF DeleteProcessedEvents, relayVars
  <2>3. batch \subseteq oldMarks
    BY RoundsAreTaken
  <2>4. RetainTypeOK'
    <3>1. OutboxTypeOK'
      BY <2>1, <2>2 DEF RetainTypeOK, OutboxTypeOK
    <3>2. sweep' \in [ table : {"outbox_events", "processed_events"},
                       round : 0..(MaxRounds - 1) ]
      BY <2>1, NextRoundType
    <3> QED BY <2>1, <2>2, <3>1, <3>2 DEF RetainTypeOK
  <2>5. \A e \in batch : e \in Events /\ NeverComesBack(e)
    BY <2>3 DEF MarkIsNotMissed, RetainTypeOK, OutboxTypeOK
  <2>6. MarkIsNotMissed'
    BY <2>1, <2>2, <2>5 DEF MarkIsNotMissed, NeverComesBack
  <2>7. NotifiersHold'
    <3>1. \A n \in Notifiers : notifier[n].event \notin batch
      BY <2>5 DEF NeverComesBack
    <3> QED BY <2>1, <2>2, <3>1 DEF NotifiersHold
  <2> QED
    BY <2>2, <2>4, <2>6, <2>7 DEF RelaysHold, NotWrittenNotTried, DispatchedWasPushed,
       OldIsLeftAlone, LeftAlone, MailedAtMostOnce
<1>3. CASE SweepDies
  <2>1. /\ UNCHANGED << row, attempts, relay, jobs, marks, notifier, sent, pushes,
                        givenUp, deleted, oldRows, oldMarks >>
        /\ sweep' = NotSweeping /\ faults < MaxFaults /\ faults' = faults + 1
    BY <1>3 DEF SweepDies, relayVars, notifyVars
  <2>2. faults' \in 0..MaxFaults
    BY <2>1 DEF RetainTypeOK, OutboxTypeOK
  <2>3. RetainTypeOK'
    BY <2>1, <2>2 DEF RetainTypeOK, OutboxTypeOK, NotSweeping
  <2> QED
    BY <2>1, <2>3 DEF RelaysHold, NotWrittenNotTried, DispatchedWasPushed,
       NotifiersHold, MarkIsNotMissed, NeverComesBack, MailedAtMostOnce,
       OldIsLeftAlone, LeftAlone
<1> QED BY <1>1, <1>2, <1>3 DEF Sweep

-----------------------------------------------------------------------------
LEMMA RetainStep == RetainInv /\ [RetainNext]_retainVars => RetainInv'
<1> SUFFICES ASSUME RetainInv, [RetainNext]_retainVars PROVE RetainInv'
  OBVIOUS
<1>1. ASSUME NEW n \in Notifiers, SendConfirmation(n), UNCHANGED sweepVars
      PROVE  RetainInv'
  <2>1. NotifierInv
    BY DEF RetainInv, RetainTypeOK, OutboxTypeOK, NotifierInv, NotifierTypes
  <2>2. NotifierInv'
    BY <1>1, <2>1, NotifierKeepsInv
  <2>3. UNCHANGED << row, attempts, relay, pushes, deleted, oldRows, sweep >>
    BY <1>1 DEF SendConfirmation, Send, Finish, SendRefused, SendThrows, Release,
       NotifierDies, Claim, SkipRepeat, relayVars, sweepVars
  <2>4. RetainTypeOK'
    BY <2>2, <2>3 DEF RetainInv, RetainTypeOK, OutboxTypeOK, NotifierInv, NotifierTypes
  <2> QED
    BY <2>2, <2>3, <2>4 DEF RetainInv, NotifierInv, RelaysHold, NotWrittenNotTried,
       DispatchedWasPushed, OldIsLeftAlone, LeftAlone
<1>2. CASE UNCHANGED retainVars
  <2>1. UNCHANGED << row, attempts, relay, jobs, marks, notifier, sent, pushes,
                     givenUp, faults, deleted, oldRows, oldMarks, sweep >>
    BY <1>2 DEF retainVars, outboxVars, sweepVars
  <2> QED
    BY <2>1 DEF RetainInv, RetainTypeOK, OutboxTypeOK, RelaysHold, NotWrittenNotTried,
       DispatchedWasPushed, OldIsLeftAlone, LeftAlone, NotifiersHold, MarkIsNotMissed,
       NeverComesBack, MailedAtMostOnce
<1> QED
  BY <1>1, <1>2, RelaySideKeepsInv, RowGetsOldKeepsInv, MarkGetsOldKeepsInv, SweepKeepsInv
  DEF RetainNext, OutboxNext

\* The invariant of the outbox and the sweep together.
THEOREM RetainInvariant == RetainSpec => []RetainInv
  BY RetainStart, RetainStep, PTL DEF RetainSpec

\* Types; a relay that failed retries no row that used up its attempts.
THEOREM RetainTypes == RetainSpec => [](RetainTypeOK /\ OutboxTypeOK)
<1>1. RetainInv => RetainTypeOK /\ OutboxTypeOK
  BY DEF RetainInv, RetainTypeOK
<1> QED BY <1>1, RetainInvariant, PTL

\* No DISPATCHED row is one the queue has not got: relays may die or throw
\* between any two pushes, and blame rows that others have dispatched since.
THEOREM DispatchedIsInQueue == RetainSpec => []DispatchedWasPushed
<1>1. RetainInv => DispatchedWasPushed
  BY DEF RetainInv
<1> QED BY <1>1, RetainInvariant, PTL

\* A buyer gets one mail at most, also while marks are deleted by age.
THEOREM OneMailPerEvent == RetainSpec => []MailedAtMostOnce
<1>1. RetainInv => MailedAtMostOnce
  BY DEF RetainInv
<1> QED BY <1>1, RetainInvariant, PTL

\* The sweep never deletes what a relay still works on or may take up again.
THEOREM SweepTakesWhatIsDone == RetainSpec => []DeletedIsDone
<1>1. RetainInv => DeletedIsDone
  BY DEF RetainInv, RetainTypeOK, OldIsLeftAlone, LeftAlone, DispatchedWasPushed, DeletedIsDone
<1> QED BY <1>1, RetainInvariant, PTL

-----------------------------------------------------------------------------
(* Without a failure relays only push, and each row once. *)

\* What was pushed is dispatched, or in the hands of the relay that pushed it.
PushedOnce ==
  faults = 0 =>
    /\ \A w \in Relays : relay[w].stage \in {"idle", "pushing"}
    /\ \A e \in Events :
         pushes[e] > 0 => /\ pushes[e] = 1
                          /\ row[e] = "DISPATCHED" \/ \E w \in Relays : e \in relay[w].pushed

LEMMA RelayPushesOnce ==
  ASSUME RelayInv, PushedOnce, faults = 0, NEW w \in Relays, RelayOnce(w), faults' = 0
  PROVE  PushedOnce'
<1> USE DEF RelayInv, RelayTypes, Relay, IdleRelay, PushedOnce
<1>1. ASSUME relay[w].stage = "idle" PROVE relay[w].pushed = {}
  BY <1>1 DEF RelaysHold
<1>2. CASE SelectBatch(w)
  <2>1. /\ relay[w].stage = "idle"
        /\ relay' = [relay EXCEPT ![w] =
             [ stage |-> "pushing", batch |-> Oldest(Pending \ Locked), pushed |-> {} ]]
        /\ UNCHANGED << row, pushes >>
    BY <1>2 DEF SelectBatch
  <2>2. /\ \A v \in Relays : relay'[v].stage \in {"idle", "pushing"}
        /\ \A v \in Relays : relay'[v].pushed = relay[v].pushed
    BY <1>1, <2>1
  <2> QED BY <2>1, <2>2
<1>3. ASSUME NEW e \in Events, Push(w, e) PROVE PushedOnce'
  <2>1. /\ relay[w].stage = "pushing" /\ e \in relay[w].batch /\ e \notin relay[w].pushed
        /\ relay' = [relay EXCEPT ![w].pushed = @ \union {e}]
        /\ pushes' = [pushes EXCEPT ![e] = @ + 1]
        /\ UNCHANGED row
    BY <1>3 DEF Push, Enqueue
  <2>2. /\ \A v \in Relays : relay'[v].stage = relay[v].stage
        /\ relay'[w].pushed = relay[w].pushed \union {e}
        /\ \A v \in Relays : v # w => relay'[v].pushed = relay[v].pushed
    BY <2>1
  <2>3. pushes[e] = 0
    <3>1. row[e] # "DISPATCHED"
      BY <2>1 DEF RelaysHold
    <3>2. \A v \in Relays : e \notin relay[v].pushed
      BY <2>1 DEF RelaysHold
    <3>3. ~(pushes[e] > 0) /\ pushes[e] \in Nat
      BY <3>1, <3>2
    <3> QED BY <3>3
  <2>4. pushes'[e] = 1 /\ \A d \in Events : d # e => pushes'[d] = pushes[d]
    BY <2>1, <2>3
  <2> QED BY <2>1, <2>2, <2>4
<1>4. CASE CommitBatch(w)
  <2>1. /\ relay[w].pushed = relay[w].batch
        /\ row' = [e \in Events |-> IF e \in relay[w].batch THEN "DISPATCHED" ELSE row[e]]
        /\ relay' = [relay EXCEPT ![w] = IdleRelay]
        /\ UNCHANGED pushes
    BY <1>4 DEF CommitBatch
  <2>2. /\ relay'[w].stage = "idle"
        /\ \A v \in Relays : v # w => relay'[v] = relay[v]
    BY <2>1
  <2>3. \A e \in Events : e \in relay[w].pushed \/ row[e] = "DISPATCHED" => row'[e] = "DISPATCHED"
    BY <2>1
  <2> QED BY <2>1, <2>2, <2>3
<1>5. ~RelayThrows(w) /\ ~RelayDies(w) /\ ~Blame(w) /\ ~RecordFailure(w)
  BY DEF RelayThrows, RelayDies, Blame, RecordFailure
<1> QED BY <1>2, <1>3, <1>4, <1>5 DEF RelayOnce

LEMMA PushedOnceStep == RetainInv /\ PushedOnce /\ [RetainNext]_retainVars => PushedOnce'
<1> SUFFICES ASSUME RetainInv, PushedOnce, [RetainNext]_retainVars, faults' = 0
             PROVE  PushedOnce'
  BY DEF PushedOnce
<1>1. faults \in Nat /\ RelayInv
  BY DEF RetainInv, RetainTypeOK, OutboxTypeOK, RelayInv, RelayTypes
<1>2. ASSUME NEW w \in Relays, RelayOnce(w) PROVE PushedOnce'
  <2>1. faults = 0
    BY <1>1, <1>2 DEF RelayOnce, SelectBatch, Push, CommitBatch, RelayThrows, Blame,
       RecordFailure, RelayDies
  <2> QED BY <1>1, <1>2, <2>1, RelayPushesOnce
<1>3. ASSUME NEW e \in Events, Insert(e) PROVE PushedOnce'
  <2>1. /\ row[e] = "NONE" /\ row' = [row EXCEPT ![e] = "PENDING"]
        /\ UNCHANGED << relay, pushes, faults >>
    BY <1>3 DEF Insert
  <2>2. row \in [Events -> {"NONE", "PENDING", "DISPATCHED", "FAILED"}]
    BY <1>1 DEF RelayInv, RelayTypes
  <2> QED BY <2>1, <2>2 DEF PushedOnce
<1>4. ASSUME \/ \E n \in Notifiers : SendConfirmation(n)
             \/ \E e \in Events : RowGetsOld(e) \/ MarkGetsOld(e)
             \/ Sweep
             \/ UNCHANGED retainVars
      PROVE  PushedOnce'
  <2>1. UNCHANGED << row, relay, pushes >>
    BY <1>4 DEF SendConfirmation, Send, Finish, SendRefused, SendThrows, Release,
       NotifierDies, Claim, SkipRepeat, RowGetsOld, MarkGetsOld, Sweep,
       DeleteDispatchedOutbox, DeleteProcessedEvents, SweepDies,
       relayVars, outboxVars, retainVars
  <2>2. faults = 0
    BY <1>1, <1>4 DEF SendConfirmation, Send, Finish, SendRefused, SendThrows, Release,
       NotifierDies, Claim, SkipRepeat, RowGetsOld, MarkGetsOld, Sweep,
       DeleteDispatchedOutbox, DeleteProcessedEvents, SweepDies,
       notifyVars, outboxVars, retainVars
  <2> QED BY <2>1, <2>2 DEF PushedOnce
<1> QED BY <1>2, <1>3, <1>4 DEF RetainNext, OutboxNext

\* Without a failure, relays that overlap never push the same event twice.
THEOREM PushedTwiceOnlyByFailure == RetainSpec => []PushedTwiceByFailure
<1>1. RetainInit => PushedOnce
  BY DEF RetainInit, OutboxInit, PushedOnce, IdleRelay
<1>2. RetainInv /\ PushedOnce => PushedTwiceByFailure
  BY DEF RetainInv, RetainTypeOK, OutboxTypeOK, PushedOnce, PushedTwiceByFailure
<1> QED BY <1>1, <1>2, PushedOnceStep, RetainInvariant, PTL DEF RetainSpec

-----------------------------------------------------------------------------
(* What becomes of a mail. *)

Held(e) == \E n \in Notifiers : notifier[n].event = e

\* A mark that nobody has taken back is somebody's, or tells what became of
\* the mail.
MarkHasReason ==
  \A e \in marks \ Undeliverable : sent[e] > 0 \/ e \in givenUp \/ Held(e)

\* A notifier that has sent has; one that releases has met a failure; and one
\* that is alone does so under a job that is still in the queue.
NotifiersKnow ==
  \A n \in Notifiers :
    /\ notifier[n].stage = "sent" => sent[notifier[n].event] > 0
    /\ notifier[n].stage = "releasing" => faults > 0
    /\ OneSlot /\ notifier[n].stage \in {"claimed", "releasing"}
         => jobs[notifier[n].event] > 0

\* MailIsNotLost of what was pushed; what is DISPATCHED was.
PushedIsNotLost ==
  OneSlot \/ faults = 0 =>
    \A e \in Events \ Undeliverable :
      pushes[e] > 0 => jobs[e] > 0 \/ sent[e] > 0 \/ e \in givenUp \/ Held(e)

MailInv == MarkHasReason /\ NotifiersKnow /\ PushedIsNotLost

\* The others do not touch the notifiers, take no job and take marks at most.
LEMMA OthersKeepMails ==
  ASSUME NotifierInv, NotifierInv', MailInv,
         UNCHANGED << notifier, sent, givenUp >>, faults' >= faults,
         marks' \subseteq marks, \A e \in Events : jobs'[e] >= jobs[e],
         \A e \in Events : pushes'[e] > 0 => pushes[e] > 0 \/ jobs'[e] > 0
  PROVE  MailInv'
<1> USE DEF NotifierInv, NotifierTypes, Notifier, MailInv
<1>1. MarkHasReason'
  BY DEF MarkHasReason, Held
<1>2. NotifiersKnow'
  <2>1. \A n \in Notifiers : notifier[n].stage # "idle" => notifier[n].event \in Events
    BY DEF NotifiersHold
  <2>2. \A e \in Events : jobs[e] > 0 => jobs'[e] > 0
    OBVIOUS
  <2>3. faults > 0 => faults' > 0
    OBVIOUS
  <2>4. OneSlot' <=> OneSlot
    BY DEF OneSlot
  <2> QED BY <2>1, <2>2, <2>3, <2>4 DEF NotifiersKnow
<1>3. PushedIsNotLost'
  <2> SUFFICES ASSUME OneSlot \/ faults = 0, NEW e \in Events \ Undeliverable, pushes'[e] > 0
               PROVE  jobs'[e] > 0 \/ sent[e] > 0 \/ e \in givenUp \/ Held(e)
    BY DEF PushedIsNotLost, OneSlot, Held
  <2> QED BY DEF PushedIsNotLost, Held
<1> QED BY <1>1, <1>2, <1>3

\* A notifier that puts its event down has settled it, or left it to its job.
LEMMA LettingGoKeepsMails ==
  ASSUME NotifierInv, MailInv, NEW n \in Notifiers, notifier[n].stage # "idle",
         notifier' = [notifier EXCEPT ![n] = IdleNotifier],
         UNCHANGED << sent, pushes >>, faults' \in Nat, faults' >= faults,
         marks' \subseteq marks, givenUp \subseteq givenUp',
         \A e \in Events : e # notifier[n].event => jobs'[e] = jobs[e],
         \/ notifier[n].event \in Undeliverable
         \/ sent[notifier[n].event] > 0 \/ notifier[n].event \in givenUp'
         \/ /\ faults > 0 /\ notifier[n].event \notin marks'
            /\ jobs' = jobs
  PROVE  MailInv'
<1> USE DEF NotifierInv, NotifierTypes, Notifier, IdleNotifier, MailInv
<1> DEFINE held == notifier[n].event
<1>1. held \in Events
  BY DEF NotifiersHold
<1>2. \A m \in Notifiers : m # n => notifier'[m] = notifier[m] /\ notifier[m].event # held
  BY <1>1 DEF NotifiersHold
<1>3. notifier'[n].stage = "idle" /\ notifier'[n].event = NoEvent
  OBVIOUS
<1>4. \A e \in Events : e # held /\ Held(e) => Held(e)'
  BY <1>2 DEF Held
<1>5. MarkHasReason'
  BY <1>1, <1>4 DEF MarkHasReason
<1>6. NotifiersKnow'
  <2>1. \A m \in Notifiers : m # n /\ notifier[m].stage # "idle" => notifier[m].event \in Events
    BY DEF NotifiersHold
  <2> QED BY <1>2, <1>3, <2>1 DEF NotifiersKnow, OneSlot
<1>7. PushedIsNotLost'
  <2> SUFFICES ASSUME OneSlot \/ faults' = 0, NEW e \in Events \ Undeliverable, pushes[e] > 0
               PROVE  jobs'[e] > 0 \/ sent[e] > 0 \/ e \in givenUp' \/ Held(e)'
    BY DEF PushedIsNotLost, OneSlot, Held
  <2>1. OneSlot \/ faults = 0
    OBVIOUS
  <2>2. CASE e # held
    BY <1>4, <2>1, <2>2 DEF PushedIsNotLost, Held
  <2>3. CASE e = held
    <3>1. CASE jobs' = jobs /\ faults > 0 /\ notifier[n].stage \in {"claimed", "releasing"}
      BY <2>1, <2>3, <3>1 DEF NotifiersKnow
    <3>2. CASE notifier[n].stage = "sent"
      BY <2>3, <3>2 DEF NotifiersKnow
    <3> QED BY <2>3, <3>1, <3>2
  <2> QED BY <2>2, <2>3
<1> QED BY <1>5, <1>6, <1>7

LEMMA NotifierKeepsMails ==
  ASSUME NotifierInv, MailInv, NEW n \in Notifiers, SendConfirmation(n),
         NotifierInv'
  PROVE  MailInv'
<1> USE DEF NotifierInv, NotifierTypes, Notifier, NotifierAt, relayVars
<1> DEFINE held == notifier[n].event
<1>1. notifier[n].stage # "idle" => held \in Events /\ held \in marks
  BY DEF NotifiersHold
<1>2. \A e \in Events : EndJob(e) => \A d \in Events : d # e => jobs'[d] = jobs[d]
  BY DEF EndJob
<1>3. ASSUME NEW e \in Events, Claim(n, e) PROVE MailInv'
  <2>1. /\ notifier[n].stage = "idle" /\ jobs[e] > 0
        /\ marks' = marks \union {e}
        /\ notifier' = [notifier EXCEPT ![n] = [ stage |-> "claimed", event |-> e ]]
        /\ UNCHANGED << jobs, sent, givenUp, faults, pushes >>
    BY <1>3 DEF Claim
  <2>2. /\ notifier'[n].stage = "claimed" /\ notifier'[n].event = e
        /\ \A m \in Notifiers : m # n => notifier'[m] = notifier[m]
    BY <2>1
  <2>3. \A d \in Events : Held(d) => Held(d)'
    <3>1. notifier[n].event \notin Events
      BY <2>1 DEF NotifiersHold
    <3> QED BY <2>2, <3>1 DEF Held
  <2>4. Held(e)'
    BY <2>2 DEF Held
  <2>5. MarkHasReason'
    BY <2>1, <2>3, <2>4 DEF MailInv, MarkHasReason
  <2>6. NotifiersKnow'
    BY <2>1, <2>2 DEF MailInv, NotifiersKnow
  <2>7. PushedIsNotLost'
    BY <2>1, <2>3 DEF MailInv, PushedIsNotLost, Held
  <2> QED BY <2>5, <2>6, <2>7 DEF MailInv
<1>4. ASSUME NEW e \in Events, SkipRepeat(n, e) PROVE MailInv'
  <2>1. /\ notifier[n].stage = "idle" /\ e \in marks
        /\ jobs' = [jobs EXCEPT ![e] = jobs[e] - 1]
        /\ UNCHANGED << marks, notifier, sent, givenUp, faults, pushes >>
    BY <1>4 DEF SkipRepeat, notifyVars
  <2>2. \A d \in Events : d # e => jobs'[d] = jobs[d]
    BY <2>1
  <2>3. NotifiersKnow'
    <3>1. ASSUME NEW m \in Notifiers, OneSlot, notifier[m].stage \in {"claimed", "releasing"}
          PROVE  FALSE
      <4>1. m = n
        BY <3>1 DEF OneSlot
      <4> QED BY <2>1, <3>1, <4>1
    <3> QED BY <2>1, <3>1 DEF MailInv, NotifiersKnow, OneSlot
  <2>4. MarkHasReason'
    BY <2>1 DEF MailInv, MarkHasReason, Held
  <2>5. PushedIsNotLost'
    BY <2>1, <2>2 DEF MailInv, PushedIsNotLost, MarkHasReason, Held, OneSlot
  <2> QED BY <2>3, <2>4, <2>5 DEF MailInv
<1>5. CASE Send(n) \/ SendThrows(n)
  <2>1. PICK stage \in {"sent", "releasing"} :
          /\ notifier[n].stage = "claimed"
          /\ notifier' = [notifier EXCEPT ![n].stage = stage]
          /\ sent' = IF stage = "sent" THEN [sent EXCEPT ![held] = sent[held] + 1] ELSE sent
          /\ faults' = IF stage = "sent" THEN faults ELSE faults + 1
          /\ UNCHANGED << jobs, marks, givenUp, pushes >>
    BY <1>5 DEF Send, SendThrows
  <2>2. /\ \A m \in Notifiers : notifier'[m].event = notifier[m].event
        /\ \A m \in Notifiers : m # n => notifier'[m].stage = notifier[m].stage
        /\ notifier'[n].stage = stage
    BY <2>1
  <2>3. faults' \in Nat /\ faults' >= faults /\ (stage = "releasing" => faults' > 0)
    BY <2>1
  <2>4. /\ \A e \in Events : sent'[e] >= sent[e]
        /\ stage = "sent" => sent'[held] > 0
    BY <1>1, <2>1
  <2>5. \A e \in Events : Held(e)' <=> Held(e)
    BY <2>2 DEF Held
  <2>6. MarkHasReason'
    BY <2>1, <2>4, <2>5 DEF MailInv, MarkHasReason
  <2>7. NotifiersKnow'
    <3>1. \A m \in Notifiers : notifier[m].stage # "idle" => notifier[m].event \in Events
      BY DEF NotifiersHold
    <3> QED BY <2>1, <2>2, <2>3, <2>4, <3>1 DEF MailInv, NotifiersKnow, OneSlot
  <2>8. PushedIsNotLost'
    BY <2>1, <2>3, <2>4, <2>5 DEF MailInv, PushedIsNotLost, Held, OneSlot
  <2> QED BY <2>6, <2>7, <2>8 DEF MailInv
<1>6. CASE Finish(n)
  <2>1. /\ notifier[n].stage = "sent" /\ EndJob(held)
        /\ notifier' = [notifier EXCEPT ![n] = IdleNotifier]
        /\ UNCHANGED << marks, sent, givenUp, faults, pushes >>
    BY <1>6 DEF Finish
  <2>2. sent[held] > 0
    BY <2>1 DEF MailInv, NotifiersKnow
  <2>3. \A e \in Events : e # held => jobs'[e] = jobs[e]
    BY <1>1, <1>2, <2>1
  <2>4. faults' \in Nat /\ faults' >= faults /\ marks' \subseteq marks /\ givenUp \subseteq givenUp'
    BY <2>1
  <2> QED BY <2>1, <2>2, <2>3, <2>4, LettingGoKeepsMails
<1>7. CASE SendRefused(n)
  <2>1. /\ notifier[n].stage = "claimed" /\ EndJob(held) /\ held \in Undeliverable
        /\ notifier' = [notifier EXCEPT ![n] = IdleNotifier]
        /\ givenUp' = givenUp \union {held}
        /\ UNCHANGED << marks, sent, faults, pushes >>
    BY <1>7 DEF SendRefused
  <2>2. \A e \in Events : e # held => jobs'[e] = jobs[e]
    BY <1>1, <1>2, <2>1
  <2>3. faults' \in Nat /\ faults' >= faults /\ marks' \subseteq marks /\ givenUp \subseteq givenUp'
    BY <2>1
  <2> QED BY <2>1, <2>2, <2>3, LettingGoKeepsMails
<1>8. CASE Release(n)
  <2>1. /\ notifier[n].stage = "releasing" /\ marks' = marks \ {held}
        /\ \/ UNCHANGED << jobs, givenUp >>
           \/ /\ jobs' = [jobs EXCEPT ![held] = jobs[held] - 1]
              /\ givenUp' = givenUp \union {held}
        /\ notifier' = [notifier EXCEPT ![n] = IdleNotifier]
        /\ UNCHANGED << sent, faults, pushes >>
    BY <1>8 DEF Release
  <2>2. faults > 0
    BY <2>1 DEF MailInv, NotifiersKnow
  <2>3. \A e \in Events : e # held => jobs'[e] = jobs[e]
    BY <2>1
  <2>4. faults' \in Nat /\ faults' >= faults /\ marks' \subseteq marks /\ givenUp \subseteq givenUp'
    BY <2>1
  <2>5. held \in givenUp' \/ (held \notin marks' /\ jobs' = jobs)
    BY <2>1
  <2> QED BY <2>1, <2>2, <2>3, <2>4, <2>5, LettingGoKeepsMails
<1>9. CASE NotifierDies(n)
  <2>1. /\ notifier[n].stage # "idle"
        /\ givenUp' = IF notifier[n].stage = "sent" THEN givenUp ELSE givenUp \union {held}
        /\ notifier' = [notifier EXCEPT ![n] = IdleNotifier]
        /\ faults' = faults + 1
        /\ UNCHANGED << jobs, marks, sent, pushes >>
    BY <1>9 DEF NotifierDies
  <2>2. sent[held] > 0 \/ held \in givenUp'
    BY <2>1 DEF MailInv, NotifiersKnow
  <2>3. faults' \in Nat /\ faults' >= faults /\ marks' \subseteq marks /\ givenUp \subseteq givenUp'
    BY <2>1
  <2> QED BY <2>1, <2>2, <2>3, LettingGoKeepsMails
<1> QED BY <1>3, <1>4, <1>5, <1>6, <1>7, <1>8, <1>9 DEF SendConfirmation

LEMMA MailStep == RetainInv /\ RetainInv' /\ MailInv /\ [RetainNext]_retainVars => MailInv'
<1> SUFFICES ASSUME RetainInv, RetainInv', MailInv, [RetainNext]_retainVars PROVE MailInv'
  OBVIOUS
<1>1. /\ NotifierInv /\ NotifierInv'
      /\ jobs \in [Events -> Nat] /\ pushes \in [Events -> Nat] /\ faults \in Nat
  BY DEF RetainInv, RetainTypeOK, OutboxTypeOK, NotifierInv, NotifierTypes
<1>2. ASSUME NEW w \in Relays, RelayOnce(w) PROVE MailInv'
  <2>1. /\ UNCHANGED << marks, notifier, sent, givenUp >> /\ faults' >= faults
    BY <1>1, <1>2 DEF RelayOnce, SelectBatch, Push, CommitBatch, RelayThrows, Blame,
       RecordFailure, RelayDies, notifyVars
  <2>2. \/ UNCHANGED << jobs, pushes >>
        \/ \E e \in Events : /\ jobs' = [jobs EXCEPT ![e] = @ + 1]
                             /\ pushes' = [pushes EXCEPT ![e] = @ + 1]
    BY <1>2 DEF RelayOnce, SelectBatch, Push, Enqueue, CommitBatch, RelayThrows, Blame,
       RecordFailure, RelayDies
  <2>3. \A e \in Events : /\ jobs'[e] >= jobs[e]
                          /\ pushes'[e] > 0 => pushes[e] > 0 \/ jobs'[e] > 0
    BY <1>1, <2>2
  <2> QED BY <1>1, <2>1, <2>3, OthersKeepMails
<1>3. ASSUME NEW n \in Notifiers, SendConfirmation(n) PROVE MailInv'
  BY <1>1, <1>3, NotifierKeepsMails
<1>4. ASSUME \/ \E e \in Events : Insert(e) \/ RowGetsOld(e) \/ MarkGetsOld(e)
             \/ Sweep
             \/ UNCHANGED retainVars
      PROVE  MailInv'
  <2>1. UNCHANGED << notifier, sent, givenUp, jobs, pushes >> /\ marks' \subseteq marks
    BY <1>4 DEF Insert, RowGetsOld, MarkGetsOld, Sweep, DeleteDispatchedOutbox,
       DeleteProcessedEvents, SweepDies, relayVars, notifyVars, outboxVars, retainVars
  <2>2. faults' >= faults
    BY <1>1, <1>4 DEF Insert, RowGetsOld, MarkGetsOld, Sweep, DeleteDispatchedOutbox,
       DeleteProcessedEvents, SweepDies, outboxVars, retainVars
  <2>3. \A e \in Events : jobs'[e] >= jobs[e]
    BY <1>1, <2>1
  <2> QED BY <1>1, <2>1, <2>2, <2>3, OthersKeepMails
<1> QED BY <1>2, <1>3, <1>4 DEF RetainNext, OutboxNext

\* No mail that was asked for is lost track of: it is in the queue, under way,
\* sent, or among the failed jobs.  With one slot whatever fails, with several
\* as long as nothing does.
THEOREM MailsAreNotLost == RetainSpec => []MailIsNotLost
<1>1. RetainInit => MailInv
  BY DEF RetainInit, OutboxInit, IdleNotifier, MailInv, MarkHasReason, NotifiersKnow, PushedIsNotLost
<1>2. RetainInv /\ MailInv => MailIsNotLost
  BY DEF RetainInv, DispatchedWasPushed, MailInv, PushedIsNotLost, MailIsNotLost, Held
<1> QED BY <1>1, <1>2, MailStep, RetainInvariant, PTL DEF RetainSpec

-----------------------------------------------------------------------------
(* The delivery that a buyer sees. *)

\* A job, a notifier's event and a mail come from a push, a push from a row.
ComesFromPush ==
  \A e \in Events :
    /\ jobs[e] > 0 \/ Held(e) \/ sent[e] > 0 => pushes[e] > 0
    /\ pushes[e] > 0 => row[e] # "NONE"

\* One event takes one step of its delivery, or nothing shows.
LEMMA DeliveryStep ==
  ASSUME \/ \E e \in Events :
              /\ row[e] = "NONE" /\ row' = [row EXCEPT ![e] = "PENDING"]
              /\ UNCHANGED << pushes, sent >>
         \/ \E e \in Events :
              /\ row[e] # "NONE"
              /\ pushes' = [pushes EXCEPT ![e] = pushes[e] + 1]
              /\ UNCHANGED << row, sent >>
         \/ \E e \in Events :
              /\ pushes[e] > 0 /\ sent[e] = 0
              /\ sent' = [sent EXCEPT ![e] = sent[e] + 1]
              /\ UNCHANGED << row, pushes >>
         \/ /\ \A e \in Events : row'[e] = "NONE" <=> row[e] = "NONE"
            /\ UNCHANGED << pushes, sent >>,
         row \in [Events -> {"NONE", "PENDING", "DISPATCHED", "FAILED"}],
         pushes \in [Events -> Nat], sent \in [Events -> Nat]
  PROVE  [Delivery!DeliveryNext]_(Delivery!deliveryVars)
<1> USE DEF Delivery!DeliveryNext, Delivery!deliveryVars
<1>1. ASSUME NEW e \in Events, row[e] = "NONE", row' = [row EXCEPT ![e] = "PENDING"],
             UNCHANGED << pushes, sent >>
      PROVE  Delivery!Place(e)
  BY <1>1 DEF Delivery!Place
<1>2. ASSUME NEW e \in Events, row[e] # "NONE",
             pushes' = [pushes EXCEPT ![e] = pushes[e] + 1], UNCHANGED << row, sent >>
      PROVE  Delivery!Ask(e) \/ UNCHANGED Delivery!deliveryVars
  <2>1. pushes[e] \in Nat
    OBVIOUS
  <2>2. pushes'[e] > 0 /\ \A d \in Events : d # e => pushes'[d] = pushes[d]
    BY <1>2, <2>1
  <2>3. { d \in Events : pushes'[d] > 0 } = { d \in Events : pushes[d] > 0 } \union {e}
    BY <2>2
  <2> QED BY <1>2, <2>3 DEF Delivery!Ask
<1>3. ASSUME NEW e \in Events, pushes[e] > 0, sent[e] = 0,
             sent' = [sent EXCEPT ![e] = sent[e] + 1], UNCHANGED << row, pushes >>
      PROVE  Delivery!Mail(e)
  BY <1>3 DEF Delivery!Mail
<1> QED BY <1>1, <1>2, <1>3

\* What a step does to rows, pushes and mails.
LEMMA RetainDelivers ==
  ASSUME RetainInv, ComesFromPush, [RetainNext]_retainVars
  PROVE  [Delivery!DeliveryNext]_(Delivery!deliveryVars) /\ ComesFromPush'
<1> USE DEF RetainInv, RetainTypeOK, OutboxTypeOK
<1>1. ASSUME NEW e \in Events, Insert(e)
      PROVE  [Delivery!DeliveryNext]_(Delivery!deliveryVars) /\ ComesFromPush'
  <2>1. /\ row[e] = "NONE" /\ row' = [row EXCEPT ![e] = "PENDING"]
        /\ UNCHANGED << jobs, notifier, pushes, sent >>
    BY <1>1 DEF Insert, notifyVars
  <2> QED BY <2>1, DeliveryStep DEF ComesFromPush, Held
<1>2. ASSUME NEW w \in Relays, NEW e \in Events, Push(w, e)
      PROVE  [Delivery!DeliveryNext]_(Delivery!deliveryVars) /\ ComesFromPush'
  <2>1. /\ row[e] # "NONE"
        /\ jobs' = [jobs EXCEPT ![e] = jobs[e] + 1]
        /\ pushes' = [pushes EXCEPT ![e] = pushes[e] + 1]
        /\ UNCHANGED << row, notifier, sent >>
    BY <1>2 DEF Push, Enqueue, RelaysHold, notifyVars
  <2>2. \A d \in Events : /\ d # e => pushes'[d] = pushes[d] /\ jobs'[d] = jobs[d]
                          /\ pushes[d] > 0 => pushes'[d] > 0
    BY <2>1
  <2>3. pushes'[e] > 0
    BY <2>1
  <2>4. ComesFromPush'
    BY <2>1, <2>2, <2>3 DEF ComesFromPush, Held
  <2>5. [Delivery!DeliveryNext]_(Delivery!deliveryVars)
    BY <2>1, DeliveryStep
  <2> QED BY <2>4, <2>5
<1>3. ASSUME NEW w \in Relays, RelayOnce(w), ~(\E e \in Events : Push(w, e))
      PROVE  [Delivery!DeliveryNext]_(Delivery!deliveryVars) /\ ComesFromPush'
  <2>1. UNCHANGED << jobs, notifier, pushes, sent >>
    BY <1>3 DEF RelayOnce, SelectBatch, CommitBatch, RelayThrows, Blame, RecordFailure,
       RelayDies, notifyVars
  <2>2. \A e \in Events : row'[e] = "NONE" <=> row[e] = "NONE"
    <3>1. \A e \in relay[w].batch : row[e] # "NONE"
      BY DEF RelaysHold
    <3> QED BY <1>3, <3>1 DEF RelayOnce, SelectBatch, CommitBatch, RelayThrows, Blame,
         RecordFailure, RelayDies
  <2> QED BY <2>1, <2>2, DeliveryStep DEF ComesFromPush, Held
<1>4. ASSUME NEW n \in Notifiers, Send(n)
      PROVE  [Delivery!DeliveryNext]_(Delivery!deliveryVars) /\ ComesFromPush'
  <2> DEFINE e == notifier[n].event
  <2>1. /\ notifier[n].stage = "claimed"
        /\ notifier' = [notifier EXCEPT ![n].stage = "sent"]
        /\ sent' = [sent EXCEPT ![e] = sent[e] + 1]
        /\ UNCHANGED << row, jobs, pushes >>
    BY <1>4 DEF Send, NotifierAt, relayVars
  <2>2. e \in Events /\ sent[e] = 0
    BY <2>1 DEF NotifiersHold
  <2>3. pushes[e] > 0
    BY <2>2 DEF ComesFromPush, Held
  <2>4. \A m \in Notifiers : notifier'[m].event = notifier[m].event
    BY <2>1 DEF Notifier
  <2>5. \A d \in Events : d # e => sent'[d] = sent[d]
    BY <2>1
  <2>6. ComesFromPush'
    BY <2>1, <2>3, <2>4, <2>5 DEF ComesFromPush, Held
  <2>7. [Delivery!DeliveryNext]_(Delivery!deliveryVars)
    BY <2>1, <2>2, <2>3, DeliveryStep
  <2> QED BY <2>6, <2>7
<1>5. ASSUME NEW n \in Notifiers, SendConfirmation(n), ~Send(n)
      PROVE  [Delivery!DeliveryNext]_(Delivery!deliveryVars) /\ ComesFromPush'
  <2>1. UNCHANGED << row, pushes, sent >>
    BY <1>5 DEF SendConfirmation, Finish, SendRefused, SendThrows, Release,
       NotifierDies, Claim, SkipRepeat, relayVars, notifyVars
  <2>2. NotifierInv /\ NotifierInv'
    BY <1>5, RetainStep DEF NotifierInv, NotifierTypes
  <2>3. \A e \in Events : jobs'[e] > 0 => jobs[e] > 0
    <3>1. ASSUME NEW e \in Events, EndJob(e) PROVE \A d \in Events : jobs'[d] > 0 => jobs[d] > 0
      BY <3>1 DEF EndJob
    <3>2. notifier[n].stage # "idle" => notifier[n].event \in Events
      BY DEF NotifiersHold
    <3>3. ASSUME Finish(n) \/ SendRefused(n) PROVE EndJob(notifier[n].event) /\ notifier[n].stage # "idle"
      BY <3>3 DEF Finish, SendRefused, NotifierAt
    <3>4. ASSUME Release(n) \/ SendThrows(n) \/ NotifierDies(n) \/ \E e \in Events : Claim(n, e) \/ SkipRepeat(n, e)
          PROVE  jobs' = jobs \/ \E e \in Events : jobs[e] > 0 /\ jobs' = [jobs EXCEPT ![e] = jobs[e] - 1]
      BY <3>2, <3>4 DEF Release, SendThrows, NotifierDies, Claim, SkipRepeat, NotifierAt
    <3> QED BY <1>5, <3>1, <3>2, <3>3, <3>4 DEF SendConfirmation
  <2>4. \A e \in Events : Held(e)' => Held(e) \/ jobs[e] > 0
    <3>1. ASSUME NEW e \in Events, Claim(n, e)
          PROVE  notifier' = [notifier EXCEPT ![n] = [ stage |-> "claimed", event |-> e ]] /\ jobs[e] > 0
      BY <3>1 DEF Claim
    <3>2. ASSUME ~(\E e \in Events : Claim(n, e))
          PROVE  \/ notifier' = [notifier EXCEPT ![n] = IdleNotifier]
                 \/ notifier' = [notifier EXCEPT ![n].stage = "releasing"]
                 \/ notifier' = notifier
      BY <1>5, <3>2 DEF SendConfirmation, Finish, SendRefused, SendThrows, Release,
         NotifierDies, SkipRepeat, notifyVars
    <3> QED BY <3>1, <3>2 DEF Held, IdleNotifier, Notifier
  <2> QED BY <2>1, <2>3, <2>4, DeliveryStep DEF ComesFromPush
<1>6. ASSUME \/ \E e \in Events : RowGetsOld(e) \/ MarkGetsOld(e)
             \/ Sweep
             \/ UNCHANGED retainVars
      PROVE  [Delivery!DeliveryNext]_(Delivery!deliveryVars) /\ ComesFromPush'
  <2>1. UNCHANGED << row, jobs, notifier, pushes, sent >>
    BY <1>6 DEF RowGetsOld, MarkGetsOld, Sweep, DeleteDispatchedOutbox,
       DeleteProcessedEvents, SweepDies, relayVars, notifyVars, outboxVars, retainVars
  <2> QED BY <2>1, DeliveryStep DEF ComesFromPush, Held
<1> QED BY <1>1, <1>2, <1>3, <1>4, <1>5, <1>6 DEF RetainNext, OutboxNext

\* Outbox, queue, marks and sweep implement the delivery of MailDelivery: a mail
\* goes out once, and only after its order committed and its event was pushed.
THEOREM ImplementsDelivery == RetainSpec => KeepsDelivery
<1>1. RetainInit => ComesFromPush /\ Delivery!DeliveryInit
  BY DEF RetainInit, OutboxInit, IdleNotifier, ComesFromPush, Held, Delivery!DeliveryInit
<1>2. RetainInv /\ ComesFromPush /\ [RetainNext]_retainVars
        => [Delivery!DeliveryNext]_(Delivery!deliveryVars) /\ ComesFromPush'
  BY RetainDelivers
<1> QED BY <1>1, <1>2, RetainInvariant, PTL DEF RetainSpec, KeepsDelivery, Delivery!DeliverySpec

=============================================================================
