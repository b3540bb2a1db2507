------------------------------- MODULE Worker -------------------------------
(***************************************************************************)
(* The processes that work off the queue "flash-core".  worker.ts runs     *)
(* until it is told to stop.  worker-once.ts is started again and again by *)
(* Cloud Scheduler: such a turn calls the periodic works itself, takes     *)
(* jobs until none waits or BUDGET_MS is over, and exits.  Both let the    *)
(* Worker of BullMQ keep a job's life: it is waiting, active, delayed      *)
(* before its next attempt, completed or failed, and failed is the DLQ.    *)
(*                                                                         *)
(* What a job does is in the modules of its handler; here an attempt       *)
(* passes, throws, or throws what no retry can mend, and a periodic work   *)
(* may throw each time.                                                    *)
(***************************************************************************)
EXTENDS Naturals, Sequences, FiniteSets

CONSTANTS
  Jobs,        \* the jobs that are added once; None is no process
  LongWorkers, \* processes of worker.ts
  Turns,       \* processes of worker-once.ts
  Attempts,    \* RETRY: Attempts[j] is what j's name allows
  Hopeless,    \* jobs that may throw an UnrecoverableError
  Concurrency, \* QUEUE_CONCURRENCY
  MaxDeaths,   \* bound on the processes that die
  None

Procs == LongWorkers \union Turns

ASSUME WorkerAssumption ==
  /\ LongWorkers \intersect Turns = {} /\ None \notin Procs
  /\ Attempts \in [Jobs -> Nat \ {0}]
  /\ Hopeless \subseteq Jobs
  /\ Concurrency \in Nat \ {0} /\ MaxDeaths \in Nat

VARIABLES
  job,       \* job[j]: where the queue keeps j
  holder,    \* holder[j]: the process with the lock of j
  made,      \* made[j]: attemptsMade
  stalls,    \* stalls[j]: how often the lock of j ran out
  stage,     \* stage[p]: how far a process is
  connected, \* the processes with their Prisma and Redis connections open
  work,      \* work[p]: the periodic works a turn has called
  deaths,
  scheduled, \* the repeated jobs are registered
  ran        \* history: the periodic work that was tried last

queueVars  == << job, holder, made, stalls >>
procVars   == << stage, connected, work, deaths >>
workerVars == << queueVars, procVars, scheduled, ran >>

\* The periodic works in the order of worker-once.ts; the repeated jobs of
\* registerRepeatables are the same four.
OnceWorks == << "outbox.relay", "order.expire.sweep", "data.retention",
                "sale-event.settle" >>
Works == { OnceWorks[i] : i \in DOMAIN OnceWorks }

Ended == {"completed", "failed"}

\* A job that stalls once more than this is given up by BullMQ.
MaxStalled == 1

WorkerInit ==
  /\ job = [ j \in Jobs |-> "none" ]
  /\ holder = [ j \in Jobs |-> None ]
  /\ made = [ j \in Jobs |-> 0 ]
  /\ stalls = [ j \in Jobs |-> 0 ]
  /\ stage = [ p \in Procs |-> "off" ]
  /\ connected = {}
  /\ work = [ p \in Procs |-> 0 ]
  /\ deaths = 0
  /\ scheduled = FALSE
  /\ ran = "none"

(* What every process can hold: an active job may be nobody's, when its    *)
(* process died.                                                           *)
WorkerTypeOK ==
  /\ job \in [Jobs -> {"none", "waiting", "active", "delayed"} \union Ended]
  /\ holder \in [Jobs -> Procs \union {None}]
  /\ \A j \in Jobs : holder[j] # None => /\ job[j] = "active"
                                          /\ stage[holder[j]] \in {"taking", "closing"}
  /\ made \in [Jobs -> Nat] /\ \A j \in Jobs : made[j] <= Attempts[j]
  /\ stalls \in [Jobs -> 0..(MaxStalled + 1)]
  /\ stage \in [Procs -> {"off", "works", "taking", "closing", "dead"}]
  /\ connected \subseteq Procs
  /\ work \in [Procs -> 0..Len(OnceWorks)]
  /\ deaths \in 0..MaxDeaths
  /\ scheduled \in BOOLEAN
  /\ ran \in Works \union {"none"}

-----------------------------------------------------------------------------
(* The queue.                                                              *)

Held(p) == { j \in Jobs : holder[j] = p }

Moves(j, from, to) == job[j] = from /\ job' = [job EXCEPT ![j] = to]

\* QueueService.add, with a delay or without.
Add(j) ==
  /\ \E to \in {"waiting", "delayed"} : Moves(j, "none", to)
  /\ UNCHANGED << holder, made, stalls, procVars, scheduled, ran >>

DelayEnds(j) ==
  /\ Moves(j, "delayed", "waiting")
  /\ UNCHANGED << holder, made, stalls, procVars, scheduled, ran >>

Take(p, j) ==
  /\ stage[p] = "taking" /\ Cardinality(Held(p)) < Concurrency
  /\ Moves(j, "waiting", "active")
  /\ holder' = [holder EXCEPT ![j] = p]
  /\ UNCHANGED << made, stalls, procVars, scheduled, ran >>

Completes(p, j) ==
  /\ holder[j] = p
  /\ Moves(j, "active", "completed")
  /\ holder' = [holder EXCEPT ![j] = None]
  /\ UNCHANGED << made, stalls, procVars, scheduled, ran >>

\* As worker-once.ts was first written: it called the processor itself.
ThrowsUncounted(p, j) ==
  /\ holder[j] = p
  /\ Moves(j, "active", IF j \in Hopeless THEN "failed" ELSE "waiting")
  /\ holder' = [holder EXCEPT ![j] = None]
  /\ UNCHANGED << made, stalls, procVars, scheduled, ran >>

\* The attempt throws: j waits for its next one, or stays in the DLQ.
Throws(p, j) ==
  /\ holder[j] = p
  /\ made' = [made EXCEPT ![j] = @ + 1]
  /\ \/ Moves(j, "active", IF made'[j] < Attempts[j] THEN "delayed" ELSE "failed")
     \/ j \in Hopeless /\ Moves(j, "active", "failed")
  /\ holder' = [holder EXCEPT ![j] = None]
  /\ UNCHANGED << stalls, procVars, scheduled, ran >>

\* A process that takes jobs finds one whose lock ran out.
Stalls(j) ==
  /\ holder[j] = None
  /\ \E p \in Procs : stage[p] = "taking"
  /\ stalls' = [stalls EXCEPT ![j] = @ + 1]
  /\ Moves(j, "active", IF stalls[j] < MaxStalled THEN "waiting" ELSE "failed")
  /\ UNCHANGED << holder, made, procVars, scheduled, ran >>

-----------------------------------------------------------------------------
(* The processes.                                                          *)

GoesTo(p, at) == stage' = [stage EXCEPT ![p] = at]

\* onModuleInit and onModuleDestroy of Prisma, Redis and the queue.
Connects(p)    == connected' = connected \union {p}
Disconnects(p) == connected' = connected \ {p}

Down(p) == stage[p] \in {"off", "dead"}

StartLong(p) ==
  /\ p \in LongWorkers /\ Down(p)
  /\ GoesTo(p, "taking") /\ Connects(p)
  /\ scheduled' = TRUE
  /\ UNCHANGED << queueVars, work, deaths, ran >>

\* Cloud Scheduler starts the next turn.
StartTurn(p) ==
  /\ p \in Turns /\ Down(p)
  /\ GoesTo(p, "works") /\ Connects(p)
  /\ UNCHANGED << queueVars, work, deaths, scheduled, ran >>

\* Without the catch, what the work throws ends the turn.
RunRethrowing(p) ==
  /\ stage[p] = "works" /\ work[p] < Len(OnceWorks)
  /\ ran' = OnceWorks[work[p] + 1]
  /\ \/ GoesTo(p, "works") /\ work' = [work EXCEPT ![p] = @ + 1]
     \/ GoesTo(p, "off") /\ work' = [work EXCEPT ![p] = 0]
  /\ UNCHANGED << queueVars, connected, deaths, scheduled >>

\* runSafely: whether the work passed or threw makes no difference.
RunSafely(p) ==
  /\ stage[p] = "works" /\ work[p] < Len(OnceWorks)
  /\ ran' = OnceWorks[work[p] + 1]
  /\ work' = [work EXCEPT ![p] = @ + 1]
  /\ UNCHANGED << queueVars, stage, connected, deaths, scheduled >>

TakesJobs(p) ==
  /\ stage[p] = "works" /\ work[p] = Len(OnceWorks)
  /\ GoesTo(p, "taking")
  /\ work' = [work EXCEPT ![p] = 0]
  /\ UNCHANGED << queueVars, connected, deaths, scheduled, ran >>

\* A repeated job has one attempt, and the next one comes by itself.
RunRepeated(p, k) ==
  /\ scheduled
  /\ stage[p] = "taking" /\ Cardinality(Held(p)) < Concurrency
  /\ ran' = k
  /\ UNCHANGED << queueVars, procVars, scheduled >>

\* A turn is drained or BUDGET_MS is over; worker.ts gets a signal.
StopTaking(p) ==
  /\ stage[p] = "taking"
  /\ GoesTo(p, "closing")
  /\ UNCHANGED << queueVars, connected, work, deaths, scheduled, ran >>

\* enableShutdownHooks: at the same signal Nest closes what the modules have
\* open, beside worker.close.  worker-once.ts does not enable them.
ModulesDestroyed(p) ==
  /\ p \in LongWorkers /\ stage[p] = "closing" /\ p \in connected
  /\ Disconnects(p)
  /\ UNCHANGED << queueVars, stage, work, deaths, scheduled, ran >>

\* worker.close waits for the jobs at work; then app.close and process.exit.
Close(p) ==
  /\ stage[p] = "closing" /\ Held(p) = {}
  /\ GoesTo(p, "off") /\ Disconnects(p)
  /\ UNCHANGED << queueVars, work, deaths, scheduled, ran >>

\* A crash, SIGKILL, or a signal to a turn, which has no handler for it.
Dies(p) ==
  /\ ~ Down(p) /\ deaths < MaxDeaths
  /\ GoesTo(p, "dead") /\ Disconnects(p)
  /\ holder' = [ j \in Jobs |-> IF holder[j] = p THEN None ELSE holder[j] ]
  /\ work' = [work EXCEPT ![p] = 0]
  /\ deaths' = deaths + 1
  /\ UNCHANGED << job, made, stalls, scheduled, ran >>

WorkerNext ==
  \/ \E j \in Jobs : Add(j) \/ DelayEnds(j) \/ Stalls(j)
  \/ \E p \in Procs, j \in Jobs : Take(p, j) \/ Completes(p, j) \/ Throws(p, j)
  \/ \E p \in Procs, k \in Works : RunRepeated(p, k)
  \/ \E p \in Procs : \/ StartLong(p) \/ StartTurn(p) \/ RunSafely(p) \/ TakesJobs(p)
                      \/ StopTaking(p) \/ ModulesDestroyed(p) \/ Close(p) \/ Dies(p)

(* Cloud Scheduler goes on starting turns and a turn goes through its      *)
(* steps.  Now and then one comes to a job that waits or was left: its     *)
(* BUDGET_MS is long against the time it takes to get there.  A delay runs *)
(* out and an attempt ends.  worker.ts need never be started.              *)
WorkerFairness ==
  /\ \A p \in Turns : WF_workerVars(\/ StartTurn(p) \/ RunSafely(p) \/ TakesJobs(p)
                                    \/ StopTaking(p) \/ Close(p))
  /\ \A j \in Jobs :
       /\ WF_workerVars(\/ DelayEnds(j)
                        \/ \E p \in Procs : Completes(p, j) \/ Throws(p, j))
       /\ SF_workerVars(Stalls(j) \/ \E p \in Procs : Take(p, j))

WorkerSpec == WorkerInit /\ [][WorkerNext]_workerVars /\ WorkerFairness

-----------------------------------------------------------------------------
(* A job that is added comes to an end whatever throws and whatever dies:  *)
(* it is completed, or it lies in the DLQ where one can look for it.  It   *)
(* is never tried without end, and never lost with the process that had it *)
(* (worker-once.ts 10-16, QueueService.RETRY).                             *)
JobsEnd == \A j \in Jobs : job[j] # "none" ~> job[j] \in Ended

Spent(j) == made[j] = Attempts[j] \/ stalls[j] > MaxStalled

(* A job lies in the DLQ as soon as its attempts are used up or its lock   *)
(* has run out too often, and not before, but for an error that no retry   *)
(* can mend (QueueService.RETRY).                                          *)
GivenUpInTime ==
  \A j \in Jobs : /\ Spent(j) => job[j] = "failed"
                  /\ job[j] = "failed" => Spent(j) \/ j \in Hopeless

\* How often j can still come back from a process.
TriesLeft(j) == (Attempts[j] - made[j]) + (MaxStalled + 1 - stalls[j])

(* What brings a job back from a process costs it a try, whether it threw  *)
(* or the process died; nothing gives it a new one or wakes one that has   *)
(* ended.  So no job is tried without end (worker-once.ts 10-16).          *)
RetriesRunOut ==
  [][\A j \in Jobs :
       /\ TriesLeft(j)' <= TriesLeft(j)
       /\ job[j] = "active" /\ job'[j] \in {"waiting", "delayed"} => TriesLeft(j)' < TriesLeft(j)
       /\ job[j] \in Ended => job'[j] = job[j]]_workerVars

(* Every periodic work is tried again and again, also when another of them *)
(* throws each time it is called (worker-once.ts runSafely).               *)
EveryWorkIsTried == \A k \in Works : []<>(ran = k)

-----------------------------------------------------------------------------
(* What the repository says of this part; WorkerShutdown.cfg refutes it.   *)

(* A job at work has the connections it needs to the end: the worker is    *)
(* closed before the app is (worker.ts 83-85).                             *)
ConnectionsOutliveJobs == \A p \in Procs : Held(p) # {} => p \in connected
=============================================================================
