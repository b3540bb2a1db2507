------------------------------ MODULE ApiServer ------------------------------
(***************************************************************************)
(* The life of the API process as its clients notice it: it comes up, may  *)
(* lose PostgreSQL or Redis for a while, and is told to stop.  Then two    *)
(* things begin at once: the shutdown of main.ts, which says 503 on /ready *)
(* and closes after SHUTDOWN_GRACE_MS, and the hooks of Nest, which close  *)
(* the connections without waiting.                                        *)
(***************************************************************************)

VARIABLES
  listening,    \* the port is open
  shuttingDown, \* HealthService.shuttingDown, set together with main's flag
  connections   \* to PostgreSQL and Redis: open, down for a while, or closed

serverVars == << listening, shuttingDown, connections >>

ServerTypeOK ==
  /\ listening \in BOOLEAN /\ shuttingDown \in BOOLEAN
  /\ connections \in {"open", "down", "closed"}
  /\ connections = "closed" => shuttingDown \/ ~listening

ServerInit == listening = TRUE /\ shuttingDown = FALSE /\ connections = "open"

\* GET /ready: a load balancer sends calls here.  GET /health asks only
\* whether the process runs, so an outage does not get it restarted.
Readiness == listening /\ connections = "open" /\ ~shuttingDown
Liveness == listening

\* onModuleInit and onModuleDestroy of PrismaService and RedisService.
Connect == connections' = "open"
Disconnect == connections' = "closed"

Outage ==
  /\ connections = "open"
  /\ connections' = "down"
  /\ UNCHANGED << listening, shuttingDown >>

Recovery ==
  /\ connections = "down"
  /\ connections' = "open"
  /\ UNCHANGED << listening, shuttingDown >>

\* SIGTERM or SIGINT; a second one is ignored.
BeginShutdown ==
  /\ listening /\ ~shuttingDown
  /\ shuttingDown' = TRUE
  /\ UNCHANGED << listening, connections >>

\* enableShutdownHooks: onModuleDestroy of every module, during the grace.
ShutdownHooks ==
  /\ shuttingDown /\ connections # "closed"
  /\ Disconnect
  /\ UNCHANGED << listening, shuttingDown >>

\* app.close() and process.exit after the grace.
CloseApp ==
  /\ listening /\ shuttingDown
  /\ listening' = FALSE /\ Disconnect
  /\ UNCHANGED shuttingDown

\* bootstrap() of the next version.
Bootstrap ==
  /\ ~listening
  /\ listening' = TRUE /\ shuttingDown' = FALSE /\ Connect

ServerNext ==
  Outage \/ Recovery \/ BeginShutdown \/ ShutdownHooks \/ CloseApp \/ Bootstrap

=============================================================================
