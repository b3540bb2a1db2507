--------------------------- MODULE MCRedisReserver ---------------------------
(* A small instance of RedisReserver for TLC. *)
EXTENDS RedisReserver, TLC

CONSTANTS a, b, c

\* Together more than the total, so that not everybody can take.
Amounts == (a :> 1 @@ b :> 2 @@ c :> 2)
=============================================================================
