----------------------------- MODULE MCRetention -----------------------------
(* Small instances of Retention for TLC. *)
EXTENDS Retention

CONSTANTS w1, w2, n1
=============================================================================
