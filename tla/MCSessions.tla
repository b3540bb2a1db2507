----------------------------- MODULE MCSessions -----------------------------
(* Small instances of Sessions for TLC. *)
EXTENDS Sessions

CONSTANTS u1, i1, t1, t2, t3, t4, c1, c2, c3
=============================================================================
