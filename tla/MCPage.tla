------------------------------- MODULE MCPage -------------------------------
(* Small instances of Page for TLC. *)
EXTENDS Page

CONSTANTS p1, p2
=============================================================================
