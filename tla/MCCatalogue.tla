------------------------------ MODULE MCCatalogue ------------------------------
(* The catalogue with at most three rows and two requests at a time. *)
EXTENDS Catalogue, TLC

CONSTANTS s1, s2, v1, u1, q1, q2

\* The slugs differ past the letters a code keeps, and their hashes agree.
MCSkuCode == [ x \in Slugs \X Variants |-> x[2] ]

Symmetry == Permutations({ s1, s2 }) \cup Permutations({ q1, q2 })

=============================================================================
