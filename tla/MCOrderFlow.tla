----------------------------- MODULE MCOrderFlow -----------------------------
(* A small instance of OrderFlow for TLC. *)
EXTENDS OrderFlow, TLC

CONSTANTS r1, r2, r3, ann, bob, k1, c1

\* ann's call and her retry, with the same key and another quantity; bob's
\* call carries the same string, which is another key because it is bob's.
TwoBuyers  == (r1 :> ann @@ r2 :> ann @@ r3 :> bob)
SameString == (r1 :> k1 @@ r2 :> k1 @@ r3 :> k1)
Amounts    == (r1 :> 1 @@ r2 :> 2 @@ r3 :> 1)
=============================================================================
