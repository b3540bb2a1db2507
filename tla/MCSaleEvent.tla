----------------------------- MODULE MCSaleEvent -----------------------------
(* Small instances of SaleEvent for TLC. *)
EXTENDS SaleEvent, TLC

CONSTANTS r1, r2, r3, ann, bob, k1

\* ann's call, her retry with the same key, and a second buyer's.
TwoBuyers  == (r1 :> ann @@ r2 :> ann @@ r3 :> bob)
RetriedKey == (r1 :> k1 @@ r2 :> k1 @@ r3 :> k1)
Amounts    == (r1 :> 1 @@ r2 :> 2 @@ r3 :> 1)
\* One call of each of two buyers.
OneEach    == (r1 :> ann @@ r2 :> bob)
SameString == (r1 :> k1 @@ r2 :> k1)
OneAndTwo  == (r1 :> 1 @@ r2 :> 2)
=============================================================================
