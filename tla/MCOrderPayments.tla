--------------------------- MODULE MCOrderPayments ---------------------------
(* Small instances of OrderPayments for TLC. *)
EXTENDS OrderPayments, TLC

CONSTANTS r1, ann, k1, c1, c2, i1, i2, e1, e2, w1, w2

Buyer     == (r1 :> ann)
TheKey    == (r1 :> k1)
One       == (r1 :> 1)

\* Two intents for one order; both are charged with the right sum, or the second
\* with a wrong one, and each is reported by an event of its own.
BothForR1 == (i1 :> r1 @@ i2 :> r1)
FirstFits == (i1 :> TRUE @@ i2 :> FALSE)
BothFit   == (i1 :> TRUE @@ i2 :> TRUE)
OneEach   == (e1 :> i1 @@ e2 :> i2)
=============================================================================
