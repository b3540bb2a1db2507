----------------------------- MODULE StockUnits -----------------------------
(***************************************************************************)
(* The units of one stock row and those who want them: what the ledger,    *)
(* the programs that keep it and the counter beside it have in common.     *)
(***************************************************************************)
EXTENDS Integers, FiniteSets

CONSTANTS
  Claims,   \* who may take units
  Amount,   \* Amount[c]: how many units c takes
  MaxAmount,
  Total     \* units there are

LedgerConstants ==
  /\ IsFiniteSet(Claims)
  /\ MaxAmount \in Nat
  /\ Amount \in [Claims -> 1..MaxAmount]
  /\ Total \in Nat

ASSUME LedgerAssumption == LedgerConstants

\* The units of the claims in S, each unit an element of its own.
Units(S) == { u \in Claims \X (1..MaxAmount) : u[1] \in S /\ u[2] <= Amount[u[1]] }

=============================================================================
