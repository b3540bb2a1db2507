----------------------------- MODULE StockLedger -----------------------------
(***************************************************************************)
(* What the engine promises about the units of one stock row, whatever     *)
(* handlers, jobs and crashes there are: a claim takes its units out of    *)
(* the row once and only when they are there; it is then sold for good,    *)
(* or gives them back, or, when a process dies at a bad moment, loses      *)
(* them.  Units are never made and never sold twice.                       *)
(***************************************************************************)
EXTENDS StockUnits

VARIABLES
  free,   \* units in the row
  hold    \* hold[c]: what became of the units of c

ledgerVars == << free, hold >>

Holds == { "none", "held", "sold", "lost" }

LedgerInit ==
  /\ free = Total
  /\ hold = [c \in Claims |-> "none"]

Take(c) ==
  /\ hold[c] = "none" /\ free >= Amount[c]
  /\ hold' = [hold EXCEPT ![c] = "held"]
  /\ free' = free - Amount[c]

GiveBack(c) ==
  /\ hold[c] = "held"
  /\ hold' = [hold EXCEPT ![c] = "none"]
  /\ free' = free + Amount[c]

\* A sale or a loss is final.
Settle(c, end) ==
  /\ hold[c] = "held"
  /\ hold' = [hold EXCEPT ![c] = end]
  /\ UNCHANGED free

LedgerNext ==
  \E c \in Claims : Take(c) \/ GiveBack(c) \/ Settle(c, "sold") \/ Settle(c, "lost")

LedgerSpec == LedgerInit /\ [][LedgerNext]_ledgerVars

Taken == { c \in Claims : hold[c] # "none" }

\* Types; the row never holds a negative number of units.
LedgerTypeOK ==
  /\ free \in Nat
  /\ hold \in [Claims -> Holds]

\* Every unit is in the row or with exactly one claim (no sale out of thin
\* air, no unit returned twice).
Balanced == free + Cardinality(Units(Taken)) = Total

\* Never more units sold than there were.
NotOversold == Cardinality(Units({ c \in Claims : hold[c] = "sold" })) <= Total

=============================================================================
