-------------------------- MODULE StockLedgerProofs --------------------------
(* The ledger balances for every set of claims and every amount. *)
EXTENDS StockLedger, FiniteSetTheorems, TLAPS

USE DEF LedgerConstants

(* There are finitely many units. *)
LEMMA UnitsFinite == \A T : IsFiniteSet(Units(T))
<1>1. IsFiniteSet(1..MaxAmount)
  BY LedgerAssumption, FS_Interval
<1>2. IsFiniteSet(Claims \X (1..MaxAmount))
  BY <1>1, LedgerAssumption, FS_Product
<1>3. \A T : Units(T) \in SUBSET (Claims \X (1..MaxAmount))
  BY DEF Units
<1> QED BY <1>2, <1>3, FS_Subset

(* One more claim adds exactly its amount of units: the numbering that makes *)
(* every unit an element of its own.                                         *)
LEMMA UnitsAdd ==
  ASSUME NEW S \in SUBSET Claims, NEW c \in Claims \ S
  PROVE  /\ IsFiniteSet(Units(S))
         /\ IsFiniteSet(Units(S \union {c}))
         /\ Cardinality(Units(S \union {c})) = Cardinality(Units(S)) + Amount[c]
<1> USE LedgerAssumption
<1>1. IsFiniteSet(1..Amount[c]) /\ Cardinality(1..Amount[c]) = Amount[c]
  BY FS_Interval
<1>3. /\ IsFiniteSet(Units(S)) /\ IsFiniteSet(Units({c}))
      /\ IsFiniteSet(Units(S \union {c}))
  BY UnitsFinite
<1>4. Cardinality(Units({c})) = Amount[c]
  <2> DEFINE number == [ n \in 1..Amount[c] |-> << c, n >> ]
  <2>1. number \in Bijection(1..Amount[c], Units({c}))
    <3>1. number \in [1..Amount[c] -> Units({c})]
      BY DEF Units
    <3>2. \A m, n \in 1..Amount[c] : number[m] = number[n] => m = n
      OBVIOUS
    <3>3. \A u \in Units({c}) : \E n \in 1..Amount[c] : number[n] = u
      <4> SUFFICES ASSUME NEW u \in Units({c})
                   PROVE  \E n \in 1..Amount[c] : number[n] = u
        OBVIOUS
      <4>1. /\ u \in Claims \X (1..MaxAmount)
            /\ u[1] = c /\ u[2] <= Amount[c]
        BY DEF Units
      <4>2. u[2] \in 1..Amount[c] /\ u = << c, u[2] >>
        BY <4>1
      <4>3. number[u[2]] = u
        BY <4>2
      <4> QED BY <4>2, <4>3
    <3> QED BY <3>1, <3>2, <3>3 DEF Bijection, Injection, Surjection, IsInjective
  <2>2. ExistsBijection(1..Amount[c], Units({c}))
    BY <2>1 DEF ExistsBijection
  <2> QED BY <1>1, <2>2, FS_Bijection
<1>5. /\ Units(S \union {c}) = Units(S) \union Units({c})
      /\ Units(S) \intersect Units({c}) = {}
  BY DEF Units
<1>6. Cardinality(Units(S) \union Units({c})) =
        Cardinality(Units(S)) + Cardinality(Units({c})) - Cardinality({})
  BY <1>3, <1>5, FS_Union
<1>7. Cardinality(Units(S)) \in Nat /\ Amount[c] \in Nat
  BY <1>3, FS_CardinalityType
<1>8. Cardinality({}) = 0
  BY FS_EmptySet
<1>9. Cardinality(Units(S) \union Units({c})) = Cardinality(Units(S)) + Amount[c]
  <2> HIDE LedgerAssumption
  <2> QED BY <1>4, <1>6, <1>7, <1>8
<1>10. Cardinality(Units(S \union {c})) = Cardinality(Units(S)) + Amount[c]
  BY <1>5, <1>9, Zenon
<1> QED BY <1>3, <1>10, Zenon

LedgerInv == LedgerTypeOK /\ Balanced

(* The initial ledger satisfies the inductive invariant. *)
LEMMA LedgerInitInv == LedgerInit => LedgerInv
<1> SUFFICES ASSUME LedgerInit PROVE LedgerInv
  OBVIOUS
<1>1. LedgerTypeOK
  BY LedgerAssumption DEF LedgerInit, LedgerTypeOK, Holds
<1>2. Taken = {} /\ Units(Taken) = {}
  BY DEF LedgerInit, Taken, Units
<1> QED BY <1>1, <1>2, FS_EmptySet, LedgerAssumption
        DEF LedgerInit, LedgerInv, Balanced

(* Every step of the ledger preserves it. *)
LEMMA LedgerStepInv == LedgerInv /\ [LedgerNext]_ledgerVars => LedgerInv'
<1> SUFFICES ASSUME LedgerInv, [LedgerNext]_ledgerVars
             PROVE  LedgerInv'
  OBVIOUS
<1> USE LedgerAssumption DEF LedgerInv, LedgerTypeOK, Holds
<1>a. \A c \in Claims : Amount[c] \in Nat
  OBVIOUS
<1>1. ASSUME NEW c \in Claims, Take(c) PROVE LedgerInv'
  <2>1. LedgerTypeOK'
    BY <1>1, <1>a DEF Take
  <2>2. c \notin Taken /\ Taken' = Taken \union {c} /\ Taken \in SUBSET Claims
    BY <1>1 DEF Take, Taken
  <2>3. /\ IsFiniteSet(Units(Taken))
        /\ Cardinality(Units(Taken')) = Cardinality(Units(Taken)) + Amount[c]
    BY <2>2, UnitsAdd
  <2>4. Units(Taken)' = Units(Taken')
    BY DEF Units
  <2> QED BY <1>1, <1>a, <2>1, <2>3, <2>4, FS_CardinalityType DEF Take, Balanced
<1>2. ASSUME NEW c \in Claims, GiveBack(c) PROVE LedgerInv'
  <2>1. LedgerTypeOK'
    BY <1>2, <1>a DEF GiveBack
  <2>2. /\ Taken' \in SUBSET Claims /\ c \notin Taken'
        /\ Taken = Taken' \union {c}
    BY <1>2 DEF GiveBack, Taken
  <2>3. /\ IsFiniteSet(Units(Taken'))
        /\ Cardinality(Units(Taken)) = Cardinality(Units(Taken')) + Amount[c]
    BY <2>2, UnitsAdd
  <2>4. Units(Taken)' = Units(Taken')
    BY DEF Units
  <2> QED BY <1>2, <1>a, <2>1, <2>3, <2>4, FS_CardinalityType DEF GiveBack, Balanced
<1>3. ASSUME NEW c \in Claims, NEW end \in { "sold", "lost" }, Settle(c, end)
      PROVE  LedgerInv'
  <2>1. LedgerTypeOK'
    BY <1>3 DEF Settle
  <2>2. Taken' = Taken
    BY <1>3 DEF Settle, Taken
  <2> QED BY <1>3, <2>1, <2>2 DEF Settle, Balanced, Units
<1>4. CASE UNCHANGED ledgerVars
  BY <1>4 DEF ledgerVars, Balanced, Units, Taken
<1> QED BY <1>1, <1>2, <1>3, <1>4 DEF LedgerNext

(* Every unit is in the row or with exactly one claim, in every state of the *)
(* ledger.                                                                   *)
THEOREM LedgerBalanced == LedgerSpec => []Balanced
<1>1. LedgerInv => Balanced
  BY DEF LedgerInv
<1> QED BY LedgerInitInv, LedgerStepInv, <1>1, PTL DEF LedgerSpec

(* The ledger never sells more units than there were. *)
THEOREM LedgerNotOversold == LedgerSpec => []NotOversold
<1>1. LedgerInv => NotOversold
  <2> SUFFICES ASSUME LedgerInv PROVE NotOversold
    OBVIOUS
  <2> DEFINE Sold == { c \in Claims : hold[c] = "sold" }
  <2>1. IsFiniteSet(Units(Taken))
    BY UnitsFinite
  <2>2. Units(Sold) \in SUBSET Units(Taken)
    BY DEF Units, Taken
  <2>3. /\ Cardinality(Units(Sold)) <= Cardinality(Units(Taken))
        /\ IsFiniteSet(Units(Sold))
    BY <2>1, <2>2, FS_Subset
  <2> QED BY <2>1, <2>3, FS_CardinalityType, LedgerAssumption
          DEF LedgerInv, LedgerTypeOK, Balanced, NotOversold
<1> QED BY LedgerInitInv, LedgerStepInv, <1>1, PTL DEF LedgerSpec
=============================================================================
