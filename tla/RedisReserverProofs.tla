------------------------- MODULE RedisReserverProofs -------------------------
(* For every set of calls, every amount and every number of failures: the row *)
(* is a ledger, and the counter keeps in step with it or below it but for     *)
(* what others move.                                                          *)
EXTENDS RedisReserver, FiniteSetTheorems, TLAPS

USE RedisAssumption
USE DEF LedgerConstants

\* What StockLedgerProofs says of a ledger holds of the row.
RowFacts == INSTANCE StockLedgerProofs WITH
  free <- stock + away, hold <- [c \in Claims |-> HoldOf(c)]

(* One more claim adds its amount to the units.                               *)
LEMMA UnitsAdded ==
  ASSUME NEW S \in SUBSET Claims, NEW c \in Claims \ S
  PROVE  /\ Cardinality(Units(S)) \in Nat
         /\ Cardinality(Units(S \union {c})) = Cardinality(Units(S)) + Amount[c]
<1>1. RowFacts!LedgerConstants
  BY LedgerAssumption DEF RowFacts!LedgerConstants, RowFacts!IsFiniteSet, IsFiniteSet
<1>2. /\ RowFacts!IsFiniteSet(RowFacts!Units(S))
      /\ RowFacts!Cardinality(RowFacts!Units(S \union {c}))
           = RowFacts!Cardinality(RowFacts!Units(S)) + Amount[c]
  BY <1>1, RowFacts!UnitsAdd
<1>3. \A T : Cardinality(Units(T)) = RowFacts!Cardinality(RowFacts!Units(T))
  BY DEF Units, RowFacts!Units, RowFacts!Cardinality, Cardinality
<1>4. IsFiniteSet(Units(S))
  BY <1>2 DEF RowFacts!IsFiniteSet, IsFiniteSet, RowFacts!Units, Units
<1> QED BY <1>2, <1>3, <1>4, FS_CardinalityType

(* There are finitely many units.                                             *)
LEMMA UnitsNat == ASSUME NEW S \in SUBSET Claims PROVE Cardinality(Units(S)) \in Nat
<1>1. IsFiniteSet(1..MaxAmount)
  BY LedgerAssumption, FS_Interval
<1>2. IsFiniteSet(Claims \X (1..MaxAmount))
  BY <1>1, LedgerAssumption, FS_Product
<1> QED BY <1>2, FS_Subset, FS_CardinalityType DEF Units

(* The units of the calls between the counter and the row, and of the releases *)
(* between the counter and the row.                                            *)
Counted == Cardinality(Units(CountedOnly))
Owed    == Cardinality(Units(RowOwed))

(* A set of claims loses exactly the units of the claim it loses.              *)
LEMMA UnitsMove ==
  ASSUME NEW S \in SUBSET Claims, NEW c \in Claims
  PROVE  /\ Cardinality(Units(S)) \in Nat
         /\ c \in S => Cardinality(Units(S)) = Cardinality(Units(S \ {c})) + Amount[c]
         /\ c \notin S => Cardinality(Units(S \union {c})) = Cardinality(Units(S)) + Amount[c]
<1>1. Cardinality(Units(S)) \in Nat
  BY UnitsNat
<1>2. c \notin S => Cardinality(Units(S \union {c})) = Cardinality(Units(S)) + Amount[c]
  BY UnitsAdded
<1>3. CASE c \in S
  <2>1. Cardinality(Units((S \ {c}) \union {c})) = Cardinality(Units(S \ {c})) + Amount[c]
    BY UnitsAdded
  <2>2. (S \ {c}) \union {c} = S
    BY <1>3
  <2> QED BY <1>1, <1>2, <2>1, <2>2
<1> QED BY <1>1, <1>2, <1>3

(* How a call that goes from one place to another moves its units.            *)
LEMMA StepMoves ==
  ASSUME RedisTypeOK, NEW c \in Claims, NEW to \in Steps, step' = [step EXCEPT ![c] = to]
  PROVE  /\ Counted \in Nat /\ Owed \in Nat /\ Counted' \in Nat /\ Owed' \in Nat
         /\ step[c] \in { "counted", "compensating" } =>
              Counted' = IF to \in { "counted", "compensating" } THEN Counted ELSE Counted - Amount[c]
         /\ step[c] \notin { "counted", "compensating" } =>
              Counted' = IF to \in { "counted", "compensating" } THEN Counted + Amount[c] ELSE Counted
         /\ step[c] = "row_owed" => Owed' = IF to = "row_owed" THEN Owed ELSE Owed - Amount[c]
         /\ step[c] # "row_owed" => Owed' = IF to = "row_owed" THEN Owed + Amount[c] ELSE Owed
<1>1. Amount[c] \in Nat
  BY LedgerAssumption
<1>2. /\ CountedOnly \in SUBSET Claims /\ RowOwed \in SUBSET Claims
      /\ CountedOnly' \in SUBSET Claims /\ RowOwed' \in SUBSET Claims
  BY DEF CountedOnly, RowOwed
<1>3. /\ c \in CountedOnly <=> step[c] \in { "counted", "compensating" }
      /\ CountedOnly' = IF to \in { "counted", "compensating" }
                        THEN CountedOnly \union {c} ELSE CountedOnly \ {c}
      /\ c \in RowOwed <=> step[c] = "row_owed"
      /\ RowOwed' = IF to = "row_owed" THEN RowOwed \union {c} ELSE RowOwed \ {c}
  BY DEF CountedOnly, RowOwed, RedisTypeOK
<1>p. /\ Counted' = Cardinality(Units(CountedOnly'))
      /\ Owed' = Cardinality(Units(RowOwed'))
  BY DEF Counted, Owed, Units
<1>4. /\ Counted \in Nat /\ Counted' \in Nat /\ Owed \in Nat /\ Owed' \in Nat
  BY <1>2, <1>p, UnitsMove DEF Counted, Owed
<1>5. ASSUME step[c] \in { "counted", "compensating" }
      PROVE  Counted' = IF to \in { "counted", "compensating" } THEN Counted ELSE Counted - Amount[c]
  <2>1. CASE to \in { "counted", "compensating" }
    <3>1. CountedOnly' = CountedOnly
      BY <1>3, <1>5, <2>1
    <3> QED BY <1>p, <3>1, <2>1 DEF Counted
  <2>2. CASE to \notin { "counted", "compensating" }
    <3>1. CountedOnly' = CountedOnly \ {c} /\ c \in CountedOnly
      BY <1>3, <1>5, <2>2
    <3>2. Counted = Counted' + Amount[c]
      BY <1>2, <3>1, <1>p, UnitsMove DEF Counted
    <3> QED BY <1>1, <1>4, <2>2, <3>2
  <2> QED BY <2>1, <2>2
<1>6. ASSUME step[c] \notin { "counted", "compensating" }
      PROVE  Counted' = IF to \in { "counted", "compensating" } THEN Counted + Amount[c] ELSE Counted
  <2>1. CASE to \in { "counted", "compensating" }
    <3>1. CountedOnly' = CountedOnly \union {c} /\ c \notin CountedOnly
      BY <1>3, <1>6, <2>1
    <3> QED BY <1>2, <2>1, <3>1, <1>p, UnitsMove DEF Counted
  <2>2. CASE to \notin { "counted", "compensating" }
    <3>1. CountedOnly' = CountedOnly
      BY <1>3, <1>6, <2>2
    <3> QED BY <1>p, <3>1, <2>2 DEF Counted
  <2> QED BY <2>1, <2>2
<1>7. step[c] = "row_owed" => Owed' = IF to = "row_owed" THEN Owed ELSE Owed - Amount[c]
  <2> SUFFICES ASSUME step[c] = "row_owed" PROVE Owed' = IF to = "row_owed" THEN Owed ELSE Owed - Amount[c]
    OBVIOUS
  <2>1. CASE to = "row_owed"
    <3>1. RowOwed' = RowOwed
      BY <1>3, <2>1
    <3> QED BY <1>p, <3>1, <2>1 DEF Owed
  <2>2. CASE to # "row_owed"
    <3>1. RowOwed' = RowOwed \ {c} /\ c \in RowOwed
      BY <1>3, <2>2
    <3>2. Owed = Owed' + Amount[c]
      BY <1>2, <3>1, <1>p, UnitsMove DEF Owed
    <3> QED BY <1>1, <1>4, <2>2, <3>2
  <2> QED BY <2>1, <2>2
<1>8. step[c] # "row_owed" => Owed' = IF to = "row_owed" THEN Owed + Amount[c] ELSE Owed
  <2> SUFFICES ASSUME step[c] # "row_owed" PROVE Owed' = IF to = "row_owed" THEN Owed + Amount[c] ELSE Owed
    OBVIOUS
  <2>1. CASE to = "row_owed"
    <3>1. RowOwed' = RowOwed \union {c} /\ c \notin RowOwed
      BY <1>3, <2>1
    <3> QED BY <1>2, <2>1, <3>1, <1>p, UnitsMove DEF Owed
  <2>2. CASE to # "row_owed"
    <3>1. RowOwed' = RowOwed
      BY <1>3, <2>2
    <3> QED BY <1>p, <3>1, <2>2 DEF Owed
  <2> QED BY <2>1, <2>2
<1> QED BY <1>4, <1>5, <1>6, <1>7, <1>8

(* The initial state satisfies the inductive invariant. *)
LEMMA InitRedis == RedisInit => RedisInv
<1> SUFFICES ASSUME RedisInit PROVE RedisInv
  OBVIOUS
<1>1. RedisTypeOK
  BY LedgerAssumption DEF RedisInit, RedisTypeOK, Steps, Kinds
<1>2. counter = Missing /\ failures = {} /\ \A c \in Claims : step[c] = "idle"
  BY DEF RedisInit
<1> QED BY <1>1, <1>2 DEF RedisInv, FirstLoad, UnsureIsUnknown, InStep, OnlyLower

(* A failure is of one of the kinds, and there are never too many.            *)
LEMMA FailureType ==
  ASSUME RedisTypeOK, NoFailure \/ \E kind \in Kinds : Fails(kind)
  PROVE  failures' \in SUBSET Kinds /\ faults' \in 0..MaxFaults
<1>1. CASE NoFailure
  BY <1>1 DEF NoFailure, RedisTypeOK
<1>2. ASSUME NEW kind \in Kinds, Fails(kind)
      PROVE  failures' \in SUBSET Kinds /\ faults' \in 0..MaxFaults
  <2>1. failures' \in SUBSET Kinds
    BY <1>2, Zenon DEF Fails, RedisTypeOK
  <2>2. faults' \in 0..MaxFaults
    BY <1>2 DEF Fails, RedisTypeOK
  <2> QED BY <2>1, <2>2
<1> QED BY <1>1, <1>2

(* What the other writers do: units go out of the row or come back to it, and *)
(* no call and no counter hears of it.                                        *)
LEMMA OthersMove ==
  ASSUME RedisTypeOK, OthersWrite
  PROVE  /\ stock' \in Nat /\ away' \in Nat
         /\ \E n \in Int : stock' = stock - n /\ away' = away + n
         /\ stock' + away' = stock + away
         /\ UNCHANGED << counter, step, seen, asOf, told >>
         /\ onSale' \in BOOLEAN
         /\ NoFailure \/ Fails("edited")
<1> DEFINE Moves ==
      /\ stock' \in Nat /\ away' \in Nat
      /\ \E n \in Int : stock' = stock - n /\ away' = away + n
      /\ stock' + away' = stock + away
<1> USE DEF RedisTypeOK, MoveOut
<1>1. CASE SetActive
  <2>1. stock' = stock - 0 /\ away' = away + 0
    BY <1>1 DEF SetActive, moved
  <2>2. Moves
    BY <2>1
  <2> QED BY <1>1, <2>2 DEF SetActive, moved
<1>2. ASSUME NEW n \in 1..Total, Publish(n) \/ SettleEnded(n)
      PROVE  Moves /\ UNCHANGED << counter, step, seen, asOf, told, onSale >> /\ NoFailure
  <2>1. n \in Nat
    BY LedgerAssumption
  <2>2. CASE Publish(n)
    <3>1. Moves
      BY <2>1, <2>2 DEF Publish
    <3> QED BY <2>2, <3>1 DEF Publish
  <2>3. CASE SettleEnded(n)
    <3>1. stock' = stock - (-n) /\ away' = away + (-n) /\ -n \in Int /\ away >= n
      BY <2>1, <2>3 DEF SettleEnded
    <3>2. Moves
      BY <2>1, <3>1
    <3> QED BY <2>3, <3>2 DEF SettleEnded
  <2> QED BY <1>2, <2>2, <2>3
<1>3. ASSUME NEW n \in 0..Total, SetStock(n)
      PROVE  Moves /\ UNCHANGED << counter, step, seen, asOf, told, onSale >> /\ Fails("edited")
  <2>1. n \in Nat
    BY LedgerAssumption
  <2>2. stock' = stock - (stock - n) /\ away' = away + (stock - n) /\ n <= stock + away
    BY <1>3 DEF SetStock
  <2>3. Moves
    BY <2>1, <2>2
  <2> QED BY <1>3, <2>3 DEF SetStock
<1> QED BY <1>1, <1>2, <1>3 DEF OthersWrite

(* Every step keeps every variable in its type.                               *)
LEMMA RedisTypeStep == RedisTypeOK /\ [RedisNext]_redisVars => RedisTypeOK'
<1> SUFFICES ASSUME RedisTypeOK, [RedisNext]_redisVars PROVE RedisTypeOK'
  OBVIOUS
<1> DEFINE Rest ==
      /\ stock' \in Nat
      /\ onSale' \in BOOLEAN
      /\ counter' \in Nat \union {Missing}
      /\ step' \in [Claims -> Steps]
      /\ seen' \in [Claims -> Nat]
      /\ away' \in Nat
      /\ asOf' \in [Claims -> Nat]
      /\ told' \in Nat
<1> DEFINE Faulty == NoFailure \/ \E kind \in Kinds : Fails(kind)
<1>a. \A c \in Claims : Amount[c] \in Nat
  BY LedgerAssumption
<1>b. \A c \in Claims, to \in Steps : step' = [step EXCEPT ![c] = to] => step' \in [Claims -> Steps]
  BY DEF RedisTypeOK
<1>f. \A c \in Claims : Forget(c) => seen' \in [Claims -> Nat] /\ asOf' \in [Claims -> Nat]
  BY DEF Forget, RedisTypeOK
<1>s. { "idle", "missing", "loading", "loaded", "counted", "compensating", "unsure",
        "holding", "returning", "row_owed", "sold", "lost", "ended" } = Steps
  BY DEF Steps
<1>k. { "threw", "increment", "died", "died_owing", "commit_unknown", "lost_key", "edited" } = Kinds
  BY DEF Kinds
<1>1. ASSUME NEW c \in Claims, RunScript(c) PROVE Rest /\ NoFailure
  <2>1. \A from, to \in Steps : ScriptMisses(c, from, to) => Rest /\ NoFailure
    BY <1>b DEF ScriptMisses, Goto, moved, RedisTypeOK
  <2>2. \A from \in Steps : ScriptRefuses(c, from) => Rest /\ NoFailure
    BY <1>b, <1>s DEF ScriptRefuses, Goto, moved, RedisTypeOK
  <2>3. \A from \in Steps : ScriptTakes(c, from) => Rest /\ NoFailure
    BY <1>a, <1>b, <1>s DEF ScriptTakes, Goto, moved, RedisTypeOK
  <2> QED BY <1>1, <2>1, <2>2, <2>3, <1>s DEF RunScript
<1>2. ASSUME NEW c \in Claims, ReadRow(c) PROVE Rest /\ NoFailure
  BY <1>2, <1>b, <1>s DEF ReadRow, Goto, RedisTypeOK
<1>3. ASSUME NEW c \in Claims, Load(c) PROVE Rest /\ NoFailure
  BY <1>3, <1>b, <1>f, <1>s DEF Load, Goto, RedisTypeOK
<1>4. ASSUME NEW c \in Claims, NEW to \in Steps, RowTakes(c, to) PROVE Rest
  BY <1>4, <1>a, <1>b DEF RowTakes, Goto, moved, RedisTypeOK
<1>5. ASSUME NEW c \in Claims, RowRefuses(c) PROVE Rest /\ NoFailure
  BY <1>5, <1>b, <1>s DEF RowRefuses, Goto, moved, RedisTypeOK
<1>6. ASSUME NEW c \in Claims, RowThrows(c) PROVE Rest /\ Faulty
  <2>1. CASE RowTakes(c, "unsure") /\ Fails("commit_unknown")
    BY <2>1, <1>4, <1>k, <1>s
  <2>2. CASE /\ Goto(c, "counted", "compensating") /\ Fails("threw")
             /\ UNCHANGED << stock, onSale, counter, seen, moved >>
    BY <2>2, <1>b, <1>k, <1>s DEF Goto, moved, RedisTypeOK
  <2> QED BY <1>6, <2>1, <2>2 DEF RowThrows
<1>g. ASSUME NEW c \in Claims, GiveCounter(c)
      PROVE  counter' \in Nat \union {Missing} /\ Faulty
  <2>1. counter' \in Nat \union {Missing}
    BY <1>g, <1>a DEF GiveCounter, RedisTypeOK
  <2> QED BY <1>g, <2>1, <1>k DEF GiveCounter
<1>7. ASSUME NEW c \in Claims, Compensate(c) \/ ReleaseCounter(c) PROVE Rest /\ Faulty
  BY <1>7, <1>b, <1>s, <1>g DEF Compensate, ReleaseCounter, Goto, moved, RedisTypeOK
<1>8. ASSUME NEW c \in Claims, Sell(c) \/ BeginRelease(c) \/ ReleaseRow(c) PROVE Rest /\ NoFailure
  BY <1>8, <1>a, <1>b, <1>s DEF Sell, BeginRelease, ReleaseRow, Goto, moved, RedisTypeOK
<1>9. ASSUME NEW c \in Claims, Dies(c) PROVE Rest /\ Faulty
  BY <1>9, <1>b, <1>f, <1>s, <1>k DEF Dies, RedisTypeOK
<1>10. ASSUME LoseKey PROVE Rest /\ Faulty
  BY <1>10, <1>k DEF LoseKey, RedisTypeOK
<1>11. ASSUME OthersWrite PROVE Rest /\ Faulty
  <2>1. Rest
    BY <1>11, OthersMove DEF RedisTypeOK
  <2>2. Faulty
    BY <1>11, <1>k, OthersMove
  <2> QED BY <2>1, <2>2
<1>12. ASSUME UNCHANGED redisVars PROVE Rest /\ NoFailure
  BY <1>12 DEF redisVars, moved, RedisTypeOK, NoFailure
<1>13. Rest /\ Faulty
  <2> HIDE DEF Rest
  <2>1. ASSUME NEW c \in Claims, ReserveUnits(c) PROVE Rest /\ Faulty
    BY <2>1, <1>1, <1>2, <1>3, <1>4, <1>5, <1>6, <1>7, <1>s DEF ReserveUnits
  <2>2. ASSUME NEW c \in Claims, ReleaseUnits(c) \/ Sell(c) \/ Dies(c) PROVE Rest /\ Faulty
    BY <2>2, <1>7, <1>8, <1>9 DEF ReleaseUnits
  <2>3. CASE LoseKey \/ OthersWrite \/ UNCHANGED redisVars
    BY <2>3, <1>10, <1>11, <1>12
  <2> QED BY <2>1, <2>2, <2>3 DEF RedisNext
<1> QED BY <1>13, FailureType DEF RedisTypeOK

(* A call that goes from one place to another is all that the ledger can see. *)
LEMMA HoldMoves ==
  ASSUME RedisTypeOK, NEW c \in Claims, NEW to \in Steps, step' = [step EXCEPT ![c] = to]
  PROVE  /\ step'[c] = to
         /\ \A d \in Claims \ {c} : HoldOf(d)' = HoldOf(d)
<1>1. /\ step'[c] = to
      /\ \A d \in Claims \ {c} : step'[d] = step[d]
  BY DEF RedisTypeOK
<1> QED BY <1>1 DEF HoldOf, Holding

(* The four ways in which a step may look to the ledger: units taken,         *)
LEMMA RowTake ==
  ASSUME NEW c \in Claims, HoldOf(c) = "none", HoldOf(c)' = "held",
         \A d \in Claims \ {c} : HoldOf(d)' = HoldOf(d),
         stock + away >= Amount[c], stock' + away' = (stock + away) - Amount[c]
  PROVE  Row!LedgerNext
BY DEF Row!LedgerNext, Row!Take

(* given back,                                                                *)
LEMMA RowGiveBack ==
  ASSUME NEW c \in Claims, HoldOf(c) = "held", HoldOf(c)' = "none",
         \A d \in Claims \ {c} : HoldOf(d)' = HoldOf(d),
         stock' + away' = (stock + away) + Amount[c]
  PROVE  Row!LedgerNext
BY DEF Row!LedgerNext, Row!GiveBack

(* sold or lost,                                                              *)
LEMMA RowSettle ==
  ASSUME NEW c \in Claims, HoldOf(c) = "held", HoldOf(c)' \in { "sold", "lost" },
         \A d \in Claims \ {c} : HoldOf(d)' = HoldOf(d),
         stock' + away' = stock + away
  PROVE  Row!LedgerNext
BY DEF Row!LedgerNext, Row!Settle

(* or nothing.                                                                *)
LEMMA RowStutter ==
  ASSUME \A d \in Claims : HoldOf(d)' = HoldOf(d), stock' + away' = stock + away
  PROVE  UNCHANGED Row!ledgerVars
BY DEF Row!ledgerVars

(* A call that goes on with the row untouched and its hold the same.          *)
LEMMA RowSame ==
  ASSUME RedisTypeOK, NEW c \in Claims, NEW to \in Steps, step' = [step EXCEPT ![c] = to],
         HoldOf(c)' = HoldOf(c), stock' + away' = stock + away
  PROVE  UNCHANGED Row!ledgerVars
<1>1. \A d \in Claims : HoldOf(d)' = HoldOf(d)
  BY HoldMoves
<1> QED BY <1>1, RowStutter

(* What happens to the row is a step of the ledger, whatever happens to the    *)
(* counter and whoever else writes the row.                                    *)
LEMMA RowStep == RedisTypeOK /\ [RedisNext]_redisVars => [Row!LedgerNext]_(Row!ledgerVars)
<1> SUFFICES ASSUME RedisTypeOK, [RedisNext]_redisVars
             PROVE  Row!LedgerNext \/ UNCHANGED Row!ledgerVars
  OBVIOUS
<1> DEFINE Goal == Row!LedgerNext \/ UNCHANGED Row!ledgerVars
<1>n. stock \in Nat /\ away \in Nat /\ \A c \in Claims : Amount[c] \in Nat /\ step[c] \in Steps
  BY LedgerAssumption DEF RedisTypeOK
<1>s. Steps = { "idle", "missing", "loading", "loaded", "counted", "compensating", "unsure",
                "holding", "returning", "row_owed", "sold", "lost", "ended" }
  BY DEF Steps
<1>c. ASSUME NEW c \in Claims, NEW from \in Steps, NEW to \in Steps, Goto(c, from, to)
      PROVE  step[c] = from /\ step' = [step EXCEPT ![c] = to] /\ step'[c] = to
  BY <1>c DEF Goto, RedisTypeOK
<1>u. ASSUME NEW c \in Claims, NEW from \in Steps, NEW to \in Steps, Goto(c, from, to),
             stock' + away' = stock + away,
             \/ /\ from \in { "idle", "missing", "loading", "loaded", "counted", "compensating" }
                /\ to \in { "missing", "loading", "loaded", "counted", "compensating", "ended" }
             \/ /\ from \in { "unsure", "holding", "returning", "row_owed" }
                /\ to \in { "unsure", "holding", "returning", "row_owed" }
      PROVE  Goal
  <2>1. HoldOf(c)' = HoldOf(c)
    BY <1>u, <1>c DEF HoldOf, Holding
  <2> QED BY <2>1, <1>u, <1>c, RowSame
<1>e. ASSUME NEW c \in Claims, NEW from \in { "unsure", "holding", "returning", "row_owed" },
             NEW end \in { "sold", "lost" },
             step[c] = from, step' = [step EXCEPT ![c] = end], stock' + away' = stock + away
      PROVE  Goal
  <2>1. end \in Steps
    BY <1>s
  <2>2. HoldOf(c) = "held" /\ HoldOf(c)' = end
    BY <1>e, <2>1, HoldMoves DEF HoldOf, Holding
  <2>3. \A d \in Claims \ {c} : HoldOf(d)' = HoldOf(d)
    BY <2>1, <1>e, HoldMoves
  <2> QED BY <2>2, <2>3, <1>e, RowSettle
<1>1. ASSUME NEW c \in Claims, RunScript(c) PROVE Goal
  <2>1. /\ stock' + away' = stock + away
        /\ \E from \in { "idle", "loaded" }, to \in { "missing", "counted", "ended" } : Goto(c, from, to)
    BY <1>1 DEF RunScript, ScriptMisses, ScriptRefuses, ScriptTakes, moved
  <2> QED BY <2>1, <1>s, <1>u
<1>2. ASSUME NEW c \in Claims, ReadRow(c) PROVE Goal
  <2>1. /\ stock' + away' = stock + away
        /\ \E to \in { "loading", "ended" } : Goto(c, "missing", to)
    BY <1>2 DEF ReadRow
  <2> QED BY <2>1, <1>s, <1>u
<1>3. ASSUME NEW c \in Claims, Load(c) PROVE Goal
  <2>1. stock' + away' = stock + away /\ Goto(c, "loading", "loaded")
    BY <1>3 DEF Load
  <2> QED BY <2>1, <1>s, <1>u
<1>4. ASSUME NEW c \in Claims, NEW to \in { "holding", "unsure" }, RowTakes(c, to) PROVE Goal
  <2>1. /\ Goto(c, "counted", to) /\ stock >= Amount[c]
        /\ stock' = stock - Amount[c] /\ away' = away
    BY <1>4 DEF RowTakes, moved
  <2>2. step[c] = "counted" /\ step' = [step EXCEPT ![c] = to] /\ step'[c] = to
    BY <2>1, <1>c, <1>s
  <2>3. HoldOf(c) = "none" /\ HoldOf(c)' = "held"
    BY <2>2 DEF HoldOf, Holding
  <2>4. \A d \in Claims \ {c} : HoldOf(d)' = HoldOf(d)
    BY <2>2, <1>s, HoldMoves
  <2>5. stock + away >= Amount[c] /\ stock' + away' = (stock + away) - Amount[c]
    BY <2>1, <1>n
  <2> QED BY <2>3, <2>4, <2>5, RowTake
<1>5. ASSUME NEW c \in Claims, RowRefuses(c) \/ RowThrows(c) PROVE Goal
  <2>1. CASE RowTakes(c, "unsure")
    BY <2>1, <1>4
  <2>2. CASE ~RowTakes(c, "unsure")
    <3>1. stock' + away' = stock + away /\ Goto(c, "counted", "compensating")
      BY <1>5, <2>2 DEF RowRefuses, RowThrows, moved
    <3> QED BY <3>1, <1>s, <1>u
  <2> QED BY <2>1, <2>2
<1>6. ASSUME NEW c \in Claims, Compensate(c) PROVE Goal
  <2>1. stock' + away' = stock + away
    BY <1>6 DEF Compensate, moved
  <2>2. CASE Goto(c, "compensating", "ended")
    BY <2>1, <2>2, <1>s, <1>u
  <2>3. CASE Goto(c, "unsure", "lost")
    BY <2>1, <2>3, <1>e DEF Goto
  <2> QED BY <1>6, <2>2, <2>3 DEF Compensate
<1>7. ASSUME NEW c \in Claims, Sell(c) PROVE Goal
  <2>1. stock' + away' = stock + away /\ step[c] = "holding" /\ step' = [step EXCEPT ![c] = "sold"]
    BY <1>7 DEF Sell, moved, Goto
  <2> QED BY <2>1, <1>e
<1>8. ASSUME NEW c \in Claims, BeginRelease(c) \/ ReleaseCounter(c) PROVE Goal
  <2>1. /\ stock' + away' = stock + away
        /\ Goto(c, "holding", "returning") \/ Goto(c, "returning", "row_owed")
    BY <1>8 DEF BeginRelease, ReleaseCounter, moved
  <2> QED BY <2>1, <1>s, <1>u
<1>9. ASSUME NEW c \in Claims, ReleaseRow(c) PROVE Goal
  <2>1. /\ Goto(c, "row_owed", "ended")
        /\ stock' = stock + Amount[c] /\ away' = away
    BY <1>9 DEF ReleaseRow, moved
  <2>2. step[c] = "row_owed" /\ step' = [step EXCEPT ![c] = "ended"] /\ step'[c] = "ended"
    BY <2>1, <1>c, <1>s
  <2>3. HoldOf(c) = "held" /\ HoldOf(c)' = "none"
    BY <2>2 DEF HoldOf, Holding
  <2>4. \A d \in Claims \ {c} : HoldOf(d)' = HoldOf(d)
    BY <2>2, <1>s, HoldMoves
  <2>5. stock' + away' = (stock + away) + Amount[c]
    BY <2>1, <1>n
  <2> QED BY <2>3, <2>4, <2>5, RowGiveBack
<1>10. ASSUME NEW c \in Claims, Dies(c) PROVE Goal
  <2>1. stock' + away' = stock + away /\ step[c] \notin { "idle", "sold", "lost", "ended" }
    BY <1>10 DEF Dies
  <2>2. CASE Holding(c)
    <3>1. step' = [step EXCEPT ![c] = "lost"]
      BY <1>10, <2>2 DEF Dies
    <3> QED BY <2>1, <2>2, <3>1, <1>e DEF Holding
  <2>3. CASE ~Holding(c)
    <3>1. Goto(c, step[c], "ended")
      BY <1>10, <2>3 DEF Dies, Goto
    <3>2. step[c] \in { "missing", "loading", "loaded", "counted", "compensating" }
      BY <2>1, <2>3, <1>n, <1>s DEF Holding
    <3> QED BY <2>1, <3>1, <3>2, <1>s, <1>u
  <2> QED BY <2>2, <2>3
<1>11. ASSUME OthersWrite \/ LoseKey \/ UNCHANGED redisVars PROVE Goal
  <2>1. stock' + away' = stock + away /\ step' = step
    BY <1>11, OthersMove DEF LoseKey, redisVars, moved
  <2>2. \A d \in Claims : HoldOf(d)' = HoldOf(d)
    BY <2>1 DEF HoldOf, Holding
  <2> QED BY <2>1, <2>2, RowStutter
<1> QED
  BY <1>1, <1>2, <1>3, <1>4, <1>5, <1>6, <1>7, <1>8, <1>9, <1>10, <1>11
  DEF RedisNext, ReserveUnits, ReleaseUnits

(* However far the counter drifts, whatever fails and whoever else writes the  *)
(* row: the row is a ledger.                                                   *)
THEOREM RedisKeepsLedger == RedisSpec => RowKeepsLedger
<1>1. RedisInit => Row!LedgerInit
  BY LedgerAssumption DEF RedisInit, Row!LedgerInit, HoldOf, Holding
<1>2. RedisInit => RedisTypeOK
  BY InitRedis DEF RedisInv
<1>3. RedisTypeOK /\ [RedisNext]_redisVars => RedisTypeOK'
  BY RedisTypeStep
<1> QED BY <1>1, <1>2, <1>3, RowStep, PTL DEF RedisSpec, RowKeepsLedger, Row!LedgerSpec

(* The orders that are made through the counter never sell more than there is. *)
THEOREM RedisNotOversold == RedisSpec => []Row!NotOversold
<1>1. RowFacts!LedgerConstants
  BY LedgerAssumption DEF RowFacts!LedgerConstants, RowFacts!IsFiniteSet, IsFiniteSet
<1>2. RowFacts!LedgerSpec => []RowFacts!NotOversold
  BY <1>1, RowFacts!LedgerNotOversold
<1>3. Row!LedgerInit <=> RowFacts!LedgerInit
  BY DEF Row!LedgerInit, RowFacts!LedgerInit
<1>4. [Row!LedgerNext]_(Row!ledgerVars) <=> [RowFacts!LedgerNext]_(RowFacts!ledgerVars)
  BY DEF Row!LedgerNext, Row!Take, Row!GiveBack, Row!Settle, Row!ledgerVars,
         RowFacts!LedgerNext, RowFacts!Take, RowFacts!GiveBack, RowFacts!Settle, RowFacts!ledgerVars
<1>5. RowFacts!NotOversold <=> Row!NotOversold
  BY DEF RowFacts!NotOversold, Row!NotOversold, Row!Units, RowFacts!Units,
         Row!Cardinality, RowFacts!Cardinality
<1> QED
  BY RedisKeepsLedger, <1>2, <1>3, <1>4, <1>5, PTL
  DEF RowKeepsLedger, Row!LedgerSpec, RowFacts!LedgerSpec

(* Failures are never forgotten.                                              *)
LEMMA FailuresGrow == RedisTypeOK /\ [RedisNext]_redisVars => failures \subseteq failures'
<1> SUFFICES ASSUME RedisTypeOK, [RedisNext]_redisVars PROVE failures \subseteq failures'
  OBVIOUS
<1> DEFINE Faulty == NoFailure \/ \E kind : Fails(kind)
<1>1. Faulty => failures \subseteq failures'
  BY Zenon DEF Fails, NoFailure
<1>2. ASSUME NEW c \in Claims, RunScript(c) \/ ReadRow(c) \/ Load(c) PROVE Faulty
  BY <1>2 DEF RunScript, ScriptMisses, ScriptRefuses, ScriptTakes, ReadRow, Load
<1>3. ASSUME NEW c \in Claims, RowRefuses(c) \/ RowThrows(c) PROVE Faulty
  BY <1>3, Zenon DEF RowRefuses, RowThrows
<1>4. ASSUME NEW c \in Claims, Compensate(c) \/ Dies(c) PROVE Faulty
  BY <1>4, Zenon DEF Compensate, GiveCounter, Dies
<1>5. ASSUME NEW c \in Claims, ReleaseUnits(c) \/ Sell(c) PROVE Faulty
  BY <1>5 DEF ReleaseUnits, BeginRelease, ReleaseCounter, GiveCounter, ReleaseRow, Sell
<1>6. CASE LoseKey \/ OthersWrite
  <2>1. LoseKey => Faulty
    BY Zenon DEF LoseKey
  <2>2. OthersWrite => Faulty
    BY OthersMove
  <2> QED BY <1>1, <1>6, <2>1, <2>2
<1>7. CASE UNCHANGED redisVars
  BY <1>7 DEF redisVars
<1> HIDE DEF Faulty
<1>8. NoFailure => Faulty
  BY DEF Faulty
<1> QED BY <1>1, <1>2, <1>3, <1>4, <1>5, <1>6, <1>7, <1>8 DEF RedisNext, ReserveUnits

(* The row as it would be if others had not moved units.                      *)
Kept == stock + (away - told)

(* The two promises in terms of the units on their way.                       *)
LEMMA Promises ==
  ASSUME RedisTypeOK, Owed \in Nat
  PROVE  /\ InStep <=> (failures \subseteq { "threw", "edited" } /\ counter # Missing =>
                          counter + Counted = Kept + Owed)
         /\ OnlyLower <=> (failures \subseteq { "threw", "edited", "increment", "died" } /\ counter # Missing =>
                             counter + Counted <= Kept + Owed)
<1>1. RowUnits = Kept + Owed
  BY DEF RedisTypeOK, RowUnits, Owed, Kept
<1> QED BY <1>1 DEF InStep, OnlyLower, CountedUnits, Counted

(* The sums after a step of one call.                                         *)
SumsKept  == (counter' + Counted') - (counter + Counted) = (Kept' + Owed') - (Kept + Owed)
SumsLower == (counter' + Counted') - (counter + Counted) <= (Kept' + Owed') - (Kept + Owed)

(* A step that moves both sums alike, one that lowers the counter after a      *)
(* failure, and one after a failure of which nothing is promised, keep the     *)
(* promises.                                                                   *)
LEMMA Drift ==
  ASSUME InStep, OnlyLower, RedisTypeOK, RedisTypeOK', failures \subseteq failures',
         Counted \in Nat, Owed \in Nat, Counted' \in Nat, Owed' \in Nat,
         \/ counter' = Missing
         \/ counter # Missing /\ SumsKept
         \/ counter # Missing /\ SumsLower /\ ~(failures' \subseteq { "threw", "edited" })
         \/ ~(failures' \subseteq { "threw", "edited", "increment", "died" })
  PROVE  InStep' /\ OnlyLower'
<1>r. RowUnits' = Kept' + Owed'
  BY DEF RedisTypeOK, RowUnits, Owed, Kept
<1>1. /\ (InStep)' <=> (failures' \subseteq { "threw", "edited" } /\ counter' # Missing =>
                          counter' + Counted' = Kept' + Owed')
      /\ (OnlyLower)' <=> (failures' \subseteq { "threw", "edited", "increment", "died" } /\ counter' # Missing =>
                             counter' + Counted' <= Kept' + Owed')
  BY <1>r DEF InStep, OnlyLower, CountedUnits, Counted
<1>2. counter # Missing => counter \in Nat
  BY DEF RedisTypeOK
<1>3. counter' # Missing => counter' \in Nat
  BY DEF RedisTypeOK
<1>4. Kept \in Int /\ Kept' \in Int
  BY DEF RedisTypeOK, Kept
<1>5. CASE counter' = Missing
  BY <1>1, <1>5
<1>6. CASE ~(failures' \subseteq { "threw", "edited", "increment", "died" })
  BY <1>1, <1>6
<1>7. CASE counter # Missing /\ counter' # Missing /\ SumsKept
  <2>1. /\ failures' \subseteq { "threw", "edited" } => counter + Counted = Kept + Owed
        /\ failures' \subseteq { "threw", "edited", "increment", "died" } => counter + Counted <= Kept + Owed
    BY <1>7, Promises
  <2>2. /\ counter + Counted = Kept + Owed => counter' + Counted' = Kept' + Owed'
        /\ counter + Counted <= Kept + Owed => counter' + Counted' <= Kept' + Owed'
    BY <1>2, <1>3, <1>4, <1>7 DEF SumsKept
  <2> QED BY <1>1, <2>1, <2>2
<1>8. CASE counter # Missing /\ counter' # Missing /\ SumsLower /\ ~(failures' \subseteq { "threw", "edited" })
  <2>1. \/ counter + Counted <= Kept + Owed
        \/ ~(failures' \subseteq { "threw", "edited", "increment", "died" })
    BY <1>8, Promises
  <2> QED BY <1>1, <1>2, <1>3, <1>4, <1>8, <2>1 DEF SumsLower
<1> QED BY <1>5, <1>6, <1>7, <1>8

(* What a call's step does to the units on their way.                         *)
LEMMA StepCall ==
  ASSUME RedisTypeOK, NEW c \in Claims, NEW from \in Steps, NEW to \in Steps, Goto(c, from, to)
  PROVE  /\ Counted \in Nat /\ Owed \in Nat /\ Counted' \in Nat /\ Owed' \in Nat
         /\ from \in { "counted", "compensating" } =>
              Counted' = IF to \in { "counted", "compensating" } THEN Counted ELSE Counted - Amount[c]
         /\ from \notin { "counted", "compensating" } =>
              Counted' = IF to \in { "counted", "compensating" } THEN Counted + Amount[c] ELSE Counted
         /\ from = "row_owed" => Owed' = IF to = "row_owed" THEN Owed ELSE Owed - Amount[c]
         /\ from # "row_owed" => Owed' = IF to = "row_owed" THEN Owed + Amount[c] ELSE Owed
<1>1. step[c] = from /\ step' = [step EXCEPT ![c] = to]
  BY DEF Goto
<1> QED BY <1>1, StepMoves, Zenon

(* While there is no counter, and none was lost, nothing is on its way.       *)
LEMMA NothingOnItsWay ==
  ASSUME FirstLoad, counter = Missing, "lost_key" \notin failures
  PROVE  Counted = 0 /\ Owed = 0
<1>1. CountedOnly = {} /\ RowOwed = {}
  BY DEF FirstLoad, CountedOnly, RowOwed
<1>2. Units(CountedOnly) = {} /\ Units(RowOwed) = {}
  BY <1>1 DEF Units
<1> QED BY <1>2, FS_EmptySet DEF Counted, Owed

(* No step breaks the promises between the counter and the row.               *)
LEMMA PromisesStep == RedisInv /\ [RedisNext]_redisVars => InStep' /\ OnlyLower'
<1> SUFFICES ASSUME RedisInv, [RedisNext]_redisVars PROVE InStep' /\ OnlyLower'
  OBVIOUS
<1>t. RedisTypeOK /\ RedisTypeOK' /\ failures \subseteq failures' /\ InStep /\ OnlyLower /\ FirstLoad
  BY RedisTypeStep, FailuresGrow DEF RedisInv
<1>n. /\ stock \in Nat /\ stock' \in Nat /\ away \in Nat /\ away' \in Nat /\ told \in Nat /\ told' \in Nat
      /\ counter # Missing => counter \in Nat
  BY <1>t DEF RedisTypeOK
<1>i. Kept \in Int /\ Kept' \in Int
  BY <1>n DEF Kept
<1>a. \A c \in Claims : Amount[c] \in Nat
  BY LedgerAssumption
<1>s. Steps = { "idle", "missing", "loading", "loaded", "counted", "compensating", "unsure",
                "holding", "returning", "row_owed", "sold", "lost", "ended" }
  BY DEF Steps
<1>l. ASSUME NEW c \in Claims, counter = Missing,
             step[c] \notin { "idle", "missing", "loading", "ended" }
      PROVE  ~(failures' \subseteq { "threw", "edited", "increment", "died" })
  BY <1>l, <1>t DEF FirstLoad
<1>u. ASSUME "commit_unknown" \in failures \/ Fails("commit_unknown")
      PROVE  ~(failures' \subseteq { "threw", "edited", "increment", "died" })
  <2>1. "commit_unknown" \in failures'
    BY <1>u, <1>t, Zenon DEF Fails
  <2> QED BY <2>1
<1>1. ASSUME NEW c \in Claims, RunScript(c) PROVE InStep' /\ OnlyLower'
  <2>1. ASSUME NEW from \in { "idle", "loaded" }, NEW to \in { "missing", "ended" }, ScriptMisses(c, from, to)
        PROVE  InStep' /\ OnlyLower'
    <3>1. Goto(c, from, to) /\ counter' = Missing
      BY <2>1 DEF ScriptMisses
    <3> QED BY <3>1, <1>s, <1>t, StepCall, Drift
  <2>2. ASSUME NEW from \in { "idle", "loaded" }, ScriptRefuses(c, from) PROVE InStep' /\ OnlyLower'
    <3>1. Goto(c, from, "ended") /\ counter # Missing /\ counter' = counter /\ Kept' = Kept
      BY <2>2 DEF ScriptRefuses, Kept, moved
    <3>2. SumsKept /\ Counted \in Nat /\ Owed \in Nat /\ Counted' \in Nat /\ Owed' \in Nat
      BY <3>1, <1>i, <1>n, <1>s, <1>t, StepCall DEF SumsKept
    <3> QED BY <3>1, <3>2, <1>t, Drift
  <2>3. ASSUME NEW from \in { "idle", "loaded" }, ScriptTakes(c, from) PROVE InStep' /\ OnlyLower'
    <3>1. Goto(c, from, "counted") /\ counter # Missing /\ counter' = counter - Amount[c] /\ Kept' = Kept
      BY <2>3 DEF ScriptTakes, Kept, moved
    <3>2. SumsKept /\ Counted \in Nat /\ Owed \in Nat /\ Counted' \in Nat /\ Owed' \in Nat
      BY <3>1, <1>a, <1>i, <1>n, <1>s, <1>t, StepCall DEF SumsKept
    <3> QED BY <3>1, <3>2, <1>t, Drift
  <2> QED BY <1>1, <2>1, <2>2, <2>3 DEF RunScript
<1>q. ASSUME NEW c \in Claims, NEW from \in Steps \ { "counted", "compensating", "row_owed" },
             NEW to \in Steps \ { "counted", "compensating", "row_owed" },
             Goto(c, from, to), counter' = counter, Kept' = Kept
      PROVE  InStep' /\ OnlyLower'
  <2>1. SumsKept \/ counter' = Missing
    BY <1>q, <1>i, <1>n, <1>t, StepCall DEF SumsKept
  <2>2. Counted \in Nat /\ Owed \in Nat /\ Counted' \in Nat /\ Owed' \in Nat
    BY <1>q, <1>t, StepCall
  <2> QED BY <2>1, <2>2, <1>q, <1>t, Drift
<1>2. ASSUME NEW c \in Claims, ReadRow(c) PROVE InStep' /\ OnlyLower'
  <2>1. \E to \in { "loading", "ended" } : Goto(c, "missing", to)
    BY <1>2 DEF ReadRow
  <2>2. counter' = counter /\ Kept' = Kept
    BY <1>2 DEF ReadRow, Kept
  <2> QED BY <2>1, <2>2, <1>q, <1>s
<1>3. ASSUME NEW c \in Claims, Load(c) PROVE InStep' /\ OnlyLower'
  <2>1. Goto(c, "loading", "loaded") /\ stock' = stock /\ away' = away /\ failures' = failures
    BY <1>3 DEF Load, NoFailure
  <2>2. CASE counter # Missing
    <3>1. counter' = counter /\ Kept' = Kept
      BY <1>3, <2>1, <2>2 DEF Load, Kept
    <3> QED BY <2>1, <3>1, <1>q, <1>s
  <2>3. CASE counter = Missing /\ "lost_key" \in failures
    <3>1. ~(failures' \subseteq { "threw", "edited", "increment", "died" })
      BY <2>1, <2>3
    <3>2. Counted \in Nat /\ Owed \in Nat /\ Counted' \in Nat /\ Owed' \in Nat
      BY <2>1, <1>s, <1>t, StepCall
    <3> QED BY <3>1, <3>2, <1>t, Drift
  <2>4. CASE counter = Missing /\ "lost_key" \notin failures
    <3>1. counter' = seen[c] /\ told' = asOf[c]
      BY <1>3, <2>4 DEF Load
    <3>2. seen[c] + asOf[c] = stock + away /\ seen[c] \in Nat /\ asOf[c] \in Nat
      BY <1>t, <2>1, <2>4 DEF FirstLoad, Goto, RedisTypeOK
    <3>3. counter' = Kept' /\ counter' \in Nat
      BY <3>1, <3>2, <2>1, <1>n DEF Kept
    <3>4. Counted' = 0 /\ Owed' = 0
      <4>1. Counted = 0 /\ Owed = 0
        BY <2>4, <1>t, NothingOnItsWay
      <4>2. Counted' = Counted /\ Owed' = Owed
        BY <2>1, <1>s, <1>t, StepCall
      <4> QED BY <4>1, <4>2
    <3>5. CountedUnits' = counter' /\ RowUnits' = Kept'
      BY <3>3, <3>4, <1>n DEF CountedUnits, RowUnits, Counted, Owed, Kept
    <3> QED BY <3>3, <3>5 DEF InStep, OnlyLower
  <2> QED BY <2>2, <2>3, <2>4
<1>4. ASSUME NEW c \in Claims, RowTakes(c, "holding") PROVE InStep' /\ OnlyLower'
  <2>1. Goto(c, "counted", "holding") /\ counter' = counter /\ Kept' = Kept - Amount[c]
    BY <1>4, <1>a, <1>n DEF RowTakes, Kept, moved
  <2>2. /\ Counted \in Nat /\ Owed \in Nat /\ Counted' \in Nat /\ Owed' \in Nat
        /\ Counted' = Counted - Amount[c] /\ Owed' = Owed
    BY <2>1, <1>s, <1>t, StepCall
  <2>3. counter' = Missing \/ (counter # Missing /\ SumsKept)
    BY <2>1, <2>2, <1>a, <1>i, <1>n DEF SumsKept
  <2> QED BY <2>2, <2>3, <1>t, Drift
<1>5. ASSUME NEW c \in Claims, RowRefuses(c) \/ RowThrows(c) PROVE InStep' /\ OnlyLower'
  <2>1. CASE RowTakes(c, "unsure") /\ Fails("commit_unknown")
    <3>1. Goto(c, "counted", "unsure")
      BY <2>1 DEF RowTakes
    <3>2. Counted \in Nat /\ Owed \in Nat /\ Counted' \in Nat /\ Owed' \in Nat
      BY <3>1, <1>s, <1>t, StepCall
    <3> QED BY <2>1, <3>2, <1>t, <1>u, Drift
  <2>2. CASE ~(RowTakes(c, "unsure") /\ Fails("commit_unknown"))
    <3>1. Goto(c, "counted", "compensating") /\ counter' = counter /\ Kept' = Kept
      BY <1>5, <2>2 DEF RowRefuses, RowThrows, Kept, moved
    <3>2. /\ Counted \in Nat /\ Owed \in Nat /\ Counted' \in Nat /\ Owed' \in Nat
          /\ Counted' = Counted /\ Owed' = Owed
      BY <3>1, <1>s, <1>t, StepCall
    <3>3. counter' = Missing \/ (counter # Missing /\ SumsKept)
      BY <3>1, <3>2, <1>i, <1>n DEF SumsKept
    <3> QED BY <3>2, <3>3, <1>t, Drift
  <2> QED BY <2>1, <2>2
<1>g. ASSUME NEW c \in Claims, NEW from \in { "compensating", "returning" }, NEW to \in { "ended", "row_owed" },
             from = "compensating" <=> to = "ended",
             Goto(c, from, to), GiveCounter(c), Kept' = Kept
      PROVE  InStep' /\ OnlyLower'
  <2>1. /\ Counted \in Nat /\ Owed \in Nat /\ Counted' \in Nat /\ Owed' \in Nat
        /\ from = "compensating" => Counted' = Counted - Amount[c] /\ Owed' = Owed
        /\ from = "returning" => Counted' = Counted /\ Owed' = Owed + Amount[c]
    BY <1>g, <1>s, <1>t, StepCall
  <2>2. CASE counter = Missing
    <3>1. ~(failures' \subseteq { "threw", "edited", "increment", "died" })
      BY <2>2, <1>g, <1>l DEF Goto
    <3> QED BY <2>1, <3>1, <1>t, Drift
  <2>3. CASE counter # Missing /\ counter' = counter + Amount[c]
    <3>1. SumsKept
      BY <2>1, <2>3, <1>a, <1>g, <1>i, <1>n DEF SumsKept
    <3> QED BY <2>1, <2>3, <3>1, <1>t, Drift
  <2>4. CASE counter # Missing /\ counter' = counter /\ Fails("increment")
    <3>1. SumsLower
      BY <2>1, <2>4, <1>a, <1>g, <1>i, <1>n DEF SumsLower
    <3>2. ~(failures' \subseteq { "threw", "edited" })
      BY <2>4 DEF Fails
    <3> QED BY <2>1, <2>4, <3>1, <3>2, <1>t, Drift
  <2>5. \/ counter = Missing
        \/ counter' = counter + Amount[c]
        \/ counter' = counter /\ Fails("increment")
    <3>1. CASE Fails("increment") /\ UNCHANGED counter
      BY <3>1
    <3>2. CASE counter' = Amount[c] + (IF counter = Missing THEN 0 ELSE counter)
      BY <3>2, <1>a, <1>n
    <3> QED BY <1>g, <3>1, <3>2 DEF GiveCounter
  <2> QED BY <2>2, <2>3, <2>4, <2>5
<1>6. ASSUME NEW c \in Claims, Compensate(c) PROVE InStep' /\ OnlyLower'
  <2>1. GiveCounter(c) /\ Kept' = Kept
    BY <1>6 DEF Compensate, Kept, moved
  <2>2. CASE Goto(c, "compensating", "ended")
    BY <2>1, <2>2, <1>g
  <2>3. CASE Goto(c, "unsure", "lost")
    <3>1. /\ Counted \in Nat /\ Owed \in Nat /\ Counted' \in Nat /\ Owed' \in Nat
          /\ Counted' = Counted /\ Owed' = Owed
      BY <2>3, <1>s, <1>t, StepCall
    <3>2. "commit_unknown" \in failures
      BY <2>3, <1>t DEF Goto, RedisInv, UnsureIsUnknown
    <3> QED BY <3>1, <3>2, <1>t, <1>u, Drift
  <2> QED BY <1>6, <2>2, <2>3 DEF Compensate
<1>7. ASSUME NEW c \in Claims, ReleaseCounter(c) PROVE InStep' /\ OnlyLower'
  <2>1. Goto(c, "returning", "row_owed") /\ GiveCounter(c) /\ Kept' = Kept
    BY <1>7 DEF ReleaseCounter, Kept, moved
  <2> QED BY <2>1, <1>g
<1>8. ASSUME NEW c \in Claims, ReleaseRow(c) PROVE InStep' /\ OnlyLower'
  <2>1. Goto(c, "row_owed", "ended") /\ counter' = counter /\ Kept' = Kept + Amount[c]
    BY <1>8, <1>a, <1>n DEF ReleaseRow, Kept, moved
  <2>2. /\ Counted \in Nat /\ Owed \in Nat /\ Counted' \in Nat /\ Owed' \in Nat
        /\ Counted' = Counted /\ Owed' = Owed - Amount[c]
    BY <2>1, <1>s, <1>t, StepCall
  <2>3. counter' = Missing \/ (counter # Missing /\ SumsKept)
    BY <2>1, <2>2, <1>a, <1>i, <1>n DEF SumsKept
  <2> QED BY <2>2, <2>3, <1>t, Drift
<1>9. ASSUME NEW c \in Claims, Sell(c) \/ BeginRelease(c) PROVE InStep' /\ OnlyLower'
  <2>1. \E to \in { "sold", "returning" } : Goto(c, "holding", to)
    BY <1>9 DEF Sell, BeginRelease
  <2>2. counter' = counter /\ Kept' = Kept
    BY <1>9 DEF Sell, BeginRelease, Kept, moved
  <2> QED BY <2>1, <2>2, <1>q, <1>s
<1>10. ASSUME NEW c \in Claims, Dies(c) PROVE InStep' /\ OnlyLower'
  <2>1. /\ step[c] \in Steps /\ counter' = counter /\ Kept' = Kept
        /\ \E to \in { "lost", "ended" } : Goto(c, step[c], to)
    BY <1>10, <1>t DEF Dies, Goto, Kept, RedisTypeOK
  <2>2. /\ Counted \in Nat /\ Owed \in Nat /\ Counted' \in Nat /\ Owed' \in Nat
        /\ step[c] # "row_owed" => (Counted' = Counted \/ Counted' = Counted - Amount[c]) /\ Owed' = Owed
    BY <2>1, <1>a, <1>s, <1>t, StepCall
  <2>3. CASE step[c] = "row_owed"
    <3>1. ~(failures' \subseteq { "threw", "edited", "increment", "died" })
      BY <1>10, <2>3 DEF Dies, Fails
    <3> QED BY <2>2, <3>1, <1>t, Drift
  <2>4. CASE step[c] # "row_owed"
    <3>1. ~(failures' \subseteq { "threw", "edited" })
      BY <1>10, <2>4 DEF Dies, Fails
    <3>2. counter' = Missing \/ (counter # Missing /\ SumsLower)
      BY <2>1, <2>2, <2>4, <1>a, <1>i, <1>n DEF SumsLower
    <3> QED BY <2>2, <3>1, <3>2, <1>t, Drift
  <2> QED BY <2>3, <2>4
<1>11. CASE LoseKey
  BY <1>11 DEF LoseKey, InStep, OnlyLower
<1>12. CASE OthersWrite \/ UNCHANGED redisVars
  <2>1. counter' = counter /\ step' = step /\ told' = told /\ stock' + away' = stock + away
    BY <1>12, <1>t, OthersMove DEF redisVars, moved
  <2>2. Kept' = Kept
    <3>1. \E n \in Int : stock' = stock - n /\ away' = away + n
      <4>1. CASE OthersWrite
        BY <4>1, <1>t, OthersMove
      <4>2. CASE UNCHANGED redisVars
        <5>1. stock' = stock - 0 /\ away' = away + 0
          BY <4>2, <1>n DEF redisVars, moved
        <5> QED BY <5>1
      <4> QED BY <1>12, <4>1, <4>2
    <3>2. stock' + (away' - told') = stock + (away - told)
      BY <2>1, <3>1, <1>n
    <3> QED BY <3>2 DEF Kept
  <2>3. UNCHANGED << CountedOnly, RowOwed >>
    BY <2>1 DEF CountedOnly, RowOwed
  <2>4. /\ Counted' = Counted /\ Owed' = Owed /\ Counted \in Nat /\ Owed \in Nat
    BY <2>3, UnitsNat DEF Counted, Owed, Units, CountedOnly, RowOwed
  <2>5. counter' = Missing \/ (counter # Missing /\ SumsKept)
    BY <2>1, <2>2, <2>4, <1>i, <1>n DEF SumsKept
  <2> QED BY <2>4, <2>5, <1>t, Drift
<1> QED
  BY <1>1, <1>2, <1>3, <1>4, <1>5, <1>6, <1>7, <1>8, <1>9, <1>10, <1>11, <1>12
  DEF RedisNext, ReserveUnits, ReleaseUnits

(* The row gave up units without telling only where an answer was lost.       *)
LEMMA UnsureStep == RedisInv /\ [RedisNext]_redisVars => UnsureIsUnknown'
<1> SUFFICES ASSUME RedisInv, [RedisNext]_redisVars, NEW d \in Claims, step'[d] = "unsure"
             PROVE  "commit_unknown" \in failures'
  BY DEF UnsureIsUnknown
<1>t. RedisTypeOK /\ UnsureIsUnknown /\ failures \subseteq failures'
  BY FailuresGrow DEF RedisInv
<1>1. CASE step[d] = "unsure"
  BY <1>1, <1>t DEF UnsureIsUnknown
<1>2. CASE step[d] # "unsure"
  <2>o. step \in [Claims -> Steps]
    BY <1>t DEF RedisTypeOK
  <2>1. ASSUME NEW c \in Claims, RunScript(c) \/ ReadRow(c) \/ Load(c) PROVE FALSE
    BY <2>1, <2>o, <1>2 DEF RunScript, ScriptMisses, ScriptRefuses, ScriptTakes, ReadRow, Load, Goto
  <2>2. ASSUME NEW c \in Claims, RowTakes(c, "holding") \/ RowRefuses(c) \/ Compensate(c) PROVE FALSE
    BY <2>2, <2>o, <1>2 DEF RowTakes, RowRefuses, Compensate, Goto
  <2>3. ASSUME NEW c \in Claims, RowThrows(c) PROVE "commit_unknown" \in failures'
    <3>1. CASE RowTakes(c, "unsure") /\ Fails("commit_unknown")
      BY <3>1 DEF Fails
    <3>2. CASE Goto(c, "counted", "compensating")
      BY <3>2, <2>o, <1>2 DEF Goto
    <3> QED BY <2>3, <3>1, <3>2 DEF RowThrows
  <2>4. ASSUME NEW c \in Claims, ReleaseUnits(c) \/ Sell(c) \/ Dies(c) PROVE FALSE
    BY <2>4, <2>o, <1>2 DEF ReleaseUnits, BeginRelease, ReleaseCounter, ReleaseRow, Sell, Dies, Goto
  <2>5. ~(LoseKey \/ OthersWrite \/ UNCHANGED redisVars)
    BY <1>2, <1>t, OthersMove DEF LoseKey, redisVars
  <2> QED BY <2>1, <2>2, <2>3, <2>4, <2>5 DEF RedisNext, ReserveUnits
<1> QED BY <1>1, <1>2

(* The first load of a counter finds a row that no call has touched.          *)
LEMMA FirstLoadStep == RedisInv /\ [RedisNext]_redisVars => FirstLoad'
<1> SUFFICES ASSUME RedisInv, [RedisNext]_redisVars, counter' = Missing, "lost_key" \notin failures'
             PROVE  \A d \in Claims :
                      /\ step'[d] \in { "idle", "missing", "loading", "ended" }
                      /\ step'[d] = "loading" => seen'[d] + asOf'[d] = stock' + away'
  BY DEF FirstLoad
<1> DEFINE Untouched ==
      \A d \in Claims :
        /\ step'[d] \in { "idle", "missing", "loading", "ended" }
        /\ step'[d] = "loading" => seen'[d] + asOf'[d] = stock' + away'
<1>t. RedisTypeOK /\ FirstLoad /\ "lost_key" \notin failures
  BY FailuresGrow DEF RedisInv
<1>n. /\ \A c \in Claims : Amount[c] \in Nat
      /\ seen \in [Claims -> Nat] /\ asOf \in [Claims -> Nat] /\ step \in [Claims -> Steps]
      /\ counter # Missing => counter \in Nat
  BY <1>t, LedgerAssumption DEF RedisTypeOK
<1>1. counter = Missing
  <2> SUFFICES ASSUME counter # Missing PROVE FALSE
    OBVIOUS
  <2>1. counter' # counter
    OBVIOUS
  <2>2. ASSUME NEW c \in Claims, RunScript(c) \/ Load(c) \/ ReadRow(c) PROVE counter' \in Int
    BY <2>2, <1>n DEF RunScript, ScriptMisses, ScriptRefuses, ScriptTakes, Load, ReadRow
  <2>3. ASSUME NEW c \in Claims, RowTakes(c, "holding") \/ RowRefuses(c) \/ RowThrows(c)
        PROVE  counter' = counter
    BY <2>3 DEF RowTakes, RowRefuses, RowThrows
  <2>4. ASSUME NEW c \in Claims, GiveCounter(c) PROVE counter' \in Int
    BY <2>4, <1>n DEF GiveCounter
  <2>5. ASSUME NEW c \in Claims, Compensate(c) \/ ReleaseCounter(c) PROVE counter' \in Int
    BY <2>5, <2>4 DEF Compensate, ReleaseCounter
  <2>6. ASSUME NEW c \in Claims, Sell(c) \/ BeginRelease(c) \/ ReleaseRow(c) \/ Dies(c)
        PROVE  counter' = counter
    BY <2>6 DEF Sell, BeginRelease, ReleaseRow, Dies
  <2>7. ~LoseKey
    BY DEF LoseKey, Fails
  <2>8. ~(OthersWrite \/ UNCHANGED redisVars)
    BY <2>1, <1>t, OthersMove DEF redisVars
  <2> QED
    BY <2>1, <2>2, <2>3, <2>5, <2>6, <2>7, <2>8 DEF RedisNext, ReserveUnits, ReleaseUnits
<1>2. \A d \in Claims :
        /\ step[d] \in { "idle", "missing", "loading", "ended" }
        /\ step[d] = "loading" => seen[d] + asOf[d] = stock + away
  BY <1>1, <1>t DEF FirstLoad
<1>3. ASSUME NEW c \in Claims, RunScript(c) PROVE Untouched
  <2>1. ScriptMisses(c, "idle", "missing")
    BY <1>1, <1>2, <1>3 DEF RunScript, ScriptMisses, ScriptRefuses, ScriptTakes, Goto
  <2> QED BY <2>1, <1>2, <1>n DEF ScriptMisses, Goto, moved
<1>4. ASSUME NEW c \in Claims, ReadRow(c) PROVE Untouched
  BY <1>2, <1>4, <1>n DEF ReadRow, Goto
<1>5. ASSUME NEW c \in Claims PROVE ~Load(c)
  BY <1>1, <1>n DEF Load
<1>6. ASSUME NEW c \in Claims
      PROVE  ~(RowTakes(c, "holding") \/ RowRefuses(c) \/ RowThrows(c) \/ Compensate(c))
  BY <1>2 DEF RowTakes, RowRefuses, RowThrows, Compensate, Goto
<1>7. ASSUME NEW c \in Claims PROVE ~(ReleaseUnits(c) \/ Sell(c))
  BY <1>2 DEF ReleaseUnits, BeginRelease, ReleaseCounter, ReleaseRow, Sell, Goto
<1>8. ASSUME NEW c \in Claims, Dies(c) PROVE Untouched
  <2>1. /\ step' = [step EXCEPT ![c] = "ended"]
        /\ stock' = stock /\ away' = away /\ Forget(c)
    BY <1>2, <1>8 DEF Dies, Holding
  <2>2. \A d \in Claims \ {c} : step'[d] = step[d] /\ seen'[d] = seen[d] /\ asOf'[d] = asOf[d]
    BY <2>1, <1>n DEF Forget
  <2> QED BY <2>1, <2>2, <1>2, <1>n
<1>9. ~LoseKey
  BY <1>1 DEF LoseKey
<1>10. CASE OthersWrite
  BY <1>2, <1>10, <1>t, OthersMove
<1>11. CASE UNCHANGED redisVars
  BY <1>2, <1>11 DEF redisVars, moved
<1> QED
  BY <1>3, <1>4, <1>5, <1>6, <1>7, <1>8, <1>9, <1>10, <1>11 DEF RedisNext, ReserveUnits

(* The inductive invariant holds in every state of the strategy, for every set *)
(* of calls, every amount and every number of failures.                        *)
THEOREM RedisInvariant == RedisSpec => []RedisInv
<1>1. RedisInv /\ [RedisNext]_redisVars => RedisInv'
  BY RedisTypeStep, PromisesStep, FirstLoadStep, UnsureStep DEF RedisInv
<1> QED BY InitRedis, <1>1, PTL DEF RedisSpec

(* The script never takes the counter below zero, and nobody takes more out of *)
(* the row than is there.                                                      *)
THEOREM RedisTypes == RedisSpec => []RedisTypeOK
<1>1. RedisInv => RedisTypeOK
  BY DEF RedisInv
<1> QED BY <1>1, RedisInvariant, PTL

(* While no process dies and Redis keeps the key and answers, counter and row  *)
(* differ by the calls that are between the two and by what others have moved  *)
(* since the counter's first value was read, and by nothing else.              *)
THEOREM CounterIsInStep == RedisSpec => []InStep
<1>1. RedisInv => InStep
  BY DEF RedisInv
<1> QED BY <1>1, RedisInvariant, PTL

(* A process that dies with the counter taken, and a swallowed INCRBY, leave   *)
(* the counter too low, and never too high but for what others have cut since. *)
THEOREM CounterIsNeverAbove == RedisSpec => []OnlyLower
<1>1. RedisInv => OnlyLower
  BY DEF RedisInv
<1> QED BY <1>1, RedisInvariant, PTL

=============================================================================
