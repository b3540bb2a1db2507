---------------------------- MODULE RedisReserver ----------------------------
(***************************************************************************)
(* RedisAtomicReserver: a counter in Redis decides first, and the row of   *)
(* product_skus second.  Neither is in a transaction with the other.  A    *)
(* call runs the Lua script, loads the counter from the row if there is    *)
(* none, takes from the row, and puts its units back into the counter when *)
(* the row refuses; a release gives back to the counter and then the row.  *)
(*                                                                         *)
(* Others write the row too and never tell the counter: publishing a sale  *)
(* event cuts units, settling it returns what is left, and an              *)
(* administrator sets the stock.  The claims are the calls of reserve,     *)
(* each with the order made of it.                                         *)
(***************************************************************************)
EXTENDS StockUnits

CONSTANTS
  Missing,  \* no key stock:<sku> in Redis
  MaxFaults \* bound on the failures

ASSUME RedisAssumption == Missing \notin Int /\ MaxFaults \in Nat

VARIABLES
  stock,    \* product_skus.stock
  onSale,   \* product_skus.is_active
  counter,  \* stock:<sku>
  step,     \* step[c]: where c's call, or the release of its order, stands
  seen,     \* seen[c]: what readSkuStock returned to c, until c has loaded it
  away,     \* history: units that others have moved out of the row
  asOf,     \* history: asOf[c] is away when c read seen[c]
  told,     \* history: away when what the counter was loaded with was read
  failures, \* history: kinds of failures there were
  faults    \* history: how many

moved     == << away, asOf, told >>
redisVars == << stock, onSale, counter, step, seen, moved, failures, faults >>

\* "unsure": the row gave units up, and its answer was lost.
Steps == { "idle", "missing", "loading", "loaded", "counted", "compensating", "unsure",
           "holding", "returning", "row_owed", "sold", "lost", "ended" }

\* "edited": somebody set the stock by hand, which the code names as a cause
\* of drift.
Kinds == { "threw", "increment", "died", "died_owing", "commit_unknown", "lost_key", "edited" }

\* Types; the script never counts below zero, and neither does the row.
RedisTypeOK ==
  /\ stock \in Nat
  /\ onSale \in BOOLEAN
  /\ counter \in Nat \union {Missing}
  /\ step \in [Claims -> Steps]
  /\ seen \in [Claims -> Nat]
  /\ away \in Nat
  /\ asOf \in [Claims -> Nat]
  /\ told \in Nat
  /\ failures \in SUBSET Kinds
  /\ faults \in 0..MaxFaults

RedisInit ==
  /\ stock = Total
  /\ onSale = TRUE
  /\ counter = Missing
  /\ step = [c \in Claims |-> "idle"]
  /\ seen = [c \in Claims |-> 0]
  /\ away = 0
  /\ asOf = [c \in Claims |-> 0]
  /\ told = 0
  /\ failures = {}
  /\ faults = 0

Goto(c, from, to) == step[c] = from /\ step' = [step EXCEPT ![c] = to]

Fails(kind) ==
  /\ faults < MaxFaults
  /\ faults' = faults + 1
  /\ failures' = failures \union {kind}

NoFailure == UNCHANGED << failures, faults >>

-----------------------------------------------------------------------------
\* RESERVE_LUA, its three answers.
ScriptMisses(c, from, to) ==
  /\ counter = Missing
  /\ Goto(c, from, to)
  /\ UNCHANGED << stock, onSale, counter, seen, moved >> /\ NoFailure

ScriptRefuses(c, from) ==
  /\ counter # Missing /\ counter < Amount[c]
  /\ Goto(c, from, "ended")
  /\ UNCHANGED << stock, onSale, counter, seen, moved >> /\ NoFailure

ScriptTakes(c, from) ==
  /\ counter # Missing /\ counter >= Amount[c]
  /\ counter' = counter - Amount[c]
  /\ Goto(c, from, "counted")
  /\ UNCHANGED << stock, onSale, seen, moved >> /\ NoFailure

\* A second miss in a row throws.
RunScript(c) ==
  \/ ScriptMisses(c, "idle", "missing") \/ ScriptMisses(c, "loaded", "ended")
  \/ \E from \in { "idle", "loaded" } : ScriptRefuses(c, from) \/ ScriptTakes(c, from)

\* readSkuStock; SKU_NOT_FOUND when the SKU is off sale.
ReadRow(c) ==
  /\ \/ onSale /\ Goto(c, "missing", "loading")
        /\ seen' = [seen EXCEPT ![c] = stock] /\ asOf' = [asOf EXCEPT ![c] = away]
     \/ ~onSale /\ Goto(c, "missing", "ended") /\ UNCHANGED << seen, asOf >>
  /\ UNCHANGED << stock, onSale, counter, away, told >> /\ NoFailure

\* sku goes out of scope.
Forget(c) == seen' = [seen EXCEPT ![c] = 0] /\ asOf' = [asOf EXCEPT ![c] = 0]

LoadOver(c) ==
  /\ Goto(c, "loading", "loaded")
  /\ counter' = seen[c] /\ told' = asOf[c]
  /\ Forget(c)
  /\ UNCHANGED << stock, onSale, away >> /\ NoFailure

\* SET NX: what another call has loaded meanwhile stays.
Load(c) ==
  /\ Goto(c, "loading", "loaded")
  /\ IF counter = Missing
       THEN counter' = seen[c] /\ told' = asOf[c]
       ELSE UNCHANGED << counter, told >>
  /\ Forget(c)
  /\ UNCHANGED << stock, onSale, away >> /\ NoFailure

\* decrementStockConditional.
RowTakes(c, to) ==
  /\ onSale /\ stock >= Amount[c]
  /\ Goto(c, "counted", to)
  /\ stock' = stock - Amount[c]
  /\ UNCHANGED << onSale, counter, seen, moved >>

RowRefuses(c) ==
  /\ ~onSale \/ stock < Amount[c]
  /\ Goto(c, "counted", "compensating")
  /\ UNCHANGED << stock, onSale, counter, seen, moved >> /\ NoFailure

\* It throws, without or, when only the answer is lost, with its effect.
RowThrows(c) ==
  \/ /\ Goto(c, "counted", "compensating") /\ Fails("threw")
     /\ UNCHANGED << stock, onSale, counter, seen, moved >>
  \/ RowTakes(c, "unsure") /\ Fails("commit_unknown")

\* INCRBY, which makes a key that is missing, or an error that is logged and
\* swallowed.
GiveCounter(c) ==
  \/ /\ counter' = Amount[c] + (IF counter = Missing THEN 0 ELSE counter)
     /\ NoFailure
  \/ Fails("increment") /\ UNCHANGED counter

CompensateTwice(c) ==
  /\ Goto(c, "compensating", "ended") \/ Goto(c, "unsure", "lost")
  /\ counter' = Amount[c] + Amount[c] + (IF counter = Missing THEN 0 ELSE counter)
  /\ UNCHANGED << stock, onSale, seen, moved >> /\ NoFailure

CompensateBoth(c) ==
  /\ Goto(c, "compensating", "ended") \/ Goto(c, "unsure", "lost")
  /\ GiveCounter(c)
  /\ stock' = stock + Amount[c]
  /\ UNCHANGED << onSale, seen, moved >>

\* Units that the row did give up, though the call was told otherwise, are
\* nobody's.
Compensate(c) ==
  /\ Goto(c, "compensating", "ended") \/ Goto(c, "unsure", "lost")
  /\ GiveCounter(c)
  /\ UNCHANGED << stock, onSale, seen, moved >>

-----------------------------------------------------------------------------
(* What becomes of the units that a call got.                              *)

Sell(c) ==
  /\ Goto(c, "holding", "sold")
  /\ UNCHANGED << stock, onSale, counter, seen, moved >> /\ NoFailure

\* The key turned out to be taken, or the order was cancelled.
BeginRelease(c) ==
  /\ Goto(c, "holding", "returning")
  /\ UNCHANGED << stock, onSale, counter, seen, moved >> /\ NoFailure

ReleaseCounter(c) ==
  /\ Goto(c, "returning", "row_owed")
  /\ GiveCounter(c)
  /\ UNCHANGED << stock, onSale, seen, moved >>

\* incrementStock.
ReleaseRow(c) ==
  /\ Goto(c, "row_owed", "ended")
  /\ stock' = stock + Amount[c]
  /\ UNCHANGED << onSale, counter, seen, moved >> /\ NoFailure

\* Out of the row and in no hands but c's.
Holding(c) == step[c] \in { "unsure", "holding", "returning", "row_owed" }

\* The process dies, or the UPDATE of a release throws.
Dies(c) ==
  /\ step[c] \notin { "idle", "sold", "lost", "ended" }
  /\ step' = [step EXCEPT ![c] = IF Holding(c) THEN "lost" ELSE "ended"]
  /\ Fails(IF step[c] = "row_owed" THEN "died_owing" ELSE "died")
  /\ Forget(c)
  /\ UNCHANGED << stock, onSale, counter, away, told >>

\* Redis evicts the key or restarts without it.
LoseKey ==
  /\ counter # Missing
  /\ Fails("lost_key")
  /\ counter' = Missing /\ told' = 0
  /\ UNCHANGED << stock, onSale, step, seen, away, asOf >>

-----------------------------------------------------------------------------
(* The other writers of the row: n units go out of it, or come back.       *)

MoveOut(n) == stock' = stock - n /\ away' = away + n

\* SaleEventRepository.publish.
Publish(n) ==
  /\ onSale /\ stock >= n
  /\ MoveOut(n)
  /\ UNCHANGED << onSale, counter, step, seen, asOf, told >> /\ NoFailure

\* SaleEventRepository.settleEnded: what is left of what was cut.
SettleEnded(n) ==
  /\ away >= n
  /\ MoveOut(-n)
  /\ UNCHANGED << onSale, counter, step, seen, asOf, told >> /\ NoFailure

\* updateSku with a stock: any number, up to all the units there are.
SetStock(n) ==
  /\ n <= stock + away
  /\ MoveOut(stock - n)
  /\ Fails("edited")
  /\ UNCHANGED << onSale, counter, step, seen, asOf, told >>

\* updateSku with isActive, deactivateSku.
SetActive ==
  /\ onSale' = ~onSale
  /\ UNCHANGED << stock, counter, step, seen, moved >> /\ NoFailure

-----------------------------------------------------------------------------
ReserveUnits(c) ==
  \/ RunScript(c) \/ ReadRow(c) \/ Load(c)
  \/ RowTakes(c, "holding") /\ NoFailure
  \/ RowRefuses(c) \/ RowThrows(c) \/ Compensate(c)

ReleaseUnits(c) == BeginRelease(c) \/ ReleaseCounter(c) \/ ReleaseRow(c)

OthersWrite ==
  \/ SetActive
  \/ \E n \in 1..Total : Publish(n) \/ SettleEnded(n)
  \/ \E n \in 0..Total : SetStock(n)

RedisNext ==
  \/ \E c \in Claims : ReserveUnits(c) \/ ReleaseUnits(c) \/ Sell(c) \/ Dies(c)
  \/ LoseKey
  \/ OthersWrite

RedisSpec == RedisInit /\ [][RedisNext]_redisVars

-----------------------------------------------------------------------------
(* What the row is to the shop: a ledger, whatever the counter says.       *)

HoldOf(c) ==
  IF step[c] \in { "sold", "lost" } THEN step[c]
  ELSE IF Holding(c) THEN "held"
  ELSE "none"

Row == INSTANCE StockLedger WITH
  free <- stock + away, hold <- [c \in Claims |-> HoldOf(c)]

\* However far the counter drifts, and whoever else writes the row: a call takes
\* its units out of the row once and only when they are there, and a unit goes
\* back at most once, namely by the release of the order that has it.  A call
\* that is refused or fails gives back to the counter alone (releaseRedis), a
\* release to both (release).
RowKeepsLedger == Row!LedgerSpec

\* Claims whose units are out of the counter and still in the row, and those
\* whose units are back in the counter and not yet in the row.
CountedOnly == { c \in Claims : step[c] \in { "counted", "compensating" } }
RowOwed     == { c \in Claims : step[c] = "row_owed" }

\* The counter, and the row as it would be if the others had not written it
\* since the counter's first value was read, each with what is on its way.
CountedUnits == counter + Cardinality(Units(CountedOnly))
RowUnits     == stock + Cardinality(Units(RowOwed)) + (away - told)

\* "sau 200 reserve song song, GET stock:{skuId} khớp product_skus.stock" and
\* "Redis trừ xong nhưng DB ghi lỗi ... tồn kho không lệch"
\* (phase3-order-concurrency.md), for what the reserver itself does: the counter
\* and the row differ by the calls that are between the two and by what others
\* have moved since, and by nothing else, whoever loads the counter, whether or
\* not the row was written between the read and SET NX, and whether the row
\* refuses or its UPDATE throws.
InStep ==
  failures \subseteq { "threw", "edited" } /\ counter # Missing => CountedUnits = RowUnits

\* "tồn kho Redis giờ THẤP hơn thực tế" (releaseRedis): a process that dies
\* before the row was touched and an INCRBY that is swallowed make the counter
\* too low, and never too high but for what others have cut since.
OnlyLower ==
  failures \subseteq { "threw", "edited", "increment", "died" } /\ counter # Missing =>
    CountedUnits <= RowUnits

\* Until the key is lost, a load finds a row that no call has touched.
FirstLoad ==
  "lost_key" \notin failures /\ counter = Missing =>
    \A c \in Claims :
      /\ step[c] \in { "idle", "missing", "loading", "ended" }
      /\ step[c] = "loading" => seen[c] + asOf[c] = stock + away

\* The row has given up units without telling only where an answer was lost.
UnsureIsUnknown == \A c \in Claims : step[c] = "unsure" => "commit_unknown" \in failures

\* The inductive invariant behind the counter.
RedisInv == RedisTypeOK /\ FirstLoad /\ UnsureIsUnknown /\ InStep /\ OnlyLower

-----------------------------------------------------------------------------
(* What the repository says of the program and the program does not do.    *)

\* settleEnded is there because else what is left of an event is where "không ai
\* mua được nữa" (sale-event.service.ts): what it returns can be bought.  But a
\* reservation asks the counter, which nobody tells.
ReturnedIsForSale ==
  failures = {} /\ counter # Missing /\ CountedOnly = {} /\ RowOwed = {} => counter >= stock

=============================================================================
