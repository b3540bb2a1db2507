\* Three calls on three units, and sale events that take of them; two failures
\* or edits of the stock.
CONSTANTS
  a = a  b = b  c = c
  Claims = {a, b, c}
  Amount <- Amounts
  MaxAmount = 2
  Total = 3
  Missing = Missing
  MaxFaults = 2
SPECIFICATION RedisSpec
INVARIANTS InStep OnlyLower
 
