\* One account, three tokens, two requests at a time, one of which may die.
CONSTANTS
  Users = {u1}
  Ips = {i1}
  Tokens = {t1, t2, t3}
  Calls = {c1, c2}
  Lifetime = 1
  MaxAttempts = 2
  MaxHits = 2
  Window = 2
  MaxDeaths = 1
  None = None
  u1 = u1  i1 = i1  t1 = t1  t2 = t2  t3 = t3  t4 = t4  c1 = c1  c2 = c2  c3 = c3
SPECIFICATION FairSessSpec
INVARIANTS OneLiveUnlessRaced BurnedIsDead AttemptsBounded
PROPERTIES LockEnds
