\* Two jobs, a long worker and a turn, two deaths.
SPECIFICATION WorkerSpec
CONSTANTS
  j1 = j1
  j2 = j2
  Jobs = {j1, j2}
  LongWorkers = {w}
  Turns = {t}
  Hopeless = {j2}
  Concurrency = 2
  MaxDeaths = 2
  None = None
  Attempts <- MCAttempts
PROPERTY JobsEnd EveryWorkIsTried RetriesRunOut
