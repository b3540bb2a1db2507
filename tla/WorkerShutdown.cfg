\* As Worker.cfg, with no death: the signal alone is enough.
SPECIFICATION WorkerSpec
CONSTANTS
  j1 = j1
  j2 = j2
  Jobs = {j1, j2}
  LongWorkers = {w}
  Turns = {t}
  Hopeless = {j2}
  Concurrency = 2
  MaxDeaths = 0
  None = None
  Attempts <- MCAttempts
INVARIANT ConnectionsOutliveJobs
