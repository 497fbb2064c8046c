SPECIFICATION Spec
CONSTANTS
  j1 = j1
  j2 = j2
  r1 = r1
  r2 = r2
  Jobs = {j1}
  Requests = {r1}
  Hooks = {0, 1}
  MaxIter = 1
  MaxJobs = 2
  TasteTopK = 1
  MaxFaults = 1
  NoRequest = NoRequest
  NoHook = NoHook
  NoJob = NoJob
INVARIANTS
  FailureIsReported
CHECK_DEADLOCK FALSE
