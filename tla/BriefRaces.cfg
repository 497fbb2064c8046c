SPECIFICATION Spec
CONSTANTS
  j1 = j1
  j2 = j2
  r1 = r1
  r2 = r2
  Jobs = {j1, j2}
  Requests = {r1, r2}
  Hooks = {0, 1}
  MaxIter = 2
  MaxJobs = 2
  TasteTopK = 1
  MaxFaults = 0
  NoRequest = NoRequest
  NoHook = NoHook
  NoJob = NoJob
SYMMETRY Symmetric
INVARIANTS
  TypeOK
  PublishedByOwner
  OneDecisionAgrees
PROPERTIES
  RetryKnowsRecordedReason
CHECK_DEADLOCK FALSE
