SPECIFICATION MCSpec
CONSTANTS
  c1 = c1
  c2 = c2
  Callers = {c1, c2}
  QueueCap = 2
  MaxBreaks = 2
  MaxFailures = 1
  MaxRuns = 1
  MaxResumes = 2
  a1 = a1
  a2 = a2
  r1 = r1
  r2 = r2
  o1 = o1
  None = None
  Manual = {a1, a2}
  Record = {r1, r2}
  Order = {o1}
INVARIANTS
  EndedIsStopped
CHECK_DEADLOCK FALSE
