SPECIFICATION Spec
CONSTANTS
  p = p
  q = q
  q2 = q2
  z = z
  onRun = onRun
  t1 = t1
  t2 = t2
  t3 = t3
  o1 = o1
  app = app
  tests = tests
  tests2 = tests2
  hub = hub
  Routine = {p, q, q2, z, onRun, t1, t2, t3, o1}
  Trigger = {onRun}
  Test = {t1, t2, t3}
  File = {app, tests, tests2}
  Platform = {hub}
  Base <- MCBase
  NameOf <- MCNameOf
  FileOf <- MCFileOf
  Programs <- MCPrograms
  Edits <- MCEdits
  Unedited = {}
  Tree <- MCTree
  Racing <- MCRacing
  RunArgs <- MCRunArgs
  Sizes = {1}
INVARIANTS
  SelectionSound
  UncoverableProved
  CoverageTruthful
CHECK_DEADLOCK FALSE
