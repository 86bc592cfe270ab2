SPECIFICATION ToolsSpec
CONSTANTS
  a1 = a1
  a2 = a2
  a3 = a3
  b1 = b1
  t = t
  Method = {a1, a2, a3, b1}
  Table = {t}
  CodeunitOf <- MCCodeunitOf
  Declared <- MCDeclared
  Worlds <- MCWorlds
  Requests <- MCRequests
  MaxMethods = 4
  Shuffles = 1
  MaxProbes = 4
  MaxRuns = 3
  OddRows <- MCOddRows
  Pollution = t
  Faults = {"lost row", "abort", "throw"}
  one = one
  two = two
  c1 = c1
  c2 = c2
  Process = {one, two}
  Call = {c1, c2}
  ProcessOf <- MCProcessOf
  Machines <- MCMachines
  MemoSpan = 1
  MaxNow = 1
  MaxEntries = 4
  MaxEdits = 1
INVARIANTS
  BlameSound
  NoVictimMissed
  RepeatHonest
  GraphSafe
PROPERTIES
  StepsSound
  CallsEnd
CHECK_DEADLOCK FALSE
