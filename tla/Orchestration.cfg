SPECIFICATION MCSpec
CONSTANTS
  w1 = w1
  w2 = w2
  NoWorker = NoWorker
  Workers = {w1, w2}
  Requests <- MCRequests
  Cycles <- MCCycles
  MaxOf <- MCMaxOf
  Listed <- MCListed
  DryRun <- MCDryRun
  KeepArtifacts = {}
  KeepClaim = {w1}
  Driven = {w2}
  Mortal = {w2}
  Expiring = {2}
  Wired = TRUE
  MaxPolls = 1
  MaxTries = 2
  often = often
  seldom = seldom
  None = None
  Jobs = {often, seldom}
  Cycle = 4
  Period <- MCPeriod
  Jitter <- MCJitter
  Attempts <- MCAttempts
  RetryDelay <- MCRetryDelay
  Untimed = {seldom}
  MaxDelay = 2
  MaxLag = 2
INVARIANTS
  ShipsExactly
  RunTruthful
  TypeOK
  NoOverlap
  TimerCovers
PROPERTIES
  SlotsServedInTurn
  RunsProceed
CHECK_DEADLOCK FALSE
