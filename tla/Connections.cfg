SPECIFICATION MCSpec
CONSTANTS
  Targets = {"next", "user", "exact"}
  MaxCallbacks = 3
  repeat = repeat
  once = once
  Tools = {repeat, once}
  NumGroups = 2
  Attempts <- MCAttempts
  runtime = runtime
  business = business
  tool = tool
  tenant = tenant
  Tenants = {tenant}
  Callers = {runtime, business, tool}
  Calls = {runtime, business}
  Gates = {tool}
  Cloud = {runtime, business}
  ProviderOf <- MCProviderOf
  Context <- MCContext
  Timeout <- MCTimeout
  RefreshWindow = 1
  Lifetimes = {1, 2}
  BearerExpiry = 1
  MaxNow = 2
  TTL = 1
  Faults = {"closed"}
  Responses <- MCResponses
  MaxBytes = 5
  MaxBody = 2
  MaxHeader = 4
INVARIANTS
  AttachSafe
  RunSafe
  NothingLeftBehind
  NothingStale
  HttpHonest
PROPERTIES
  QuietOnceGivenUp
  RunsPlan
  ConnectionsSettle
CHECK_DEADLOCK FALSE
