SPECIFICATION MCSpec
CONSTANTS
  base = base
  dep = dep
  base1 = base1
  base2 = base2
  dep1 = dep1
  Extension = {base, dep}
  Release = {base1, base2, dep1}
  ExtensionOf <- MCExtensionOf
  DependsOn <- MCDependsOn
  AppRequests <- MCAppRequests
  InitialTenant <- MCTenant
  MaxListPages = 2
  c1 = c1
  c2 = c2
  Calls = {c1, c2}
  app = app
  library = library
  here = here
  there = there
  home = here
  Servers = {here, there}
  Requests <- MCRequests
  RequestFailures = {"NOT_FOUND", "INVALID_ARGUMENT", "AUTHENTICATION_FAILED"}
  symbols = symbols
  other = other
  Downloads = {symbols, other}
  App = {app, library}
  Versions = {1, 2}
  Package <- MCPackage
  Builds = {1, 2}
  NoFile = NoFile
  MaxCrashes = 1
  Concept = Concept
  ConceptApp = app
  Roots <- MCRoots
  Dependencies <- MCDependencies
  Cached <- MCCached
  MaxPackages = 3
INVARIANT OneRowPerPackage
CHECK_DEADLOCK FALSE
