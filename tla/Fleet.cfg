\* Each of the ten components on its own instance.
SPECIFICATION Spec
CONSTANTS
  FsWorkers = {1, 2}
  MaxRequests = 3
  MaxItems = 1
  MaxClock = 2
  Listeners = {1, 2}
  Conns = {1}
  MaxListeners = 1
  FwCap = 1
  MaxBytes = 2
  FwChunk = 1
  MaxGen = 2
  Candidates = {1, 2}
  Helper = 1
  MaxDials = 1
  MaxSeen = 2
  MaxTunnels = 1
  Lifetime = 3
  Margin = 1
  Skew = 1
  MaxTime = 4
  MaxCommands = 6
  Procs = {1, 2}
  MaxStarts = 5
  Jobs = {1, 2}
  Labels = {1}
  Art = {1}
  MaxArt = 1
  MaxRuntimes = 1
  MaxRevision = 2
  MaxGeneration = 4
  MaxInvites = 2
  MaxEntries = 3
  MaxLine = 3
  HardBytes = 5
  PolicyBytes = 5
  FqFaults = 1
  MaxCalls = 2
  IsFaults = 1
  MaxClicks = 3
  MaxIssued = 3
  MaxForeign = 1
  MaxFailures = 1
  MaxPending = 1
  Callers = {1, 2}
  MaxLocalCalls = 2
  MaxBatch = 2
  TableCap = 1
INVARIANTS LedgerIsSafe StreamsAreIntact HostConnectionIsOwned LeaseIsObeyed InstallationIsSound OwnerKeepsItsEndpoint KitIsSound PagesAreExact PeersAgree WindowIsTrue CallsAreHonest
CHECK_DEADLOCK FALSE
