SPECIFICATION Spec
CONSTANTS
  Null = Null
  Instances = {1, 2}
  Reports = {"running", "loading"}
  HostLosses = FALSE
  Markets <- OneOfferMarkets
  Policies <- MCPolicies
  PatchLists <- MCPatchLists
  CommandLines <- OnlyTheScan
  SearchLimit = 2
  LaunchAttempts = 2
  ReadyPolls = 1
  AskIds = 2
  CliMaxDph = 42
  LlamaRuns = 2
  ModelVersions = 2
  ServicePolls = 2
  Profiles = {"p", "q"}
  Interruptible = {"q"}
  ScanLimit = 2
  Scans = 2
  DatabaseFaults = FALSE
INVARIANTS
  FoundOffersAreRecorded
CHECK_DEADLOCK FALSE
