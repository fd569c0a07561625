SPECIFICATION Spec
CONSTANTS
  Launches = {k1}
  Instances = {k1}
  Null = Null
  HostLosses = FALSE
  DestroyOnFail = TRUE
  LedgerFaults = {}
  CrashProne = {}
  Times <- MCTimes
  Clock <- MCClock
  Statuses <- MCStatuses
  Reasons <- MCReasons
  ExitCodes <- MCExitCodes
  Reports <- MCReports
  TrackedEvents <- MCTrackedEvents
  SignalNames <- MCSignalNames
INVARIANTS
  ReadinessIsRecorded
