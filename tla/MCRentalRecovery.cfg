SPECIFICATION FairSpec
CONSTANTS
  Launches = {k1}
  Instances = {k1}
  Null = Null
  HostLosses = FALSE
  DestroyOnFail = TRUE
  LedgerFaults = {"monitor"}
  CrashProne = {}
  Times <- MCTimes
  Clock <- MCClock
  Statuses <- MCStatuses
  Reasons <- MCReasons
  ExitCodes <- MCExitCodes
  Reports = {"running"}
  TrackedEvents <- MCTrackedEvents
  SignalNames <- MCSignalNames
INVARIANTS
  DestroyedLaunchIsClosed
PROPERTIES
  AuditedDeleteIsBooked
