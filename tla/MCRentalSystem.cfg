SPECIFICATION Spec
CONSTANTS
  Launches = {k1}
  Instances = {k1}
  Null = Null
  HostLosses = TRUE
  DestroyOnFail = TRUE
  LedgerFaults = {"launcher", "clean"}
  CrashProne = {"monitor", "clean", "reconcile"}
  Times <- MCTimes
  Clock <- MCClock
  Statuses <- MCStatuses
  Reasons <- MCReasons
  ExitCodes <- MCExitCodes
  Reports <- MCReports
  TrackedEvents <- MCTrackedEvents
  SignalNames <- MCSignalNames
INVARIANTS
  TypeOK
  StepOrder
  TerminatedMeansGone
  AuditReasonNeedsAudit
  DestroyedEventMeansClosed
  DestroyedLaunchIsGone
PROPERTIES
  KeepsContract
