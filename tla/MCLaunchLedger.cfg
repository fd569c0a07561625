SPECIFICATION LedgerSpec
CONSTANTS
  Launches = {k1}
  Times = {t1, t2}
  Null = Null
  Statuses <- MCStatuses
  Reasons <- MCReasons
  ExitCodes <- MCExitCodes
  SignalNames <- MCSignalNames
  TrackedEvents <- MCTrackedEvents
INVARIANTS
  LedgerTypeOK
  DestroyedRowsExplained
PROPERTIES
  FirstSeenStable
  ClosedRowsStayClosed
