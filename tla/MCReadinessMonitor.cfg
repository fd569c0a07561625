SPECIFICATION AnsweredSpec
CONSTANTS
  PortDeadline = 1
  ExternalDeadline = 2
  ProvisioningDeadline = 3
  ImageDeadline = 4
  Timeout = 5
  Horizon = 5
  Pauses = {1, 2}
  NotYet = NotYet
  Printable <- KeyLines
  ArgSets <- AllArgs
CHECK_DEADLOCK FALSE
INVARIANTS
  TypeOK
  DeadlinesSpareBusyHosts
  NoAcceptAfterFailure
  AcceptanceIsProven
PROPERTIES
  MonitorEnds
