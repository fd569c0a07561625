--------------------------- MODULE MCLaunchLedger ---------------------------
(***************************************************************************)
(* One launch, two distinguishable times: enough for one write to race     *)
(* another on every first-seen column.  Launches never share a row.        *)
(***************************************************************************)
EXTENDS LaunchLedger

MCStatuses == {"loading", "running"}
MCReasons == {"clean_terminate", "vast_audit_instance_delete"}
MCExitCodes == {"0", "4"}
MCSignalNames == {"api_ready"}
MCTrackedEvents == {"instance_running", "instance_destroyed"}
=============================================================================
