--------------------------- MODULE MCRentalSystem ---------------------------
(***************************************************************************)
(* One launch and every interleaving of the four programs on it.           *)
(***************************************************************************)
EXTENDS RentalSystem

MCTimes == {"t"}
MCClock == [p \in Programs \union {"audit"} |-> "t"]
MCStatuses == {"loading", "running", "exited", "unknown"}
MCReasons == {"monitor_recommendation", "monitor_destroyed_failed_launch",
              "clean_terminate", "vast_audit_instance_delete"}
MCExitCodes == {"0", "2", "4", "130"}
MCReports == {"running", "settling"}
MCTrackedEvents == {"instance_destroyed"}
MCSignalNames == {"api_ready"}
=============================================================================
