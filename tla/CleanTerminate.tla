--------------------------- MODULE CleanTerminate ---------------------------
(***************************************************************************)
(* scripts/clean_terminate_instance.py: capture metrics and logs, destroy  *)
(* the instance, close its ledger row.  Outside the two try blocks every   *)
(* error ends the program where it stands; the operator may run it again.  *)
(***************************************************************************)
EXTENDS MonitorProcess

VARIABLES
  cpc,    \* launch -> the program's next step
  cinfo,  \* launch -> the report it captured
  cdry    \* launch -> --dry-run

cleanVars == <<cpc, cinfo, cdry>>

CleanSteps ==
  {"idle", "started", "show", "snapshot", "ev_running", "logs", "logs_failed",
   "metrics", "metrics_failed", "dry_finished", "destroy", "destroy_returned",
   "mark", "ev_destroyed", "done", "aborted", "blocked"}

CleanTypeOK ==
  /\ cpc \in [Launches -> CleanSteps]
  /\ cinfo \in [Launches -> Reports \union {"unknown"}]
  /\ cdry \in [Launches -> BOOLEAN]

CleanInit ==
  /\ cpc = [k \in Launches |-> "idle"]
  /\ cinfo = [k \in Launches |-> "unknown"]
  /\ cdry = [k \in Launches |-> FALSE]

CGoto(k, step) == cpc' = [cpc EXCEPT ![k] = step]

\* process end: "done" (returned 0), "aborted", or "blocked": ended by a
\* ledger error before the destroy call
CEnd(k, outcome) ==
  /\ cpc' = [cpc EXCEPT ![k] = outcome]
  /\ cinfo' = [cinfo EXCEPT ![k] = "unknown"]
  /\ cdry' = [cdry EXCEPT ![k] = FALSE]

CleanRuns(k) == cpc[k] \notin {"idle", "done", "aborted", "blocked"}

\* an operator closes an instance out by its id, ledger row or not
CleanStart(k) ==
  /\ ~CleanRuns(k) /\ cloud[k] # "none"
  /\ \E dry \in BOOLEAN : cdry' = [cdry EXCEPT ![k] = dry]
  /\ CGoto(k, "started")
  /\ UNCHANGED <<cinfo, ledgerVars, cloudVars>>

\* record_event(clean_terminate_started or clean_terminate_dry_run_started)
CleanStartedEvent(k) ==
  /\ cpc[k] = "started"
  /\ RecordEvent(k, IF cdry[k] THEN "clean_terminate_dry_run_started"
                               ELSE "clean_terminate_started", Clock["clean"])
  /\ CGoto(k, "show")
  /\ UNCHANGED <<cinfo, cdry, cloudVars>>

\* show_instance, outside any try
CleanShow(k) ==
  /\ cpc[k] = "show"
  /\ \E info \in ShowResults(k) :
       IF info = "error"
         THEN CEnd(k, "aborted")
         ELSE /\ cinfo' = [cinfo EXCEPT ![k] = info]
              /\ CGoto(k, "snapshot")
              /\ UNCHANGED cdry
  /\ UNCHANGED <<ledgerVars, cloudVars>>

CleanSnapshot(k) ==
  /\ cpc[k] = "snapshot"
  /\ Update(k, Snapshotted(row[k], LedgerStatus(cinfo[k]), Clock["clean"]))
  /\ CGoto(k, IF cinfo[k] = "running" THEN "ev_running" ELSE "logs")
  /\ UNCHANGED <<cinfo, cdry, cloudVars>>

CleanRunningEvent(k) ==
  /\ cpc[k] = "ev_running"
  /\ RecordEvent(k, "instance_running", Clock["clean"])
  /\ CGoto(k, "logs")
  /\ UNCHANGED <<cinfo, cdry, cloudVars>>

\* vast.logs and update_monitor_result without signals; a failure of either
\* is caught and recorded
CleanLogs(k) ==
  /\ cpc[k] = "logs"
  /\ \/ /\ Update(k, Monitored(row[k], Null, <<>>, Clock["clean"]))
        /\ CGoto(k, "metrics")
     \/ /\ CGoto(k, "logs_failed")
        /\ UNCHANGED ledgerVars
  /\ UNCHANGED <<cinfo, cdry, cloudVars>>

CleanLogsFailed(k) ==
  /\ cpc[k] = "logs_failed"
  /\ RecordEvent(k, "clean_terminate_logs_failed", Clock["clean"])
  /\ CGoto(k, "metrics")
  /\ UNCHANGED <<cinfo, cdry, cloudVars>>

CleanAfterMetrics(k) == CGoto(k, IF cdry[k] THEN "dry_finished" ELSE "destroy")

\* metrics captured, or skipped (--skip-metrics, no API key), or failed
CleanMetrics(k) ==
  /\ cpc[k] = "metrics"
  /\ CleanAfterMetrics(k) \/ CGoto(k, "metrics_failed")
  /\ UNCHANGED <<cinfo, cdry, ledgerVars, cloudVars>>

\* --require-metrics without an API key: SystemExit before the destroy
CleanMetricsRequired(k) ==
  /\ cpc[k] = "metrics"
  /\ CEnd(k, "aborted")
  /\ UNCHANGED <<ledgerVars, cloudVars>>

\* the failure is recorded; --require-metrics then returns 3
CleanMetricsFailed(k) ==
  /\ cpc[k] = "metrics_failed"
  /\ RecordEvent(k, "clean_terminate_metrics_failed", Clock["clean"])
  /\ \/ CleanAfterMetrics(k) /\ UNCHANGED <<cinfo, cdry>>
     \/ CEnd(k, "aborted")
  /\ UNCHANGED cloudVars

CleanDryFinished(k) ==
  /\ cpc[k] = "dry_finished"
  /\ RecordEvent(k, "clean_terminate_dry_run_finished", Clock["clean"])
  /\ CEnd(k, "done")
  /\ UNCHANGED cloudVars

CleanDestroys(k) ==
  /\ cpc[k] = "destroy"
  /\ DestroyReturns(k)
  /\ CGoto(k, "destroy_returned")
  /\ UNCHANGED <<cinfo, cdry, ledgerVars>>

\* Variant: the error is caught and the program goes on to the mark.
CleanDestroyRaisesGoesOn(k) ==
  /\ cpc[k] = "destroy"
  /\ DestroyRaises(k)
  /\ CGoto(k, "destroy_returned")
  /\ UNCHANGED <<cinfo, cdry, ledgerVars>>

\* destroy_instance raised: not caught
CleanDestroyRaises(k) ==
  /\ cpc[k] = "destroy"
  /\ DestroyRaises(k)
  /\ CEnd(k, "aborted")
  /\ UNCHANGED ledgerVars

\* the event, then the wait and the post-destroy show, whose errors are caught
CleanDestroyReturned(k) ==
  /\ cpc[k] = "destroy_returned"
  /\ RecordEvent(k, "clean_terminate_destroy_returned", Clock["clean"])
  /\ CGoto(k, "mark")
  /\ UNCHANGED <<cinfo, cdry, cloudVars>>

CleanMark(k) ==
  /\ cpc[k] = "mark"
  /\ Update(k, Destroyed(row[k], "clean_terminate", TRUE, Clock["clean"]))
  /\ CGoto(k, "ev_destroyed")
  /\ UNCHANGED <<cinfo, cdry, cloudVars>>

CleanDestroyedEvent(k) ==
  /\ cpc[k] = "ev_destroyed"
  /\ RecordEvent(k, "instance_destroyed", Clock["clean"])
  /\ CEnd(k, "done")
  /\ UNCHANGED cloudVars

CleanEvents == {"started", "ev_running", "logs_failed", "metrics_failed",
                "dry_finished", "destroy_returned", "ev_destroyed"}
CleanUpdates == {"snapshot", "mark"}
AfterDestroy == {"destroy_returned", "mark", "ev_destroyed"}

\* a ledger transaction outside a try raised: record_event without a row, or
\* any transaction on a database that is busy or full
CleanLedgerFails(k) ==
  /\ \/ cpc[k] \in CleanEvents /\ ~row[k].present
     \/ cpc[k] \in CleanEvents \union CleanUpdates /\ "clean" \in LedgerFaults
  /\ CEnd(k, IF cpc[k] \in AfterDestroy \/ cdry[k] THEN "aborted" ELSE "blocked")
  /\ UNCHANGED <<ledgerVars, cloudVars>>

CleanCrash(k) ==
  /\ "clean" \in CrashProne
  /\ CleanRuns(k)
  /\ CEnd(k, "aborted")
  /\ UNCHANGED <<ledgerVars, cloudVars>>

CleanStep(k) ==
  \/ CleanStart(k) \/ CleanStartedEvent(k) \/ CleanShow(k) \/ CleanSnapshot(k)
  \/ CleanRunningEvent(k) \/ CleanLogs(k) \/ CleanLogsFailed(k)
  \/ CleanMetrics(k) \/ CleanMetricsRequired(k) \/ CleanMetricsFailed(k)
  \/ CleanDryFinished(k) \/ CleanDestroys(k) \/ CleanDestroyRaises(k)
  \/ CleanDestroyReturned(k) \/ CleanMark(k) \/ CleanDestroyedEvent(k)
  \/ CleanLedgerFails(k) \/ CleanCrash(k)
=============================================================================
