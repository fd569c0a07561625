------------------------------ MODULE Launcher ------------------------------
(***************************************************************************)
(* scripts/select_and_launch.py from the create call on: rent the offer,   *)
(* record the launch, poll until it runs, monitor it, smoke it.  Every     *)
(* ledger call is in a try that only warns; every SDK call is outside one. *)
(*                                                                         *)
(* A launcher that is killed is one that takes no further step: it is not  *)
(* run again for the same launch, and no fairness is assumed of it.        *)
(***************************************************************************)
EXTENDS Reconcile

VARIABLES
  lpc,    \* launch -> the launcher's next step
  linfo,  \* launch -> the report of poll_instance, the smoke result
  lout    \* launch -> how the launcher ended, Null until then

launcherVars == <<lpc, linfo, lout>>

LauncherSteps ==
  {"idle", "insert", "ev_requested", "ev_returned", "poll", "snapshot",
   "ev_running", "spawn", "await_monitor", "record_exit", "mark",
   "ev_destroyed", "after_monitor", "smoke", "record_smoke", "ev_smoke", "ended"}

LauncherTypeOK ==
  /\ lpc \in [Launches -> LauncherSteps]
  /\ linfo \in [Launches -> Reports \union {"unknown", "smoke_passed", "smoke_failed"}]
  /\ lout \in [Launches -> {"ok", "destroyed", "failed", "crashed", Null}]

LauncherInit ==
  /\ lpc = [k \in Launches |-> "idle"]
  /\ linfo = [k \in Launches |-> "unknown"]
  /\ lout = [k \in Launches |-> Null]

LGoto(k, step) == lpc' = [lpc EXCEPT ![k] = step]

LEnd(k, how) ==
  /\ lpc' = [lpc EXCEPT ![k] = "ended"]
  /\ lout' = [lout EXCEPT ![k] = how]
  /\ linfo' = [linfo EXCEPT ![k] = "unknown"]

\* create_instance returned an instance id
LauncherCreates(k) ==
  /\ lpc[k] = "idle"
  /\ Rent(k)
  /\ LGoto(k, "insert")
  /\ UNCHANGED <<linfo, lout, mpc, mexit, ledgerVars>>

\* create_instance raised, or its answer had no id, after the contract was made
LauncherLosesContract(k) ==
  /\ lpc[k] = "idle"
  /\ Rent(k)
  /\ LEnd(k, "crashed")
  /\ UNCHANGED <<mpc, mexit, ledgerVars>>

\* record_created_launch: the row, then its two events
LauncherInsert(k) ==
  /\ lpc[k] = "insert"
  /\ InsertRow(k)
  /\ LGoto(k, "ev_requested")
  /\ UNCHANGED <<linfo, lout, mpc, mexit, cloudVars>>

LauncherRequestedEvent(k) ==
  /\ lpc[k] = "ev_requested"
  /\ RecordEvent(k, "launch_requested", Clock["launcher"])
  /\ LGoto(k, "ev_returned")
  /\ UNCHANGED <<linfo, lout, mpc, mexit, cloudVars>>

LauncherReturnedEvent(k) ==
  /\ lpc[k] = "ev_returned"
  /\ RecordEvent(k, "sdk_create_returned", Clock["launcher"])
  /\ LGoto(k, "poll")
  /\ UNCHANGED <<linfo, lout, mpc, mexit, cloudVars>>

\* where the program goes on after the try a failing transaction belongs to
AfterTry(step) ==
  CASE step \in {"insert", "ev_requested", "ev_returned"} -> "poll"
    [] step \in {"snapshot", "ev_running"} -> "spawn"
    [] step \in {"record_exit", "mark", "ev_destroyed"} -> "after_monitor"
    [] step \in {"record_smoke", "ev_smoke"} -> "ended"

LauncherEvents == {"ev_requested", "ev_returned", "ev_running", "ev_destroyed", "ev_smoke"}
LauncherUpdates == {"insert", "snapshot", "record_exit", "mark", "record_smoke"}

\* WARN: launch ledger ... failed
LauncherLedgerFails(k) ==
  /\ \/ lpc[k] \in LauncherEvents /\ ~row[k].present
     \/ lpc[k] \in LauncherEvents \union LauncherUpdates /\ "launcher" \in LedgerFaults
  /\ IF AfterTry(lpc[k]) = "ended"
       THEN LEnd(k, IF linfo[k] = "smoke_passed" THEN "ok" ELSE "failed")
       ELSE LGoto(k, AfterTry(lpc[k])) /\ UNCHANGED <<linfo, lout>>
  /\ UNCHANGED <<mpc, mexit, ledgerVars, cloudVars>>

\* poll_instance returns on running and on a bad status, and hands over
\* whatever it saw last when its time is over; until then it polls again,
\* which changes nothing
LauncherPollReturns(k) ==
  /\ lpc[k] = "poll"
  /\ \E info \in ShowResults(k) \ {"error"} :
       linfo' = [linfo EXCEPT ![k] = info]
  /\ LGoto(k, "snapshot")
  /\ UNCHANGED <<lout, mpc, mexit, ledgerVars, cloudVars>>

\* show_instance raised: not caught
LauncherPollRaises(k) ==
  /\ lpc[k] = "poll"
  /\ LEnd(k, "crashed")
  /\ UNCHANGED <<mpc, mexit, ledgerVars, cloudVars>>

LauncherSnapshot(k) ==
  /\ lpc[k] = "snapshot"
  /\ Update(k, Snapshotted(row[k], LedgerStatus(linfo[k]), Clock["launcher"]))
  /\ LGoto(k, IF linfo[k] = "running" THEN "ev_running" ELSE "spawn")
  /\ UNCHANGED <<linfo, lout, mpc, mexit, cloudVars>>

LauncherRunningEvent(k) ==
  /\ lpc[k] = "ev_running"
  /\ RecordEvent(k, "instance_running", Clock["launcher"])
  /\ LGoto(k, "spawn")
  /\ UNCHANGED <<linfo, lout, mpc, mexit, cloudVars>>

LauncherSpawnsMonitor(k) ==
  /\ lpc[k] = "spawn"
  /\ LGoto(k, "await_monitor")
  /\ mpc' = [mpc EXCEPT ![k] = "poll"]
  /\ linfo' = [linfo EXCEPT ![k] = "unknown"]
  /\ UNCHANGED <<lout, mexit, ledgerVars, cloudVars>>

\* --no-monitor
LauncherSkipsMonitor(k) ==
  /\ lpc[k] = "spawn"
  /\ LGoto(k, "smoke")
  /\ linfo' = [linfo EXCEPT ![k] = "unknown"]
  /\ UNCHANGED <<lout, mpc, mexit, ledgerVars, cloudVars>>

\* subprocess.run returned
LauncherMonitorReturned(k) ==
  /\ lpc[k] = "await_monitor" /\ mpc[k] = "exited"
  /\ LGoto(k, "record_exit")
  /\ UNCHANGED <<linfo, lout, mpc, mexit, ledgerVars, cloudVars>>

\* Variant: the mark is left to the monitor alone.
LauncherRecordExitOnly(k) ==
  /\ lpc[k] = "record_exit"
  /\ Update(k, Monitored(row[k], mexit[k], <<>>, Clock["launcher"]))
  /\ LGoto(k, "after_monitor")
  /\ UNCHANGED <<linfo, lout, mpc, mexit, cloudVars>>

\* launch_ledger.update_monitor_result with the exit code
LauncherRecordExit(k) ==
  /\ lpc[k] = "record_exit"
  /\ Update(k, Monitored(row[k], mexit[k], <<>>, Clock["launcher"]))
  /\ LGoto(k, IF mexit[k] = "4" THEN "mark" ELSE "after_monitor")
  /\ UNCHANGED <<linfo, lout, mpc, mexit, cloudVars>>

\* the monitor has marked the row already, unless its own attempt failed
LauncherMark(k) ==
  /\ lpc[k] = "mark"
  /\ Update(k, Destroyed(row[k], "monitor_destroyed_failed_launch", TRUE, Clock["launcher"]))
  /\ LGoto(k, "ev_destroyed")
  /\ UNCHANGED <<linfo, lout, mpc, mexit, cloudVars>>

LauncherDestroyedEvent(k) ==
  /\ lpc[k] = "ev_destroyed"
  /\ RecordEvent(k, "instance_destroyed", Clock["launcher"])
  /\ LGoto(k, "after_monitor")
  /\ UNCHANGED <<linfo, lout, mpc, mexit, cloudVars>>

\* 4: the launch is over; any other code but 0 is the launcher's own
LauncherAfterMonitor(k) ==
  /\ lpc[k] = "after_monitor"
  /\ CASE mexit[k] = "4" -> LEnd(k, "destroyed")
       [] mexit[k] = "0" -> LGoto(k, "smoke") /\ UNCHANGED <<linfo, lout>>
       [] OTHER -> LEnd(k, "failed")
  /\ UNCHANGED <<mpc, mexit, ledgerVars, cloudVars>>

\* --no-smoke-chat
LauncherSkipsSmoke(k) ==
  /\ lpc[k] = "smoke"
  /\ LEnd(k, "ok")
  /\ UNCHANGED <<mpc, mexit, ledgerVars, cloudVars>>

\* print_api_config_and_smoke: its show_instance may raise; only a live
\* instance can complete the chat
LauncherSmoke(k) ==
  /\ lpc[k] = "smoke"
  /\ \/ LEnd(k, "crashed")
     \/ /\ \E result \in {"smoke_failed"} \union
                (IF cloud[k] = "live" THEN {"smoke_passed"} ELSE {}) :
             linfo' = [linfo EXCEPT ![k] = result]
        /\ LGoto(k, "record_smoke")
        /\ UNCHANGED lout
  /\ UNCHANGED <<mpc, mexit, ledgerVars, cloudVars>>

LauncherRecordSmoke(k) ==
  /\ lpc[k] = "record_smoke"
  /\ Update(k, Smoked(row[k], linfo[k] = "smoke_passed", Clock["launcher"]))
  /\ LGoto(k, "ev_smoke")
  /\ UNCHANGED <<linfo, lout, mpc, mexit, cloudVars>>

LauncherSmokeEvent(k) ==
  /\ lpc[k] = "ev_smoke"
  /\ RecordEvent(k, linfo[k], Clock["launcher"])
  /\ LEnd(k, IF linfo[k] = "smoke_passed" THEN "ok" ELSE "failed")
  /\ UNCHANGED <<mpc, mexit, cloudVars>>

LauncherStep(k) ==
  \/ LauncherCreates(k) \/ LauncherLosesContract(k) \/ LauncherInsert(k)
  \/ LauncherRequestedEvent(k) \/ LauncherReturnedEvent(k) \/ LauncherLedgerFails(k)
  \/ LauncherPollReturns(k) \/ LauncherPollRaises(k)
  \/ LauncherSnapshot(k) \/ LauncherRunningEvent(k)
  \/ LauncherSpawnsMonitor(k) \/ LauncherSkipsMonitor(k) \/ LauncherMonitorReturned(k)
  \/ LauncherRecordExit(k) \/ LauncherMark(k) \/ LauncherDestroyedEvent(k)
  \/ LauncherAfterMonitor(k) \/ LauncherSkipsSmoke(k) \/ LauncherSmoke(k)
  \/ LauncherRecordSmoke(k) \/ LauncherSmokeEvent(k)
=============================================================================
