--------------------------- MODULE MonitorProcess ---------------------------
(***************************************************************************)
(* scripts/monitor_instance_readiness.py as a client of the ledger and of  *)
(* Vast: one step per SDK call or ledger transaction of an iteration of    *)
(* main's loop.  Which recommendation an iteration reaches, and when the   *)
(* time limit is over, is left open here (module ReadinessMonitor has the  *)
(* log signals, deadlines and probes).                                     *)
(*                                                                         *)
(* The launcher starts it with --destroy-on-fail --yes-destroy or with     *)
(* neither (DestroyOnFail), so exit code 3 does not arise.                 *)
(***************************************************************************)
EXTENDS LaunchLedger, VastCloud

CONSTANTS
  DestroyOnFail,  \* BOOLEAN
  LedgerFaults,   \* the programs whose ledger transactions may raise (busy, disk)
  CrashProne,     \* the programs that may be interrupted or killed
  Clock           \* program, or the audit log -> the time it stamps

Programs == {"launcher", "monitor", "clean", "reconcile"}

ASSUME ProgramConstants ==
  /\ Instances = Launches    \* a launch key is made of the instance id
  /\ Clock \in [Programs \union {"audit"} -> Times]
  /\ {"loading", "running", "exited", "unknown"} \subseteq Statuses
  /\ {"0", "2", "4", "130"} \subseteq ExitCodes
  /\ {"monitor_recommendation", "monitor_destroyed_failed_launch",
      "clean_terminate", "vast_audit_instance_delete"} \subseteq Reasons
  /\ "signals" \notin SignalNames
  /\ DestroyOnFail \in BOOLEAN
  /\ LedgerFaults \subseteq Programs /\ CrashProne \subseteq Programs

VARIABLES
  mpc,     \* launch -> the monitor's next step
  minfo,   \* launch -> the report of this iteration
  mready,  \* launch -> cumulative api_ready signal
  mexit    \* launch -> exit code, Null while it runs

monitorVars == <<mpc, minfo, mready, mexit>>

MonitorSteps ==
  {"idle", "poll", "snapshot", "ev_running", "result", "decide", "destroy",
   "mark", "ev_destroyed", "exited"}

MonitorTypeOK ==
  /\ mpc \in [Launches -> MonitorSteps]
  /\ minfo \in [Launches -> Reports \union {"unknown"}]
  /\ mready \in [Launches -> BOOLEAN]
  /\ mexit \in [Launches -> {"0", "2", "4", "130", Null}]

MonitorInit ==
  /\ mpc = [k \in Launches |-> "idle"]
  /\ minfo = [k \in Launches |-> "unknown"]
  /\ mready = [k \in Launches |-> FALSE]
  /\ mexit = [k \in Launches |-> Null]

\* Variant: the report as it comes, cur_state included.
LedgerStatusRaw(info) == info

\* launch_ledger.instance_status: actual_status or status, never cur_state
LedgerStatus(info) == IF info = "settling" THEN "unknown" ELSE info

MGoto(k, step) == mpc' = [mpc EXCEPT ![k] = step]

\* process end: the locals are gone, the exit code is left to the launcher
MExit(k, code) ==
  /\ mpc' = [mpc EXCEPT ![k] = "exited"]
  /\ mexit' = [mexit EXCEPT ![k] = code]
  /\ minfo' = [minfo EXCEPT ![k] = "unknown"]
  /\ mready' = [mready EXCEPT ![k] = FALSE]

\* the ledger block of an iteration is one try: any failure skips its rest
MonitorLedgerFails(k) ==
  /\ \/ mpc[k] \in {"snapshot", "ev_running", "result"} /\ "monitor" \in LedgerFaults
     \/ mpc[k] = "ev_running" /\ ~row[k].present
  /\ MGoto(k, "decide")
  /\ UNCHANGED <<minfo, mready, mexit, ledgerVars, cloudVars>>

\* get_instance and get_logs; when either raises the loop sleeps and retries,
\* which changes nothing.  A signal once seen in the logs stays seen.
MonitorPoll(k) ==
  /\ mpc[k] = "poll"
  /\ \E info \in ShowResults(k) \ {"error"} :
       minfo' = [minfo EXCEPT ![k] = info]
  /\ \E seen \in BOOLEAN : mready' = [mready EXCEPT ![k] = @ \/ seen]
  /\ MGoto(k, "snapshot")
  /\ UNCHANGED <<mexit, ledgerVars, cloudVars>>

MonitorSnapshot(k) ==
  /\ mpc[k] = "snapshot"
  /\ Update(k, Snapshotted(row[k], LedgerStatus(minfo[k]), Clock["monitor"]))
  /\ MGoto(k, IF minfo[k] = "running" THEN "ev_running" ELSE "result")
  /\ UNCHANGED <<minfo, mready, mexit, cloudVars>>

MonitorRunningEvent(k) ==
  /\ mpc[k] = "ev_running"
  /\ RecordEvent(k, "instance_running", Clock["monitor"])
  /\ MGoto(k, "result")
  /\ UNCHANGED <<minfo, mready, mexit, cloudVars>>

\* details = {"signals": signals.__dict__, ...} is handed to
\* update_monitor_result as its signals argument
MonitorDetails(k) == [signals |-> [api_ready |-> mready[k]]]

MonitorResult(k) ==
  /\ mpc[k] = "result"
  /\ Update(k, Monitored(row[k], Null, MonitorDetails(k), Clock["monitor"]))
  /\ MGoto(k, "decide")
  /\ UNCHANGED <<minfo, mready, mexit, cloudVars>>

\* a TERMINATE_ or CONSIDER_TERMINATE_ recommendation
MonitorCondemn(k) ==
  /\ mpc[k] = "decide" /\ DestroyOnFail
  /\ MGoto(k, "destroy")
  /\ UNCHANGED <<minfo, mready, mexit, ledgerVars, cloudVars>>

\* the public API answered after a local api_ready
MonitorAccept(k) ==
  /\ mpc[k] = "decide" /\ mready[k]
  /\ MExit(k, "0")
  /\ UNCHANGED <<ledgerVars, cloudVars>>

MonitorWait(k) ==
  /\ mpc[k] = "decide"
  /\ MGoto(k, "poll")
  /\ minfo' = [minfo EXCEPT ![k] = "unknown"]
  /\ UNCHANGED <<mready, mexit, ledgerVars, cloudVars>>

\* elapsed >= args.timeout: return 2, with the instance left as it is
MonitorTimesOut(k) ==
  /\ mpc[k] = "decide"
  /\ MExit(k, "2")
  /\ UNCHANGED <<ledgerVars, cloudVars>>

\* Variant: the event is recorded without the row's mark.
MonitorDestroysUnmarked(k) ==
  /\ mpc[k] = "destroy"
  /\ DestroyReturns(k)
  /\ MGoto(k, "ev_destroyed")
  /\ UNCHANGED <<minfo, mready, mexit, ledgerVars>>

\* vast.destroy_instance returned
MonitorDestroys(k) ==
  /\ mpc[k] = "destroy"
  /\ DestroyReturns(k)
  /\ MGoto(k, "mark")
  /\ UNCHANGED <<minfo, mready, mexit, ledgerVars>>

\* Variant: a failed destroy call is taken for a destroyed instance.
MonitorDestroyRaisesExits(k) ==
  /\ mpc[k] = "destroy"
  /\ DestroyRaises(k)
  /\ MExit(k, "4")
  /\ UNCHANGED ledgerVars

\* Variant: the mark stands in a finally.
MonitorDestroyRaisesMarks(k) ==
  /\ mpc[k] = "destroy"
  /\ DestroyRaises(k)
  /\ MGoto(k, "mark")
  /\ UNCHANGED <<minfo, mready, mexit, ledgerVars>>

\* the generic handler of the loop catches it: sleep and poll again
MonitorDestroyRaises(k) ==
  /\ mpc[k] = "destroy"
  /\ DestroyRaises(k)
  /\ MGoto(k, "poll")
  /\ minfo' = [minfo EXCEPT ![k] = "unknown"]
  /\ UNCHANGED <<mready, mexit, ledgerVars>>

MonitorMark(k) ==
  /\ mpc[k] = "mark"
  /\ Update(k, Destroyed(row[k], "monitor_recommendation", TRUE, Clock["monitor"]))
  /\ MGoto(k, "ev_destroyed")
  /\ UNCHANGED <<minfo, mready, mexit, cloudVars>>

MonitorDestroyedEvent(k) ==
  /\ mpc[k] = "ev_destroyed"
  /\ RecordEvent(k, "instance_destroyed", Clock["monitor"])
  /\ MExit(k, "4")
  /\ UNCHANGED cloudVars

\* WARN launch ledger destroy update failed; the exit code is 4 all the same
MonitorMarkFails(k) ==
  /\ \/ mpc[k] \in {"mark", "ev_destroyed"} /\ "monitor" \in LedgerFaults
     \/ mpc[k] = "ev_destroyed" /\ ~row[k].present
  /\ MExit(k, "4")
  /\ UNCHANGED <<ledgerVars, cloudVars>>

\* Ctrl-C, a kill, or an unhandled error
MonitorCrash(k) ==
  /\ "monitor" \in CrashProne
  /\ mpc[k] \notin {"idle", "exited"}
  /\ MExit(k, "130")
  /\ UNCHANGED <<ledgerVars, cloudVars>>

MonitorStep(k) ==
  \/ MonitorPoll(k) \/ MonitorSnapshot(k) \/ MonitorRunningEvent(k)
  \/ MonitorResult(k) \/ MonitorLedgerFails(k)
  \/ MonitorCondemn(k) \/ MonitorAccept(k) \/ MonitorWait(k) \/ MonitorTimesOut(k)
  \/ MonitorDestroys(k) \/ MonitorDestroyRaises(k)
  \/ MonitorMark(k) \/ MonitorDestroyedEvent(k) \/ MonitorMarkFails(k)
  \/ MonitorCrash(k)
=============================================================================
