----------------------------- MODULE Reconcile ------------------------------
(***************************************************************************)
(* scripts/reconcile_launch_ledger.py: compare the ledger's active rows    *)
(* with the account's instances.  Rows, listing and audit history are read *)
(* once, up front; the rows are then handled one by one, each by several   *)
(* transactions, on data that may be stale by then.  Nothing is caught     *)
(* except a failure to load the history.                                   *)
(***************************************************************************)
EXTENDS CleanTerminate

VARIABLES
  rpc,     \* the program's next step
  rtodo,   \* active rows still to handle
  rlist,   \* the listing read at the start: launch -> report or "missing"
  raudit,  \* the deletes read from the audit log
  rcur     \* the row being handled, Null between rows

reconcileVars == <<rpc, rtodo, rlist, raudit, rcur>>

ReconcileSteps ==
  {"idle", "listing", "history", "next", "ev_not_seen", "mark", "ev_destroyed",
   "snapshot", "ev_running", "ev_seen"}

ReconcileTypeOK ==
  /\ rpc \in ReconcileSteps
  /\ rtodo \subseteq Launches
  /\ rlist \in [Launches -> Reports \union {"missing"}]
  /\ raudit \subseteq Launches
  /\ rcur \in Launches \union {Null}

\* between two runs the program has no state
Fresh ==
  /\ rpc' = "idle"
  /\ rtodo' = {}
  /\ rlist' = [k \in Launches |-> "missing"]
  /\ raudit' = {}
  /\ rcur' = Null

ReconcileInit ==
  /\ rpc = "idle"
  /\ rtodo = {}
  /\ rlist = [k \in Launches |-> "missing"]
  /\ raudit = {}
  /\ rcur = Null

\* "No active ledger rows found" ends a run at once
ReconcileStart ==
  /\ rpc = "idle" /\ ActiveRows # {}
  /\ rtodo' = ActiveRows
  /\ rpc' = "listing"
  /\ UNCHANGED <<rlist, raudit, rcur, ledgerVars, cloudVars>>

ReconcileList ==
  /\ rpc = "listing"
  /\ rlist' \in Listings
  /\ rpc' = "history"
  /\ UNCHANGED <<rtodo, raudit, rcur, ledgerVars, cloudVars>>

\* --skip-history and a failed audit query both leave no deletes
ReconcileHistory ==
  /\ rpc = "history"
  /\ raudit' \in AuditAnswers
  /\ rpc' = "next"
  /\ UNCHANGED <<rtodo, rlist, rcur, ledgerVars, cloudVars>>

ReconcileNext ==
  /\ rpc = "next"
  /\ \E k \in rtodo :
       /\ rcur' = k
       /\ rtodo' = rtodo \ {k}
       /\ rpc' = IF rlist[k] = "missing" THEN "ev_not_seen" ELSE "snapshot"
  /\ UNCHANGED <<rlist, raudit, ledgerVars, cloudVars>>

ReconcileEnd ==
  /\ rpc = "next" /\ rtodo = {}
  /\ Fresh
  /\ UNCHANGED <<ledgerVars, cloudVars>>

\* rpc moves within the current row, or on to the next
RGoto(step) ==
  /\ rpc' = step
  /\ rcur' = IF step = "next" THEN Null ELSE rcur
  /\ UNCHANGED <<rtodo, rlist, raudit>>

\* Variant: absence from the listing is taken for a termination.
ReconcileNotSeenIsGone ==
  /\ rpc = "ev_not_seen"
  /\ RecordEvent(rcur, "reconcile_not_seen", Clock["reconcile"])
  /\ RGoto("mark")
  /\ UNCHANGED cloudVars

\* Variant: the audit history is not looked at.
ReconcileNotSeenIsIgnored ==
  /\ rpc = "ev_not_seen"
  /\ RecordEvent(rcur, "reconcile_not_seen", Clock["reconcile"])
  /\ RGoto("next")
  /\ UNCHANGED cloudVars

\* MISSING.  Only an audited delete is evidence of termination.
ReconcileNotSeen ==
  /\ rpc = "ev_not_seen"
  /\ RecordEvent(rcur, "reconcile_not_seen", Clock["reconcile"])
  /\ RGoto(IF rcur \in raudit THEN "mark" ELSE "next")
  /\ UNCHANGED cloudVars

ReconcileMark ==
  /\ rpc = "mark"
  /\ Update(rcur, Destroyed(row[rcur], "vast_audit_instance_delete", FALSE, Clock["audit"]))
  /\ RGoto("ev_destroyed")
  /\ UNCHANGED cloudVars

ReconcileDestroyedEvent ==
  /\ rpc = "ev_destroyed"
  /\ RecordEvent(rcur, "instance_destroyed", Clock["reconcile"])
  /\ RGoto("next")
  /\ UNCHANGED cloudVars

\* FOUND: the status is the one of the listing
ReconcileSnapshot ==
  /\ rpc = "snapshot"
  /\ Update(rcur, Snapshotted(row[rcur], LedgerStatus(rlist[rcur]), Clock["reconcile"]))
  /\ RGoto(IF rlist[rcur] = "running" THEN "ev_running" ELSE "ev_seen")
  /\ UNCHANGED cloudVars

ReconcileRunningEvent ==
  /\ rpc = "ev_running"
  /\ RecordEvent(rcur, "instance_running", Clock["reconcile"])
  /\ RGoto("ev_seen")
  /\ UNCHANGED cloudVars

ReconcileSeen ==
  /\ rpc = "ev_seen"
  /\ RecordEvent(rcur, "reconcile_seen", Clock["reconcile"])
  /\ RGoto("next")
  /\ UNCHANGED cloudVars

\* show_instances or a transaction raised, or the program was interrupted
ReconcileFails ==
  /\ \/ rpc = "listing"
     \/ rpc \notin {"idle", "listing", "history", "next"} /\ "reconcile" \in LedgerFaults
     \/ rpc # "idle" /\ "reconcile" \in CrashProne
  /\ Fresh
  /\ UNCHANGED <<ledgerVars, cloudVars>>

ReconcileStep ==
  \/ ReconcileStart \/ ReconcileList \/ ReconcileHistory \/ ReconcileNext
  \/ ReconcileEnd \/ ReconcileNotSeen \/ ReconcileMark \/ ReconcileDestroyedEvent
  \/ ReconcileSnapshot \/ ReconcileRunningEvent \/ ReconcileSeen \/ ReconcileFails
=============================================================================
