---------------------------- MODULE RentalSystem ----------------------------
(***************************************************************************)
(* The launcher, its monitor, clean_terminate and reconcile running side   *)
(* by side on one ledger and one Vast account.  They share nothing else:   *)
(* each transaction and each SDK call is one step, and any program may     *)
(* take steps between two steps of another.                                *)
(***************************************************************************)
EXTENDS Launcher

vars == <<cloudVars, ledgerVars, monitorVars, cleanVars, reconcileVars, launcherVars>>

Init ==
  /\ CloudInit /\ LedgerInit
  /\ MonitorInit /\ CleanInit /\ ReconcileInit /\ LauncherInit

LauncherActs(k) ==
  LauncherStep(k) /\ UNCHANGED <<minfo, mready, cleanVars, reconcileVars>>

MonitorActs(k) ==
  MonitorStep(k) /\ UNCHANGED <<launcherVars, cleanVars, reconcileVars>>

CleanActs(k) ==
  CleanStep(k) /\ UNCHANGED <<launcherVars, monitorVars, reconcileVars>>

ReconcileActs ==
  ReconcileStep /\ UNCHANGED <<launcherVars, monitorVars, cleanVars>>

CloudActs ==
  /\ CloudNext
  /\ UNCHANGED <<ledgerVars, launcherVars, monitorVars, cleanVars, reconcileVars>>

Next ==
  \/ \E k \in Launches : LauncherActs(k) \/ MonitorActs(k) \/ CleanActs(k)
  \/ ReconcileActs
  \/ CloudActs

Spec == Init /\ [][Next]_vars

-----------------------------------------------------------------------------
(* Fairness: an operator keeps running reconcile, each run goes on by      *)
(* itself, and show_instances and the audit query, which may fail at any   *)
(* time, do not fail for ever.  Nothing is assumed of the other programs.  *)

ReconcileDoes(A) == A /\ UNCHANGED <<launcherVars, monitorVars, cleanVars>>

ReconcileAdvances ==
  \/ ReconcileStart \/ ReconcileHistory \/ ReconcileNext \/ ReconcileEnd
  \/ ReconcileNotSeen \/ ReconcileMark \/ ReconcileDestroyedEvent
  \/ ReconcileSnapshot \/ ReconcileRunningEvent \/ ReconcileSeen

ReconcileLoadsHistory == ReconcileHistory /\ raudit' = audit

Fairness ==
  /\ WF_vars(ReconcileDoes(ReconcileAdvances))
  /\ SF_vars(ReconcileDoes(ReconcileList))
  /\ SF_vars(ReconcileDoes(ReconcileLoadsHistory))

FairSpec == Spec /\ Fairness

-----------------------------------------------------------------------------
(* Invariants.                                                             *)

TypeOK ==
  /\ CloudTypeOK /\ LedgerTypeOK
  /\ MonitorTypeOK /\ CleanTypeOK /\ ReconcileTypeOK /\ LauncherTypeOK

\* The ledger never closes the books on an instance that is still billed:
\* whichever of the four writers set terminated_at, and however stale what it
\* had read, the instance is gone by then.
TerminatedMeansGone ==
  \A k \in Launches : row[k].terminated_at # Null => cloud[k] = "gone"

\* reconcile's "Mere absence from current instances ... is not treated as
\* termination evidence": a row closed on its authority has an audited delete,
\* even if the listing it read left a live instance out.
AuditReasonNeedsAudit ==
  \A k \in Launches : row[k].reason = "vast_audit_instance_delete" => k \in audit

\* mark_destroyed updates the row before it records the event, and only it
\* records the event: a crash in between may lose the event, but the timeline
\* never shows a destroyed instance whose row is open.
DestroyedEventMeansClosed ==
  \A k \in Launches :
    "instance_destroyed" \in TrackedEvents /\ event[k]["instance_destroyed"] # Null
      => row[k].terminated_at # Null

\* When the launcher reports that the monitor destroyed its launch, the books
\* are closed: the monitor's mark and the launcher's repetition of it back each
\* other up, so ledger errors of one of the two programs lose nothing.
DestroyedLaunchIsClosed ==
  \A k \in Launches :
    /\ lout[k] = "destroyed" /\ row[k].present
    /\ ~({"launcher", "monitor"} \subseteq LedgerFaults)
    => row[k].terminated_at # Null

\* The monitor's exit code 4 and the launcher's conclusion from it are honest.
DestroyedLaunchIsGone ==
  \A k \in Launches : mexit[k] = "4" \/ lout[k] = "destroyed" => cloud[k] = "gone"

-----------------------------------------------------------------------------
(* Why the invariants hold: what each program may rely on at each step.    *)

\* No program acts on a launch that was not rented, and none books it.
RentedBefore ==
  \A k \in Launches :
    (\/ lpc[k] # "idle" \/ mpc[k] # "idle" \/ cpc[k] # "idle"
     \/ row[k].present) => cloud[k] # "none"

\* A program that is about to close the books, or reports that it has ended
\* the launch, has the delete behind it.
DeletedBefore ==
  \A k \in Launches :
    (\/ mpc[k] \in {"mark", "ev_destroyed"} \/ mexit[k] = "4"
     \/ lpc[k] \in {"mark", "ev_destroyed"} \/ lout[k] = "destroyed"
     \/ cpc[k] \in AfterDestroy) => cloud[k] = "gone"

\* The audit log lists ended instances only, and what reconcile has read of it
\* stays true.
AuditIsHonest ==
  /\ \A k \in audit : cloud[k] = "gone"
  /\ raudit \subseteq audit
  /\ rpc = "mark" => rcur \in raudit

\* Whoever records an event about a launch does so after the launcher had its
\* only chance to insert the row: no row appears between a mark that matched
\* nothing and the event that follows it.
BookedBefore ==
  /\ \A k \in Launches :
       /\ mpc[k] # "idle" => lpc[k] \notin {"idle", "insert"}
       /\ mpc[k] \notin {"idle", "exited"} => lpc[k] = "await_monitor"
       /\ mexit[k] # Null => mpc[k] # "idle"
       /\ lout[k] # Null => lpc[k] = "ended"
       /\ CleanRuns(k) /\ cpc[k] # "started" => row[k].present
       /\ ~row[k].present => row[k].terminated_at = Null /\ row[k].reason = Null
  /\ \A k \in rtodo : row[k].present
  /\ rpc \notin {"idle", "listing", "history", "next"} =>
       rcur \in Launches /\ row[rcur].present

\* The event follows the mark of the same program.
MarkedBefore ==
  /\ \A k \in Launches :
       "ev_destroyed" \in {mpc[k], cpc[k], lpc[k]} /\ row[k].present
         => row[k].terminated_at # Null
  /\ rpc = "ev_destroyed" => row[rcur].terminated_at # Null

\* Exit code 4 promises the monitor's mark, and what the launcher makes of it
\* promises the launcher's, unless the transaction itself raised.
ExitMeansMarked ==
  \A k \in Launches :
    row[k].present /\ row[k].terminated_at = Null =>
      /\ mexit[k] = "4" => "monitor" \in LedgerFaults
      /\ lpc[k] = "after_monitor" /\ mexit[k] = "4" => "launcher" \in LedgerFaults
      /\ lout[k] = "destroyed" => {"launcher", "monitor"} \subseteq LedgerFaults

StepOrder ==
  /\ RentedBefore /\ DeletedBefore /\ AuditIsHonest
  /\ BookedBefore /\ MarkedBefore /\ ExitMeansMarked

-----------------------------------------------------------------------------
(* The abstract view: the row of a launch as absent, open or closed books. *)

Books(k) ==
  CASE ~row[k].present -> "absent"
    [] row[k].present /\ row[k].terminated_at = Null -> "open"
    [] row[k].present /\ row[k].terminated_at # Null -> "closed"

Contract == INSTANCE RentalContract
              WITH rental <- cloud, books <- [k \in Launches |-> Books(k)]

\* Every behaviour of the programs is one of the contract: no program closes
\* the books early, twice, or on an unbooked launch, and none reopens them.
KeepsContract == Contract!ContractSpec

-----------------------------------------------------------------------------
(* Liveness.                                                               *)

\* Wherever clean_terminate, the monitor or the launcher was interrupted
\* between the destroy call and its mark, reconcile closes the books in the
\* end, provided the delete is audited and the launch has a row.
AuditedDeleteIsBooked ==
  \A k \in Launches :
    k \in audit /\ row[k].present ~> row[k].terminated_at # Null

-----------------------------------------------------------------------------
(* What the repository says of the programs, and the code does not do.     *)

\* docs/launch-ledger-schema.sql:92 keeps a "Readiness/provisioning summary" and
\* :145 launch legs such as "api_ready - r2_sync_finished": a launch the monitor
\* accepted as ready has its readiness in its row.
ReadinessIsRecorded ==
  \A k \in Launches :
    mexit[k] = "0" /\ row[k].present => row[k].signals["api_ready"] = TRUE
=============================================================================
