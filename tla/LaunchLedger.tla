---------------------------- MODULE LaunchLedger ----------------------------
(***************************************************************************)
(* The sqlite launch ledger (scripts/launch_ledger.py): one row per launch *)
(* in table launches and the first-seen events of table launch_events.     *)
(*                                                                         *)
(* Every function of launch_ledger.py is a sequence of transactions, each  *)
(* on a connection of its own.  Here a transaction is an operator (a row   *)
(* transformer, Update, RecordEvent); the programs that call them are in   *)
(* the modules that extend this one.  LedgerSpec is the most general       *)
(* client: any program, any transaction, any order.                        *)
(*                                                                         *)
(* A time stamp is abstracted to a member of Times: distinct members are   *)
(* distinct moments, which is all that first-seen columns need.            *)
(***************************************************************************)

CONSTANTS
  Launches,       \* launch keys
  Times,          \* values a timestamp column may take
  Statuses,       \* statuses a Vast instance may report
  Reasons,        \* values of termination_reason
  ExitCodes,      \* exit codes of the readiness monitor
  SignalNames,    \* boolean log signals that have a column and an event
  TrackedEvents,  \* the event names whose first sighting is kept in the model
  Null            \* SQL NULL

Lifecycles == Statuses \union {"created", "ready", "destroyed"}

ASSUME LedgerConstants ==
  /\ Null \notin Times /\ Null \notin Reasons /\ Null \notin ExitCodes
  /\ Null \notin Lifecycles /\ Null \notin BOOLEAN
  /\ "destroyed" \notin Statuses

VARIABLES
  row,    \* launch key -> its row of table launches
  event   \* launch key -> tracked event name -> time of its first sighting

ledgerVars == <<row, event>>

RowType ==
  [present       : BOOLEAN,
   lifecycle     : Lifecycles \union {Null},
   running_at    : Times \union {Null},
   ready_at      : Times \union {Null},
   terminated_at : Times \union {Null},
   reason        : Reasons \union {Null},
   by_script     : BOOLEAN,
   monitor_exit  : ExitCodes \union {Null},
   smoke_passed  : BOOLEAN \union {Null},
   signals       : [SignalNames -> BOOLEAN \union {Null}]]

NoRow ==
  [present |-> FALSE, lifecycle |-> Null, running_at |-> Null,
   ready_at |-> Null, terminated_at |-> Null, reason |-> Null,
   by_script |-> FALSE, monitor_exit |-> Null, smoke_passed |-> Null,
   signals |-> [s \in SignalNames |-> Null]]

LedgerTypeOK ==
  /\ row \in [Launches -> RowType]
  /\ event \in [Launches -> [TrackedEvents -> Times \union {Null}]]

-----------------------------------------------------------------------------
(* Row transformers: the SET clauses.                                      *)

\* Variant: COALESCE(:now, col), the arguments the wrong way round.
LastSeen(col, t) == IF t = Null THEN col ELSE t

\* CASE WHEN col IS NULL THEN :now ELSE col END, and COALESCE(col, :now)
FirstSeen(col, t) == IF col = Null THEN t ELSE col

\* COALESCE(:new, col)
Coalesce(new, col) == IF new = Null THEN col ELSE new

\* record_created_launch: INSERT ... ON CONFLICT(launch_key) DO UPDATE
Created(r) ==
  [r EXCEPT !.present = TRUE, !.lifecycle = "created", !.by_script = FALSE]

\* Variant: an instance seen running is given its open row back.
SnapshottedReopens(r, status, t) ==
  [r EXCEPT !.lifecycle     = status,
            !.running_at    = IF status = "running" THEN FirstSeen(@, t) ELSE @,
            !.terminated_at = IF status = "running" THEN Null ELSE @]

\* update_instance_snapshot: the lifecycle follows the status, whatever it was
Snapshotted(r, status, t) ==
  [r EXCEPT !.lifecycle  = status,
            !.running_at = IF status = "running" THEN FirstSeen(@, t) ELSE @]

\* bool(signals.get(name)); a dictionary is a function on its keys
Truthy(signals, name) == name \in DOMAIN signals /\ signals[name] = TRUE

\* update_monitor_result
Monitored(r, exit, signals, t) ==
  LET ready == Truthy(signals, "api_ready") \/ Truthy(signals, "vllm_started")
  IN  [r EXCEPT !.ready_at     = IF ready THEN FirstSeen(@, t) ELSE @,
                !.lifecycle    = IF ready THEN "ready" ELSE @,
                !.monitor_exit = Coalesce(exit, @),
                !.signals      = [s \in SignalNames |->
                                    IF s \in DOMAIN signals THEN signals[s] ELSE @[s]]]

\* Variant: a failed smoke is written as a status.
SmokedAsStatus(r, passed, t) ==
  [r EXCEPT !.smoke_passed = passed,
            !.ready_at     = IF passed THEN FirstSeen(@, t) ELSE @,
            !.lifecycle    = IF passed THEN "ready" ELSE "smoke_failed"]

\* update_smoke_result
Smoked(r, passed, t) ==
  [r EXCEPT !.smoke_passed = passed,
            !.ready_at     = IF passed THEN FirstSeen(@, t) ELSE @,
            !.lifecycle    = IF passed THEN "ready" ELSE @]

\* Variant: the termination time is only written for our own destroy calls.
DestroyedByUs(r, why, script, t) ==
  [r EXCEPT !.terminated_at = IF script THEN FirstSeen(@, t) ELSE @,
            !.lifecycle     = "destroyed",
            !.reason        = why,
            !.by_script     = script]

\* mark_destroyed: terminated_at is first-seen, reason and credit are last-writer
Destroyed(r, why, script, t) ==
  [r EXCEPT !.terminated_at = FirstSeen(@, t),
            !.lifecycle     = "destroyed",
            !.reason        = why,
            !.by_script     = script]

-----------------------------------------------------------------------------
(* Transactions.                                                           *)

InsertRow(k) ==
  /\ row' = [row EXCEPT ![k] = Created(@)]
  /\ UNCHANGED event

\* UPDATE ... WHERE launch_key = :launch_key matches nothing without a row
Update(k, new) ==
  /\ row' = IF row[k].present THEN [row EXCEPT ![k] = new] ELSE row
  /\ UNCHANGED event

\* INSERT OR IGNORE: keeps the first sighting.  OR IGNORE does not cover the
\* foreign key to launches, so without a row the statement raises.
RecordEvent(k, name, t) ==
  /\ row[k].present
  /\ event' = IF name \in TrackedEvents
                THEN [event EXCEPT ![k][name] = FirstSeen(@, t)]
                ELSE event
  /\ UNCHANGED row

\* Variant: active rows told by their status alone.
ActiveByStatus == {k \in Launches : row[k].present /\ row[k].lifecycle # "destroyed"}

\* reconcile's active_ledger_rows
ActiveRows ==
  {k \in Launches : /\ row[k].present
                    /\ row[k].terminated_at = Null
                    /\ row[k].lifecycle # "destroyed"}

-----------------------------------------------------------------------------
(* The most general client.                                                *)

LedgerInit ==
  /\ row = [k \in Launches |-> NoRow]
  /\ event = [k \in Launches |-> [n \in TrackedEvents |-> Null]]

LedgerStep(k, t) ==
  \/ InsertRow(k)
  \/ \E s \in Statuses : Update(k, Snapshotted(row[k], s, t))
  \/ \E exit \in ExitCodes \union {Null} :
       \E seen \in [SignalNames -> BOOLEAN] \union {<<>>} :
         Update(k, Monitored(row[k], exit, seen, t))
  \/ \E passed \in BOOLEAN : Update(k, Smoked(row[k], passed, t))
  \/ \E why \in Reasons, script \in BOOLEAN :
       Update(k, Destroyed(row[k], why, script, t))
  \/ \E n \in TrackedEvents : RecordEvent(k, n, t)

LedgerNext == \E k \in Launches, t \in Times : LedgerStep(k, t)

LedgerSpec == LedgerInit /\ [][LedgerNext]_ledgerVars

-----------------------------------------------------------------------------
(* Properties.                                                             *)

\* A row that says 'destroyed' carries a termination time and a reason, and
\* only a closed row carries a reason, whatever snapshots and monitor or smoke
\* results were written before and after.
DestroyedRowsExplained ==
  \A k \in Launches :
    /\ row[k].lifecycle = "destroyed" => row[k].terminated_at # Null
    /\ (row[k].reason # Null) = (row[k].terminated_at # Null)
    /\ ~row[k].present => row[k] = NoRow

\* Launch-leg analytics subtract first-seen times: once one is recorded, no
\* later call of any program moves or erases it.
FirstSeenStable ==
  [][\A k \in Launches :
       /\ \A n \in TrackedEvents : event[k][n] # Null => event'[k][n] = event[k][n]
       /\ row[k].running_at # Null => row'[k].running_at = row[k].running_at
       /\ row[k].ready_at # Null => row'[k].ready_at = row[k].ready_at
       /\ row[k].terminated_at # Null => row'[k].terminated_at = row[k].terminated_at
    ]_ledgerVars

\* A closed row never becomes active again, even when a late snapshot or smoke
\* result moves its lifecycle_status back from 'destroyed': reconcile never
\* reopens the books on a launch.
ClosedRowsStayClosed ==
  [][\A k \in Launches :
       row[k].present /\ k \notin ActiveRows => k \notin ActiveRows']_ledgerVars
=============================================================================
