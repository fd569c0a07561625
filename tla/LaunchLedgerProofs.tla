------------------------- MODULE LaunchLedgerProofs -------------------------
(***************************************************************************)
(* The ledger under its most general client: its types, the explanation of *)
(* closed rows, and the two things no transaction ever does, move a        *)
(* first-seen time and reopen a row.                                       *)
(***************************************************************************)
EXTENDS LaunchLedger, TLAPS

\* The SET clauses map rows to rows.
LEMMA TransformersKeepType ==
  ASSUME NEW r \in RowType, NEW t \in Times
  PROVE  /\ \A s \in Statuses : Snapshotted(r, s, t) \in RowType
         /\ \A passed \in BOOLEAN : Smoked(r, passed, t) \in RowType
         /\ \A why \in Reasons, script \in BOOLEAN : Destroyed(r, why, script, t) \in RowType
<1>1. \A s \in Statuses : Snapshotted(r, s, t) \in RowType
  BY DEF Snapshotted, FirstSeen, RowType, Lifecycles
<1>2. ASSUME NEW passed \in BOOLEAN
      PROVE  Smoked(r, passed, t) \in RowType
  <2> DEFINE readyAt == IF passed THEN FirstSeen(r.ready_at, t) ELSE r.ready_at
             lifecycle == IF passed THEN "ready" ELSE r.lifecycle
  <2>1. readyAt \in Times \union {Null}
    BY DEF FirstSeen, RowType
  <2>2. lifecycle \in Lifecycles \union {Null}
    BY DEF Lifecycles, RowType
  <2>3. Smoked(r, passed, t) = [r EXCEPT !.smoke_passed = passed, !.ready_at = readyAt,
                                         !.lifecycle = lifecycle]
    BY DEF Smoked, RowType
  <2> HIDE DEF readyAt, lifecycle
  <2> QED BY <2>1, <2>2, <2>3 DEF RowType
<1>3. ASSUME NEW why \in Reasons, NEW script \in BOOLEAN
      PROVE  Destroyed(r, why, script, t) \in RowType
  <2> DEFINE at == FirstSeen(r.terminated_at, t)
  <2>1. at \in Times \union {Null}
    BY DEF FirstSeen, RowType
  <2>2. Destroyed(r, why, script, t) = [r EXCEPT !.terminated_at = at, !.lifecycle = "destroyed",
                                                !.reason = why, !.by_script = script]
    BY DEF Destroyed, RowType
  <2> HIDE DEF at
  <2> QED BY <2>1, <2>2 DEF RowType, Lifecycles
<1> QED BY <1>1, <1>2, <1>3

\* A monitor result keeps the row's type when the signals handed over are
\* booleans or absent: the nested dictionary of the monitor has none of them.
LEMMA MonitoredKeepsType ==
  ASSUME NEW r \in RowType, NEW t \in Times, NEW exit \in ExitCodes \union {Null},
         NEW seen, \A s \in SignalNames : s \in DOMAIN seen => seen[s] \in BOOLEAN
  PROVE  Monitored(r, exit, seen, t) \in RowType
<1> DEFINE ready == Truthy(seen, "api_ready") \/ Truthy(seen, "vllm_started")
           readyAt == IF ready THEN FirstSeen(r.ready_at, t) ELSE r.ready_at
           lifecycle == IF ready THEN "ready" ELSE r.lifecycle
           code == Coalesce(exit, r.monitor_exit)
           seenNow == [s \in SignalNames |-> IF s \in DOMAIN seen THEN seen[s] ELSE r.signals[s]]
<1>1. readyAt \in Times \union {Null}
  BY DEF FirstSeen, RowType
<1>2. lifecycle \in Lifecycles \union {Null}
  BY DEF Lifecycles, RowType
<1>3. code \in ExitCodes \union {Null}
  BY DEF Coalesce, RowType
<1>4. seenNow \in [SignalNames -> BOOLEAN \union {Null}]
  BY DEF RowType
<1>5. Monitored(r, exit, seen, t) =
        [r EXCEPT !.ready_at = readyAt, !.lifecycle = lifecycle,
                  !.monitor_exit = code, !.signals = seenNow]
  BY DEF Monitored, RowType
<1> HIDE DEF readyAt, lifecycle, code, seenNow
<1> QED BY <1>1, <1>2, <1>3, <1>4, <1>5 DEF RowType

\* A transaction on the row of a launch keeps the ledger's type.
LEMMA UpdateKeepsType ==
  ASSUME LedgerTypeOK, NEW k \in Launches, NEW new \in RowType, Update(k, new)
  PROVE  LedgerTypeOK'
BY DEF LedgerTypeOK, Update

LEMMA InsertKeepsType ==
  ASSUME LedgerTypeOK, NEW k \in Launches, InsertRow(k)
  PROVE  LedgerTypeOK'
<1>1. row[k] \in RowType
  BY DEF LedgerTypeOK
<1>2. Created(row[k]) \in RowType
  BY <1>1 DEF Created, RowType, Lifecycles
<1> QED BY <1>2 DEF LedgerTypeOK, InsertRow

LEMMA RecordEventKeepsType ==
  ASSUME LedgerTypeOK, NEW k \in Launches, NEW name, NEW t \in Times, RecordEvent(k, name, t)
  PROVE  LedgerTypeOK'
BY DEF LedgerTypeOK, RecordEvent, FirstSeen

-----------------------------------------------------------------------------

\* What a step of the general client is, with the types of its parameters.
LEMMA StepKeepsType ==
  ASSUME LedgerTypeOK, NEW k \in Launches, NEW t \in Times, LedgerStep(k, t)
  PROVE  LedgerTypeOK'
<1>1. row[k] \in RowType
  BY DEF LedgerTypeOK
<1>2. CASE InsertRow(k)
  BY <1>2, InsertKeepsType
<1>3. CASE \E s \in Statuses : Update(k, Snapshotted(row[k], s, t))
  BY <1>1, <1>3, TransformersKeepType, UpdateKeepsType
<1>4. ASSUME NEW exit \in ExitCodes \union {Null}, NEW seen \in [SignalNames -> BOOLEAN] \union {<<>>},
             Update(k, Monitored(row[k], exit, seen, t))
      PROVE  LedgerTypeOK'
  <2>1. \A s \in SignalNames : s \in DOMAIN seen => seen[s] \in BOOLEAN
    BY DOMAIN <<>> = {}
  <2>2. Monitored(row[k], exit, seen, t) \in RowType
    BY <1>1, <2>1, MonitoredKeepsType
  <2> QED BY <1>4, <2>2, UpdateKeepsType
<1>5. CASE \E passed \in BOOLEAN : Update(k, Smoked(row[k], passed, t))
  BY <1>1, <1>5, TransformersKeepType, UpdateKeepsType
<1>6. CASE \E why \in Reasons, script \in BOOLEAN : Update(k, Destroyed(row[k], why, script, t))
  BY <1>1, <1>6, TransformersKeepType, UpdateKeepsType
<1>7. CASE \E n \in TrackedEvents : RecordEvent(k, n, t)
  BY <1>7, RecordEventKeepsType
<1> QED BY <1>2, <1>3, <1>4, <1>5, <1>6, <1>7 DEF LedgerStep

\* Every column and every event keeps its type.
THEOREM LedgerTypeCorrect == LedgerSpec => []LedgerTypeOK
<1>1. LedgerInit => LedgerTypeOK
  BY DEF LedgerInit, LedgerTypeOK, NoRow, RowType
<1>2. LedgerTypeOK /\ [LedgerNext]_ledgerVars => LedgerTypeOK'
  <2> SUFFICES ASSUME LedgerTypeOK, [LedgerNext]_ledgerVars PROVE LedgerTypeOK'
    OBVIOUS
  <2>1. CASE LedgerNext
    BY <2>1, StepKeepsType DEF LedgerNext
  <2>2. CASE UNCHANGED ledgerVars
    BY <2>2 DEF LedgerTypeOK, ledgerVars
  <2> QED BY <2>1, <2>2
<1> QED BY <1>1, <1>2, PTL DEF LedgerSpec

\* A row that differs from another only where the general client may change it.
LEMMA StepOnRow ==
  ASSUME LedgerTypeOK, NEW k \in Launches, NEW t \in Times, LedgerStep(k, t)
  PROVE  /\ \A j \in Launches \ {k} : row'[j] = row[j] /\ event'[j] = event[j]
         /\ row[k].present => row'[k].present
         /\ \A n \in TrackedEvents : event[k][n] # Null => event'[k][n] = event[k][n]
         /\ \A n \in TrackedEvents : event'[k][n] # event[k][n] => row'[k].present
         /\ row[k].running_at # Null => row'[k].running_at = row[k].running_at
         /\ row[k].ready_at # Null => row'[k].ready_at = row[k].ready_at
         /\ row[k].terminated_at # Null => row'[k].terminated_at = row[k].terminated_at
<1>1. row[k] \in RowType
  BY DEF LedgerTypeOK
<1>2. CASE \E n \in TrackedEvents : RecordEvent(k, n, t)
  BY <1>2 DEF RecordEvent, FirstSeen, LedgerTypeOK
<1>3. CASE InsertRow(k)
  BY <1>1, <1>3 DEF InsertRow, Created, LedgerTypeOK, RowType
<1>4. ASSUME NEW new, Update(k, new),
             /\ new.present = row[k].present
             /\ row[k].running_at # Null => new.running_at = row[k].running_at
             /\ row[k].ready_at # Null => new.ready_at = row[k].ready_at
             /\ row[k].terminated_at # Null => new.terminated_at = row[k].terminated_at
      PROVE  /\ \A j \in Launches \ {k} : row'[j] = row[j]
             /\ row'[k].present = row[k].present
             /\ row[k].running_at # Null => row'[k].running_at = row[k].running_at
             /\ row[k].ready_at # Null => row'[k].ready_at = row[k].ready_at
             /\ row[k].terminated_at # Null => row'[k].terminated_at = row[k].terminated_at
             /\ event' = event
  BY <1>4 DEF Update, LedgerTypeOK
<1>5. CASE \E s \in Statuses : Update(k, Snapshotted(row[k], s, t))
  BY <1>1, <1>4, <1>5 DEF Snapshotted, FirstSeen, RowType
<1>6. CASE \E exit \in ExitCodes \union {Null} :
             \E seen \in [SignalNames -> BOOLEAN] \union {<<>>} :
               Update(k, Monitored(row[k], exit, seen, t))
  BY <1>1, <1>4, <1>6 DEF Monitored, FirstSeen, RowType
<1>7. CASE \E passed \in BOOLEAN : Update(k, Smoked(row[k], passed, t))
  BY <1>1, <1>4, <1>7 DEF Smoked, FirstSeen, RowType
<1>8. CASE \E why \in Reasons, script \in BOOLEAN : Update(k, Destroyed(row[k], why, script, t))
  BY <1>1, <1>4, <1>8 DEF Destroyed, FirstSeen, RowType
<1> QED BY <1>2, <1>3, <1>5, <1>6, <1>7, <1>8 DEF LedgerStep

\* First-seen times are stable under every client: launch-leg analytics may
\* subtract them whatever ran in between.
THEOREM FirstSeenTimesAreStable == LedgerSpec => FirstSeenStable
<1>1. LedgerTypeOK /\ [LedgerNext]_ledgerVars =>
        [\A k \in Launches :
           /\ \A n \in TrackedEvents : event[k][n] # Null => event'[k][n] = event[k][n]
           /\ row[k].running_at # Null => row'[k].running_at = row[k].running_at
           /\ row[k].ready_at # Null => row'[k].ready_at = row[k].ready_at
           /\ row[k].terminated_at # Null => row'[k].terminated_at = row[k].terminated_at
        ]_ledgerVars
  <2> SUFFICES ASSUME LedgerTypeOK, LedgerNext,
                      NEW k \in Launches
               PROVE  /\ \A n \in TrackedEvents : event[k][n] # Null => event'[k][n] = event[k][n]
                      /\ row[k].running_at # Null => row'[k].running_at = row[k].running_at
                      /\ row[k].ready_at # Null => row'[k].ready_at = row[k].ready_at
                      /\ row[k].terminated_at # Null => row'[k].terminated_at = row[k].terminated_at
    OBVIOUS
  <2>1. PICK j \in Launches, t \in Times : LedgerStep(j, t)
    BY DEF LedgerNext
  <2> QED BY <2>1, StepOnRow
<1> QED BY <1>1, LedgerTypeCorrect, PTL DEF LedgerSpec, FirstSeenStable

-----------------------------------------------------------------------------

\* What DestroyedRowsExplained says of one row.
Explained(r) ==
  /\ r.lifecycle = "destroyed" => r.terminated_at # Null
  /\ (r.reason # Null) = (r.terminated_at # Null)
  /\ ~r.present => r = NoRow

\* Every SET clause leaves an explained row explained: only mark_destroyed
\* touches the three columns, and it writes all of them together.
LEMMA TransactionsExplain ==
  ASSUME LedgerTypeOK, NEW k \in Launches, NEW t \in Times, LedgerStep(k, t),
         Explained(row[k])
  PROVE  Explained(row'[k])
<1>1. row[k] \in RowType
  BY DEF LedgerTypeOK
<1>2. CASE \E n \in TrackedEvents : RecordEvent(k, n, t)
  BY <1>2 DEF RecordEvent
<1>3. CASE InsertRow(k)
  <2>1. row'[k] = Created(row[k])
    BY <1>3 DEF InsertRow, LedgerTypeOK
  <2> QED BY <1>1, <2>1 DEF Created, Explained, RowType
<1>4. ASSUME NEW new, Update(k, new), new.present = row[k].present,
             new.lifecycle = "destroyed" => new.terminated_at # Null,
             (new.reason # Null) = (new.terminated_at # Null)
      PROVE  Explained(row'[k])
  <2>1. CASE row[k].present
    <3>1. row'[k] = new
      BY <1>4, <2>1 DEF Update, LedgerTypeOK
    <3> QED BY <1>4, <2>1, <3>1 DEF Explained
  <2>2. CASE ~row[k].present
    BY <1>4, <2>2 DEF Update
  <2> QED BY <2>1, <2>2
<1>5. ASSUME NEW s \in Statuses, Update(k, Snapshotted(row[k], s, t))
      PROVE  Explained(row'[k])
  <2>1. Snapshotted(row[k], s, t).lifecycle # "destroyed"
    BY <1>1, LedgerConstants DEF Snapshotted, RowType
  <2> QED BY <1>1, <1>4, <1>5, <2>1 DEF Snapshotted, RowType, Explained
<1>6. ASSUME NEW exit \in ExitCodes \union {Null},
             NEW seen \in [SignalNames -> BOOLEAN] \union {<<>>},
             Update(k, Monitored(row[k], exit, seen, t))
      PROVE  Explained(row'[k])
  BY <1>1, <1>4, <1>6 DEF Monitored, RowType, Explained
<1>7. ASSUME NEW passed \in BOOLEAN, Update(k, Smoked(row[k], passed, t))
      PROVE  Explained(row'[k])
  BY <1>1, <1>4, <1>7 DEF Smoked, RowType, Explained
<1>8. ASSUME NEW why \in Reasons, NEW script \in BOOLEAN,
             Update(k, Destroyed(row[k], why, script, t))
      PROVE  Explained(row'[k])
  <2>1. FirstSeen(row[k].terminated_at, t) # Null
    BY LedgerConstants DEF FirstSeen
  <2>2. why # Null
    BY LedgerConstants
  <2> QED BY <1>1, <1>4, <1>8, <2>1, <2>2 DEF Destroyed, RowType
<1> QED BY <1>2, <1>3, <1>5, <1>6, <1>7, <1>8 DEF LedgerStep

\* A row that says 'destroyed' says when and why, whatever snapshots and
\* results were written around the mark.
THEOREM DestroyedRowsAreExplained == LedgerSpec => []DestroyedRowsExplained
<1>1. LedgerInit => DestroyedRowsExplained
  <2>1. Null # "destroyed"
    BY LedgerConstants DEF Lifecycles
  <2>2. /\ NoRow.lifecycle = Null /\ NoRow.reason = Null /\ NoRow.terminated_at = Null
        /\ NoRow.present = FALSE
    BY DEF NoRow
  <2>3. LedgerInit => \A k \in Launches : row[k] = NoRow
    BY DEF LedgerInit
  <2> QED BY <2>1, <2>2, <2>3 DEF DestroyedRowsExplained
<1>2. LedgerTypeOK /\ DestroyedRowsExplained /\ [LedgerNext]_ledgerVars
        => DestroyedRowsExplained'
  <2> SUFFICES ASSUME LedgerTypeOK, DestroyedRowsExplained, [LedgerNext]_ledgerVars,
                      NEW k \in Launches
               PROVE  Explained(row'[k])
    BY DEF DestroyedRowsExplained, Explained, NoRow
  <2>1. Explained(row[k])
    BY DEF DestroyedRowsExplained, Explained
  <2>2. CASE UNCHANGED ledgerVars
    BY <2>1, <2>2 DEF ledgerVars
  <2>3. CASE LedgerNext
    <3>1. PICK j \in Launches, t \in Times : LedgerStep(j, t)
      BY <2>3 DEF LedgerNext
    <3>2. CASE j = k
      BY <2>1, <3>1, <3>2, TransactionsExplain
    <3>3. CASE j # k
      BY <2>1, <3>1, <3>3, StepOnRow
    <3> QED BY <3>2, <3>3
  <2> QED BY <2>2, <2>3
<1> QED BY <1>1, <1>2, LedgerTypeCorrect, PTL DEF LedgerSpec

\* No transaction reopens the books on a launch.  The status alone would not
\* do: a late snapshot writes it back.  The termination time does, and it is
\* there because the row is explained.
THEOREM ClosedRowsAreFinal == LedgerSpec => ClosedRowsStayClosed
<1>1. LedgerTypeOK /\ DestroyedRowsExplained /\ [LedgerNext]_ledgerVars =>
        [\A k \in Launches :
           row[k].present /\ k \notin ActiveRows => k \notin ActiveRows']_ledgerVars
  <2> SUFFICES ASSUME LedgerTypeOK, DestroyedRowsExplained, LedgerNext,
                      NEW k \in Launches, row[k].present, k \notin ActiveRows
               PROVE  k \notin ActiveRows'
    OBVIOUS
  <2>1. row[k].terminated_at # Null
    BY DEF ActiveRows, DestroyedRowsExplained
  <2>2. PICK j \in Launches, t \in Times : LedgerStep(j, t)
    BY DEF LedgerNext
  <2>3. row'[k].terminated_at # Null
    BY <2>1, <2>2, StepOnRow
  <2> QED BY <2>3 DEF ActiveRows
<1> QED
  BY <1>1, LedgerTypeCorrect, DestroyedRowsAreExplained, PTL DEF LedgerSpec, ClosedRowsStayClosed
=============================================================================
