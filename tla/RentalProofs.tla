---------------------------- MODULE RentalProofs ----------------------------
(***************************************************************************)
(* The safety of the rental system, for every set of launches and every    *)
(* fault assumption.  First the types; then that the books on a launch are *)
(* closed only after its end.                                              *)
(*                                                                         *)
(* The inductive invariant is SafeInv, the conjunction of the invariants   *)
(* themselves and of StepOrder, which says what the programs know at each  *)
(* step.  For the ledger and the cloud, a step does one of three things:   *)
(* it leaves the books and the timeline as they are while the cloud at     *)
(* most moves on (Quiet), it closes books, or it records the destroyed     *)
(* event of closed books.                                                  *)
(***************************************************************************)
EXTENDS RentalSystem, LaunchLedgerProofs

USE DEF Programs

-----------------------------------------------------------------------------
(* Types *)


LEMMA ClockIsATime ==
  ASSUME NEW p \in Programs \union {"audit"}
  PROVE  Clock[p] \in Times
BY ProgramConstants

\* The transactions as the programs make them.
LEMMA SnapshotKeepsType ==
  ASSUME LedgerTypeOK, NEW k \in Launches, NEW info \in Reports \union {"unknown"},
         NEW p \in Programs, Update(k, Snapshotted(row[k], LedgerStatus(info), Clock[p]))
  PROVE  LedgerTypeOK'
<1>1. row[k] \in RowType BY DEF LedgerTypeOK
<1>2. LedgerStatus(info) \in Statuses
  BY CloudConstants, ProgramConstants DEF LedgerStatus
<1>3. Snapshotted(row[k], LedgerStatus(info), Clock[p]) \in RowType
  BY <1>1, <1>2, TransformersKeepType, ClockIsATime
<1> QED BY <1>3, UpdateKeepsType

LEMMA DestroyedMarkKeepsType ==
  ASSUME LedgerTypeOK, NEW k \in Launches, NEW why \in Reasons, NEW script \in BOOLEAN,
         NEW p \in Programs \union {"audit"}, Update(k, Destroyed(row[k], why, script, Clock[p]))
  PROVE  LedgerTypeOK'
<1>1. row[k] \in RowType BY DEF LedgerTypeOK
<1>2. Destroyed(row[k], why, script, Clock[p]) \in RowType
  BY <1>1, TransformersKeepType, ClockIsATime
<1> QED BY <1>2, UpdateKeepsType

LEMMA SmokeKeepsType ==
  ASSUME LedgerTypeOK, NEW k \in Launches, NEW passed \in BOOLEAN,
         NEW p \in Programs, Update(k, Smoked(row[k], passed, Clock[p]))
  PROVE  LedgerTypeOK'
<1>1. row[k] \in RowType BY DEF LedgerTypeOK
<1>2. Smoked(row[k], passed, Clock[p]) \in RowType
  BY <1>1, TransformersKeepType, ClockIsATime
<1> QED BY <1>2, UpdateKeepsType

LEMMA NoSignalsKeepType ==
  ASSUME LedgerTypeOK, NEW k \in Launches, NEW exit \in ExitCodes \union {Null},
         NEW p \in Programs, Update(k, Monitored(row[k], exit, <<>>, Clock[p]))
  PROVE  LedgerTypeOK'
<1>1. row[k] \in RowType BY DEF LedgerTypeOK
<1>2. \A s \in SignalNames : s \in DOMAIN <<>> => (<<>>)[s] \in BOOLEAN
  BY DOMAIN <<>> = {}
<1>3. Monitored(row[k], exit, <<>>, Clock[p]) \in RowType
  BY <1>1, <1>2, MonitoredKeepsType, ClockIsATime
<1> QED BY <1>3, UpdateKeepsType

LEMMA DetailsKeepType ==
  ASSUME LedgerTypeOK, NEW k \in Launches,
         Update(k, Monitored(row[k], Null, MonitorDetails(k), Clock["monitor"]))
  PROVE  LedgerTypeOK'
<1>1. row[k] \in RowType BY DEF LedgerTypeOK
<1>2. \A s \in SignalNames : s \in DOMAIN MonitorDetails(k) => MonitorDetails(k)[s] \in BOOLEAN
  BY ProgramConstants DEF MonitorDetails
<1>3. Monitored(row[k], Null, MonitorDetails(k), Clock["monitor"]) \in RowType
  BY <1>1, <1>2, MonitoredKeepsType, ClockIsATime
<1> QED BY <1>3, UpdateKeepsType

LEMMA EventKeepsType ==
  ASSUME LedgerTypeOK, NEW k \in Launches, NEW name,
         NEW p \in Programs, RecordEvent(k, name, Clock[p])
  PROVE  LedgerTypeOK'
BY ClockIsATime, RecordEventKeepsType

LEMMA CloudCallsKeepType ==
  ASSUME CloudTypeOK, NEW k \in Launches,
         \/ Rent(k) \/ DestroyReturns(k) \/ DestroyRaises(k)
         \/ ConsoleDelete(k) \/ HostLoss(k) \/ UNCHANGED cloudVars
  PROVE  CloudTypeOK'
BY ProgramConstants
   DEF CloudTypeOK, Rent, Delete, DestroyReturns, DestroyRaises, ConsoleDelete,
       HostLoss, cloudVars

LEMMA ShowIsAReport ==
  ASSUME NEW k, NEW info \in ShowResults(k) \ {"error"}
  PROVE  info \in Reports \union {"unknown"}
BY DEF ShowResults

-----------------------------------------------------------------------------

LEMMA MonitorKeepsType ==
  ASSUME CloudTypeOK, LedgerTypeOK, MonitorTypeOK, NEW k \in Launches, MonitorStep(k)
  PROVE  CloudTypeOK' /\ LedgerTypeOK' /\ MonitorTypeOK'
<1>1. CASE MonitorPoll(k)
  BY <1>1, ShowIsAReport
     DEF MonitorPoll, MGoto, MonitorTypeOK, MonitorSteps, CloudTypeOK, LedgerTypeOK, cloudVars, ledgerVars
<1>2. CASE MonitorSnapshot(k)
  <2>1. LedgerTypeOK' BY <1>2, SnapshotKeepsType DEF MonitorSnapshot, MonitorTypeOK
  <2> QED BY <1>2, <2>1 DEF MonitorSnapshot, MGoto, MonitorTypeOK, MonitorSteps, CloudTypeOK, cloudVars
<1>3. CASE MonitorRunningEvent(k)
  <2>1. LedgerTypeOK' BY <1>3, EventKeepsType DEF MonitorRunningEvent
  <2> QED BY <1>3, <2>1 DEF MonitorRunningEvent, MGoto, MonitorTypeOK, MonitorSteps, CloudTypeOK, cloudVars
<1>4. CASE MonitorResult(k)
  <2>1. LedgerTypeOK' BY <1>4, DetailsKeepType DEF MonitorResult
  <2> QED BY <1>4, <2>1 DEF MonitorResult, MGoto, MonitorTypeOK, MonitorSteps, CloudTypeOK, cloudVars
<1>5. CASE MonitorLedgerFails(k) \/ MonitorCondemn(k) \/ MonitorWait(k)
  BY <1>5 DEF MonitorLedgerFails, MonitorCondemn, MonitorWait, MGoto, MonitorTypeOK, MonitorSteps,
              CloudTypeOK, LedgerTypeOK, cloudVars, ledgerVars
<1>6. CASE MonitorAccept(k) \/ MonitorTimesOut(k) \/ MonitorMarkFails(k) \/ MonitorCrash(k)
  BY <1>6 DEF MonitorAccept, MonitorTimesOut, MonitorMarkFails, MonitorCrash, MExit, MonitorTypeOK,
              MonitorSteps, CloudTypeOK, LedgerTypeOK, cloudVars, ledgerVars
<1>7. CASE MonitorDestroys(k) \/ MonitorDestroyRaises(k)
  <2>1. CloudTypeOK' BY <1>7, CloudCallsKeepType DEF MonitorDestroys, MonitorDestroyRaises
  <2> QED BY <1>7, <2>1 DEF MonitorDestroys, MonitorDestroyRaises, MGoto, MonitorTypeOK, MonitorSteps,
                            LedgerTypeOK, ledgerVars
<1>8. CASE MonitorMark(k)
  <2>1. LedgerTypeOK' BY <1>8, DestroyedMarkKeepsType, ProgramConstants DEF MonitorMark
  <2> QED BY <1>8, <2>1 DEF MonitorMark, MGoto, MonitorTypeOK, MonitorSteps, CloudTypeOK, cloudVars
<1>9. CASE MonitorDestroyedEvent(k)
  <2>1. LedgerTypeOK' BY <1>9, EventKeepsType DEF MonitorDestroyedEvent
  <2> QED BY <1>9, <2>1 DEF MonitorDestroyedEvent, MExit, MonitorTypeOK, MonitorSteps, CloudTypeOK, cloudVars
<1> QED BY <1>1, <1>2, <1>3, <1>4, <1>5, <1>6, <1>7, <1>8, <1>9 DEF MonitorStep

LEMMA CleanKeepsType ==
  ASSUME CloudTypeOK, LedgerTypeOK, CleanTypeOK, NEW k \in Launches, CleanStep(k)
  PROVE  CloudTypeOK' /\ LedgerTypeOK' /\ CleanTypeOK'
<1>1. CASE CleanStart(k) \/ CleanMetrics(k) \/ CleanMetricsRequired(k)
  BY <1>1 DEF CleanStart, CleanMetrics, CleanMetricsRequired, CleanAfterMetrics, CGoto, CEnd,
              CleanTypeOK, CleanSteps, CloudTypeOK, LedgerTypeOK, cloudVars, ledgerVars
<1>2. CASE CleanShow(k)
  <2>1. PICK info \in ShowResults(k) :
          IF info = "error" THEN CEnd(k, "aborted")
          ELSE cinfo' = [cinfo EXCEPT ![k] = info] /\ CGoto(k, "snapshot") /\ UNCHANGED cdry
    BY <1>2 DEF CleanShow
  <2>2. info # "error" => info \in Reports \union {"unknown"}
    BY ShowIsAReport
  <2>3. CleanTypeOK'
    BY <2>1, <2>2 DEF CGoto, CEnd, CleanTypeOK, CleanSteps
  <2> QED BY <1>2, <2>3 DEF CleanShow, CloudTypeOK, LedgerTypeOK, cloudVars, ledgerVars
<1>3. CASE \/ CleanStartedEvent(k) \/ CleanRunningEvent(k) \/ CleanLogsFailed(k)
           \/ CleanDestroyReturned(k)
  <2>1. LedgerTypeOK'
    BY <1>3, EventKeepsType
       DEF CleanStartedEvent, CleanRunningEvent, CleanLogsFailed, CleanDestroyReturned
  <2> QED
    BY <1>3, <2>1 DEF CleanStartedEvent, CleanRunningEvent, CleanLogsFailed, CleanDestroyReturned,
                      CGoto, CleanTypeOK, CleanSteps, CloudTypeOK, cloudVars
<1>4. CASE CleanMetricsFailed(k) \/ CleanDryFinished(k) \/ CleanDestroyedEvent(k)
  <2>1. LedgerTypeOK'
    BY <1>4, EventKeepsType DEF CleanMetricsFailed, CleanDryFinished, CleanDestroyedEvent
  <2> QED
    BY <1>4, <2>1 DEF CleanMetricsFailed, CleanDryFinished, CleanDestroyedEvent, CleanAfterMetrics,
                      CGoto, CEnd, CleanTypeOK, CleanSteps, CloudTypeOK, cloudVars
<1>5. CASE CleanSnapshot(k)
  <2>1. LedgerTypeOK' BY <1>5, SnapshotKeepsType DEF CleanSnapshot, CleanTypeOK
  <2> QED BY <1>5, <2>1 DEF CleanSnapshot, CGoto, CleanTypeOK, CleanSteps, CloudTypeOK, cloudVars
<1>6. CASE CleanLogs(k)
  <2>1. LedgerTypeOK' BY <1>6, NoSignalsKeepType DEF CleanLogs, LedgerTypeOK, ledgerVars
  <2> QED BY <1>6, <2>1 DEF CleanLogs, CGoto, CleanTypeOK, CleanSteps, CloudTypeOK, cloudVars
<1>7. CASE CleanDestroys(k) \/ CleanDestroyRaises(k)
  <2>1. CloudTypeOK' BY <1>7, CloudCallsKeepType DEF CleanDestroys, CleanDestroyRaises
  <2> QED BY <1>7, <2>1 DEF CleanDestroys, CleanDestroyRaises, CGoto, CEnd, CleanTypeOK, CleanSteps,
                            LedgerTypeOK, ledgerVars
<1>8. CASE CleanMark(k)
  <2>1. LedgerTypeOK' BY <1>8, DestroyedMarkKeepsType, ProgramConstants DEF CleanMark
  <2> QED BY <1>8, <2>1 DEF CleanMark, CGoto, CleanTypeOK, CleanSteps, CloudTypeOK, cloudVars
<1>9. CASE CleanLedgerFails(k) \/ CleanCrash(k)
  BY <1>9 DEF CleanLedgerFails, CleanCrash, CEnd, CleanTypeOK, CleanSteps,
              CloudTypeOK, LedgerTypeOK, cloudVars, ledgerVars
<1> QED BY <1>1, <1>2, <1>3, <1>4, <1>5, <1>6, <1>7, <1>8, <1>9 DEF CleanStep

\* A step on a row has a row, and a snapshot is only written of a listed one.
CurrentRow ==
  /\ rpc \notin {"idle", "listing", "history", "next"} => rcur \in Launches
  /\ rpc = "snapshot" => rlist[rcur] # "missing"

LEMMA ReconcileKeepsType ==
  ASSUME CloudTypeOK, LedgerTypeOK, ReconcileTypeOK, CurrentRow, ReconcileStep
  PROVE  CloudTypeOK' /\ LedgerTypeOK' /\ ReconcileTypeOK' /\ CurrentRow'
<1> USE DEF CurrentRow, ReconcileTypeOK, ReconcileSteps
<1>1. CASE ReconcileStart
  BY <1>1 DEF ReconcileStart, ActiveRows, CloudTypeOK, LedgerTypeOK, cloudVars, ledgerVars
<1>2. CASE ReconcileList
  BY <1>2, ProgramConstants DEF ReconcileList, Listings, CloudTypeOK, LedgerTypeOK, cloudVars, ledgerVars
<1>3. CASE ReconcileHistory
  BY <1>3, ProgramConstants
     DEF ReconcileHistory, AuditAnswers, CloudTypeOK, LedgerTypeOK, cloudVars, ledgerVars
<1>4. CASE ReconcileNext
  BY <1>4 DEF ReconcileNext, CloudTypeOK, LedgerTypeOK, cloudVars, ledgerVars
<1>5. CASE ReconcileEnd \/ ReconcileFails
  BY <1>5 DEF ReconcileEnd, ReconcileFails, Fresh, CloudTypeOK, LedgerTypeOK, cloudVars, ledgerVars
<1>6. CASE \/ ReconcileNotSeen \/ ReconcileDestroyedEvent \/ ReconcileRunningEvent
           \/ ReconcileSeen
  <2>1. LedgerTypeOK'
    BY <1>6, EventKeepsType
       DEF ReconcileNotSeen, ReconcileDestroyedEvent, ReconcileRunningEvent, ReconcileSeen
  <2> QED
    BY <1>6, <2>1 DEF ReconcileNotSeen, ReconcileDestroyedEvent, ReconcileRunningEvent,
                      ReconcileSeen, RGoto, CloudTypeOK, cloudVars
<1>7. CASE ReconcileMark
  <2>1. LedgerTypeOK' BY <1>7, DestroyedMarkKeepsType, ProgramConstants DEF ReconcileMark
  <2> QED BY <1>7, <2>1 DEF ReconcileMark, RGoto, CloudTypeOK, cloudVars
<1>8. CASE ReconcileSnapshot
  <2>1. LedgerTypeOK' BY <1>8, SnapshotKeepsType DEF ReconcileSnapshot
  <2> QED BY <1>8, <2>1 DEF ReconcileSnapshot, RGoto, CloudTypeOK, cloudVars
<1> QED BY <1>1, <1>2, <1>3, <1>4, <1>5, <1>6, <1>7, <1>8 DEF ReconcileStep

\* The launcher writes a snapshot of a report, not of the smoke result that is
\* kept in the same variable later.
ReportInHand ==
  \A k \in Launches : lpc[k] = "snapshot" => linfo[k] \in Reports \union {"unknown"}

LEMMA LauncherKeepsType ==
  ASSUME CloudTypeOK, LedgerTypeOK, MonitorTypeOK, LauncherTypeOK, ReportInHand,
         NEW k \in Launches, LauncherStep(k), UNCHANGED <<minfo, mready>>
  PROVE  CloudTypeOK' /\ LedgerTypeOK' /\ MonitorTypeOK' /\ LauncherTypeOK' /\ ReportInHand'
<1> USE DEF ReportInHand, LGoto, LEnd, LauncherTypeOK, LauncherSteps, MonitorTypeOK, MonitorSteps
<1>1. CASE LauncherCreates(k) \/ LauncherLosesContract(k)
  <2>1. CloudTypeOK' BY <1>1, CloudCallsKeepType DEF LauncherCreates, LauncherLosesContract
  <2> QED BY <1>1, <2>1 DEF LauncherCreates, LauncherLosesContract, LedgerTypeOK, ledgerVars
<1>2. CASE LauncherInsert(k)
  <2>1. LedgerTypeOK' BY <1>2, InsertKeepsType DEF LauncherInsert
  <2> QED BY <1>2, <2>1 DEF LauncherInsert, CloudTypeOK, cloudVars
<1>3. CASE \/ LauncherRequestedEvent(k) \/ LauncherReturnedEvent(k)
           \/ LauncherRunningEvent(k) \/ LauncherDestroyedEvent(k)
  <2>1. LedgerTypeOK'
    BY <1>3, EventKeepsType
       DEF LauncherRequestedEvent, LauncherReturnedEvent, LauncherRunningEvent, LauncherDestroyedEvent
  <2> QED
    BY <1>3, <2>1 DEF LauncherRequestedEvent, LauncherReturnedEvent, LauncherRunningEvent,
                      LauncherDestroyedEvent, CloudTypeOK, cloudVars
<1>4. CASE LauncherSmokeEvent(k)
  <2>1. LedgerTypeOK' BY <1>4, EventKeepsType DEF LauncherSmokeEvent
  <2> QED BY <1>4, <2>1 DEF LauncherSmokeEvent, CloudTypeOK, cloudVars
<1>5. CASE LauncherLedgerFails(k)
  <2>1. AfterTry(lpc[k]) \in {"poll", "spawn", "after_monitor", "ended"}
    BY <1>5 DEF LauncherLedgerFails, AfterTry, LauncherEvents, LauncherUpdates
  <2>2. LauncherTypeOK' /\ ReportInHand'
    <3>1. CASE AfterTry(lpc[k]) = "ended"
      BY <1>5, <3>1 DEF LauncherLedgerFails
    <3>2. CASE AfterTry(lpc[k]) # "ended"
      BY <1>5, <2>1, <3>2 DEF LauncherLedgerFails
    <3> QED BY <3>1, <3>2
  <2> QED
    BY <1>5, <2>2 DEF LauncherLedgerFails, CloudTypeOK, LedgerTypeOK, cloudVars, ledgerVars
<1>6. CASE LauncherPollReturns(k)
  <2>1. PICK info \in ShowResults(k) \ {"error"} : linfo' = [linfo EXCEPT ![k] = info]
    BY <1>6 DEF LauncherPollReturns
  <2>2. info \in Reports \union {"unknown"}
    BY ShowIsAReport
  <2>3. LauncherTypeOK' /\ ReportInHand'
    BY <1>6, <2>1, <2>2 DEF LauncherPollReturns
  <2> QED BY <1>6, <2>3 DEF LauncherPollReturns, CloudTypeOK, LedgerTypeOK, cloudVars, ledgerVars
<1>7. CASE \/ LauncherPollRaises(k) \/ LauncherSpawnsMonitor(k) \/ LauncherSkipsMonitor(k)
           \/ LauncherMonitorReturned(k) \/ LauncherAfterMonitor(k) \/ LauncherSkipsSmoke(k)
  <2>1. CASE LauncherPollRaises(k) \/ LauncherSpawnsMonitor(k) \/ LauncherSkipsMonitor(k)
    BY <2>1 DEF LauncherPollRaises, LauncherSpawnsMonitor, LauncherSkipsMonitor,
                CloudTypeOK, LedgerTypeOK, cloudVars, ledgerVars
  <2>2. CASE LauncherMonitorReturned(k) \/ LauncherSkipsSmoke(k)
    BY <2>2 DEF LauncherMonitorReturned, LauncherSkipsSmoke,
                CloudTypeOK, LedgerTypeOK, cloudVars, ledgerVars
  <2>3. CASE LauncherAfterMonitor(k)
    <3>1. \/ LEnd(k, "destroyed") \/ LEnd(k, "failed")
          \/ LGoto(k, "smoke") /\ UNCHANGED <<linfo, lout>>
      BY <2>3 DEF LauncherAfterMonitor
    <3> QED BY <2>3, <3>1 DEF LauncherAfterMonitor, CloudTypeOK, LedgerTypeOK, cloudVars, ledgerVars
  <2> QED BY <1>7, <2>1, <2>2, <2>3
<1>8. CASE LauncherSnapshot(k)
  <2>1. LedgerTypeOK' BY <1>8, SnapshotKeepsType DEF LauncherSnapshot
  <2> QED BY <1>8, <2>1 DEF LauncherSnapshot, CloudTypeOK, cloudVars
<1>9. CASE LauncherRecordExit(k)
  <2>1. LedgerTypeOK' BY <1>9, NoSignalsKeepType, ProgramConstants DEF LauncherRecordExit
  <2> QED BY <1>9, <2>1 DEF LauncherRecordExit, CloudTypeOK, cloudVars
<1>10. CASE LauncherMark(k)
  <2>1. LedgerTypeOK' BY <1>10, DestroyedMarkKeepsType, ProgramConstants DEF LauncherMark
  <2> QED BY <1>10, <2>1 DEF LauncherMark, CloudTypeOK, cloudVars
<1>11. CASE LauncherSmoke(k)
  <2>1. LauncherTypeOK' /\ ReportInHand'
    <3>1. CASE LEnd(k, "crashed")
      BY <1>11, <3>1
    <3>2. CASE lpc' = [lpc EXCEPT ![k] = "record_smoke"]
      BY <1>11, <3>2 DEF LauncherSmoke
    <3> QED BY <1>11, <3>1, <3>2 DEF LauncherSmoke
  <2> QED BY <1>11, <2>1 DEF LauncherSmoke, CloudTypeOK, LedgerTypeOK, cloudVars, ledgerVars
<1>12. CASE LauncherRecordSmoke(k)
  <2>1. LedgerTypeOK' BY <1>12, SmokeKeepsType DEF LauncherRecordSmoke
  <2> QED BY <1>12, <2>1 DEF LauncherRecordSmoke, CloudTypeOK, cloudVars
<1> QED
  BY <1>1, <1>2, <1>3, <1>4, <1>5, <1>6, <1>7, <1>8, <1>9, <1>10, <1>11, <1>12
     DEF LauncherStep

-----------------------------------------------------------------------------

\* TypeOK and what it needs to be inductive.
TypeInv == TypeOK /\ CurrentRow /\ ReportInHand

LEMMA TypeInvInit == Init => TypeInv
<1> SUFFICES ASSUME Init PROVE TypeInv
  OBVIOUS
<1>1. CloudTypeOK
  BY DEF Init, CloudInit, CloudTypeOK
<1>2. LedgerTypeOK
  BY DEF Init, LedgerInit, LedgerTypeOK, NoRow, RowType
<1>3. MonitorTypeOK
  BY DEF Init, MonitorInit, MonitorTypeOK, MonitorSteps
<1>4. CleanTypeOK
  BY DEF Init, CleanInit, CleanTypeOK, CleanSteps
<1>5. ReconcileTypeOK /\ CurrentRow
  BY DEF Init, ReconcileInit, ReconcileTypeOK, ReconcileSteps, CurrentRow
<1>6. LauncherTypeOK /\ ReportInHand
  BY DEF Init, LauncherInit, LauncherTypeOK, LauncherSteps, ReportInHand
<1> QED BY <1>1, <1>2, <1>3, <1>4, <1>5, <1>6 DEF TypeInv, TypeOK

LEMMA TypeInvStep == TypeInv /\ [Next]_vars => TypeInv'
<1> SUFFICES ASSUME TypeInv, [Next]_vars PROVE TypeInv'
  OBVIOUS
<1> USE DEF TypeInv, TypeOK
<1>1. CASE \E k \in Launches : LauncherActs(k)
  <2>1. PICK k \in Launches : LauncherStep(k) /\ UNCHANGED <<minfo, mready, cleanVars, reconcileVars>>
    BY <1>1 DEF LauncherActs
  <2>2. CloudTypeOK' /\ LedgerTypeOK' /\ MonitorTypeOK' /\ LauncherTypeOK' /\ ReportInHand'
    BY <2>1, LauncherKeepsType
  <2>3. CleanTypeOK' /\ ReconcileTypeOK' /\ CurrentRow'
    BY <2>1 DEF CleanTypeOK, ReconcileTypeOK, CurrentRow, cleanVars, reconcileVars
  <2> QED BY <2>2, <2>3
<1>2. CASE \E k \in Launches : MonitorActs(k)
  <2>1. PICK k \in Launches : MonitorStep(k) /\ UNCHANGED <<launcherVars, cleanVars, reconcileVars>>
    BY <1>2 DEF MonitorActs
  <2>2. CloudTypeOK' /\ LedgerTypeOK' /\ MonitorTypeOK'
    BY <2>1, MonitorKeepsType
  <2>3. CleanTypeOK' /\ ReconcileTypeOK' /\ CurrentRow' /\ LauncherTypeOK' /\ ReportInHand'
    BY <2>1 DEF CleanTypeOK, ReconcileTypeOK, CurrentRow, LauncherTypeOK, ReportInHand,
                cleanVars, reconcileVars, launcherVars
  <2> QED BY <2>2, <2>3
<1>3. CASE \E k \in Launches : CleanActs(k)
  <2>1. PICK k \in Launches : CleanStep(k) /\ UNCHANGED <<launcherVars, monitorVars, reconcileVars>>
    BY <1>3 DEF CleanActs
  <2>2. CloudTypeOK' /\ LedgerTypeOK' /\ CleanTypeOK'
    BY <2>1, CleanKeepsType
  <2>3. MonitorTypeOK' /\ ReconcileTypeOK' /\ CurrentRow' /\ LauncherTypeOK' /\ ReportInHand'
    BY <2>1 DEF MonitorTypeOK, ReconcileTypeOK, CurrentRow, LauncherTypeOK, ReportInHand,
                monitorVars, reconcileVars, launcherVars
  <2> QED BY <2>2, <2>3
<1>4. CASE ReconcileActs
  <2>1. ReconcileStep /\ UNCHANGED <<launcherVars, monitorVars, cleanVars>>
    BY <1>4 DEF ReconcileActs
  <2>2. CloudTypeOK' /\ LedgerTypeOK' /\ ReconcileTypeOK' /\ CurrentRow'
    BY <2>1, ReconcileKeepsType
  <2>3. MonitorTypeOK' /\ CleanTypeOK' /\ LauncherTypeOK' /\ ReportInHand'
    BY <2>1 DEF MonitorTypeOK, CleanTypeOK, LauncherTypeOK, ReportInHand,
                monitorVars, cleanVars, launcherVars
  <2> QED BY <2>2, <2>3
<1>5. CASE CloudActs
  <2>1. CloudTypeOK'
    BY <1>5, CloudCallsKeepType, ProgramConstants DEF CloudActs, CloudNext
  <2> QED
    BY <1>5, <2>1 DEF CloudActs, LedgerTypeOK, MonitorTypeOK, CleanTypeOK, ReconcileTypeOK,
                      CurrentRow, LauncherTypeOK, ReportInHand,
                      ledgerVars, monitorVars, cleanVars, reconcileVars, launcherVars
<1>6. CASE UNCHANGED vars
  BY <1>6 DEF vars, CloudTypeOK, LedgerTypeOK, MonitorTypeOK, CleanTypeOK, ReconcileTypeOK,
              CurrentRow, LauncherTypeOK, ReportInHand, cloudVars, ledgerVars, monitorVars,
              cleanVars, reconcileVars, launcherVars
<1> QED BY <1>1, <1>2, <1>3, <1>4, <1>5, <1>6 DEF Next

THEOREM TypeInvariant == Spec => []TypeInv
BY TypeInvInit, TypeInvStep, PTL DEF Spec

\* Every variable of the rental system keeps its type in every behaviour of the
\* four programs: no interleaving, ledger error or crash makes one of them
\* write a status, a reason or an exit code that the ledger does not know.
THEOREM TypeCorrect == Spec => []TypeOK
<1>1. TypeInv => TypeOK BY DEF TypeInv
<1> QED BY TypeInvariant, <1>1, PTL

-----------------------------------------------------------------------------
(* Books *)


SafeInv ==
  /\ TerminatedMeansGone /\ AuditReasonNeedsAudit /\ DestroyedEventMeansClosed
  /\ StepOrder

\* Nothing that the invariants see of the ledger changes.
SameBooks ==
  \A j \in Launches : /\ row'[j].present = row[j].present
                      /\ row'[j].terminated_at = row[j].terminated_at
                      /\ row'[j].reason = row[j].reason

SameTimeline ==
  "instance_destroyed" \in TrackedEvents =>
    \A j \in Launches : event'[j]["instance_destroyed"] = event[j]["instance_destroyed"]

\* Vast never takes back the end of an instance, nor a line of its audit log.
CloudMovesOn ==
  /\ \A j \in Launches : /\ cloud[j] = "gone" => cloud'[j] = "gone"
                         /\ cloud[j] # "none" => cloud'[j] # "none"
  /\ audit \subseteq audit'
  /\ \A j \in audit' : j \in audit \/ cloud'[j] = "gone"

Quiet == SameBooks /\ SameTimeline /\ CloudMovesOn

LEMMA NullIsNoOutcome == Null # "4" /\ Null # "destroyed"
<1>1. "4" \in ExitCodes BY ProgramConstants
<1>2. "destroyed" \in Lifecycles BY DEF Lifecycles
<1> QED BY <1>1, <1>2, LedgerConstants

\* A row that replaces another without touching its books.
SameBook(q, r) ==
  q.present = r.present /\ q.terminated_at = r.terminated_at /\ q.reason = r.reason

\* Snapshots, monitor results and smoke results leave the books alone.
LEMMA QuietTransformers ==
  ASSUME NEW r \in RowType, NEW t
  PROVE  /\ \A s : SameBook(Snapshotted(r, s, t), r)
         /\ \A exit, seen : SameBook(Monitored(r, exit, seen, t), r)
         /\ \A passed : SameBook(Smoked(r, passed, t), r)
BY DEF SameBook, Snapshotted, Monitored, Smoked, RowType

LEMMA QuietUpdate ==
  ASSUME LedgerTypeOK, NEW k \in Launches, NEW new, Update(k, new), SameBook(new, row[k])
  PROVE  SameBooks /\ SameTimeline
BY DEF Update, SameBook, SameBooks, SameTimeline, LedgerTypeOK

LEMMA QuietEvent ==
  ASSUME LedgerTypeOK, NEW k \in Launches, NEW name, name # "instance_destroyed", NEW t,
         RecordEvent(k, name, t)
  PROVE  SameBooks /\ SameTimeline
BY DEF RecordEvent, SameBooks, SameTimeline, LedgerTypeOK

\* The destroyed event, recorded of a launch whose books are closed.
LEMMA DestroyedEventRecorded ==
  ASSUME LedgerTypeOK, NEW k \in Launches, NEW t, RecordEvent(k, "instance_destroyed", t),
         DestroyedEventMeansClosed, row[k].terminated_at # Null
  PROVE  SameBooks /\ DestroyedEventMeansClosed'
BY DEF RecordEvent, SameBooks, DestroyedEventMeansClosed, LedgerTypeOK

\* What a mark does to the books.
LEMMA MarkCloses ==
  ASSUME LedgerTypeOK, NEW k \in Launches, NEW why, NEW script,
         NEW p \in Programs \union {"audit"}, Update(k, Destroyed(row[k], why, script, Clock[p]))
  PROVE  /\ \A j \in Launches : row'[j].present = row[j].present
         /\ \A j \in Launches \ {k} : row'[j] = row[j]
         /\ row[k].present => row'[k].terminated_at # Null /\ row'[k].reason = why
         /\ ~row[k].present => row' = row
         /\ SameTimeline
<1>1. row[k] \in RowType BY DEF LedgerTypeOK
<1>2. Clock[p] # Null BY ClockIsATime, LedgerConstants
<1> QED BY <1>1, <1>2 DEF Update, Destroyed, FirstSeen, RowType, SameTimeline, LedgerTypeOK

LEMMA CloudCallsMoveOn ==
  ASSUME CloudTypeOK, NEW k \in Launches,
         \/ Rent(k) \/ DestroyReturns(k) \/ DestroyRaises(k)
         \/ ConsoleDelete(k) \/ HostLoss(k) \/ UNCHANGED cloudVars
  PROVE  CloudMovesOn
BY ProgramConstants
   DEF CloudTypeOK, CloudMovesOn, Rent, Delete, DestroyReturns, DestroyRaises, ConsoleDelete,
       HostLoss, cloudVars

LEMMA DestroyEnds ==
  ASSUME CloudTypeOK, NEW k \in Launches, DestroyReturns(k)
  PROVE  cloud'[k] = "gone"
BY ProgramConstants DEF CloudTypeOK, DestroyReturns, Delete

LEMMA QuietKeepsBooks ==
  ASSUME SafeInv, Quiet
  PROVE  TerminatedMeansGone' /\ AuditReasonNeedsAudit' /\ DestroyedEventMeansClosed'
BY DEF SafeInv, Quiet, SameBooks, SameTimeline, CloudMovesOn,
       TerminatedMeansGone, AuditReasonNeedsAudit, DestroyedEventMeansClosed

\* Closing the books on an instance that has ended, for a reason that is true.
LEMMA MarkKeepsBooks ==
  ASSUME LedgerTypeOK, SafeInv, NEW k \in Launches, NEW why, NEW script,
         NEW p \in Programs \union {"audit"}, Update(k, Destroyed(row[k], why, script, Clock[p])),
         cloud' = cloud, audit' = audit, cloud[k] = "gone",
         why \in {"monitor_recommendation", "monitor_destroyed_failed_launch",
                  "clean_terminate"} \/ k \in audit
  PROVE  TerminatedMeansGone' /\ AuditReasonNeedsAudit' /\ DestroyedEventMeansClosed'
<1>1. /\ \A j \in Launches \ {k} : row'[j] = row[j]
      /\ row[k].present => row'[k].terminated_at # Null /\ row'[k].reason = why
      /\ ~row[k].present => row' = row
      /\ SameTimeline
  BY MarkCloses
<1>2. TerminatedMeansGone'
  BY <1>1 DEF TerminatedMeansGone, SafeInv, cloudVars
<1>3. AuditReasonNeedsAudit'
  BY <1>1 DEF AuditReasonNeedsAudit, SafeInv, cloudVars
<1>4. DestroyedEventMeansClosed'
  BY <1>1 DEF DestroyedEventMeansClosed, SameTimeline, SafeInv
<1> QED BY <1>2, <1>3, <1>4

-----------------------------------------------------------------------------
(* The monitor.                                                            *)

LEMMA MonitorQuietSteps ==
  ASSUME TypeInv, NEW k \in Launches,
         \/ MonitorPoll(k) \/ MonitorSnapshot(k) \/ MonitorRunningEvent(k)
         \/ MonitorResult(k) \/ MonitorLedgerFails(k)
         \/ MonitorCondemn(k) \/ MonitorAccept(k) \/ MonitorWait(k) \/ MonitorTimesOut(k)
         \/ MonitorDestroys(k) \/ MonitorDestroyRaises(k)
         \/ MonitorMarkFails(k) \/ MonitorCrash(k)
  PROVE  Quiet
<1> USE DEF TypeInv, TypeOK, Quiet
<1>1. CloudMovesOn
  BY CloudCallsMoveOn
     DEF MonitorPoll, MonitorSnapshot, MonitorRunningEvent, MonitorResult, MonitorLedgerFails,
         MonitorCondemn, MonitorAccept, MonitorWait, MonitorTimesOut, MonitorDestroys,
         MonitorDestroyRaises, MonitorMarkFails, MonitorCrash
<1>2. CASE MonitorSnapshot(k) \/ MonitorResult(k)
  <2>1. PICK new : Update(k, new) /\ SameBook(new, row[k])
    BY <1>2, QuietTransformers, ClockIsATime DEF MonitorSnapshot, MonitorResult, LedgerTypeOK
  <2> QED BY <1>1, <2>1, QuietUpdate
<1>3. CASE MonitorRunningEvent(k)
  BY <1>1, <1>3, QuietEvent DEF MonitorRunningEvent
<1>4. CASE ~(MonitorSnapshot(k) \/ MonitorResult(k) \/ MonitorRunningEvent(k))
  <2>1. UNCHANGED ledgerVars
    BY <1>4 DEF MonitorPoll, MonitorLedgerFails, MonitorCondemn, MonitorAccept, MonitorWait,
                MonitorTimesOut, MonitorDestroys, MonitorDestroyRaises, MonitorMarkFails, MonitorCrash
  <2> QED BY <1>1, <2>1 DEF SameBooks, SameTimeline, ledgerVars
<1> QED BY <1>2, <1>3, <1>4

LEMMA MonitorKeepsSafe ==
  ASSUME TypeInv, SafeInv, NEW k \in Launches, MonitorStep(k),
         UNCHANGED <<launcherVars, cleanVars, reconcileVars>>
  PROVE  SafeInv'
<1> USE DEF SafeInv, StepOrder, TypeInv, TypeOK, MonitorTypeOK,
            launcherVars, cleanVars, reconcileVars
<1>1. CASE \/ MonitorPoll(k) \/ MonitorSnapshot(k) \/ MonitorRunningEvent(k)
           \/ MonitorResult(k) \/ MonitorLedgerFails(k) \/ MonitorCondemn(k) \/ MonitorWait(k)
           \/ MonitorDestroys(k) \/ MonitorDestroyRaises(k)
  <2>1. Quiet BY <1>1, MonitorQuietSteps
  <2>2. PICK step \in MonitorSteps \ {"idle", "ev_destroyed", "exited"} :
          /\ mpc[k] \notin {"idle", "exited"} /\ mpc' = [mpc EXCEPT ![k] = step] /\ mexit' = mexit
          /\ step = "mark" => cloud'[k] = "gone"
    BY <1>1, DestroyEnds
       DEF MonitorPoll, MonitorSnapshot, MonitorRunningEvent, MonitorResult, MonitorLedgerFails,
           MonitorCondemn, MonitorWait, MonitorDestroys, MonitorDestroyRaises, MGoto, MonitorSteps
  <2>3. RentedBefore'
    BY <2>1, <2>2 DEF RentedBefore, Quiet, SameBooks, CloudMovesOn
  <2>4. DeletedBefore'
    BY <2>1, <2>2 DEF DeletedBefore, Quiet, CloudMovesOn
  <2>5. AuditIsHonest'
    BY <2>1, ProgramConstants DEF AuditIsHonest, Quiet, CloudMovesOn, CloudTypeOK
  <2>6. BookedBefore'
    BY <2>1, <2>2 DEF BookedBefore, CleanRuns, Quiet, SameBooks, ReconcileTypeOK
  <2>7. MarkedBefore'
    BY <2>1, <2>2 DEF MarkedBefore, BookedBefore, Quiet, SameBooks
  <2>8. ExitMeansMarked'
    BY <2>1, <2>2 DEF ExitMeansMarked, Quiet, SameBooks
  <2> QED BY <2>1, <2>3, <2>4, <2>5, <2>6, <2>7, <2>8, QuietKeepsBooks
<1>2. CASE MonitorAccept(k) \/ MonitorTimesOut(k) \/ MonitorMarkFails(k) \/ MonitorCrash(k)
  <2>1. Quiet BY <1>2, MonitorQuietSteps
  <2>2. PICK code \in {"0", "2", "4", "130"} :
          /\ mpc[k] # "idle" /\ mpc' = [mpc EXCEPT ![k] = "exited"]
          /\ mexit' = [mexit EXCEPT ![k] = code] 
          /\ code = "4" => /\ mpc[k] \in {"mark", "ev_destroyed"}
                          /\ \/ "monitor" \in LedgerFaults
                             \/ mpc[k] = "ev_destroyed" /\ ~row[k].present
    BY <1>2 DEF MonitorAccept, MonitorTimesOut, MonitorMarkFails, MonitorCrash, MExit
  <2>3. RentedBefore'
    BY <2>1, <2>2 DEF RentedBefore, Quiet, SameBooks, CloudMovesOn
  <2>4. DeletedBefore'
    BY <2>1, <2>2 DEF DeletedBefore, Quiet, CloudMovesOn
  <2>5. AuditIsHonest'
    BY <2>1, ProgramConstants DEF AuditIsHonest, Quiet, CloudMovesOn, CloudTypeOK
  <2>6. BookedBefore'
    BY <2>1, <2>2 DEF BookedBefore, CleanRuns, Quiet, SameBooks, ReconcileTypeOK
  <2>7. MarkedBefore'
    BY <2>1, <2>2 DEF MarkedBefore, BookedBefore, Quiet, SameBooks
  <2>8. ExitMeansMarked'
    BY <2>1, <2>2, "monitor" \in LedgerFaults \/ "monitor" \notin LedgerFaults
       DEF ExitMeansMarked, BookedBefore, Quiet, SameBooks
  <2> QED BY <2>1, <2>3, <2>4, <2>5, <2>6, <2>7, <2>8, QuietKeepsBooks
<1>3. CASE MonitorMark(k)
  <2>1. /\ \A j \in Launches : row'[j].present = row[j].present
        /\ \A j \in Launches \ {k} : row'[j] = row[j]
        /\ row[k].present => row'[k].terminated_at # Null
        /\ ~row[k].present => row' = row
    BY <1>3, MarkCloses DEF MonitorMark
  <2>2. /\ mpc[k] = "mark" /\ mpc' = [mpc EXCEPT ![k] = "ev_destroyed"]
        /\ mexit' = mexit /\ UNCHANGED cloudVars
    BY <1>3 DEF MonitorMark, MGoto
  <2>3. cloud[k] = "gone"
    BY <2>2 DEF DeletedBefore
  <2>4. TerminatedMeansGone' /\ AuditReasonNeedsAudit' /\ DestroyedEventMeansClosed'
    <3>1. Update(k, Destroyed(row[k], "monitor_recommendation", TRUE, Clock["monitor"]))
      BY <1>3 DEF MonitorMark
    <3> HIDE DEF SafeInv, StepOrder
    <3>2. cloud' = cloud /\ audit' = audit
      BY <2>2 DEF cloudVars
    <3> QED BY <2>3, <3>1, <3>2, MarkKeepsBooks
  <2>5. RentedBefore'
    BY <2>1, <2>2 DEF RentedBefore, cloudVars
  <2>6. DeletedBefore'
    BY <2>2, <2>3 DEF DeletedBefore, cloudVars
  <2>7. AuditIsHonest'
    BY <2>2 DEF AuditIsHonest, cloudVars
  <2>8. BookedBefore'
    BY <2>1, <2>2 DEF BookedBefore, CleanRuns, ReconcileTypeOK
  <2>9. MarkedBefore'
    BY <2>1, <2>2 DEF MarkedBefore, BookedBefore
  <2>10. ExitMeansMarked'
    BY <2>1, <2>2 DEF ExitMeansMarked
  <2> QED BY <2>4, <2>5, <2>6, <2>7, <2>8, <2>9, <2>10
<1>4. CASE MonitorDestroyedEvent(k)
  <2>1. row[k].present /\ row[k].terminated_at # Null
    BY <1>4 DEF MonitorDestroyedEvent, RecordEvent, MarkedBefore
  <2>2. SameBooks /\ DestroyedEventMeansClosed'
    BY <1>4, <2>1, DestroyedEventRecorded DEF MonitorDestroyedEvent
  <2>3. /\ mpc[k] = "ev_destroyed" /\ mpc' = [mpc EXCEPT ![k] = "exited"]
        /\ mexit' = [mexit EXCEPT ![k] = "4"] /\ UNCHANGED cloudVars
    BY <1>4 DEF MonitorDestroyedEvent, MExit
  <2>4. TerminatedMeansGone' /\ AuditReasonNeedsAudit'
    BY <2>2, <2>3 DEF TerminatedMeansGone, AuditReasonNeedsAudit, SameBooks, cloudVars
  <2>5. RentedBefore'
    BY <2>2, <2>3 DEF RentedBefore, SameBooks, cloudVars
  <2>6. DeletedBefore'
    BY <2>3 DEF DeletedBefore, cloudVars
  <2>7. AuditIsHonest'
    BY <2>3 DEF AuditIsHonest, cloudVars
  <2>8. BookedBefore'
    BY <2>2, <2>3 DEF BookedBefore, CleanRuns, SameBooks, ReconcileTypeOK
  <2>9. MarkedBefore'
    BY <2>2, <2>3 DEF MarkedBefore, BookedBefore, SameBooks
  <2>10. ExitMeansMarked'
    BY <2>1, <2>2, <2>3 DEF ExitMeansMarked, SameBooks
  <2> QED BY <2>2, <2>4, <2>5, <2>6, <2>7, <2>8, <2>9, <2>10
<1> QED BY <1>1, <1>2, <1>3, <1>4 DEF MonitorStep

-----------------------------------------------------------------------------
(* clean_terminate.                                                        *)

LEMMA CleanQuietSteps ==
  ASSUME TypeInv, NEW k \in Launches, CleanStep(k), ~CleanMark(k), ~CleanDestroyedEvent(k)
  PROVE  Quiet
<1> USE DEF TypeInv, TypeOK, Quiet
<1>1. CloudMovesOn
  BY CloudCallsMoveOn
     DEF CleanStep, CleanStart, CleanStartedEvent, CleanShow, CleanSnapshot, CleanRunningEvent,
         CleanLogs, CleanLogsFailed, CleanMetrics, CleanMetricsRequired, CleanMetricsFailed,
         CleanDryFinished, CleanDestroys, CleanDestroyRaises, CleanDestroyReturned,
         CleanLedgerFails, CleanCrash
<1>2. CASE CleanSnapshot(k) \/ CleanLogs(k)
  <2>1. CASE UNCHANGED ledgerVars
    BY <1>1, <2>1 DEF SameBooks, SameTimeline, ledgerVars
  <2>2. CASE \E new : Update(k, new) /\ SameBook(new, row[k])
    BY <1>1, <2>2, QuietUpdate
  <2> QED
    BY <1>2, <2>1, <2>2, QuietTransformers, ClockIsATime DEF CleanSnapshot, CleanLogs, LedgerTypeOK
<1>3. CASE \/ CleanStartedEvent(k) \/ CleanRunningEvent(k) \/ CleanLogsFailed(k)
           \/ CleanMetricsFailed(k) \/ CleanDryFinished(k) \/ CleanDestroyReturned(k)
  <2>1. PICK name : name # "instance_destroyed" /\ RecordEvent(k, name, Clock["clean"])
    BY <1>3 DEF CleanStartedEvent, CleanRunningEvent, CleanLogsFailed, CleanMetricsFailed,
                CleanDryFinished, CleanDestroyReturned
  <2> QED BY <1>1, <2>1, QuietEvent
<1>4. CASE \/ CleanStart(k) \/ CleanShow(k) \/ CleanMetrics(k) \/ CleanMetricsRequired(k)
           \/ CleanDestroys(k) \/ CleanDestroyRaises(k) \/ CleanLedgerFails(k) \/ CleanCrash(k)
  <2>1. UNCHANGED ledgerVars
    BY <1>4 DEF CleanStart, CleanShow, CleanMetrics, CleanMetricsRequired, CleanDestroys,
                CleanDestroyRaises, CleanLedgerFails, CleanCrash
  <2> QED BY <1>1, <2>1 DEF SameBooks, SameTimeline, ledgerVars
<1> QED BY <1>2, <1>3, <1>4 DEF CleanStep

\* Where a quiet step of clean_terminate leads, and what it knows there.
LEMMA CleanQuietKnows ==
  ASSUME TypeInv, SafeInv, NEW k \in Launches,
         CleanStep(k), ~CleanMark(k), ~CleanDestroyedEvent(k)
  PROVE  \E step \in CleanSteps \ {"idle", "ev_destroyed"} :
           /\ cpc' = [cpc EXCEPT ![k] = step]
           /\ cloud[k] # "none"
           /\ step \notin {"started", "done", "aborted", "blocked"} => row[k].present
           /\ step \in AfterDestroy => cloud'[k] = "gone"
<1> USE DEF CleanSteps, AfterDestroy, CGoto, CEnd
<1>1. /\ cpc[k] # "idle" => cloud[k] # "none"
      /\ cpc[k] \in AfterDestroy => cloud[k] = "gone"
      /\ CleanRuns(k) /\ cpc[k] # "started" => row[k].present
  BY DEF SafeInv, StepOrder, RentedBefore, DeletedBefore, BookedBefore
<1>2. CASE CleanStart(k)
  <2>1. cpc' = [cpc EXCEPT ![k] = "started"] /\ cloud[k] # "none"
    BY <1>2 DEF CleanStart
  <2> WITNESS "started" \in CleanSteps \ {"idle", "ev_destroyed"}
  <2> QED BY <2>1
<1>3. CASE CleanShow(k)
  <2>1. PICK step \in {"snapshot", "aborted"} : cpc' = [cpc EXCEPT ![k] = step]
    BY <1>3 DEF CleanShow
  <2>2. cpc[k] = "show"
    BY <1>3 DEF CleanShow
  <2> QED BY <1>1, <2>1, <2>2 DEF CleanRuns
<1>4. CASE \/ CleanStartedEvent(k) \/ CleanRunningEvent(k) \/ CleanLogsFailed(k)
           \/ CleanSnapshot(k) \/ CleanLogs(k)
  <2>1. cpc[k] \in {"started", "ev_running", "logs_failed", "snapshot", "logs"}
    BY <1>4 DEF CleanStartedEvent, CleanRunningEvent, CleanLogsFailed, CleanSnapshot, CleanLogs
  <2>2. row[k].present
    BY <1>1, <1>4, <2>1
       DEF CleanRuns, CleanStartedEvent, CleanRunningEvent, CleanLogsFailed, CleanSnapshot,
           CleanLogs, RecordEvent
  <2>3. PICK step \in {"show", "logs", "logs_failed", "metrics", "ev_running"} :
          cpc' = [cpc EXCEPT ![k] = step]
    BY <1>4 DEF CleanStartedEvent, CleanRunningEvent, CleanLogsFailed, CleanSnapshot, CleanLogs
  <2> QED BY <1>1, <2>1, <2>2, <2>3
<1>5. CASE CleanMetrics(k) \/ CleanMetricsRequired(k) \/ CleanMetricsFailed(k)
  <2>1. cpc[k] \in {"metrics", "metrics_failed"}
    BY <1>5 DEF CleanMetrics, CleanMetricsRequired, CleanMetricsFailed
  <2>2. PICK step \in {"dry_finished", "destroy", "metrics_failed", "aborted"} :
          cpc' = [cpc EXCEPT ![k] = step]
    BY <1>5 DEF CleanMetrics, CleanMetricsRequired, CleanMetricsFailed, CleanAfterMetrics
  <2> QED BY <1>1, <2>1, <2>2 DEF CleanRuns
<1>6. CASE CleanDryFinished(k) \/ CleanDestroyRaises(k) \/ CleanLedgerFails(k) \/ CleanCrash(k)
  <2>1. cpc[k] # "idle"
    BY <1>6 DEF CleanDryFinished, CleanDestroyRaises, CleanLedgerFails, CleanEvents,
                CleanUpdates, CleanCrash, CleanRuns
  <2>2. PICK step \in {"done", "aborted", "blocked"} : cpc' = [cpc EXCEPT ![k] = step]
    BY <1>6 DEF CleanDryFinished, CleanDestroyRaises, CleanLedgerFails, CleanCrash
  <2> QED BY <1>1, <2>1, <2>2
<1>7. CASE CleanDestroys(k)
  <2>1. cpc[k] = "destroy" /\ cpc' = [cpc EXCEPT ![k] = "destroy_returned"]
    BY <1>7 DEF CleanDestroys
  <2>2. cloud'[k] = "gone"
    BY <1>7, DestroyEnds DEF CleanDestroys, TypeInv, TypeOK
  <2> QED BY <1>1, <2>1, <2>2 DEF CleanRuns
<1>8. CASE CleanDestroyReturned(k)
  <2>1. /\ cpc[k] = "destroy_returned" /\ cpc' = [cpc EXCEPT ![k] = "mark"]
        /\ cloud' = cloud
    BY <1>8 DEF CleanDestroyReturned, cloudVars
  <2> QED BY <1>1, <2>1 DEF CleanRuns
<1> QED BY <1>2, <1>3, <1>4, <1>5, <1>6, <1>7, <1>8 DEF CleanStep

LEMMA CleanKeepsSafe ==
  ASSUME TypeInv, SafeInv, NEW k \in Launches, CleanStep(k),
         UNCHANGED <<launcherVars, monitorVars, reconcileVars>>
  PROVE  SafeInv'
<1> USE DEF SafeInv, StepOrder, TypeInv, TypeOK, CleanTypeOK,
            launcherVars, monitorVars, reconcileVars
<1>1. CASE ~CleanMark(k) /\ ~CleanDestroyedEvent(k)
  <2>1. Quiet BY <1>1, CleanQuietSteps
  <2>2. PICK step \in CleanSteps \ {"idle", "ev_destroyed"} :
          /\ cpc' = [cpc EXCEPT ![k] = step]
          /\ cloud[k] # "none"
          /\ step \notin {"started", "done", "aborted", "blocked"} => row[k].present
          /\ step \in AfterDestroy => cloud'[k] = "gone"
    BY <1>1, CleanQuietKnows
  <2>3. RentedBefore'
    BY <2>1, <2>2 DEF RentedBefore, Quiet, SameBooks, CloudMovesOn
  <2>4. DeletedBefore'
    BY <2>1, <2>2 DEF DeletedBefore, Quiet, CloudMovesOn
  <2>5. AuditIsHonest'
    BY <2>1, ProgramConstants DEF AuditIsHonest, Quiet, CloudMovesOn, CloudTypeOK
  <2>6. BookedBefore'
    BY <2>1, <2>2 DEF BookedBefore, CleanRuns, Quiet, SameBooks, ReconcileTypeOK
  <2>7. MarkedBefore'
    BY <2>1, <2>2 DEF MarkedBefore, BookedBefore, Quiet, SameBooks
  <2>8. ExitMeansMarked'
    BY <2>1, <2>2 DEF ExitMeansMarked, Quiet, SameBooks
  <2> QED BY <2>1, <2>3, <2>4, <2>5, <2>6, <2>7, <2>8, QuietKeepsBooks
<1>2. CASE CleanMark(k)
  <2>1. /\ \A j \in Launches : row'[j].present = row[j].present
        /\ \A j \in Launches \ {k} : row'[j] = row[j]
        /\ row[k].present => row'[k].terminated_at # Null
        /\ ~row[k].present => row' = row
    BY <1>2, MarkCloses DEF CleanMark
  <2>2. /\ cpc[k] = "mark" /\ cpc' = [cpc EXCEPT ![k] = "ev_destroyed"]
        /\ cloud' = cloud /\ audit' = audit
    BY <1>2 DEF CleanMark, CGoto, cloudVars
  <2>3. cloud[k] = "gone"
    BY <2>2 DEF DeletedBefore, AfterDestroy
  <2>4. TerminatedMeansGone' /\ AuditReasonNeedsAudit' /\ DestroyedEventMeansClosed'
    <3>1. Update(k, Destroyed(row[k], "clean_terminate", TRUE, Clock["clean"]))
      BY <1>2 DEF CleanMark
    <3> HIDE DEF SafeInv, StepOrder
    <3> QED BY <2>2, <2>3, <3>1, MarkKeepsBooks
  <2>5. RentedBefore'
    BY <2>1, <2>2 DEF RentedBefore
  <2>6. DeletedBefore'
    BY <2>2, <2>3 DEF DeletedBefore
  <2>7. AuditIsHonest'
    BY <2>2 DEF AuditIsHonest
  <2>8. BookedBefore'
    BY <2>1, <2>2 DEF BookedBefore, CleanRuns, ReconcileTypeOK
  <2>9. MarkedBefore'
    BY <2>1, <2>2 DEF MarkedBefore, BookedBefore
  <2>10. ExitMeansMarked'
    BY <2>1, <2>2 DEF ExitMeansMarked
  <2> QED BY <2>4, <2>5, <2>6, <2>7, <2>8, <2>9, <2>10
<1>3. CASE CleanDestroyedEvent(k)
  <2>1. row[k].present /\ row[k].terminated_at # Null
    BY <1>3 DEF CleanDestroyedEvent, RecordEvent, MarkedBefore
  <2>2. SameBooks /\ DestroyedEventMeansClosed'
    BY <1>3, <2>1, DestroyedEventRecorded DEF CleanDestroyedEvent
  <2>3. /\ cpc[k] = "ev_destroyed" /\ cpc' = [cpc EXCEPT ![k] = "done"]
        /\ cloud' = cloud /\ audit' = audit
    BY <1>3 DEF CleanDestroyedEvent, CEnd, cloudVars
  <2>4. TerminatedMeansGone' /\ AuditReasonNeedsAudit'
    BY <2>2, <2>3 DEF TerminatedMeansGone, AuditReasonNeedsAudit, SameBooks
  <2>5. RentedBefore'
    BY <2>2, <2>3 DEF RentedBefore, SameBooks
  <2>6. DeletedBefore'
    BY <2>3 DEF DeletedBefore, AfterDestroy
  <2>7. AuditIsHonest'
    BY <2>3 DEF AuditIsHonest
  <2>8. BookedBefore'
    BY <2>2, <2>3 DEF BookedBefore, CleanRuns, SameBooks, ReconcileTypeOK
  <2>9. MarkedBefore'
    BY <2>2, <2>3 DEF MarkedBefore, BookedBefore, SameBooks
  <2>10. ExitMeansMarked'
    BY <2>2, <2>3 DEF ExitMeansMarked, SameBooks
  <2> QED BY <2>2, <2>4, <2>5, <2>6, <2>7, <2>8, <2>9, <2>10
<1> QED BY <1>1, <1>2, <1>3

-----------------------------------------------------------------------------
(* reconcile.                                                              *)

LEMMA ReconcileQuietSteps ==
  ASSUME TypeInv, ReconcileStep, ~ReconcileMark, ~ReconcileDestroyedEvent
  PROVE  Quiet
<1> USE DEF TypeInv, TypeOK, Quiet
<1>1. UNCHANGED cloudVars
  BY DEF ReconcileStep, ReconcileStart, ReconcileList, ReconcileHistory, ReconcileNext,
         ReconcileEnd, ReconcileNotSeen, ReconcileSnapshot, ReconcileRunningEvent,
         ReconcileSeen, ReconcileFails
<1>2. CloudMovesOn
  BY <1>1 DEF CloudMovesOn, cloudVars
<1>3. CASE ReconcileSnapshot
  <2>1. rcur \in Launches
    BY <1>3 DEF ReconcileSnapshot, CurrentRow
  <2>2. PICK new : Update(rcur, new) /\ SameBook(new, row[rcur])
    BY <1>3, <2>1, QuietTransformers, ClockIsATime DEF ReconcileSnapshot, LedgerTypeOK
  <2> QED BY <1>2, <2>1, <2>2, QuietUpdate
<1>4. CASE ReconcileNotSeen \/ ReconcileRunningEvent \/ ReconcileSeen
  <2>1. rcur \in Launches
    BY <1>4 DEF ReconcileNotSeen, ReconcileRunningEvent, ReconcileSeen, CurrentRow
  <2>2. PICK name : name # "instance_destroyed" /\ RecordEvent(rcur, name, Clock["reconcile"])
    BY <1>4 DEF ReconcileNotSeen, ReconcileRunningEvent, ReconcileSeen
  <2> QED BY <1>2, <2>1, <2>2, QuietEvent
<1>5. CASE \/ ReconcileStart \/ ReconcileList \/ ReconcileHistory \/ ReconcileNext
           \/ ReconcileEnd \/ ReconcileFails
  <2>1. UNCHANGED ledgerVars
    BY <1>5 DEF ReconcileStart, ReconcileList, ReconcileHistory, ReconcileNext, ReconcileEnd,
                ReconcileFails
  <2> QED BY <1>2, <2>1 DEF SameBooks, SameTimeline, ledgerVars
<1> QED BY <1>3, <1>4, <1>5 DEF ReconcileStep

\* What reconcile knows after a step that neither marks a row nor records the
\* destroyed event.
LEMMA ReconcileQuietKnows ==
  ASSUME TypeInv, SafeInv, ReconcileStep, ~ReconcileMark, ~ReconcileDestroyedEvent
  PROVE  /\ raudit' \subseteq audit
         /\ \A k \in rtodo' : row[k].present
         /\ rpc' # "ev_destroyed"
         /\ rpc' = "mark" => rcur' \in raudit'
         /\ rpc' \notin {"idle", "listing", "history", "next"} =>
              rcur' \in Launches /\ row[rcur'].present
<1>1. /\ raudit \subseteq audit
      /\ \A k \in rtodo : row[k].present
      /\ rpc \notin {"idle", "listing", "history", "next"} => rcur \in Launches /\ row[rcur].present
  BY DEF SafeInv, StepOrder, AuditIsHonest, BookedBefore
<1>2. CASE ReconcileStart
  BY <1>1, <1>2 DEF ReconcileStart, ActiveRows
<1>3. CASE ReconcileList
  BY <1>1, <1>3 DEF ReconcileList
<1>4. CASE ReconcileHistory
  BY <1>1, <1>4 DEF ReconcileHistory, AuditAnswers
<1>5. CASE ReconcileNext
  BY <1>1, <1>5 DEF ReconcileNext, TypeInv, TypeOK, ReconcileTypeOK
<1>6. CASE ReconcileEnd \/ ReconcileFails
  BY <1>6 DEF ReconcileEnd, ReconcileFails, Fresh
<1>7. CASE ReconcileNotSeen
  BY <1>1, <1>7 DEF ReconcileNotSeen, RGoto
<1>8. CASE ReconcileSnapshot \/ ReconcileRunningEvent \/ ReconcileSeen
  BY <1>1, <1>8 DEF ReconcileSnapshot, ReconcileRunningEvent, ReconcileSeen, RGoto
<1> QED BY <1>2, <1>3, <1>4, <1>5, <1>6, <1>7, <1>8 DEF ReconcileStep

LEMMA ReconcileKeepsSafe ==
  ASSUME TypeInv, SafeInv, ReconcileStep, UNCHANGED <<launcherVars, monitorVars, cleanVars>>
  PROVE  SafeInv'
<1> USE DEF SafeInv, StepOrder, TypeInv, TypeOK, ReconcileTypeOK,
            launcherVars, monitorVars, cleanVars
<1>1. CASE ~ReconcileMark /\ ~ReconcileDestroyedEvent
  <2>1. Quiet BY <1>1, ReconcileQuietSteps
  <2>2. /\ raudit' \subseteq audit
        /\ \A k \in rtodo' : row[k].present
        /\ rpc' # "ev_destroyed"
        /\ rpc' = "mark" => rcur' \in raudit'
        /\ rpc' \notin {"idle", "listing", "history", "next"} =>
             rcur' \in Launches /\ row[rcur'].present
    BY <1>1, ReconcileQuietKnows
  <2>3. rtodo' \subseteq Launches
    BY ReconcileKeepsType
  <2>4. RentedBefore'
    BY <2>1 DEF RentedBefore, Quiet, SameBooks, CloudMovesOn
  <2>5. DeletedBefore'
    BY <2>1 DEF DeletedBefore, Quiet, CloudMovesOn
  <2>6. AuditIsHonest'
    BY <2>1, <2>2, ProgramConstants DEF AuditIsHonest, Quiet, CloudMovesOn, CloudTypeOK
  <2>7. BookedBefore'
    BY <2>1, <2>2, <2>3 DEF BookedBefore, CleanRuns, Quiet, SameBooks
  <2>8. MarkedBefore'
    BY <2>1, <2>2 DEF MarkedBefore, Quiet, SameBooks
  <2>9. ExitMeansMarked'
    BY <2>1 DEF ExitMeansMarked, Quiet, SameBooks
  <2> QED BY <2>1, <2>4, <2>5, <2>6, <2>7, <2>8, <2>9, QuietKeepsBooks
<1>2. CASE ReconcileMark
  <2>1. /\ rpc = "mark" /\ rpc' = "ev_destroyed" /\ rcur' = rcur
        /\ rtodo' = rtodo /\ raudit' = raudit /\ cloud' = cloud /\ audit' = audit
    BY <1>2 DEF ReconcileMark, RGoto, cloudVars
  <2>2. rcur \in Launches /\ row[rcur].present
    BY <2>1 DEF BookedBefore
  <2>3. rcur \in audit /\ cloud[rcur] = "gone"
    BY <2>1 DEF AuditIsHonest
  <2>4. /\ \A j \in Launches : row'[j].present = row[j].present
        /\ \A j \in Launches \ {rcur} : row'[j] = row[j]
        /\ row'[rcur].terminated_at # Null
    BY <1>2, <2>2, MarkCloses DEF ReconcileMark
  <2>5. TerminatedMeansGone' /\ AuditReasonNeedsAudit' /\ DestroyedEventMeansClosed'
    <3>1. Update(rcur, Destroyed(row[rcur], "vast_audit_instance_delete", FALSE, Clock["audit"]))
      BY <1>2 DEF ReconcileMark
    <3> HIDE DEF SafeInv, StepOrder
    <3> QED BY <2>1, <2>2, <2>3, <3>1, MarkKeepsBooks
  <2>6. RentedBefore'
    BY <2>1, <2>4 DEF RentedBefore
  <2>7. DeletedBefore'
    BY <2>1 DEF DeletedBefore
  <2>8. AuditIsHonest'
    BY <2>1 DEF AuditIsHonest
  <2>9. BookedBefore'
    BY <2>1, <2>2, <2>4 DEF BookedBefore, CleanRuns
  <2>10. MarkedBefore'
    BY <2>1, <2>2, <2>4 DEF MarkedBefore
  <2>11. ExitMeansMarked'
    BY <2>1, <2>4 DEF ExitMeansMarked
  <2> QED BY <2>5, <2>6, <2>7, <2>8, <2>9, <2>10, <2>11
<1>3. CASE ReconcileDestroyedEvent
  <2>1. /\ rpc = "ev_destroyed" /\ rpc' = "next"
        /\ rtodo' = rtodo /\ raudit' = raudit /\ cloud' = cloud /\ audit' = audit
    BY <1>3 DEF ReconcileDestroyedEvent, RGoto, cloudVars
  <2>2. rcur \in Launches /\ row[rcur].terminated_at # Null
    BY <2>1 DEF BookedBefore, MarkedBefore
  <2>3. SameBooks /\ DestroyedEventMeansClosed'
    BY <1>3, <2>2, DestroyedEventRecorded DEF ReconcileDestroyedEvent
  <2>4. TerminatedMeansGone' /\ AuditReasonNeedsAudit'
    BY <2>1, <2>3 DEF TerminatedMeansGone, AuditReasonNeedsAudit, SameBooks
  <2>5. RentedBefore'
    BY <2>1, <2>3 DEF RentedBefore, SameBooks
  <2>6. DeletedBefore'
    BY <2>1 DEF DeletedBefore
  <2>7. AuditIsHonest'
    BY <2>1 DEF AuditIsHonest
  <2>8. BookedBefore'
    BY <2>1, <2>3 DEF BookedBefore, CleanRuns, SameBooks
  <2>9. MarkedBefore'
    BY <2>1, <2>3 DEF MarkedBefore, SameBooks
  <2>10. ExitMeansMarked'
    BY <2>1, <2>3 DEF ExitMeansMarked, SameBooks
  <2> QED BY <2>3, <2>4, <2>5, <2>6, <2>7, <2>8, <2>9, <2>10
<1> QED BY <1>1, <1>2, <1>3

-----------------------------------------------------------------------------
(* The launcher.                                                           *)

LEMMA LauncherQuietSteps ==
  ASSUME TypeInv, NEW k \in Launches, LauncherStep(k),
         ~LauncherInsert(k), ~LauncherMark(k), ~LauncherDestroyedEvent(k)
  PROVE  Quiet
<1> USE DEF TypeInv, TypeOK, Quiet
<1>1. CloudMovesOn
  BY CloudCallsMoveOn
     DEF LauncherStep, LauncherCreates, LauncherLosesContract, LauncherRequestedEvent,
         LauncherReturnedEvent, LauncherLedgerFails, LauncherPollReturns, LauncherPollRaises,
         LauncherSnapshot, LauncherRunningEvent, LauncherSpawnsMonitor, LauncherSkipsMonitor,
         LauncherMonitorReturned, LauncherRecordExit, LauncherAfterMonitor, LauncherSkipsSmoke,
         LauncherSmoke, LauncherRecordSmoke, LauncherSmokeEvent
<1>2. CASE LauncherSnapshot(k) \/ LauncherRecordExit(k) \/ LauncherRecordSmoke(k)
  <2>1. PICK new : Update(k, new) /\ SameBook(new, row[k])
    BY <1>2, QuietTransformers, ClockIsATime
       DEF LauncherSnapshot, LauncherRecordExit, LauncherRecordSmoke, LedgerTypeOK
  <2> QED BY <1>1, <2>1, QuietUpdate
<1>3. CASE \/ LauncherRequestedEvent(k) \/ LauncherReturnedEvent(k) \/ LauncherRunningEvent(k)
  <2>1. PICK name : name # "instance_destroyed" /\ RecordEvent(k, name, Clock["launcher"])
    BY <1>3 DEF LauncherRequestedEvent, LauncherReturnedEvent, LauncherRunningEvent
  <2> QED BY <1>1, <2>1, QuietEvent
<1>4. CASE LauncherSmokeEvent(k)
  <2>1. RecordEvent(k, linfo[k], Clock["launcher"]) /\ linfo[k] # "instance_destroyed"
    BY <1>4, CloudConstants DEF LauncherSmokeEvent, LauncherTypeOK
  <2> QED BY <1>1, <2>1, QuietEvent
<1>5. CASE UNCHANGED ledgerVars
  BY <1>1, <1>5 DEF SameBooks, SameTimeline, ledgerVars
<1> QED
  BY <1>2, <1>3, <1>4, <1>5
     DEF LauncherStep, LauncherCreates, LauncherLosesContract, LauncherLedgerFails,
         LauncherPollReturns, LauncherPollRaises, LauncherSpawnsMonitor, LauncherSkipsMonitor,
         LauncherMonitorReturned, LauncherAfterMonitor, LauncherSkipsSmoke, LauncherSmoke

\* Where a quiet step leads the launcher while it goes on.
LauncherGoesOn(k, step) ==
  /\ lpc' = [lpc EXCEPT ![k] = step] /\ lout' = lout
  /\ step = "insert" => lpc[k] = "idle"
  /\ step = "mark" => mexit[k] = "4"
  /\ step = "after_monitor" =>
       mexit[k] # "4" \/ "launcher" \in LedgerFaults \/ ~row[k].present
  /\ \/ mpc' = mpc
     \/ step = "await_monitor" /\ mpc' = [mpc EXCEPT ![k] = "poll"]

LauncherEnds(k, how) ==
  /\ lpc' = [lpc EXCEPT ![k] = "ended"] /\ lout' = [lout EXCEPT ![k] = how]
  /\ how = "destroyed" => lpc[k] = "after_monitor" /\ mexit[k] = "4"
  /\ mpc' = mpc

LEMMA LauncherQuietKnows ==
  ASSUME TypeInv, SafeInv, NEW k \in Launches, LauncherStep(k),
         ~LauncherInsert(k), ~LauncherMark(k), ~LauncherDestroyedEvent(k)
  PROVE  /\ lpc[k] # "ended" /\ mexit' = mexit
         /\ lpc[k] = "await_monitor" => mpc[k] = "exited"
         /\ cloud'[k] # "none"
         /\ \/ \E step \in LauncherSteps \ {"idle", "ev_destroyed", "ended"} : LauncherGoesOn(k, step)
            \/ \E how \in {"ok", "destroyed", "failed", "crashed"} : LauncherEnds(k, how)
<1> USE DEF LGoto, LEnd, LauncherSteps
<1>1. CASE LauncherCreates(k) \/ LauncherLosesContract(k)
  <2>1. lpc[k] = "idle" /\ mexit' = mexit /\ mpc' = mpc
    BY <1>1 DEF LauncherCreates, LauncherLosesContract
  <2>2. cloud'[k] = "live"
    BY <1>1, ProgramConstants DEF LauncherCreates, LauncherLosesContract, Rent, TypeInv, TypeOK, CloudTypeOK
  <2>3. LauncherGoesOn(k, "insert") \/ LauncherEnds(k, "crashed")
    BY <1>1, <2>1 DEF LauncherCreates, LauncherLosesContract, LauncherGoesOn, LauncherEnds
  <2> QED BY <2>1, <2>2, <2>3
<1>2. CASE ~LauncherCreates(k) /\ ~LauncherLosesContract(k)
  <2>1. /\ lpc[k] \notin {"idle", "ended"} /\ mexit' = mexit
        /\ lpc[k] = "await_monitor" => mpc[k] = "exited"
    BY <1>2
       DEF LauncherStep, LauncherRequestedEvent,
           LauncherReturnedEvent, LauncherLedgerFails, LauncherPollReturns, LauncherPollRaises,
           LauncherSnapshot, LauncherRunningEvent, LauncherSpawnsMonitor, LauncherSkipsMonitor,
           LauncherMonitorReturned, LauncherRecordExit, LauncherAfterMonitor, LauncherSkipsSmoke,
           LauncherSmoke, LauncherRecordSmoke, LauncherSmokeEvent, LauncherEvents, LauncherUpdates
  <2>2. cloud'[k] # "none"
    BY <2>1, LauncherQuietSteps DEF SafeInv, StepOrder, RentedBefore, Quiet, CloudMovesOn
  <2>3. CASE \/ LauncherRequestedEvent(k) \/ LauncherReturnedEvent(k) \/ LauncherPollReturns(k)
             \/ LauncherSnapshot(k) \/ LauncherRunningEvent(k) \/ LauncherRecordSmoke(k)
             \/ LauncherSkipsMonitor(k) \/ LauncherMonitorReturned(k)
    <3>1. PICK step \in {"ev_returned", "poll", "snapshot", "ev_running", "spawn", "smoke",
                         "record_exit", "ev_smoke"} : lpc' = [lpc EXCEPT ![k] = step]
      BY <2>3 DEF LauncherRequestedEvent, LauncherReturnedEvent, LauncherPollReturns,
                  LauncherSnapshot, LauncherRunningEvent, LauncherSkipsMonitor,
                  LauncherMonitorReturned, LauncherRecordSmoke
    <3>2. lout' = lout /\ mpc' = mpc
      BY <2>3 DEF LauncherRequestedEvent, LauncherReturnedEvent, LauncherPollReturns,
                  LauncherSnapshot, LauncherRunningEvent, LauncherSkipsMonitor,
                  LauncherMonitorReturned, LauncherRecordSmoke
    <3>3. LauncherGoesOn(k, step)
      BY <3>1, <3>2 DEF LauncherGoesOn
    <3> QED BY <2>1, <2>2, <3>3
  <2>4. CASE LauncherSpawnsMonitor(k)
    <3>1. LauncherGoesOn(k, "await_monitor")
      BY <2>4 DEF LauncherSpawnsMonitor, LauncherGoesOn
    <3> QED BY <2>1, <2>2, <3>1
  <2>5. CASE LauncherRecordExit(k)
    <3>1. LauncherGoesOn(k, IF mexit[k] = "4" THEN "mark" ELSE "after_monitor")
      BY <2>5 DEF LauncherRecordExit, LauncherGoesOn
    <3> QED BY <2>1, <2>2, <3>1
  <2>6. CASE LauncherAfterMonitor(k)
    <3>1. \/ LauncherEnds(k, "destroyed") \/ LauncherEnds(k, "failed")
          \/ LauncherGoesOn(k, "smoke")
      BY <2>6 DEF LauncherAfterMonitor, LauncherEnds, LauncherGoesOn
    <3> QED BY <2>1, <2>2, <3>1
  <2>7. CASE LauncherSmoke(k)
    <3>1. LauncherEnds(k, "crashed") \/ LauncherGoesOn(k, "record_smoke")
      BY <2>7 DEF LauncherSmoke, LauncherEnds, LauncherGoesOn
    <3> QED BY <2>1, <2>2, <3>1
  <2>8. CASE LauncherPollRaises(k) \/ LauncherSkipsSmoke(k) \/ LauncherSmokeEvent(k)
    <3>1. PICK how \in {"ok", "failed", "crashed"} : LEnd(k, how)
      BY <2>8 DEF LauncherPollRaises, LauncherSkipsSmoke, LauncherSmokeEvent
    <3>2. mpc' = mpc
      BY <2>8 DEF LauncherPollRaises, LauncherSkipsSmoke, LauncherSmokeEvent
    <3>3. LauncherEnds(k, how)
      BY <3>1, <3>2 DEF LauncherEnds
    <3> QED BY <2>1, <2>2, <3>3
  <2>9. CASE LauncherLedgerFails(k)
    <3>1. AfterTry(lpc[k]) \in {"poll", "spawn", "after_monitor", "ended"} /\ mpc' = mpc
      BY <2>9 DEF LauncherLedgerFails, AfterTry, LauncherEvents, LauncherUpdates
    <3>2. "launcher" \in LedgerFaults \/ ~row[k].present
      BY <2>9 DEF LauncherLedgerFails
    <3>3. CASE AfterTry(lpc[k]) = "ended"
      <4>1. LauncherEnds(k, IF linfo[k] = "smoke_passed" THEN "ok" ELSE "failed")
        BY <2>9, <3>1, <3>3 DEF LauncherLedgerFails, LauncherEnds
      <4> QED BY <2>1, <2>2, <4>1
    <3>4. CASE AfterTry(lpc[k]) # "ended"
      <4>1. LauncherGoesOn(k, AfterTry(lpc[k]))
        BY <2>9, <3>1, <3>2, <3>4 DEF LauncherLedgerFails, LauncherGoesOn
      <4> QED BY <2>1, <2>2, <3>1, <3>4, <4>1
    <3> QED BY <3>3, <3>4
  <2> QED BY <1>2, <2>3, <2>4, <2>5, <2>6, <2>7, <2>8, <2>9 DEF LauncherStep
<1> QED BY <1>1, <1>2

LEMMA LauncherQuietKeepsSafe ==
  ASSUME TypeInv, SafeInv, NEW k \in Launches, LauncherStep(k),
         ~LauncherInsert(k), ~LauncherMark(k), ~LauncherDestroyedEvent(k),
         UNCHANGED <<cleanVars, reconcileVars>>
  PROVE  SafeInv'
<1> USE DEF SafeInv, StepOrder, TypeInv, TypeOK, LauncherTypeOK, MonitorTypeOK, LauncherSteps,
            cleanVars, reconcileVars
<1>1. Quiet BY LauncherQuietSteps
<1>2. /\ lpc[k] # "ended" /\ mexit' = mexit
      /\ lpc[k] = "await_monitor" => mpc[k] = "exited"
      /\ cloud'[k] # "none"
      /\ \/ \E step \in LauncherSteps \ {"idle", "ev_destroyed", "ended"} : LauncherGoesOn(k, step)
         \/ \E how \in {"ok", "destroyed", "failed", "crashed"} : LauncherEnds(k, how)
  BY LauncherQuietKnows
<1>3. lout[k] = Null
  BY <1>2 DEF BookedBefore
<1>4. AuditIsHonest'
  BY <1>1, ProgramConstants DEF AuditIsHonest, Quiet, CloudMovesOn, CloudTypeOK
<1>5. ASSUME NEW step \in LauncherSteps \ {"idle", "ev_destroyed", "ended"}, LauncherGoesOn(k, step)
      PROVE  SafeInv'
  <2> USE DEF LauncherGoesOn
  <2>1. RentedBefore'
    BY <1>1, <1>2, <1>5 DEF RentedBefore, Quiet, SameBooks, CloudMovesOn
  <2>2. DeletedBefore'
    BY <1>1, <1>2, <1>5 DEF DeletedBefore, Quiet, CloudMovesOn
  <2>3. BookedBefore'
    BY <1>1, <1>2, <1>3, <1>5 DEF BookedBefore, CleanRuns, Quiet, SameBooks, ReconcileTypeOK
  <2>4. MarkedBefore'
    BY <1>1, <1>2, <1>5 DEF MarkedBefore, BookedBefore, Quiet, SameBooks
  <2>5. ExitMeansMarked'
    BY <1>1, <1>2, <1>5 DEF ExitMeansMarked, Quiet, SameBooks
  <2> QED BY <1>1, <1>4, <2>1, <2>2, <2>3, <2>4, <2>5, QuietKeepsBooks
<1>6. ASSUME NEW how \in {"ok", "destroyed", "failed", "crashed"}, LauncherEnds(k, how)
      PROVE  SafeInv'
  <2> USE DEF LauncherEnds
  <2>1. RentedBefore'
    BY <1>1, <1>2, <1>6 DEF RentedBefore, Quiet, SameBooks, CloudMovesOn
  <2>2. DeletedBefore'
    BY <1>1, <1>2, <1>6 DEF DeletedBefore, Quiet, CloudMovesOn
  <2>3. BookedBefore'
    BY <1>1, <1>2, <1>3, <1>6 DEF BookedBefore, CleanRuns, Quiet, SameBooks, ReconcileTypeOK
  <2>4. MarkedBefore'
    BY <1>1, <1>2, <1>6 DEF MarkedBefore, BookedBefore, Quiet, SameBooks
  <2>5. ExitMeansMarked'
    BY <1>1, <1>2, <1>6 DEF ExitMeansMarked, Quiet, SameBooks
  <2> QED BY <1>1, <1>4, <2>1, <2>2, <2>3, <2>4, <2>5, QuietKeepsBooks
<1> QED BY <1>2, <1>5, <1>6

LEMMA LauncherKeepsSafe ==
  ASSUME TypeInv, SafeInv, NEW k \in Launches, LauncherStep(k),
         UNCHANGED <<cleanVars, reconcileVars>>
  PROVE  SafeInv'
<1>1. CASE ~LauncherInsert(k) /\ ~LauncherMark(k) /\ ~LauncherDestroyedEvent(k)
  BY <1>1, LauncherQuietKeepsSafe
<1> USE DEF SafeInv, StepOrder, TypeInv, TypeOK, LauncherTypeOK, MonitorTypeOK,
            cleanVars, reconcileVars
<1>2. CASE LauncherInsert(k)
  <2>1. /\ lpc[k] = "insert" /\ lpc' = [lpc EXCEPT ![k] = "ev_requested"]
        /\ lout' = lout /\ mpc' = mpc /\ mexit' = mexit
        /\ event' = event /\ cloud' = cloud /\ audit' = audit
    BY <1>2 DEF LauncherInsert, LGoto, InsertRow, cloudVars
  <2>2. /\ \A j \in Launches \ {k} : row'[j] = row[j]
        /\ row'[k].terminated_at = row[k].terminated_at /\ row'[k].reason = row[k].reason
        /\ row'[k].present
    <3>1. row[k] \in RowType BY DEF LedgerTypeOK
    <3> QED BY <1>2, <3>1 DEF LauncherInsert, InsertRow, Created, LedgerTypeOK, RowType
  <2>3. cloud[k] # "none" /\ mpc[k] = "idle" /\ mexit[k] = Null /\ lout[k] = Null
    BY <2>1 DEF RentedBefore, BookedBefore
  <2>4. cpc[k] # "ev_destroyed" \/ row[k].present
    BY DEF BookedBefore, CleanRuns
  <2>5. TerminatedMeansGone' /\ AuditReasonNeedsAudit' /\ DestroyedEventMeansClosed'
    BY <2>1, <2>2 DEF TerminatedMeansGone, AuditReasonNeedsAudit, DestroyedEventMeansClosed
  <2>6. RentedBefore'
    BY <2>1, <2>2, <2>3 DEF RentedBefore
  <2>7. DeletedBefore'
    BY <2>1 DEF DeletedBefore
  <2>8. AuditIsHonest'
    BY <2>1 DEF AuditIsHonest
  <2>9. BookedBefore'
    BY <2>1, <2>2, <2>3 DEF BookedBefore, CleanRuns, ReconcileTypeOK
  <2>10. MarkedBefore'
    BY <2>1, <2>2, <2>3, <2>4 DEF MarkedBefore, BookedBefore
  <2>11. ExitMeansMarked'
    BY <2>1, <2>2, <2>3, NullIsNoOutcome DEF ExitMeansMarked
  <2> QED BY <2>5, <2>6, <2>7, <2>8, <2>9, <2>10, <2>11
<1>3. CASE LauncherMark(k)
  <2>1. /\ \A j \in Launches : row'[j].present = row[j].present
        /\ \A j \in Launches \ {k} : row'[j] = row[j]
        /\ row[k].present => row'[k].terminated_at # Null
        /\ ~row[k].present => row' = row
    BY <1>3, MarkCloses DEF LauncherMark
  <2>2. /\ lpc[k] = "mark" /\ lpc' = [lpc EXCEPT ![k] = "ev_destroyed"]
        /\ lout' = lout /\ mpc' = mpc /\ mexit' = mexit
        /\ cloud' = cloud /\ audit' = audit
    BY <1>3 DEF LauncherMark, LGoto, cloudVars
  <2>3. cloud[k] = "gone"
    BY <2>2 DEF DeletedBefore
  <2>4. TerminatedMeansGone' /\ AuditReasonNeedsAudit' /\ DestroyedEventMeansClosed'
    <3>1. Update(k, Destroyed(row[k], "monitor_destroyed_failed_launch", TRUE, Clock["launcher"]))
      BY <1>3 DEF LauncherMark
    <3> HIDE DEF SafeInv, StepOrder
    <3> QED BY <2>2, <2>3, <3>1, MarkKeepsBooks
  <2>5. RentedBefore'
    BY <2>1, <2>2 DEF RentedBefore
  <2>6. DeletedBefore'
    BY <2>2, <2>3 DEF DeletedBefore
  <2>7. AuditIsHonest'
    BY <2>2 DEF AuditIsHonest
  <2>8. BookedBefore'
    BY <2>1, <2>2 DEF BookedBefore, CleanRuns, ReconcileTypeOK
  <2>9. MarkedBefore'
    BY <2>1, <2>2 DEF MarkedBefore, BookedBefore
  <2>10. ExitMeansMarked'
    BY <2>1, <2>2 DEF ExitMeansMarked
  <2> QED BY <2>4, <2>5, <2>6, <2>7, <2>8, <2>9, <2>10
<1>4. CASE LauncherDestroyedEvent(k)
  <2>1. row[k].present /\ row[k].terminated_at # Null
    BY <1>4 DEF LauncherDestroyedEvent, RecordEvent, MarkedBefore
  <2>2. SameBooks /\ DestroyedEventMeansClosed'
    BY <1>4, <2>1, DestroyedEventRecorded DEF LauncherDestroyedEvent
  <2>3. /\ lpc[k] = "ev_destroyed" /\ lpc' = [lpc EXCEPT ![k] = "after_monitor"]
        /\ lout' = lout /\ mpc' = mpc /\ mexit' = mexit
        /\ cloud' = cloud /\ audit' = audit
    BY <1>4 DEF LauncherDestroyedEvent, LGoto, cloudVars
  <2>4. TerminatedMeansGone' /\ AuditReasonNeedsAudit'
    BY <2>2, <2>3 DEF TerminatedMeansGone, AuditReasonNeedsAudit, SameBooks
  <2>5. RentedBefore'
    BY <2>2, <2>3 DEF RentedBefore, SameBooks
  <2>6. DeletedBefore'
    BY <2>3 DEF DeletedBefore
  <2>7. AuditIsHonest'
    BY <2>3 DEF AuditIsHonest
  <2>8. BookedBefore'
    BY <2>2, <2>3 DEF BookedBefore, CleanRuns, SameBooks, ReconcileTypeOK
  <2>9. MarkedBefore'
    BY <2>2, <2>3 DEF MarkedBefore, BookedBefore, SameBooks
  <2>10. ExitMeansMarked'
    BY <2>1, <2>2, <2>3 DEF ExitMeansMarked, SameBooks
  <2> QED BY <2>2, <2>4, <2>5, <2>6, <2>7, <2>8, <2>9, <2>10
<1> QED BY <1>1, <1>2, <1>3, <1>4

-----------------------------------------------------------------------------
(* The whole system.                                                       *)

LEMMA CloudKeepsSafe ==
  ASSUME TypeInv, SafeInv, CloudActs
  PROVE  SafeInv'
<1> USE DEF SafeInv, StepOrder, TypeInv, TypeOK, CloudActs,
            ledgerVars, launcherVars, monitorVars, cleanVars, reconcileVars
<1>1. Quiet
  BY CloudCallsMoveOn, ProgramConstants DEF CloudNext, Quiet, SameBooks, SameTimeline
<1>2. RentedBefore'
  BY <1>1 DEF RentedBefore, Quiet, SameBooks, CloudMovesOn
<1>3. DeletedBefore'
  BY <1>1 DEF DeletedBefore, Quiet, CloudMovesOn
<1>4. AuditIsHonest'
  BY <1>1, ProgramConstants DEF AuditIsHonest, Quiet, CloudMovesOn, CloudTypeOK
<1>5. BookedBefore' /\ MarkedBefore' /\ ExitMeansMarked'
  BY DEF BookedBefore, MarkedBefore, ExitMeansMarked, CleanRuns
<1> QED BY <1>1, <1>2, <1>3, <1>4, <1>5, QuietKeepsBooks

LEMMA SafeInvInit == Init => SafeInv
<1> SUFFICES ASSUME Init PROVE SafeInv
  OBVIOUS
<1>1. /\ \A k \in Launches : row[k] = NoRow /\ cloud[k] = "none"
      /\ \A k \in Launches : \A n \in TrackedEvents : event[k][n] = Null
      /\ \A k \in Launches : /\ mpc[k] = "idle" /\ cpc[k] = "idle" /\ lpc[k] = "idle"
                            /\ mexit[k] = Null /\ lout[k] = Null
      /\ audit = {} /\ raudit = {} /\ rtodo = {} /\ rpc = "idle"
  BY ProgramConstants
     DEF Init, CloudInit, LedgerInit, MonitorInit, CleanInit, ReconcileInit, LauncherInit
<1>2. TerminatedMeansGone /\ DestroyedEventMeansClosed
  BY <1>1 DEF TerminatedMeansGone, DestroyedEventMeansClosed, NoRow
<1>3. AuditReasonNeedsAudit
  BY <1>1, LedgerConstants, ProgramConstants DEF AuditReasonNeedsAudit, NoRow
<1>4. RentedBefore /\ DeletedBefore /\ AuditIsHonest
  BY <1>1, NullIsNoOutcome DEF RentedBefore, DeletedBefore, AuditIsHonest, AfterDestroy, NoRow
<1>5. BookedBefore /\ MarkedBefore /\ ExitMeansMarked
  BY <1>1, NullIsNoOutcome DEF BookedBefore, MarkedBefore, ExitMeansMarked, CleanRuns, NoRow
<1> QED BY <1>2, <1>3, <1>4, <1>5 DEF SafeInv, StepOrder

LEMMA SafeInvStep == TypeInv /\ SafeInv /\ [Next]_vars => SafeInv'
<1> SUFFICES ASSUME TypeInv, SafeInv, [Next]_vars PROVE SafeInv'
  OBVIOUS
<1>1. CASE \E k \in Launches : LauncherActs(k)
  BY <1>1, LauncherKeepsSafe DEF LauncherActs
<1>2. CASE \E k \in Launches : MonitorActs(k)
  BY <1>2, MonitorKeepsSafe DEF MonitorActs
<1>3. CASE \E k \in Launches : CleanActs(k)
  BY <1>3, CleanKeepsSafe DEF CleanActs
<1>4. CASE ReconcileActs
  BY <1>4, ReconcileKeepsSafe DEF ReconcileActs
<1>5. CASE CloudActs
  BY <1>5, CloudKeepsSafe
<1>6. CASE UNCHANGED vars
  <2> USE <1>6 DEF vars, cloudVars, ledgerVars, monitorVars, cleanVars, reconcileVars, launcherVars
  <2>1. (TerminatedMeansGone /\ AuditReasonNeedsAudit /\ DestroyedEventMeansClosed)'
    BY DEF SafeInv, TerminatedMeansGone, AuditReasonNeedsAudit, DestroyedEventMeansClosed
  <2>2. (RentedBefore /\ DeletedBefore /\ AuditIsHonest)'
    BY DEF SafeInv, StepOrder, RentedBefore, DeletedBefore, AuditIsHonest
  <2>3. (BookedBefore /\ MarkedBefore /\ ExitMeansMarked)'
    BY DEF SafeInv, StepOrder, BookedBefore, MarkedBefore, ExitMeansMarked, CleanRuns
  <2> QED BY <2>1, <2>2, <2>3 DEF SafeInv, StepOrder
<1> QED BY <1>1, <1>2, <1>3, <1>4, <1>5, <1>6 DEF Next

\* What every program may rely on at each of its steps holds in every behaviour
\* of the four of them.
THEOREM SafetyInvariant == Spec => []SafeInv
BY TypeInvariant, SafeInvInit, SafeInvStep, PTL DEF Spec

\* What a program has done by each of its steps is what its exit code, and the
\* program that reads it, take for granted.
THEOREM StepsKeepTheirOrder == Spec => []StepOrder
<1>1. SafeInv => StepOrder BY DEF SafeInv
<1> QED BY SafetyInvariant, <1>1, PTL

\* The ledger never closes the books on an instance that is still billed,
\* whichever program wrote, was interrupted, or acted on stale data.
THEOREM BooksCloseAfterTheEnd == Spec => []TerminatedMeansGone
<1>1. SafeInv => TerminatedMeansGone BY DEF SafeInv
<1> QED BY SafetyInvariant, <1>1, PTL

\* reconcile never takes absence from a listing for the end of an instance.
THEOREM AbsenceIsNoEvidence == Spec => []AuditReasonNeedsAudit
<1>1. SafeInv => AuditReasonNeedsAudit BY DEF SafeInv
<1> QED BY SafetyInvariant, <1>1, PTL

\* The event timeline never shows a destroyed launch whose row is open.
THEOREM EventsFollowRows == Spec => []DestroyedEventMeansClosed
<1>1. SafeInv => DestroyedEventMeansClosed BY DEF SafeInv
<1> QED BY SafetyInvariant, <1>1, PTL

\* Exit code 4 of the monitor and the launcher's conclusion from it are true.
THEOREM ExitCodesAreHonest == Spec => []DestroyedLaunchIsGone
<1>1. SafeInv => DestroyedLaunchIsGone
  BY DEF SafeInv, StepOrder, DeletedBefore, DestroyedLaunchIsGone
<1> QED BY SafetyInvariant, <1>1, PTL

\* The monitor's mark and the launcher's repetition of it back each other up.
THEOREM TwoMarksBackEachOther == Spec => []DestroyedLaunchIsClosed
<1>1. SafeInv => DestroyedLaunchIsClosed
  BY DEF SafeInv, StepOrder, ExitMeansMarked, DestroyedLaunchIsClosed
<1> QED BY SafetyInvariant, <1>1, PTL
=============================================================================
