-------------------------- MODULE RentalRefinement --------------------------
(***************************************************************************)
(* The four programs together implement RentalContract, for every set of   *)
(* launches and every fault assumption.                                    *)
(***************************************************************************)
EXTENDS RentalProofs

USE DEF Programs

BooksNow == [k \in Launches |-> Books(k)]

\* What one step may do to a rental.
RentalMoves(k) ==
  \/ cloud' = cloud
  \/ cloud[k] = "none" /\ cloud' = [cloud EXCEPT ![k] = "live"]
  \/ cloud[k] = "live" /\ cloud' = [cloud EXCEPT ![k] = "gone"]

LEMMA CloudCallsAreRentalMoves ==
  ASSUME CloudTypeOK, NEW k \in Launches,
         \/ Rent(k) \/ ConsoleDelete(k) \/ HostLoss(k) \/ UNCHANGED cloudVars
         \/ cloud[k] # "none" /\ (DestroyReturns(k) \/ DestroyRaises(k))
  PROVE  RentalMoves(k)
BY ProgramConstants
   DEF CloudTypeOK, RentalMoves, Rent, Delete, DestroyReturns, DestroyRaises, ConsoleDelete,
       HostLoss, cloudVars

LEMMA SameBooksSameView ==
  ASSUME SameBooks
  PROVE  BooksNow' = BooksNow
BY DEF SameBooks, BooksNow, Books

\* A quiet step is a step of the contract or none at all.
LEMMA QuietIsContract ==
  ASSUME CloudTypeOK, NEW k \in Launches, RentalMoves(k), SameBooks
  PROVE  [Contract!ContractNext]_(Contract!contractVars)
<1>1. BooksNow' = BooksNow
  BY SameBooksSameView
<1>2. CASE cloud' = cloud
  BY <1>1, <1>2 DEF Contract!contractVars, BooksNow
<1>3. CASE cloud[k] = "none" /\ cloud' = [cloud EXCEPT ![k] = "live"]
  <2>1. Contract!BeginRental(k)
    BY <1>1, <1>3 DEF Contract!BeginRental, BooksNow
  <2> QED BY <2>1 DEF Contract!ContractNext
<1>4. CASE cloud[k] = "live" /\ cloud' = [cloud EXCEPT ![k] = "gone"]
  <2>1. Contract!EndRental(k)
    BY <1>1, <1>4 DEF Contract!EndRental, BooksNow
  <2> QED BY <2>1 DEF Contract!ContractNext
<1> QED BY <1>2, <1>3, <1>4 DEF RentalMoves

\* A mark closes open books, and leaves closed and absent ones as they are.
LEMMA MarkIsContract ==
  ASSUME LedgerTypeOK, NEW k \in Launches, NEW why, NEW script,
         NEW p \in Programs \union {"audit"}, Update(k, Destroyed(row[k], why, script, Clock[p])),
         cloud' = cloud, cloud[k] = "gone"
  PROVE  [Contract!ContractNext]_(Contract!contractVars)
<1>1. /\ \A j \in Launches : row'[j].present = row[j].present
      /\ \A j \in Launches \ {k} : row'[j] = row[j]
      /\ row[k].present => row'[k].terminated_at # Null
  BY MarkCloses
<1>2. \A j \in Launches \ {k} : Books(j)' = Books(j)
  BY <1>1 DEF Books
<1>3. CASE Books(k) = "open"
  <2>1. Books(k)' = "closed"
    BY <1>1, <1>3 DEF Books
  <2>2. BooksNow' = [BooksNow EXCEPT ![k] = "closed"]
    BY <1>2, <2>1 DEF BooksNow
  <2>3. Contract!CloseBooks(k)
    BY <1>3, <2>2 DEF Contract!CloseBooks, BooksNow
  <2> QED BY <2>3 DEF Contract!ContractNext
<1>4. CASE Books(k) # "open"
  <2>1. Books(k)' = Books(k)
    BY <1>1, <1>4 DEF Books
  <2>2. BooksNow' = BooksNow
    BY <1>2, <2>1 DEF BooksNow
  <2> QED BY <2>2 DEF Contract!contractVars, BooksNow
<1> QED BY <1>3, <1>4

LEMMA InsertIsContract ==
  ASSUME LedgerTypeOK, SafeInv, NEW k \in Launches, InsertRow(k), cloud' = cloud, cloud[k] # "none"
  PROVE  [Contract!ContractNext]_(Contract!contractVars)
<1>1. /\ \A j \in Launches \ {k} : row'[j] = row[j]
      /\ row'[k].present /\ row'[k].terminated_at = row[k].terminated_at
  <2>1. row[k] \in RowType BY DEF LedgerTypeOK
  <2> QED BY <2>1 DEF InsertRow, Created, LedgerTypeOK, RowType
<1>2. \A j \in Launches \ {k} : Books(j)' = Books(j)
  BY <1>1 DEF Books
<1>3. CASE ~row[k].present
  <2>1. Books(k) = "absent" /\ Books(k)' = "open"
    BY <1>1, <1>3 DEF Books, SafeInv, StepOrder, BookedBefore
  <2>2. BooksNow' = [BooksNow EXCEPT ![k] = "open"]
    BY <1>2, <2>1 DEF BooksNow
  <2>3. Contract!OpenBooks(k)
    BY <2>1, <2>2 DEF Contract!OpenBooks, BooksNow
  <2> QED BY <2>3 DEF Contract!ContractNext
<1>4. CASE row[k].present
  <2>1. Books(k)' = Books(k)
    BY <1>1, <1>4 DEF Books
  <2>2. BooksNow' = BooksNow
    BY <1>2, <2>1 DEF BooksNow
  <2> QED BY <2>2 DEF Contract!contractVars, BooksNow
<1> QED BY <1>3, <1>4

LEMMA EventIsContract ==
  ASSUME LedgerTypeOK, NEW k \in Launches, NEW name, NEW t, RecordEvent(k, name, t), cloud' = cloud
  PROVE  [Contract!ContractNext]_(Contract!contractVars)
<1>1. SameBooks BY DEF RecordEvent, SameBooks
<1> QED BY <1>1, SameBooksSameView DEF Contract!contractVars, BooksNow

-----------------------------------------------------------------------------

LEMMA MonitorImplements ==
  ASSUME TypeInv, SafeInv, NEW k \in Launches, MonitorStep(k)
  PROVE  [Contract!ContractNext]_(Contract!contractVars)
<1> USE DEF TypeInv, TypeOK
<1>1. CASE MonitorMark(k)
  <2>1. mpc[k] = "mark" /\ cloud' = cloud
    BY <1>1 DEF MonitorMark, cloudVars
  <2>2. cloud[k] = "gone"
    BY <2>1 DEF SafeInv, StepOrder, DeletedBefore
  <2>3. Update(k, Destroyed(row[k], "monitor_recommendation", TRUE, Clock["monitor"]))
    BY <1>1 DEF MonitorMark
  <2> QED BY <2>1, <2>2, <2>3, MarkIsContract
<1>2. CASE MonitorDestroyedEvent(k)
  BY <1>2, EventIsContract DEF MonitorDestroyedEvent, cloudVars
<1>3. CASE ~MonitorMark(k) /\ ~MonitorDestroyedEvent(k)
  <2>1. SameBooks
    BY <1>3, MonitorQuietSteps DEF MonitorStep, Quiet
  <2>2. mpc[k] = "destroy" => cloud[k] # "none"
    BY DEF SafeInv, StepOrder, RentedBefore
  <2>3. RentalMoves(k)
    BY <1>3, <2>2, CloudCallsAreRentalMoves
       DEF MonitorStep, MonitorPoll, MonitorSnapshot, MonitorRunningEvent, MonitorResult,
           MonitorLedgerFails, MonitorCondemn, MonitorAccept, MonitorWait, MonitorTimesOut,
           MonitorDestroys, MonitorDestroyRaises, MonitorMarkFails, MonitorCrash
  <2> QED BY <2>1, <2>3, QuietIsContract
<1> QED BY <1>1, <1>2, <1>3

LEMMA CleanImplements ==
  ASSUME TypeInv, SafeInv, NEW k \in Launches, CleanStep(k)
  PROVE  [Contract!ContractNext]_(Contract!contractVars)
<1> USE DEF TypeInv, TypeOK
<1>1. CASE CleanMark(k)
  <2>1. cpc[k] = "mark" /\ cloud' = cloud
    BY <1>1 DEF CleanMark, cloudVars
  <2>2. cloud[k] = "gone"
    BY <2>1 DEF SafeInv, StepOrder, DeletedBefore, AfterDestroy
  <2>3. Update(k, Destroyed(row[k], "clean_terminate", TRUE, Clock["clean"]))
    BY <1>1 DEF CleanMark
  <2> QED BY <2>1, <2>2, <2>3, MarkIsContract
<1>2. CASE CleanDestroyedEvent(k)
  BY <1>2, EventIsContract DEF CleanDestroyedEvent, cloudVars
<1>3. CASE ~CleanMark(k) /\ ~CleanDestroyedEvent(k)
  <2>1. SameBooks
    BY <1>3, CleanQuietSteps DEF Quiet
  <2>2. cpc[k] = "destroy" => cloud[k] # "none"
    BY DEF SafeInv, StepOrder, RentedBefore
  <2>3. RentalMoves(k)
    BY <1>3, <2>2, CloudCallsAreRentalMoves
       DEF CleanStep, CleanStart, CleanStartedEvent, CleanShow, CleanSnapshot, CleanRunningEvent,
           CleanLogs, CleanLogsFailed, CleanMetrics, CleanMetricsRequired, CleanMetricsFailed,
           CleanDryFinished, CleanDestroys, CleanDestroyRaises, CleanDestroyReturned,
           CleanLedgerFails, CleanCrash
  <2> QED BY <2>1, <2>3, QuietIsContract
<1> QED BY <1>1, <1>2, <1>3

LEMMA ReconcileImplements ==
  ASSUME TypeInv, SafeInv, ReconcileStep
  PROVE  [Contract!ContractNext]_(Contract!contractVars)
<1> USE DEF TypeInv, TypeOK
<1>1. cloud' = cloud
  BY DEF ReconcileStep, ReconcileStart, ReconcileList, ReconcileHistory, ReconcileNext,
         ReconcileEnd, ReconcileNotSeen, ReconcileMark, ReconcileDestroyedEvent,
         ReconcileSnapshot, ReconcileRunningEvent, ReconcileSeen, ReconcileFails, cloudVars
<1>2. CASE ReconcileMark
  <2>1. /\ Update(rcur, Destroyed(row[rcur], "vast_audit_instance_delete", FALSE, Clock["audit"]))
        /\ rpc = "mark"
    BY <1>2 DEF ReconcileMark
  <2>2. rcur \in Launches /\ cloud[rcur] = "gone"
    BY <2>1 DEF SafeInv, StepOrder, AuditIsHonest, BookedBefore
  <2> QED BY <1>1, <2>1, <2>2, MarkIsContract
<1>3. CASE ReconcileDestroyedEvent
  BY <1>1, <1>3, EventIsContract DEF ReconcileDestroyedEvent, CurrentRow
<1>4. CASE ~ReconcileMark /\ ~ReconcileDestroyedEvent
  <2>1. SameBooks
    BY <1>4, ReconcileQuietSteps DEF Quiet
  <2> QED BY <1>1, <2>1, SameBooksSameView DEF Contract!contractVars, BooksNow
<1> QED BY <1>2, <1>3, <1>4

LEMMA LauncherImplements ==
  ASSUME TypeInv, SafeInv, NEW k \in Launches, LauncherStep(k)
  PROVE  [Contract!ContractNext]_(Contract!contractVars)
<1> USE DEF TypeInv, TypeOK
<1>1. CASE LauncherInsert(k)
  <2>1. InsertRow(k) /\ lpc[k] = "insert" /\ cloud' = cloud
    BY <1>1 DEF LauncherInsert, cloudVars
  <2>2. cloud[k] # "none"
    BY <2>1 DEF SafeInv, StepOrder, RentedBefore
  <2> QED BY <2>1, <2>2, InsertIsContract
<1>2. CASE LauncherMark(k)
  <2>1. lpc[k] = "mark" /\ cloud' = cloud
    BY <1>2 DEF LauncherMark, cloudVars
  <2>2. cloud[k] = "gone"
    BY <2>1 DEF SafeInv, StepOrder, DeletedBefore
  <2>3. Update(k, Destroyed(row[k], "monitor_destroyed_failed_launch", TRUE, Clock["launcher"]))
    BY <1>2 DEF LauncherMark
  <2> QED BY <2>1, <2>2, <2>3, MarkIsContract
<1>3. CASE LauncherDestroyedEvent(k)
  BY <1>3, EventIsContract DEF LauncherDestroyedEvent, cloudVars
<1>4. CASE ~LauncherInsert(k) /\ ~LauncherMark(k) /\ ~LauncherDestroyedEvent(k)
  <2>1. SameBooks
    BY <1>4, LauncherQuietSteps DEF Quiet
  <2>2. RentalMoves(k)
    BY <1>4, CloudCallsAreRentalMoves
       DEF LauncherStep, LauncherCreates, LauncherLosesContract, LauncherRequestedEvent,
           LauncherReturnedEvent, LauncherLedgerFails, LauncherPollReturns, LauncherPollRaises,
           LauncherSnapshot, LauncherRunningEvent, LauncherSpawnsMonitor, LauncherSkipsMonitor,
           LauncherMonitorReturned, LauncherRecordExit, LauncherAfterMonitor, LauncherSkipsSmoke,
           LauncherSmoke, LauncherRecordSmoke, LauncherSmokeEvent
  <2> QED BY <2>1, <2>2, QuietIsContract
<1> QED BY <1>1, <1>2, <1>3, <1>4

LEMMA CloudImplements ==
  ASSUME TypeInv, SafeInv, CloudActs
  PROVE  [Contract!ContractNext]_(Contract!contractVars)
<1>1. SameBooks
  BY DEF CloudActs, SameBooks, ledgerVars
<1>2. PICK k \in Launches : RentalMoves(k)
  BY CloudCallsAreRentalMoves, ProgramConstants DEF CloudActs, CloudNext, TypeInv, TypeOK
<1> QED BY <1>1, <1>2, QuietIsContract DEF TypeInv, TypeOK

-----------------------------------------------------------------------------

LEMMA ContractStarts == Init => Contract!ContractInit
BY ProgramConstants
   DEF Init, CloudInit, LedgerInit, NoRow, Books, Contract!ContractInit

LEMMA ContractSteps ==
  TypeInv /\ SafeInv /\ [Next]_vars => [Contract!ContractNext]_(Contract!contractVars)
<1> SUFFICES ASSUME TypeInv, SafeInv, [Next]_vars
             PROVE  [Contract!ContractNext]_(Contract!contractVars)
  OBVIOUS
<1>1. CASE \E k \in Launches : LauncherActs(k)
  BY <1>1, LauncherImplements DEF LauncherActs
<1>2. CASE \E k \in Launches : MonitorActs(k)
  BY <1>2, MonitorImplements DEF MonitorActs
<1>3. CASE \E k \in Launches : CleanActs(k)
  BY <1>3, CleanImplements DEF CleanActs
<1>4. CASE ReconcileActs
  BY <1>4, ReconcileImplements DEF ReconcileActs
<1>5. CASE CloudActs
  BY <1>5, CloudImplements
<1>6. CASE UNCHANGED vars
  BY <1>6 DEF vars, cloudVars, ledgerVars, Contract!contractVars, Books
<1> QED BY <1>1, <1>2, <1>3, <1>4, <1>5, <1>6 DEF Next

\* Every behaviour of the four programs is one of the contract: the books on a
\* launch are opened after it is rented, closed once after it ended, and never
\* reopened.
THEOREM ProgramsKeepContract == Spec => KeepsContract
BY TypeInvariant, SafetyInvariant, ContractStarts, ContractSteps, PTL
   DEF Spec, KeepsContract, Contract!ContractSpec
=============================================================================
