----------------------------- MODULE MarketScan ------------------------------
(***************************************************************************)
(* scripts/scan_best_value_per_profile.py: search the market once for      *)
(* every launch profile and add the best offers to the table market_offers *)
(* of the ledger database, in one transaction per scan.  The table is made *)
(* by the scan or by scripts/migrations/001_add_market_offers_table.py,    *)
(* whichever comes first, and the two do not make the same one.            *)
(***************************************************************************)
EXTENDS OfferMarket

CONSTANTS
  Profiles,       \* the launch profiles
  Interruptible,  \* those of them that --skip-interruptible leaves out
  ScanLimit,      \* --search-limit
  Scans,          \* the scans that are looked at; a --minutes loop goes on for ever (bound)
  DatabaseFaults  \* BOOLEAN: the database may be locked by another program

ASSUME ScanConstants ==
  /\ Interruptible \subseteq Profiles
  /\ ScanLimit \in Nat \ {0} /\ Scans \in Nat \ {0}
  /\ DatabaseFaults \in BOOLEAN

VARIABLES
  table,     \* the columns of market_offers: "absent", "scan" or "migration"
  rows,      \* the committed rows: scan, profile, offer
  pending,   \* the rows of the open transaction
  scan,      \* the number of the scan
  todo,      \* the profiles this scan has not handled
  batch      \* the rows this scan has to insert

scanVars == <<table, rows, pending, scan, todo, batch>>

ScanInit ==
  /\ table = "absent" /\ rows = {} /\ pending = {}
  /\ scan = 0 /\ todo = {} /\ batch = {}

\* CREATE TABLE IF NOT EXISTS
Make(columns) == table' = IF table = "absent" THEN columns ELSE table

\* the operator runs the migration before, beside or after the scan
Migrate ==
  /\ program = "scan" /\ table # "migration"
  /\ Make("migration")
  /\ UNCHANGED <<marketVars, rows, pending, scan, todo, batch, cloudVars>>

ScanStart ==
  /\ Runs("scan", "start")
  /\ \/ Make("scan") /\ Goto("scan")
     \/ DatabaseFaults /\ UNCHANGED table /\ End("raised")
  /\ UNCHANGED <<inputVars, choice, asked, rows, pending, scan, todo, batch, cloudVars>>

ScanBegin ==
  /\ Runs("scan", "scan")
  /\ scan < Scans
  /\ scan' = scan + 1
  /\ todo' = Profiles /\ batch' = {}
  /\ Goto("profiles")
  /\ UNCHANGED <<inputVars, choice, asked, table, rows, pending, cloudVars>>

\* A profile: left out; not loaded; given up on after three searches that
\* raised; without a passing offer; or with a best one.
ScanProfile ==
  /\ Runs("scan", "profiles")
  /\ \E q \in todo :
       /\ todo' = todo \ {q}
       /\ \/ UNCHANGED batch
          \/ /\ ~("skip_interruptible" \in flags /\ q \in Interruptible)
             /\ \E raw \in SearchResults(market, policy, ScanLimit) :
                  \E best \in ScanChoices(raw, policy) :
                    batch' = batch \union {[scan |-> scan, profile |-> q, offer |-> best]}
  /\ UNCHANGED <<inputVars, pc, choice, asked, outcome, table, rows, pending, scan, cloudVars>>

\* "loop": --minutes; the pause, and the next scan
Again == IF "loop" \in flags THEN Goto("scan") ELSE End("complete")

ScanFoundNothing ==
  /\ Runs("scan", "profiles")
  /\ todo = {} /\ batch = {}
  /\ Again
  /\ UNCHANGED <<inputVars, choice, asked, scanVars, cloudVars>>

\* Variant: every row is committed as it is inserted.
ScanInsertCommits ==
  /\ Runs("scan", "profiles")
  /\ todo = {} /\ table = "migration"
  /\ \E r \in batch \ rows : rows' = rows \union {r}
  /\ UNCHANGED <<inputVars, pc, choice, asked, outcome, table, pending, scan, todo, batch, cloudVars>>

\* executemany, row by row; the INSERT names dph_per_gbhr
ScanInsert ==
  /\ Runs("scan", "profiles")
  /\ todo = {} /\ table = "migration"
  /\ \E r \in batch \ pending : pending' = pending \union {r}
  /\ UNCHANGED <<inputVars, pc, choice, asked, outcome, table, rows, scan, todo, batch, cloudVars>>

ScanCommit ==
  /\ Runs("scan", "profiles")
  /\ todo = {} /\ batch # {} /\ pending = batch
  /\ rows' = rows \union pending /\ pending' = {}
  /\ Again
  /\ UNCHANGED <<inputVars, choice, asked, table, scan, todo, batch, cloudVars>>

\* Variant: the failed transaction stays open and its rows go into the next.
ScanInsertFailsOpen ==
  /\ Runs("scan", "profiles")
  /\ todo = {} /\ batch # {}
  /\ table = "scan" \/ DatabaseFaults
  /\ Again
  /\ UNCHANGED <<inputVars, choice, asked, table, rows, pending, scan, todo, batch, cloudVars>>

\* no such column, or a locked database: the connection is closed without a
\* commit; the error is counted and the scan reported all the same
ScanInsertFails ==
  /\ Runs("scan", "profiles")
  /\ todo = {} /\ batch # {}
  /\ table = "scan" \/ DatabaseFaults
  /\ pending' = {}
  /\ Again
  /\ UNCHANGED <<inputVars, choice, asked, table, rows, scan, todo, batch, cloudVars>>

\* the database does not even open
ScanDatabaseLost ==
  /\ Runs("scan", "profiles")
  /\ DatabaseFaults /\ todo = {} /\ batch # {} /\ pending = {}
  /\ End("raised")
  /\ UNCHANGED <<inputVars, choice, asked, scanVars, cloudVars>>

ScanStep ==
  \/ ScanStart \/ ScanBegin \/ ScanProfile \/ ScanFoundNothing
  \/ ScanInsert \/ ScanCommit \/ ScanInsertFails
  \/ ScanDatabaseLost
=============================================================================
