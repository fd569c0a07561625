----------------------------- MODULE QuickBench ------------------------------
(***************************************************************************)
(* run_quick_bench of scripts/smoke_chat_once.py: keep --bench-concurrency *)
(* requests in flight until the deadline or --bench-max-requests, then     *)
(* wait for the ones that are out.                                         *)
(***************************************************************************)
EXTENDS VllmServer

CONSTANTS
  BenchConcurrency,
  BenchMaxRequests   \* 0 for unlimited

ASSUME BenchConstants ==
  BenchConcurrency \in Nat \ {0} /\ BenchMaxRequests \in Nat /\ Null # "0"

VARIABLES
  issued,    \* requests submitted
  flying,    \* the futures that are not done
  served,    \* answers with status 200
  errors,    \* other statuses, and requests that raised
  expired    \* the deadline has passed

benchVars == <<issued, flying, served, errors, expired>>

BenchInit == issued = 0 /\ flying = {} /\ served = 0 /\ errors = 0 /\ expired = FALSE

\* the first scrape raises when the server does not answer
BenchStart ==
  /\ Runs("bench", "start")
  /\ Goto("load") \/ End("raised")
  /\ UNCHANGED <<inputVars, benchVars, serverVars>>

Room ==
  /\ ~expired
  /\ Cardinality(flying) < BenchConcurrency
  /\ BenchMaxRequests = 0 \/ issued < BenchMaxRequests

BenchSubmit ==
  /\ Runs("bench", "load")
  /\ Room
  /\ issued' = issued + 1
  /\ flying' = flying \union {issued'}
  /\ Accept(<<issued'>>)
  /\ UNCHANGED <<inputVars, stepVars, served, errors, expired>>

BenchExpires ==
  /\ Runs("bench", "load")
  /\ ~expired /\ expired' = TRUE
  /\ UNCHANGED <<inputVars, stepVars, issued, flying, served, errors, serverVars>>

BenchAnswered ==
  /\ Runs("bench", "load")
  /\ \E n \in flying : \E r \in Waiting(<<n>>) : Finish(r) /\ flying' = flying \ {n}
  /\ served' = served + 1
  /\ UNCHANGED <<inputVars, stepVars, issued, errors, expired>>

\* another status, a timeout, a broken connection
BenchBreaks ==
  /\ Runs("bench", "load")
  /\ \E n \in flying :
       /\ flying' = flying \ {n}
       /\ \/ \E r \in Waiting(<<n>>) : Abandon(r)
          \/ Waiting(<<n>>) = {} /\ UNCHANGED serverVars
  /\ errors' = errors + 1
  /\ UNCHANGED <<inputVars, stepVars, issued, served, expired>>

\* the second scrape may raise; then the code
BenchEnds ==
  /\ Runs("bench", "load")
  /\ ~Room /\ flying = {}
  /\ \/ End("raised")
     \/ IF served > 0 /\ errors = 0 THEN End("0") ELSE End("1")
  /\ UNCHANGED <<inputVars, benchVars, serverVars>>

BenchStep ==
  BenchStart \/ BenchSubmit \/ BenchExpires \/ BenchAnswered \/ BenchBreaks \/ BenchEnds
=============================================================================
