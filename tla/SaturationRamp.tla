--------------------------- MODULE SaturationRamp ----------------------------
(***************************************************************************)
(* scripts/coding_agent_saturation_ramp.py: one thread per simulated user  *)
(* sends the user's turns one after the other; the main thread collects    *)
(* the results and submits the next turns; the server's counters are       *)
(* scraped before and after the measured turns of each step.  The count of *)
(* finished requests among them is server_queue_count: vLLM observes the   *)
(* queue time of a request when the request is over.                       *)
(***************************************************************************)
EXTENDS VllmServer

CONSTANTS
  Plans,         \* the values of --concurrency: how many users each step has
  WarmupTurns,   \* --warmup-turns
  TurnsPerUser   \* --requests-per-concurrency

ASSUME RampConstants ==
  /\ Plans \subseteq Seq(Nat \ {0}) /\ <<>> \notin Plans
  /\ WarmupTurns \in Nat /\ TurnsPerUser \in Nat \ {0}

VARIABLES
  steps,      \* the steps to run, the present one first
  thread,     \* user -> the user's pending future
  submitted,  \* requests submitted in this phase
  skipped,    \* follow-up turns given up
  results,    \* the results collected in this phase
  current,    \* the address the resolver has cached
  before,     \* the scrape before the measured turns, Null if it failed
  after       \* the scrape after them, Null if it failed

rampVars == <<steps, thread, submitted, skipped, results, current, before, after>>

Users == UNION {1..n : n \in UNION {{plan[i] : i \in DOMAIN plan} : plan \in Plans}}

\* a thread without a future; a future is queued, waits, or has its result
Idle == [at |-> "idle", turn |-> 0, try |-> 0, ok |-> FALSE]
Future(turn) == [at |-> "send", turn |-> turn, try |-> 1, ok |-> FALSE]

StepUsers == 1..Head(steps)
Planned == Head(steps) * TurnsPerUser

RampInit ==
  /\ steps \in Plans
  /\ thread = [u \in Users |-> Idle]
  /\ submitted = 0 /\ skipped = 0 /\ results = {}
  /\ current = 0
  /\ before = Null /\ after = Null

Tag(u) == <<Len(steps), u, thread[u].turn, thread[u].try>>

Set(u, future) == thread' = [thread EXCEPT ![u] = future]

Done(u, ok) == Set(u, [thread[u] EXCEPT !.at = "done", !.ok = ok])

\* A fixed base URL survives a restart of the server, as a tunnel's does; the
\* port that Vast maps changes.  (The number of changes is only reported.)
Reachable == current = epoch \/ "instance_id" \notin flags

-----------------------------------------------------------------------------
(* one_request, in the user's thread *)

\* EndpointResolver.resolve with force.  It raises without an address, or when
\* the callback cannot record a change: then the old address stays in place.
RefreshReturns == current' = epoch

RefreshRaises == UNCHANGED current

\* An exception or a 502, 503 or 504: with an instance id the first try
\* refreshes the address and goes round again.
Retries(u) ==
  IF thread[u].try = 1 /\ "instance_id" \in flags
    THEN \/ RefreshReturns /\ Set(u, [thread[u] EXCEPT !.at = "send", !.try = 2])
         \/ RefreshRaises /\ Done(u, FALSE)
    ELSE Done(u, FALSE) /\ UNCHANGED current

RampSend(u) ==
  /\ thread[u].at = "send"
  /\ \/ /\ Reachable
        /\ Accept(Tag(u)) /\ Set(u, [thread[u] EXCEPT !.at = "wait"])
        /\ UNCHANGED current
     \/ Retries(u) /\ UNCHANGED serverVars
  /\ UNCHANGED <<inputVars, stepVars, steps, submitted, skipped, results, before, after>>

RampAnswered(u) ==
  /\ thread[u].at = "wait"
  /\ \E r \in Waiting(Tag(u)) : Finish(r)
  /\ Done(u, TRUE)
  /\ UNCHANGED <<inputVars, stepVars, steps, submitted, skipped, results, current, before, after>>

\* the timeout, a broken connection, or an HTTP error of the proxy or server
RampBreaks(u) ==
  /\ thread[u].at = "wait"
  /\ \/ \E r \in Waiting(Tag(u)) : Abandon(r)
     \/ Waiting(Tag(u)) = {} /\ UNCHANGED serverVars
  /\ \/ Retries(u)
     \/ Done(u, FALSE) /\ UNCHANGED current
  /\ UNCHANGED <<inputVars, stepVars, steps, submitted, skipped, results, before, after>>

-----------------------------------------------------------------------------
(* run_step, in the main thread *)

Submits(turn) ==
  /\ thread' = [u \in Users |-> IF u \in StepUsers THEN Future(turn) ELSE Idle]
  /\ submitted' = Cardinality(StepUsers) /\ skipped' = 0 /\ results' = {}

\* a step begins with an event in the ledger, which may raise
RampWarmup ==
  /\ Runs("ramp", "start")
  /\ \/ IF WarmupTurns > 0
          THEN Submits(1) /\ Goto("warmup")
          ELSE Goto("scrape") /\ UNCHANGED <<thread, submitted, skipped, results>>
     \/ /\ "record_ledger" \in flags /\ End("raised")
        /\ UNCHANGED <<thread, submitted, skipped, results>>
  /\ UNCHANGED <<inputVars, steps, current, before, after, serverVars>>

\* a user whose warmup turn failed has no further ones
RampWarmed(u) ==
  /\ Runs("ramp", "warmup")
  /\ thread[u].at = "done"
  /\ IF thread[u].ok /\ thread[u].turn < WarmupTurns
       THEN Set(u, Future(thread[u].turn + 1)) /\ submitted' = submitted + 1
       ELSE Set(u, Idle) /\ UNCHANGED submitted
  /\ UNCHANGED <<inputVars, stepVars, steps, skipped, results, current, before, after, serverVars>>

RampWarmupEnds ==
  /\ Runs("ramp", "warmup")
  /\ \A u \in Users : thread[u].at = "idle"
  /\ Goto("scrape")
  /\ UNCHANGED <<inputVars, rampVars, serverVars>>

\* MetricsSampler.scrape, with one refresh and a second try between
ScrapeReturns ==
  \/ Reachable /\ UNCHANGED current
  \/ "instance_id" \in flags /\ RefreshReturns

ScrapeRaises ==
  \/ UNCHANGED current
  \/ "instance_id" \in flags /\ (RefreshReturns \/ RefreshRaises)

RampScrape ==
  /\ Runs("ramp", "scrape")
  /\ \/ ScrapeReturns /\ before' = Snapshot
     \/ ScrapeRaises /\ before' = Null
  /\ after' = Null
  /\ Submits(WarmupTurns + 1) /\ Goto("measure")
  /\ UNCHANGED <<inputVars, steps, serverVars>>

Result(u) == [user |-> u, turn |-> thread[u].turn, ok |-> thread[u].ok]

\* Variant: the failed turn itself is counted as skipped, too.
RampCollectTwice(u) ==
  /\ Runs("ramp", "measure")
  /\ thread[u].at = "done"
  /\ results' = results \union {Result(u)}
  /\ LET measured == thread[u].turn - WarmupTurns
     IN IF thread[u].ok /\ measured < TurnsPerUser
          THEN Set(u, Future(thread[u].turn + 1)) /\ submitted' = submitted + 1 /\ UNCHANGED skipped
          ELSE /\ Set(u, Idle) /\ UNCHANGED submitted
               /\ skipped' = IF thread[u].ok THEN skipped ELSE skipped + TurnsPerUser - measured + 1
  /\ UNCHANGED <<inputVars, stepVars, steps, current, before, after, serverVars>>

\* Variant: one turn too many.
RampCollectOneMore(u) ==
  /\ Runs("ramp", "measure")
  /\ thread[u].at = "done"
  /\ results' = results \union {Result(u)}
  /\ LET measured == thread[u].turn - WarmupTurns
     IN IF thread[u].ok /\ measured <= TurnsPerUser
          THEN Set(u, Future(thread[u].turn + 1)) /\ submitted' = submitted + 1 /\ UNCHANGED skipped
          ELSE /\ Set(u, Idle) /\ UNCHANGED submitted
               /\ skipped' = IF thread[u].ok THEN skipped ELSE skipped + TurnsPerUser - measured
  /\ UNCHANGED <<inputVars, stepVars, steps, current, before, after, serverVars>>

RampCollect(u) ==
  /\ Runs("ramp", "measure")
  /\ thread[u].at = "done"
  /\ results' = results \union {Result(u)}
  /\ LET measured == thread[u].turn - WarmupTurns
     IN IF thread[u].ok /\ measured < TurnsPerUser
          THEN Set(u, Future(thread[u].turn + 1)) /\ submitted' = submitted + 1 /\ UNCHANGED skipped
          ELSE /\ Set(u, Idle) /\ UNCHANGED submitted
               /\ skipped' = IF thread[u].ok THEN skipped ELSE skipped + TurnsPerUser - measured
  /\ UNCHANGED <<inputVars, stepVars, steps, current, before, after, serverVars>>

\* All futures are in: scrape again; when that fails the sampler's last sample,
\* which is of some earlier moment, takes its place in the report.
RampMeasured ==
  /\ Runs("ramp", "measure")
  /\ \A u \in Users : thread[u].at = "idle"
  /\ \/ ScrapeReturns /\ after' = Snapshot
     \/ ScrapeRaises /\ after' = Null
  /\ Goto("report")
  /\ UNCHANGED <<inputVars, steps, thread, submitted, skipped, results, before, serverVars>>

\* The summary goes to the ledger, which may raise and end the ramp; then the
\* next step, which starts with nothing of this one.
RampReport ==
  /\ Runs("ramp", "report")
  /\ \/ "record_ledger" \in flags /\ End("raised")
     \/ Len(steps) = 1 /\ End("complete")
     \/ Len(steps) > 1 /\ Goto("start")
  /\ steps' = IF pc' = "start" THEN Tail(steps) ELSE steps
  /\ submitted' = 0 /\ skipped' = 0 /\ results' = {} /\ before' = Null /\ after' = Null
  /\ UNCHANGED <<inputVars, thread, current, serverVars>>

RampThread(u) == RampSend(u) \/ RampAnswered(u) \/ RampBreaks(u)

RampMain ==
  \/ RampWarmup \/ RampWarmupEnds \/ RampScrape \/ RampMeasured \/ RampReport
  \/ \E u \in Users : RampWarmed(u) \/ RampCollect(u)

RampStep == client = "ramp" /\ (RampMain \/ \E u \in Users : RampThread(u))
=============================================================================
