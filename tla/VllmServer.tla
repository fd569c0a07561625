----------------------------- MODULE VllmServer ------------------------------
(***************************************************************************)
(* The inference server as the load programs see it, and the program that  *)
(* runs.  The server is not code of the repository: it takes requests,     *)
(* generates tokens, counts them on /metrics, writes a line to its log     *)
(* when a request is over, may be restarted under another address, and may *)
(* serve somebody else.  A request whose client has gone is finished or    *)
(* dropped, and the server's counters do not tell whose requests they      *)
(* counted; strays is our own account of what nobody waited for.           *)
(***************************************************************************)
EXTENDS Integers, Sequences, FiniteSets

CONSTANTS
  Null,
  MaxTokens,   \* the longest completion
  Incidents,   \* restarts of the server and requests of other clients (bound)
  Unheard      \* requests on the server that no program of ours waits for (bound)

ASSUME ServerConstants == {MaxTokens, Incidents, Unheard} \subseteq Nat

VARIABLES
  client,     \* the program: "ramp", "bench", "ladder", "agentic" or "pi"
  flags,      \* its command line
  pc,         \* its next step
  outcome,    \* how it ended, Null until then
  serving,    \* the requests on the server: who, tokens so far, heard
  counters,   \* /metrics: tokens generated and requests that succeeded
  strays,     \* the part of them that belongs to nobody who waits
  epoch,      \* the restarts so far, which also is the server's address
  others,     \* requests of other clients so far
  late,       \* requests that are over, their log line not written yet
  log         \* the requests the log has a release line of

inputVars == <<client, flags>>
stepVars == <<pc, outcome>>
serverVars == <<serving, counters, strays, epoch, others, late, log>>

Runs(c, step) == client = c /\ pc = step

Goto(step) == pc' = step /\ UNCHANGED outcome

End(how) == pc' = "ended" /\ outcome' = how

Zero == [generated |-> 0, succeeded |-> 0]

ServerInit ==
  /\ serving = {} /\ counters = Zero /\ strays = Zero
  /\ epoch = 0 /\ others = 0 /\ late = <<>> /\ log = <<>>

Plus(count, field) == [count EXCEPT ![field] = @ + 1]

\* one more of a counter, on behalf of a request
Count(r, field) ==
  /\ counters' = Plus(counters, field)
  /\ strays' = IF r.heard THEN strays ELSE Plus(strays, field)

Accept(who) ==
  /\ serving' = serving \union {[who |-> who, tokens |-> 0, heard |-> TRUE]}
  /\ UNCHANGED <<counters, strays, epoch, others, late, log>>

\* The request is over and counted; only the agentic benchmark reads the log.
Finish(r) ==
  /\ serving' = serving \ {r}
  /\ Count(r, "succeeded")
  /\ late' = IF client = "agentic" THEN Append(late, r.who) ELSE late
  /\ UNCHANGED <<epoch, others, log>>

Drop(r) ==
  /\ serving' = serving \ {r}
  /\ UNCHANGED <<counters, strays, epoch, others, late, log>>

Attended == Cardinality({r \in serving : ~r.heard}) < Unheard

\* the client has given up: the server may notice or go on
Abandon(r) ==
  \/ Drop(r)
  \/ /\ Attended
     /\ serving' = (serving \ {r}) \union {[r EXCEPT !.heard = FALSE]}
     /\ UNCHANGED <<counters, strays, epoch, others, late, log>>

Waiting(who) == {r \in serving : r.heard /\ r.who = who}

\* only the ladder looks at the tokens
Generates ==
  /\ client = "ladder"
  /\ \E r \in serving :
       /\ r.tokens < MaxTokens
       /\ serving' = (serving \ {r}) \union {[r EXCEPT !.tokens = @ + 1]}
       /\ Count(r, "generated")
  /\ UNCHANGED <<epoch, others, late, log>>

EndsUnheard == \E r \in serving : ~r.heard /\ (Finish(r) \/ Drop(r))

OtherArrives ==
  /\ epoch + others < Incidents /\ Attended
  /\ others' = others + 1
  /\ serving' = serving \union {[who |-> <<others', 0>>, tokens |-> 0, heard |-> FALSE]}
  /\ UNCHANGED <<counters, strays, epoch, late, log>>

\* requests are lost and counters start again
Restart ==
  /\ epoch + others < Incidents
  /\ epoch' = epoch + 1
  /\ serving' = {} /\ counters' = Zero /\ strays' = Zero
  /\ UNCHANGED <<others, late, log>>

WritesLog ==
  /\ late # <<>>
  /\ log' = Append(log, Head(late)) /\ late' = Tail(late)
  /\ UNCHANGED <<serving, counters, strays, epoch, others>>

ServerNext == Generates \/ EndsUnheard \/ OtherArrives \/ Restart \/ WritesLog

\* What a client knows of the counters, and we of their meaning.
Snapshot == [counters |-> counters, strays |-> strays, epoch |-> epoch]

\* The growth of a counter between two snapshots, and how much of it is stray.
Growth(from, to, field) == to.counters[field] - from.counters[field]
Stray(from, to, field) == to.strays[field] - from.strays[field]
=============================================================================
