---------------------------- MODULE ContextLadder ----------------------------
(***************************************************************************)
(* scripts/context_ladder_bench.py: one request per round, between two     *)
(* settled reads of the server's counters, whose growth is recorded as the *)
(* round's.  A level has a leetcode round and, with --prose, a prose one.  *)
(***************************************************************************)
EXTENDS VllmServer

CONSTANTS
  Levels,     \* the levels below --target-ctx and --rounds
  ProseMin,   \* --prose-min-tokens
  ProseTries  \* prose_finalize's max_retries

ASSUME LadderConstants ==
  /\ Levels \in Nat /\ ProseMin \in Nat /\ ProseTries \in Nat \ {0}
  /\ Null \notin {"request", "success", "prose"}

VARIABLES
  level,    \* the context level, from 0
  prose,    \* the round is a prose round
  try,      \* the try of a prose round
  reads,    \* the reads of the counters since the gate was entered
  last,     \* the counters last read
  start,    \* the snapshot before the request
  tokens,   \* usage.completion_tokens of the answer
  best,     \* the prose round with the longest completion, Null before
  record    \* the record last written to the output, Null before

ladderVars == <<level, prose, try, reads, last, start, tokens, best, record>>

LadderInit ==
  /\ level = 0 /\ prose = FALSE /\ try = 1
  /\ reads = 0 /\ last = Null /\ start = Null
  /\ tokens = 0 /\ best = Null /\ record = Null

LadderTag == <<level, prose, try>>

\* into a settled_snapshot
Settle(step) == reads' = 0 /\ last' = Null /\ Goto(step)

\* the counters are those of the last read
Settled == last = counters

\* Variant: the gate starts again for as long as requests are running.
LadderReadUntilIdle ==
  /\ client = "ladder" /\ pc \in {"start_gate", "end_gate"}
  /\ \/ End("raised") /\ UNCHANGED <<reads, last, start>>
     \/ /\ ~Settled
        /\ reads' = reads + 1 /\ last' = counters
        /\ IF reads' = 3 THEN End("raised") ELSE UNCHANGED stepVars
        /\ UNCHANGED start
     \/ /\ Settled /\ serving # {}
        /\ Settle(pc) /\ UNCHANGED start
     \/ /\ Settled /\ serving = {} /\ pc = "start_gate"
        /\ start' = Snapshot
        /\ Settle("request")
     \/ /\ Settled /\ serving = {} /\ pc = "end_gate"
        /\ Settle("judge") /\ UNCHANGED start
  /\ UNCHANGED <<inputVars, level, prose, try, tokens, best, record, serverVars>>

\* One read.  That requests are running is only printed.  After three reads
\* that all differ, or one that fails, the bench is over.
LadderRead ==
  /\ client = "ladder" /\ pc \in {"start_gate", "end_gate"}
  /\ \/ End("raised") /\ UNCHANGED <<reads, last, start>>
     \/ /\ ~Settled
        /\ reads' = reads + 1 /\ last' = counters
        /\ IF reads' = 3 THEN End("raised") ELSE UNCHANGED stepVars
        /\ UNCHANGED start
     \/ /\ Settled /\ pc = "start_gate"
        /\ start' = Snapshot
        /\ Settle("request")
     \/ /\ Settled /\ pc = "end_gate"
        /\ Settle("judge") /\ UNCHANGED start
  /\ UNCHANGED <<inputVars, level, prose, try, tokens, best, record, serverVars>>

LadderSend ==
  /\ Runs("ladder", "request")
  /\ Accept(LadderTag)
  /\ Goto("answer")
  /\ UNCHANGED <<inputVars, ladderVars>>

LadderAnswered ==
  /\ Runs("ladder", "answer")
  /\ \E r \in Waiting(LadderTag) : Finish(r) /\ tokens' = r.tokens
  /\ Settle("end_gate")
  /\ UNCHANGED <<inputVars, level, prose, try, start, best, record>>

Skip(why) == [level |-> level, prose |-> prose, skip |-> why]

\* the next round starts with its first try
NextRound ==
  /\ try' = 1 /\ best' = Null
  /\ IF ~prose /\ "prose" \in flags
       THEN prose' = TRUE /\ UNCHANGED level /\ Settle("start_gate")
       ELSE /\ level' = level + 1 /\ prose' = FALSE
            /\ IF level' > Levels THEN End("complete") /\ UNCHANGED <<reads, last>>
                                  ELSE Settle("start_gate")

\* Write the record; a leetcode round that was skipped stops the ladder
Emit(r) ==
  /\ record' = r /\ start' = Null /\ tokens' = 0
  /\ IF r.skip # Null /\ ~prose
       THEN End("stopped") /\ UNCHANGED <<level, prose, try, best, reads, last>>
       ELSE NextRound

\* the request failed or timed out: the round is skipped at once
LadderBreaks ==
  /\ Runs("ladder", "answer")
  /\ \/ \E r \in Waiting(LadderTag) : Abandon(r)
     \/ Waiting(LadderTag) = {} /\ UNCHANGED serverVars
  /\ Emit(Skip("request"))
  /\ UNCHANGED inputVars

\* The round's record, with the growth of the counters as its own, and our
\* account of it: the part that is stray, and whether the server is the same.
Measured ==
  [level |-> level, prose |-> prose, skip |-> Null, tokens |-> tokens,
   generated |-> Growth(start, Snapshot, "generated"),
   strayTokens |-> Stray(start, Snapshot, "generated"),
   straySuccess |-> Stray(start, Snapshot, "succeeded"),
   sameServer |-> start.epoch = epoch]

\* Variant: a round counts if at least one request succeeded.
OneSuccessAtLeast == Growth(start, Snapshot, "succeeded") >= 1

\* The only gate on the growth: exactly one request succeeded.  Tokens that do
\* not add up are a warning.
OneSuccess == Growth(start, Snapshot, "succeeded") = 1

JudgeSkips ==
  /\ Runs("ladder", "judge")
  /\ ~OneSuccess
  /\ Emit(Skip("success"))
  /\ UNCHANGED <<inputVars, serverVars>>

JudgeLeetcode ==
  /\ Runs("ladder", "judge")
  /\ OneSuccess /\ ~prose
  /\ Emit(Measured)
  /\ UNCHANGED <<inputVars, serverVars>>

Longest == IF tokens > (IF best = Null THEN 0 ELSE best.tokens) THEN Measured ELSE best

\* A prose round: the longest of up to three completions.  If all of them were
\* empty there is none, and the bench raises; one that is too short, or not
\* prose, is skipped.
JudgeProse ==
  /\ Runs("ladder", "judge")
  /\ OneSuccess /\ prose
  /\ IF tokens < ProseMin /\ try < ProseTries
       THEN /\ try' = try + 1 /\ best' = Longest /\ Settle("start_gate")
            /\ UNCHANGED <<level, prose, record, start, tokens>>
       ELSE IF Longest = Null
         THEN End("raised") /\ UNCHANGED <<level, prose, try, best, reads, last, record, start, tokens>>
         ELSE \/ Longest.tokens >= ProseMin /\ Emit(Longest)
              \/ Emit(Skip("prose"))
  /\ UNCHANGED <<inputVars, serverVars>>

LadderStep ==
  \/ LadderRead \/ LadderSend \/ LadderAnswered \/ LadderBreaks
  \/ JudgeSkips \/ JudgeLeetcode \/ JudgeProse
=============================================================================
