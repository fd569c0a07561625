------------------------------ MODULE LoadTests ------------------------------
(***************************************************************************)
(* The load programs, one at a time, against the inference server.         *)
(***************************************************************************)
EXTENDS SaturationRamp, QuickBench, ContextLadder, AgenticBench, PiDriver

CONSTANT CommandLines   \* program -> the sets of flags it may be given

vars == <<inputVars, stepVars, serverVars, rampVars, benchVars, ladderVars, agenticVars, piVars>>

FirstStep == [ramp |-> "start", bench |-> "start", ladder |-> "start_gate", agentic |-> "start", pi |-> "start"]

Init ==
  /\ client \in DOMAIN FirstStep
  /\ flags \in CommandLines[client]
  /\ pc = FirstStep[client] /\ outcome = Null
  /\ ServerInit /\ RampInit /\ BenchInit /\ LadderInit /\ AgenticInit /\ PiInit

ClientStep ==
  \/ RampStep /\ UNCHANGED <<benchVars, ladderVars, agenticVars, piVars>>
  \/ BenchStep /\ UNCHANGED <<rampVars, ladderVars, agenticVars, piVars>>
  \/ LadderStep /\ UNCHANGED <<rampVars, benchVars, agenticVars, piVars>>
  \/ AgenticStep /\ UNCHANGED <<rampVars, benchVars, ladderVars, piVars>>
  \/ PiStep /\ UNCHANGED <<rampVars, benchVars, ladderVars, agenticVars>>

Environment ==
  \/ /\ client # "pi" /\ pc # "ended" /\ ServerNext
     /\ UNCHANGED <<inputVars, stepVars, rampVars, benchVars, ladderVars, agenticVars, piVars>>
  \/ pc # "ended" /\ PiWorks /\ UNCHANGED <<rampVars, benchVars, ladderVars, agenticVars>>

Next == ClientStep \/ Environment

Spec == Init /\ [][Next]_vars

\* The programs go on by themselves: every wait has a timeout.
FairSpec == Spec /\ WF_vars(ClientStep)

-----------------------------------------------------------------------------
LoadTypeOK ==
  /\ client \in DOMAIN FirstStep
  /\ \A r \in serving : r.tokens \in 0..MaxTokens
  /\ strays.generated \in 0..counters.generated /\ strays.succeeded \in 0..counters.succeeded
  /\ {epoch, others} \subseteq 0..Incidents
  /\ \E plan \in Plans : \E n \in 0..(Len(plan) - 1) : steps = SubSeq(plan, n + 1, Len(plan))
  /\ \A u \in Users :
       /\ thread[u].at \in {"idle", "send", "wait", "done"} /\ thread[u].try \in 0..2
       /\ thread[u].turn \in 0..(WarmupTurns + TurnsPerUser)
  /\ {submitted, skipped} \subseteq 0..(Head(steps) * (WarmupTurns + TurnsPerUser))
  /\ issued \in Nat /\ flying \subseteq 1..issued /\ {served, errors} \subseteq 0..issued
  /\ level \in 0..(Levels + 1) /\ try \in 1..ProseTries /\ reads \in 0..3
  /\ iteration \in 1..Iterations /\ previous \in 0..Iterations
  /\ prompt \in 1..Prompts /\ stable \in 0..2 /\ rounds \in 0..ToolRounds

\* "planned submitted completed in_flight skipped_followup_turns": no turn of
\* the ramp is lost or counted twice, whatever breaks, retries or fails: the
\* results, the turns given up, the future of each user and the turns it has
\* before it make up the plan, and a user's turns follow each other without a
\* gap or a failure between.  The quick bench ends with 0 only if every request
\* it submitted was served.
EveryRequestIsCounted ==
  /\ client = "ramp" /\ pc \in {"measure", "report"} =>
       LET pending == {u \in StepUsers : thread[u].at # "idle"}
       IN /\ submitted = Cardinality(results) + Cardinality(pending)
          /\ pending = {} => Cardinality(results) + skipped = Planned
          /\ \A r \in results : r.turn > WarmupTurns + 1 =>
               [user |-> r.user, turn |-> r.turn - 1, ok |-> TRUE] \in results
          /\ \A u \in pending : \A t \in (WarmupTurns + 1)..(thread[u].turn - 1) :
               [user |-> u, turn |-> t, ok |-> TRUE] \in results
  /\ client = "bench" =>
       /\ issued = served + errors + Cardinality(flying)
       /\ outcome = "0" => served = issued /\ issued > 0

\* The growth of a server's counter is the program's own work, but for the
\* requests nobody waited for.  A ramp whose two scrapes reached the same
\* server finds as many successes as it has good results; a ladder records a
\* round only if no other request succeeded in its window, and then the tokens
\* are its own but for those of requests still unheard.
DeltasAreOwn ==
  /\ client = "ramp" /\ pc = "report" /\ Null \notin {before, after} /\ before.epoch = after.epoch =>
       Growth(before, after, "succeeded") - Stray(before, after, "succeeded")
         = Cardinality({r \in results : r.ok})
  /\ client = "ladder" /\ record # Null /\ record.skip = Null /\ record.sameServer =>
       record.straySuccess = 0 /\ record.generated = record.tokens + record.strayTokens

LostBefore(i) == {j \in 1..(i - 1) : releases[j] = Null}

MayHave(i, release) ==
  \/ release = Null
  \/ Len(release) = 2 /\ release[1] <= others
  \/ /\ Len(release) = 1 /\ release[1] <= i
     /\ release[1] \in LostBefore(i) \/ i - release[1] <= Cardinality(LostBefore(i)) + others

\* The lines of failed requests and of those whose wait was over come late, and
\* the newest line is what a row gets: a row may have another request's line, or
\* one that an earlier row has.  Its line is never a later request's, and what
\* was lost before bounds what is wrong: it belongs to a request that has none
\* in its own row, or is behind by no more lines than rows without one and
\* requests of other clients, or is one of theirs (<<n, 0>>).  So in a run in
\* which every row has a line, and nobody else is served, each is its own.
ReleasesLagByTheLost == \A i \in DOMAIN releases : MayHave(i, releases[i])

\* A prompt that timed out is still in pi's queue when the next is pasted, and
\* its answer may be taken for that one's.  Even so no answer is taken twice,
\* none before its prompt was pasted, and all in the order of their prompts;
\* it is the prompt's own if pi had begun all earlier prompts at the paste.
AnswersComeInOrder ==
  \A i \in DOMAIN answers : answers[i] # Null =>
    /\ answers[i].of <= i
    /\ ~answers[i].behind => answers[i].of = i
    /\ \A j \in 1..(i - 1) : answers[j] # Null => answers[j].of < answers[i].of

\* Every load test comes to its end.
LoadTestsEnd == <>(pc = "ended")

=============================================================================
