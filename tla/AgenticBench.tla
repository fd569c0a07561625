---------------------------- MODULE AgenticBench -----------------------------
(***************************************************************************)
(* The direct driver of benchmark/run_deterministic_agentic_benchmark.py:  *)
(* one request after the other, each answer paired with the newest release *)
(* line of the backend's log (--backend-log).                              *)
(***************************************************************************)
EXTENDS VllmServer

CONSTANT Iterations   \* --max-iterations

ASSUME AgenticConstants == Iterations \in Nat \ {0}

VARIABLES
  iteration,   \* the request of the conversation
  previous,    \* previous_backend_count
  history,     \* the exchanges that later requests carry; one without text is left out
  releases     \* the release line in each row written so far, Null for none

agenticVars == <<iteration, previous, history, releases>>

AgenticInit == iteration = 1 /\ previous = 0 /\ history = <<>> /\ releases = <<>>

\* an exception other than an HTTP status is the end
AgenticSend ==
  /\ Runs("agentic", "start")
  /\ \/ Accept(<<iteration>>) /\ Goto("answer")
     \/ UNCHANGED serverVars /\ End("raised")
  /\ UNCHANGED <<inputVars, agenticVars>>

AgenticAnswered ==
  /\ Runs("agentic", "answer")
  /\ \E r \in Waiting(<<iteration>>) : Finish(r)
  /\ Goto("release")
  /\ UNCHANGED <<inputVars, agenticVars>>

\* --target-context is reached, or the iterations are used up
NextIteration ==
  \/ "target_context" \in flags /\ UNCHANGED iteration /\ End("complete")
  \/ IF iteration < Iterations THEN iteration' = iteration + 1 /\ Goto("start")
                               ELSE UNCHANGED iteration /\ End("complete")

\* --target-context needs a context: for --backend llama.cpp the release's if
\* there is one, otherwise the prompt_tokens of the answer's usage.
NoContext(release) ==
  /\ "target_context" \in flags /\ ~("llama.cpp" \in flags /\ release # Null)
  /\ End("raised")
  /\ UNCHANGED <<iteration, history, releases>>

\* --fail-fast needs a status of 200, an answer that is right, and a release
WriteRow(status, release) ==
  /\ releases' = Append(releases, release)
  /\ \/ "accumulate_context" \in flags /\ status = 200 /\ history' = Append(history, iteration)
     \/ UNCHANGED history
  /\ \/ "fail_fast" \in flags /\ UNCHANGED iteration /\ End("complete")
     \/ ~("fail_fast" \in flags /\ (status # 200 \/ release = Null)) /\ NextIteration

Conclude(status, release) == NoContext(release) \/ WriteRow(status, release)

\* an HTTP error, of the server or of the proxy: no release is waited for
AgenticHttpError ==
  /\ Runs("agentic", "answer")
  /\ \E r \in Waiting(<<iteration>>) : Abandon(r)
  /\ Conclude(504, Null)
  /\ UNCHANGED <<inputVars, previous>>

\* a timeout or a broken connection
AgenticBreaks ==
  /\ Runs("agentic", "answer")
  /\ \/ \E r \in Waiting(<<iteration>>) : Abandon(r)
     \/ Waiting(<<iteration>>) = {} /\ UNCHANGED serverVars
  /\ End("raised")
  /\ UNCHANGED <<inputVars, agenticVars>>

\* Variant: the count of known releases stays as it was.
AgenticReleaseUncounted ==
  /\ Runs("agentic", "release")
  /\ Len(log) > previous
  /\ UNCHANGED previous
  /\ Conclude(200, log[Len(log)])
  /\ UNCHANGED <<inputVars, serverVars>>

\* More lines than before: the newest one is taken, and one more is known.
AgenticRelease ==
  /\ Runs("agentic", "release")
  /\ Len(log) > previous
  /\ previous' = previous + 1
  /\ Conclude(200, log[Len(log)])
  /\ UNCHANGED <<inputVars, serverVars>>

\* --backend-wait is over
AgenticNoRelease ==
  /\ Runs("agentic", "release")
  /\ Conclude(200, Null)
  /\ UNCHANGED <<inputVars, previous, serverVars>>

AgenticStep ==
  \/ AgenticSend \/ AgenticAnswered \/ AgenticHttpError \/ AgenticBreaks
  \/ AgenticRelease \/ AgenticNoRelease
=============================================================================
