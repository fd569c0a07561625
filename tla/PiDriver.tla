------------------------------ MODULE PiDriver -------------------------------
(***************************************************************************)
(* The pi-tmux driver of benchmark/run_deterministic_agentic_benchmark.py: *)
(* prompts are pasted into a terminal in which the agent pi runs, and the  *)
(* answers are read from pi's session file.  pi itself is not code of the  *)
(* repository: it works off the prompts in order and appends an entry to   *)
(* the file for each prompt, each use of a tool, and each answer.          *)
(***************************************************************************)
EXTENDS VllmServer

CONSTANTS
  Prompts,    \* --max-iterations of this driver
  ToolRounds  \* how often pi uses a tool in one turn (bound)

ASSUME PiConstants == Prompts \in Nat \ {0} /\ ToolRounds \in Nat

VARIABLES
  prompt,    \* the iteration
  pasted,    \* the prompts pi has not begun
  turn,      \* the prompt pi works on, 0 for none
  rounds,    \* its uses of a tool in this turn
  entries,   \* the session file: role, prompt, final
  behind,    \* our account: pi had not begun all earlier prompts at the paste
  seen,      \* the counts of user and assistant entries before the paste
  length,    \* the length of the file when it was last polled
  stable,    \* polls since then that found no change
  answers    \* for each prompt so far the one whose answer was taken, Null after a timeout

piVars == <<prompt, pasted, turn, rounds, entries, behind, seen, length, stable, answers>>

PiInit ==
  /\ prompt = 1 /\ pasted = <<>> /\ turn = 0 /\ rounds = 0 /\ entries = <<>>
  /\ behind = FALSE /\ seen = [user |-> 0, assistant |-> 0] /\ length = Null /\ stable = 0 /\ answers = <<>>

Entries(role) == {i \in DOMAIN entries : entries[i].role = role}

Writes(role, of, final) == entries' = Append(entries, [role |-> role, prompt |-> of, final |-> final])

-----------------------------------------------------------------------------
(* pi *)

PiTakes ==
  /\ turn = 0 /\ pasted # <<>>
  /\ turn' = Head(pasted) /\ pasted' = Tail(pasted) /\ rounds' = 0
  /\ Writes("user", Head(pasted), TRUE)

PiUsesTool ==
  /\ turn # 0 /\ rounds < ToolRounds
  /\ rounds' = rounds + 1
  /\ Writes("assistant", turn, FALSE)
  /\ UNCHANGED <<pasted, turn>>

PiReadsTool ==
  /\ turn # 0 /\ entries[Len(entries)].role = "assistant"
  /\ Writes("tool", turn, TRUE)
  /\ UNCHANGED <<pasted, turn, rounds>>

PiAnswers ==
  /\ turn # 0 /\ entries[Len(entries)].role # "assistant"
  /\ Writes("assistant", turn, TRUE)
  /\ turn' = 0
  /\ UNCHANGED <<pasted, rounds>>

PiWorks ==
  /\ client = "pi"
  /\ PiTakes \/ PiUsesTool \/ PiReadsTool \/ PiAnswers
  /\ UNCHANGED <<inputVars, stepVars, prompt, behind, seen, length, stable, answers, serverVars>>

-----------------------------------------------------------------------------
(* the driver *)

\* the pane may not start in time
PiLaunch ==
  /\ Runs("pi", "start")
  /\ Goto("paste") \/ End("raised")
  /\ UNCHANGED <<inputVars, piVars, serverVars>>

\* tmux may fail
PiPasteFails ==
  /\ Runs("pi", "paste")
  /\ End("raised")
  /\ UNCHANGED <<inputVars, piVars, serverVars>>

PiPaste ==
  /\ Runs("pi", "paste")
  /\ seen' = [user |-> Cardinality(Entries("user")), assistant |-> Cardinality(Entries("assistant"))]
  /\ behind' = (pasted # <<>>)
  /\ pasted' = Append(pasted, prompt)
  /\ length' = Null /\ stable' = 0
  /\ Goto("poll")
  /\ UNCHANGED <<inputVars, prompt, turn, rounds, entries, answers, serverVars>>

\* Variant: the last answer is taken, whether or not the prompt was begun.
HasAnswerAtAll ==
  /\ Cardinality(Entries("assistant")) > 0
  /\ entries[Len(entries)].role = "assistant" /\ entries[Len(entries)].final

\* more users, more assistants, and the last entry ends a turn
HasAnswer ==
  /\ Cardinality(Entries("user")) > seen.user
  /\ Cardinality(Entries("assistant")) > seen.assistant
  /\ entries[Len(entries)].role = "assistant" /\ entries[Len(entries)].final

NextPrompt ==
  IF prompt < Prompts THEN prompt' = prompt + 1 /\ Goto("paste")
                      ELSE UNCHANGED prompt /\ End("complete")

\* --fail-fast ends a run at a timeout; --target-context may end it at an answer
PiConclude(a) ==
  /\ answers' = Append(answers, a)
  /\ \/ NextPrompt
     \/ /\ IF a = Null THEN "fail_fast" \in flags ELSE "target_context" \in flags
        /\ UNCHANGED prompt /\ End("complete")

\* One poll.  Two polls in a row that find what the one before found are needed.
PiPoll ==
  /\ Runs("pi", "poll")
  /\ IF ~HasAnswer
       THEN length' = Null /\ stable' = 0 /\ UNCHANGED <<stepVars, prompt, answers>>
       ELSE /\ length' = Len(entries)
            /\ stable' = IF length' = length THEN stable + 1 ELSE 0
            /\ IF stable' < 2 THEN UNCHANGED <<stepVars, prompt, answers>>
               ELSE PiConclude([of |-> entries[Len(entries)].prompt, behind |-> behind])
  /\ UNCHANGED <<inputVars, pasted, turn, rounds, entries, behind, seen, serverVars>>

\* the timeout of a prompt: a failed result, and the next prompt
PiTimeout ==
  /\ Runs("pi", "poll")
  /\ PiConclude(Null)
  /\ UNCHANGED <<inputVars, pasted, turn, rounds, entries, behind, seen, length, stable, serverVars>>

PiStep == PiLaunch \/ PiPasteFails \/ PiPaste \/ PiPoll \/ PiTimeout
=============================================================================
