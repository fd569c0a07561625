----------------------------- MODULE SmokeLoop -------------------------------
(***************************************************************************)
(* scripts/smoke_chat_once.py: rent an offer, wait until it answers, chat  *)
(* once (or run a short load), destroy it; try again on a failure.  There  *)
(* is no ledger and no monitor: the loop's own closeout is all that ends   *)
(* the billing.                                                            *)
(***************************************************************************)
EXTENDS OfferMarket

CONSTANTS
  LaunchAttempts,   \* --launch-attempts
  ReadyPolls        \* the polls that fit into --ready-timeout

ASSUME SmokeConstants ==
  /\ LaunchAttempts \in Nat \ {0} /\ ReadyPolls \in Nat \ {0}
  /\ 1..LaunchAttempts \subseteq Instances

VARIABLES
  attempt,   \* the launch attempt; attempt a rents instance a
  polls,     \* the polls of this attempt
  result,    \* what the try block is left with, Null inside it
  said       \* attempt -> the closing line printed for its instance

smokeVars == <<attempt, polls, result, said>>

SmokeInit ==
  /\ attempt = 0 /\ polls = 0 /\ result = Null
  /\ said = [a \in 1..LaunchAttempts |-> Null]

Say(line) == said' = [said EXCEPT ![attempt] = line]

\* an attempt: search again, take the best offer; without one, try again
SmokeSearch ==
  /\ Runs("smoke", "search")
  /\ attempt < LaunchAttempts
  /\ attempt' = attempt + 1
  /\ polls' = 0
  /\ \/ End("raised") /\ UNCHANGED choice
     \/ \E raw \in SearchResults(market, policy, SearchLimit) :
          IF FirstChoices(raw, policy) = {}
            THEN choice' = Null /\ Goto("search")
            ELSE choice' \in FirstChoices(raw, policy) /\ Goto("create")
  /\ UNCHANGED <<inputVars, asked, result, said, cloudVars>>

SmokeGivesUp ==
  /\ Runs("smoke", "search")
  /\ attempt = LaunchAttempts
  /\ End("2")
  /\ UNCHANGED <<inputVars, choice, asked, smokeVars, cloudVars>>

\* create_instance returned; with --launch-only the instance is left running
SmokeCreate ==
  /\ Runs("smoke", "create")
  /\ Rent(attempt)
  /\ IF "launch_only" \in flags
       THEN \/ Say("launch_only") /\ End("0")
            \/ UNCHANGED said /\ End("show_raised")
       ELSE UNCHANGED said /\ Goto("wait")
  /\ UNCHANGED <<inputVars, choice, asked, attempt, polls, result>>

\* An answer without an id goes on to the next attempt, an exception ends the
\* program; either way Vast may have made the contract.
SmokeCreateFails ==
  /\ Runs("smoke", "create")
  /\ Rent(attempt) \/ UNCHANGED cloudVars
  /\ \/ Say("no_id") /\ Goto("search")
     \/ UNCHANGED said /\ End("create_raised")
  /\ UNCHANGED <<inputVars, choice, asked, attempt, polls, result>>

\* leaving the try block for the finally clause
Close(how) == result' = how /\ Goto("close")

\* One round of the readiness loop: show_instance may raise, the logs may tell
\* of a failure the provisioner does not retry, /v1/models may answer 200 on a
\* live instance; otherwise wait, until the time is up.
SmokePoll ==
  /\ Runs("smoke", "wait")
  /\ IF polls = ReadyPolls
       THEN Close("timeout") /\ UNCHANGED polls
       ELSE /\ polls' = polls + 1
            /\ \/ Close("raised") \/ Close("fatal")
               \/ cloud[attempt] = "live" /\ Goto("chat") /\ UNCHANGED result
               \/ Goto("wait") /\ UNCHANGED result
  /\ UNCHANGED <<inputVars, choice, asked, attempt, said, cloudVars>>

\* the chat's or the bench's code is the program's
SmokeChat ==
  /\ Runs("smoke", "chat")
  /\ \/ cloud[attempt] = "live" /\ Close("0")
     \/ Close("1") \/ Close("raised")
  /\ UNCHANGED <<inputVars, choice, asked, attempt, polls, said, cloudVars>>

Failures == {"fatal", "timeout", "1", "raised"}

\* destroy_instance = False
Keeps == "no_destroy_on_error" \in flags /\ result \in Failures

\* Ctrl-C: no "except Exception" clause, but the finally clause.  A create or
\* destroy call that is interrupted may have had its effect.
SmokeInterrupt ==
  /\ program = "smoke" /\ pc \in {"search", "create", "wait", "chat", "close"}
  /\ IF pc \in {"wait", "chat"}
       THEN Close("interrupted")
       ELSE End("interrupted") /\ result' = Null
  /\ \/ UNCHANGED cloudVars
     \/ pc = "create" /\ Rent(attempt)
     \/ pc = "close" /\ ~Keeps /\ Delete(attempt)
  /\ UNCHANGED <<inputVars, choice, asked, attempt, polls, said>>

\* Variant: a failed attempt goes back to polling.
LeavePolls ==
  /\ IF result \in {"fatal", "timeout"} THEN Goto("wait") ELSE End(result)
  /\ result' = Null

\* after the finally clause: the next attempt, the code, or the exception
Leave ==
  /\ IF result \in {"fatal", "timeout"} THEN Goto("search") ELSE End(result)
  /\ result' = Null

\* Variant: the instance is destroyed only when the attempt failed.
SmokeCloseFailed ==
  /\ Runs("smoke", "close")
  /\ \/ Keeps /\ Say("leaving") /\ UNCHANGED cloudVars
     \/ ~Keeps /\ result \in Failures /\ DestroyReturns(attempt) /\ Say("destroyed")
     \/ ~Keeps /\ result \notin Failures /\ UNCHANGED <<said, cloudVars>>
  /\ Leave
  /\ UNCHANGED <<inputVars, choice, asked, attempt, polls>>

\* the finally clause: save the debug files, then destroy or say why not; a
\* destroy call that raises is a warning
SmokeClose ==
  /\ Runs("smoke", "close")
  /\ \/ Keeps /\ Say("leaving") /\ UNCHANGED cloudVars
     \/ ~Keeps /\ DestroyReturns(attempt) /\ Say("destroyed")
     \/ ~Keeps /\ DestroyRaises(attempt) /\ Say("warn")
  /\ Leave
  /\ UNCHANGED <<inputVars, choice, asked, attempt, polls>>

SmokeStep ==
  \/ SmokeSearch \/ SmokeGivesUp \/ SmokeCreate \/ SmokeCreateFails
  \/ SmokePoll \/ SmokeChat \/ SmokeClose
=============================================================================
