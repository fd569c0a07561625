---------------------------- MODULE OfferMarket ------------------------------
(***************************************************************************)
(* What the programs that search the market have in common: their inputs   *)
(* (which program runs, with which flags, under which policy, over which   *)
(* market) and the step the program is at.  A behaviour is the life of one *)
(* program; the market and the account are Vast's.                         *)
(***************************************************************************)
EXTENDS OfferPolicy, VastCloud

CONSTANTS
  Markets,      \* the sets of offers the service may hold
  Policies,     \* the launch profiles' policies
  SearchLimit   \* the search_limit of a launch

VARIABLES
  program,   \* the program that runs
  flags,     \* its command line
  market,    \* the offers on the market
  policy,    \* its launch profile, as patched
  pc,        \* its next step
  choice,    \* the offer it has selected, Null before
  asked,     \* the questions answered with yes, or by a --yes flag
  outcome    \* how it ended, Null until then

inputVars == <<program, flags, market, policy>>
marketVars == <<inputVars, pc, choice, asked, outcome>>

Runs(p, step) == program = p /\ pc = step

Goto(step) == pc' = step /\ UNCHANGED outcome

End(how) == pc' = "ended" /\ outcome' = how

\* A [y/N] question, or the flag that answers it: yes goes on, no is the end.
Ask(question, next) ==
  \/ asked' = asked \union {question} /\ Goto(next)
  \/ UNCHANGED asked /\ End("aborted")
=============================================================================
