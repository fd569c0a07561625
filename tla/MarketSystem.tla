---------------------------- MODULE MarketSystem -----------------------------
(***************************************************************************)
(* The programs that search the market, over one market policy and one     *)
(* account: select_and_launch (up to the create call), smoke_chat_once,    *)
(* select_launch_llamacpp and the market scan.  The initial states are all *)
(* the ways to start one of them.                                          *)
(***************************************************************************)
EXTENDS GuardedSelection, SmokeLoop, LlamacppLauncher, MarketScan

CONSTANT CommandLines   \* program -> the sets of flags it may be given

ASSUME MarketConstants ==
  /\ \A offers \in Markets : Null \notin offers /\ IsFiniteSet(offers)
  /\ SearchLimit \in Nat \ {0}
  /\ \A p \in Policies : p = [limit \in DOMAIN p |-> p[limit]] /\ "max_dph_total" \in DOMAIN p
  /\ \A given \in CommandLines["llamacpp"] : "dry_run" \notin given
  /\ Null # "0"

vars == <<marketVars, cloudVars, smokeVars, llamaVars, scanVars>>

FirstStep == [select |-> "start", smoke |-> "search", llamacpp |-> "start", scan |-> "start"]

Init ==
  /\ program \in DOMAIN FirstStep
  /\ flags \in CommandLines[program]
  /\ market \in Markets /\ policy \in Policies
  /\ pc = FirstStep[program]
  /\ choice = Null /\ asked = {} /\ outcome = Null
  /\ CloudInit /\ SmokeInit /\ LlamaInit /\ ScanInit

ProgramStep ==
  \/ SelectStep /\ UNCHANGED <<smokeVars, llamaVars, scanVars>>
  \/ SmokeStep /\ UNCHANGED <<llamaVars, scanVars>>
  \/ LlamaStep /\ UNCHANGED <<smokeVars, scanVars>>
  \/ ScanStep /\ UNCHANGED <<smokeVars, llamaVars>>

Environment ==
  \/ CloudNext /\ UNCHANGED <<marketVars, smokeVars, llamaVars, scanVars>>
  \/ SmokeInterrupt /\ UNCHANGED <<llamaVars, scanVars>>
  \/ (LlamaRerun \/ ScriptStep \/ ObjectReplaced) /\ UNCHANGED <<smokeVars, scanVars>>
  \/ Migrate /\ UNCHANGED <<smokeVars, llamaVars>>

Next == ProgramStep \/ Environment

Spec == Init /\ [][Next]_vars

\* Every program goes on by itself: its waits are bounded by its timeouts and
\* its questions are answered.
FairSpec == Spec /\ WF_vars(ProgramStep)

-----------------------------------------------------------------------------
OfferOrNone == (UNION Markets) \union {Null}

MarketTypeOK ==
  /\ CloudTypeOK
  /\ program \in DOMAIN FirstStep /\ market \in Markets /\ choice \in OfferOrNone
  /\ asked \subseteq {"infra", "launch", "bootstrap"}
  /\ attempt \in 0..LaunchAttempts /\ polls \in 0..ReadyPolls
  /\ result \in Failures \union {"0", "interrupted", Null}
  /\ said \in [1..LaunchAttempts -> {"launch_only", "no_id", "leaving", "destroyed", "warn", Null}]
  /\ llamaRun \in 1..LlamaRuns /\ ask \in 1..AskIds /\ probes \in 0..ServicePolls
  /\ object \in 1..ModelVersions /\ expected \in 0..ModelVersions
  /\ file \in 0..ModelVersions /\ tmp \in 0..ModelVersions /\ {stack, survivor} \subseteq 0..ModelVersions
  /\ rows \subseteq [scan : 1..Scans, profile : Profiles, offer : UNION Markets]
  /\ pending \subseteq batch /\ todo \subseteq Profiles

\* at least so many offers as one query returns are not dearer by the hour,
\* which is what the service sorts by
OutOfReach(o, limit) ==
  \A c \in policy.configs :
    Matches(o, c, policy) =>
      Cardinality({b \in market \ {o} :
        Matches(b, c, policy) /\ (b.dph_total = Null \/ b.dph_total <= o.dph_total)}) >= limit

\* What is selected is the best there is.  It has a price and is neither
\* greylisted nor deverified; and whatever acceptable offer of the whole
\* market would have come before it was out of the search's reach, as the
\* choice counts the download, and the service's order does not.
ChoosesTheBest ==
  program \in {"select", "smoke"} /\ choice # Null =>
    /\ choice.dph_total \notin {Null, 0} /\ choice.dph_total <= policy.max_dph_total
    /\ choice.storage_total_cost # Null
    /\ choice.machine_id \notin policy.greylisted_machine_ids
    /\ choice.verification # "deverified"
    /\ \A o \in market :
         OfferPasses(o, policy) /\ KeyBefore(SelectionKey(o, policy), SelectionKey(choice, policy))
           => OutOfReach(o, SearchLimit)

\* Money is spent on an answer only: whatever select_and_launch or the
\* llama.cpp launcher rents has been approved twice, before the search and
\* before the launch, with an offer chosen under an accepted policy, and never
\* by a run that was only to check.
NothingRentedUnasked ==
  program \in {"select", "llamacpp"} /\ Rented # {} =>
    /\ {"infra", "launch"} \subseteq asked /\ choice # Null
    /\ flags \intersect {"check_only", "dry_run"} = {}
    /\ program = "llamacpp" /\ "max_dph" \in flags => choice.dph_total <= CliMaxDph

\* One run of a launcher makes at most one contract, although the llama.cpp
\* launcher tries several ask ids and a failed create may have rented.
OneContractPerLaunch ==
  program \in {"select", "llamacpp"} => Cardinality(Rented) <= 1

\* smoke_chat_once accounts for every instance it leaves billed: it is still
\* working on it, or its closing line says so for a reason that the command
\* line gave or a call that failed, or the program ended in the create or show
\* call or by a second interrupt.
BilledInstancesAreAccounted ==
  program = "smoke" =>
    \A a \in 1..LaunchAttempts : cloud[a] = "live" =>
      \/ a = attempt /\ pc \in {"wait", "chat", "close"}
      \/ said[a] \in {"no_id", "warn"}
      \/ said[a] = "launch_only" /\ "launch_only" \in flags
      \/ said[a] = "leaving" /\ "no_destroy_on_error" \in flags /\ ~(a = attempt /\ outcome = "0")
      \/ a = attempt /\ outcome \in {"create_raised", "show_raised"}
      \/ a = attempt /\ outcome = "interrupted" /\ said[a] = Null

\* When the llama.cpp launcher prints its endpoint, the server behind it has
\* loaded the model that was in the bucket when this run looked, although a
\* file from an earlier run, broken off at any step, may have been in place.
\* The one way to another model, or to no server, is that an old server was
\* still up after the script's kill, and answered the probe.
OnlySurvivorsAreStale ==
  Runs("llamacpp", "print") =>
    \/ stack = expected /\ stack # 0
    \/ survivor # 0 /\ stack \in {survivor, 0}

\* A scan's rows are all in the table or none of them is, so "cheapest passing
\* offer for this (profile, scan) pair" can be compared across profiles.
ScanIsAtomic ==
  program = "scan" =>
    LET recorded == {r \in rows : r.scan = scan} IN recorded \in {{}, batch}

\* "inlined from select_and_launch.py": what the scan advertises for a profile
\* is an offer that the launcher would accept for it, and no acceptable one in
\* its search's reach costs less with the download.
RecordedOffersAreBest ==
  \A r \in rows :
    /\ OfferPasses(r.offer, policy)
    /\ \A o \in market :
         OfferPasses(o, policy) /\ EffectiveCost(o, policy) < EffectiveCost(r.offer, policy)
           => OutOfReach(o, ScanLimit)

\* Every program comes to its end, but for a scan with --minutes: it comes back
\* to its pause, whatever its scans meet, until the database is lost.
ProgramsEnd ==
  []<>(pc = "ended" \/ ("loop" \in flags /\ Runs("scan", "scan")))

-----------------------------------------------------------------------------
\* scripts/scan_best_value_per_profile.py:13 "One row per (profile, scan) in the
\* market_offers table": a scan that has found
\* offers and ended leaves their rows in the table, if the database works.
FoundOffersAreRecorded ==
  program = "scan" /\ outcome = "complete" /\ ~DatabaseFaults => batch \subseteq rows
=============================================================================
