---------------------------- MODULE MarketProofs -----------------------------
(***************************************************************************)
(* Proofs about MarketSystem, for all markets, policies, command lines and *)
(* bounds: what is rented on whose word, what is left billed, what the     *)
(* bootstrapped host serves, and what a scan records.                      *)
(***************************************************************************)
EXTENDS MarketSystem, FiniteSetTheorems, TLAPS

-----------------------------------------------------------------------------
(* The host *)

\* The host's own invariant: where the bootstrap script stands, it has checked
\* the file against the length of the object it asked for, and what is up is a
\* server with that file or the one that the kill has left.
HostInv ==
  /\ object \in Nat \ {0}
  /\ script \in {"download", "check"} => expected # 0
  /\ script \in {"prepare", "restart", "launch"} => file = expected /\ expected # 0
  /\ script = "launch" => stack \in {0, survivor}
  /\ script = "done" => stack \in {0, survivor, expected} /\ expected # 0
  /\ program = "llamacpp" =>
       /\ pc \in {"probe", "print"} => script = "done"
       /\ pc = "print" => stack # 0 \/ survivor # 0

LEMMA HostInit == Init => HostInv
  BY DEF Init, LlamaInit, FirstStep, HostInv

LEMMA HostStep == HostInv /\ [Next]_vars => HostInv'
<1> SUFFICES ASSUME HostInv, [Next]_vars PROVE HostInv'
  OBVIOUS
<1> USE DEF HostInv, inputVars, marketVars, llamaVars, hostVars, Goto, End, Ask
<1>1. CASE SelectStep /\ UNCHANGED llamaVars
  BY <1>1 DEF SelectStep, SelectPatch, SelectAskInfra, SelectSearch, SelectConfirm, SelectCreate, Runs
<1>2. CASE SmokeStep /\ UNCHANGED llamaVars
  BY <1>2 DEF SmokeStep, SmokeSearch, SmokeGivesUp, SmokeCreate, SmokeCreateFails, SmokePoll, SmokeChat, SmokeClose, Runs
<1>3. CASE ScanStep /\ UNCHANGED llamaVars
  BY <1>3 DEF ScanStep, ScanStart, ScanBegin, ScanProfile, ScanFoundNothing, ScanInsert, ScanCommit, ScanInsertFails, ScanDatabaseLost, Runs
<1>4. CASE LlamaStep
  BY <1>4 DEF LlamaStep, LlamaAskInfra, LlamaSearch, LlamaCreate, LlamaCreateFails, LlamaWait, LlamaBootstrap, LlamaScriptEnds, LlamaProbe, LlamaPrint, Runs
<1>5. CASE ScriptStep
  BY <1>5 DEF ScriptStep, ScriptRuns, ScriptFails, ScriptFetch, ScriptDownload, ScriptMove, ScriptPrepare, ScriptRestart, ScriptLaunch, SurvivorStops
<1>6. CASE LlamaRerun \/ ObjectReplaced
  BY <1>6 DEF LlamaRerun, ObjectReplaced, Runs
<1>7. CASE SmokeInterrupt /\ UNCHANGED llamaVars
  BY <1>7 DEF SmokeInterrupt, Close
<1>8. CASE UNCHANGED <<marketVars, llamaVars>>
  BY <1>8
<1> QED
  BY <1>1, <1>2, <1>3, <1>4, <1>5, <1>6, <1>7, <1>8 DEF Next, ProgramStep, Environment, Migrate, vars

\* What the launcher prints an endpoint for is a server with the model that
\* this run's script asked for, unless an old server outlived the script's kill.
THEOREM StaleServersAreSurvivors == Spec => []OnlySurvivorsAreStale
<1>1. HostInv => OnlySurvivorsAreStale
  BY DEF HostInv, OnlySurvivorsAreStale, Runs
<1> QED BY HostInit, HostStep, <1>1, PTL DEF Spec

-----------------------------------------------------------------------------
(* The scan *)

\* A scan's rows carry its number, and none is in the table before the commit.
ScanInv ==
  program = "scan" =>
    /\ scan \in Nat
    /\ \A r \in batch : r.scan = scan
    /\ \A r \in rows : r.scan \in Nat /\ r.scan <= scan
    /\ pending \subseteq batch
    /\ pc = "profiles" => \A r \in rows : r.scan # scan
    /\ pc # "profiles" => pending = {} /\ {r \in rows : r.scan = scan} \in {{}, batch}

LEMMA ScanInvInit == Init => ScanInv
  BY DEF Init, ScanInit, FirstStep, ScanInv

LEMMA ScanInvStep == ScanInv /\ [Next]_vars => ScanInv'
<1> SUFFICES ASSUME ScanInv, [Next]_vars PROVE ScanInv'
  OBVIOUS
<1> USE DEF ScanInv, inputVars, marketVars, scanVars, Goto, End, Ask
<1>1. CASE SelectStep /\ UNCHANGED scanVars
  BY <1>1 DEF SelectStep, SelectPatch, SelectAskInfra, SelectSearch, SelectConfirm, SelectCreate, Runs
<1>2. CASE SmokeStep /\ UNCHANGED scanVars
  BY <1>2 DEF SmokeStep, SmokeSearch, SmokeGivesUp, SmokeCreate, SmokeCreateFails, SmokePoll, SmokeChat, SmokeClose, Runs
<1>3. CASE ScanStep
  <2>1. CASE ScanStart
    BY <1>3, <2>1 DEF ScanStart, Make, Runs
  <2>2. CASE ScanBegin
    BY <1>3, <2>2 DEF ScanBegin, Runs
  <2>3. CASE ScanProfile
    BY <1>3, <2>3 DEF ScanProfile, Runs
  <2>4. CASE ScanFoundNothing
    BY <1>3, <2>4 DEF ScanFoundNothing, Again, Runs
  <2>5. CASE ScanInsert
    BY <1>3, <2>5 DEF ScanInsert, Runs
  <2>6. CASE ScanCommit
    BY <1>3, <2>6 DEF ScanCommit, Again, Runs
  <2>7. CASE ScanInsertFails
    BY <1>3, <2>7 DEF ScanInsertFails, Again, Runs
  <2>8. CASE ScanDatabaseLost
    BY <1>3, <2>8 DEF ScanDatabaseLost, Runs
  <2> QED BY <1>3, <2>1, <2>2, <2>3, <2>4, <2>5, <2>6, <2>7, <2>8 DEF ScanStep
<1>4. CASE LlamaStep /\ UNCHANGED scanVars
  BY <1>4 DEF LlamaStep, LlamaAskInfra, LlamaSearch, LlamaCreate, LlamaCreateFails, LlamaWait, LlamaBootstrap, LlamaScriptEnds, LlamaProbe, LlamaPrint, Runs
<1>5. CASE (LlamaRerun \/ SmokeInterrupt) /\ UNCHANGED scanVars
  BY <1>5 DEF LlamaRerun, SmokeInterrupt, Runs
<1>6. CASE UNCHANGED marketVars /\ UNCHANGED <<rows, pending, scan, todo, batch>>
  BY <1>6
<1> QED
  BY <1>1, <1>2, <1>3, <1>4, <1>5, <1>6
  DEF Next, ProgramStep, Environment, Migrate, vars, ScriptStep, ScriptFails, ScriptFetch, ScriptDownload,
      ScriptMove, ScriptPrepare, ScriptRestart, ScriptLaunch, SurvivorStops, ObjectReplaced

\* A scan's rows are in the table together or not at all.
THEOREM ScansAreAtomic == Spec => []ScanIsAtomic
<1>1. ScanInv => ScanIsAtomic
  BY DEF ScanInv, ScanIsAtomic
<1> QED BY ScanInvInit, ScanInvStep, <1>1, PTL DEF Spec

-----------------------------------------------------------------------------
(* The account *)

\* The account, and the instance each program is at.
AccountInv ==
  /\ CloudTypeOK
  /\ program = "llamacpp" => ask \in 1..AskIds
  /\ program = "smoke" =>
       /\ attempt \in 0..LaunchAttempts
       /\ pc \in {"create", "wait", "chat", "close"} => attempt # 0

LEMMA AccountInit == Init => AccountInv
  BY LlamaConstants, SmokeConstants
  DEF Init, CloudInit, LlamaInit, SmokeInit, FirstStep, AccountInv, CloudTypeOK

\* The calls that touch the account, each for an instance there is.
LEMMA CloudCalls ==
  ASSUME CloudTypeOK, NEW i \in Instances,
         Rent(i) \/ Delete(i) \/ ConsoleDelete(i) \/ HostLoss(i) \/ UNCHANGED cloudVars
  PROVE  CloudTypeOK'
  BY DEF CloudTypeOK, Rent, Delete, ConsoleDelete, HostLoss, cloudVars

LEMMA AccountStep == AccountInv /\ [Next]_vars => AccountInv'
<1> SUFFICES ASSUME AccountInv, [Next]_vars PROVE AccountInv'
  OBVIOUS
<1> USE LlamaConstants, SmokeConstants
    DEF AccountInv, inputVars, marketVars, cloudVars, llamaVars, hostVars, Goto, End, Ask
<1>1. CASE SelectStep /\ UNCHANGED <<smokeVars, llamaVars>>
  <2>1. CASE SelectCreate
    BY <1>1, <2>1, CloudCalls DEF SelectCreate, Runs, smokeVars
  <2> QED
    BY <1>1, <2>1 DEF SelectStep, SelectPatch, SelectAskInfra, SelectSearch, SelectConfirm, Runs, CloudTypeOK, smokeVars
<1>2. CASE SmokeStep /\ UNCHANGED llamaVars
  <2>1. CASE SmokeCreate \/ SmokeCreateFails
    <3>1. attempt \in Instances
      BY <2>1 DEF SmokeCreate, SmokeCreateFails, Runs
    <3>2. CloudTypeOK'
      BY <2>1, <3>1, CloudCalls DEF SmokeCreate, SmokeCreateFails, Runs
    <3> QED BY <1>2, <2>1, <3>2 DEF SmokeCreate, SmokeCreateFails, Runs
  <2>2. CASE SmokeClose
    <3>1. attempt \in Instances
      BY <2>2 DEF SmokeClose, Runs
    <3>2. CloudTypeOK'
      BY <2>2, <3>1, CloudCalls DEF SmokeClose, DestroyReturns, DestroyRaises
    <3> QED BY <1>2, <2>2, <3>2 DEF SmokeClose, Runs, Leave
  <2>3. CASE SmokeSearch \/ SmokeGivesUp
    BY <1>2, <2>3 DEF SmokeSearch, SmokeGivesUp, Runs, CloudTypeOK, smokeVars
  <2>4. CASE SmokePoll \/ SmokeChat
    BY <1>2, <2>4 DEF SmokePoll, SmokeChat, Runs, Close, CloudTypeOK
  <2> QED BY <1>2, <2>1, <2>2, <2>3, <2>4 DEF SmokeStep
<1>3. CASE ScanStep /\ UNCHANGED <<smokeVars, llamaVars>>
  BY <1>3 DEF ScanStep, ScanStart, ScanBegin, ScanProfile, ScanFoundNothing, ScanInsert, ScanCommit, ScanInsertFails, ScanDatabaseLost, Runs, CloudTypeOK, smokeVars
<1>4. CASE LlamaStep /\ UNCHANGED smokeVars
  <2>1. CASE LlamaCreate \/ LlamaCreateFails
    <3>1. ask \in Instances
      BY <2>1 DEF LlamaCreate, LlamaCreateFails, Runs
    <3>2. CloudTypeOK'
      BY <2>1, <3>1, CloudCalls DEF LlamaCreate, LlamaCreateFails
    <3> QED BY <1>4, <2>1, <3>2 DEF LlamaCreate, LlamaCreateFails, Runs
  <2> QED
    BY <1>4, <2>1
    DEF LlamaStep, LlamaAskInfra, LlamaSearch, LlamaWait, LlamaBootstrap, LlamaScriptEnds, LlamaProbe, LlamaPrint, Runs, CloudTypeOK
<1>5. CASE CloudNext /\ UNCHANGED <<marketVars, smokeVars, llamaVars>>
  BY <1>5, CloudCalls DEF CloudNext, smokeVars
<1>6. CASE SmokeInterrupt /\ UNCHANGED llamaVars
  <2>1. CloudTypeOK'
    <3>1. CASE pc \in {"create", "close"}
      <4>1. attempt \in Instances
        BY <1>6, <3>1 DEF SmokeInterrupt
      <4> QED BY <1>6, <4>1, CloudCalls DEF SmokeInterrupt
    <3> QED BY <1>6, <3>1 DEF SmokeInterrupt, CloudTypeOK
  <2> QED BY <1>6, <2>1 DEF SmokeInterrupt, Close
<1>7. CASE LlamaRerun /\ UNCHANGED smokeVars
  BY <1>7 DEF LlamaRerun, Runs, CloudTypeOK
<1>8. CASE UNCHANGED <<marketVars, cloudVars, ask, smokeVars>>
  BY <1>8 DEF CloudTypeOK, smokeVars
<1> QED
  BY <1>1, <1>2, <1>3, <1>4, <1>5, <1>6, <1>7, <1>8
  DEF Next, ProgramStep, Environment, Migrate, vars, ScriptStep, ScriptFails, ScriptFetch, ScriptDownload,
      ScriptMove, ScriptPrepare, ScriptRestart, ScriptLaunch, SurvivorStops, ObjectReplaced

\* no instance is rented
Clean == \A i \in Instances : cloud[i] = "none"

\* Before its create call a launcher has rented nothing, and afterwards nothing
\* but the instance of the ask it is at.
ContractInv ==
  /\ program = "llamacpp" =>
       /\ pc \in {"start", "search", "create"} => Clean
       /\ \A i \in Instances : cloud[i] # "none" => i = ask
  /\ program = "select" =>
       /\ pc # "ended" => Clean
       /\ \A i \in Instances : cloud[i] # "none" => i = 1

LEMMA ContractInit == Init => ContractInv
  BY DEF Init, CloudInit, LlamaInit, FirstStep, ContractInv, Clean

LEMMA ContractStep == AccountInv /\ ContractInv /\ [Next]_vars => ContractInv'
<1> SUFFICES ASSUME AccountInv, ContractInv, [Next]_vars PROVE ContractInv'
  OBVIOUS
<1>0. CloudTypeOK /\ CloudTypeOK'
  BY AccountStep DEF AccountInv
<1> USE <1>0
    DEF ContractInv, Clean, inputVars, marketVars, cloudVars, llamaVars, hostVars, Goto, End, Ask
<1>1. CASE SelectStep /\ UNCHANGED llamaVars
  BY <1>1 DEF SelectStep, SelectPatch, SelectAskInfra, SelectSearch, SelectConfirm, SelectCreate, Runs, Rent, CloudTypeOK
<1>2. CASE SmokeStep /\ UNCHANGED llamaVars
  BY <1>2 DEF SmokeStep, SmokeSearch, SmokeGivesUp, SmokeCreate, SmokeCreateFails, SmokePoll, SmokeChat, SmokeClose, Runs
<1>3. CASE ScanStep /\ UNCHANGED llamaVars
  BY <1>3 DEF ScanStep, ScanStart, ScanBegin, ScanProfile, ScanFoundNothing, ScanInsert, ScanCommit, ScanInsertFails, ScanDatabaseLost, Runs
<1>4. CASE LlamaStep
  <2>1. CASE LlamaCreate
    BY <2>1 DEF LlamaCreate, Runs, Rent, CloudTypeOK
  <2>2. CASE LlamaCreateFails
    BY <2>2 DEF LlamaCreateFails, Runs, Rent, CloudTypeOK
  <2> QED BY <1>4, <2>1, <2>2 DEF LlamaStep, LlamaAskInfra, LlamaSearch, LlamaWait, LlamaBootstrap, LlamaScriptEnds, LlamaProbe, LlamaPrint, Runs
<1>5. CASE CloudNext /\ UNCHANGED <<marketVars, llamaVars>>
  <2>1. \A i \in Instances : cloud[i] = "none" => cloud'[i] = "none"
    BY <1>5 DEF CloudNext, ConsoleDelete, HostLoss, Delete, CloudTypeOK
  <2> QED BY <1>5, <2>1
<1>6. CASE SmokeInterrupt /\ UNCHANGED llamaVars
  BY <1>6 DEF SmokeInterrupt, Close
<1>7. CASE LlamaRerun
  BY <1>7 DEF LlamaRerun, Runs
<1>8. CASE UNCHANGED <<marketVars, cloudVars, ask>>
  BY <1>8
<1> QED
  BY <1>1, <1>2, <1>3, <1>4, <1>5, <1>6, <1>7, <1>8
  DEF Next, ProgramStep, Environment, Migrate, vars, ScriptStep, ScriptFails, ScriptFetch, ScriptDownload,
      ScriptMove, ScriptPrepare, ScriptRestart, ScriptLaunch, SurvivorStops, ObjectReplaced

\* A launcher's run rents at most one instance, whichever asks it tries.
THEOREM OneContractForALaunch == Spec => []OneContractPerLaunch
<1>1. ContractInv => OneContractPerLaunch
  <2> SUFFICES ASSUME ContractInv, program \in {"select", "llamacpp"}, NEW only, \A i \in Rented : i = only
               PROVE Cardinality(Rented) <= 1
    BY DEF ContractInv, OneContractPerLaunch, Rented
  <2>1. CASE Rented = {}
    BY <2>1, FS_EmptySet
  <2>2. CASE Rented = {only}
    BY <2>2, FS_Singleton
  <2> QED BY <2>1, <2>2
<1> QED BY AccountInit, AccountStep, ContractInit, ContractStep, <1>1, PTL DEF Spec

-----------------------------------------------------------------------------
(* The questions *)

\* A search returns offers of the market.
LEMMA SearchedOnTheMarket ==
  ASSUME NEW p, NEW limit, NEW raw \in SearchResults(market, p, limit)
  PROVE  raw \subseteq market
  BY DEF SearchResults

\* what has to be settled before an instance is rented
Settling(chosen, answers) ==
  /\ {"infra", "launch"} \subseteq answers /\ chosen # Null
  /\ flags \intersect {"check_only", "dry_run"} = {}
  /\ program = "llamacpp" /\ "max_dph" \in flags => chosen.dph_total <= CliMaxDph

\* Each question is asked in its place, and every step behind it has its yes.
AskedInv ==
  /\ Null \notin market
  /\ program = "llamacpp" => policy \in Policies /\ "dry_run" \notin flags
  /\ program \in {"select", "llamacpp"} =>
       /\ pc \in {"search", "confirm"} => "infra" \in asked \/ "check_only" \in flags
       /\ pc = "confirm" => choice # Null
       /\ pc = "create" \/ Rented # {} => Settling(choice, asked)

LEMMA AskedInit == Init => AskedInv
  BY MarketConstants DEF Init, CloudInit, FirstStep, AskedInv, Rented

\* The operator's limit on the price holds for what the llama.cpp launcher takes.
LEMMA CliLimitHolds ==
  ASSUME policy \in Policies, "max_dph" \in flags, NEW raw, NEW o \in LlamaChoices(raw, LlamaPolicy)
  PROVE  o.dph_total <= CliMaxDph
<1>1. LlamaPolicy.max_dph_total = CliMaxDph
  BY MarketConstants DEF LlamaPolicy, Settled
<1>2. PriceFits(o, LlamaPolicy)
  BY DEF LlamaChoices, LlamaPasses
<1> QED BY <1>1, <1>2 DEF PriceFits, AtMost, Or

LEMMA AskedStep == AccountInv /\ ContractInv /\ AskedInv /\ [Next]_vars => AskedInv'
<1> SUFFICES ASSUME AccountInv, ContractInv, AskedInv, [Next]_vars PROVE AskedInv'
  OBVIOUS
<1>0. CloudTypeOK
  BY DEF AccountInv
<1> USE DEF AskedInv, Settling, inputVars, marketVars, cloudVars, Goto, End, Ask, Runs
<1>1. CASE SelectStep
  <2>1. CASE SelectSearch
    <3>1. Rented = {} /\ Rented' = {}
      BY <2>1 DEF SelectSearch, ContractInv, Clean, Rented
    <3>2. ASSUME NEW raw \in SearchResults(market, policy, SearchLimit), choice' \in FirstChoices(raw, policy)
          PROVE  choice' # Null
      BY <3>2, SearchedOnTheMarket DEF FirstChoices
    <3> QED BY <2>1, <3>1, <3>2 DEF SelectSearch
  <2>2. CASE SelectPatch \/ SelectAskInfra \/ SelectConfirm
    <3>1. Rented = {} /\ Rented' = {}
      BY <2>2 DEF SelectPatch, SelectAskInfra, SelectConfirm, ContractInv, Clean, Rented
    <3> QED BY <2>2, <3>1 DEF SelectPatch, SelectAskInfra, SelectConfirm
  <2>3. CASE SelectCreate
    BY <2>3 DEF SelectCreate
  <2> QED BY <1>1, <2>1, <2>2, <2>3 DEF SelectStep
<1>2. CASE SmokeStep
  BY <1>2 DEF SmokeStep, SmokeSearch, SmokeGivesUp, SmokeCreate, SmokeCreateFails, SmokePoll, SmokeChat, SmokeClose
<1>3. CASE ScanStep
  BY <1>3 DEF ScanStep, ScanStart, ScanBegin, ScanProfile, ScanFoundNothing, ScanInsert, ScanCommit, ScanInsertFails, ScanDatabaseLost
<1>4. CASE LlamaStep
  <2>1. CASE LlamaSearch
    <3>1. Rented = {} /\ Rented' = {}
      BY <2>1 DEF LlamaSearch, ContractInv, Clean, Rented
    <3>2. ASSUME NEW raw \in SearchResults(market, LlamaPolicy, SearchLimit), choice' \in LlamaChoices(raw, LlamaPolicy)
          PROVE  choice' # Null /\ ("max_dph" \in flags => choice'.dph_total <= CliMaxDph)
      BY <2>1, <3>2, SearchedOnTheMarket, CliLimitHolds DEF LlamaSearch, LlamaChoices
    <3> QED BY <2>1, <3>1, <3>2 DEF LlamaSearch
  <2>2. CASE LlamaAskInfra
    BY <2>2 DEF LlamaAskInfra, Rented, ContractInv, Clean
  <2>3. CASE LlamaCreate \/ LlamaCreateFails
    BY <2>3 DEF LlamaCreate, LlamaCreateFails, llamaVars
  <2>4. CASE LlamaWait \/ LlamaBootstrap \/ LlamaScriptEnds \/ LlamaProbe \/ LlamaPrint
    BY <2>4 DEF LlamaWait, LlamaBootstrap, LlamaScriptEnds, LlamaProbe, LlamaPrint, Rented
  <2> QED BY <1>4, <2>1, <2>2, <2>3, <2>4 DEF LlamaStep
<1>5. CASE CloudNext /\ UNCHANGED marketVars
  <2>1. Rented' \subseteq Rented
    BY <1>0, <1>5 DEF CloudNext, ConsoleDelete, HostLoss, Delete, CloudTypeOK, Rented
  <2> QED BY <1>5, <2>1
<1>6. CASE SmokeInterrupt
  BY <1>6 DEF SmokeInterrupt, Close
<1>7. CASE LlamaRerun
  BY <1>7 DEF LlamaRerun, Rented
<1>8. CASE UNCHANGED <<marketVars, cloudVars>>
  BY <1>8 DEF Rented
<1> QED
  BY <1>1, <1>2, <1>3, <1>4, <1>5, <1>6, <1>7, <1>8
  DEF Next, ProgramStep, Environment, Migrate, vars, ScriptStep, ScriptFails, ScriptFetch, ScriptDownload,
      ScriptMove, ScriptPrepare, ScriptRestart, ScriptLaunch, SurvivorStops, ObjectReplaced

\* Nothing is rented that was not approved twice, with a chosen offer and not
\* by a run that was only to look.
THEOREM RentingIsApproved == Spec => []NothingRentedUnasked
<1>1. AskedInv => NothingRentedUnasked
  BY DEF AskedInv, Settling, NothingRentedUnasked
<1> QED BY AccountInit, AccountStep, ContractInit, ContractStep, AskedInit, AskedStep, <1>1, PTL DEF Spec

-----------------------------------------------------------------------------
(* The smoke loop *)

\* an instance of an attempt that is over: its closing line says why it is left
Accounted(a) ==
  cloud[a] = "live" =>
    \/ said[a] \in {"no_id", "warn"}
    \/ said[a] = "leaving" /\ "no_destroy_on_error" \in flags

\* Attempts to come have rented nothing and said nothing; those that are over
\* have accounted for what they rented; the one that runs has yet to.
SmokeInv ==
  program = "smoke" =>
    /\ pc \in {"search", "create", "wait", "chat", "close", "ended"}
    /\ said = [a \in 1..LaunchAttempts |-> said[a]]
    /\ pc # "ended" => outcome = Null
    /\ \A a \in 1..LaunchAttempts :
         /\ a > attempt => cloud[a] = "none" /\ said[a] = Null
         /\ a < attempt => Accounted(a)
         /\ a = attempt /\ pc = "search" => Accounted(a)
         /\ a = attempt /\ pc \in {"create", "wait", "chat", "close"} => said[a] = Null
         /\ a = attempt /\ pc = "create" => cloud[a] = "none"
    /\ pc = "ended" => BilledInstancesAreAccounted

LEMMA SmokeInvInit == Init => SmokeInv
  BY SmokeConstants DEF Init, CloudInit, SmokeInit, FirstStep, SmokeInv

\* An attempt is over: its instance is accounted for, the others are untouched.
LEMMA NextAttempt ==
  ASSUME AccountInv, SmokeInv, program = "smoke", pc \in {"create", "close"},
         UNCHANGED <<program, flags, attempt, outcome>>, pc' = "search",
         said' = [a \in 1..LaunchAttempts |-> said'[a]],
         \A a \in 1..LaunchAttempts \ {attempt} : cloud'[a] = cloud[a] /\ said'[a] = said[a],
         Accounted(attempt)'
  PROVE  SmokeInv'
<1> USE SmokeConstants
<1>1. attempt \in 1..LaunchAttempts
  BY DEF AccountInv
<1>2. ASSUME NEW a \in 1..LaunchAttempts, a > attempt
      PROVE  cloud'[a] = "none" /\ said'[a] = Null
  BY <1>1, <1>2 DEF SmokeInv
<1>3. ASSUME NEW a \in 1..LaunchAttempts, a < attempt
      PROVE  Accounted(a)'
  BY <1>1, <1>3 DEF SmokeInv, Accounted
<1>4. outcome' = Null
  BY DEF SmokeInv
<1> QED BY <1>1, <1>2, <1>3, <1>4 DEF SmokeInv

LEMMA SmokeInvStep == AccountInv /\ SmokeInv /\ [Next]_vars => SmokeInv'
<1> SUFFICES ASSUME AccountInv, SmokeInv, [Next]_vars PROVE SmokeInv'
  OBVIOUS
<1>0. CloudTypeOK /\ CloudTypeOK'
  BY AccountStep DEF AccountInv
<1> USE <1>0, SmokeConstants, MarketConstants
    DEF SmokeInv, Accounted, BilledInstancesAreAccounted, inputVars, marketVars, smokeVars, cloudVars, Goto, End, Runs
<1>1. CASE SelectStep /\ UNCHANGED smokeVars
  BY <1>1 DEF SelectStep, SelectPatch, SelectAskInfra, SelectSearch, SelectConfirm, SelectCreate
<1>2. CASE SmokeSearch
  BY <1>2 DEF SmokeSearch, AccountInv
<1>3. CASE SmokeGivesUp
  BY <1>3 DEF SmokeGivesUp, AccountInv
<1>4. CASE SmokeCreate
  BY <1>4 DEF SmokeCreate, AccountInv, Say, Rent, CloudTypeOK
<1>5. CASE SmokeCreateFails
  <2>1. /\ attempt \in 1..LaunchAttempts /\ said[attempt] = Null /\ pc = "create" /\ program = "smoke"
        /\ said = [a \in 1..LaunchAttempts |-> said[a]]
    BY <1>5 DEF SmokeCreateFails, AccountInv
  <2>2. \A a \in 1..LaunchAttempts \ {attempt} : cloud'[a] = cloud[a] /\ said'[a] = said[a]
    BY <1>5 DEF SmokeCreateFails, Say, Rent, CloudTypeOK
  <2>3. CASE Say("no_id") /\ Goto("search")
    <3>1. said' = [said EXCEPT ![attempt] = "no_id"]
      BY <2>3 DEF Say
    <3>2. said'[attempt] = "no_id" /\ said' = [a \in 1..LaunchAttempts |-> said'[a]]
      BY ONLY <2>1, <3>1
    <3>3. attempt' = attempt /\ pc' = "search" /\ outcome' = outcome /\ program' = program /\ flags' = flags
      BY <1>5, <2>3 DEF SmokeCreateFails
    <3>4. Accounted(attempt)'
      BY <3>2, <3>3
    <3> QED BY <2>1, <2>2, <3>2, <3>3, <3>4, NextAttempt
  <2>4. CASE UNCHANGED said /\ End("create_raised")
    BY <1>5, <2>1, <2>2, <2>4 DEF SmokeCreateFails, AccountInv
  <2> QED BY <1>5, <2>3, <2>4 DEF SmokeCreateFails
<1>6. CASE SmokePoll \/ SmokeChat
  BY <1>6 DEF SmokePoll, SmokeChat, Close, AccountInv
<1>7. CASE SmokeClose
  <2>1. attempt \in 1..LaunchAttempts /\ said[attempt] = Null
    BY <1>7 DEF SmokeClose, AccountInv
  <2>2. \A a \in 1..LaunchAttempts \ {attempt} : cloud'[a] = cloud[a] /\ said'[a] = said[a]
    BY <1>7 DEF SmokeClose, Say, DestroyReturns, DestroyRaises, Delete, CloudTypeOK
  <2>3. \/ Keeps /\ said'[attempt] = "leaving"
        \/ said'[attempt] = "warn"
        \/ cloud'[attempt] = "gone"
    BY <1>7, <2>1 DEF SmokeClose, Say, DestroyReturns, Delete, CloudTypeOK
  <2>4. said' = [a \in 1..LaunchAttempts |-> said'[a]]
    BY <1>7, <2>1 DEF SmokeClose, Say
  <2>5. CASE pc' = "search" /\ outcome' = outcome
    <3>1. pc = "close" /\ program = "smoke" /\ attempt' = attempt /\ flags' = flags /\ program' = program
      BY <1>7 DEF SmokeClose
    <3>2. Accounted(attempt)'
      BY ONLY <2>3, <3>1 DEF Keeps, Accounted
    <3> QED BY <2>2, <2>4, <2>5, <3>1, <3>2, NextAttempt
  <2>6. CASE pc' = "ended" /\ (Keeps => outcome' # "0")
    BY <1>7, <2>1, <2>2, <2>3, <2>4, <2>6 DEF SmokeClose, AccountInv, Keeps
  <2> QED BY <1>7, <2>5, <2>6 DEF SmokeClose, Leave, Keeps, Failures
<1>8. CASE SmokeInterrupt
  <2>1. CASE pc \in {"wait", "chat"}
    BY <1>8, <2>1 DEF SmokeInterrupt, AccountInv, Close
  <2>2. CASE pc = "search"
    BY <1>8, <2>2 DEF SmokeInterrupt, AccountInv
  <2>3. CASE pc = "create"
    BY <1>8, <2>3 DEF SmokeInterrupt, AccountInv, Rent, CloudTypeOK
  <2>4. CASE pc = "close"
    BY <1>8, <2>4 DEF SmokeInterrupt, AccountInv, Delete, CloudTypeOK
  <2> QED BY <1>8, <2>1, <2>2, <2>3, <2>4 DEF SmokeInterrupt
<1>9. CASE ScanStep /\ UNCHANGED smokeVars
  BY <1>9 DEF ScanStep, ScanStart, ScanBegin, ScanProfile, ScanFoundNothing, ScanInsert, ScanCommit, ScanInsertFails, ScanDatabaseLost
<1>10. CASE LlamaStep /\ UNCHANGED smokeVars
  BY <1>10 DEF LlamaStep, LlamaAskInfra, LlamaSearch, LlamaCreate, LlamaCreateFails, LlamaWait, LlamaBootstrap, LlamaScriptEnds, LlamaProbe, LlamaPrint
<1>11. CASE CloudNext /\ UNCHANGED <<marketVars, smokeVars>>
  <2>1. \A i \in Instances : (cloud[i] = "none" => cloud'[i] = "none") /\ (cloud'[i] = "live" => cloud[i] = "live")
    BY <1>11 DEF CloudNext, ConsoleDelete, HostLoss, Delete, CloudTypeOK
  <2> QED BY <1>11, <2>1
<1>12. CASE LlamaRerun /\ UNCHANGED smokeVars
  BY <1>12 DEF LlamaRerun
<1>13. CASE UNCHANGED <<marketVars, cloudVars, smokeVars>>
  BY <1>13
<1> QED
  BY <1>1, <1>2, <1>3, <1>4, <1>5, <1>6, <1>7, <1>8, <1>9, <1>10, <1>11, <1>12, <1>13
  DEF Next, ProgramStep, SmokeStep, Environment, Migrate, vars, ScriptStep, ScriptFails, ScriptFetch, ScriptDownload,
      ScriptMove, ScriptPrepare, ScriptRestart, ScriptLaunch, SurvivorStops, ObjectReplaced

\* Every instance the smoke loop leaves billed is accounted for.
THEOREM SmokeAccountsForItsInstances == Spec => []BilledInstancesAreAccounted
<1>1. AccountInv /\ SmokeInv => BilledInstancesAreAccounted
  BY MarketConstants, SmokeConstants DEF AccountInv, SmokeInv, Accounted, BilledInstancesAreAccounted
<1> QED BY AccountInit, AccountStep, SmokeInvInit, SmokeInvStep, <1>1, PTL DEF Spec

-----------------------------------------------------------------------------
(* The choice *)

\* An acceptable offer that a search did not return is out of its reach.
LEMMA WhatASearchMisses ==
  ASSUME IsFiniteSet(market), NEW limit \in Nat,
         NEW raw \in SearchResults(market, policy, limit),
         NEW o \in market \ raw, o.dph_total # Null
  PROVE  OutOfReach(o, limit)
<1> SUFFICES ASSUME NEW c \in policy.configs, Matches(o, c, policy)
             PROVE  Cardinality({b \in market \ {o} :
                      Matches(b, c, policy) /\ (b.dph_total = Null \/ b.dph_total <= o.dph_total)}) >= limit
  BY DEF OutOfReach
<1> DEFINE matching == {m \in market : Matches(m, c, policy)}
           ahead == {b \in market \ {o} :
                      Matches(b, c, policy) /\ (b.dph_total = Null \/ b.dph_total <= o.dph_total)}
<1>1. PICK w \in Cheapest(matching, limit) : w \subseteq raw
  BY DEF SearchResults
<1>2. w \subseteq matching /\ o \in matching \ w
  BY <1>1 DEF Cheapest
<1>3. IsFiniteSet(matching) /\ IsFiniteSet(ahead) /\ IsFiniteSet(w)
  <2>1. matching \in SUBSET market /\ ahead \in SUBSET market /\ w \in SUBSET market
    BY <1>2
  <2> QED BY <2>1, FS_Subset
<1>4. Cardinality(w) # Cardinality(matching)
  <2>1. w \in SUBSET matching /\ w # matching
    BY <1>2
  <2> QED BY <2>1, <1>3, FS_Subset
<1>5. Cardinality(w) = limit
  BY <1>1, <1>4 DEF Cheapest
<1>6. w \in SUBSET ahead
  <2> SUFFICES ASSUME NEW b \in w
               PROVE  b \in ahead
    OBVIOUS
  <2>1. b \in market \ {o} /\ Matches(b, c, policy)
    BY <1>2
  <2>2. b.dph_total = Null \/ b.dph_total <= o.dph_total
    BY <1>1, <1>2 DEF Cheapest
  <2> QED BY <2>1, <2>2
<1>7. Cardinality(w) <= Cardinality(ahead) /\ Cardinality(ahead) \in Nat
  BY <1>3, <1>6, FS_Subset, FS_CardinalityType
<1> QED BY <1>5, <1>7

\* what is said of a choice
BestOf(best) ==
  /\ best.dph_total \notin {Null, 0} /\ best.dph_total <= policy.max_dph_total
  /\ best.storage_total_cost # Null
  /\ best.machine_id \notin policy.greylisted_machine_ids
  /\ best.verification # "deverified"
  /\ \A o \in market :
       OfferPasses(o, policy) /\ KeyBefore(SelectionKey(o, policy), SelectionKey(best, policy))
         => OutOfReach(o, SearchLimit)

\* An acceptable offer has a price, for the hour and for the storage.
LEMMA PassingOffersAreLegal ==
  ASSUME NEW o, OfferPasses(o, policy)
  PROVE  /\ o.dph_total \notin {Null, 0} /\ o.dph_total <= policy.max_dph_total
         /\ o.storage_total_cost # Null
         /\ o.machine_id \notin policy.greylisted_machine_ids
         /\ o.verification # "deverified"
  BY DEF OfferPasses, PriceFits, StorageFits, AtMost, Or

LEMMA FirstChoiceIsBest ==
  ASSUME IsFiniteSet(market), NEW raw \in SearchResults(market, policy, SearchLimit),
         NEW best \in FirstChoices(raw, policy)
  PROVE  BestOf(best)
<1>1. OfferPasses(best, policy)
  BY DEF FirstChoices
<1>2. ASSUME NEW o \in market, OfferPasses(o, policy),
             KeyBefore(SelectionKey(o, policy), SelectionKey(best, policy))
      PROVE  OutOfReach(o, SearchLimit)
  <2>1. o \notin raw
    BY <1>2 DEF FirstChoices
  <2> QED BY <1>2, <2>1, PassingOffersAreLegal, WhatASearchMisses, MarketConstants
<1> QED BY <1>1, <1>2, PassingOffersAreLegal DEF BestOf

\* Whoever has chosen has chosen the best; no policy is patched after that.
ChoiceInv ==
  /\ IsFiniteSet(market)
  /\ program = "select" /\ pc \in {"start", "ask_infra", "search"} => choice = Null
  /\ program \in {"select", "smoke"} /\ choice # Null => BestOf(choice)

LEMMA ChoiceInit == Init => ChoiceInv
  BY MarketConstants DEF Init, FirstStep, ChoiceInv

\* The best of a market and a policy is the best of the same market and policy.
LEMMA BestStaysBest ==
  ASSUME UNCHANGED <<market, policy>>, NEW best, BestOf(best), choice' = best
  PROVE  BestOf(choice)'
  BY DEF BestOf, OutOfReach

LEMMA ChoiceStep == ChoiceInv /\ [Next]_vars => ChoiceInv'
<1> SUFFICES ASSUME ChoiceInv, [Next]_vars PROVE ChoiceInv'
  OBVIOUS
<1> USE DEF ChoiceInv, inputVars, marketVars, Goto, End, Ask, Runs
<1>1. CASE SelectStep
  <2>1. CASE SelectSearch
    BY <2>1, FirstChoiceIsBest, BestStaysBest DEF SelectSearch
  <2>2. CASE SelectPatch
    BY <2>2 DEF SelectPatch
  <2>3. CASE SelectAskInfra \/ SelectConfirm \/ SelectCreate
    BY <2>3, BestStaysBest DEF SelectAskInfra, SelectConfirm, SelectCreate
  <2> QED BY <1>1, <2>1, <2>2, <2>3 DEF SelectStep
<1>2. CASE SmokeStep
  <2>1. CASE SmokeSearch
    BY <2>1, FirstChoiceIsBest, BestStaysBest DEF SmokeSearch
  <2> QED
    BY <1>2, <2>1, BestStaysBest
    DEF SmokeStep, SmokeGivesUp, SmokeCreate, SmokeCreateFails, SmokePoll, SmokeChat, SmokeClose, Close, Leave
<1>3. CASE ScanStep
  BY <1>3 DEF ScanStep, ScanStart, ScanBegin, ScanProfile, ScanFoundNothing, ScanInsert, ScanCommit, ScanInsertFails, ScanDatabaseLost
<1>4. CASE LlamaStep
  BY <1>4 DEF LlamaStep, LlamaAskInfra, LlamaSearch, LlamaCreate, LlamaCreateFails, LlamaWait, LlamaBootstrap, LlamaScriptEnds, LlamaProbe, LlamaPrint
<1>5. CASE SmokeInterrupt
  BY <1>5, BestStaysBest DEF SmokeInterrupt, Close
<1>6. CASE LlamaRerun
  BY <1>6 DEF LlamaRerun
<1>7. CASE UNCHANGED marketVars
  BY <1>7, BestStaysBest
<1> QED
  BY <1>1, <1>2, <1>3, <1>4, <1>5, <1>6, <1>7
  DEF Next, ProgramStep, Environment, Migrate, vars, ScriptStep, ScriptFails, ScriptFetch, ScriptDownload,
      ScriptMove, ScriptPrepare, ScriptRestart, ScriptLaunch, SurvivorStops, ObjectReplaced

\* What is selected is the best offer within the search's reach.
THEOREM ChoicesAreBest == Spec => []ChoosesTheBest
<1>1. ChoiceInv => ChoosesTheBest
  BY DEF ChoiceInv, BestOf, ChoosesTheBest
<1> QED BY ChoiceInit, ChoiceStep, <1>1, PTL DEF Spec

\* what is said of a recorded offer
CheapestOf(best) ==
  /\ OfferPasses(best, policy)
  /\ \A o \in market :
       OfferPasses(o, policy) /\ EffectiveCost(o, policy) < EffectiveCost(best, policy)
         => OutOfReach(o, ScanLimit)

LEMMA ScanChoiceIsCheapest ==
  ASSUME IsFiniteSet(market), NEW raw \in SearchResults(market, policy, ScanLimit),
         NEW best \in ScanChoices(raw, policy)
  PROVE  CheapestOf(best)
<1>1. OfferPasses(best, policy)
  BY DEF ScanChoices, ScanPasses
<1>2. ASSUME NEW o \in market, OfferPasses(o, policy),
             EffectiveCost(o, policy) < EffectiveCost(best, policy)
      PROVE  OutOfReach(o, ScanLimit)
  <2>1. KeyBefore(ScanKey(o, policy), ScanKey(best, policy))
    BY <1>2 DEF KeyBefore, ScanKey
  <2>2. o \notin raw
    BY <1>2, <2>1 DEF ScanChoices, ScanPasses
  <2> QED BY <1>2, <2>2, PassingOffersAreLegal, WhatASearchMisses, ScanConstants
<1> QED BY <1>1, <1>2 DEF CheapestOf

\* Whatever a scan holds or has recorded is the cheapest of its profile.
RecordInv ==
  /\ IsFiniteSet(market)
  /\ program # "scan" => rows = {} /\ batch = {}
  /\ \A r \in rows \union batch : CheapestOf(r.offer)

LEMMA RecordInit == Init => RecordInv
  BY MarketConstants DEF Init, ScanInit, RecordInv

LEMMA CheapestStaysCheapest ==
  ASSUME UNCHANGED <<market, policy>>, NEW r, CheapestOf(r.offer)
  PROVE  CheapestOf(r.offer)'
  BY DEF CheapestOf, OutOfReach

LEMMA RecordStep == ScanInv /\ RecordInv /\ [Next]_vars => RecordInv'
<1> SUFFICES ASSUME ScanInv, RecordInv, [Next]_vars PROVE RecordInv'
  OBVIOUS
<1> USE DEF RecordInv, inputVars, marketVars, scanVars, Goto, End, Ask, Runs
<1>1. CASE SelectStep /\ UNCHANGED scanVars
  BY <1>1 DEF SelectStep, SelectPatch, SelectAskInfra, SelectSearch, SelectConfirm, SelectCreate
<1>2. CASE SmokeStep /\ UNCHANGED scanVars
  BY <1>2 DEF SmokeStep, SmokeSearch, SmokeGivesUp, SmokeCreate, SmokeCreateFails, SmokePoll, SmokeChat, SmokeClose
<1>3. CASE ScanStep
  <2>1. market' = market /\ policy' = policy /\ program = "scan" /\ program' = "scan"
    BY <1>3 DEF ScanStep, ScanStart, ScanBegin, ScanProfile, ScanFoundNothing, ScanInsert, ScanCommit, ScanInsertFails, ScanDatabaseLost
  <2>2. \A r \in rows' \union batch' : r \in rows \union batch \/ CheapestOf(r.offer)
    <3>1. CASE ScanProfile
      BY <3>1, ScanChoiceIsCheapest DEF ScanProfile
    <3>2. CASE ScanCommit
      BY <3>2 DEF ScanCommit, ScanInv
    <3> QED
      BY <1>3, <3>1, <3>2
      DEF ScanStep, ScanStart, ScanBegin, ScanFoundNothing, ScanInsert, ScanInsertFails, ScanDatabaseLost
  <2> QED BY <2>1, <2>2, CheapestStaysCheapest
<1>4. CASE LlamaStep /\ UNCHANGED scanVars
  BY <1>4 DEF LlamaStep, LlamaAskInfra, LlamaSearch, LlamaCreate, LlamaCreateFails, LlamaWait, LlamaBootstrap, LlamaScriptEnds, LlamaProbe, LlamaPrint
<1>5. CASE UNCHANGED <<inputVars, rows, batch>>
  BY <1>5, CheapestStaysCheapest
<1> QED
  BY <1>1, <1>2, <1>3, <1>4, <1>5
  DEF Next, ProgramStep, Environment, Migrate, vars, ScriptStep, ScriptFails, ScriptFetch, ScriptDownload,
      ScriptMove, ScriptPrepare, ScriptRestart, ScriptLaunch, SurvivorStops, ObjectReplaced, SmokeInterrupt, LlamaRerun

\* What a scan records is acceptable, and the cheapest within its reach.
THEOREM RecordsAreBest == Spec => []RecordedOffersAreBest
<1>1. RecordInv => RecordedOffersAreBest
  BY DEF RecordInv, CheapestOf, RecordedOffersAreBest
<1> QED BY ScanInvInit, ScanInvStep, RecordInit, RecordStep, <1>1, PTL DEF Spec

-----------------------------------------------------------------------------
(* Types *)

\* the rows a scan may hold
Row == [scan : 1..Scans, profile : Profiles, offer : UNION Markets]

\* The counters stay within their bounds because of where the programs are.
TypeInv ==
  /\ AccountInv /\ ScanInv /\ MarketTypeOK
  /\ program = "llamacpp" =>
       /\ pc \in {"start", "search", "create", "poll", "bootstrap", "await_script"} => probes = 0
       /\ pc = "probe" => probes < ServicePolls
  /\ scan \in 0..Scans /\ batch \subseteq Row
  /\ program = "scan" /\ pc = "profiles" => scan # 0

LEMMA TypeInit == Init => TypeInv
  BY AccountInit, ScanInvInit, SmokeConstants, LlamaConstants, ScanConstants
  DEF Init, CloudInit, SmokeInit, LlamaInit, ScanInit, FirstStep, TypeInv, MarketTypeOK, AccountInv, OfferOrNone, Row

LEMMA TypeStep == TypeInv /\ [Next]_vars => TypeInv'
<1> SUFFICES ASSUME TypeInv, [Next]_vars PROVE TypeInv'
  OBVIOUS
<1>0. AccountInv /\ AccountInv' /\ CloudTypeOK' /\ ScanInv /\ ScanInv'
  BY AccountStep, ScanInvStep DEF TypeInv, AccountInv
<1> USE <1>0 DEF TypeInv, MarketTypeOK, inputVars, marketVars, Goto, End, Ask, Runs
<1>1. CASE SelectStep /\ UNCHANGED <<smokeVars, llamaVars, scanVars>>
  <2>1. CASE SelectSearch
    <3>1. ASSUME NEW raw \in SearchResults(market, policy, SearchLimit), choice' \in FirstChoices(raw, policy)
          PROVE  choice' \in OfferOrNone
      BY <3>1, SearchedOnTheMarket DEF FirstChoices, OfferOrNone
    <3> QED BY <1>1, <2>1, <3>1 DEF SelectSearch, smokeVars, llamaVars, hostVars, scanVars
  <2> QED
    BY <1>1, <2>1
    DEF SelectStep, SelectPatch, SelectAskInfra, SelectConfirm, SelectCreate, smokeVars, llamaVars, hostVars, scanVars
<1>2. CASE SmokeStep /\ UNCHANGED <<llamaVars, scanVars>>
  <2> USE <1>2, SmokeConstants DEF llamaVars, hostVars, scanVars
  <2>1. CASE SmokeSearch
    <3>1. ASSUME NEW raw \in SearchResults(market, policy, SearchLimit), choice' \in FirstChoices(raw, policy)
          PROVE  choice' \in OfferOrNone
      BY <3>1, SearchedOnTheMarket DEF FirstChoices, OfferOrNone
    <3>2. attempt' \in 0..LaunchAttempts /\ polls' \in 0..ReadyPolls
      BY <2>1 DEF SmokeSearch
    <3> QED BY <2>1, <3>1, <3>2 DEF SmokeSearch, OfferOrNone
  <2>2. CASE SmokeCreate \/ SmokeCreateFails
    BY <2>2 DEF SmokeCreate, SmokeCreateFails, Say
  <2>3. CASE SmokePoll
    <3>1. polls' \in 0..ReadyPolls
      BY <2>3 DEF SmokePoll
    <3>2. result' \in Failures \union {"0", "interrupted", Null}
      BY <2>3 DEF SmokePoll, Close, Failures
    <3> QED BY <2>3, <3>1, <3>2 DEF SmokePoll
  <2>4. CASE SmokeChat
    <3>1. result' \in Failures \union {"0", "interrupted", Null}
      BY <2>4 DEF SmokeChat, Close, Failures
    <3> QED BY <2>4, <3>1 DEF SmokeChat
  <2>5. CASE SmokeClose
    BY <2>5 DEF SmokeClose, Leave, Say
  <2>6. CASE SmokeGivesUp
    BY <2>6 DEF SmokeGivesUp, smokeVars
  <2> QED BY <2>1, <2>2, <2>3, <2>4, <2>5, <2>6 DEF SmokeStep
<1>3. CASE LlamaStep /\ UNCHANGED <<smokeVars, scanVars>>
  <2> USE <1>3, LlamaConstants DEF smokeVars, scanVars, llamaVars, hostVars
  <2>1. CASE LlamaSearch
    <3>1. ASSUME NEW raw \in SearchResults(market, LlamaPolicy, SearchLimit), choice' \in LlamaChoices(raw, LlamaPolicy)
          PROVE  choice' \in OfferOrNone
      BY <3>1, SearchedOnTheMarket DEF LlamaChoices, OfferOrNone
    <3> QED BY <2>1, <3>1 DEF LlamaSearch
  <2>2. CASE LlamaCreate
    BY <2>2 DEF LlamaCreate
  <2>3. CASE LlamaCreateFails
    BY <2>3 DEF LlamaCreateFails
  <2>4. CASE LlamaProbe
    BY <2>4 DEF LlamaProbe
  <2>5. CASE LlamaAskInfra
    BY <2>5 DEF LlamaAskInfra
  <2>6. CASE LlamaWait
    BY <2>6 DEF LlamaWait
  <2>7. CASE LlamaBootstrap
    BY <2>7 DEF LlamaBootstrap
  <2>8. CASE LlamaScriptEnds
    BY <2>8 DEF LlamaScriptEnds
  <2>9. CASE LlamaPrint
    BY <2>9 DEF LlamaPrint
  <2> QED BY <2>1, <2>2, <2>3, <2>4, <2>5, <2>6, <2>7, <2>8, <2>9 DEF LlamaStep
<1>4. CASE ScanStep /\ UNCHANGED <<smokeVars, llamaVars>>
  <2> USE <1>4, ScanConstants DEF smokeVars, llamaVars, hostVars, scanVars, Row
  <2>1. CASE ScanProfile
    <3>1. batch' \subseteq Row /\ pending \subseteq batch'
      <4>1. ASSUME NEW q \in todo, NEW raw \in SearchResults(market, policy, ScanLimit), NEW best \in ScanChoices(raw, policy)
            PROVE  [scan |-> scan, profile |-> q, offer |-> best] \in Row
        BY <2>1, <4>1, SearchedOnTheMarket DEF ScanChoices, ScanProfile
      <4> QED BY <2>1, <4>1 DEF ScanProfile
    <3> QED BY <2>1, <3>1 DEF ScanProfile
  <2>2. CASE ScanStart
    BY <2>2 DEF ScanStart
  <2>3. CASE ScanBegin
    BY <2>3 DEF ScanBegin, ScanInv
  <2>4. CASE ScanFoundNothing \/ ScanCommit \/ ScanInsertFails
    BY <2>4 DEF ScanFoundNothing, ScanCommit, ScanInsertFails, Again
  <2>5. CASE ScanInsert \/ ScanDatabaseLost
    BY <2>5 DEF ScanInsert, ScanDatabaseLost
  <2> QED BY <2>1, <2>2, <2>3, <2>4, <2>5 DEF ScanStep
<1>5. CASE CloudNext /\ UNCHANGED <<marketVars, smokeVars, llamaVars, scanVars>>
  BY <1>5 DEF smokeVars, llamaVars, hostVars, scanVars
<1>6. CASE SmokeInterrupt /\ UNCHANGED <<llamaVars, scanVars>>
  BY <1>6 DEF SmokeInterrupt, Close, llamaVars, hostVars, scanVars
<1>7. CASE LlamaRerun /\ UNCHANGED <<smokeVars, scanVars>>
  BY <1>7, LlamaConstants DEF LlamaRerun, hostVars, smokeVars, scanVars
<1>8. CASE (ScriptStep \/ ObjectReplaced) /\ UNCHANGED <<smokeVars, scanVars>>
  <2> USE <1>8, LlamaConstants DEF smokeVars, scanVars
  <2>1. CASE ScriptFails
    BY <2>1 DEF ScriptFails
  <2>2. CASE ScriptFetch
    BY <2>2 DEF ScriptFetch
  <2>3. CASE ScriptDownload
    BY <2>3 DEF ScriptDownload
  <2>4. CASE ScriptMove
    BY <2>4 DEF ScriptMove
  <2>5. CASE ScriptPrepare
    BY <2>5 DEF ScriptPrepare
  <2>6. CASE ScriptRestart
    BY <2>6 DEF ScriptRestart
  <2>7. CASE ScriptLaunch
    BY <2>7 DEF ScriptLaunch
  <2>8. CASE SurvivorStops
    BY <2>8 DEF SurvivorStops
  <2>9. CASE ObjectReplaced
    BY <2>9 DEF ObjectReplaced
  <2> QED BY <2>1, <2>2, <2>3, <2>4, <2>5, <2>6, <2>7, <2>8, <2>9 DEF ScriptStep
<1>9. CASE Migrate /\ UNCHANGED <<smokeVars, llamaVars>>
  BY <1>9 DEF Migrate, smokeVars, llamaVars, hostVars
<1>10. CASE UNCHANGED vars
  BY <1>10 DEF vars, smokeVars, llamaVars, hostVars, scanVars
<1> QED
  BY <1>1, <1>2, <1>3, <1>4, <1>5, <1>6, <1>7, <1>8, <1>9, <1>10 DEF Next, ProgramStep, Environment

\* Every variable keeps its type, every counter its bound.
THEOREM MarketTypes == Spec => []MarketTypeOK
<1>1. TypeInv => MarketTypeOK
  BY DEF TypeInv
<1> QED BY TypeInit, TypeStep, <1>1, PTL DEF Spec

-----------------------------------------------------------------------------
(* Why the programs end.  ProgramsEnd itself needs fairness and stays with  *)
(* TLC; what it rests on is that no step of a program leads back.           *)

\* the stations that are still ahead
SelectPlace == [start |-> 5, ask_infra |-> 4, search |-> 3, confirm |-> 2, create |-> 1, ended |-> 0]
SmokePlace == [create |-> 5, wait |-> 4, chat |-> 3, close |-> 2, search |-> 1, ended |-> 0]
LlamaPlace == [start |-> 8, search |-> 7, create |-> 6, poll |-> 5, bootstrap |-> 4,
               await_script |-> 3, probe |-> 2, print |-> 1, ended |-> 0]
ScanPlace == [start |-> 3, profiles |-> 2, scan |-> 1, ended |-> 0]

\* a station less
SelectAdvances == SelectPlace[pc'] < SelectPlace[pc]

\* the next attempt, a station less, or one more poll of the instance
SmokeAdvances ==
  \/ attempt' = attempt + 1
  \/ attempt' = attempt /\ SmokePlace[pc'] < SmokePlace[pc]
  \/ UNCHANGED <<attempt, pc>> /\ polls' = polls + 1

\* the operator's next run, a station less, the next ask id, or one more probe
LlamaAdvances ==
  \/ llamaRun' = llamaRun + 1
  \/ llamaRun' = llamaRun /\ LlamaPlace[pc'] < LlamaPlace[pc]
  \/ UNCHANGED <<llamaRun, pc>> /\ ask' = ask + 1
  \/ UNCHANGED <<llamaRun, pc, ask>> /\ probes' = probes + 1

\* the next scan of a loop (of which there is no end), a station less, a profile
\* less, or a row more
ScanAdvances ==
  \/ scan' = scan + 1
  \/ scan' = scan /\ ScanPlace[pc'] < ScanPlace[pc]
  \/ UNCHANGED <<scan, pc, batch, todo>> /\ \E r \in batch \ pending : pending' = pending \union {r}
  \/ UNCHANGED <<scan, pc>> /\ \E q \in todo : todo' = todo \ {q}

Advances ==
  CASE program = "select" -> SelectAdvances
    [] program = "smoke" -> SmokeAdvances
    [] program = "llamacpp" -> LlamaAdvances
    [] program = "scan" -> ScanAdvances

\* where the programs stand
Standing == <<pc, attempt, polls, llamaRun, ask, probes, scan, todo, batch, pending>>

LEMMA SelectOn == SelectStep => program = "select" /\ SelectAdvances
<1> USE DEF Runs, Goto, End, Ask, SelectPlace, SelectAdvances
<1> QED BY DEF SelectStep, SelectPatch, SelectAskInfra, SelectSearch, SelectConfirm, SelectCreate

LEMMA SmokeOn == SmokeStep => program = "smoke" /\ SmokeAdvances
<1> USE DEF Runs, Goto, End
<1>1. CASE SmokeSearch
  BY <1>1 DEF SmokeSearch, SmokeAdvances
<1>2. CASE SmokeGivesUp
  BY <1>2 DEF SmokeGivesUp, smokeVars, SmokePlace, SmokeAdvances
<1>3. CASE SmokeCreate \/ SmokeCreateFails
  BY <1>3 DEF SmokeCreate, SmokeCreateFails, SmokePlace, SmokeAdvances
<1>4. CASE SmokePoll
  BY <1>4 DEF SmokePoll, Close, SmokePlace, SmokeAdvances
<1>5. CASE SmokeChat
  BY <1>5 DEF SmokeChat, Close, SmokePlace, SmokeAdvances
<1>6. CASE SmokeClose
  <2>1. Runs("smoke", "close") /\ attempt' = attempt /\ (pc' = "search" \/ pc' = "ended")
    BY <1>6 DEF SmokeClose, Leave
  <2> QED BY <2>1 DEF SmokePlace, SmokeAdvances
<1> QED BY <1>1, <1>2, <1>3, <1>4, <1>5, <1>6 DEF SmokeStep, SmokeSearch, SmokeGivesUp, SmokeCreate, SmokeCreateFails,
                                               SmokePoll, SmokeChat, SmokeClose

LEMMA LlamaOn == LlamaStep => program = "llamacpp" /\ LlamaAdvances
<1> USE DEF Runs, Goto, End, Ask, llamaVars, LlamaPlace, LlamaAdvances
<1>1. CASE LlamaAskInfra
  BY <1>1 DEF LlamaAskInfra
<1>2. CASE LlamaSearch
  BY <1>2 DEF LlamaSearch
<1>3. CASE LlamaCreate \/ LlamaCreateFails
  BY <1>3 DEF LlamaCreate, LlamaCreateFails
<1>4. CASE LlamaWait
  BY <1>4 DEF LlamaWait
<1>5. CASE LlamaBootstrap
  BY <1>5 DEF LlamaBootstrap
<1>6. CASE LlamaScriptEnds
  BY <1>6 DEF LlamaScriptEnds
<1>7. CASE LlamaProbe
  BY <1>7 DEF LlamaProbe
<1>8. CASE LlamaPrint
  BY <1>8 DEF LlamaPrint
<1> QED BY <1>1, <1>2, <1>3, <1>4, <1>5, <1>6, <1>7, <1>8 DEF LlamaStep

LEMMA ScanOn == ScanStep => program = "scan" /\ ScanAdvances
<1> USE DEF Runs, Goto, End, scanVars, ScanAdvances
<1>1. CASE ScanStart
  BY <1>1 DEF ScanStart, ScanPlace
<1>2. CASE ScanBegin
  BY <1>2 DEF ScanBegin
<1>3. CASE ScanProfile
  BY <1>3 DEF ScanProfile
<1>4. CASE ScanInsert
  BY <1>4 DEF ScanInsert
<1>5. CASE ScanDatabaseLost
  BY <1>5 DEF ScanDatabaseLost, ScanPlace
<1>6. CASE ScanFoundNothing \/ ScanCommit \/ ScanInsertFails
  <2>1. program = "scan" /\ pc = "profiles" /\ scan' = scan
    BY <1>6 DEF ScanFoundNothing, ScanCommit, ScanInsertFails
  <2>2. pc' = "scan" \/ pc' = "ended"
    BY <1>6 DEF ScanFoundNothing, ScanCommit, ScanInsertFails, Again
  <2> QED BY <2>1, <2>2 DEF ScanPlace
<1> QED BY <1>1, <1>2, <1>3, <1>4, <1>5, <1>6 DEF ScanStep

LEMMA ProgramsGoOn == ProgramStep => Advances
<1>1. CASE SelectStep
  BY <1>1, SelectOn DEF Advances
<1>2. CASE SmokeStep
  BY <1>2, SmokeOn DEF Advances
<1>3. CASE LlamaStep
  BY <1>3, LlamaOn DEF Advances
<1>4. CASE ScanStep
  BY <1>4, ScanOn DEF Advances
<1> QED BY <1>1, <1>2, <1>3, <1>4 DEF ProgramStep

LEMMA EnvironmentGoesOn == Environment => Advances \/ UNCHANGED Standing
<1> USE DEF Standing, marketVars, smokeVars, llamaVars, hostVars, scanVars
<1>1. CASE CloudNext /\ UNCHANGED <<marketVars, smokeVars, llamaVars, scanVars>>
  BY <1>1
<1>2. CASE SmokeInterrupt
  BY <1>2 DEF SmokeInterrupt, Close, Goto, End, SmokePlace, SmokeAdvances, Advances
<1>3. CASE LlamaRerun
  BY <1>3 DEF LlamaRerun, Runs, LlamaAdvances, Advances
<1>4. CASE (ScriptStep \/ ObjectReplaced) /\ UNCHANGED <<smokeVars, scanVars>>
  BY <1>4
  DEF ScriptStep, ScriptFails, ScriptFetch, ScriptDownload, ScriptMove, ScriptPrepare, ScriptRestart, ScriptLaunch, SurvivorStops, ObjectReplaced
<1>5. CASE Migrate /\ UNCHANGED <<smokeVars, llamaVars>>
  BY <1>5 DEF Migrate
<1> QED BY <1>1, <1>2, <1>3, <1>4, <1>5 DEF Environment

\* No step of a program that searches the market leads back: each takes it a
\* station, attempt, poll, ask id, probe, scan, profile or row further in an order
\* that only goes so far (TypeInv; but the scans of a --minutes loop have no last
\* one), and what happens beside it (a host that is lost, the script on the host,
\* a migration, an interrupt, the operator's next run) does not lead it back either.
THEOREM ProgramsAdvance ==
  Spec => [][(ProgramStep => Advances) /\ (Environment => Advances \/ UNCHANGED Standing)]_vars
<1> DEFINE On == (ProgramStep => Advances) /\ (Environment => Advances \/ UNCHANGED Standing)
<1>1. [Next]_vars => [On]_vars
  BY ProgramsGoOn, EnvironmentGoesOn
<1> QED BY <1>1, PTL DEF Spec
=============================================================================
