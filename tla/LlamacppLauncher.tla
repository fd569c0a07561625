-------------------------- MODULE LlamacppLauncher ---------------------------
(***************************************************************************)
(* scripts/select_launch_llamacpp.py: select an offer, rent it, wait for   *)
(* ssh, run the bootstrap script on the host and wait for its endpoint; or *)
(* bootstrap an instance that is already there (--instance-id).            *)
(*                                                                         *)
(* The script on the host is a process of its own: it may outlive the ssh  *)
(* session that started it.  A later run is assumed to begin when the      *)
(* earlier script is over.  Keys of different versions of the model object *)
(* name files of different lengths, as lengths are all the script compares.*)
(* The old server is only told to stop: it may live on, and keep the port. *)
(***************************************************************************)
EXTENDS OfferMarket

CONSTANTS
  AskIds,        \* how many ids create_instance is tried with
  CliMaxDph,     \* the operator's --max-dph, when it is on the command line
  LlamaRuns,     \* runs of the program on one instance
  ModelVersions, \* how often the model object may have been replaced, plus one
  ServicePolls   \* the probes that fit into --service-timeout

ASSUME LlamaConstants ==
  /\ AskIds \in Nat \ {0} /\ LlamaRuns \in Nat \ {0}
  /\ ModelVersions \in Nat \ {0} /\ ServicePolls \in Nat \ {0}
  /\ 1..AskIds \subseteq Instances

VARIABLES
  llamaRun,   \* the run of the program
  ask,        \* the number of the ask id that is tried
  probes,     \* the probes of the endpoint in this run
  object,     \* the version of the model object in the bucket
  script,     \* the step of the bootstrap script on the host
  expected,   \* the version whose length the script has read
  file,       \* the version at the model's path, 0 for none
  tmp,        \* the version at the path of the download, 0 for none
  stack,      \* the version the server at the port has loaded, 0 for no server
  survivor    \* our account: the version of the server that the last kill left, 0 for none

hostVars == <<object, script, expected, file, tmp, stack, survivor>>
llamaVars == <<llamaRun, ask, probes, hostVars>>

LlamaInit ==
  /\ llamaRun = 1 /\ ask = 1 /\ probes = 0
  /\ object = 1 /\ script = "none" /\ expected = 0
  /\ file = 0 /\ tmp = 0 /\ stack = 0 /\ survivor = 0

\* set_profile_default over the profiles in the order they are applied: an
\* option on the command line stays, otherwise the last profile that has a
\* value for it wins.
Settled(explicit, args, profiles) ==
  [name \in DOMAIN args |->
     LET setting == {i \in DOMAIN profiles : name \in DOMAIN profiles[i] /\ profiles[i][name] # Null}
     IN IF name \in explicit \/ setting = {} THEN args[name]
        ELSE profiles[CHOOSE i \in setting : \A j \in setting : j <= i][name]]

LlamaPolicy ==
  [policy EXCEPT !.max_dph_total =
     Settled(flags, [max_dph |-> CliMaxDph], <<[max_dph |-> policy.max_dph_total]>>)["max_dph"]]

\* validate_args passed; the current instances are listed
LlamaAskInfra ==
  /\ Runs("llamacpp", "start")
  /\ IF "check_only" \in flags
       THEN UNCHANGED asked /\ Goto("search")
       ELSE Ask("infra", "search")
  /\ UNCHANGED <<inputVars, choice, llamaVars, cloudVars>>

\* search, show; --check-only ends here; otherwise a launch has to be approved
LlamaSearch ==
  /\ Runs("llamacpp", "search")
  /\ \/ End("raised") /\ UNCHANGED <<choice, asked>>
     \/ \E raw \in SearchResults(market, LlamaPolicy, SearchLimit) :
          IF LlamaChoices(raw, LlamaPolicy) = {}
            THEN End("no_offers") /\ UNCHANGED <<choice, asked>>
            ELSE /\ choice' \in LlamaChoices(raw, LlamaPolicy)
                 /\ IF "check_only" \in flags
                      THEN UNCHANGED asked /\ End("shown")
                      ELSE Ask("launch", "create")
  /\ UNCHANGED <<inputVars, llamaVars, cloudVars>>

Rented == {i \in Instances : cloud[i] # "none"}

\* create_instance returned an id
LlamaCreate ==
  /\ Runs("llamacpp", "create")
  /\ Rent(ask)
  /\ Goto("poll")
  /\ UNCHANGED <<inputVars, choice, asked, llamaVars>>

\* Variant: any HTTP error goes on to the next ask id.
LlamaCreateFailsAnyhow ==
  /\ Runs("llamacpp", "create")
  /\ Rent(ask) \/ UNCHANGED cloudVars
  /\ IF ask < AskIds THEN ask' = ask + 1 /\ Goto("create") ELSE UNCHANGED ask /\ End("raised")
  /\ UNCHANGED <<inputVars, choice, asked, llamaRun, probes, hostVars>>

\* "no_such_ask" proves that nothing was rented: the offer's next id is tried.
\* Any other error ends the program, whether or not Vast made the contract.
LlamaCreateFails ==
  /\ Runs("llamacpp", "create")
  /\ \/ /\ ask < AskIds
        /\ ask' = ask + 1 /\ Goto("create") /\ UNCHANGED cloudVars
     \/ /\ Rent(ask) \/ UNCHANGED cloudVars
        /\ UNCHANGED ask /\ End("raised")
  /\ UNCHANGED <<inputVars, choice, asked, llamaRun, probes, hostVars>>

\* poll_instance, ssh_target, wait_for_ssh: on anything but a running instance
\* that takes ssh the program raises and leaves the instance to the operator
LlamaWait ==
  /\ Runs("llamacpp", "poll")
  /\ \/ End("raised") /\ UNCHANGED asked
     \/ /\ cloud[ask] = "live" /\ "running" \in ShowResults(ask)
        /\ IF "no_bootstrap" \in flags
             THEN UNCHANGED asked /\ End("printed")
             ELSE Ask("bootstrap", "bootstrap")
  /\ UNCHANGED <<inputVars, choice, llamaVars, cloudVars>>

\* write the env file, copy the code, start the script; each may fail
LlamaBootstrap ==
  /\ Runs("llamacpp", "bootstrap")
  /\ \/ End("raised") /\ UNCHANGED script
     \/ cloud[ask] = "live" /\ script' = "fetch" /\ Goto("await_script")
  /\ UNCHANGED <<inputVars, choice, asked, llamaRun, ask, probes, object, expected, file, tmp, stack, survivor, cloudVars>>

ScriptRuns == script \in {"fetch", "download", "check", "prepare", "restart", "launch"}

\* the session ends with the script, or at --bootstrap-timeout without it
LlamaScriptEnds ==
  /\ Runs("llamacpp", "await_script")
  /\ IF script = "done" THEN Goto("probe") ELSE End("raised")
  /\ UNCHANGED <<inputVars, choice, asked, llamaVars, cloudVars>>

\* up to service_timeout // 5 probes, at least one, of the public endpoint
LlamaProbe ==
  /\ Runs("llamacpp", "probe")
  /\ probes' = probes + 1
  /\ \/ End("raised")
     \/ cloud[ask] = "live" /\ stack # 0 /\ Goto("print")
     \/ probes + 1 < ServicePolls /\ Goto("probe")
  /\ UNCHANGED <<inputVars, choice, asked, llamaRun, ask, hostVars, cloudVars>>

LlamaPrint ==
  /\ Runs("llamacpp", "print")
  /\ End("printed") \/ End("raised")
  /\ UNCHANGED <<inputVars, choice, asked, llamaVars, cloudVars>>

\* the operator runs the program again on the instance
LlamaRerun ==
  /\ Runs("llamacpp", "ended")
  /\ cloud[ask] = "live" /\ ~ScriptRuns /\ llamaRun < LlamaRuns
  /\ llamaRun' = llamaRun + 1
  /\ probes' = 0
  /\ pc' = "poll" /\ outcome' = Null
  /\ UNCHANGED <<inputVars, choice, asked, ask, hostVars, cloudVars>>

-----------------------------------------------------------------------------
(* The bootstrap script, set -e: a failing command is its end. *)

ScriptFails ==
  /\ ScriptRuns
  /\ script' = "failed"
  /\ UNCHANGED <<marketVars, llamaRun, ask, probes, object, expected, file, tmp, stack, survivor, cloudVars>>

\* Variant: a file that is there is used, whatever its length.
ScriptFetchPresent ==
  /\ script = "fetch"
  /\ expected' = object
  /\ IF file # 0
       THEN script' = "prepare" /\ UNCHANGED tmp
       ELSE script' = "download" /\ tmp' = 0
  /\ UNCHANGED <<marketVars, llamaRun, ask, probes, object, file, stack, survivor, cloudVars>>

\* head-object; a file of that length is used as it is
ScriptFetch ==
  /\ script = "fetch"
  /\ expected' = object
  /\ IF file = object
       THEN script' = "prepare" /\ UNCHANGED tmp
       ELSE script' = "download" /\ tmp' = 0
  /\ UNCHANGED <<marketVars, llamaRun, ask, probes, object, file, stack, survivor, cloudVars>>

\* aws s3 cp: the object as it is by now
ScriptDownload ==
  /\ script = "download"
  /\ tmp' = object
  /\ script' = "check"
  /\ UNCHANGED <<marketVars, llamaRun, ask, probes, object, expected, file, stack, survivor, cloudVars>>

\* the length has to be the one announced; then mv
ScriptMove ==
  /\ script = "check"
  /\ tmp = expected
  /\ file' = tmp /\ tmp' = 0
  /\ script' = "prepare"
  /\ UNCHANGED <<marketVars, llamaRun, ask, probes, object, expected, stack, survivor, cloudVars>>

\* unpack, build if there is no server, check both, patch the proxy, write the
\* start script: nothing the running server depends on
ScriptPrepare ==
  /\ script = "prepare"
  /\ script' = "restart"
  /\ UNCHANGED <<marketVars, llamaRun, ask, probes, object, expected, file, tmp, stack, survivor, cloudVars>>

\* SIGTERM to the old stack and two seconds; nobody looks whether it is gone
ScriptRestart ==
  /\ script = "restart"
  /\ stack' \in {0, stack} /\ survivor' = stack'
  /\ script' = "launch"
  /\ UNCHANGED <<marketVars, llamaRun, ask, probes, object, expected, file, tmp, cloudVars>>

\* Start the new one in the background: it comes up, or not, or finds the port
\* taken by the old one.
ScriptLaunch ==
  /\ script = "launch"
  /\ stack' \in {0, stack, file}
  /\ script' = "done"
  /\ UNCHANGED <<marketVars, llamaRun, ask, probes, object, expected, file, tmp, survivor, cloudVars>>

\* the old server stops after all
SurvivorStops ==
  /\ script \in {"launch", "done"} /\ survivor # 0 /\ stack = survivor
  /\ stack' = 0
  /\ UNCHANGED <<marketVars, llamaRun, ask, probes, object, script, expected, file, tmp, survivor, cloudVars>>

\* a new model is uploaded under the same key
ObjectReplaced ==
  /\ program = "llamacpp" /\ script # "none"
  /\ object < ModelVersions
  /\ object' = object + 1
  /\ UNCHANGED <<marketVars, llamaRun, ask, probes, script, expected, file, tmp, stack, survivor, cloudVars>>

LlamaStep ==
  \/ LlamaAskInfra \/ LlamaSearch \/ LlamaCreate \/ LlamaCreateFails \/ LlamaWait
  \/ LlamaBootstrap \/ LlamaScriptEnds \/ LlamaProbe \/ LlamaPrint

ScriptStep ==
  /\ cloud[ask] = "live"
  /\ \/ ScriptFails \/ ScriptFetch \/ ScriptDownload \/ ScriptMove
     \/ ScriptPrepare \/ ScriptRestart \/ ScriptLaunch \/ SurvivorStops
=============================================================================
