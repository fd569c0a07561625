-------------------------- MODULE ReadinessMonitor --------------------------
(***************************************************************************)
(* The polling loop of scripts/monitor_instance_readiness.py: the log      *)
(* signals, the recommendation they add up to, the two reachability        *)
(* probes, the deadlines and the exit codes.                               *)
(*                                                                         *)
(* One iteration of main's while loop is one step (Iterate, PollRaises);   *)
(* Sleep is the pause between two of them, in which time passes.  Times    *)
(* only matter against deadlines, so a clock stands still once it is past  *)
(* its deadline.  What the ledger sees of an iteration is in module        *)
(* MonitorProcess.                                                         *)
(***************************************************************************)
EXTENDS Naturals

CONSTANTS
  ImageDeadline, ProvisioningDeadline, PortDeadline, ExternalDeadline, Timeout,
  Horizon,     \* the elapsed time from which nothing more depends on it
  Pauses,      \* how long a pause between two iterations may take
  ArgSets,     \* the command lines to start the monitor with
  Printable,   \* the lines an instance may print, by the marker they carry
  NotYet       \* a clock that has not been started

\* The log lines an instance prints on its way to serving, as the signal they
\* raise.  image_pull_seen is raised by any line with the image's name.
BootMarkers == {"image_pull_seen", "image_cached", "provisioning_started",
                "r2_sync_started", "r2_sync_finished", "vllm_started", "api_ready"}
FailMarkers == {"speed_test_failed", "provisioning_failed"}
SignalFields == BootMarkers \union FailMarkers
Caddy == "caddy"
Markers == SignalFields \union {Caddy}

ASSUME MonitorConstants ==
  /\ ImageDeadline \in Nat /\ ProvisioningDeadline \in Nat /\ PortDeadline \in Nat
  /\ ExternalDeadline \in Nat /\ Timeout \in Nat /\ Horizon \in Nat
  /\ Horizon >= ImageDeadline /\ Horizon >= ProvisioningDeadline /\ Horizon >= Timeout
  /\ Pauses \subseteq Nat \ {0}
  /\ NotYet \notin Nat
  /\ ArgSets \subseteq [destroy_on_fail : BOOLEAN, yes_destroy : BOOLEAN, once : BOOLEAN,
                        skip_external_api_check : BOOLEAN, no_early_port_check : BOOLEAN]
  /\ Printable \subseteq Markers

VARIABLES
  args,           \* the command line
  phase,          \* "poll", "sleep" or "exited"
  elapsed,        \* time since the start of the monitor
  cumulative,     \* the signals of all iterations so far
  port_age,       \* time since the Caddy gate was first seen, or NotYet
  ready_age,      \* time since the first iteration with api_ready, or NotYet
  recommendation, \* last_recommendation
  exit,           \* exit code, "none" while it runs
  ever            \* history: what past iterations saw and did

vars == <<args, phase, elapsed, cumulative, port_age, ready_age,
          recommendation, exit, ever>>

Recommendations ==
  {"WAIT", "TERMINATE_R2_SPEED_TEST_FAILED", "TERMINATE_PROVISIONING_FAILED",
   "READY_OR_STARTING_VLLM", "WAIT_VLLM_LOADING", "WAIT_R2_OR_PROVISIONING",
   "CONSIDER_TERMINATE_NO_PROVISIONING", "CONSIDER_TERMINATE_SLOW_IMAGE_PULL",
   "TERMINATE_DIRECT_PORTS_UNREACHABLE", "READY_EXTERNAL_API",
   "TERMINATE_EXTERNAL_API_UNREACHABLE"}

\* startswith("TERMINATE_") or startswith("CONSIDER_TERMINATE_")
Condemning ==
  {"TERMINATE_R2_SPEED_TEST_FAILED", "TERMINATE_PROVISIONING_FAILED",
   "CONSIDER_TERMINATE_NO_PROVISIONING", "CONSIDER_TERMINATE_SLOW_IMAGE_PULL",
   "TERMINATE_DIRECT_PORTS_UNREACHABLE", "TERMINATE_EXTERNAL_API_UNREACHABLE"}

TypeOK ==
  /\ args \in ArgSets
  /\ phase \in {"poll", "sleep", "exited"}
  /\ elapsed \in 0..Horizon
  /\ cumulative \subseteq SignalFields
  /\ port_age \in (0..PortDeadline) \union {NotYet}
  /\ ready_age \in (0..ExternalDeadline) \union {NotYet}
  /\ recommendation \in Recommendations
  /\ exit \in {"none", "0", "1", "2", "3", "4"}
  /\ ever \in [seen : SUBSET SignalFields, failed : BOOLEAN, raised : BOOLEAN]

Init ==
  /\ args \in ArgSets
  /\ phase = "poll" /\ elapsed = 0
  /\ cumulative = {}
  /\ port_age = NotYet /\ ready_age = NotYet
  /\ recommendation = "WAIT" /\ exit = "none"
  /\ ever = [seen |-> {}, failed |-> FALSE, raised |-> FALSE]

-----------------------------------------------------------------------------
(* The log of the instance.                                                *)

\* which lines come before a line in the log of one boot
Follows(m) ==
  CASE m = "image_pull_seen" -> {}
    [] m \in {"image_cached", "provisioning_started", Caddy} -> {"image_pull_seen"}
    [] m \in {"r2_sync_started", "speed_test_failed", "provisioning_failed"} ->
         {"image_pull_seen", "provisioning_started"}
    [] m = "r2_sync_finished" -> {"image_pull_seen", "provisioning_started", "r2_sync_started"}
    [] m = "vllm_started" -> {"image_pull_seen", "provisioning_started"}
    [] m = "api_ready" -> {"image_pull_seen", "provisioning_started", "vllm_started"}

\* What the last --tail lines of the log can hold: when a line is still in the
\* tail, so are the lines between it and a later one.  The line that raises
\* image_cached names the image, which raises image_pull_seen as well.
Tails ==
  {t \in SUBSET Printable :
     /\ \A first, last \in t : \A m \in Printable :
          first \in Follows(m) /\ m \in Follows(last) => m \in t
     /\ "image_cached" \in t => "image_pull_seen" \in t}

-----------------------------------------------------------------------------
(* One iteration.                                                          *)

\* Variant: a started server outranks a failure.
RecommendReadyFirst(signals, pulling) ==
  CASE {"api_ready", "vllm_started"} \intersect signals # {} -> "READY_OR_STARTING_VLLM"
    [] {"api_ready", "vllm_started"} \intersect signals = {}
       /\ "speed_test_failed" \in signals -> "TERMINATE_R2_SPEED_TEST_FAILED"
    [] OTHER -> "WAIT"

\* print_status; pulling: the instance's status_msg speaks of a pull
Recommend(signals, pulling) ==
  CASE "speed_test_failed" \in signals -> "TERMINATE_R2_SPEED_TEST_FAILED"
    [] "speed_test_failed" \notin signals /\ "provisioning_failed" \in signals ->
         "TERMINATE_PROVISIONING_FAILED"
    [] FailMarkers \intersect signals = {}
       /\ {"api_ready", "vllm_started"} \intersect signals # {} -> "READY_OR_STARTING_VLLM"
    [] OTHER ->
       IF "r2_sync_finished" \in signals THEN "WAIT_VLLM_LOADING"
       ELSE IF {"r2_sync_started", "provisioning_started"} \intersect signals # {}
         THEN "WAIT_R2_OR_PROVISIONING"
       ELSE IF "image_cached" \in signals /\ elapsed >= ProvisioningDeadline
         THEN "CONSIDER_TERMINATE_NO_PROVISIONING"
       ELSE IF /\ elapsed >= ImageDeadline
               /\ "image_pull_seen" \in signals \/ pulling
               /\ "image_cached" \notin signals
         THEN "CONSIDER_TERMINATE_SLOW_IMAGE_PULL"
       ELSE "WAIT"

\* the Caddy gate is read from this iteration's tail, not from the past
ProbesPorts(signals, tail) ==
  ~args.no_early_port_check /\ "api_ready" \notin signals /\ Caddy \in tail

ProbesApi(signals) == "api_ready" \in signals /\ ~args.skip_external_api_check

\* Variant: what has scrolled out of the tail is forgotten.
SignalsOfTail(tail) == tail \intersect SignalFields

\* the signals of this iteration: once seen, always seen
Signals(tail) == cumulative \union (tail \intersect SignalFields)

\* the answers of a probe that is made, FALSE for one that is not
Answers(probed) == IF probed THEN BOOLEAN ELSE {FALSE}
PortAnswers(tail) == Answers(ProbesPorts(Signals(tail), tail))
ApiAnswers(tail) == Answers(ProbesApi(Signals(tail)))

Started(age) == IF age = NotYet THEN 0 ELSE age

\* the two probes may replace the recommendation of print_status
AfterProbes(rec, signals, tail, reachable, models_ok) ==
  IF ProbesPorts(signals, tail) /\ ~reachable /\ Started(port_age) >= PortDeadline
    THEN "TERMINATE_DIRECT_PORTS_UNREACHABLE"
  ELSE IF ProbesApi(signals) /\ models_ok THEN "READY_EXTERNAL_API"
  ELSE IF ProbesApi(signals) /\ Started(ready_age) >= ExternalDeadline
    THEN "TERMINATE_EXTERNAL_API_UNREACHABLE"
  ELSE rec

Exit(code) == exit' = code /\ phase' = "exited"
Loop == exit' = exit /\ phase' = "sleep"

\* a raised exception: --once gives up, the loop only sleeps
Raised == IF args.once THEN Exit("1") ELSE Loop

Condemned == recommendation' \in Condemning /\ args.destroy_on_fail

\* what the iteration saw: history, no state of the program
Witness(tail) ==
  [seen   |-> ever.seen \union (tail \intersect SignalFields),
   failed |-> ever.failed \/ (FailMarkers \intersect tail # {} /\ phase' = "sleep"),
   raised |-> ever.raised]

Observe(tail, pulling, reachable, models_ok) ==
  LET signals == Signals(tail)
  IN  /\ cumulative' = signals
      /\ recommendation' =
           AfterProbes(Recommend(signals, pulling), signals, tail, reachable, models_ok)
      /\ port_age' = IF ProbesPorts(signals, tail) THEN Started(port_age) ELSE port_age
      /\ ready_age' = IF "api_ready" \in signals THEN Started(ready_age) ELSE ready_age

\* Variant: a ready log line is enough without the external probe.
AcceptedByLog == {"api_ready", "vllm_started"} \intersect cumulative' # {}

\* the two tests before return 0
Accepted ==
  \/ args.skip_external_api_check /\ {"api_ready", "vllm_started"} \intersect cumulative' # {}
  \/ "api_ready" \in cumulative' /\ recommendation' = "READY_EXTERNAL_API"

\* Variant: no --timeout.
ConcludeUntimed ==
  CASE Condemned -> Exit(IF args.yes_destroy THEN "4" ELSE "3")
    [] ~Condemned /\ (Accepted \/ args.once) -> Exit("0")
    [] OTHER -> Loop

\* what follows the ledger update in the loop
Conclude ==
  CASE Condemned -> Exit(IF args.yes_destroy THEN "4" ELSE "3")
    [] ~Condemned /\ (Accepted \/ args.once) -> Exit("0")
    [] ~Condemned /\ ~Accepted /\ ~args.once /\ elapsed >= Timeout -> Exit("2")
    [] OTHER -> Loop

Iterate ==
  /\ phase = "poll"
  /\ \E tail \in Tails : \E pulling \in BOOLEAN, reachable \in PortAnswers(tail),
                              models_ok \in ApiAnswers(tail) :
       /\ Observe(tail, pulling, reachable, models_ok)
       /\ Conclude
       /\ ever' = Witness(tail)
  /\ UNCHANGED <<args, elapsed>>

\* destroy_instance raised after everything before it was done; the generic
\* handler of the loop catches it
DestroyRaises ==
  /\ phase = "poll"
  /\ \E tail \in Tails : \E pulling \in BOOLEAN, reachable \in PortAnswers(tail),
                              models_ok \in ApiAnswers(tail) :
       /\ Observe(tail, pulling, reachable, models_ok)
       /\ Condemned /\ args.yes_destroy
       /\ Raised
       /\ ever' = [Witness(tail) EXCEPT !.raised = TRUE]
  /\ UNCHANGED <<args, elapsed>>

\* show_instance, logs or the snapshot files raised: the generic handler warns
\* and goes on to the pause, past the check of --timeout
PollRaises ==
  /\ phase = "poll"
  /\ Raised
  /\ UNCHANGED <<args, elapsed, cumulative, port_age, ready_age,
                 recommendation, ever>>

\* Variant: the clock of a probe that was never due is started.
LaterAlways(age, d, deadline) == IF age = NotYet THEN d ELSE age + d

Least(a, b) == IF a <= b THEN a ELSE b
Later(age, d, deadline) == IF age = NotYet THEN NotYet ELSE Least(age + d, deadline)

Sleep ==
  /\ phase = "sleep"
  /\ \E d \in Pauses :
       /\ elapsed' = Least(elapsed + d, Horizon)
       /\ port_age' = Later(port_age, d, PortDeadline)
       /\ ready_age' = Later(ready_age, d, ExternalDeadline)
  /\ phase' = "poll"
  /\ UNCHANGED <<args, cumulative, recommendation, exit, ever>>

Next == Iterate \/ DestroyRaises \/ PollRaises \/ Sleep

Spec == Init /\ [][Next]_vars

\* the process runs on, whatever the instance does
ProcessRuns == WF_vars(Iterate \/ DestroyRaises \/ PollRaises) /\ WF_vars(Sleep)

\* Vast answers again and again: not every poll and not every destroy raises
VastAnswers == SF_vars(Iterate)

-----------------------------------------------------------------------------
(* Properties.                                                             *)

\* The two deadlines for a host that does not get going never kill an instance
\* that did: once any iteration saw provisioning, a sync or vLLM, even if those
\* lines have left the log tail since, the launch is not condemned for a slow
\* image pull or missing provisioning; and each deadline is only applied to the
\* kind of start (cached image or pull) it was sized for.
DeadlinesSpareBusyHosts ==
  /\ recommendation \in {"CONSIDER_TERMINATE_NO_PROVISIONING",
                         "CONSIDER_TERMINATE_SLOW_IMAGE_PULL"} =>
       ever.seen \intersect {"provisioning_started", "r2_sync_started",
                             "r2_sync_finished", "vllm_started", "api_ready"} = {}
  /\ recommendation = "CONSIDER_TERMINATE_SLOW_IMAGE_PULL" => "image_cached" \notin ever.seen

\* A launch that stays in the loop after an iteration that read a failed speed
\* test or failed provisioning is never accepted later, even when the failure has
\* left the log tail and its API answers, unless a destroy call for it raised.
\* (An API that answers in the iteration of the failure itself still wins: the
\* external probe overwrites the recommendation.)
NoAcceptAfterFailure ==
  exit = "0" /\ args.destroy_on_fail /\ args.yes_destroy /\ ever.failed => ever.raised

\* Exit code 0 of a full run (neither --once nor --skip-external-api-check)
\* means that vLLM was ready and its public API answered, whatever the
\* deadlines and failures said on the way.
AcceptanceIsProven ==
  exit = "0" /\ ~args.once /\ ~args.skip_external_api_check =>
    "api_ready" \in ever.seen /\ recommendation = "READY_EXTERNAL_API"

\* As long as polls and destroy calls do not fail for ever, the monitor ends.
MonitorEnds == <>(phase = "exited")

AnsweredSpec == Spec /\ ProcessRuns /\ VastAnswers
=============================================================================
