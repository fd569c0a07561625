-------------------------- MODULE ReadinessProofs ---------------------------
(***************************************************************************)
(* Proofs about ReadinessMonitor, for all deadlines, pauses, command lines *)
(* and lines that an instance may print: whom the deadlines condemn, and   *)
(* whom the monitor accepts.                                               *)
(*                                                                         *)
(* The inductive invariant is VerdictInv.  What the log has shown so far   *)
(* is all there is to a verdict: the signals are the history (seen), so    *)
(* that no deadline can be applied to a milestone that scrolled away, and  *)
(* an iteration that reads a failure ends the loop or has its destroy call *)
(* raise.                                                                  *)
(***************************************************************************)
EXTENDS ReadinessMonitor, TLAPS

Busy == {"provisioning_started", "r2_sync_started", "r2_sync_finished", "vllm_started", "api_ready"}

\* a recommendation that fits a set of signals
Fits(rec, signals) ==
  /\ rec \in {"CONSIDER_TERMINATE_NO_PROVISIONING", "CONSIDER_TERMINATE_SLOW_IMAGE_PULL"} =>
       signals \intersect Busy = {}
  /\ rec = "CONSIDER_TERMINATE_SLOW_IMAGE_PULL" => "image_cached" \notin signals
  /\ rec = "READY_EXTERNAL_API" => "api_ready" \in signals

\* The command line under which a condemned instance is destroyed.
Destroys == args.destroy_on_fail /\ args.yes_destroy

FullRun == ~args.once /\ ~args.skip_external_api_check

VerdictInv ==
  /\ TypeOK
  /\ ever.seen = cumulative
  /\ Fits(recommendation, cumulative)
  /\ Destroys /\ ever.failed => ever.raised
  /\ exit # "none" <=> phase = "exited"
  /\ exit = "0" /\ FullRun => recommendation = "READY_EXTERNAL_API"

-----------------------------------------------------------------------------
(* The decisions of one iteration. *)

\* What print_status recommends fits the signals, and condemns after a failure.
LEMMA RecommendationFits ==
  ASSUME NEW signals \in SUBSET SignalFields, NEW pulling \in BOOLEAN
  PROVE  LET rec == Recommend(signals, pulling)
         IN  /\ rec \in Recommendations \ {"READY_EXTERNAL_API"}
             /\ Fits(rec, signals)
             /\ FailMarkers \intersect signals # {} => rec \in Condemning
BY DEF Recommend, Recommendations, Fits, Busy, FailMarkers, Condemning

\* The probes only replace it by verdicts of their own: that of an API that
\* answers, or those that condemn.
LEMMA ProbedRecommendationFits ==
  ASSUME NEW signals \in SUBSET SignalFields, NEW tail, NEW pulling \in BOOLEAN,
         NEW reachable \in BOOLEAN, NEW models_ok \in BOOLEAN
  PROVE  LET rec == AfterProbes(Recommend(signals, pulling), signals, tail, reachable, models_ok)
         IN  /\ rec \in Recommendations
             /\ Fits(rec, signals)
             /\ FailMarkers \intersect signals # {} => rec \in Condemning \union {"READY_EXTERNAL_API"}
<1> DEFINE first == Recommend(signals, pulling)
<1>1. /\ first \in Recommendations
      /\ Fits(first, signals)
      /\ FailMarkers \intersect signals # {} => first \in Condemning
  BY RecommendationFits
<1> HIDE DEF first
<1>2. AfterProbes(first, signals, tail, reachable, models_ok) \in
        {first, "TERMINATE_DIRECT_PORTS_UNREACHABLE", "TERMINATE_EXTERNAL_API_UNREACHABLE"}
      \/ /\ AfterProbes(first, signals, tail, reachable, models_ok) = "READY_EXTERNAL_API"
         /\ "api_ready" \in signals
  BY DEF AfterProbes, ProbesApi
<1>3. /\ AfterProbes(first, signals, tail, reachable, models_ok) \in Recommendations
      /\ Fits(AfterProbes(first, signals, tail, reachable, models_ok), signals)
      /\ FailMarkers \intersect signals # {} =>
           AfterProbes(first, signals, tail, reachable, models_ok) \in Condemning \union {"READY_EXTERNAL_API"}
  BY <1>1, <1>2 DEF Fits, Recommendations, Condemning
<1> QED BY <1>3 DEF first

\* What an iteration observes, in the form both of its outcomes need.
LEMMA Observation ==
  ASSUME TypeOK, ever.seen = cumulative,
         NEW tail \in Tails, NEW pulling \in BOOLEAN,
         NEW reachable \in PortAnswers(tail), NEW models_ok \in ApiAnswers(tail),
         Observe(tail, pulling, reachable, models_ok)
  PROVE  /\ cumulative' = ever.seen \union (tail \intersect SignalFields)
         /\ cumulative' \in SUBSET SignalFields
         /\ recommendation' \in Recommendations
         /\ Fits(recommendation', cumulative')
         /\ FailMarkers \intersect tail # {} => recommendation' \in Condemning \union {"READY_EXTERNAL_API"}
         /\ port_age' \in (0..PortDeadline) \union {NotYet}
         /\ ready_age' \in (0..ExternalDeadline) \union {NotYet}
<1>1. reachable \in BOOLEAN /\ models_ok \in BOOLEAN
  BY DEF PortAnswers, ApiAnswers, Answers
<1>2. Signals(tail) \in SUBSET SignalFields /\ Signals(tail) = ever.seen \union (tail \intersect SignalFields)
  BY DEF TypeOK, Signals
<1>3. /\ cumulative' = Signals(tail)
      /\ recommendation' = AfterProbes(Recommend(Signals(tail), pulling), Signals(tail), tail, reachable, models_ok)
  BY DEF Observe
<1>4. FailMarkers \intersect tail # {} => FailMarkers \intersect Signals(tail) # {}
  BY <1>2 DEF SignalFields
<1>5. /\ recommendation' \in Recommendations
      /\ Fits(recommendation', cumulative')
      /\ FailMarkers \intersect tail # {} => recommendation' \in Condemning \union {"READY_EXTERNAL_API"}
  BY <1>1, <1>2, <1>3, <1>4, ProbedRecommendationFits
<1>6. /\ port_age' \in (0..PortDeadline) \union {NotYet}
      /\ ready_age' \in (0..ExternalDeadline) \union {NotYet}
  BY MonitorConstants DEF Observe, Started, TypeOK
<1> QED BY <1>2, <1>3, <1>5, <1>6

-----------------------------------------------------------------------------
(* The loop *)

LEMMA VerdictInit == Init => VerdictInv
BY MonitorConstants DEF Init, VerdictInv, TypeOK, Fits, SignalFields, BootMarkers, Recommendations

\* A normal iteration: a failure that it read is a reason to destroy, unless
\* the API answered, which is a reason to accept.
LEMMA IterateStep == VerdictInv /\ Iterate => VerdictInv'
<1> SUFFICES ASSUME VerdictInv,
                    NEW tail \in Tails, NEW pulling \in BOOLEAN,
                    NEW reachable \in PortAnswers(tail), NEW models_ok \in ApiAnswers(tail),
                    Observe(tail, pulling, reachable, models_ok), Conclude, ever' = Witness(tail),
                    phase = "poll", UNCHANGED <<args, elapsed>>
             PROVE  VerdictInv'
  BY DEF Iterate
<1>1. /\ cumulative' = ever.seen \union (tail \intersect SignalFields)
      /\ cumulative' \in SUBSET SignalFields
      /\ recommendation' \in Recommendations
      /\ Fits(recommendation', cumulative')
      /\ FailMarkers \intersect tail # {} => recommendation' \in Condemning \union {"READY_EXTERNAL_API"}
      /\ port_age' \in (0..PortDeadline) \union {NotYet}
      /\ ready_age' \in (0..ExternalDeadline) \union {NotYet}
  BY Observation DEF VerdictInv
<1>2. /\ ever' \in [seen : SUBSET SignalFields, failed : BOOLEAN, raised : BOOLEAN]
      /\ ever'.seen = cumulative'
      /\ ever'.failed = (ever.failed \/ (FailMarkers \intersect tail # {} /\ phase' = "sleep"))
      /\ ever'.raised = ever.raised
  BY <1>1 DEF VerdictInv, TypeOK, Witness
<1>3. \/ Condemned /\ phase' = "exited" /\ exit' \in {"3", "4"}
      \/ ~Condemned /\ (Accepted \/ args.once) /\ phase' = "exited" /\ exit' = "0"
      \/ ~Condemned /\ ~Accepted /\ phase' = "exited" /\ exit' = "2"
      \/ ~Condemned /\ ~Accepted /\ phase' = "sleep" /\ exit' = exit
  BY DEF Conclude, Exit, Loop
<1>4. exit = "none"
  BY DEF VerdictInv, TypeOK
<1>5. Destroys' /\ ever'.failed => ever'.raised
  <2>1. Destroys' = Destroys
    BY DEF Destroys
  <2>2. ASSUME Destroys, FailMarkers \intersect tail # {}, phase' = "sleep" PROVE FALSE
    BY <1>1, <1>3, <2>2 DEF Destroys, Condemned, Accepted, Fits
  <2> QED BY <1>2, <2>1, <2>2 DEF VerdictInv
<1>6. exit' = "0" /\ FullRun' => recommendation' = "READY_EXTERNAL_API"
  BY <1>3, <1>4 DEF FullRun, Accepted
<1> QED BY <1>1, <1>2, <1>3, <1>4, <1>5, <1>6 DEF VerdictInv, TypeOK

\* The destroy call raised: the loop goes on, or --once gives up.
LEMMA DestroyRaisesStep == VerdictInv /\ DestroyRaises => VerdictInv'
<1> SUFFICES ASSUME VerdictInv,
                    NEW tail \in Tails, NEW pulling \in BOOLEAN,
                    NEW reachable \in PortAnswers(tail), NEW models_ok \in ApiAnswers(tail),
                    Observe(tail, pulling, reachable, models_ok), Raised,
                    ever' = [Witness(tail) EXCEPT !.raised = TRUE],
                    phase = "poll", UNCHANGED <<args, elapsed>>
             PROVE  VerdictInv'
  BY DEF DestroyRaises
<1>1. /\ cumulative' = ever.seen \union (tail \intersect SignalFields)
      /\ cumulative' \in SUBSET SignalFields
      /\ recommendation' \in Recommendations
      /\ Fits(recommendation', cumulative')
      /\ port_age' \in (0..PortDeadline) \union {NotYet}
      /\ ready_age' \in (0..ExternalDeadline) \union {NotYet}
  BY Observation DEF VerdictInv
<1>2. /\ ever' \in [seen : SUBSET SignalFields, failed : BOOLEAN, raised : BOOLEAN]
      /\ ever'.seen = cumulative' /\ ever'.raised
  BY <1>1 DEF VerdictInv, TypeOK, Witness
<1>3. \/ phase' = "exited" /\ exit' = "1"
      \/ phase' = "sleep" /\ exit' = "none"
  BY DEF Raised, Exit, Loop, VerdictInv, TypeOK
<1> QED BY <1>1, <1>2, <1>3 DEF VerdictInv, TypeOK

\* Nothing was read: no verdict changes.
LEMMA PollRaisesStep == VerdictInv /\ PollRaises => VerdictInv'
<1> SUFFICES ASSUME VerdictInv, PollRaises PROVE VerdictInv'
  OBVIOUS
<1>1. \/ phase' = "exited" /\ exit' = "1"
      \/ phase' = "sleep" /\ exit' = "none"
  BY DEF PollRaises, Raised, Exit, Loop, VerdictInv, TypeOK
<1> QED BY <1>1 DEF PollRaises, VerdictInv, TypeOK, Destroys, FullRun

\* Time passes; no clock runs past its deadline.
LEMMA SleepStep == VerdictInv /\ Sleep => VerdictInv'
<1> SUFFICES ASSUME VerdictInv, Sleep, NEW d \in Pauses,
                    elapsed' = Least(elapsed + d, Horizon),
                    port_age' = Later(port_age, d, PortDeadline),
                    ready_age' = Later(ready_age, d, ExternalDeadline)
             PROVE  VerdictInv'
  BY DEF Sleep
<1>1. d \in Nat /\ NotYet \notin Nat
  BY MonitorConstants
<1>2. elapsed' \in 0..Horizon
  BY <1>1, MonitorConstants DEF VerdictInv, TypeOK, Least
<1>3. ASSUME NEW deadline \in Nat, NEW age \in (0..deadline) \union {NotYet}
      PROVE  Later(age, d, deadline) \in (0..deadline) \union {NotYet}
  <2>1. CASE age = NotYet
    BY <2>1 DEF Later
  <2>2. CASE age \in 0..deadline
    <3>1. Least(age + d, deadline) \in 0..deadline
      BY <1>1, <2>2 DEF Least
    <3>2. Later(age, d, deadline) = Least(age + d, deadline)
      BY <1>1, <2>2 DEF Later
    <3> QED BY <3>1, <3>2
  <2> QED BY <2>1, <2>2
<1>4. /\ port_age' \in (0..PortDeadline) \union {NotYet}
      /\ ready_age' \in (0..ExternalDeadline) \union {NotYet}
  BY <1>3, MonitorConstants DEF VerdictInv, TypeOK
<1> QED BY <1>2, <1>4 DEF Sleep, VerdictInv, TypeOK, Destroys, FullRun

LEMMA VerdictStep == VerdictInv /\ [Next]_vars => VerdictInv'
<1>1. VerdictInv /\ UNCHANGED vars => VerdictInv'
  BY DEF vars, VerdictInv, TypeOK, Destroys, FullRun
<1> QED BY <1>1, IterateStep, DestroyRaisesStep, PollRaisesStep, SleepStep DEF Next

LEMMA VerdictsHold == Spec => []VerdictInv
BY VerdictInit, VerdictStep, PTL DEF Spec

-----------------------------------------------------------------------------
(* Theorems *)

\* The monitor's clocks, signals, recommendations and exit codes keep their
\* types, whatever the instance prints and however long the pauses are.
THEOREM MonitorTypeCorrect == Spec => []TypeOK
<1>1. VerdictInv => TypeOK
  BY DEF VerdictInv
<1> QED BY VerdictsHold, <1>1, PTL

\* Neither start deadline condemns an instance that any iteration saw at work.
THEOREM BusyHostsAreSpared == Spec => []DeadlinesSpareBusyHosts
<1>1. VerdictInv => DeadlinesSpareBusyHosts
  BY DEF VerdictInv, DeadlinesSpareBusyHosts, Fits, Busy
<1> QED BY VerdictsHold, <1>1, PTL

\* Under --destroy-on-fail --yes-destroy only a destroy call that raised keeps
\* the loop going after a failure, so nothing else lets it accept later.
THEOREM FailedHostsAreNotAccepted == Spec => []NoAcceptAfterFailure
<1>1. VerdictInv => NoAcceptAfterFailure
  BY DEF VerdictInv, NoAcceptAfterFailure, Destroys
<1> QED BY VerdictsHold, <1>1, PTL

\* Exit code 0 of a full run is that of an API that answered.
THEOREM AcceptedHostsAnswered == Spec => []AcceptanceIsProven
<1>1. VerdictInv => AcceptanceIsProven
  BY DEF VerdictInv, AcceptanceIsProven, FullRun, Fits
<1> QED BY VerdictsHold, <1>1, PTL

-----------------------------------------------------------------------------
(* Why the monitor ends.  MonitorEnds itself needs fairness and stays with  *)
(* TLC; what it rests on is the following.                                  *)

\* an iteration and a pause take turns; a pause brings the clock nearer to the
\* time limit, and behind it only a raised exception keeps the loop going
ClockRuns ==
  \/ /\ phase = "poll" /\ phase' \in {"sleep", "exited"} /\ elapsed' = elapsed
     /\ elapsed >= Timeout /\ phase' = "sleep" => DestroyRaises \/ PollRaises
  \/ phase = "sleep" /\ phase' = "poll" /\ (elapsed' > elapsed \/ elapsed' >= Timeout)

\* No deadline, probe or log line makes the loop outlast --timeout: from there on
\* the first iteration in which no call to Vast raises is the last.
THEOREM TimeLimitHolds == Spec => [][ClockRuns]_vars
<1>1. TypeOK /\ Next => ClockRuns
  <2> SUFFICES ASSUME TypeOK, Next PROVE ClockRuns
    OBVIOUS
  <2>1. CASE Iterate
    <3>1. phase = "poll" /\ UNCHANGED elapsed /\ Conclude
      BY <2>1 DEF Iterate
    <3>2. phase' \in {"sleep", "exited"} /\ ~(elapsed >= Timeout /\ phase' = "sleep")
      BY <3>1 DEF Conclude, Exit, Loop
    <3> QED BY <3>1, <3>2 DEF ClockRuns
  <2>2. CASE DestroyRaises \/ PollRaises
    <3>1. phase = "poll" /\ UNCHANGED elapsed /\ Raised
      BY <2>2 DEF DestroyRaises, PollRaises
    <3> QED BY <2>2, <3>1 DEF Raised, Exit, Loop, ClockRuns
  <2>3. CASE Sleep
    <3>1. PICK d \in Pauses : elapsed' = Least(elapsed + d, Horizon)
      BY <2>3 DEF Sleep
    <3>2. d \in Nat \ {0} /\ elapsed \in Nat /\ Horizon \in Nat /\ Timeout \in Nat /\ Horizon >= Timeout
      BY MonitorConstants DEF TypeOK
    <3>3. elapsed' > elapsed \/ elapsed' >= Timeout
      BY <3>1, <3>2 DEF Least
    <3> QED BY <2>3, <3>3 DEF Sleep, ClockRuns
  <2> QED BY <2>1, <2>2, <2>3 DEF Next
<1> QED BY <1>1, MonitorTypeCorrect, PTL DEF Spec
=============================================================================
