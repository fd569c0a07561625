------------------------- MODULE MCReadinessMonitor -------------------------
(***************************************************************************)
(* The deadlines keep the order of their defaults (60 s, 240 s, 600 s,     *)
(* 900 s, 1800 s), one or two units pass between two iterations.           *)
(***************************************************************************)
EXTENDS ReadinessMonitor

Args(destroy, yes, once, skip) ==
  [destroy_on_fail |-> destroy, yes_destroy |-> yes, once |-> once,
   skip_external_api_check |-> skip, no_early_port_check |-> FALSE]

\* the guarded launcher's command line
GuardedArgs == {Args(TRUE, TRUE, FALSE, FALSE)}

\* a line of each kind the recommendation tells apart (a finished sync is told
\* from a started one by its wording only), and those that matter for the end
KeyLines == {"image_pull_seen", "image_cached", "provisioning_started",
             "vllm_started", "api_ready", "speed_test_failed", Caddy}

\* the guarded launcher's with --no-destroy-on-monitor-fail, a single look, and
\* a missing --yes-destroy without the external check
AllArgs ==
  GuardedArgs \union
  {Args(FALSE, FALSE, FALSE, FALSE), Args(FALSE, FALSE, TRUE, FALSE),
   Args(TRUE, FALSE, FALSE, TRUE)}
=============================================================================
