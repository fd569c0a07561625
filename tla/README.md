# A TLA+ model of vast-ai-provisioning

The repository rents GPU instances on Vast.ai, brings up vLLM on them with models
kept in an R2 bucket, watches them until they serve, books everything in a sqlite
ledger, and gives them back. What can go wrong is money and trust: an instance that
is billed while nobody knows it, books that are closed on an instance that lives, a
healthy host that is killed for a slow image, a host that serves half a model.

This directory models the programs that decide those things, checks them with TLC on
small instances and proves the safety properties with TLAPS for all instances. Four
systems are modelled, each a composition of modules: the *rental* of one instance by
four programs over one ledger, the *market* in which offers are chosen and rented, the
*delivery* of a model into the container, and the *load* programs that measure a server.

## 1. Inventory

### Components, their state and their operations

| Component | State | Operations | Correct when |
|---|---|---|---|
| Launch ledger (`scripts/launch_ledger.py`, `docs/launch-ledger-schema.sql`) | table `launches` (one row per launch), `launch_events` (first-seen), metric samples | `record_created_launch`, `update_instance_snapshot`, `update_monitor_result`, `update_smoke_result`, `mark_destroyed`, `record_event` | first-seen times never move; a closed row is explained and stays closed |
| Launcher (`scripts/select_and_launch.py`) | its progress with one instance | select an offer, create, record, poll, monitor (a child process), smoke | its conclusions are true of the instance and of the ledger |
| Readiness monitor (`scripts/monitor_instance_readiness.py`) | cumulative log signals, two probe clocks, last recommendation | poll, recommend, probe ports, probe API, update ledger, destroy, exit | it accepts what serves, kills only what fails, and ends |
| Clean termination (`scripts/clean_terminate_instance.py`) | its progress | capture, destroy, mark | the instance is gone and booked |
| Reconciliation (`scripts/reconcile_launch_ledger.py`) | active rows, listing, audit history, all read up front | compare, snapshot, mark | audited deletes get booked, absent ones do not |
| Vast.ai (external) | instances, audit log | create, show, list, destroy; hosts vanish, operators delete | - |
| Parallel upload (`scripts/stream_hf_model_to_r2_parallel.py`) | per file: attempts, open stream; bucket objects; manifest | list, skip, stream, retry, write the manifest | a manifest stands over whole objects |
| Provisioning (`provision_vast_vllm_from_r2.sh`, `scripts/patches/`) | the container's disk and its vLLM package | checks, speed test, sync model and drafter, shim, patch | it serves a complete model on a patched package |
| Other provisioning (`provision_glm53_flash_from_r2.sh`), other uploads (`stream_hf_model_to_r2.py`, `transfer_model_to_R2.sh`) | as above | sequential variants | as above |
| Offer policy (in `select_and_launch.py`, again in `scan_best_value_per_profile.py`, `select_launch_llamacpp.py`, `find_cheapest_gpus.py`) | none | patch the policy, filter, price with the download, sort | no acceptable offer is passed over that the search could return |
| `scripts/smoke_chat_once.py` | attempts, one instance each | search, rent, wait, chat or quick bench, close out, try again | every instance it leaves billed is accounted for; the bench loses no request |
| `scripts/select_launch_llamacpp.py` | one launch; a script on the host over SSH | select, try ask ids, wait, bootstrap, probe; again with `--instance-id` | one contract per launch; a printed endpoint serves the run's model, unless the old server outlived its kill |
| `scripts/scan_best_value_per_profile.py`, `scripts/migrations/001_...py` | table `market_offers` | search per profile, record, loop; migrate | a scan's rows appear together and are the best offers |
| `scripts/coding_agent_saturation_ramp.py` | a thread per user, cached address, scrapes | warm up, scrape, submit, retry, collect, report | no turn is lost or counted twice; counter growth is its own |
| `scripts/context_ladder_bench.py` | snapshots of counters, the best prose round | settle, send, gate, retry, skip | a recorded round's growth is that round's |
| `benchmark/run_deterministic_agentic_benchmark.py` | known release lines; pi's session file | send or paste, wait, pair with the backend's log | no answer is booked twice or out of order; a release lags by no more than what was lost |
| `summarize_vllm_metrics.py`, `archive_prometheus_metrics.py` | two samples | counter deltas, rates | resets and missing samples give no rate |
| `vast_gpu_risk_scan.py`, reports, quality bench, templates, wrappers, cron | files | search, format, render, upload | - |

### How they interact

* The launcher starts the monitor as a child process, waits for it and takes its exit
  code: 0 ready, 2 time limit, 3 destroy asked for but not allowed, 4 destroyed, 130
  interrupted. Code 3 does not arise under the launcher.
* Launcher, monitor, clean_terminate and reconcile share the ledger (each call is one
  or more transactions on a connection of its own) and the Vast account, and nothing
  else. An operator may run the last two at any time, also during a launch.
* The uploader fills the bucket which provisioning copies inside the container; the
  monitor reads provisioning's output from the instance's log.
* The launchers and the market scan run the same policy code (copied, not imported) over
  searches whose answers the service sorts and cuts off. `smoke_chat_once.py` and
  `select_launch_llamacpp.py` rent without ledger and monitor.
* The market scan shares the sqlite file with the ledger, and its table with a migration
  script that may be run at any time.
* The load programs share a server whose counters and log belong to everybody, and read
  their own share out of them.

### What is hard

Interleaving of four programs on one row (reads made up front, writes made late);
crashes between a destroy call and its mark; lost requests and lost answers; ledger
transactions that raise (a busy database, a missing row); log lines that scroll out of
the tail while deadlines run; retries of streams that replace objects; container
restarts that decide by the presence of one file; a search window sorted by another key
than the choice; questions and flags that decide at several places whether money is
spent; failed create calls that rented all the same; scripts that outlive the session
that started them; timed-out requests that go on running and are counted in the next
window; threads that retry and resubmit while the main thread counts. `PROJECT.json`
lists each hazard at its line, with the property that covers it or the reason why none
does.

## 2. Modules

| Module | Models | Notes |
|---|---|---|
| `LaunchLedger` | the ledger's transactions | row transformers are the SET clauses; `LedgerSpec` is the most general client |
| `VastCloud` | Vast (external) | a destroy call that raised may or may not have arrived |
| `MonitorProcess` | the monitor as a client of ledger and Vast | EXTENDS the two; verdicts are left open |
| `CleanTerminate` | clean_terminate | every line that may raise ends the program |
| `Reconcile` | reconcile | stale reads kept in `rtodo`, `rlist`, `raudit` |
| `Launcher` | select_and_launch from the create call | each `try` is one block that a failing transaction leaves |
| `RentalSystem` | the composition | shared: ledger and cloud; all invariants are here |
| `RentalContract` | abstract specification | rented, booked, ended, closed; refined by `RentalSystem` |
| `ReadinessMonitor` | the monitor's decisions | log tails, deadlines, probes, exit codes |
| `ModelStore`, `R2Upload` | repository and bucket (external), uploader | one file is one worker's stream |
| `Provisioning` | the provisioning script | attempts of the entry point and container restarts around it |
| `SpeedTestRanges` | the ranged GETs of its speed test | pure operators over the bytes and the streams |
| `OfferPolicy` | patches, filters, effective cost, sort keys | pure operators; an offer is a record, a missing field is `Null` |
| `OfferMarket` | inputs and helpers of the programs that search | searches answer with what the service's order and limit allow |
| `GuardedSelection` | select_and_launch up to the create call | `Launcher` is what follows |
| `SmokeLoop` | smoke_chat_once's attempts and closeout | interrupts anywhere; `try`/`finally` as `Close` and `Leave` |
| `LlamacppLauncher` | select_launch_llamacpp and its script on the host | two processes; the script outlives a timeout |
| `MarketScan` | the scan and the migration | one transaction per scan |
| `MarketSystem` | the composition | one program per behaviour over one market and account; the invariants |
| `VllmServer` | the inference server (external) | requests, counters, log; restarts, other clients, requests nobody waits for |
| `SaturationRamp`, `QuickBench`, `ContextLadder`, `AgenticBench`, `PiDriver` | the load programs | one per behaviour |
| `LoadTests` | the composition | the invariants |
| `LaunchLedgerProofs`, `RentalProofs`, `RentalRefinement`, `ReadinessProofs`, `R2UploadProofs`, `ProvisioningProofs`, `MarketProofs`, `LoadProofs` | proofs | |
| `MC*` | instances for TLC | constants; `MCProvisioning` also evaluates the speed test's ranges |

Correspondence. A program counter (`mpc`, `cpc`, `rpc`, `lpc`, `pstep`) names the next
statement that touches shared state; an action is that statement with everything local
up to the next one. A `try` is modelled by where the program goes on when a statement in
it raises (`AfterTry`, `MonitorLedgerFails`, `CleanLedgerFails`, `ReconcileFails`).
`map` in `PROJECT.json` names the lines of each definition. Operators whose comment
begins with "Variant" are used by no specification: they are plausible slips of the
definition below them, and each property is known to notice one.

Abstractions that matter:

* Time stamps are members of a set; only equality matters for first-seen columns.
* `destroy_instance` returning means that the instance is deleted. The SDK may also
  answer `{"success": false}`, which every program ignores; what it means is not
  visible in this repository.
* A launch key is made of the instance id, so launches never share a row; the programs
  of one launch touch no other. TLC therefore takes one launch, the proofs any number.
* `MonitorCrash` with code 130 stands for every abnormal end of the monitor. In
  `ReadinessMonitor`, which is about verdicts, such ends are left out.
* `reconcile --dry-run` writes nothing and is left out.
* A clock in `ReadinessMonitor` stands still once it has passed every deadline it is
  compared with (`Horizon`). A tail of the log is any set of printed lines that is closed
  between its first and last: the log is a sequence and the tail a suffix of it, and
  another boot may begin in it.
* In `R2Upload` an object is its revision and its length. `aws` children that outlive
  the program are done before it is started again.
* In `Provisioning` the entry point that runs the script again is external; its limit of
  three attempts is known from the log line the monitor waits for ("All 3 attempts
  exhausted").
* A behaviour of `MarketSystem` is the life of one program over one market, chosen at
  the start: the programs share nothing but the account, where each knows only what it
  rented itself. Offers are records of the fields the policies read; the service returns
  any `SearchLimit` matching offers that its own order puts first.
* The bootstrap script compares lengths only, so in `LlamacppLauncher` a version of the
  model object is its length. A later run is assumed to start when the script of the
  earlier one is over.
* In `VllmServer`, `strays` is no state of the program: it is our account of the part of
  the counters that came from requests nobody waited for, and the properties say how
  much of what a program reads is its own in terms of it. `behind` in `PiDriver` and
  `survivor` in `LlamacppLauncher` are such accounts, too. A counter of finished requests stands for
  `server_queue_count` as well, which vLLM observes when a request is over. Only the
  ladder looks at tokens, and only for it do they appear one by one.
* `AgenticBench` is given a backend log; without one there is nothing to pair. Of a row
  only its release line is kept, and whether the answer's usage has a `prompt_tokens`
  is left open.
* A bootstrap's `kill` and `pkill` are SIGTERMs whose errors are passed over. The old
  server may stop at once, live on and keep the port, or stop later (`SurvivorStops`).
* `TurnsPerUser` is positive. `--requests-per-concurrency 0`, which argparse accepts,
  is outside the model (see section 6).

## 3. Runs

| Run | Question | Result |
|---|---|---|
| `ledger` | any transactions in any order | rows explained, first-seen stable, closed stays closed |
| `system` | four programs on one launch; ledger errors in launcher and clean_terminate, interrupts, host losses, console deletes | six invariants and the refinement of `RentalContract` |
| `recovery` | the same with the monitor's ledger failing, under fairness of reconcile | the launcher's repetition of the mark closes the books; audited deletes are booked in the end |
| `monitor` | every tail, probe answer, deadline, raised call | deadlines spare busy hosts, no acceptance after a failure, acceptance is proven, the monitor ends |
| `upload` | two streams, short downloads, retries, kills, two runs, a push meanwhile | manifests are backed, whatever earlier runs left to be skipped |
| `provision` | syncs failing anywhere, all drifts of the image, three attempts, two restarts anywhere | the first attempt is honest, restarts are read-only, attempts end |
| `market` | every market, policy, patch, command line, answer and fault for the four programs that search | the choice and the record are the best; nothing is rented unasked or twice; billed instances are accounted for; only a survivor of the kill serves another model than the run's; scans are atomic; programs end, but for a `--minutes` scan, which always comes back to its pause |
| `load` | the five load programs against a server that restarts, serves others and finishes abandoned requests | no request is lost or counted twice; the growth of counters goes to whom it belongs; release lines lag by no more than what was lost; answers are taken once and in order; programs end |
| `readiness`, `drifted_image`, `upload_revision`, `scan_columns` | sentences of the repository that the code does not keep | violated, see section 6 |

Bounds, and why they are enough. `ledger`: one launch, two times, so that every
first-seen column can be written twice with different values. `system`: one launch, two
reports (`running` and the one `instance_status` reads differently from
`poll_instance`), one tracked event (`instance_destroyed`); no counter is bounded, the
state space is finite as it stands. `recovery` takes one report, as liveness does not
depend on it. `monitor`: the five deadlines keep the order of their defaults
(60, 240, 600, 900, 1800 s become 1 to 5), one or two units pass between polls, so that
a deadline can be met exactly or jumped over; seven of the ten log markers, since the
others raise the same recommendations. `upload`: one file whose length the listing gives
and that differs between the two revisions, one without; two workers, two attempts, two
runs, so that a second run meets every state a first can leave. `provision`: a config
and two shards (a sync can end before, between and after them), a patch of two changed
and two created files with the marker first among the created, as in the real patch of
ten and three; three attempts, three starts. `market`: eleven offers, each differing
from a plain one in one thing the policies look at (dearer but cheaper with the
download, greylisted, deverified, preferred, without a price, with a price of zero, dear
storage, without reliability, two GPUs, ...); every market of none or one of them, of any
two with the preferred one, and of any one with the dearer-but-cheaper one and the two
GPUs, under a `SearchLimit` of 2, so that a better offer can lie outside the window; two policies, three patch lists (one patch overriding another, one refused);
two `LaunchAttempts` (an attempt's leftover meets the next), two `AskIds`, two
`LlamaRuns` and two `ModelVersions` (a run finds the file of an earlier one and the
object replaced), two `ServicePolls`, one `ReadyPolls`, two `Profiles`, one of them
`Interruptible`, two `Scans`: a `--minutes` loop never ends, and the runs look at its first
two scans and the pause after them. `load`: one incident (a restart or another client's
request) and one `Unheard` request, since each falsifies an attribution by itself;
`MaxTokens` of 1; ramp `Plans` of two users in one step or one user in two, one warmup
turn, two measured turns; a ladder of two levels with two `ProseTries`; three
`Iterations` and `Prompts`, so that what a failed one leaves behind can reach the next
but one; one round of tools. These bounds are constants, and `MarketProofs` and
`LoadProofs` hold for all values of them.

Deadlock is checked where it says so by default: `system`, `recovery` (an operator can
always start clean_terminate) and `ledger`. All other programs end, so their runs turn
it off.

Fairness. `recovery` assumes that an operator keeps running reconcile and that listing
and audit query do not fail for ever (strong fairness, as each may fail at any time);
nothing is assumed of the other three programs, which may stop anywhere. `monitor`
assumes that the process runs on (weak) and that not every poll raises (strong), since
the handler of a raised poll never looks at the clock. `provision` assumes that each
command of the script ends (weak). `market` and `load` assume weak fairness of the
program's own step and of nothing else: each wait in these programs has a timeout (the
poll and probe limits are the model's clock), a question that is never answered is taken
to be answered in the end, and neither the server nor the host, pi or Vast has to do
anything.

## 4. Proofs

All theorems hold for every set of launches, files, reports, attempts and every
combination of faults; they use only the named ASSUMEs of the modules, which TLC
evaluates in the runs.

* `LaunchLedgerProofs`: each property of the ledger is proved one transaction at a time
  for the most general client, so it holds whatever programs are added.
* `RentalProofs`: the types of all programs first, then their books, of which
  `StepOrder` is the inductive strengthening. The
  properties one wants (`TerminatedMeansGone`, ...) are not inductive: a mark by
  clean_terminate is harmless only because the destroy call came before it
  (`DeletedBefore`), one by reconcile only because what it read of the audit log stays
  true (`AuditIsHonest`), and an event only because no row appears between a mark
  that matched nothing and the event after it (`BookedBefore`: the launcher's only
  INSERT is behind it when anyone else gets that far). `MarkedBefore` and
  `ExitMeansMarked` carry the marks to the events and exit codes that follow. The proof
  has one case per action of the four programs and of the cloud. TLC checks `StepOrder`
  in run `system`.
* `RentalRefinement`: each step of the four programs is, for the row of each launch, a
  step of `RentalContract` or a stutter.
* `ReadinessProofs`: `VerdictInv` says that the loop's signals are all that was ever
  seen, so that a verdict can be read off them: a recommendation fits the signals
  (`Fits`), a code ends the loop, and with the destroy flags an iteration that reads a
  failure ends the loop or has its destroy call raise. The lemmas on `Recommend` and
  `AfterProbes` carry it, for all deadlines, pauses and printable lines.
* `R2UploadProofs`: `UploadInv` says by phase and attempts how far a file can be
  (`Progress`) and that what counts as stored is stored (`Stored`); the manifest
  property follows as FinishRun needs every file skipped or uploaded.
* `ProvisioningProofs`: `Passed` (what lies behind a step), `Patching` (patch leaves no
  file out silently), `Cached` (after a start everything is a skip or an empty copy) and
  `FirstTry` (nothing to skip in the first attempt) together are inductive. It also holds
  the two theorems on `SpeedTestRanges`: the GETs ask for every byte exactly once
  (`RangesCoverOnce`), and a GET can start past the end only if the test has fewer bytes
  than the square of its streams (`OnlySmallObjectsHaveEmptyRanges`; five bytes and four
  streams are an example). TLC evaluates both on small objects in `MCProvisioning`'s
  ASSUME.
* `MarketProofs`, for all markets (of finitely many offers), policies, limits and
  numbers of attempts. `ChoiceInv` and `RecordInv` rest on `WhatASearchMisses`: an
  offer that a search leaves out has `limit` others before it that are not dearer by the
  hour, a cardinality argument over the sets of offers. `AskedInv` orders the questions
  before the steps behind them; `ContractInv` says that a launcher has rented nothing
  before its create call and only at its present ask id after; `AccountInv` ties the
  account to them. `SmokeInv` splits the attempts into those over (accounted for), the
  present one, and those to come (untouched). `HostInv` follows the length the script
  asked for through its steps, and leaves at the port the server of that length, the
  survivor of the kill, or none; `ScanInv` keeps a scan's rows apart from the table until
  the commit. `TypeInv` is the type invariant with the bounds of each counter at each
  step. `MarketConstants` is what these need of the constants: `Null` is no offer, the
  search limit is positive, and the llama.cpp launcher knows no `--dry-run`.
* `LoadProofs`, for all concurrencies, turns and levels and any number of incidents and
  abandoned requests. `ReleaseInv` is behind `ReleasesLagByTheLost`: `LogInv` bounds
  the lines written, those to come and the requests on the server by what was sent, and
  says of each line at which place it is at the latest, unless its request has none in
  its row; `RowsInv` holds the rows against the count of known lines. A row's line is
  beyond that count, so it has a place that only a recent request's can have.
  `SessionInv` is behind `AnswersComeInOrder`: pi
  works off the prompts in order (`QueueInv`), the answer taken last is older than any
  that can come (`TakenInv`). `RampInv` says that between the scrapes the server's successes are
  the good results, those collected and those still in a future; `LadderInv` that at most one request is waited
  for and that all own work since the snapshot is its. The growth that belongs to others
  is exactly what is counted in `strays`; it is not assumed to be zero.
  `CountInv` is behind `EveryRequestIsCounted`: the sums it speaks of are not inductive
  by themselves, as a failure gives up a number of turns at once. `Ahead`, the set of the
  turns before the users' futures, makes them so: submitted, given up and ahead are
  together the plan, and a failure moves as many turns from the one to the other as the
  user had left. `BenchInv` does the same for the quick bench. The type invariant falls
  into the server's part (`ServerInv`: every step of every program is one of four moves
  on the server), the ramp's (from `CountInv`) and one for each other program.

Why programs end. The liveness properties need fairness and are TLC's, but the part of
each that a change of the code could break is a safety property, and is proved for all
constants: no step leads back. `AttemptsGoOn` (provisioning), `ProgramsAdvance` (in
`MarketProofs` for the four programs that search, in `LoadProofs` for the five load
programs) and `TimeLimitHolds` (the monitor) give for each program a lexicographic
order whose every component is bounded by the types (`TypeInv` for the market): starts, attempts, places in
the attempt and files, for instance, or steps of the plan, stations, and for one of the
ramp's users turn, try and state of the future. Every step of the program is shown to
go on in it, and every step beside the program to leave it or to go on. Three waits
are left to the clock, and named in the theorems: pi's polls, an unlimited quick bench,
and the monitor's loop while calls raise. The scans of a `--minutes` loop have no last
one, so for it `ProgramsAdvance` says that a scan leads to the next, and `ProgramsEnd`
that it always comes back to the pause before it.

Left to TLC: everything under fairness (`AuditedDeleteIsBooked`, `MonitorEnds`,
`ProvisioningEnds`, `ProgramsEnd`, `LoadTestsEnd`), since liveness and ENABLED are out
of the prover's reach. Every other invariant and action property of the passing runs is
a theorem. No module declares a RECURSIVE operator.

## 5. Not modelled, and the plan

Next, in order:

1. `ModelDelivery`: `R2Upload` and `Provisioning` over one bucket, with a container that
   syncs while an upload runs. The sequential uploader as a variant of `R2Upload`, and
   `provision_glm53_flash_from_r2.sh` as one of `Provisioning`.
2. Two bootstrap scripts at once on one host.

Left out for good:

* `vast_gpu_risk_scan.py`, `find_cheapest_gpus.py` beyond its policy rules, the launch
  metrics report, `summarize_vllm_metrics.py`, the archives: they read, compute and
  format; no later step relies on a state of theirs.
* `textgen_quality_bench.py` and the validation of answers in the agentic benchmark:
  scores of texts.
* Templates: one document, rendered and sent in one request.
* Remote shell, listings, wrappers with fixed command lines, the rendering of vLLM's
  arguments, the NVLink printout.
* The samples and the migration of the ledger: append-only, read by reports.

## 6. Where code and documents differ

With a run that ends in a counterexample; the quotes are in `PROJECT.json`:

* The monitor wraps its signals in `{"signals": ...}`, so readiness never gets into
  the row (`readiness`).
* A drifted image is refused once and served by the next attempt, as the failed patch has
  created the file that means "already patched" (`drifted_image`).
* The parallel uploader fetches the default branch whatever `--revision` says and names
  `--revision` in the manifest (`upload_revision`).
* A `market_offers` table that the scan made lacks a column the scan inserts; nothing is
  ever recorded in it (`scan_columns`).

Seen in the models, without a run of their own:

* clean_terminate records an event before it destroys, and the event needs a row; an
  instance without one (the create answer was lost) cannot be destroyed by it, though
  the ledger "must not drive launch selection or runtime behavior"
  (`scripts/launch_ledger.py:4-5`).
* A launch that runs into the monitor's time limit keeps its instance, though guarded
  launches "monitor and destroy failed/stuck instances"
  (`docs/done/VAST_FAST_START_TERMINATION_PLAN.md:152`).
* The monitor's `--timeout`, its "overall" time limit
  (`scripts/monitor_instance_readiness.py:328`), is not looked at while polls raise.
* `context_ladder_bench.py:16-26` calls a round's delta "provably owned by that single
  request" and any failed gate a skip, "never a poisoned number". Only the success delta
  (:256) skips a round; tokens that do not add up (:253) and requests that run (:198) are
  printed. `DeltasAreOwn` is what remains: the tokens of requests still unheard are in
  the round's delta. "any skip stops the run" (:332) does not hold of prose rounds
  (:369-370), and three empty prose answers leave `best_rr` at None and raise (:150-153).
* After an HTTP error, or when `--backend-wait` is over, the agentic benchmark goes on
  without counting a release, and the late line of that request is taken for the next
  one's. From then on every row may have the line before its own; and as a row that finds
  two new lines takes the newest and counts one, the next row may book the same line
  again. `docs/programmatic-agentic-benchmark-onepager.md:153-163` excludes runs whose
  releases and requests differ in number; which row has the wrong release cannot be seen
  in the rows. `ReleasesLagByTheLost` is what remains: a row's line is never a later
  request's, and how far it can be off is bounded by the rows without one and the other
  clients' requests.
* The pi driver goes on after a prompt's timeout while pi still has the prompt in its
  queue. The next prompt is pasted behind it, and its late answer passes the test of
  `wait_for_assistant_turn` (:735-743) and is booked under the next prompt; the one after
  that may get the next one's, and so on. `AnswersComeInOrder` is what remains.
* `context_ladder_bench.py:8-9` reports the acceptance of speculative decoding "when the
  engine exposes the counters", and "otherwise it is reported as null". :267-268 look up
  the counters without asking, so with an engine that does not expose them the first
  measured round raises KeyError. `ContextLadder` is given an engine that does.
* With `--requests-per-concurrency 0` the ramp plans no measured turn
  (`coding_agent_saturation_ramp.py:417`), and submits one for each user all the same
  (:476), so more is completed than was planned; without warmup turns it divides by zero
  before the first step (:655). `EveryRequestIsCounted` takes at least one turn.
* The llama.cpp launcher leaves what it rented running after every failure, and has
  neither ledger row nor monitor. Abbreviated options, which argparse
  accepts, are not seen by `explicit_arg_names` (`select_launch_llamacpp.py:655`), so a
  profile overrides them.
* The bootstrap script (`select_launch_llamacpp.py:503-507`) tells the old servers to
  stop, waits two seconds and starts the new one. If an old one is still there, it may
  answer the probe, and the endpoint of the new model is printed over the old one's
  server, which may also stop later and leave none. `OnlySurvivorsAreStale` says that
  this is the only way.
* Two bootstrap scripts at once (a timeout, then a second run) share one `.r2tmp` file.
