--------------------------- MODULE MCMarketSystem ----------------------------
(***************************************************************************)
(* Offers that differ from a plain one in the fields the policies look at, *)
(* and every market of up to three of them.                                *)
(***************************************************************************)
EXTENDS MarketSystem

Plain ==
  [id |-> 1, machine_id |-> 1, verification |-> "verified", rentable |-> TRUE,
   gpu_name |-> "small", num_gpus |-> 1, gpu_total_ram |-> 24, cuda_max_good |-> 13,
   dph_total |-> 40, storage_total_cost |-> 4, disk_bw |-> 500, disk_io |-> Null,
   internet_down_cost_per_tb |-> 10, internet_up_cost_per_tb |-> 10,
   inet_down |-> 500, direct_port_count |-> 4, reliability2 |-> 98, disk_space |-> 200]

\* dearer by the hour, cheaper with the download
FreeTraffic == [Plain EXCEPT !.id = 2, !.machine_id = 2, !.dph_total = 45, !.internet_down_cost_per_tb = Null]
MoreReliable == [FreeTraffic EXCEPT !.id = 3, !.machine_id = 3, !.reliability2 = 99, !.disk_bw = Null, !.disk_io = 300]
PreferredOne == [Plain EXCEPT !.id = 4, !.machine_id = 4, !.dph_total = 60]
Greylisted == [Plain EXCEPT !.id = 5, !.machine_id = 5, !.dph_total = 20]
Deverified == [Plain EXCEPT !.id = 6, !.machine_id = Null, !.dph_total = 20, !.verification = "deverified"]
WithoutPrice == [Plain EXCEPT !.id = 7, !.machine_id = 7, !.dph_total = Null]
ZeroPrice == [Plain EXCEPT !.id = 8, !.machine_id = 8, !.dph_total = 0, !.storage_total_cost = 0]
DearStorage == [Plain EXCEPT !.id = 9, !.machine_id = 9, !.dph_total = 30, !.storage_total_cost = 20]
Unreliable == [Plain EXCEPT !.id = 10, !.machine_id = 10, !.dph_total = 30, !.reliability2 = Null]
TwoGpus == [Plain EXCEPT !.id = 11, !.machine_id = 11, !.gpu_name = "big", !.num_gpus = 2, !.dph_total = 50,
              !.verification = "unverified"]

Pool == {Plain, FreeTraffic, MoreReliable, PreferredOne, Greylisted, Deverified,
         WithoutPrice, ZeroPrice, DearStorage, Unreliable, TwoGpus}

MCMarkets ==
  {m \in SUBSET Pool : Cardinality(m) \in {0, 1}} \union
  {{a, b, PreferredOne} : a, b \in Pool} \union {{a, FreeTraffic, TwoGpus} : a \in Pool}

OneGpu == [gpu_name |-> "small", allowed_gpu_names |-> {"small"}, num_gpus |-> 1, min_gpu_total_ram_mb |-> 24]

PlainPolicy ==
  [configs |-> {OneGpu}, greylisted_machine_ids |-> {5}, preferred_machine_ids |-> {},
   require_verified |-> TRUE, min_cuda_max_good |-> 12, max_dph_total |-> 70, disk_gb |-> 100,
   max_storage_total_cost_per_hour |-> 25, max_storage_cost_per_gb_hour |-> 1,
   max_storage_percent_of_total |-> 20, min_disk_bw |-> 200,
   max_internet_down_cost_per_tb |-> 20, max_internet_up_cost_per_tb |-> 20,
   min_inet_down |-> 100, min_direct_port_count |-> 2, min_reliability2 |-> 90,
   expected_model_download_tb |-> 1]

\* a list of configurations, a preferred machine, no limit on storage's share
ChoosyPolicy ==
  [PlainPolicy EXCEPT !.configs = {[OneGpu EXCEPT !.allowed_gpu_names = {}],
                                   [gpu_name |-> "big", allowed_gpu_names |-> {}, num_gpus |-> 2, min_gpu_total_ram_mb |-> 24]},
                      !.preferred_machine_ids = {4, 5}, !.require_verified = FALSE,
                      !.max_storage_percent_of_total = Null]

MCPolicies == {PlainPolicy, ChoosyPolicy}

MCPatchLists ==
  {<<>>,
   <<[key |-> "pricing", limits |-> [max_dph_total |-> 30]],
     [key |-> "pricing", limits |-> [max_dph_total |-> 50]]>>,
   <<[key |-> "gpu", limits |-> [min_cuda_max_good |-> 0]]>>}

MCCommandLines ==
  [select |-> {{}, {"check_only"}, {"dry_run"}},
   smoke |-> {{}, {"launch_only"}, {"no_destroy_on_error"}},
   llamacpp |-> {{}, {"check_only"}, {"no_bootstrap", "max_dph"}},
   scan |-> {{}, {"skip_interruptible", "loop"}}]

OneOfferMarkets == {{Plain}}

OnlyTheScan == [MCCommandLines EXCEPT !.select = {}, !.smoke = {}, !.llamacpp = {}]
=============================================================================
