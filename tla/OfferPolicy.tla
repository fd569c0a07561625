----------------------------- MODULE OfferPolicy -----------------------------
(***************************************************************************)
(* Which offers of the Vast market a program may rent, and which of them   *)
(* it prefers: the policy code of scripts/select_and_launch.py, its copy   *)
(* in scripts/scan_best_value_per_profile.py, and the rules of             *)
(* scripts/select_launch_llamacpp.py and scripts/find_cheapest_gpus.py.    *)
(*                                                                         *)
(* An offer is a record with the fields of a search result.  A field that  *)
(* is missing is Null.  Money and speeds are whole numbers.  A policy is   *)
(* the launch profile's and the GPU profile's limits in one record.        *)
(***************************************************************************)
EXTENDS Integers, Sequences, FiniteSets

CONSTANT Null   \* the value of a field that is not there

-----------------------------------------------------------------------------
(* --relax-policy *)

PatchableKeys == {"network", "pricing", "reliability", "selection", "spot", "storage"}

\* A patch names a section of the launch profile and the limits it replaces;
\* every patch may only touch the patchable sections, or the program exits.
PatchesAccepted(patches) ==
  \A i \in DOMAIN patches : patches[i].key \in PatchableKeys

\* Deep merge, the later patch wins; limits no patch names are kept.
Patched(policy, patches) ==
  [limit \in DOMAIN policy |->
     LET naming == {i \in DOMAIN patches : limit \in DOMAIN patches[i].limits}
     IN IF naming = {} THEN policy[limit]
        ELSE patches[CHOOSE i \in naming : \A j \in naming : j <= i].limits[limit]]

-----------------------------------------------------------------------------
(* The policy of a launch profile *)

\* Python's "v or w": a missing field and a zero read alike
Or(v, w) == IF v \in {Null, 0} THEN w ELSE v

\* a missing cost is infinite
AtMost(v, limit) == v # Null /\ v <= limit

AtLeast(v, limit) == Or(v, 0) >= limit

\* One of the policy's GPU configurations fits.  allowed_gpu_configs gives
\* one configuration per name; the older form is a single configuration, whose
\* name may be missing and which may have a list of names besides.
GpuFits(o, p) ==
  \E c \in p.configs :
    /\ c.gpu_name \in {Null, o.gpu_name}
    /\ c.allowed_gpu_names = {} \/ o.gpu_name \in c.allowed_gpu_names
    /\ Or(o.num_gpus, 0) = c.num_gpus
    /\ AtLeast(o.gpu_total_ram, c.min_gpu_total_ram_mb)

\* storage per hour, per hour and GB, and as a share of the whole price
StorageFits(o, p) ==
  /\ AtMost(o.storage_total_cost, p.max_storage_total_cost_per_hour)
  /\ p.disk_gb > 0
  /\ o.storage_total_cost <= p.max_storage_cost_per_gb_hour * p.disk_gb
  /\ \/ p.max_storage_percent_of_total = Null
     \/ /\ o.dph_total # Null /\ o.dph_total > 0
        /\ 100 * o.storage_total_cost <= p.max_storage_percent_of_total * o.dph_total

\* Variant: a missing price reads as zero.
PriceFitsUnpriced(o, p) == Or(o.dph_total, 0) <= p.max_dph_total

\* A price of zero is taken for a missing one.
PriceFits(o, p) == AtMost(Or(o.dph_total, Null), p.max_dph_total)

\* offer_passes_policy.  Traffic without a price is taken for free.
OfferPasses(o, p) ==
  /\ GpuFits(o, p)
  /\ o.machine_id \notin p.greylisted_machine_ids
  /\ o.verification # "deverified"
  /\ AtLeast(o.cuda_max_good, p.min_cuda_max_good)
  /\ PriceFits(o, p)
  /\ StorageFits(o, p)
  /\ AtLeast(Or(o.disk_bw, o.disk_io), p.min_disk_bw)
  /\ Or(o.internet_down_cost_per_tb, 0) <= p.max_internet_down_cost_per_tb
  /\ Or(o.internet_up_cost_per_tb, 0) <= p.max_internet_up_cost_per_tb
  /\ AtLeast(o.inet_down, p.min_inet_down)
  /\ AtLeast(o.direct_port_count, p.min_direct_port_count)
  /\ AtLeast(o.reliability2, p.min_reliability2)
  /\ AtLeast(o.disk_space, p.disk_gb)

Infinity == 1000000

\* the price of an hour and of the model's download
EffectiveCost(o, p) ==
  Or(o.dph_total, Infinity) + p.expected_model_download_tb * Or(o.internet_down_cost_per_tb, 0)

Preferred(o, p) == o.machine_id \in p.preferred_machine_ids

\* Keys are compared from their first component on.
KeyBefore(a, b) ==
  \E i \in DOMAIN a : a[i] < b[i] /\ \A j \in 1..(i - 1) : a[j] = b[j]

SelectionKey(o, p) ==
  <<IF Preferred(o, p) THEN 0 ELSE 1, EffectiveCost(o, p), -Or(o.reliability2, 0)>>

\* the first offers after sorting the passing ones; equal keys keep the
\* order of the search result, which may be any
FirstChoices(raw, p) ==
  LET passing == {o \in raw : OfferPasses(o, p)}
  IN {o \in passing : \A other \in passing : ~KeyBefore(SelectionKey(other, p), SelectionKey(o, p))}

-----------------------------------------------------------------------------
(* The market search *)

\* What the query of one GPU configuration matches; a list of allowed names is
\* not part of it.  Excluding deverified offers is a best effort of the
\* service, requiring verified ones is not.
Matches(o, c, p) ==
  /\ o.rentable
  /\ o.num_gpus = c.num_gpus
  /\ c.gpu_name \in {Null, o.gpu_name}
  /\ AtLeast(o.gpu_total_ram, c.min_gpu_total_ram_mb)
  /\ AtLeast(o.cuda_max_good, p.min_cuda_max_good)
  /\ p.require_verified => o.verification = "verified"

\* The service answers with the limit cheapest by dph_total; where it puts
\* offers without a price is open.
Cheapest(offers, limit) ==
  {w \in SUBSET offers :
     /\ Cardinality(w) = IF Cardinality(offers) < limit THEN Cardinality(offers) ELSE limit
     /\ \A i \in w, o \in offers \ w :
          i.dph_total # Null /\ o.dph_total # Null => i.dph_total <= o.dph_total}

\* one query per configuration, the answers merged by offer id
SearchResults(market, p, limit) ==
  LET answers == {f \in [p.configs -> SUBSET market] :
                    \A c \in p.configs :
                      f[c] \in Cheapest({o \in market : Matches(o, c, p)}, limit)}
  IN {UNION {f[c] : c \in p.configs} : f \in answers}

-----------------------------------------------------------------------------
(* The copies *)

\* the market scan's offer_passes_policy, the same text
ScanPasses(o, p) == OfferPasses(o, p)

\* Variant: sorted by the price of an hour only.
ScanKeyByHour(o, p) == <<0, Or(o.dph_total, Infinity), -Or(o.reliability2, 0)>>

\* the market scan does not put preferred machines first
ScanKey(o, p) == <<0, EffectiveCost(o, p), -Or(o.reliability2, 0)>>

ScanChoices(raw, p) ==
  LET passing == {o \in raw : ScanPasses(o, p)}
  IN {o \in passing : \A other \in passing : ~KeyBefore(ScanKey(other, p), ScanKey(o, p))}

\* the llama.cpp launcher's offer_reject_reasons: one GPU configuration, no
\* limit on traffic, and storage that costs nothing is taken for missing
LlamaPasses(o, p) ==
  /\ GpuFits(o, p)
  /\ o.machine_id \notin p.greylisted_machine_ids
  /\ o.verification # "deverified"
  /\ AtLeast(o.cuda_max_good, p.min_cuda_max_good)
  /\ PriceFits(o, p)
  /\ AtMost(Or(o.storage_total_cost, Null), p.max_storage_total_cost_per_hour)
  /\ AtLeast(o.inet_down, p.min_inet_down)
  /\ AtLeast(o.direct_port_count, 1)
  /\ AtLeast(o.reliability2, p.min_reliability2)
  /\ AtLeast(o.disk_space, p.disk_gb)

\* its offer_score
LlamaScore(o, p) ==
  <<IF Preferred(o, p) THEN 0 ELSE 1, Or(o.dph_total, Infinity), -Or(o.reliability2, 0),
    -Or(Or(o.disk_bw, o.disk_io), 0), Or(o.internet_down_cost_per_tb, Infinity),
    -Or(o.inet_down, 0)>>

LlamaChoices(raw, p) ==
  LET passing == {o \in raw : LlamaPasses(o, p)}
  IN {o \in passing : \A other \in passing : ~KeyBefore(LlamaScore(other, p), LlamaScore(o, p))}
=============================================================================
