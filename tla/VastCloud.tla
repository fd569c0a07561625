----------------------------- MODULE VastCloud ------------------------------
(***************************************************************************)
(* The Vast.ai service as the scripts use it through the vastai SDK: not   *)
(* code of the repository.  An instance is rented by create_instance,      *)
(* shown, listed, and deleted by destroy_instance; the account's audit log *)
(* keeps every delete that came through the API.                           *)
(*                                                                         *)
(* A report is what show_instance says of an instance.  "settling" is the  *)
(* report whose actual_status and status are empty while cur_state already *)
(* says running (comment at scripts/select_and_launch.py:622).             *)
(***************************************************************************)

CONSTANTS
  Instances,   \* the instances that may be rented
  Reports,     \* what Vast may report of a live instance
  HostLosses   \* BOOLEAN: instances may end without an API delete

ASSUME CloudConstants ==
  /\ Reports \subseteq {"loading", "running", "exited", "unknown", "settling"}
  /\ HostLosses \in BOOLEAN

VARIABLES
  cloud,   \* instance -> "none", "live" (billed) or "gone"
  audit    \* the instances whose delete is in the audit log

cloudVars == <<cloud, audit>>

CloudTypeOK ==
  /\ cloud \in [Instances -> {"none", "live", "gone"}]
  /\ audit \subseteq Instances

CloudInit ==
  /\ cloud = [i \in Instances |-> "none"]
  /\ audit = {}

\* show_instance: a report, or a raised exception.  A deleted instance is
\* answered by an error or by an empty dictionary, which reads as "unknown".
ShowResults(i) ==
  (IF cloud[i] = "live" THEN Reports ELSE {"unknown"}) \union {"error"}

\* show_instances: mere absence from the list is no evidence of termination,
\* so a live instance may be left out; a deleted one is never listed.
Listings ==
  {l \in [Instances -> Reports \union {"missing"}] :
     \A i \in Instances : cloud[i] # "live" => l[i] = "missing"}

\* show_audit_logs: the deletes, or nothing when the key lacks the permission
AuditAnswers == {audit, {}}

\* create_instance rents the instance, whether or not the answer arrives
Rent(i) ==
  /\ cloud[i] = "none"
  /\ cloud' = [cloud EXCEPT ![i] = "live"]
  /\ UNCHANGED audit

Delete(i) ==
  /\ cloud' = [cloud EXCEPT ![i] = "gone"]
  /\ audit' = IF cloud[i] = "live" THEN audit \union {i} ELSE audit

\* destroy_instance returned: the instance is deleted, now or before
DestroyReturns(i) == Delete(i)

\* destroy_instance raised: the request was lost, or only its answer was
DestroyRaises(i) == Delete(i) \/ UNCHANGED cloudVars

\* an operator deletes the instance in the Vast console
ConsoleDelete(i) == cloud[i] = "live" /\ Delete(i)

\* the host withdraws the instance: no delete in the audit log
HostLoss(i) ==
  /\ HostLosses
  /\ cloud[i] = "live"
  /\ cloud' = [cloud EXCEPT ![i] = "gone"]
  /\ UNCHANGED audit

CloudNext == \E i \in Instances : ConsoleDelete(i) \/ HostLoss(i)
=============================================================================
