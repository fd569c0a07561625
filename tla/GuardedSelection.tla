-------------------------- MODULE GuardedSelection ---------------------------
(***************************************************************************)
(* scripts/select_and_launch.py up to the create call: patch the policy,   *)
(* show what is running, ask, search, show the offer, ask, create.  What   *)
(* follows the create call is module Launcher.  The JSON files written on  *)
(* the way (state/, offers/) are read by no program and left out.          *)
(***************************************************************************)
EXTENDS OfferMarket

CONSTANT PatchLists   \* the values of --relax-policy

\* load the profile and apply the patches, in order, before anything else
SelectPatch ==
  /\ Runs("select", "start")
  /\ \E patches \in PatchLists :
       IF PatchesAccepted(patches)
         THEN policy' = Patched(policy, patches) /\ Goto("ask_infra")
         ELSE UNCHANGED policy /\ End("bad_patch")
  /\ UNCHANGED <<program, flags, market, choice, asked, cloudVars>>

\* A failing show_instances only warns.  --check-only asks nothing.
SelectAskInfra ==
  /\ Runs("select", "ask_infra")
  /\ IF "check_only" \in flags
       THEN UNCHANGED asked /\ Goto("search")
       ELSE Ask("infra", "search")
  /\ UNCHANGED <<inputVars, choice, cloudVars>>

SelectSearch ==
  /\ Runs("select", "search")
  /\ \/ End("raised") /\ UNCHANGED choice
     \/ \E raw \in SearchResults(market, policy, SearchLimit) :
          IF FirstChoices(raw, policy) = {}
            THEN End("no_offers") /\ UNCHANGED choice
            ELSE choice' \in FirstChoices(raw, policy) /\ Goto("confirm")
  /\ UNCHANGED <<inputVars, asked, cloudVars>>

\* Variant: a dry run is told from a launch by --yes-launch only.
SelectConfirmDry ==
  /\ Runs("select", "confirm")
  /\ IF "check_only" \in flags
       THEN UNCHANGED asked /\ End("shown")
       ELSE Ask("launch", "create")
  /\ UNCHANGED <<inputVars, choice, cloudVars>>

\* --check-only and --dry-run end here; a launch has to be approved
SelectConfirm ==
  /\ Runs("select", "confirm")
  /\ IF {"check_only", "dry_run"} \intersect flags # {}
       THEN UNCHANGED asked /\ End("shown")
       ELSE Ask("launch", "create")
  /\ UNCHANGED <<inputVars, choice, cloudVars>>

\* an answer without an id, or none, may still be that of a contract
SelectCreate ==
  /\ Runs("select", "create")
  /\ \/ Rent(1) /\ End("created")
     \/ /\ Rent(1) \/ UNCHANGED cloudVars
        /\ End("no_id") \/ End("create_raised")
  /\ UNCHANGED <<inputVars, choice, asked>>

SelectStep ==
  SelectPatch \/ SelectAskInfra \/ SelectSearch \/ SelectConfirm \/ SelectCreate
=============================================================================
