---------------------------- MODULE Provisioning ----------------------------
(***************************************************************************)
(* provision_vast_vllm_from_r2.sh inside one rented container: copy the    *)
(* model from R2, copy the drafter, patch the installed vLLM package.      *)
(*                                                                         *)
(* The container's entry point (external) runs the script again after an   *)
(* exit other than 0 and gives up after MaxTries; vLLM starts after an     *)
(* exit 0.  Stopping and starting the container keeps its file system and  *)
(* begins anew.  rclone and aws give a file its name when it is complete,  *)
(* so a directory holds whole files only.                                  *)
(***************************************************************************)
EXTENDS Naturals, Sequences, FiniteSets

CONSTANTS
  Files,         \* what the bucket holds under a prefix
  Config,        \* config.json
  Shards,        \* the *.safetensors files
  Changed,       \* the files dflash2-backport.patch changes, then those it
  Created,       \* creates, in the order patch visits them
  Marker,        \* the new file whose presence means "already patched"
  ShimTarget,    \* the file dflash2_topk_compat.py edits
  MaxTries,      \* the entry point's attempts: "All 3 attempts exhausted"
  MaxStarts      \* how often the container starts

PatchOrder == Changed \o Created
FilesOf(s) == {s[i] : i \in 1..Len(s)}
PatchFiles == FilesOf(PatchOrder)

ASSUME ProvisioningConstants ==
  /\ Config \in Files /\ Shards \subseteq Files \ {Config}
  /\ PatchOrder \in Seq(PatchFiles)
  /\ Marker \in PatchFiles \ FilesOf(Changed)
  /\ MaxTries \in Nat \ {0} /\ MaxStarts \in Nat \ {0}

VARIABLES
  settings, \* the instance's environment: PATCH_DFLASH2 (with DRAFTER_DIR and
            \* DRAFTER_PREFIX), and whether R2_SPEED_TEST_MIN_MBPS is other than 0
  pstep,    \* where the script is
  dir,      \* the directory it syncs: "model", then "drafter"
  disk,     \* directory -> the files in it
  applied,  \* the files of the vLLM package the patch has changed or created
  shim,     \* the compatibility edit has been made
  drifted,  \* package files that no longer match the patch or the edit
  next,     \* position of patch in PatchOrder
  rejected, \* patch has skipped a hunk in this attempt
  tries,    \* attempts since the container started
  starts,   \* how often the container has started
  served    \* history: vLLM has been started in this container

package == <<applied, shim>>
patching == <<next, rejected>>
lifeVars == <<settings, drifted, starts>>
provisionVars == <<pstep, dir, disk, package, patching, tries, lifeVars, served>>

Dirs == {"model", "drafter"}

ProvisionTypeOK ==
  /\ pstep \in {"boot", "checks", "speed", "check", "copy", "package", "patch",
                "retry", "exhausted", "serving"}
  /\ dir \in Dirs
  /\ disk \in [Dirs -> SUBSET Files]
  /\ applied \subseteq PatchFiles /\ drifted \subseteq FilesOf(Changed) \union {ShimTarget}
  /\ settings \in [patch : BOOLEAN, speed : BOOLEAN]
  /\ shim \in BOOLEAN /\ rejected \in BOOLEAN /\ served \in BOOLEAN
  /\ next \in 1..Len(PatchOrder) + 1
  /\ tries \in 0..MaxTries /\ starts \in 1..MaxStarts

\* a fresh instance of an image whose vLLM may have drifted from the patch
Init ==
  /\ pstep = "boot" /\ dir = "model"
  /\ disk = [d \in Dirs |-> {}]
  /\ applied = {} /\ shim = FALSE
  /\ settings \in [patch : BOOLEAN, speed : BOOLEAN]
  /\ drifted \in SUBSET (FilesOf(Changed) \union {ShimTarget})
  /\ next = 1 /\ rejected = FALSE
  /\ tries = 0 /\ starts = 1 /\ served = FALSE

\* Variant: attempts without end.
ExitRetries == pstep' = "retry"

\* exit with a code other than 0: the entry point retries or gives up
Exit == pstep' = IF tries < MaxTries THEN "retry" ELSE "exhausted"
\* the last line is reached
Serve == pstep' = "serving" /\ served' = TRUE

\* Variant: attempts are not counted.
TryUncounted ==
  /\ pstep \in {"boot", "retry"}
  /\ pstep' = "checks" /\ dir' = "model"
  /\ UNCHANGED <<tries, disk, package, patching, lifeVars, served>>

Try ==
  /\ pstep \in {"boot", "retry"}
  /\ pstep' = "checks" /\ dir' = "model"
  /\ tries' = tries + 1
  /\ UNCHANGED <<disk, package, patching, lifeVars, served>>

\* environment, free space, tools; any of them may end the attempt
Checks ==
  /\ pstep = "checks"
  /\ (pstep' = "speed" \/ Exit)
  /\ UNCHANGED <<dir, disk, package, patching, tries, lifeVars, served>>

\* no object to read, a ranged GET that failed, or (exit 42) too slow
SpeedTest ==
  /\ pstep = "speed"
  /\ \/ pstep' = "check"
     \/ settings.speed /\ Exit
  /\ UNCHANGED <<dir, disk, package, patching, tries, lifeVars, served>>

\* "config exists and at least one safetensors file exists"
Present(d) == Config \in disk[d] /\ disk[d] \intersect Shards # {}

AfterSync ==
  IF dir = "model" /\ settings.patch THEN pstep' = "check" /\ dir' = "drafter" /\ UNCHANGED served
  ELSE IF dir = "model" THEN Serve /\ UNCHANGED dir
  ELSE pstep' = "package" /\ UNCHANGED <<dir, served>>

CheckDir ==
  /\ pstep = "check"
  /\ IF Present(dir) THEN AfterSync ELSE pstep' = "copy" /\ UNCHANGED <<dir, served>>
  /\ UNCHANGED <<disk, package, patching, tries, lifeVars>>

\* transfers run in parallel: any missing file may be the next to be complete
CopyFile(f) ==
  /\ pstep = "copy" /\ f \notin disk[dir]
  /\ disk' = [disk EXCEPT ![dir] = @ \union {f}]
  /\ UNCHANGED <<pstep, dir, package, patching, tries, lifeVars, served>>

CopyEnds ==
  /\ pstep = "copy" /\ disk[dir] = Files
  /\ AfterSync
  /\ UNCHANGED <<disk, package, patching, tries, lifeVars>>

\* rclone or aws gives up; the files it finished stay
CopyFails ==
  /\ pstep = "copy"
  /\ Exit
  /\ UNCHANGED <<dir, disk, package, patching, tries, lifeVars, served>>

\* locate vLLM, get patch; then the marker decides
SkipPatch ==
  /\ pstep = "package" /\ Marker \in applied
  /\ Serve
  /\ UNCHANGED <<dir, disk, package, patching, tries, lifeVars>>

\* no package, no patch program, no patch files, or the edit finds its anchor gone
PackageFails ==
  /\ pstep = "package"
  /\ Exit
  /\ UNCHANGED <<dir, disk, package, patching, tries, lifeVars, served>>

\* Variant: the drift of the edit's anchor goes unnoticed.
ShimPackageUnchecked ==
  /\ pstep = "package" /\ Marker \notin applied
  /\ shim' = (ShimTarget \notin drifted)
  /\ next' = 1 /\ rejected' = FALSE
  /\ pstep' = "patch"
  /\ UNCHANGED <<dir, disk, applied, tries, lifeVars, served>>

\* Variant: the package is patched whether or not it has the marker.
ShimPackageAlways ==
  /\ pstep = "package"
  /\ shim \/ ShimTarget \notin drifted
  /\ shim' = TRUE
  /\ next' = 1 /\ rejected' = FALSE
  /\ pstep' = "patch"
  /\ UNCHANGED <<dir, disk, applied, tries, lifeVars, served>>

ShimPackage ==
  /\ pstep = "package" /\ Marker \notin applied
  /\ shim \/ ShimTarget \notin drifted
  /\ shim' = TRUE
  /\ next' = 1 /\ rejected' = FALSE
  /\ pstep' = "patch"
  /\ UNCHANGED <<dir, disk, applied, tries, lifeVars, served>>

\* patch --forward --batch: a file whose hunks do not match, or are there already,
\* is left alone, and patch goes on with the next
PatchFile ==
  /\ pstep = "patch" /\ next <= Len(PatchOrder)
  /\ LET f == PatchOrder[next] IN
       IF f \in drifted \union applied
       THEN rejected' = TRUE /\ UNCHANGED applied
       ELSE applied' = applied \union {f} /\ UNCHANGED rejected
  /\ next' = next + 1
  /\ UNCHANGED <<pstep, dir, disk, shim, tries, lifeVars, served>>

\* Variant: the exit status of patch is not looked at.
PatchEndsUnchecked ==
  /\ pstep = "patch" /\ next > Len(PatchOrder)
  /\ Serve
  /\ UNCHANGED <<dir, disk, package, patching, tries, lifeVars>>

\* patch tells of a skipped hunk by its exit status; without one the content
\* check finds every line
PatchEnds ==
  /\ pstep = "patch" /\ next > Len(PatchOrder)
  /\ IF rejected THEN Exit /\ UNCHANGED served ELSE Serve
  /\ UNCHANGED <<dir, disk, package, patching, tries, lifeVars>>

\* the container is stopped, or its host is, whatever the script is doing
RestartContainer ==
  /\ starts < MaxStarts
  /\ starts' = starts + 1
  /\ tries' = 0 /\ pstep' = "boot" /\ dir' = "model"
  /\ UNCHANGED <<disk, package, patching, settings, drifted, served>>

ScriptStep ==
  \/ Try \/ Checks \/ SpeedTest \/ CheckDir
  \/ (\E f \in Files : CopyFile(f)) \/ CopyEnds \/ CopyFails
  \/ SkipPatch \/ PackageFails \/ ShimPackage \/ PatchFile \/ PatchEnds

Next == ScriptStep \/ RestartContainer

Spec == Init /\ [][Next]_provisionVars

\* every command of the script ends
FairSpec == Spec /\ WF_provisionVars(ScriptStep)

-----------------------------------------------------------------------------
(* Properties.                                                             *)

Needed == IF settings.patch THEN Dirs ELSE {"model"}

FullyPatched == settings.patch => applied = PatchFiles /\ shim

\* A sync that fails, a drifted image or a stop cannot make the first attempt in
\* a container serve an incomplete model or a package that is not fully patched:
\* only a later attempt, which finds what an earlier one left, can.
FirstAttemptIsHonest ==
  pstep = "serving" /\ tries = 1 /\ starts = 1 =>
     FullyPatched /\ \A d \in Needed : disk[d] = Files

\* "skips when the new model file already exists (cached-container restarts)":
\* once vLLM has been started, no later attempt changes the model, the drafter or
\* the package under it.
CachedRestartIsReadOnly == [][served => UNCHANGED <<disk, package>>]_provisionVars

\* The marker vouches for the compatibility edit, whichever attempt made it and
\* wherever attempts broke off: the edit always comes before the file the
\* marker is.
MarkerVouchesForShim == Marker \in applied => shim

\* Attempts end: the container serves or has given up, however often a sync fails
\* and the container is stopped.
ProvisioningEnds == <>[](pstep \in {"serving", "exhausted"})

\* provision_vast_vllm_from_r2.sh:521-522 "Refuses to boot on patch failure so a
\* drifted image cannot silently serve unpatched."
DriftedImageIsRefused == pstep = "serving" /\ settings.patch => drifted = {}
=============================================================================
