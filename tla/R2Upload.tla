------------------------------ MODULE R2Upload ------------------------------
(***************************************************************************)
(* scripts/stream_hf_model_to_r2_parallel.py: stream a repository to the   *)
(* bucket, one file per worker thread, and write a manifest when no file   *)
(* failed.  The program may be killed and run again (MaxRuns).             *)
(***************************************************************************)
EXTENDS ModelStore, FiniteSets

CONSTANTS
  Sized,       \* the files whose length the repository's listing gives
  Workers,     \* --workers
  Retries,     \* RETRIES
  MaxRuns,     \* how often the program is started
  NoManifest

ASSUME UploadConstants ==
  /\ Sized \subseteq Files
  /\ Workers \in Nat \ {0} /\ Retries \in Nat \ {0} /\ MaxRuns \in Nat

VARIABLES
  runs,      \* how often the program was started
  ustep,     \* "idle", "check" (head requests), "upload" (thread pool)
  listed,    \* the revision whose listing the run works from
  status,    \* file -> where the run has got with it
  attempts,  \* file -> attempts made in this run
  source,    \* file -> the revision its open download comes from
  manifest   \* the revision named by the manifest under the prefix

uploadVars == <<runs, ustep, listed, status, attempts, source, manifest>>

Stages == {"todo", "skipped", "queued", "streaming", "backoff", "uploaded",
           "failed", "abandoned"}

UploadTypeOK ==
  /\ StoreTypeOK
  /\ runs \in 0..MaxRuns
  /\ ustep \in {"idle", "check", "upload"}
  /\ listed \in Revisions
  /\ status \in [Files -> Stages]
  /\ attempts \in [Files -> 0..Retries]
  /\ source \in [Files -> Revisions]
  /\ manifest \in {NoManifest} \union Revisions

\* an empty prefix
UploadInit ==
  /\ head \in Revisions
  /\ bucket = [f \in Files |-> Absent]
  /\ runs = 0 /\ ustep = "idle"
  /\ listed = head
  /\ status = [f \in Files |-> "todo"]
  /\ attempts = [f \in Files |-> 0]
  /\ source = [f \in Files |-> head]
  /\ manifest = NoManifest

\* between two runs only the bucket and the manifest remain
EndRun ==
  /\ ustep' = "idle"
  /\ status' = [f \in Files |-> "todo"]
  /\ attempts' = [f \in Files |-> 0]
  /\ source' = [f \in Files |-> listed]
  /\ UNCHANGED <<runs, listed>>

\* model_info: --revision, or where the default branch points now
StartRun ==
  /\ ustep = "idle" /\ runs < MaxRuns
  /\ runs' = runs + 1
  /\ ustep' = "check"
  /\ listed' \in Revisions
  /\ source' = [f \in Files |-> listed']
  /\ UNCHANGED <<status, attempts, manifest, storeVars>>

SetStatus(f, stage) == status' = [status EXCEPT ![f] = stage]

\* --skip-existing compares lengths; without a length, without the option or
\* without an answer the file is uploaded
CheckFile(f) ==
  /\ ustep = "check" /\ status[f] = "todo"
  /\ \/ /\ f \in Sized /\ bucket[f] # Absent /\ bucket[f].bytes = Size[listed][f]
        /\ SetStatus(f, "skipped")
     \/ SetStatus(f, "queued")
  /\ UNCHANGED <<runs, ustep, listed, attempts, source, manifest, storeVars>>

StartPool ==
  /\ ustep = "check" /\ \A f \in Files : status[f] # "todo"
  /\ ustep' = "upload"
  /\ UNCHANGED <<runs, listed, status, attempts, source, manifest, storeVars>>

\* a thread keeps its file through all attempts, the pauses included
Busy == {f \in Files : status[f] \in {"streaming", "backoff"}}

\* urlopen(hf_hub_url(repo_id, filename=path)): the default branch, as it is now
OpenDownload(f) ==
  /\ ustep = "upload"
  /\ \/ status[f] = "queued" /\ Cardinality(Busy) < Workers
     \/ status[f] = "backoff"
  /\ SetStatus(f, "streaming")
  /\ attempts' = [attempts EXCEPT ![f] = @ + 1]
  /\ source' = [source EXCEPT ![f] = head]
  /\ UNCHANGED <<runs, ustep, listed, manifest, storeVars>>

\* Variant: one attempt too many.
RetryOnceMore(f) == SetStatus(f, IF attempts[f] <= Retries THEN "backoff" ELSE "failed")

\* HTTPError, RuntimeError, OSError: again, or give up on the file
Retry(f) == SetStatus(f, IF attempts[f] < Retries THEN "backoff" ELSE "failed")

\* total_bytes = 0: the progress line divides by it, and the handler around it
\* books the uploaded file as failed
NothingToUpload ==
  \A f \in Sized : status[f] # "skipped" => Size[listed][f] = 0

\* Variant: the length is not compared.
StreamEndsUncompared(f) ==
  /\ status[f] = "streaming"
  /\ \E n \in 0..Size[source[f]][f] :
       /\ Put(f, [rev |-> source[f], bytes |-> n])
       /\ SetStatus(f, IF NothingToUpload THEN "failed" ELSE "uploaded")
  /\ UNCHANGED <<runs, ustep, listed, attempts, source, manifest, head>>

\* the download ended, early or not, and aws stored what it was sent; only then
\* is the length compared with the listing's
StreamEnds(f) ==
  /\ status[f] = "streaming"
  /\ \E n \in 0..Size[source[f]][f] :
       /\ Put(f, [rev |-> source[f], bytes |-> n])
       /\ IF f \in Sized /\ n # Size[listed][f] THEN Retry(f)
          ELSE SetStatus(f, IF NothingToUpload THEN "failed" ELSE "uploaded")
  /\ UNCHANGED <<runs, ustep, listed, attempts, source, manifest, head>>

\* the download could not be opened or broke off with an error (aws is killed),
\* or aws failed; an error the handler does not name (IncompleteRead) passes it
\* by, and aws stays behind with its input open
StreamFails(f) ==
  /\ status[f] = "streaming"
  /\ (Retry(f) \/ SetStatus(f, "abandoned"))
  /\ UNCHANGED <<runs, ustep, listed, attempts, source, manifest, storeVars>>

PoolIsDone == ustep = "upload" /\ \A f \in Files : status[f] \in {"skipped", "uploaded", "failed", "abandoned"}
Failed == {f \in Files : status[f] \in {"failed", "abandoned"}}

FinishRun ==
  /\ PoolIsDone /\ Failed = {}
  /\ manifest' = listed
  /\ EndRun
  /\ UNCHANGED storeVars

\* When the program ends, an aws that still runs sees the end of its input and
\* stores what it has, unless it is killed as well.  All of them are done before
\* anyone starts the program again.
LeaveBehind(open) ==
  /\ bucket' \in [Files -> {Absent} \union UNION {Objects(f) : f \in Files}]
  /\ \A f \in Files :
       \/ bucket'[f] = bucket[f]
       \/ f \in open /\ \E n \in 0..Size[source[f]][f] : bucket'[f] = [rev |-> source[f], bytes |-> n]
  /\ EndRun
  /\ UNCHANGED <<manifest, head>>

\* files failed, or the manifest could not be written
FailRun == PoolIsDone /\ LeaveBehind({f \in Files : status[f] = "abandoned"})

\* the program is killed
CrashRun ==
  /\ ustep # "idle"
  /\ LeaveBehind({f \in Files : status[f] \in {"streaming", "abandoned"}})

UploadStep ==
  \/ StartRun \/ StartPool \/ FinishRun \/ FailRun \/ CrashRun
  \/ \E f \in Files : CheckFile(f) \/ OpenDownload(f) \/ StreamEnds(f) \/ StreamFails(f)

UploadNext == UploadStep \/ (RepoMoves /\ UNCHANGED uploadVars)

UploadSpec == UploadInit /\ [][UploadNext]_<<storeVars, uploadVars>>

-----------------------------------------------------------------------------
(* Properties.                                                             *)

\* Whole, as far as the listing lets the program know.
WholeAs(rev, f) == bucket[f] # Absent /\ bucket[f].bytes = Size[rev][f]

\* "manifest NOT written" unless every file arrived: whatever was retried, cut
\* short, left by a killed run or pushed to the repository meanwhile, at the
\* moment the manifest changes every file with a known length has the length
\* the manifest's revision says.
ManifestIsBacked ==
  [][manifest' # manifest => \A f \in Sized : WholeAs(listed, f)]_<<storeVars, uploadVars>>

\* stream_hf_model_to_r2_parallel.py:193 records in the manifest the revision
\* that was uploaded ("revision": args.revision or getattr(info, "sha", None)),
\* and stream_hf_model_to_r2.py:146 asks for it (revision=args.revision).
ManifestNamesItsContent ==
  manifest # NoManifest /\ runs = 1 => \A f \in Files : bucket[f].rev = manifest
=============================================================================
