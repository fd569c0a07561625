--------------------------- MODULE R2UploadProofs ---------------------------
(***************************************************************************)
(* Proofs about R2Upload, for all files, revisions, lengths, numbers of    *)
(* workers, attempts and runs.                                             *)
(***************************************************************************)
EXTENDS R2Upload, TLAPS

allVars == <<storeVars, uploadVars>>

\* how far files are, by the phase of the run and by the attempts made
Progress ==
  /\ ustep = "idle" => \A f \in Files : status[f] = "todo"
  /\ ustep = "check" => \A f \in Files : status[f] \in {"todo", "skipped", "queued"}
  /\ \A f \in Files : status[f] \in {"todo", "skipped", "queued"} => attempts[f] = 0
  /\ \A f \in Files : status[f] = "backoff" => attempts[f] < Retries

\* what the run counts as stored is stored
Stored ==
  \A f \in Sized : status[f] \in {"skipped", "uploaded"} => WholeAs(listed, f)

UploadInv == UploadTypeOK /\ Progress /\ Stored

\* An object a download leaves is one the type invariant allows.
LEMMA DownloadsAreObjects ==
  ASSUME NEW f \in Files, NEW r \in Revisions, NEW n \in 0..Size[r][f]
  PROVE  /\ [rev |-> r, bytes |-> n] \in Objects(f)
         /\ [rev |-> r, bytes |-> n] \in [rev : Revisions, bytes : Nat]
         /\ [rev |-> r, bytes |-> n] # Absent
<1>1. Size[r][f] \in Nat
  BY StoreConstants
<1>2. [rev |-> r, bytes |-> n] \in [rev : Revisions, bytes : Nat]
  BY <1>1
<1>3. [rev |-> r, bytes |-> n] \in {[rev |-> r, bytes |-> k] : k \in 0..Size[r][f]}
  OBVIOUS
<1>4. [rev |-> r, bytes |-> n] \in Objects(f)
  BY <1>3 DEF Objects
<1> QED BY <1>2, <1>4, StoreConstants

LEMMA UploadInitially == UploadInit => UploadInv
<1> SUFFICES ASSUME UploadInit PROVE UploadInv
  OBVIOUS
<1> USE DEF UploadInit
<1>1. UploadTypeOK
  BY UploadConstants DEF UploadTypeOK, StoreTypeOK, Stages
<1>2. Progress /\ Stored
  BY UploadConstants DEF Progress, Stored
<1> QED BY <1>1, <1>2 DEF UploadInv

\* Whatever the end of a run leaves in the bucket, the next run starts afresh.
LEMMA EndsKeepInvariant ==
  ASSUME UploadInv, NEW open \in SUBSET Files, LeaveBehind(open)
  PROVE  UploadInv'
<1> USE DEF UploadInv, UploadTypeOK, LeaveBehind, EndRun
<1>1. ASSUME NEW f \in Files, bucket'[f] # bucket[f]
      PROVE  bucket'[f] \in Objects(f) /\ bucket'[f] \in [rev : Revisions, bytes : Nat]
  <2>1. PICK n \in 0..Size[source[f]][f] : bucket'[f] = [rev |-> source[f], bytes |-> n]
    BY <1>1
  <2> QED BY <2>1, DownloadsAreObjects
<1>2. StoreTypeOK'
  <2>1. bucket' \in [Files -> {Absent} \union [rev : Revisions, bytes : Nat]]
    BY <1>1 DEF StoreTypeOK
  <2>2. \A f \in Files : bucket'[f] # Absent => bucket'[f] \in Objects(f)
    BY <1>1 DEF StoreTypeOK
  <2>3. \A f \in Files : Objects(f)' = Objects(f)
    BY DEF Objects
  <2> QED BY <2>1, <2>2, <2>3 DEF StoreTypeOK
<1>3. UploadTypeOK'
  BY <1>2, UploadConstants DEF Stages
<1>4. Progress' /\ Stored'
  BY UploadConstants DEF Progress, Stored
<1> QED BY <1>3, <1>4

\* Every step of a run and every push to the repository keep the invariant.
LEMMA UploadStepKeeps == UploadInv /\ [UploadNext]_allVars => UploadInv'
<1> SUFFICES ASSUME UploadInv, [UploadNext]_allVars PROVE UploadInv'
  OBVIOUS
<1> USE UploadConstants
    DEF UploadInv, UploadTypeOK, Stages, Progress, Stored, WholeAs, SetStatus
<1>1. CASE StartRun
  BY <1>1 DEF StartRun, storeVars, StoreTypeOK
<1>2. CASE StartPool
  BY <1>2 DEF StartPool, storeVars, StoreTypeOK
<1>3. CASE FinishRun
  BY <1>3 DEF FinishRun, EndRun, PoolIsDone, storeVars, StoreTypeOK
<1>4. CASE FailRun
  BY <1>4, EndsKeepInvariant DEF FailRun
<1>5. CASE CrashRun
  BY <1>5, EndsKeepInvariant DEF CrashRun
<1>6. ASSUME NEW f \in Files, CheckFile(f) PROVE UploadInv'
  BY <1>6 DEF CheckFile, storeVars, StoreTypeOK
<1>7. ASSUME NEW f \in Files, OpenDownload(f) PROVE UploadInv'
  BY <1>7 DEF OpenDownload, storeVars, StoreTypeOK
<1>8. ASSUME NEW f \in Files, StreamEnds(f) PROVE UploadInv'
  <2>1. PICK n \in 0..Size[source[f]][f] :
          /\ Put(f, [rev |-> source[f], bytes |-> n])
          /\ IF f \in Sized /\ n # Size[listed][f] THEN Retry(f)
             ELSE SetStatus(f, IF NothingToUpload THEN "failed" ELSE "uploaded")
    BY <1>8 DEF StreamEnds
  <2>2. /\ status[f] = "streaming"
        /\ UNCHANGED <<runs, ustep, listed, attempts, source, manifest, head>>
    BY <1>8 DEF StreamEnds
  <2>3. StoreTypeOK'
    BY <2>1, <2>2, DownloadsAreObjects DEF Put, StoreTypeOK, Objects
  <2>4. /\ status' \in [Files -> Stages]
        /\ \A g \in Files \ {f} : status'[g] = status[g] /\ bucket'[g] = bucket[g]
        /\ status'[f] \in {"backoff", "failed", "uploaded"}
        /\ status'[f] = "backoff" => attempts[f] < Retries
        /\ status'[f] = "uploaded" /\ f \in Sized => n = Size[listed][f]
    BY <2>1 DEF Put, Retry, StoreTypeOK
  <2>5. bucket'[f] = [rev |-> source[f], bytes |-> n] /\ bucket'[f] # Absent
    BY <2>1, DownloadsAreObjects DEF Put, StoreTypeOK
  <2>6. UploadTypeOK'
    BY <2>2, <2>3, <2>4
  <2>7. Progress'
    BY <2>2, <2>4
  <2>8. Stored'
    BY <2>2, <2>4, <2>5
  <2> QED BY <2>6, <2>7, <2>8
<1>9. ASSUME NEW f \in Files, StreamFails(f) PROVE UploadInv'
  BY <1>9 DEF StreamFails, Retry, storeVars, StoreTypeOK
<1>10. CASE RepoMoves /\ UNCHANGED uploadVars
  BY <1>10 DEF RepoMoves, uploadVars, StoreTypeOK
<1>11. CASE UNCHANGED allVars
  BY <1>11 DEF allVars, storeVars, uploadVars, StoreTypeOK
<1> QED BY <1>1, <1>2, <1>3, <1>4, <1>5, <1>6, <1>7, <1>8, <1>9, <1>10, <1>11
        DEF UploadNext, UploadStep

THEOREM UploadInvariant == UploadSpec => []UploadInv
  BY UploadInitially, UploadStepKeeps, PTL DEF UploadSpec, allVars

\* Type correctness; no file is attempted more than Retries times in a run.
THEOREM UploadTypeCorrect == UploadSpec => []UploadTypeOK
<1>1. UploadInv => UploadTypeOK
  BY DEF UploadInv
<1> QED BY <1>1, UploadInvariant, PTL

\* A manifest is written only over a complete set of objects.
THEOREM ManifestsAreBacked == UploadSpec => ManifestIsBacked
<1>1. UploadInv /\ [UploadNext]_allVars
        => [manifest' # manifest => \A f \in Sized : WholeAs(listed, f)]_allVars
  <2> SUFFICES ASSUME UploadInv, UploadNext, manifest' # manifest
               PROVE  \A f \in Sized : WholeAs(listed, f)
    OBVIOUS
  <2>1. FinishRun
    BY DEF UploadNext, UploadStep, StartRun, StartPool, FailRun, CrashRun, LeaveBehind,
           CheckFile, OpenDownload, StreamEnds, StreamFails, uploadVars
  <2>2. \A f \in Files : status[f] \in {"skipped", "uploaded"}
    BY <2>1 DEF FinishRun, PoolIsDone, Failed
  <2> QED BY <2>2, UploadConstants DEF UploadInv, Stored
<1> QED BY <1>1, UploadInvariant, PTL DEF UploadSpec, ManifestIsBacked, allVars
=============================================================================
