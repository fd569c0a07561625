------------------------- MODULE ProvisioningProofs -------------------------
(***************************************************************************)
(* Proofs about Provisioning, for all files, patches, drifts, attempts and *)
(* starts of the container.                                                *)
(***************************************************************************)
EXTENDS Provisioning, SpeedTestRanges, TLAPS

Settled(d) == Present(d) \/ disk[d] = Files

\* attempts are counted before they begin
Counted ==
  /\ IF pstep = "boot" THEN tries = 0 ELSE tries > 0
  /\ pstep = "retry" => tries < MaxTries

\* what an attempt has behind it where it stands
Passed ==
  /\ dir = "drafter" => settings.patch /\ Settled("model")
  /\ pstep \in {"package", "patch"} => dir = "drafter" /\ Settled("drafter")

\* patch leaves no file out before it has told
Patching ==
  /\ pstep = "patch" => shim
  /\ Marker \in applied => shim
  /\ pstep = "patch" /\ ~rejected => \A i \in 1..(next - 1) : PatchOrder[i] \in applied

\* what makes every sync and the patch a skip, or a copy with nothing to copy
Cached ==
  served =>
    /\ Settled("model")
    /\ settings.patch => Settled("drafter") /\ Marker \in applied
    /\ pstep = "copy" => disk[dir] = Files
    /\ pstep # "patch"

\* the first attempt finds nothing to skip
FirstTry ==
  starts = 1 /\ tries <= 1 =>
    /\ pstep \in {"boot", "checks", "speed"} => \A d \in Dirs : disk[d] = {}
    /\ pstep \in {"boot", "checks", "speed", "check", "copy", "package"} => applied = {}
    /\ pstep = "check" => disk[dir] = {}
    /\ pstep \in {"check", "copy"} /\ dir = "model" => disk["drafter"] = {}
    /\ pstep \in {"check", "copy"} /\ dir = "drafter" => disk["model"] = Files
    /\ pstep \in {"package", "patch"} => \A d \in Dirs : disk[d] = Files
    /\ pstep = "serving" => FullyPatched /\ \A d \in Needed : disk[d] = Files

ProvisionInv == ProvisionTypeOK /\ Counted /\ Passed /\ Patching /\ Cached /\ FirstTry

\* What the proofs need of PatchOrder: its length, and that it visits the marker.
LEMMA PatchVisitsMarker ==
  /\ Len(PatchOrder) \in Nat
  /\ \E i \in 1..Len(PatchOrder) : PatchOrder[i] = Marker
  /\ \A i \in 1..Len(PatchOrder) : PatchOrder[i] \in PatchFiles
  /\ \A f \in PatchFiles : \E i \in 1..Len(PatchOrder) : PatchOrder[i] = f
<1>1. PatchOrder \in Seq(PatchFiles) /\ Marker \in PatchFiles
  BY ProvisioningConstants
<1>2. Len(PatchOrder) \in Nat
  BY <1>1
<1> QED BY <1>1, <1>2 DEF PatchFiles, FilesOf

LEMMA BoundsAreNat == MaxTries \in Nat \ {0} /\ MaxStarts \in Nat \ {0}
  BY ProvisioningConstants

LEMMA ProvisionInit == Init => ProvisionInv
<1> SUFFICES ASSUME Init PROVE ProvisionInv
  OBVIOUS
<1>1. ProvisionTypeOK
  <2>1. next \in 1..Len(PatchOrder) + 1
    BY PatchVisitsMarker DEF Init
  <2>2. disk \in [Dirs -> SUBSET Files] /\ dir \in Dirs
    BY DEF Init, Dirs
  <2>3. tries \in 0..MaxTries /\ starts \in 1..MaxStarts
    BY BoundsAreNat DEF Init
  <2> QED BY <2>1, <2>2, <2>3 DEF Init, ProvisionTypeOK
<1>2. Counted /\ Passed /\ Patching /\ Cached
  BY DEF Init, Counted, Passed, Patching, Cached
<1>3. FirstTry
  BY DEF Init, FirstTry, Dirs
<1> QED BY <1>1, <1>2, <1>3 DEF ProvisionInv

\* Every step of the script and every restart keeps the invariant.
LEMMA ProvisionStep == ProvisionInv /\ [Next]_provisionVars => ProvisionInv'
<1> SUFFICES ASSUME ProvisionInv, [Next]_provisionVars PROVE ProvisionInv'
  OBVIOUS
<1> USE PatchVisitsMarker, BoundsAreNat
    DEF ProvisionInv, ProvisionTypeOK, Dirs, package, patching, lifeVars
<1> USE DEF Counted, Passed, Patching, Cached, FirstTry, Settled, Present, FullyPatched, Needed
<1>1. CASE Try
  BY <1>1 DEF Try
<1>2. CASE Checks
  BY <1>2 DEF Checks, Exit
<1>3. CASE SpeedTest
  BY <1>3 DEF SpeedTest, Exit
<1>4. CASE CheckDir
  BY <1>4 DEF CheckDir, AfterSync, Serve
<1>5. ASSUME NEW f \in Files, CopyFile(f) PROVE ProvisionInv'
  BY <1>5 DEF CopyFile
<1>6. CASE CopyEnds
  BY <1>6 DEF CopyEnds, AfterSync, Serve
<1>7. CASE CopyFails
  BY <1>7 DEF CopyFails, Exit
<1>8. CASE SkipPatch
  BY <1>8 DEF SkipPatch, Serve
<1>9. CASE PackageFails
  BY <1>9 DEF PackageFails, Exit
<1>10. CASE ShimPackage
  <2> USE <1>10 DEF ShimPackage
  <2>0. next' \in 1..Len(PatchOrder) + 1
    BY ONLY PatchVisitsMarker, <1>10 DEF ShimPackage
  <2>1. ProvisionTypeOK' /\ Counted' /\ Passed'
    BY <2>0
  <2>2. Patching'
    OBVIOUS
  <2>3. Cached'
    OBVIOUS
  <2>4. FirstTry'
    OBVIOUS
  <2> QED BY <2>1, <2>2, <2>3, <2>4
<1>11. CASE PatchFile
  <2> USE <1>11 DEF PatchFile
  <2>0. next' \in 1..Len(PatchOrder) + 1
    BY ONLY PatchVisitsMarker, <1>11, ProvisionTypeOK DEF PatchFile, ProvisionTypeOK
  <2>1. ProvisionTypeOK'
    <3>1. applied' \subseteq PatchFiles
      BY ONLY PatchVisitsMarker, <1>11, ProvisionTypeOK DEF PatchFile, ProvisionTypeOK
    <3> QED BY ONLY <2>0, <3>1, <1>11, ProvisionTypeOK
            DEF PatchFile, ProvisionTypeOK, lifeVars
  <2>2. Counted' /\ Passed'
    OBVIOUS
  <2>3. Patching'
    <3>1. next' = next + 1 /\ next \in Nat /\ applied \subseteq applied'
      OBVIOUS
    <3>2. ASSUME ~rejected', NEW i \in 1..(next' - 1) PROVE PatchOrder[i] \in applied'
      BY <3>1, <3>2
    <3> QED BY <3>2
  <2>4. Cached' /\ FirstTry'
    OBVIOUS
  <2> QED BY <2>1, <2>2, <2>3, <2>4
<1>12. CASE PatchEnds
  <2> USE <1>12 DEF PatchEnds, Exit, Serve
  <2>0. 1..Len(PatchOrder) \subseteq 1..(next - 1)
    BY ONLY PatchVisitsMarker, <1>12, ProvisionTypeOK DEF PatchEnds, ProvisionTypeOK
  <2>1. ~rejected => applied = PatchFiles /\ Marker \in applied
    <3> SUFFICES ASSUME ~rejected PROVE PatchFiles \subseteq applied /\ Marker \in applied
      OBVIOUS
    <3>1. \A i \in 1..Len(PatchOrder) : PatchOrder[i] \in applied
      BY <2>0
    <3> QED BY ONLY <3>1, PatchVisitsMarker
  <2>2. ProvisionTypeOK' /\ Counted' /\ Passed' /\ Patching'
    OBVIOUS
  <2>3. Cached'
    BY <2>1
  <2>4. FirstTry'
    BY <2>1
  <2> QED BY <2>2, <2>3, <2>4
<1>13. CASE RestartContainer
  BY <1>13 DEF RestartContainer
<1>14. CASE UNCHANGED provisionVars
  BY <1>14 DEF provisionVars
<1> QED
  BY <1>1, <1>2, <1>3, <1>4, <1>5, <1>6, <1>7, <1>8, <1>9, <1>10, <1>11, <1>12, <1>13, <1>14
  DEF Next, ScriptStep

THEOREM ProvisionInvariant == Spec => []ProvisionInv
  BY ProvisionInit, ProvisionStep, PTL DEF Spec

\* Type correctness; the entry point never begins more than MaxTries attempts.
THEOREM ProvisioningTypeCorrect == Spec => []ProvisionTypeOK
<1>1. ProvisionInv => ProvisionTypeOK
  BY DEF ProvisionInv
<1> QED BY <1>1, ProvisionInvariant, PTL

\* The first attempt in a container serves only what is complete and patched,
\* whatever fails on the way and however the image has drifted.
THEOREM FirstAttemptsAreHonest == Spec => []FirstAttemptIsHonest
<1>1. ProvisionInv => FirstAttemptIsHonest
  BY DEF ProvisionInv, FirstTry, FirstAttemptIsHonest
<1> QED BY <1>1, ProvisionInvariant, PTL

\* A package that has the marker has the compatibility edit.
THEOREM ShimComesFirst == Spec => []MarkerVouchesForShim
<1>1. ProvisionInv => MarkerVouchesForShim
  BY DEF ProvisionInv, Patching, MarkerVouchesForShim
<1> QED BY <1>1, ProvisionInvariant, PTL

\* Once vLLM has been started, no attempt after any restart changes the files
\* under it.
THEOREM CachedRestartsAreReadOnly == Spec => CachedRestartIsReadOnly
<1>1. ProvisionInv /\ [Next]_provisionVars
        => [served => UNCHANGED <<disk, package>>]_provisionVars
  <2> SUFFICES ASSUME ProvisionInv, Next, served PROVE UNCHANGED <<disk, package>>
    OBVIOUS
  <2> USE DEF ProvisionInv, Passed, Cached, package
  <2>1. pstep = "copy" => disk[dir] = Files
    OBVIOUS
  <2>2. pstep # "patch"
    OBVIOUS
  <2>3. pstep = "package" => Marker \in applied
    OBVIOUS
  <2>4. ASSUME NEW f \in Files, CopyFile(f) PROVE FALSE
    BY <2>1, <2>4 DEF CopyFile
  <2>5. ~ShimPackage /\ ~PatchFile
    BY <2>2, <2>3 DEF ShimPackage, PatchFile
  <2> QED BY <2>4, <2>5 DEF Next, ScriptStep, Try, Checks, SpeedTest, CheckDir, CopyEnds,
             CopyFails, SkipPatch, PackageFails, PatchEnds, RestartContainer
<1> QED BY <1>1, ProvisionInvariant, PTL DEF Spec, CachedRestartIsReadOnly

-----------------------------------------------------------------------------
(* Why the attempts end.  ProvisioningEnds itself needs fairness and stays *)
(* with TLC; what it rests on is that no step leads back to where the      *)
(* script has been.                                                        *)

\* how far an attempt still is from its end
Remaining(step, d) ==
  CASE step \in {"boot", "checks"} -> 8
    [] step = "speed" -> 7
    [] step = "check" -> IF d = "model" THEN 6 ELSE 4
    [] step = "copy" -> IF d = "model" THEN 5 ELSE 3
    [] step = "package" -> 2
    [] step = "patch" -> 1
    [] step \in {"retry", "exhausted", "serving"} -> 0

\* one more file of a sync is complete, or patch has one more file behind it
OneFileFurther ==
  /\ UNCHANGED <<pstep, dir>>
  /\ \/ \E f \in Files \ disk[dir] : disk' = [disk EXCEPT ![dir] = @ \union {f}]
     \/ next' = next + 1

\* starts, then attempts, then places in an attempt, then files
GoesOn ==
  \/ starts' = starts + 1
  \/ starts' = starts /\ tries' = tries + 1
  \/ starts' = starts /\ tries' = tries /\ Remaining(pstep', dir') < Remaining(pstep, dir)
  \/ starts' = starts /\ tries' = tries /\ OneFileFurther

\* Every step goes on: a start, an attempt, a place nearer to the end of the
\* attempt, or a file of the sync or the patch; all four are bounded
\* (ProvisionTypeOK), so no sequence of failed syncs, skipped files, retries and
\* restarts can keep the container from serving or giving up for ever.
THEOREM AttemptsGoOn == Spec => [][GoesOn]_provisionVars
<1>1. ProvisionInv /\ Next => GoesOn
  <2> SUFFICES ASSUME ProvisionInv, Next PROVE GoesOn
    OBVIOUS
  <2>1. CASE Try
    BY <2>1 DEF Try, GoesOn, lifeVars
  <2>2. CASE Checks
    BY <2>2 DEF Checks, Exit, Remaining, GoesOn, lifeVars
  <2>3. CASE SpeedTest
    BY <2>3 DEF SpeedTest, Exit, Remaining, GoesOn, lifeVars, ProvisionInv, ProvisionTypeOK, Dirs
  <2>4. CASE CheckDir
    BY <2>4 DEF CheckDir, AfterSync, Serve, Remaining, GoesOn, lifeVars,
                ProvisionInv, ProvisionTypeOK, Dirs
  <2>5. ASSUME NEW f \in Files, CopyFile(f) PROVE GoesOn
    BY <2>5 DEF CopyFile, OneFileFurther, GoesOn, lifeVars
  <2>6. CASE CopyEnds
    BY <2>6 DEF CopyEnds, AfterSync, Serve, Remaining, GoesOn, lifeVars,
                ProvisionInv, ProvisionTypeOK, Dirs
  <2>7. CASE CopyFails
    BY <2>7 DEF CopyFails, Exit, Remaining, GoesOn, lifeVars
  <2>8. CASE SkipPatch
    BY <2>8 DEF SkipPatch, Serve, Remaining, GoesOn, lifeVars
  <2>9. CASE PackageFails
    BY <2>9 DEF PackageFails, Exit, Remaining, GoesOn, lifeVars
  <2>10. CASE ShimPackage
    BY <2>10 DEF ShimPackage, Remaining, GoesOn, lifeVars
  <2>11. CASE PatchFile
    BY <2>11 DEF PatchFile, OneFileFurther, GoesOn, lifeVars
  <2>12. CASE PatchEnds
    BY <2>12 DEF PatchEnds, Exit, Serve, Remaining, GoesOn, lifeVars
  <2>13. CASE RestartContainer
    BY <2>13 DEF RestartContainer, GoesOn
  <2> QED
    BY <2>1, <2>2, <2>3, <2>4, <2>5, <2>6, <2>7, <2>8, <2>9, <2>10, <2>11, <2>12, <2>13
    DEF Next, ScriptStep
<1>2. ProvisionInv /\ [Next]_provisionVars => [GoesOn]_provisionVars
  BY <1>1
<1> QED BY <1>2, ProvisionInvariant, PTL DEF Spec

-----------------------------------------------------------------------------
(* The ranged GETs of the speed test. *)

\* how the length of a range and the number of ranges make up the bytes
LEMMA ChunksMakeUpBytes ==
  ASSUME NEW bytes \in Nat \ {0}, NEW streams \in Int
  PROVE  LET count == ChunkCount(bytes, streams)
             chunk == ChunkBytes(bytes, count)
         IN  /\ count \in 1..bytes /\ chunk \in Nat \ {0}
             /\ bytes <= count * chunk /\ count * chunk < bytes + count
<1> DEFINE count == ChunkCount(bytes, streams)
           chunk == ChunkBytes(bytes, count)
           rest == (bytes + count - 1) % count
<1>1. count \in 1..bytes
  BY DEF ChunkCount
<1> HIDE DEF count
<1>2. bytes + count - 1 = count * chunk + rest /\ rest \in 0..(count - 1) /\ chunk \in Int
  BY <1>1 DEF ChunkBytes
<1> HIDE DEF chunk, rest
<1>3. bytes <= count * chunk /\ count * chunk < bytes + count
  BY <1>1, <1>2
<1>4. chunk > 0
  <2>1. SUFFICES ASSUME chunk <= 0 PROVE count * chunk <= 0
    BY <1>1, <1>2, <1>3
  <2> QED BY <1>1, <1>2, <2>1
<1> QED BY <1>1, <1>2, <1>3, <1>4 DEF count, chunk

LEMMA RangesAreApart ==
  ASSUME NEW i \in Nat, NEW j \in Nat, NEW chunk \in Nat, i < j
  PROVE  i * chunk + chunk <= j * chunk
<1>1. PICK k \in Nat : j = i + 1 + k
  <2>1. j - i - 1 \in Nat /\ j = i + 1 + (j - i - 1)
    OBVIOUS
  <2> QED BY <2>1
<1>2. j * chunk = i * chunk + chunk + k * chunk /\ k * chunk \in Nat /\ i * chunk \in Nat
  BY <1>1
<1> QED BY <1>2

\* The GETs of a speed test ask for every byte of it exactly once, for every
\* object and every number of streams.
THEOREM RangesCoverOnce ==
  ASSUME NEW bytes \in Nat \ {0}, NEW streams \in Int
  PROVE  EachByteOnce(bytes, streams)
<1> DEFINE count == ChunkCount(bytes, streams)
           chunk == ChunkBytes(bytes, count)
<1>1. count \in 1..bytes /\ chunk \in Nat \ {0} /\ bytes <= count * chunk
  BY ChunksMakeUpBytes
<1>2. /\ DOMAIN Ranges(bytes, streams) = 0..(count - 1)
      /\ \A i \in 0..(count - 1) : Ranges(bytes, streams)[i] = RangeStart(i, chunk)..RangeEnd(i, chunk, bytes)
  BY DEF Ranges
<1> HIDE DEF count, chunk
<1> SUFFICES ASSUME NEW b \in 0..(bytes - 1)
             PROVE  \E i \in 0..(count - 1) : \A j \in 0..(count - 1) : b \in Ranges(bytes, streams)[j] <=> j = i
  BY <1>2 DEF EachByteOnce
<1>3. PICK i \in Nat : i * chunk <= b /\ b < i * chunk + chunk
  <2> DEFINE i == b \div chunk
             rest == b % chunk
  <2>1. b = chunk * i + rest /\ rest \in 0..(chunk - 1) /\ i \in Int
    BY <1>1
  <2> HIDE DEF i, rest
  <2>2. i >= 0
    <3>1. SUFFICES ASSUME i <= -1 PROVE chunk * i <= -chunk
      BY <1>1, <2>1
    <3> QED BY <1>1, <2>1, <3>1
  <2>3. chunk * i = i * chunk /\ i * chunk \in Int
    BY <1>1, <2>1
  <2>4. i * chunk <= b /\ b < i * chunk + chunk
    BY <1>1, <2>1, <2>3
  <2>5. i \in Nat
    BY <2>1, <2>2
  <2> QED BY <2>4, <2>5
<1>4. i < count
  <2>1. SUFFICES ASSUME count <= i PROVE count * chunk <= i * chunk
    BY <1>1, <1>3
  <2> QED BY <1>1, <1>3, <2>1
<1>5. ASSUME NEW j \in 0..(count - 1) PROVE b \in Ranges(bytes, streams)[j] <=> j * chunk <= b /\ b < j * chunk + chunk
  <2>1. j * chunk \in Nat
    BY <1>1
  <2> QED BY <1>1, <1>2, <2>1 DEF RangeStart, RangeEnd
<1>6. ASSUME NEW j \in 0..(count - 1), j * chunk <= b, b < j * chunk + chunk PROVE j = i
  <2>1. j * chunk \in Nat /\ i * chunk \in Nat
    BY <1>1
  <2>2. ~(i < j)
    BY <1>1, <1>3, <1>6, <2>1, RangesAreApart
  <2>3. ~(j < i)
    BY <1>1, <1>3, <1>6, <2>1, RangesAreApart
  <2> QED BY <1>1, <1>3, <2>2, <2>3
<1>7. i \in 0..(count - 1)
  BY <1>1, <1>3, <1>4
<1>8. \A j \in 0..(count - 1) : b \in Ranges(bytes, streams)[j] <=> j = i
  BY <1>3, <1>5, <1>6, <1>7
<1> QED BY <1>7, <1>8

\* An object of at least as many bytes as the square of the number of ranges is
\* divided into ranges that all hold something; only on a smaller one can a
\* GET start past the end.
THEOREM OnlySmallObjectsHaveEmptyRanges ==
  ASSUME NEW bytes \in Nat \ {0}, NEW streams \in Int,
         ChunkCount(bytes, streams) * ChunkCount(bytes, streams) <= bytes
  PROVE  NoRangeIsEmpty(bytes, streams)
<1> DEFINE count == ChunkCount(bytes, streams)
           chunk == ChunkBytes(bytes, count)
<1>1. /\ count \in 1..bytes /\ chunk \in Nat \ {0}
      /\ bytes <= count * chunk /\ count * chunk < bytes + count /\ count * count <= bytes
  BY ChunksMakeUpBytes
<1>2. /\ DOMAIN Ranges(bytes, streams) = 0..(count - 1)
      /\ \A i \in 0..(count - 1) : Ranges(bytes, streams)[i] = RangeStart(i, chunk)..RangeEnd(i, chunk, bytes)
  BY DEF Ranges
<1> HIDE DEF count, chunk
<1>3. count <= chunk
  <2>1. SUFFICES ASSUME chunk + 1 <= count PROVE count * chunk + count <= count * count
    BY <1>1
  <2> QED BY <1>1, <2>1
<1>4. ASSUME NEW i \in 0..(count - 1) PROVE i * chunk < bytes
  <2>1. i * chunk + chunk <= count * chunk
    BY <1>1, RangesAreApart
  <2>2. i * chunk \in Nat /\ count * chunk \in Nat
    BY <1>1
  <2> QED BY <1>1, <1>3, <2>1, <2>2
<1>5. ASSUME NEW i \in 0..(count - 1) PROVE RangeStart(i, chunk) \in Ranges(bytes, streams)[i]
  <2>1. i * chunk \in Nat
    BY <1>1
  <2> QED BY <1>1, <1>2, <1>4, <2>1 DEF RangeStart, RangeEnd
<1> QED BY <1>2, <1>5 DEF NoRangeIsEmpty
=============================================================================
