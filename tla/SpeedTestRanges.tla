--------------------------- MODULE SpeedTestRanges ---------------------------
(***************************************************************************)
(* How the R2 speed test of provision_vast_vllm_from_r2.sh divides the     *)
(* first bytes of an object (at least one, at most R2_SPEED_TEST_MAX_MB)   *)
(* among parallel ranged GETs.                                             *)
(***************************************************************************)
EXTENDS Integers

\* RCLONE_MULTI_THREAD_STREAMS, but at least one and no more than there are bytes
ChunkCount(bytes, streams) ==
  LET atLeastOne == IF streams < 1 THEN 1 ELSE streams
  IN  IF atLeastOne > bytes THEN bytes ELSE atLeastOne

ChunkBytes(bytes, count) == (bytes + count - 1) \div count

\* bytes=first-last
RangeStart(i, chunk) == i * chunk
RangeEnd(i, chunk, bytes) ==
  IF i * chunk + chunk - 1 >= bytes THEN bytes - 1 ELSE i * chunk + chunk - 1

\* the bytes the GETs of a test ask for: number of the GET -> bytes
Ranges(bytes, streams) ==
  LET count == ChunkCount(bytes, streams)
      chunk == ChunkBytes(bytes, count)
  IN  [i \in 0..(count - 1) |-> RangeStart(i, chunk)..RangeEnd(i, chunk, bytes)]

-----------------------------------------------------------------------------
\* The GETs ask for every byte of the test exactly once, however many streams
\* are configured and however the division comes out.
EachByteOnce(bytes, streams) ==
  LET ranges == Ranges(bytes, streams)
  IN  \A b \in 0..(bytes - 1) : \E i \in DOMAIN ranges : \A j \in DOMAIN ranges :
        b \in ranges[j] <=> j = i

\* No GET asks for a range that ends before it starts.
NoRangeIsEmpty(bytes, streams) ==
  LET ranges == Ranges(bytes, streams) IN \A i \in DOMAIN ranges : ranges[i] # {}
=============================================================================
