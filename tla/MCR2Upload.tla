----------------------------- MODULE MCR2Upload -----------------------------
(***************************************************************************)
(* The uploader alone.  The two revisions of the repository differ in the  *)
(* length of one file; the listing does not give the length of another.    *)
(***************************************************************************)
EXTENDS R2Upload

MCFiles == {"shard", "readme"}
MCSized == {"shard"}
MCSize == [r1 |-> [shard |-> 2, readme |-> 1],
           r2 |-> [shard |-> 1, readme |-> 1]]
\* retrained weights: another revision, the same lengths
MCEqualSize == [r \in Revisions |-> [f \in Files |-> 1]]
=============================================================================
