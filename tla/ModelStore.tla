----------------------------- MODULE ModelStore -----------------------------
(***************************************************************************)
(* The two stores between which a model travels: a Hugging Face repository *)
(* and the prefix of an R2 bucket.  Neither is code of this repository.    *)
(*                                                                         *)
(* An object is the revision it was downloaded from and how many bytes of  *)
(* it arrived.  Putting an object replaces it as a whole.                  *)
(***************************************************************************)
EXTENDS Naturals

CONSTANTS
  Files,      \* the files of the model repository
  Revisions,  \* its revisions
  Size,       \* revision -> file -> its length in bytes
  Absent      \* no object under that key

ASSUME StoreConstants ==
  /\ Size \in [Revisions -> [Files -> Nat]]
  /\ Absent \notin [rev : Revisions, bytes : Nat]

VARIABLES
  head,    \* the revision the default branch of the repository points to
  bucket   \* file -> the object under its key

storeVars == <<head, bucket>>

\* the prefix of a download that broke off, or all of it
Objects(f) ==
  UNION {{[rev |-> r, bytes |-> n] : n \in 0..Size[r][f]} : r \in Revisions}

StoreTypeOK ==
  /\ head \in Revisions
  /\ bucket \in [Files -> {Absent} \union [rev : Revisions, bytes : Nat]]
  /\ \A f \in Files : bucket[f] # Absent => bucket[f] \in Objects(f)

Put(f, object) == bucket' = [bucket EXCEPT ![f] = object]

\* whoever owns the repository pushes to it
RepoMoves ==
  /\ \E r \in Revisions \ {head} : head' = r
  /\ UNCHANGED bucket
=============================================================================
