---------------------------- MODULE MCBlobCache ----------------------------
(* Model-checking instances of BlobCache. *)
EXTENDS BlobCache, TLC

(* Calls and names are interchangeable. *)
CacheSymmetry == Permutations(Calls) \cup Permutations(Names)
=============================================================================
