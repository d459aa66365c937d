--------------------------- MODULE MCEventIngest ---------------------------
(* Model-checking instance of EventIngest. *)
EXTENDS EventIngest, TLC

(* Calls are alike, and so are invocations. *)
Symmetric == Permutations(Streams) \cup Permutations(Invocations)
=============================================================================
