---------------------------- MODULE MCBlobFetch ----------------------------
(***************************************************************************)
(* Requests for files of two invocations: an output behind a named set, a  *)
(* test log that stayed on the build machine, and a file nobody reported.  *)
(***************************************************************************)
EXTENDS BlobFetch, InvocationDetail

MCHostOf == [u \in {"out", "other"} |-> IF u = "out" THEN "h1" ELSE "h2"]

File(n, u) == [name |-> n, uri |-> u]

MCEventLogs ==
    { <<[kind |-> "Completed", label |-> "x", aspect |-> FALSE, success |-> TRUE, failure |-> NoDetail,
         groups |-> <<<<"s">>>>],
        [kind |-> "NamedSet", id |-> "s", files |-> <<File("bin", "out")>>, sets |-> <<>>]>>,
      <<[kind |-> "TestResult", label |-> "x", files |-> <<File("log", "local")>>, attempt |-> "PASSED"]>> }
=============================================================================
