----------------------------- MODULE EventViews -----------------------------
(***************************************************************************)
(* The two ways bepper looks at one stream of events: the record the       *)
(* parser builds as they arrive, and the details the page derives from     *)
(* them once they are stored.                                              *)
(***************************************************************************)
EXTENDS EventParser, InvocationDetail

(* The repeated fields of an event are sequences.                          *)
ASSUME ListsAssumption ==
    \A e \in Events :
        /\ e.kind = "NamedSet" => IsSequence(e.files) /\ IsSequence(e.sets)
        /\ e.kind = "Completed" => IsSequence(e.groups) /\ \A g \in DOMAIN e.groups : IsSequence(e.groups[g])
        /\ e.kind = "TestResult" => IsSequence(e.files)
        /\ e.kind = "CommandLine" => IsSequence(e.options)

(* What the details page shows of the events stored so far: every file of  *)
(* the output groups, once per group (OutputsComplete).                    *)
DetailOutputsComplete == OutputsComplete(seen)

(* What it shows when they are stored twice over (ResendDoublesLists).     *)
DetailResendDoublesLists == ResendDoublesLists(seen)

(* What it says of a test in Bazel's order (TestVerdictStands).            *)
DetailTestVerdictStands == TestVerdictStands(seen)
=============================================================================
