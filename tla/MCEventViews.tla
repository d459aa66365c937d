---------------------------- MODULE MCEventViews ----------------------------
(***************************************************************************)
(* One stream of events, in any order and with any repetition, and the two *)
(* ways bepper looks at it: the record the parser builds as the events     *)
(* arrive, and the details derived from the stored events.                 *)
(***************************************************************************)
EXTENDS EventViews

(* Two spellings of one repository, and another repository.                *)
MCNormalize == [v \in {"git@h:r.git", "https://h/r", "https://h/s"} |->
                    IF v = "git@h:r.git" THEN "https://h/r" ELSE v]

MCBranchOfRef == [v \in {"refs/heads/main"} |-> "main"]

Option(name, key, value) == [name |-> name, key |-> key, value |-> value]

ParserEvents ==
    { [kind |-> "Started", time |-> 2500, millis |-> 0, command |-> "build", patterns |-> <<<<"//a">>, <<"//b">>>>],
      [kind |-> "Started", time |-> NoTime, millis |-> 3, command |-> Empty, patterns |-> <<>>],
      [kind |-> "Finished", time |-> 9000, millis |-> 0, code |-> 1, exit |-> "FAILED", failure |-> "no such target"],
      [kind |-> "Finished", time |-> NoTime, millis |-> 8, code |-> 0, exit |-> "SUCCESS", failure |-> NoText],
      [kind |-> "BuildMetrics", actions |-> 7, packages |-> 3],
      [kind |-> "CommandLine", canonical |-> TRUE, options |->
          <<Option("client_env", "USER", "ann"), Option("client_env", "GITHUB_ACTOR", "bob"),
            Option("client_env", "REPO_URL", "https://h/s"), Option("client_env", "REPO_URL", "git@h:r.git"),
            Option("client_env", "GIT_BRANCH", Empty), Option("client_env", "GITHUB_REF", "refs/heads/main"),
            Option("client_env", "CI", "1"), Option("client_env", Empty, "CI_RUNNER"),
            Option("remote_cache", Empty, "grpc://c"), Option("remote_executor", Empty, Empty)>>],
      [kind |-> "CommandLine", canonical |-> FALSE, options |-> <<Option("client_env", "USER", "eve")>>],
      [kind |-> "WorkspaceStatus", items |->
          <<[key |-> "USER", value |-> "cat"], [key |-> "REPO_URL", value |-> "https://h/s"],
            [key |-> "BUILD_USER", value |-> Empty], [key |-> "TAGS", value |-> <<"w1", "w1">>]>>],
      [kind |-> "WorkspaceStatus", items |->
          <<[key |-> "BUILD_USER", value |-> "dan"], [key |-> "PATTERN", value |-> <<"//c">>],
            [key |-> "TAGS", value |-> <<"w2">>]>>],
      [kind |-> "BuildMetadata", tagEntries |-> {"m1", "m2=x"},
          metadata |-> [USER |-> "fay", ROLE |-> "CI", REPO_URL |-> Empty, TAGS |-> <<"m3">>]] }

DetailEvents ==
    { [kind |-> "NamedSet", id |-> "s", files |-> <<[name |-> "a", uri |-> "ua"]>>, sets |-> <<"t">>],
      [kind |-> "NamedSet", id |-> "t", files |-> <<[name |-> "b", uri |-> "ub"], [name |-> "i", uri |-> NoURI]>>,
          sets |-> <<"s", "u">>],
      [kind |-> "Configured", label |-> "x", aspect |-> FALSE, targetKind |-> "go_test", sized |-> TRUE],
      [kind |-> "Completed", label |-> "x", aspect |-> FALSE, success |-> TRUE, failure |-> NoDetail,
          groups |-> <<<<"s">>, <<"t", "s">>>>],
      [kind |-> "Completed", label |-> "y", aspect |-> FALSE, success |-> FALSE, failure |-> "cc failed",
          groups |-> <<<<"t">>>>],
      [kind |-> "Completed", label |-> "y", aspect |-> FALSE, success |-> FALSE, failure |-> NoText, groups |-> <<>>],
      [kind |-> "Completed", label |-> "y", aspect |-> TRUE, success |-> TRUE, failure |-> NoText,
          groups |-> <<<<"s">>>>],
      [kind |-> "TestResult", label |-> "x", files |-> <<[name |-> "log", uri |-> "ul"]>>, attempt |-> "FAILED"],
      [kind |-> "TestSummary", label |-> "x", status |-> "FLAKY"],
      [kind |-> "TestSummary", label |-> "x", status |-> "PASSED"],
      [kind |-> "TestSummary", label |-> NoId, status |-> "FAILED"],
      [kind |-> "Aborted", text |-> "interrupted"],
      [kind |-> "Configuration", cpu |-> "arm64"],
      [kind |-> "Fetch"],
      [kind |-> "Progress", output |-> "o"] }

(* A failing Finished event and the canonical command line are in both.    *)
Shared == {e \in ParserEvents : \/ e.kind = "Finished" /\ e.failure # NoText
                                \/ e.kind = "CommandLine" /\ e.canonical}

MCEvents == ParserEvents \cup DetailEvents

(* A stream takes its events from one of the two sets: neither view looks  *)
(* at the other's.                                                         *)
OneView == ToSet(seen) \subseteq ParserEvents \/ ToSet(seen) \subseteq DetailEvents \cup Shared
=============================================================================
