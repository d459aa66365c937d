-------------------------- MODULE InvocationDetail --------------------------
(***************************************************************************)
(* What the web UI derives from an invocation's stored events on every     *)
(* read: the targets with their results and files (src/index/targets.go),  *)
(* the flags, error and build info (src/index/detail.go), the console log  *)
(* and the file a URI stands for (src/webui/webui.go).  All are operators  *)
(* on a sequence of events.  Labels, names and texts are opaque; an event  *)
(* of an aspect has aspect = TRUE.                                         *)
(***************************************************************************)
EXTENDS Naturals, Sequences, FiniteSets, SequencesExt

CONSTANTS
    NoText,    \* the empty string
    NoURI,     \* the empty URI of a file whose contents are inlined
    NoId,      \* the id, or label, of an event whose id is not of its payload's kind
    NoDetail,  \* no FailureDetail, not even one with an empty message
    NoFile     \* fileForURI's answer when nobody reported the URI

Keep(out, x, kept) == IF kept THEN Append(out, x) ELSE out

(* The elements of s at the positions I, in order.                         *)
ElementsAt(s, I) ==
    LET upTo[n \in 0..Len(s)] == IF n = 0 THEN <<>> ELSE Keep(upTo[n-1], s[n], n \in I)
    IN  upTo[Len(s)]

OfKind(events, k) == ElementsAt(events, {i \in DOMAIN events : events[i].kind = k})

WithURI(files) == ElementsAt(files, {i \in DOMAIN files : files[i].uri # NoURI})

-----------------------------------------------------------------------------
(* Named sets of files.  The last event of an id counts, wherever it is in *)
(* the stream.                                                             *)

NamesSet(e) == e.kind = "NamedSet" /\ e.id # NoId

WithNamedSet(sets, e) ==
    IF NamesSet(e)
    THEN [k \in DOMAIN sets \cup {e.id} |-> IF k = e.id THEN e ELSE sets[k]]
    ELSE sets

parseNamedSets(events) ==
    LET sets[n \in 0..Len(events)] == IF n = 0 THEN <<>> ELSE WithNamedSet(sets[n-1], events[n])
    IN  sets[Len(events)]

(* One step of resolveFileSets, depth first: w.ids is what is left to      *)
(* visit, of this call and of those it returns to.                         *)
visit(sets, w) ==
    IF w.ids = <<>> THEN w
    ELSE LET key == Head(w.ids)
             known == key \notin w.seen /\ key \in DOMAIN sets
         IN  [ids   |-> IF known THEN sets[key].sets \o Tail(w.ids) ELSE Tail(w.ids),
              seen  |-> w.seen \cup {key},
              files |-> IF known THEN w.files \o WithURI(sets[key].files) ELSE w.files]

References(sets) == UNION {{k} \X DOMAIN sets[k].sets : k \in DOMAIN sets}

(* Every step takes an id off the list, and only the references of a set   *)
(* not seen before are put on it: this many steps leave none.              *)
Steps(sets, ids) == Len(ids) + Cardinality(References(sets))

resolveFileSets(sets, ids) ==
    LET after[n \in 0..Steps(sets, ids)] ==
            IF n = 0 THEN [ids |-> ids, seen |-> {}, files |-> <<>>] ELSE visit(sets, after[n-1])
    IN  after[Steps(sets, ids)].files

-----------------------------------------------------------------------------
(* Targets.  TestStatus stands for the summary's status and duration.      *)

NewTarget ==
    [Kind |-> NoText, IsTest |-> FALSE, Success |-> FALSE, TestStatus |-> NoText, FailureMessage |-> NoText,
     LogFiles |-> <<>>, Attempts |-> <<>>, OutputFiles |-> <<>>]

(* Adds the label again each time it is reported (mutation).               *)
getAgain(t, label) ==
    [order   |-> Append(t.order, label),
     byLabel |-> [l \in DOMAIN t.byLabel \cup {label} |-> IF l \in DOMAIN t.byLabel THEN t.byLabel[l] ELSE NewTarget]]

get(t, label) ==
    IF label \in DOMAIN t.byLabel THEN t
    ELSE [order   |-> Append(t.order, label),
          byLabel |-> [l \in DOMAIN t.byLabel \cup {label} |-> IF l = label THEN NewTarget ELSE t.byLabel[l]]]

(* One set of seen ids for all output groups of a target (mutation).       *)
OutputsShared(sets, groups) == resolveFileSets(sets, FlattenSeq(groups))

Outputs(sets, groups) == FlattenSeq([g \in DOMAIN groups |-> resolveFileSets(sets, groups[g])])

(* A flaky test counts as a success (mutation).                            *)
PassedOrFlaky(status) == status # "FAILED"

Passed(status) == status = "PASSED"

(* What an event does to the target it is about.                           *)
Update(target, e, sets) ==
    CASE e.kind = "Configured"  -> [target EXCEPT !.Kind = e.targetKind, !.IsTest = e.sized]
      [] e.kind = "Completed"   -> [target EXCEPT !.Success = e.success,
                                        !.FailureMessage = IF e.failure = NoDetail THEN @ ELSE e.failure,
                                        !.OutputFiles = @ \o Outputs(sets, e.groups)]
      [] e.kind = "TestSummary" -> [target EXCEPT !.IsTest = TRUE, !.TestStatus = e.status,
                                        !.Success = Passed(e.status)]
      [] e.kind = "TestResult"  -> [target EXCEPT !.IsTest = TRUE, !.LogFiles = @ \o WithURI(e.files),
                                        !.Attempts = Append(@, e.attempt)]

AboutTarget(e) ==
    \/ e.kind \in {"TestSummary", "TestResult"} /\ e.label # NoId
    \/ e.kind \in {"Configured", "Completed"} /\ e.label # NoId /\ ~e.aspect

Report(t, e, sets) ==
    IF AboutTarget(e)
    THEN LET got == get(t, e.label) IN [got EXCEPT !.byLabel[e.label] = Update(@, e, sets)]
    ELSE t

(* The targets after the first n events.                                   *)
TargetsAfter(events, sets, n) ==
    LET after[k \in 0..n] ==
            IF k = 0 THEN [order |-> <<>>, byLabel |-> <<>>] ELSE Report(after[k-1], events[k], sets)
    IN  after[n]

ParseTargets(events) == TargetsAfter(events, parseNamedSets(events), Len(events))

-----------------------------------------------------------------------------
(* Flags, build error, build info, console log.                            *)

Canonical(events) ==
    ElementsAt(events, {i \in DOMAIN events : events[i].kind = "CommandLine" /\ events[i].canonical})

Flags(cl) == ElementsAt(cl.options, {i \in DOMAIN cl.options : cl.options[i].name # "client_env"})

ParseFlags(events) ==
    LET cl == Canonical(events)
    IN  FlattenSeq([i \in DOMAIN cl |-> Flags(cl[i])])

ParseBuildError(events) ==
    LET failed  == ElementsAt(events, {i \in DOMAIN events : events[i].kind = "Finished" /\ events[i].failure \notin {NoText, NoDetail}})
        aborted == ElementsAt(events, {i \in DOMAIN events : events[i].kind = "Aborted" /\ events[i].text # NoText})
    IN  IF failed # <<>> THEN Head(failed).failure
        ELSE IF aborted # <<>> THEN Last(aborted).text ELSE NoText

optionValue(cl, name) ==
    LET i == SelectInSeq(cl.options, LAMBDA o : o.name = name) IN IF i = 0 THEN NoText ELSE cl.options[i].value

ParseBuildInfo(events) ==
    LET cpus    == ElementsAt(events, {i \in DOMAIN events : events[i].kind = "Configuration" /\ events[i].cpu # NoText})
        metrics == OfKind(events, "BuildMetrics")
        sets(name) == \E i \in DOMAIN Canonical(events) : optionValue(Canonical(events)[i], name) # NoText
    IN  [CPU |-> IF cpus = <<>> THEN NoText ELSE Last(cpus).cpu,
         PackagesLoaded |-> IF metrics = <<>> THEN 0 ELSE Last(metrics).packages,
         FetchCount |-> Len(OfKind(events, "Fetch")),
         RemoteExecutionEnabled |-> sets("remote_executor"), CachingEnabled |-> sets("remote_cache")]

getLog(events) == LET p == OfKind(events, "Progress") IN [i \in DOMAIN p |-> p[i].output]

getDetails(events) ==
    [targets |-> ParseTargets(events), flags |-> ParseFlags(events),
     error |-> ParseBuildError(events), info |-> ParseBuildInfo(events)]

(* The name reported with a URI: of the first target that has it, among    *)
(* its logs and then its outputs.                                          *)
fileForURI(events, uri) ==
    LET t == ParseTargets(events)
        files == FlattenSeq([i \in DOMAIN t.order |->
                    t.byLabel[t.order[i]].LogFiles \o t.byLabel[t.order[i]].OutputFiles])
        i == SelectInSeq(files, LAMBDA f : f.uri = uri)
    IN  IF i = 0 THEN NoFile ELSE files[i].name

-----------------------------------------------------------------------------
(* Properties, over any sequence of events.                                *)

(* The sets that are in every set of ids that holds ids and is closed      *)
(* under reference.                                                        *)
Reachable(sets, ids) ==
    {k \in DOMAIN sets : \A S \in SUBSET DOMAIN sets :
        (ids \cap DOMAIN sets) \cup UNION {ToSet(sets[s].sets) \cap DOMAIN sets : s \in S} \subseteq S => k \in S}

(* Where file f is listed for the target l: in the sets reachable from an  *)
(* output group of an event that completes l.                              *)
Listings(events, sets, l, f) ==
    UNION {UNION {UNION {{<<i, g, k, n>> : n \in {m \in DOMAIN WithURI(sets[k].files) : WithURI(sets[k].files)[m] = f}}
                            : k \in Reachable(sets, ToSet(events[i].groups[g]))}
                     : g \in DOMAIN events[i].groups}
              : i \in {j \in DOMAIN events : events[j].kind = "Completed" /\ AboutTarget(events[j]) /\ events[j].label = l}}

(* Every output group of a target contributes every file of every set it   *)
(* reaches, exactly once, wherever the NamedSet events are in the stream   *)
(* and even when sets refer to one another (targets.go:82-125, 161-163).   *)
OutputsComplete(events) ==
    LET sets == parseNamedSets(events)
        t == ParseTargets(events)
        filesOf(l) == t.byLabel[l].OutputFiles
    IN  \A l \in DOMAIN t.byLabel :
            \A f \in ToSet(filesOf(l)) \cup UNION {ToSet(sets[k].files) : k \in DOMAIN sets} :
                Cardinality({i \in DOMAIN filesOf(l) : filesOf(l)[i] = f}) = Cardinality(Listings(events, sets, l, f))

Twice(s) == s \o s

(* When an invocation's events are stored twice over (a broken stream and  *)
(* its retry in one blob), the page shows the same targets in the same     *)
(* order with the same verdicts, the same error and build info; the lists  *)
(* of files, attempts and flags, the log and the count of fetches are      *)
(* those of one stream twice (targets.go:129-197, detail.go:19-107).       *)
ResendDoublesLists(events) ==
    LET once == getDetails(events)  again == getDetails(Twice(events))
    IN  /\ again.targets.order = once.targets.order
        /\ again.targets.byLabel = [l \in DOMAIN once.targets.byLabel |->
              [once.targets.byLabel[l] EXCEPT !.LogFiles = Twice(@), !.Attempts = Twice(@), !.OutputFiles = Twice(@)]]
        /\ again.flags = Twice(once.flags) /\ again.error = once.error
        /\ again.info = [once.info EXCEPT !.FetchCount = 2 * @]
        /\ getLog(Twice(events)) = Twice(getLog(events))

(* Bazel reports a target's configuration, its completion, its test        *)
(* results and its test summary in this order.                             *)
Stage == [Configured |-> 1, Completed |-> 2, TestResult |-> 3, TestSummary |-> 4]

InBazelOrder(events, l) ==
    \A i, j \in DOMAIN events :
        /\ i < j /\ AboutTarget(events[i]) /\ AboutTarget(events[j]) /\ events[i].label = l /\ events[j].label = l
        => Stage[events[i].kind] <= Stage[events[j].kind]

(* In that order a test's verdict is that of its last summary, whatever    *)
(* its build said before: it is shown as a test, and as a success only if  *)
(* it PASSED, not if it was FLAKY (targets.go:148-188).                    *)
TestVerdictStands(events) ==
    LET t == ParseTargets(events) IN
    \A l \in DOMAIN t.byLabel : InBazelOrder(events, l) =>
        LET mine == {i \in DOMAIN events :
                        /\ events[i].kind \in {"TestSummary", "TestResult"}
                        /\ AboutTarget(events[i]) /\ events[i].label = l}
        IN  \A i \in mine :
                /\ t.byLabel[l].IsTest
                /\ events[i].kind = "TestSummary" /\ (\A j \in mine : j <= i)
                     => t.byLabel[l].Success = (events[i].status = "PASSED")
=============================================================================
