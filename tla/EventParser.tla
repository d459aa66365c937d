---------------------------- MODULE EventParser ----------------------------
(***************************************************************************)
(* The incremental parser that turns the events of one stream into the     *)
(* invocation's Record (src/index/parser.go).  A step is one ParseEvent.   *)
(*                                                                         *)
(* Several kinds of event may set the same field; each kind has a priority *)
(* and the setters drop a value when the field was set at a higher one.    *)
(* All setters an event calls have its priority, so what an event does to  *)
(* a field is given by the sequence of values it offers to it.             *)
(*                                                                         *)
(* Strings are opaque values.  A PATTERN or TAGS value is given by the     *)
(* sequence it splits into.                                                *)
(***************************************************************************)
EXTENDS Integers, Sequences, FiniteSets, SequencesExt

CONSTANTS
    Events,            \* the events a stream may deliver
    Empty,             \* the empty string
    NoTime,            \* an absent timestamp
    normalizeRepoURL,  \* giturl.go: a function on strings, identical where it returns an error
    branchOfRef,       \* the strings "refs/heads/x", each with its x
    MaxEvents          \* bound on the length of a stream

ASSUME ParserAssumption == MaxEvents \in Nat

(* The fallback of a start time is a number, never an absent time.         *)
ASSUME TimesAssumption ==
    NoTime \notin Int /\ \A e \in Events : e.kind = "Started" => e.millis \in Int

IsSequence(s) == Len(s) \in Nat /\ s = [i \in 1..Len(s) |-> s[i]]

(* A value of TAGS that is not empty is the sequence it splits into.       *)
ASSUME TagsAssumption ==
    \A e \in Events :
        /\ e.kind = "WorkspaceStatus" =>
              /\ IsSequence(e.items)
              /\ \A n \in DOMAIN e.items :
                    e.items[n].key = "TAGS" /\ e.items[n].value # Empty => IsSequence(e.items[n].value)
        /\ e.kind = "BuildMetadata" =>
              /\ IsFiniteSet(e.tagEntries)
              /\ "TAGS" \in DOMAIN e.metadata /\ e.metadata["TAGS"] # Empty => IsSequence(e.metadata["TAGS"])

VARIABLES
    record,    \* the fields of the Record that have a priority
    priority,  \* fieldPriorities
    tags,      \* Record.Tags and their priority
    summary,   \* startTime and the fields only one kind of event sets
    seen,      \* history: the events parsed so far
    called     \* history: the priority of every call of setTags so far

parserVars == <<record, priority, tags, summary, seen, called>>

Fields == {"Host", "User", "Role", "RepoURL", "BranchName", "CommitSHA",
           "Command", "Pattern", "ParentRunID", "RunID"}

PriorityOf == [Started |-> 1, CommandLine |-> 2, WorkspaceStatus |-> 3, BuildMetadata |-> 4]

Priority(e) == IF e.kind \in DOMAIN PriorityOf THEN PriorityOf[e.kind] ELSE 0

Lookup(map, k) == IF k \in DOMAIN map THEN map[k] ELSE Empty

NonEmpty(s) == SelectSeq(s, LAMBDA v : v # Empty)

-----------------------------------------------------------------------------
(* The values each kind of event offers to a field, in the order of the    *)
(* setter calls.                                                           *)

(* options: [name, key, value]; for client_env, the value "key=value" is   *)
(* cut at the "="; key is Empty when there is none.                        *)
parseCommandLine(options) ==
    LET isEnv(o) == o.name = "client_env" /\ o.key # Empty
        env == SelectSeq(options, isEnv)
    IN  [k \in {env[i].key : i \in DOMAIN env} |->
            env[SelectLastInSeq(env, LAMBDA o : o.key = k)].value]

EnvKeys ==
    [User       |-> <<"USER", "GITHUB_ACTOR", "BUILDKITE_BUILD_CREATOR", "GITLAB_USER_NAME",
                      "CIRCLE_USERNAME">>,
     RepoURL    |-> <<"TRAVIS_REPO_SLUG", "GIT_REPOSITORY_URL", "GIT_URL", "BUILDKITE_REPO", "REPO_URL",
                      "CIRCLE_REPOSITORY_URL", "GITHUB_REPOSITORY", "CI_REPOSITORY_URL">>,
     BranchName |-> <<"TRAVIS_BRANCH", "BITRISE_GIT_BRANCH", "GIT_BRANCH", "BUILDKITE_BRANCH", "CIRCLE_BRANCH",
                      "GITHUB_HEAD_REF", "CI_COMMIT_BRANCH", "CI_MERGE_REQUEST_SOURCE_BRANCH_NAME">>,
     CommitSHA  |-> <<"TRAVIS_COMMIT", "BITRISE_GIT_COMMIT", "GIT_COMMIT", "BUILDKITE_COMMIT", "CIRCLE_SHA1",
                      "GITHUB_SHA", "COMMIT_SHA", "VOLATILE_GIT_COMMIT", "CI_COMMIT_SHA">>]

fillFromStructuredCommandLine(cl, f) ==
    LET env == parseCommandLine(cl.options)
        ref == Lookup(env, "GITHUB_REF")
    IN  IF ~cl.canonical THEN <<>>
        ELSE IF f = "Role" THEN SelectSeq(<<"CI", "CI_RUNNER">>, LAMBDA k : Lookup(env, k) # Empty)
        ELSE IF f \in DOMAIN EnvKeys
             THEN NonEmpty([i \in DOMAIN EnvKeys[f] |-> Lookup(env, EnvKeys[f][i])])
                  \o (IF f = "BranchName" /\ ref \in DOMAIN branchOfRef THEN <<branchOfRef[ref]>> ELSE <<>>)
             ELSE <<>>

StatusField ==
    [BUILD_USER |-> "User", USER |-> "User", BUILD_HOST |-> "Host", HOST |-> "Host", PATTERN |-> "Pattern",
     ROLE |-> "Role", REPO_URL |-> "RepoURL", GIT_BRANCH |-> "BranchName", COMMIT_SHA |-> "CommitSHA"]

WithItem(values, item, keys) ==
    IF item.value # Empty /\ item.key \in keys THEN Append(values, item.value) ELSE values

(* The values of the items with these keys, in order.                      *)
StatusItems(items, keys) ==
    LET upTo[n \in 0..Len(items)] == IF n = 0 THEN <<>> ELSE WithItem(upTo[n-1], items[n], keys)
    IN  upTo[Len(items)]

fillFromWorkspaceStatus(items, f) ==
    StatusItems(items, {k \in DOMAIN StatusField : StatusField[k] = f})

MetadataKey ==
    [CommitSHA |-> "COMMIT_SHA", BranchName |-> "BRANCH_NAME", RepoURL |-> "REPO_URL", User |-> "USER",
     Host |-> "HOST", Pattern |-> "PATTERN", Role |-> "ROLE", ParentRunID |-> "PARENT_RUN_ID", RunID |-> "RUN_ID"]

fillFromBuildMetadata(metadata, f) ==
    IF f \in DOMAIN MetadataKey THEN NonEmpty(<<Lookup(metadata, MetadataKey[f])>>) ELSE <<>>

fromStarted(e, f) ==
    CASE f = "Command" -> <<e.command>> [] f = "Pattern" -> e.patterns [] OTHER -> <<>>

Offers(e, f) ==
    CASE e.kind = "Started"         -> fromStarted(e, f)
      [] e.kind = "CommandLine"     -> fillFromStructuredCommandLine(e, f)
      [] e.kind = "WorkspaceStatus" -> fillFromWorkspaceStatus(e.items, f)
      [] e.kind = "BuildMetadata"   -> fillFromBuildMetadata(e.metadata, f)
      [] OTHER                      -> <<>>

(* setRepoURL normalises; the other setters store the value as it is.      *)
Stored(f, v) == IF f = "RepoURL" THEN normalizeRepoURL[v] ELSE v

-----------------------------------------------------------------------------
(* Tags.                                                                   *)

WithTag(out, tag) == IF tag \in ToSet(out) THEN out ELSE Append(out, tag)

(* splitAndTrimAndDedupeTags: the first occurrence of every tag.           *)
dedupe(s) ==
    LET out[n \in 0..Len(s)] == IF n = 0 THEN <<>> ELSE WithTag(out[n-1], s[n])
    IN  out[Len(s)]

(* The setTags calls of an event.  The TAG_ entries of build metadata are  *)
(* visited in the map's iteration order.                                   *)
TagCalls(e, mapOrder) ==
    CASE e.kind = "WorkspaceStatus" -> StatusItems(e.items, {"TAGS"})
      [] e.kind = "BuildMetadata" /\ (Lookup(e.metadata, "TAGS") # Empty \/ e.tagEntries # {}) ->
            <<(IF Lookup(e.metadata, "TAGS") # Empty THEN e.metadata["TAGS"] ELSE <<>>) \o mapOrder>>
      [] OTHER -> <<>>

MapOrders(e) == IF e.kind = "BuildMetadata" THEN SetToSeqs(e.tagEntries) ELSE {<<>>}

(* Drops the tags of a source below the last one's (mutation).             *)
setTagsDropping(t, value, p) ==
    IF t.priority <= p THEN [list |-> t.list \o dedupe(value), priority |-> p] ELSE t

(* Puts new tags behind the others whatever their source (mutation).       *)
setTagsAppending(t, value, p) == [list |-> t.list \o dedupe(value), priority |-> p]

setTags(t, value, p) ==
    [list     |-> IF t.priority <= p THEN t.list \o dedupe(value) ELSE dedupe(value) \o t.list,
     priority |-> p]

(* The calls of one event, one after the other.                            *)
setAllTags(t, values, p) ==
    LET after[k \in 0..Len(values)] == IF k = 0 THEN t ELSE setTags(after[k-1], values[k], p)
    IN  after[Len(values)]

-----------------------------------------------------------------------------
(* What the setters do with a field: keep it, or take the last value the   *)
(* event offers.                                                           *)

(* The first of several equal sources stays (mutation).                    *)
SetsFirst(e, f) == Offers(e, f) # <<>> /\ (priority[f] < Priority(e) \/ priority[f] = 0)

Sets(e, f) == Offers(e, f) # <<>> /\ priority[f] <= Priority(e)

timeWithFallback(ts, millis) == IF ts # NoTime THEN ts ELSE 1000 * millis

(* Computes a duration for a stream whose start was not seen (mutation).   *)
SummaryNoStart(e) ==
    CASE e.kind = "Started"  -> [summary EXCEPT !.start = timeWithFallback(e.time, e.millis)]
      [] e.kind = "Finished" -> [summary EXCEPT
              !.DurationUsec = timeWithFallback(e.time, e.millis) - (IF summary.start = NoTime THEN 0 ELSE summary.start),
              !.Success = e.code = 0, !.BazelExitCode = e.exit]
      [] e.kind = "BuildMetrics" -> [summary EXCEPT !.ActionCount = e.actions]
      [] OTHER -> summary

Summary(e) ==
    CASE e.kind = "Started"  -> [summary EXCEPT !.start = timeWithFallback(e.time, e.millis)]
      [] e.kind = "Finished" -> [summary EXCEPT
              !.DurationUsec = IF summary.start = NoTime THEN @
                               ELSE timeWithFallback(e.time, e.millis) - summary.start,
              !.Success = e.code = 0, !.BazelExitCode = e.exit]
      [] e.kind = "BuildMetrics" -> [summary EXCEPT !.ActionCount = e.actions]
      [] OTHER -> summary

ParserInit ==
    /\ record = [f \in Fields |-> Empty] /\ priority = [f \in Fields |-> 0]
    /\ tags = [list |-> <<>>, priority |-> 0]
    /\ summary = [start |-> NoTime, DurationUsec |-> 0, Success |-> FALSE, BazelExitCode |-> Empty,
                  ActionCount |-> 0]
    /\ seen = <<>> /\ called = <<>>

ParseEvent(e) ==
    /\ Len(seen) < MaxEvents
    /\ record' = [f \in Fields |-> IF Sets(e, f) THEN Stored(f, Last(Offers(e, f))) ELSE record[f]]
    /\ priority' = [f \in Fields |-> IF Sets(e, f) THEN Priority(e) ELSE priority[f]]
    /\ \E mapOrder \in MapOrders(e) :
          LET calls == TagCalls(e, mapOrder)
          IN  /\ tags' = setAllTags(tags, calls, Priority(e))
              /\ called' = called \o [k \in DOMAIN calls |-> Priority(e)]
    /\ summary' = Summary(e)
    /\ seen' = Append(seen, e)

ParserNext == \E e \in Events : ParseEvent(e)

ParserSpec == ParserInit /\ [][ParserNext]_parserVars

-----------------------------------------------------------------------------
(* The positions of the events that offer a value to f.                    *)
Setters(f) == {i \in DOMAIN seen : Offers(seen[i], f) # <<>>}

(* The one whose value must stand: the last of those with the highest      *)
(* priority.                                                               *)
Decides(i, f) ==
    /\ i \in Setters(f)
    /\ \A j \in Setters(f) : \/ Priority(seen[j]) < Priority(seen[i])
                             \/ Priority(seen[j]) = Priority(seen[i]) /\ j <= i

(* Whatever the order of the events, a field holds the last value offered  *)
(* by the last event of the highest priority that offered one: build       *)
(* metadata beats workspace status "even if the workspace status event     *)
(* came after" (parser.go:30-35, the setters at 256-337).                  *)
HighestPriorityWins ==
    \A f \in Fields :
        \/ Setters(f) = {} /\ record[f] = Empty
        \/ \E i \in Setters(f) : Decides(i, f) /\ record[f] = Stored(f, Last(Offers(seen[i], f)))

(* The tags an event carries.                                              *)
TagsOf(e) ==
    CASE e.kind = "WorkspaceStatus" ->
            UNION {ToSet(e.items[n].value) :
                      n \in {m \in DOMAIN e.items : e.items[m].key = "TAGS" /\ e.items[m].value # Empty}}
      [] e.kind = "BuildMetadata" ->
            e.tagEntries \cup (IF Lookup(e.metadata, "TAGS") # Empty THEN ToSet(e.metadata["TAGS"]) ELSE {})
      [] OTHER -> {}

(* No tag is lost and none is made up, whichever source it comes from and  *)
(* in whichever order: setTags always adds (parser.go:315-323).  This is   *)
(* what the code does and not what parser.go:253-254 says of all setters,  *)
(* that they apply no value after one of higher priority: the tags of      *)
(* workspace status are applied after those of build metadata.             *)
TagsKept == ToSet(tags.list) = UNION {TagsOf(seen[i]) : i \in DOMAIN seen}

(* Two calls for workspace status in a row after one for build metadata.   *)
(* The first sets the priority back to its own, so the second goes behind. *)
LateRepeat(calls) ==
    \E k \in 2..(Len(calls) - 1) :
        calls[k] = calls[k+1] /\ \E j \in 1..(k-1) : calls[j] > calls[k]

(* The tags of the events of a priority.                                   *)
TagsFrom(p) == UNION {TagsOf(seen[i]) : i \in {n \in DOMAIN seen : Priority(seen[n]) = p}}

(* Tags of a lower source stand before those of a higher one, whatever the *)
(* order of the events, as long as no two values of the lower source       *)
(* follow one another after the higher one (parser.go:317-322).            *)
LowerTagsFirst ==
    LateRepeat(called) \/ \A i, j \in DOMAIN tags.list :
        tags.list[i] \in TagsFrom(4) \ TagsFrom(3) /\ tags.list[j] \in TagsFrom(3) \ TagsFrom(4) => j < i

(* The duration is that from the latest start before the last finish that  *)
(* had one, and 0 when a finish never followed a start (parser.go:70-90).  *)
DurationFromLatestStart ==
    LET Of(k) == {i \in DOMAIN seen : seen[i].kind = k}
        timed == {i \in Of("Finished") : \E s \in Of("Started") : s < i}
        at(i) == timeWithFallback(seen[i].time, seen[i].millis)
    IN  \/ timed = {} /\ summary.DurationUsec = 0
        \/ \E i \in timed, s \in Of("Started") :
              /\ \A k \in timed : k <= i
              /\ s < i /\ \A k \in Of("Started") : k < i => k <= s
              /\ summary.DurationUsec = at(i) - at(s)
=============================================================================
