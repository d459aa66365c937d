# bepper: a verification project

bepper receives the Build Event Protocol stream of every Bazel invocation over
gRPC, stores the events as one gzip blob per invocation, indexes a summary row
in PostgreSQL, and serves both to a web UI. This directory holds TLA+ models of
the parts of it whose correctness depends on interleavings, failures and
restarts, the TLC configurations that check them on small instances, and TLAPS
proofs of the properties that matter most for instances of any size. Sources
are named by their path in the repository.

## 1. The system

| Component | State | Operations | Interacts with |
|---|---|---|---|
| Build event server, `src/server/server.go` | per RPC: stream ID, acks, parser | `PublishBuildToolEventStream`, `finish` | store, index, parser; one goroutine per RPC |
| Event store, `src/store/store.go` | `writers`, a map under a mutex | `AppendEvent`, `Finalize`, `ReadEvents` | blobstore; shared by all RPCs and HTTP requests |
| Disk blobstore, `src/blobstore/disk` | files | `Writer`/`Write`/`Close`, `ReadBlob`, `WriteBlob`, `DeleteBlob`, `BlobExists` | file system |
| S3 blobstore, `src/blobstore/s3` | bucket; per writer a pipe, a goroutine, a channel | the same | AWS SDK uploader |
| Blob cache, `src/blobstore/diskcache` | a directory of cached blobs, a singleflight group | the same, `populate`, `evict` | wraps S3, uses the disk blobstore |
| Event parser, `src/index/parser.go`, `tags.go`, `giturl.go` | one record and a priority per field | `ParseEvent` | owned by one RPC |
| Details and targets, `src/index/detail.go`, `targets.go` | none: folds over events | | web UI |
| Index, `src/index/postgres` | the `invocations` table | `Upsert`, `Get`, `List` | server writes, web UI reads |
| Bytestream client, `src/bytestream` | one connection per host | `Fetch`, `Stream` | web UI `getBlob` |
| Authentication, `src/auth` | cookies only | login, callback, logout, `Wrap` | OIDC provider, web UI |
| Web UI, `src/webui/webui.go` | none | list, get, log, details, raw, blob | index, store, bytestream |
| Frontend, `src/webui/frontend/src` | React state | list and filter, details, terminal | web UI over HTTP |

What is hard here:

* **Concurrency.** RPCs of one invocation can overlap (a client retries while
  the old call is still running). `Finalize` unlocks before it closes; the
  writer `writerFor` returns is used after the unlock; a gzip writer is not
  safe for two goroutines. The cache is used by many readers, writers and
  evictions at once and its files are rewritten in place.
* **Failure.** Errors of `AppendEvent`, `Finalize` and `Upsert` are logged and
  the stream goes on; a failed stream returns without `Finalize`; a restart
  loses the writer map and leaves torn files; an S3 upload runs under the
  context of the RPC that opened the writer.
* **Ordering and retries.** Acks are sorted before they are checked; acks can
  be lost after everything was stored; a retry resends the whole stream. Four
  kinds of event set the same fields of a record, in any order. Answers to the
  list page's requests overtake one another, and rows are inserted between two
  pages. Requests to the sign-in handlers overtake the answers that change
  their cookies.
* **Boundaries.** A response is committed with its first chunk, and a blob can
  fail after it; the chunk that crosses the size limit; rows created at the
  very time a page ends with; sessions that expire under way.

`PROJECT.json` lists each hazard at the line where it bites, with the
properties aimed at it.

What makes each modelled component correct:

* *server and store*: acks and index rows come only from complete streams; a
  writer has one owner; what a reader gets is what one closed writer was
  given; what was acknowledged is stored, readable and indexed, across
  restarts.
* *a blob writer*: the blob appears only after `Close` was called, whole and in
  order, and `Close` reports success only if it is there; `Close` returns.
* *the cache*: it serves nothing the backing store did not accept, finds what
  was written, stays within its limit and leaves no reader waiting.
* *the parser*: a field holds the last value of the highest source whatever the
  order; no tag is lost; a duration has a start and a finish that belong
  together.
* *the details page*: output files complete and counted once per group; a
  test's verdict is its summary's; a doubled stream does not change verdicts.
* *serving a file*: no error text behind file bytes, no more than the limit,
  only files the invocation reported, one connection to a host.
* *the list*: no row twice, none skipped but ties, the list of the filter set,
  loading ends.
* *sign-in*: a session is of a login its browser began, is served in time, a
  state is used once, and a login in order is not refused.

## 2. Modules

### EventIngest (server, store, disk blobstore, `Upsert`)

One member of `Streams` is one RPC and runs at most once; a retry is another
member. A step is what a goroutine does between two points where another can
run.

| Model | Code |
|---|---|
| `pc`, `inv`, `cur`, `acks`, `parsed`, `held`, `sent`, `result` | the locals of one `PublishBuildToolEventStream`; `held` is `w` in `AppendEvent` and `Finalize` |
| `lost`, `Disconnect` | the connection is gone after the last message and `stream.Context()` is cancelled |
| `writers`, `wr` | `Store.writers` and the `compressFileWriter`s in it |
| `file`, `row` | files of the disk blobstore, rows of the table |
| `RecvBazelEvent`, `RecvOtherEvent`, `RecvNoInvocation`, `RecvError` | one iteration of the receive loop up to the store |
| `WriterForHit`, `WriterForOpen`, `AppendFails`, `Write`, `WriteFails` | `AppendEvent`; the section under the mutex and the `Write` are two steps |
| `EofNoStream`, `EofAccept`, `EofReject` | `finish` up to the sequence check |
| `FinalizeTake`, `Close`, `CloseFails` | `Finalize`: the section under the mutex, then `w.Close()` |
| `Upsert`, `UpsertFails`, `SendAck`, `SendFails`, `ReturnOk` | the rest of `finish` |
| `ReadExists`, `ReadBlob` | `ReadEvents` |
| `Crash` | the process dies; files and rows stay |

Abstractions: an event is its sequence number (a retry carries the same event
under the same number). A file is absent, torn, or a whole gzip stream with
contents; a torn one does not decompress. Two goroutines inside one
`gzip.Writer`, and two descriptors on one file, are undefined: `raced` and
`mixed` make the result a choice between whole and torn. `sort.Slice` is any
permutation that sorts. A connection lost while messages are still awaited is
`RecvError`; lost after the last one (`Disconnect`), it is noticed only by
`Upsert`, which runs under the stream's context and then may or may not have
stored the row, and by `Send`, which may still return nil. `Finalize` takes no
context. A failing `Close` may leave a whole file: `f.Close` comes after
`gz.Close` has written everything.

### BlobWriter and S3Writer

`BlobWriter` is the promise of `Blobstore.Writer`. `S3Writer` is the code of
the S3 writer: gzip (`buf`, `header`), the pipe (`chunk`: a blocked
`pw.Write`), the upload goroutine (`up`, `part`, `got`), the channel (`errCh`)
and the context (`ctx`). The AWS uploader is external: it fills parts, sends a
request for each full one, looks for failed requests only between two parts,
and commits the object with the last request, whose answer may be lost
(`UploadAnswerLost`). `KeepsBlobPromise` instantiates `BlobWriter` with
`phase <- Phase, blob <- object`. It is the promise of `blobstore.go`; the comment
of `s3.go` says more than the code does (finding 5).

### BlobCache (cache over the disk blobstore)

One member of `Calls` is one `ReadBlob`, `WriteBlob`, `DeleteBlob` or the life
of one `Writer`. `call` holds its locals, `flight` the singleflight group,
`remote` the backing store, `file` and `order` the cache directory with its
modification times. Files are rewritten in place: opening truncates, a removed
file keeps its descriptors (`fds`) but they no longer reach the path, and a
file truncated under an open descriptor is `mixed` as in EventIngest. A
directory listing (`EvictList`) is one step. Every blob has size 1.
`remote.ever`, `faulted` and `seen` are history.

### EventParser (`parser.go`, `tags.go`)

One `ParseEvent` is one step. All setter calls of an event have the event's
priority, so `Offers(e, f)` is the sequence of values the event passes to the
setter of field `f`, `Sets` whether they take effect, and the last one is what
stays. Strings are opaque; `normalizeRepoURL` is a constant function; a `TAGS`
or `PATTERN` value is the sequence it splits into. Go's map iteration order for
`TAG_` entries is a choice of permutation (`MapOrders`). Loops are recursive
functions of the number of rounds done. `seen` (the events parsed) and `called`
(the priority of every call of `setTags`) are history.

### InvocationDetail (`targets.go`, `detail.go`, `getLog`, `getDetails`, `fileForURI`)

Operators on a sequence of events: these functions have no state. The
depth-first recursion of `resolveFileSets` is a loop of `visit` steps over the
ids left to visit, of the call and of those it returns to; `Steps`, the ids asked
for and all references between sets, bounds the loop (the proofs show that it is
enough). `OutputsComplete` compares the result with reachability defined as the
least closed set.

### EventViews (a stream as both views see it)

Composes the two: `seen`, the stream the parser has parsed, is what the details
page reads. It states the properties of `InvocationDetail` of every such stream.

### BlobFetch (`getBlob`, bytestream client)

One member of `Requests` is one HTTP request; `req` holds its locals and what
the client has been sent, `conns` is `Client.conns`, `log` what is stored for an
invocation, which may be replaced at any time. A step is one call that can fail
or wait. `HttpError` is `http.Error` of net/http: it writes its text even when
the status is already committed. `FileName` is a parameter that the MC module
instantiates with `fileForURI`, so the run composes the two modules. `dial` is
what its mutex `mu` makes of it and no atomic step: `Lock`, the lookup (`Reuse`,
`Miss`), the dialling (`NewClient`, `NewClientFails`), each of which other
requests may run between; without `Lock` two requests miss and dial twice.

### InvocationList (`Upsert`, `List`, `listInvocations`, `invocation_list.tsx`)

`created` is the table (a row is its id and `created_at`), `ui` the state of the
React component, `calls` its requests; a request is served at one moment and its
answer arrives at a later one, in any order. The 401 of an expired session
leaves the page (`Unauthorized`).

### AuthSession (`middleware.go`, `session.go`)

The server keeps nothing: `jar` is each browser's two cookies, `calls` the
requests with the cookies they carried and the Set-Cookie headers of their
answers, which take effect when the answer arrives. A login stands for the
random state and nonce made for it. `idp` is the provider: who signed in for
which login, which codes were redeemed. `RequireSession`, `HandleMe`,
`HandleLogin`, `HandleLogout` and the two halves of `handleCallback` (before and
after the code exchange, whose session `Issue` hands out) are the handlers. Cookies are AES-GCM sealed: a request
carries what a handler set, or nothing.

## 3. Runs

| Run | Instance | Shows |
|---|---|---|
| `ingest_overlap` | 2 overlapping streams of an invocation, 2 messages with any numbers, failing opens, writes and closes, 1 reader | `WriterOwned`, `AckOnlyComplete`, `IndexedComplete`, `ReadsCommitted` |
| `ingest_retry` | 3 successive streams, connections broken before or after the last message, lost acks, 2 restarts | `AckedDurable`, `RestartRetryExact`; the inductive invariant `IndInv` |
| `ingest_dup` | 2 streams, the first cut off | **violation** of `NoDuplicatedInvocation` |
| `ingest_order` | 1 stream, any numbering | **violation** of `OutOfOrderFails` |
| `s3_writer` | 4 events, parts of 2 chunks | `KeepsBlobPromise`, `PipeInv`, `CloseReturnsUnlessAborted` |
| `s3_hang` | the same | **violation** of `CloseReturns` |
| `cache` | 3 calls of any kind, 2 blobs, room for 1, all faults | `CachedAcceptedOrReported`, `QuietWithinLimit`, `ReadFindsWritten`, `WaiterHasLeader` |
| `cache_refused` | 1 writer, failing backing store | **violation** of `CacheFollowsBacking` |
| `event_views` | all sequences of up to 4 of 10 parser events, or of 15 detail events | `HighestPriorityWins`, `TagsKept`, `LowerTagsFirst`, `DurationFromLatestStart`; `DetailOutputsComplete`, `DetailResendDoublesLists`, `DetailTestVerdictStands` |
| `blob_fetch` | 2 requests, 2 invocations, 2 hosts, chunks of 0 to 2 bytes, limit 3 | `ErrorNeverStitched`, `WithinMaxSize`, `OnlyReported`, `OneConnPerHost` |
| `invocation_list` | 3 times, pages of 1 row, 3 requests | `NoRowTwice`, `SkipsOnlyTies`, `ListIsForFilter`, `LoadingEnds` |
| `auth` | 2 browsers, 2 users, 2 logins, 3 requests | `SessionIsOwn`, `ServedInTime`, `StateSingleUse`, `RefusedForAReason` |

Each property's comment states it in words. The findings are disagreements
between a comment of the code and what the code does; `PROJECT.json` quotes the
comments. The first four are violations that a run of their own shows:

1. A failed stream leaves its writer in the map and the retry appends to it, so
   the blob holds events twice.
2. Acks are sorted before the check: an out-of-order stream is accepted and
   stored in the order of arrival.
3. An upload that ends in mid-stream leaves nobody reading the pipe, and `Write`
   or `Close` blocks for ever.
4. The cache publishes what the backing store refused.

Two more are met by properties that hold, since these state what the code does:

5. `s3.go` says that an object is visible only once `Close` returned without
   error. It is visible when the uploader's last request took effect: while
   `Close` still waits for it, and also when its answer is lost and `Close` returns
   an error. `KeepsBlobPromise` allows both.
6. `parser.go` says of all setters that a value is not applied after one of higher
   priority. `setTags` applies the tags of workspace status after those of build
   metadata too. `TagsKept` says that every tag is kept.

Some properties state an exception, and the exception is what the code does:
`LowerTagsFirst` (two workspace-status tags in a row after build metadata, since
`setTags` lowers the priority), `SkipsOnlyTies` (rows of the cursor's own time
are skipped), `ListIsForFilter` (the late answer for an older filter replaces
the list), `ErrorNeverStitched` (an empty first chunk), `StateSingleUse` (a
second callback sent before the first was answered), `ReadFindsWritten` (a
joined fetch), `AckedDurable` (no row when the connection was lost after the last
message, which cancels `Upsert`), `DetailTestVerdictStands` (a summary before the
test's completion). Three more observations the models make, which no run is devoted
to: on disk a blob is "found" while it is still written (`Truncate` creates it);
concurrent evictions may remove more than the limit asks for, since a file
already gone is not subtracted (`EvictRemove`); a blob that fails after its first
byte ends the response normally, so the client is not told (`StreamFailed`).

Bounds. Two overlapping streams are what every race in the store needs: two
goroutines on one map entry, one writer or one file; a reader sees any of their
states. Two messages give out-of-order, duplicate and missing numbers. An
`Upsert` that fails does so in `ingest_retry`, where the lost connection cancels it;
a database that refuses one (the fault "upsert") leaves the same state, doubles
the overlapping run and is left to the theorems, which allow every fault. Three
successive streams give a retry of a retry, and a failed stream followed by a
restart followed by a retry. Two invocations would add nothing: they share only the mutex, and
the theorems hold for any number. Two chunks to a part and four events let the
uploader give up before, between and after the writes of `Close`. Three cache
calls give a writer, a fetch and a third that sees both; room for one of two
blobs makes evictions work. Four
events put any two sources of a field in either order with a repetition of each
and something between. Two requests race for one new host and for a log that is
replaced. Pages of one row give a cursor, a tie and a row inserted above and
below it with three requests. Two logins in two browsers give a mixed-up code;
three requests give a login with a repeated callback, two logins and a callback,
and a login, callback and page load that expires on its way.
`Permutations` symmetry is used in runs that check
only invariants, on sets whose members the model never tells apart.

Deadlock is checked in `ingest_overlap`, `ingest_retry` and `cache`, where
`AllReturned`/`AllDone` are the only states that may stutter: in the cache,
whose calls have finitely many steps, this and `WaiterHasLeader` say that every
call returns. It is not checked in `s3_writer`, since a caller need not close
and an aborted upload really stops the writer.

In the modules of the web UI a browser need not ask for anything, so deadlock is not
checked there.

Fairness is assumed in `S3Writer` and `InvocationList`. In the list, each
request is answered or fails and the browser runs the callback
(`Fairness`): the server answers every HTTP request or the browser reports a
network error. Nothing makes the user set filters or load more. In `S3Writer`: the upload goroutine goes on (goroutines
are scheduled, and S3 answers or fails each request), and a caller that has
called `Close` goes on. Nothing makes a caller write, close or cancel.

## 4. Proofs

`EventIngestProofs` proves for any streams, invocations, readers, bounds and
faults:

* `TypeCorrect`, `WritersOwned`, `AcksComplete`, `RowsComplete`,
  `ReadsAreCommitted`: the five invariants of `ingest_overlap`;
* `Invariance`: `Spec => []IndInv`.

None of the invariants is inductive alone. That acks are complete needs
`CallInv` (a call past the check keeps sorted, contiguous acks) and
`ParsedInv`: while a call receives, its parsed events embed injectively in its
acks, so once the acks are 1..n no event was parsed twice, although the acks
have been permuted by the sort. That reads are committed needs `FileInv` (a
readable file is what a closed writer was given), which needs that a closed
writer is never written or closed again, hence `OwnerInv`, and that a new
writer's name is fresh (`FreshInv`). Assumptions: `BoundsAssumption`,
`FaultsAssumption`, `NoneAssumption`.

`S3WriterProofs` proves for any number of events and part size `Invariance`,
`PipeKeepsOrder`, `TypeCorrect`, and `KeepsPromise`, that `Spec` implements `BlobWriter`. The
invariant says that what was written is what the uploader has, then what waits
in the pipe, then what gzip holds (`PipeInv`); that both ends agree on who is
blocked (`ChunkInv`); and that a report and an object come only at the end
(`ReportInv`, `ObjectInv`): so at the end of the body the uploader has
everything. Assumptions: `SizesAssumption`, `NoAssumption`.

`BlobFetchProofs` proves the four invariants of `blob_fetch` for any number of
requests, hosts and invocations, any chunk sizes, any limit and any lookup
`FileName`: `NeverStitched`, `SizeBounded`, `ReportedOnly`,
`ConnectionsShared`, and the types (`TypeCorrect`). `Body` ties the locals of a
handler to what it has sent: nothing before "recv"; in "recv" a committed status
means bytes or an empty first write; the running total is the bytes sent, so the
check of a chunk against the limit bounds the body. `FetchInv` and `HostInv`
carry what the lookup found to the time of the fetch, when another log may be
stored: they speak of the logs an invocation ever had, to which `LogInv` ties
the stored one. One connection per host needs that whoever is between the lookup
and the insertion holds the mutex, and that a request about to dial still finds
no connection. `HostInv` is needed because a connection outlives the request
that made it. Assumption: `FetchAssumption`.

`EventIngestProofs` also proves the two invariants of `ingest_retry`,
`AckedIsDurable` and `RestartedRetryIsExact`, for any number of calls,
messages and restarts and messages in any order, under the hypothesis
`RetryOnly` that its run sets too: only connections fail (any of them, at any
moment), and an invocation has one live stream at a time. (Without it they are false: a failed write is
acknowledged, and two live streams share a writer.) `RetryInv` says where a
live call's events are (`Kept`): in the registered writer, then in the writer
being closed, then in the file, always as its tail (`EventsKept`), and alone in
it when no other call of the invocation failed. It needs that a writer stays in
the map only when a call failed (`Leftover`), so that the retry after a restart
opens, and truncates, a file of its own; and that no writer failed or was
shared and no file was truncated under a writer (`StorageOK`), which `OneLive`
and the ownership proved above give. `OthersOK` shows once for all actions that
a call disturbs only its own invocation. Assumption added: `RowAssumption`.

`EventParserProofs` proves for any events, any length of stream and any order
`HighestPriorityWins` (`PriorityDecides`, whatever an event offers to a field),
`DurationFromLatestStart` (`DurationMeasured`), `TagsKept` (`TagsNeverLost`) and
`LowerTagsFirst` (`LowerSourceFirst`). The invariant adds the
field's priority: without it nothing says which later event the setters will
drop (`SetBy`: value and priority are those of the deciding event; `Unset`:
both are zero); and `StartInv`: startTime is the time of the last start so far,
nil before the first. `TagsInv` follows the calls of `setTags` one by one, within
an event too: the list has the tags of both sources and no others, the tags'
priority is that of the last call, and the list is sorted by source unless a
`LateRepeat` has happened, which no later call takes back. Assumptions:
`TimesAssumption`, `TagsAssumption` (a `TAGS` value that is not empty is a
sequence, items are a sequence, the entries of a map are finitely many).

`EventViewsProofs` proves the three invariants about the details page for every
stream of any events: `OutputsAllListed` (`DetailOutputsComplete`),
`ResendShowsListsTwice` (`DetailResendDoublesLists`) and `VerdictOfLastSummary`
(`DetailTestVerdictStands`). They say what loops compute, so each needs an
induction over data. The library states induction for an operator, which the
provers cannot instantiate; here a property is the set of the numbers that have
it, and `LoopInduction` follows from the least number outside it, which
well-foundedness of `<` gives. The `...Unfold` lemmas show once for every loop that
the recursive function exists and satisfies its equation.

* *Files.* `WalkInv` holds between two `visit` steps: the sets seen and the ids
  left include the ids asked for and what the sets seen refer to, nothing in them
  is unreachable, and each file was appended once for each place it has in a set
  seen. At the end no id is left, so the sets seen are closed, hence exactly the
  reachable ones. That an end is reached within `Steps` visits is a second
  induction: `Left`, the ids left plus the references of sets not yet seen, falls
  with every visit (a set that refers to itself is no exception). The counts are
  then added up over output groups and events as cardinalities of disjoint sets.
* *A stream stored twice.* The named sets are those of one stream (`SetsTwice`).
  In the second pass each target is an `Echo`: a field that events overwrite has
  the value it had at the end of the first pass, or the one it had at this point
  of it; a list is the list of the first pass followed by what it was at this
  point. At the end both are the end of the first pass.
* *Verdicts.* After a test's last summary no event about it is of an earlier
  stage, so nothing overwrites `Success` or `IsTest` (`Verdict`).

Assumption: `ListsAssumption` (repeated fields of an event are sequences).

`AuthSessionProofs` proves the four invariants of `auth` for any browsers,
logins, users, lifetimes and any order of requests and answers: `SessionsOwn`,
`ExpiryKept`, `SingleUse`, `RefusalsExplained`. The properties speak of a
cookie a browser sent and of what has happened to it on the way, so the
invariant follows a login's state cookie: one answer sets it, and has arrived
before the cookie is anywhere (`OneSetter`, `SetBefore`); the answer to a
callback takes it away for good, so a request sent later does not show it
(`Cleared`, `AfterInv`); once set it stays until another answer of the browser
takes it (`Kept`, `CameInv`). That a served session is in time needs where it came
from: a callback's answer set it, and expiry and issue are a lifetime apart
(`Issued`); it is in a jar only after that answer arrived (`JarBrought`), so a
request that shows it was sent after (`CallBrought`). Assumption: `AuthAssumption`.

`BlobCacheProofs` proves the five invariants of `cache` for any blobs, calls,
limit and faults (every full file counts 1): `TypeCorrect`, `CacheHolds`, `OneLeader`, `LimitKept`,
`WrittenFound`. Every action but the end of a flight is first summarised by what
it may do to files, remote blobs, flights and found results (`Outcome`). That
the limit is kept is the hardest: an eviction works on a list that other calls
make stale. `EvictInv` says that while the files exceed the limit and no cache
operation has failed, some call is still to list them, or is removing and the
rest of its list covers every full file; `SnapInv` bounds the bytes it believes
to remain, so it never stops too early. Assumption: `CacheAssumption`.

`InvocationListProofs` proves the three invariants of `invocation_list` for any
invocations, filters, page size and clock: `RowsDistinct`, `NothingElseSkipped`,
`ListOfFilter`. The table only grows and `created_at` is fixed (`Extends`); a
page is a prefix of an enumeration, newest first, of all rows it selects
(`PageIs`), so a short page has them all; a further page begins strictly below
the last row. `ListInv` holds of the list shown and of every list a request
under way will extend, since an answer may arrive long after the list it
continues was replaced. Assumption: `ListAssumption`.

Only model-checked: the liveness of `S3Writer` (`CloseReturnsUnlessAborted`) and
of `InvocationList` (`LoadingEnds`), since liveness under fairness is outside the
proof system's reach; and that the four violations happen. Every invariant of a
passing run is a theorem, and so is the refinement `KeepsBlobPromise`.

## 5. Plan

Everything within the proof system's reach that the runs check is proved. The
scroller and
animation loop of the terminal view are the one stateful part of the frontend
left; they hold no data of the system.

## 6. Not modelled

* Generated protocol buffers (most of the repository's lines): encoding only.
* `main.go`, `auth/config.go`, `auth/oidc.go`, bucket checks, `Migrate`: start-up.
* `giturl.go`, `validateReturnPath`, `junit_xml.ts`, ANSI parsing, the cookie
  cipher: functions on strings, out of reach without spelling strings out.
* `getInvocation`, `getRaw`, `PublishLifecycleEvent`: one read or a log line; the
  answers of `getLog` and `getDetails` when the events cannot be read or are not
  there; `getBlob` in a server without a remote cache (every request is 501).
* A row whose filtered columns a later `Upsert` replaces: in `InvocationList` a
  row matches the same filters for ever.
* The terminal's scrolling and layout, the details page's tabs: presentation.

Wall-clock time appears only where a property needs it (`AuthSession`,
`InvocationList`); in `EventIngest`, `created_at` and `updated_at` are the calls
that set them.
