----------------------------- MODULE BlobFetch -----------------------------
(***************************************************************************)
(* Serving a file of an invocation from the remote cache it was uploaded   *)
(* to: the handler getBlob (src/webui/webui.go) and the bytestream client  *)
(* (src/bytestream/bytestream.go) it streams the blob with.                *)
(*                                                                         *)
(* A member of Requests is one HTTP request.  A step is one call that can  *)
(* fail or wait: reading the events, the client's mutex, the lookup and    *)
(* the dialling under it, opening the stream, one Recv with the Write of   *)
(* its chunk.  A chunk is given by its size.                               *)
(***************************************************************************)
EXTENDS Naturals, FiniteSets

CONSTANTS
    Requests, Invocations, URIs,
    Nobody,            \* no request holds the mutex
    MissingURI,        \* a request without a uri
    Hosts,             \* remote caches
    HostOf,            \* ParseURI: the host of each bytestream:// URI
    EventLogs,         \* the sequences of events that may be stored
    NoLog,             \* nothing stored
    FileName(_, _),    \* webui.go fileForURI: the name reported with a URI in a log
    NotReported,       \* its answer for a URI the log does not report
    ChunkSizes,        \* sizes of the chunks a remote cache sends
    MaxChunks,         \* bound on the chunks of a blob
    MaxSizeBytes       \* 0: no limit

ASSUME FetchAssumption ==
    /\ DOMAIN HostOf \subseteq URIs /\ \A u \in DOMAIN HostOf : HostOf[u] \in Hosts
    /\ MissingURI \notin URIs /\ Nobody \notin Requests /\ NoLog \notin EventLogs
    /\ ChunkSizes \subseteq Nat /\ MaxChunks \in Nat /\ MaxSizeBytes \in Nat

VARIABLES
    req,    \* the locals of each request and what its client has been sent
    conns,  \* Client.conns, with the number of connections ever made to a host
    mu,     \* Client.mu: the request that holds it
    log,    \* the stored events of each invocation
    logged  \* history: all that was ever stored

vars == <<req, conns, mu, log, logged>>

(* Inside dial with the mutex, and anywhere in Stream.                     *)
Locked == {"lookup", "newclient"}

Streaming == {"dial", "open", "recv"} \cup Locked

(* status: 0 until net/http commits one.  bytes: of the blob, in the body. *)
(* text: an error message is in the body, behind them.  blank: the first   *)
(* Write passed on no byte.  eof: the blob was sent to its end.            *)
RequestState ==
    [pc: {"idle", "read", "done"} \cup Streaming, inv: Invocations, uri: URIs \cup {MissingURI},
     status: {0, 200, 400, 403, 404, 500, 502}, bytes: Nat, total: Nat, written: BOOLEAN,
     text: BOOLEAN, blank: BOOLEAN, eof: BOOLEAN, chunks: 0..MaxChunks]

TypeOK ==
    /\ req \in [Requests -> RequestState] /\ conns \in [Hosts -> Nat] /\ mu \in Requests \cup {Nobody}
    /\ log \in [Invocations -> EventLogs \cup {NoLog}] /\ logged \in [Invocations -> SUBSET EventLogs]

Init ==
    /\ \E inv \in Invocations :
          req = [r \in Requests |-> [pc |-> "idle", inv |-> inv, uri |-> MissingURI, status |-> 0, bytes |-> 0,
                    total |-> 0, written |-> FALSE, text |-> FALSE, blank |-> FALSE, eof |-> FALSE,
                    chunks |-> 0]]
    /\ conns = [h \in Hosts |-> 0] /\ mu = Nobody
    /\ log = [i \in Invocations |-> NoLog] /\ logged = [i \in Invocations |-> {}]

-----------------------------------------------------------------------------
(* An invocation's events are stored, or stored again by a retry.          *)
StoreLog(i, events) ==
    /\ log' = [log EXCEPT ![i] = events]
    /\ logged' = [logged EXCEPT ![i] = @ \cup {events}]
    /\ UNCHANGED <<req, conns, mu>>

(* http.Error sets the status unless one is committed, and always writes   *)
(* its message.                                                            *)
HttpError(q, code) ==
    [q EXCEPT !.pc = "done", !.status = IF q.status = 0 THEN code ELSE q.status, !.text = TRUE]

(* Sends the message whether or not bytes have gone out (mutation).        *)
StreamFailedStitch(q) == HttpError(q, 502)

(* Stream returned an error: the handler returns, with an error message if *)
(* nothing was written.                                                    *)
StreamFailed(q) == IF q.written THEN [q EXCEPT !.pc = "done"] ELSE HttpError(q, 502)

Begin(r, i, u) ==
    /\ req[r].pc = "idle"
    /\ LET q == [req[r] EXCEPT !.inv = i, !.uri = u, !.pc = "read"]
       IN  req' = [req EXCEPT ![r] = IF u = MissingURI THEN HttpError(q, 400) ELSE q]
    /\ UNCHANGED <<conns, mu, log, logged>>

(* Looks the URI up in what any invocation reported (mutation).            *)
ReportedAnywhere(q) == \E i \in Invocations : log[i] # NoLog /\ FileName(log[i], q.uri) # NotReported

Reported(q) == FileName(log[q.inv], q.uri) # NotReported

ReadEvents(r) ==
    /\ req[r].pc = "read"
    /\ req' = [req EXCEPT ![r] =
                  IF log[@.inv] = NoLog THEN HttpError(@, 404)
                  ELSE IF ~Reported(@) THEN HttpError(@, 403)
                  ELSE [@ EXCEPT !.pc = "dial"]]
    /\ UNCHANGED <<conns, mu, log, logged>>

ReadFails(r) ==
    /\ req[r].pc = "read" /\ log[req[r].inv] # NoLog
    /\ req' = [req EXCEPT ![r] = HttpError(@, 500)]
    /\ UNCHANGED <<conns, mu, log, logged>>

-----------------------------------------------------------------------------
(* Stream.                                                                 *)

ParseURIFails(r) ==
    /\ req[r].pc = "dial" /\ req[r].uri \notin DOMAIN HostOf
    /\ req' = [req EXCEPT ![r] = StreamFailed(@)]
    /\ UNCHANGED <<conns, mu, log, logged>>

Host(r) == HostOf[req[r].uri]

(* The mutex is not taken (mutation).                                      *)
LockSkipped(r) ==
    /\ req[r].pc = "dial" /\ req[r].uri \in DOMAIN HostOf
    /\ req' = [req EXCEPT ![r].pc = "lookup"]
    /\ UNCHANGED <<conns, mu, log, logged>>

(* dial: c.mu.Lock().                                                      *)
Lock(r) ==
    /\ req[r].pc = "dial" /\ req[r].uri \in DOMAIN HostOf
    /\ mu = Nobody
    /\ mu' = r
    /\ req' = [req EXCEPT ![r].pc = "lookup"]
    /\ UNCHANGED <<conns, log, logged>>

Reuse(r) ==
    /\ req[r].pc = "lookup" /\ conns[Host(r)] > 0
    /\ mu' = Nobody
    /\ req' = [req EXCEPT ![r].pc = "open"]
    /\ UNCHANGED <<conns, log, logged>>

Miss(r) ==
    /\ req[r].pc = "lookup" /\ conns[Host(r)] = 0
    /\ req' = [req EXCEPT ![r].pc = "newclient"]
    /\ UNCHANGED <<conns, mu, log, logged>>

(* grpc.NewClient makes a connection and it is put in conns, over any that *)
(* is there.                                                               *)
NewClient(r) ==
    /\ req[r].pc = "newclient"
    /\ conns' = [conns EXCEPT ![Host(r)] = @ + 1]
    /\ mu' = Nobody
    /\ req' = [req EXCEPT ![r].pc = "open"]
    /\ UNCHANGED <<log, logged>>

(* Or it fails, for a target it cannot parse; the Unlock is deferred.      *)
NewClientFails(r) ==
    /\ req[r].pc = "newclient"
    /\ mu' = Nobody
    /\ req' = [req EXCEPT ![r] = StreamFailed(@)]
    /\ UNCHANGED <<conns, log, logged>>

Open(r) ==
    /\ req[r].pc = "open"
    /\ \/ req' = [req EXCEPT ![r].pc = "recv"]
       \/ req' = [req EXCEPT ![r] = StreamFailed(@)]
    /\ UNCHANGED <<conns, mu, log, logged>>

(* Compares what was received before this chunk (mutation).                *)
TooLargeLate(q, n) == MaxSizeBytes > 0 /\ q.total > MaxSizeBytes

TooLarge(q, n) == MaxSizeBytes > 0 /\ q.total + n > MaxSizeBytes

(* The first Write, an empty one included, commits status 200.  The        *)
(* trackingWriter notes only that bytes have been written.                 *)
Written(q, n) ==
    [q EXCEPT !.status = 200, !.bytes = @ + n, !.total = @ + n, !.written = @ \/ n > 0,
              !.blank = @ \/ (n = 0 /\ ~q.written), !.chunks = @ + 1]

(* A chunk arrives and is written to the client.                           *)
RecvChunk(r, n) ==
    /\ req[r].pc = "recv" /\ req[r].chunks < MaxChunks
    /\ req' = [req EXCEPT ![r] = IF TooLarge(@, n) THEN StreamFailed(@) ELSE Written(@, n)]
    /\ UNCHANGED <<conns, mu, log, logged>>

(* The client's connection is broken: Write returns an error after the     *)
(* first k bytes of a chunk.                                               *)
WriteFails(r, n, k) ==
    /\ req[r].pc = "recv" /\ req[r].chunks < MaxChunks /\ ~TooLarge(req[r], n) /\ k <= n
    /\ req' = [req EXCEPT ![r] = StreamFailed(Written(@, k))]
    /\ UNCHANGED <<conns, mu, log, logged>>

(* The blob's end.  net/http commits 200 when the handler wrote nothing.   *)
RecvEOF(r) ==
    /\ req[r].pc = "recv"
    /\ req' = [req EXCEPT ![r].pc = "done", ![r].status = 200, ![r].eof = TRUE]
    /\ UNCHANGED <<conns, mu, log, logged>>

(* The remote cache fails, or the client went away and its request's       *)
(* context was cancelled.                                                  *)
RecvFails(r) ==
    /\ req[r].pc = "recv"
    /\ req' = [req EXCEPT ![r] = StreamFailed(@)]
    /\ UNCHANGED <<conns, mu, log, logged>>

Stream(r) ==
    \/ ParseURIFails(r) \/ Open(r)
    \/ Lock(r) \/ Reuse(r) \/ Miss(r) \/ NewClient(r) \/ NewClientFails(r)
    \/ \E n \in ChunkSizes : RecvChunk(r, n) \/ \E k \in 0..n : WriteFails(r, n, k)
    \/ RecvEOF(r) \/ RecvFails(r)

Next ==
    \/ \E i \in Invocations, events \in EventLogs : StoreLog(i, events)
    \/ \E r \in Requests :
          \/ \E i \in Invocations, u \in URIs \cup {MissingURI} : Begin(r, i, u)
          \/ ReadEvents(r) \/ ReadFails(r) \/ Stream(r)

Spec == Init /\ [][Next]_vars

-----------------------------------------------------------------------------
(* An error message never follows bytes of the file in a body, and stands  *)
(* under an error status; the one exception is a blob whose first chunk    *)
(* was empty, where it is all there is under a 200.  A response that is    *)
(* over without the whole file has either such a message or some bytes     *)
(* (webui.go:386-403, trackingWriter at 408-419).                          *)
ErrorNeverStitched ==
    \A r \in Requests :
        /\ req[r].text => req[r].bytes = 0 /\ (req[r].status >= 400 \/ req[r].blank)
        /\ req[r].pc = "done" /\ ~req[r].eof /\ ~req[r].text => req[r].bytes > 0 /\ req[r].status = 200

(* No more than MaxSizeBytes of a blob are passed on, whatever the chunks  *)
(* (bytestream.go:113-129).                                                *)
WithinMaxSize == MaxSizeBytes > 0 => \A r \in Requests : req[r].bytes <= MaxSizeBytes

(* A connection is made only to a host some invocation reported a file of, *)
(* and a file is fetched only for a request to an invocation that reported *)
(* it, whatever is stored anew in between (webui.go:354-356, 378-382).     *)
OnlyReported ==
    /\ \A h \in Hosts : conns[h] > 0 =>
          \E i \in Invocations, u \in DOMAIN HostOf :
              HostOf[u] = h /\ \E events \in logged[i] : FileName(events, u) # NotReported
    /\ \A r \in Requests : req[r].pc \in Streaming \/ req[r].bytes > 0 =>
          \E events \in logged[req[r].inv] : FileName(events, req[r].uri) # NotReported

(* Concurrent requests that look a host up, miss it and dial it make one   *)
(* connection between them, never a second that replaces the first and is  *)
(* never closed; and the mutex is held only by a request inside dial: one  *)
(* whose dialling failed does not keep the others out                      *)
(* (bytestream.go:133-156).                                                *)
OneConnPerHost ==
    /\ \A h \in Hosts : conns[h] <= 1
    /\ mu # Nobody => req[mu].pc \in Locked
=============================================================================
