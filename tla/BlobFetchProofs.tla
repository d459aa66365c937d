-------------------------- MODULE BlobFetchProofs --------------------------
(***************************************************************************)
(* The four invariants of BlobFetch for any number of requests, hosts and  *)
(* invocations, any chunk sizes and any limit.  FileName is any operator:  *)
(* nothing depends on how a URI is looked up.                              *)
(***************************************************************************)
EXTENDS BlobFetch, TLAPS

(* What the body of a response and the locals of its handler have to do    *)
(* with one another.  Before "recv" nothing has been sent; in "recv" a     *)
(* committed status means bytes or an empty first Write.                   *)
Body(q) ==
    /\ q.total = q.bytes /\ (q.written <=> q.bytes > 0)
    /\ MaxSizeBytes > 0 => q.bytes <= MaxSizeBytes
    /\ q.pc # "done" => ~q.text /\ ~q.eof
    /\ q.pc \notin {"recv", "done"} => q.bytes = 0 /\ q.status = 0
    /\ q.pc = "recv" => /\ q.status \in {0, 200}
                        /\ q.status = 200 => q.bytes > 0 \/ q.blank
                        /\ q.bytes > 0 => q.status = 200
    /\ q.text => q.bytes = 0 /\ (q.status >= 400 \/ q.blank)
    /\ q.pc = "done" /\ ~q.eof /\ ~q.text => q.bytes > 0 /\ q.status = 200

BodyInv == \A r \in Requests : Body(req[r])

LogInv == \A i \in Invocations : log[i] # NoLog => log[i] \in logged[i]

(* Some log of i reported u.                                               *)
EverReported(i, u) == \E events \in logged[i] : FileName(events, u) # NotReported

HostInv == \A h \in Hosts : conns[h] > 0 =>
    \E i \in Invocations, u \in DOMAIN HostOf : HostOf[u] = h /\ EverReported(i, u)

FetchInv == \A r \in Requests : req[r].pc \in Streaming \/ req[r].bytes > 0 =>
    EverReported(req[r].inv, req[r].uri)

(* The mutex has at most one holder, the request that is between Lock and  *)
(* Unlock; a holder that missed finds the map as it was when it looked.    *)
MutexInv ==
    /\ \A r \in Requests : req[r].pc \in Locked <=> mu = r
    /\ \A r \in Requests : req[r].pc \in Locked => req[r].uri \in DOMAIN HostOf
    /\ \A r \in Requests : req[r].pc = "newclient" => conns[Host(r)] = 0

OneConn == \A h \in Hosts : conns[h] <= 1

IndInv == TypeOK /\ BodyInv /\ LogInv /\ HostInv /\ FetchInv /\ MutexInv /\ OneConn

-----------------------------------------------------------------------------
PCs == {"idle", "read", "done"} \cup Streaming

Codes == {0, 200, 400, 403, 404, 500, 502}

Flags == BOOLEAN

Counts == 0..MaxChunks

(* Constants of the types of fields.                                       *)
LEMMA Constants ==
    "read" \in PCs /\ "dial" \in PCs /\ "open" \in PCs /\ "recv" \in PCs /\ "done" \in PCs /\ 200 \in Codes /\ TRUE \in BOOLEAN
  BY DEF PCs, Codes, Streaming

(* Assigning a field a value of its type.                                  *)
LEMMA PcField ==
    ASSUME NEW q \in RequestState, NEW v \in PCs
    PROVE  [q EXCEPT !.pc = v] \in RequestState
  BY DEF RequestState, PCs

LEMMA StatusField ==
    ASSUME NEW q \in RequestState, NEW v \in Codes
    PROVE  [q EXCEPT !.status = v] \in RequestState
  BY DEF RequestState, Codes

LEMMA TextField ==
    ASSUME NEW q \in RequestState, NEW v \in BOOLEAN PROVE [q EXCEPT !.text = v] \in RequestState
  BY DEF RequestState

LEMMA EofField ==
    ASSUME NEW q \in RequestState, NEW v \in BOOLEAN PROVE [q EXCEPT !.eof = v] \in RequestState
  BY DEF RequestState

LEMMA WrittenField ==
    ASSUME NEW q \in RequestState, NEW v \in Flags PROVE [q EXCEPT !.written = v] \in RequestState
  BY DEF RequestState, Flags

LEMMA BlankField ==
    ASSUME NEW q \in RequestState, NEW v \in Flags PROVE [q EXCEPT !.blank = v] \in RequestState
  BY DEF RequestState, Flags

LEMMA BytesField ==
    ASSUME NEW q \in RequestState, NEW v \in Nat PROVE [q EXCEPT !.bytes = v] \in RequestState
  BY DEF RequestState

LEMMA TotalField ==
    ASSUME NEW q \in RequestState, NEW v \in Nat PROVE [q EXCEPT !.total = v] \in RequestState
  BY DEF RequestState

LEMMA InvField ==
    ASSUME NEW q \in RequestState, NEW v \in Invocations PROVE [q EXCEPT !.inv = v] \in RequestState
  BY DEF RequestState

LEMMA UriField ==
    ASSUME NEW q \in RequestState, NEW v \in URIs \cup {MissingURI} PROVE [q EXCEPT !.uri = v] \in RequestState
  BY DEF RequestState

LEMMA ChunksField ==
    ASSUME NEW q \in RequestState, NEW v \in Counts PROVE [q EXCEPT !.chunks = v] \in RequestState
  BY DEF RequestState, Counts

(* http.Error keeps the type of a request.                                 *)
LEMMA ErrorTyped ==
    ASSUME NEW q \in RequestState, NEW c \in Codes
    PROVE  [q EXCEPT !.pc = "done", !.status = c, !.text = TRUE] \in RequestState
  <1>1. [q EXCEPT !.pc = "done"] \in RequestState
    BY PcField, Constants, Zenon
  <1>2. [q EXCEPT !.pc = "done", !.status = c] \in RequestState
    BY <1>1, StatusField, Zenon
  <1> QED BY <1>2, Constants, TextField, Zenon

(* Also when a status has been sent before: it stays.                      *)
LEMMA HttpErrorTyped ==
    ASSUME NEW q \in RequestState, NEW code \in Codes
    PROVE  HttpError(q, code) \in RequestState
  <1>1. q.status \in Codes
    BY DEF RequestState, Codes
  <1>2. CASE q.status = 0
    <2>1. HttpError(q, code) = [q EXCEPT !.pc = "done", !.status = code, !.text = TRUE]
      BY <1>2, Zenon DEF HttpError
    <2> QED BY <2>1, ErrorTyped, Zenon
  <1>3. CASE q.status # 0
    <2>1. HttpError(q, code) = [q EXCEPT !.pc = "done", !.status = q.status, !.text = TRUE]
      BY <1>3, Zenon DEF HttpError
    <2> QED BY <1>1, <2>1, ErrorTyped, Zenon
  <1> QED BY <1>2, <1>3

(* Written keeps the type of a request when its new fields are typed.      *)
LEMMA WriteTyped ==
    ASSUME NEW q \in RequestState, NEW n, NEW w \in Flags, NEW b \in Flags,
           q.bytes + n \in Nat, q.total + n \in Nat, q.chunks + 1 \in Counts
    PROVE  [q EXCEPT !.status = 200, !.bytes = q.bytes + n, !.total = q.total + n, !.written = w,
                     !.blank = b, !.chunks = q.chunks + 1] \in RequestState
  <1>1. [q EXCEPT !.status = 200] \in RequestState
    BY StatusField, Constants, Zenon
  <1>2. [q EXCEPT !.status = 200, !.bytes = q.bytes + n] \in RequestState
    BY <1>1, BytesField, Zenon
  <1>3. [q EXCEPT !.status = 200, !.bytes = q.bytes + n, !.total = q.total + n] \in RequestState
    BY <1>2, TotalField, Zenon
  <1>4. [q EXCEPT !.status = 200, !.bytes = q.bytes + n, !.total = q.total + n, !.written = w] \in RequestState
    BY <1>3, WrittenField, Zenon
  <1>5. [q EXCEPT !.status = 200, !.bytes = q.bytes + n, !.total = q.total + n, !.written = w, !.blank = b]
        \in RequestState
    BY <1>4, BlankField, Zenon
  <1> QED BY <1>5, ChunksField, Zenon

(* http.Error keeps Body when no byte of the file has gone out.            *)
LEMMA ErrorKeepsBody ==
    ASSUME NEW q \in RequestState, Body(q), q.pc # "done", ~q.written, NEW code \in {400, 403, 404, 500, 502}
    PROVE  HttpError(q, code) \in RequestState /\ Body(HttpError(q, code))
  <1> DEFINE p == HttpError(q, code)
  <1>a. code \in Codes
    BY DEF Codes
  <1>1. p \in RequestState
    BY <1>a, HttpErrorTyped
  <1>2. /\ p.pc = "done" /\ p.text = TRUE /\ p.bytes = q.bytes /\ p.total = q.total /\ p.written = q.written
        /\ p.blank = q.blank /\ p.eof = q.eof
    BY DEF RequestState, HttpError
  <1>3. p.status = IF q.status = 0 THEN code ELSE q.status
    BY DEF RequestState, HttpError
  <1>4. q.bytes = 0
    BY DEF Body, RequestState
  <1>5. p.status >= 400 \/ p.blank
    BY <1>2, <1>3, <1>4 DEF Body, RequestState
  <1> HIDE DEF p
  <1>6. Body(p)
    BY <1>1, <1>2, <1>4, <1>5, FetchAssumption DEF Body
  <1> QED BY <1>1, <1>6 DEF p

(* So does the handler when Stream fails.                                  *)
LEMMA FailureKeepsBody ==
    ASSUME NEW q \in RequestState, Body(q), q.pc # "done"
    PROVE  /\ StreamFailed(q) \in RequestState /\ Body(StreamFailed(q))
           /\ StreamFailed(q).pc = "done" /\ StreamFailed(q).bytes = q.bytes
           /\ StreamFailed(q).inv = q.inv /\ StreamFailed(q).uri = q.uri
  <1>1. CASE q.written
    BY <1>1, FetchAssumption DEF RequestState, Body, StreamFailed
  <1>2. CASE ~q.written
    <2>1. StreamFailed(q) = HttpError(q, 502)
      BY <1>2 DEF StreamFailed
    <2>2. HttpError(q, 502) \in RequestState /\ Body(HttpError(q, 502))
      BY <1>2, ErrorKeepsBody
    <2>3. /\ HttpError(q, 502).pc = "done" /\ HttpError(q, 502).bytes = q.bytes
          /\ HttpError(q, 502).inv = q.inv /\ HttpError(q, 502).uri = q.uri
      BY DEF HttpError, RequestState
    <2> QED BY <2>1, <2>2, <2>3
  <1> QED BY <1>1, <1>2

(* A chunk that fits is written.                                           *)
LEMMA WriteKeepsBody ==
    ASSUME NEW q \in RequestState, Body(q), q.pc = "recv", q.chunks < MaxChunks, NEW n \in Nat,
           MaxSizeBytes > 0 => q.total + n <= MaxSizeBytes
    PROVE  /\ Written(q, n) \in RequestState /\ Body(Written(q, n)) /\ Written(q, n).pc = "recv"
           /\ Written(q, n).inv = q.inv /\ Written(q, n).uri = q.uri
  <1> DEFINE p == Written(q, n)
  <1>1. /\ q.bytes \in Nat /\ q.total \in Nat /\ q.written \in BOOLEAN /\ q.blank \in BOOLEAN
        /\ q.chunks \in 0..MaxChunks
    BY DEF RequestState
  <1>2. /\ q.bytes + n \in Nat /\ q.total + n \in Nat /\ (q.written \/ n > 0) \in Flags
        /\ (q.blank \/ (n = 0 /\ ~q.written)) \in Flags /\ q.chunks + 1 \in Counts
    BY <1>1, FetchAssumption DEF Flags, Counts
  <1>3. p \in RequestState
    <2> DEFINE w == q.written \/ n > 0
               b == q.blank \/ (n = 0 /\ ~q.written)
    <2>1. p = [q EXCEPT !.status = 200, !.bytes = q.bytes + n, !.total = q.total + n, !.written = w,
                        !.blank = b, !.chunks = q.chunks + 1]
      BY Zenon DEF Written
    <2>2. w \in Flags /\ b \in Flags
      BY <1>2
    <2> HIDE DEF w, b
    <2>3. [q EXCEPT !.status = 200, !.bytes = q.bytes + n, !.total = q.total + n, !.written = w,
                    !.blank = b, !.chunks = q.chunks + 1] \in RequestState
      BY <1>2, <2>2, WriteTyped, Zenon
    <2> QED BY <2>1, <2>3, Zenon
  <1>4. /\ p.pc = "recv" /\ p.inv = q.inv /\ p.uri = q.uri /\ p.text = q.text /\ p.eof = q.eof
        /\ p.status = 200 /\ p.bytes = q.bytes + n /\ p.total = q.total + n
    BY DEF RequestState, Written
  <1>5. p.written <=> q.written \/ n > 0
    BY DEF RequestState, Written
  <1>6. p.blank <=> q.blank \/ (n = 0 /\ ~q.written)
    BY DEF RequestState, Written
  <1> HIDE DEF p
  <1>7. ~q.text /\ ~q.eof /\ q.total = q.bytes /\ (q.written <=> q.bytes > 0)
    BY DEF Body
  <1>8. Body(p)
    BY <1>1, <1>4, <1>5, <1>6, <1>7, FetchAssumption DEF Body
  <1> QED BY <1>3, <1>4, <1>8 DEF p

-----------------------------------------------------------------------------
(* No request has begun: nothing is sent, dialled or logged.               *)
LEMMA InitInv == Init => IndInv
  <1> SUFFICES ASSUME Init PROVE IndInv
    OBVIOUS
  <1>1. PICK inv \in Invocations :
          req = [r \in Requests |-> [pc |-> "idle", inv |-> inv, uri |-> MissingURI, status |-> 0, bytes |-> 0,
                    total |-> 0, written |-> FALSE, text |-> FALSE, blank |-> FALSE, eof |-> FALSE,
                    chunks |-> 0]]
    BY DEF Init
  <1>2. \A r \in Requests : req[r] \in RequestState /\ Body(req[r]) /\ req[r].pc = "idle" /\ req[r].bytes = 0
    BY <1>1, FetchAssumption DEF RequestState, Body
  <1>3. TypeOK
    BY <1>1, <1>2 DEF TypeOK, Init
  <1>4. BodyInv /\ FetchInv
    BY <1>2 DEF BodyInv, FetchInv, Streaming, Locked
  <1>5. LogInv /\ HostInv /\ OneConn
    BY DEF Init, LogInv, HostInv, OneConn
  <1>6. MutexInv
    BY <1>2, FetchAssumption DEF Init, MutexInv, Locked
  <1> QED BY <1>3, <1>4, <1>5, <1>6 DEF IndInv

(* A step that changes one request and, if at all, the mutex.              *)
LEMMA RequestStep ==
    ASSUME IndInv, NEW r \in Requests, NEW q \in RequestState, req' = [req EXCEPT ![r] = q],
           UNCHANGED <<conns, log, logged>>, Body(q), mu' \in Requests \cup {Nobody},
           q.pc \in Streaming \/ q.bytes > 0 => EverReported(q.inv, q.uri), MutexInv'
    PROVE  IndInv'
  <1> USE DEF IndInv
  <1>1. req \in [Requests -> RequestState]
    BY DEF TypeOK
  <1>2. \A s \in Requests : req'[s] = IF s = r THEN q ELSE req[s]
    BY <1>1
  <1>3. TypeOK'
    BY <1>1 DEF TypeOK
  <1>4. BodyInv'
    BY <1>2 DEF BodyInv
  <1>5. \A i, u : EverReported(i, u)' <=> EverReported(i, u)
    BY DEF EverReported
  <1>6. FetchInv'
    BY <1>2, <1>5 DEF FetchInv
  <1>7. LogInv' /\ OneConn'
    BY DEF LogInv, OneConn
  <1>8. HostInv'
    BY <1>5 DEF HostInv
  <1> QED BY <1>3, <1>4, <1>6, <1>7, <1>8

(* A step that changes one request, outside the mutex, and none of the     *)
(* shared state.                                                           *)
LEMMA OneRequest ==
    ASSUME IndInv, NEW r \in Requests, NEW q \in RequestState, req' = [req EXCEPT ![r] = q],
           UNCHANGED <<conns, mu, log, logged>>, Body(q), req[r].pc \notin Locked, q.pc \notin Locked,
           q.pc \in Streaming \/ q.bytes > 0 => EverReported(q.inv, q.uri)
    PROVE  IndInv'
  <1>1. \A s \in Requests : req'[s] = IF s = r THEN q ELSE req[s]
    BY DEF IndInv, TypeOK
  <1>2. \A s \in Requests : req'[s].pc \in Locked => s # r /\ req'[s] = req[s]
    BY <1>1
  <1>3. "newclient" \in Locked
    BY DEF Locked
  <1>4. MutexInv'
    BY <1>1, <1>2, <1>3 DEF IndInv, MutexInv, Host
  <1> QED BY <1>4, RequestStep DEF IndInv, TypeOK

(* Which points of a request hold the mutex and which are in Stream.       *)
LEMMA Unlocked ==
    /\ \A pc \in {"idle", "read", "dial", "open", "recv", "done"} : pc \notin Locked
    /\ \A pc \in {"idle", "read", "done"} : pc \notin Streaming
    /\ \A pc \in {"dial", "open", "recv"} : pc \in Streaming
    /\ \A pc \in Locked : pc \in Streaming /\ pc \in {"lookup", "newclient"}
  BY DEF Locked, Streaming

(* A log that is stored adds to what an invocation has reported.           *)
LEMMA StoreLogInv ==
    ASSUME IndInv, NEW i \in Invocations, NEW events \in EventLogs, StoreLog(i, events)
    PROVE  IndInv'
  <1> USE DEF IndInv
  <1>1. \A j \in Invocations : logged[j] \subseteq logged'[j]
    BY DEF StoreLog, TypeOK
  <1>2. TypeOK' /\ LogInv' /\ BodyInv' /\ OneConn' /\ MutexInv'
    BY DEF StoreLog, TypeOK, LogInv, BodyInv, OneConn, MutexInv, Host
  <1>3. \A j \in Invocations : \A u : EverReported(j, u) => EverReported(j, u)'
    BY <1>1 DEF EverReported
  <1>4. HostInv'
    BY <1>3 DEF HostInv, StoreLog
  <1>5. \A r \in Requests : req[r].inv \in Invocations
    BY DEF TypeOK, RequestState
  <1>6. FetchInv'
    BY <1>3, <1>5 DEF FetchInv, StoreLog
  <1> QED BY <1>2, <1>4, <1>6

(* A request begins, or is refused for want of a uri.                      *)
LEMMA BeginInv ==
    ASSUME IndInv, NEW r \in Requests, NEW i \in Invocations, NEW u \in URIs \cup {MissingURI}, Begin(r, i, u)
    PROVE  IndInv'
  <1> DEFINE q == [req[r] EXCEPT !.inv = i, !.uri = u, !.pc = "read"]
  <1>1. req[r] \in RequestState /\ Body(req[r]) /\ req[r].pc = "idle"
    BY DEF IndInv, TypeOK, BodyInv, Begin
  <1>2. q \in RequestState
    <2>1. [req[r] EXCEPT !.inv = i] \in RequestState
      BY <1>1, InvField, Zenon
    <2>2. [req[r] EXCEPT !.inv = i, !.uri = u] \in RequestState
      BY <2>1, UriField, Zenon
    <2> QED BY <2>2, PcField, Constants, Zenon
  <1>a. /\ q.pc = "read" /\ q.status = req[r].status /\ q.bytes = req[r].bytes /\ q.total = req[r].total
        /\ q.written = req[r].written /\ q.text = req[r].text /\ q.blank = req[r].blank /\ q.eof = req[r].eof
    BY <1>1 DEF RequestState
  <1> HIDE DEF q
  <1>b. Body(q) /\ q.bytes = 0 /\ ~q.written
    BY <1>1, <1>a, FetchAssumption DEF Body
  <1>3. CASE u = MissingURI
    <2>1. HttpError(q, 400) \in RequestState /\ Body(HttpError(q, 400))
      BY <1>2, <1>a, <1>b, ErrorKeepsBody
    <2>2. HttpError(q, 400).pc = "done" /\ HttpError(q, 400).bytes = 0
      BY <1>2, <1>b DEF HttpError, RequestState
    <2>a. ~(HttpError(q, 400).pc \in Streaming \/ HttpError(q, 400).bytes > 0)
      BY <2>2, Unlocked
    <2>3. req' = [req EXCEPT ![r] = HttpError(q, 400)] /\ UNCHANGED <<conns, mu, log, logged>>
      BY <1>3 DEF Begin, q
    <2>4. req[r].pc \notin Locked /\ HttpError(q, 400).pc \notin Locked
      BY <1>1, <2>2, Unlocked
    <2> QED BY <2>1, <2>a, <2>3, <2>4, OneRequest
  <1>4. CASE u # MissingURI
    <2>1. req' = [req EXCEPT ![r] = q] /\ UNCHANGED <<conns, mu, log, logged>>
      BY <1>4 DEF Begin, q
    <2>2. ~(q.pc \in Streaming \/ q.bytes > 0)
      BY <1>a, <1>b, Unlocked
    <2>3. req[r].pc \notin Locked /\ q.pc \notin Locked
      BY <1>1, <1>a, Unlocked
    <2> QED BY <2>1, <2>2, <2>3, <1>2, <1>b, OneRequest
  <1> QED BY <1>3, <1>4

(* The event log is read and the uri looked up in it.                      *)
LEMMA ReadInv ==
    ASSUME IndInv, NEW r \in Requests, ReadEvents(r) \/ ReadFails(r)
    PROVE  IndInv'
  <1> DEFINE q == req[r]
  <1>1. q \in RequestState /\ Body(q) /\ q.pc = "read" /\ UNCHANGED <<conns, mu, log, logged>>
    BY DEF IndInv, TypeOK, BodyInv, ReadEvents, ReadFails
  <1>2. ~q.written /\ q.bytes = 0
    BY <1>1 DEF Body, RequestState
  <1>3. ASSUME NEW code \in {403, 404, 500}, req' = [req EXCEPT ![r] = HttpError(q, code)] PROVE IndInv'
    <2>1. HttpError(q, code) \in RequestState /\ Body(HttpError(q, code))
      BY <1>1, <1>2, ErrorKeepsBody
    <2>2. HttpError(q, code).pc = "done" /\ HttpError(q, code).bytes = 0
      BY <1>1, <1>2 DEF HttpError, RequestState
    <2>3. ~(HttpError(q, code).pc \in Streaming \/ HttpError(q, code).bytes > 0)
      BY <2>2, Unlocked
    <2> DEFINE p == HttpError(q, code)
    <2>4. req' = [req EXCEPT ![r] = p]
      BY <1>3
    <2> HIDE DEF q, p
    <2>5. /\ p \in RequestState /\ Body(p)
          /\ p.pc \in Streaming \/ p.bytes > 0 => EverReported(p.inv, p.uri)
      BY <2>1, <2>3 DEF p
    <2>6. UNCHANGED <<conns, mu, log, logged>>
      BY <1>1
    <2>7. req[r].pc \notin Locked /\ p.pc \notin Locked
      BY <1>1, <2>2, Unlocked DEF p, q
    <2> QED BY <2>4, <2>5, <2>6, <2>7, OneRequest, Zenon
  <1>4. ASSUME log[q.inv] # NoLog, Reported(q), req' = [req EXCEPT ![r] = [q EXCEPT !.pc = "dial"]] PROVE IndInv'
    <2>1. q.inv \in Invocations
      BY <1>1 DEF RequestState
    <2>2. EverReported(q.inv, q.uri)
      BY <1>4, <2>1 DEF IndInv, LogInv, Reported, EverReported
    <2> DEFINE p == [q EXCEPT !.pc = "dial"]
    <2>3. p \in RequestState /\ Body(p) /\ p.inv = q.inv /\ p.uri = q.uri
      <3>1. "dial" \in PCs
        BY Constants
      <3>2. p \in RequestState
        BY <1>1, <3>1, PcField, Zenon
      <3> QED BY <1>1, <1>2, <3>2 DEF RequestState, Body
    <2>4. req' = [req EXCEPT ![r] = p]
      BY <1>4
    <2>5. req[r].pc \notin Locked /\ p.pc \notin Locked
      BY <1>1, Unlocked DEF RequestState
    <2> HIDE DEF p, q
    <2> QED BY <1>1, <2>2, <2>3, <2>4, <2>5, OneRequest
  <1>5. CASE ReadFails(r)
    BY <1>5, <1>3 DEF ReadFails
  <1>6. CASE ReadEvents(r)
    <2>1. CASE log[q.inv] = NoLog
      BY <1>6, <2>1, <1>3 DEF ReadEvents
    <2>2. CASE log[q.inv] # NoLog /\ ~Reported(q)
      BY <1>6, <2>2, <1>3 DEF ReadEvents
    <2>3. CASE log[q.inv] # NoLog /\ Reported(q)
      BY <1>6, <2>3, <1>4 DEF ReadEvents
    <2> QED BY <2>1, <2>2, <2>3
  <1> QED BY <1>5, <1>6

(* What the request is after a failure in Stream.                          *)
LEMMA FailedRequest ==
    ASSUME IndInv, NEW r \in Requests, req[r].pc \in Streaming
    PROVE  LET q == StreamFailed(req[r]) IN
           /\ q \in RequestState /\ Body(q) /\ q.pc = "done" /\ q.uri = req[r].uri
           /\ EverReported(q.inv, q.uri)
  <1>1. req[r] \in RequestState /\ Body(req[r]) /\ req[r].pc # "done"
    BY Unlocked DEF IndInv, TypeOK, BodyInv
  <1>2. EverReported(req[r].inv, req[r].uri)
    BY DEF IndInv, FetchInv
  <1> QED BY <1>1, <1>2, FailureKeepsBody

(* Every way Stream can fail outside the mutex ends the request alike.     *)
LEMMA FailInv ==
    ASSUME IndInv, NEW r \in Requests, req[r].pc \in {"dial", "open", "recv"},
           req' = [req EXCEPT ![r] = StreamFailed(req[r])], UNCHANGED <<conns, mu, log, logged>>
    PROVE  IndInv'
  <1> DEFINE q == StreamFailed(req[r])
  <1>1. q \in RequestState /\ Body(q) /\ q.pc = "done" /\ EverReported(q.inv, q.uri)
    BY FailedRequest, Unlocked
  <1>2. req' = [req EXCEPT ![r] = q]
    OBVIOUS
  <1> HIDE DEF q
  <1> QED BY <1>1, <1>2, Unlocked, OneRequest

(* What a request in Stream is when only its place changes.                *)
LEMMA MovedRequest ==
    ASSUME IndInv, NEW r \in Requests, req[r].pc \in {"dial", "lookup", "newclient"},
           NEW pc \in {"lookup", "newclient", "open"}
    PROVE  LET q == [req[r] EXCEPT !.pc = pc] IN
           /\ q \in RequestState /\ Body(q) /\ q.pc = pc /\ q.uri = req[r].uri /\ q.inv = req[r].inv
           /\ EverReported(req[r].inv, req[r].uri)
  <1>1. req[r] \in RequestState /\ Body(req[r])
    BY DEF IndInv, TypeOK, BodyInv
  <1>2. pc \in PCs
    BY DEF PCs, Streaming, Locked
  <1>3. [req[r] EXCEPT !.pc = pc] \in RequestState
    BY <1>1, <1>2, PcField, Zenon
  <1>4. EverReported(req[r].inv, req[r].uri)
    BY DEF IndInv, FetchInv, Streaming, Locked
  <1> QED BY <1>1, <1>3, <1>4 DEF RequestState, Body

(* The mutex is taken, or given back, or the lookup misses under it.       *)
LEMMA LockInv ==
    ASSUME IndInv, NEW r \in Requests, Lock(r) \/ Reuse(r) \/ Miss(r)
    PROVE  IndInv'
  <1> DEFINE q == [req[r] EXCEPT !.pc = IF Lock(r) THEN "lookup" ELSE IF Reuse(r) THEN "open" ELSE "newclient"]
  <1>1. req[r].pc \in {"dial", "lookup"} /\ UNCHANGED <<conns, log, logged>>
    BY DEF Lock, Reuse, Miss
  <1>2. req' = [req EXCEPT ![r] = q]
    <2>1. CASE Lock(r)
      BY <2>1 DEF Lock
    <2>2. CASE Reuse(r)
      <3>1. ~Lock(r)
        BY <2>2 DEF Lock, Reuse
      <3> QED BY <2>2, <3>1 DEF Reuse
    <2>3. CASE Miss(r)
      <3>1. conns[Host(r)] = 0 /\ req[r].pc = "lookup"
        BY <2>3 DEF Miss
      <3>2. ~Lock(r) /\ ~Reuse(r)
        BY <3>1 DEF Lock, Reuse
      <3> QED BY <2>3, <3>2 DEF Miss
    <2> QED BY <2>1, <2>2, <2>3
  <1>3. /\ q \in RequestState /\ Body(q) /\ q.uri = req[r].uri /\ q.inv = req[r].inv
        /\ q.pc = IF Lock(r) THEN "lookup" ELSE IF Reuse(r) THEN "open" ELSE "newclient"
        /\ EverReported(req[r].inv, req[r].uri)
    BY <1>1, MovedRequest
  <1> HIDE DEF q
  <1>4. \A s \in Requests : req'[s] = IF s = r THEN q ELSE req[s]
    BY <1>2 DEF IndInv, TypeOK
  <1>5. mu' \in Requests \cup {Nobody}
    BY DEF Lock, Reuse, Miss, IndInv, TypeOK
  <1>6. MutexInv'
    <2>1. CASE Lock(r)
      <3>1. mu = Nobody /\ mu' = r /\ req[r].pc = "dial" /\ req[r].uri \in DOMAIN HostOf /\ q.pc = "lookup"
        BY <1>3, <2>1 DEF Lock
      <3>2. \A s \in Requests : req[s].pc \notin Locked
        BY <3>1, FetchAssumption DEF IndInv, MutexInv
      <3> QED BY <1>3, <1>4, <3>1, <3>2 DEF MutexInv, Locked
    <2>2. CASE Reuse(r)
      <3>1. mu' = Nobody /\ req[r].pc = "lookup" /\ q.pc = "open"
        BY <1>3, <2>2 DEF Reuse, Lock
      <3>2. mu = r /\ \A s \in Requests \ {r} : req[s].pc \notin Locked
        BY <3>1 DEF IndInv, MutexInv, Locked
      <3>3. \A s \in Requests : req'[s].pc \notin Locked
        BY <1>4, <3>1, <3>2, Unlocked
      <3> QED BY <3>1, <3>3, Unlocked, FetchAssumption DEF MutexInv, Locked
    <2>3. CASE Miss(r)
      <3>1. mu' = mu /\ req[r].pc = "lookup" /\ conns[Host(r)] = 0
        BY <2>3 DEF Miss
      <3>2. q.pc = "newclient"
        BY <1>3, <3>1 DEF Lock, Reuse
      <3>3. mu = r /\ req[r].uri \in DOMAIN HostOf /\ \A s \in Requests \ {r} : req[s].pc \notin Locked
        BY <3>1 DEF IndInv, MutexInv, Locked
      <3> QED BY <1>1, <1>3, <1>4, <3>1, <3>2, <3>3 DEF MutexInv, Locked, Host
    <2> QED BY <2>1, <2>2, <2>3
  <1> QED BY <1>1, <1>2, <1>3, <1>5, <1>6, RequestStep

(* The holder of the mutex makes the host's first connection: the map is   *)
(* still as it was when it looked.                                         *)
LEMMA NewClientInv ==
    ASSUME IndInv, NEW r \in Requests, NewClient(r)
    PROVE  IndInv'
  <1> DEFINE q == [req[r] EXCEPT !.pc = "open"]
             h == HostOf[req[r].uri]
  <1>1. /\ req[r].pc = "newclient" /\ req' = [req EXCEPT ![r] = q] /\ mu' = Nobody
        /\ conns' = [conns EXCEPT ![h] = conns[h] + 1] /\ UNCHANGED <<log, logged>>
    BY DEF NewClient, Host
  <1>2. /\ mu = r /\ req[r].uri \in DOMAIN HostOf /\ conns[h] = 0
        /\ \A s \in Requests \ {r} : req[s].pc \notin Locked
    BY <1>1 DEF IndInv, MutexInv, Locked, Host
  <1>3. h \in Hosts
    BY <1>2, FetchAssumption
  <1>4. /\ q \in RequestState /\ Body(q) /\ q.pc = "open" /\ q.uri = req[r].uri /\ q.inv = req[r].inv
        /\ EverReported(req[r].inv, req[r].uri) /\ req[r].inv \in Invocations
    <2>1. req[r].inv \in Invocations
      BY DEF IndInv, TypeOK, RequestState
    <2> QED BY <1>1, <2>1, MovedRequest
  <1> HIDE DEF q, h
  <1>5. \A s \in Requests : req'[s] = IF s = r THEN q ELSE req[s]
    BY <1>1 DEF IndInv, TypeOK
  <1>6. \A g \in Hosts : conns'[g] = IF g = h THEN 1 ELSE conns[g]
    BY <1>1, <1>2, <1>3 DEF IndInv, TypeOK
  <1>7. TypeOK'
    <2>1. req' \in [Requests -> RequestState]
      BY <1>1, <1>4 DEF IndInv, TypeOK
    <2>2. conns' \in [Hosts -> Nat]
      <3>1. conns \in [Hosts -> Nat] /\ conns[h] + 1 \in Nat
        BY <1>2 DEF IndInv, TypeOK
      <3> QED BY <1>1, <3>1
    <2> QED BY <2>1, <2>2, <1>1 DEF IndInv, TypeOK
  <1>8. BodyInv' /\ LogInv'
    BY <1>1, <1>4, <1>5 DEF IndInv, BodyInv, LogInv
  <1>9. \A i, u : EverReported(i, u)' <=> EverReported(i, u)
    BY <1>1 DEF EverReported
  <1>10. FetchInv'
    BY <1>4, <1>5, <1>9 DEF IndInv, FetchInv
  <1>11. HostInv'
    <2> SUFFICES ASSUME NEW g \in Hosts, conns'[g] > 0
                 PROVE  \E i \in Invocations, u \in DOMAIN HostOf : HostOf[u] = g /\ EverReported(i, u)
      BY <1>9 DEF HostInv
    <2>1. CASE g = h
      BY <2>1, <1>2, <1>4 DEF h
    <2>2. CASE g # h
      BY <2>2, <1>6 DEF IndInv, HostInv
    <2> QED BY <2>1, <2>2
  <1>12. OneConn'
    BY <1>6 DEF IndInv, OneConn
  <1>13. \A s \in Requests : req'[s].pc \notin Locked
    BY <1>2, <1>4, <1>5, Unlocked
  <1>14. MutexInv'
    BY <1>1, <1>13, FetchAssumption DEF MutexInv, Locked
  <1> QED BY <1>7, <1>8, <1>10, <1>11, <1>12, <1>14 DEF IndInv

(* The connection cannot be made: the request fails and the mutex is free. *)
LEMMA NewClientFailsInv ==
    ASSUME IndInv, NEW r \in Requests, NewClientFails(r)
    PROVE  IndInv'
  <1> DEFINE q == StreamFailed(req[r])
  <1>1. /\ req[r].pc = "newclient" /\ req' = [req EXCEPT ![r] = q] /\ mu' = Nobody
        /\ UNCHANGED <<conns, log, logged>>
    BY DEF NewClientFails
  <1>2. q \in RequestState /\ Body(q) /\ q.pc = "done" /\ EverReported(q.inv, q.uri)
    BY <1>1, FailedRequest DEF Streaming, Locked
  <1>3. \A s \in Requests \ {r} : req[s].pc \notin Locked
    BY <1>1 DEF IndInv, MutexInv, Locked
  <1> HIDE DEF q
  <1>4. \A s \in Requests : req'[s] = IF s = r THEN q ELSE req[s]
    BY <1>1 DEF IndInv, TypeOK
  <1>5. \A s \in Requests : req'[s].pc \notin Locked
    BY <1>2, <1>3, <1>4, Unlocked
  <1>6. MutexInv'
    BY <1>1, <1>5, FetchAssumption DEF MutexInv, Locked
  <1> QED BY <1>1, <1>2, <1>6, RequestStep

(* The read stream opens, or Stream fails.                                 *)
LEMMA OpenInv ==
    ASSUME IndInv, NEW r \in Requests, Open(r)
    PROVE  IndInv'
  <1>1. CASE req' = [req EXCEPT ![r] = StreamFailed(@)]
    BY <1>1, FailInv DEF Open
  <1>2. CASE req' = [req EXCEPT ![r].pc = "recv"]
    <2> DEFINE q == [req[r] EXCEPT !.pc = "recv"]
    <2>1. req[r] \in RequestState /\ Body(req[r]) /\ req[r].pc = "open"
      BY DEF IndInv, TypeOK, BodyInv, Open
    <2>2. q \in RequestState /\ Body(q) /\ q.inv = req[r].inv /\ q.uri = req[r].uri
      <3>1. "recv" \in PCs
        BY Constants
      <3>2. q \in RequestState
        BY <2>1, <3>1, PcField, Zenon
      <3> QED BY <2>1, <3>2 DEF RequestState, Body
    <2>3. EverReported(q.inv, q.uri)
      BY <2>1, <2>2, Unlocked DEF IndInv, FetchInv
    <2>4. req' = [req EXCEPT ![r] = q] /\ UNCHANGED <<conns, mu, log, logged>>
      BY <1>2 DEF Open
    <2>5. req[r].pc \notin Locked /\ q.pc \notin Locked
      BY <2>1, Unlocked DEF RequestState
    <2> HIDE DEF q
    <2> QED BY <2>2, <2>3, <2>4, <2>5, OneRequest
  <1> QED BY <1>1, <1>2 DEF Open

(* A chunk is written or exceeds the limit.                                *)
LEMMA RecvChunkInv ==
    ASSUME IndInv, NEW r \in Requests, NEW n \in ChunkSizes, RecvChunk(r, n)
    PROVE  IndInv'
  <1> DEFINE q == Written(req[r], n)
  <1>1. /\ req[r] \in RequestState /\ Body(req[r]) /\ req[r].pc = "recv" /\ req[r].chunks < MaxChunks
        /\ EverReported(req[r].inv, req[r].uri) /\ n \in Nat /\ UNCHANGED <<conns, mu, log, logged>>
    BY FetchAssumption, Unlocked DEF IndInv, TypeOK, BodyInv, FetchInv, RecvChunk
  <1>2. CASE TooLarge(req[r], n)
    BY <1>1, <1>2, FailInv DEF RecvChunk
  <1>3. CASE ~TooLarge(req[r], n)
    <2>1. MaxSizeBytes > 0 => req[r].total + n <= MaxSizeBytes
      BY <1>1, <1>3, FetchAssumption DEF TooLarge, RequestState
    <2>2. q \in RequestState /\ Body(q) /\ q.pc = "recv" /\ q.inv = req[r].inv /\ q.uri = req[r].uri
      BY <1>1, <2>1, WriteKeepsBody
    <2>3. req' = [req EXCEPT ![r] = q]
      BY <1>3 DEF RecvChunk
    <2> HIDE DEF q
    <2> QED BY <1>1, <2>2, <2>3, Unlocked, OneRequest
  <1> QED BY <1>2, <1>3

(* A chunk is written in part and Stream fails.                            *)
LEMMA WriteFailsInv ==
    ASSUME IndInv, NEW r \in Requests, NEW n \in ChunkSizes, NEW k \in 0..n, WriteFails(r, n, k)
    PROVE  IndInv'
  <1> DEFINE w == Written(req[r], k)
             q == StreamFailed(w)
  <1>1. /\ req[r] \in RequestState /\ Body(req[r]) /\ req[r].pc = "recv" /\ req[r].chunks < MaxChunks
        /\ EverReported(req[r].inv, req[r].uri) /\ n \in Nat /\ k \in Nat /\ UNCHANGED <<conns, mu, log, logged>>
    BY FetchAssumption, Unlocked DEF IndInv, TypeOK, BodyInv, FetchInv, WriteFails
  <1>2. MaxSizeBytes > 0 => req[r].total + k <= MaxSizeBytes
    BY <1>1, FetchAssumption DEF TooLarge, RequestState, WriteFails
  <1>3. w \in RequestState /\ Body(w) /\ w.pc = "recv" /\ w.inv = req[r].inv /\ w.uri = req[r].uri
    BY <1>1, <1>2, WriteKeepsBody
  <1> HIDE DEF w
  <1>4. q \in RequestState /\ Body(q) /\ q.pc = "done" /\ q.inv = w.inv /\ q.uri = w.uri
    BY <1>3, FailureKeepsBody
  <1>5. req' = [req EXCEPT ![r] = q]
    BY DEF WriteFails, w
  <1> HIDE DEF q
  <1> QED BY <1>1, <1>3, <1>4, <1>5, Unlocked, OneRequest

(* The end of the file ends the request.                                   *)
LEMMA RecvEOFInv ==
    ASSUME IndInv, NEW r \in Requests, RecvEOF(r)
    PROVE  IndInv'
  <1> DEFINE q == [req[r] EXCEPT !.pc = "done", !.status = 200, !.eof = TRUE]
  <1>1. /\ req[r] \in RequestState /\ Body(req[r]) /\ req[r].pc = "recv"
        /\ EverReported(req[r].inv, req[r].uri) /\ UNCHANGED <<conns, mu, log, logged>>
    BY Unlocked DEF IndInv, TypeOK, BodyInv, FetchInv, RecvEOF
  <1>2. q \in RequestState
    <2>1. [req[r] EXCEPT !.pc = "done"] \in RequestState
      BY <1>1, PcField, Constants, Zenon
    <2>2. [req[r] EXCEPT !.pc = "done", !.status = 200] \in RequestState
      BY <2>1, StatusField, Constants, Zenon
    <2> QED BY <2>2, EofField, Constants, Zenon
  <1>3. /\ q.pc = "done" /\ q.status = 200 /\ q.bytes = req[r].bytes /\ q.total = req[r].total /\ q.eof = TRUE
        /\ q.written = req[r].written /\ q.text = req[r].text /\ q.blank = req[r].blank
        /\ q.inv = req[r].inv /\ q.uri = req[r].uri
    BY <1>1 DEF RequestState
  <1>4. req' = [req EXCEPT ![r] = q]
    BY <1>1 DEF RecvEOF, IndInv, TypeOK
  <1> HIDE DEF q
  <1>5. Body(q)
    BY <1>1, <1>3, FetchAssumption DEF Body
  <1>6. EverReported(q.inv, q.uri)
    BY <1>1, <1>3
  <1> QED BY <1>1, <1>2, <1>3, <1>4, <1>5, <1>6, Unlocked, OneRequest

(* One case for each action of Next.                                       *)
LEMMA NextInv == IndInv /\ [Next]_vars => IndInv'
  <1> SUFFICES ASSUME IndInv, [Next]_vars PROVE IndInv'
    OBVIOUS
  <1>1. CASE UNCHANGED vars
    BY <1>1 DEF vars, IndInv, TypeOK, BodyInv, Body, LogInv, HostInv, FetchInv, EverReported,
                     OneConn, MutexInv, Host
  <1>2. CASE \E i \in Invocations, events \in EventLogs : StoreLog(i, events)
    BY <1>2, StoreLogInv
  <1>3. CASE \E r \in Requests : \E i \in Invocations, u \in URIs \cup {MissingURI} : Begin(r, i, u)
    BY <1>3, BeginInv
  <1>4. CASE \E r \in Requests : ReadEvents(r) \/ ReadFails(r)
    BY <1>4, ReadInv
  <1>5. ASSUME NEW r \in Requests, Stream(r) PROVE IndInv'
    <2>1. CASE ParseURIFails(r) \/ RecvFails(r)
      BY <2>1, FailInv DEF ParseURIFails, RecvFails
    <2>2. CASE Lock(r) \/ Reuse(r) \/ Miss(r)
      BY <2>2, LockInv
    <2>7. CASE NewClient(r)
      BY <2>7, NewClientInv
    <2>8. CASE NewClientFails(r)
      BY <2>8, NewClientFailsInv
    <2>3. CASE Open(r)
      BY <2>3, OpenInv
    <2>4. ASSUME NEW n \in ChunkSizes, RecvChunk(r, n) PROVE IndInv'
      BY <2>4, RecvChunkInv
    <2>5. ASSUME NEW n \in ChunkSizes, NEW k \in 0..n, WriteFails(r, n, k) PROVE IndInv'
      BY <2>5, WriteFailsInv
    <2>6. CASE RecvEOF(r)
      BY <2>6, RecvEOFInv
    <2> QED BY <1>5, <2>1, <2>2, <2>3, <2>4, <2>5, <2>6, <2>7, <2>8 DEF Stream
  <1> QED BY <1>1, <1>2, <1>3, <1>4, <1>5 DEF Next

(* The invariant holds in every behaviour.                                 *)
THEOREM Invariance == Spec => []IndInv
  BY InitInv, NextInv, PTL DEF Spec

(* Types of all variables (the locals of getBlob and of Client.Stream).    *)
THEOREM TypeCorrect == Spec => []TypeOK
  <1>1. IndInv => TypeOK
    BY DEF IndInv
  <1> QED BY <1>1, Invariance, PTL

(* No error text behind bytes of the file, and none left out when nothing  *)
(* was sent (webui.go:386-404).                                            *)
THEOREM NeverStitched == Spec => []ErrorNeverStitched
  <1>1. IndInv => ErrorNeverStitched
    BY DEF IndInv, BodyInv, Body, ErrorNeverStitched
  <1> QED BY <1>1, Invariance, PTL

(* The size limit of bytestream.go:124, for every limit and every sequence *)
(* of chunks.                                                              *)
THEOREM SizeBounded == Spec => []WithinMaxSize
  <1>1. IndInv => WithinMaxSize
    BY DEF IndInv, BodyInv, Body, WithinMaxSize
  <1> QED BY <1>1, Invariance, PTL

(* Only what an invocation reported is dialled and fetched (webui.go:378). *)
THEOREM ReportedOnly == Spec => []OnlyReported
  <1>1. IndInv => OnlyReported
    BY DEF IndInv, HostInv, FetchInv, EverReported, OnlyReported
  <1> QED BY <1>1, Invariance, PTL

(* However many requests look up and dial hosts at once, a host gets one   *)
(* connection and a failed dial leaves the mutex free: at most one request *)
(* is between Lock and Unlock, so what it did not find in the map is not   *)
(* put there behind its back (bytestream.go:133-156).                      *)
THEOREM ConnectionsShared == Spec => []OneConnPerHost
  <1>1. IndInv => OneConnPerHost
    BY DEF IndInv, TypeOK, OneConn, MutexInv, OneConnPerHost
  <1> QED BY <1>1, Invariance, PTL
=============================================================================
