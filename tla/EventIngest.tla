---------------------------- MODULE EventIngest ----------------------------
(***************************************************************************)
(* The write path of bepper: calls of PublishBuildToolEventStream          *)
(* (src/server), the per-invocation writer map of store.Store (src/store), *)
(* the gzip files of the disk blobstore (src/blobstore/disk) and the row   *)
(* written by Indexer.Upsert (src/index/postgres).                         *)
(*                                                                         *)
(* A member of Streams is one call of the RPC and runs at most once; a     *)
(* client that retries makes another call.  An event is named by its       *)
(* sequence number: a retry of an invocation carries the same event under  *)
(* the same number.  A step is what one goroutine does between two points  *)
(* where another may run: a Recv, the mutex section of writerFor, a Write, *)
(* the mutex section of Finalize, a Close, the Upsert, a Send.             *)
(***************************************************************************)
EXTENDS Naturals, Sequences, FiniteSets

CONSTANTS
    Streams,      \* calls of PublishBuildToolEventStream
    Invocations,  \* the invocation IDs clients use
    Readers,      \* calls of store.ReadEvents
    MaxSeq,       \* sequence numbers are 1..MaxSeq
    MaxMsgs,      \* messages in one stream
    MaxCrashes,   \* restarts of the server process
    Faults,       \* what may fail: a subset of FaultKinds
    InOrder,      \* clients number the k-th message of a stream k
    Overlap,      \* an invocation may have two live streams
    None          \* no invocation, no writer, no row

FaultKinds == {"marshal", "open", "write", "close", "upsert", "conn"}

ASSUME BoundsAssumption == MaxSeq \in Nat /\ MaxMsgs \in Nat /\ MaxCrashes \in Nat
ASSUME FaultsAssumption == Faults \subseteq FaultKinds /\ InOrder \in BOOLEAN /\ Overlap \in BOOLEAN
ASSUME NoneAssumption   == /\ None \notin Invocations
                           /\ None \notin Streams \X (1..MaxMsgs)

Seqs == 1..MaxSeq

(* The writer opened while stream h handles its k-th message. *)
WriterIds == Streams \X (1..MaxMsgs)

VARIABLES
    (* Locals of one call of PublishBuildToolEventStream and of the store *)
    (* functions it calls.                                                *)
    pc,       \* where the call is
    inv,      \* streamID's invocation ID, None while streamID is nil
    cur,      \* the event being appended
    parsed,   \* the events given to the call's EventParser, in order
    acks,     \* the acks slice
    held,     \* the writer in w of AppendEvent or Finalize
    sent,     \* number of acks sent
    result,   \* how the call ended
    lost,     \* the connection is gone and with it stream.Context(), after io.EOF
    (* Shared state. *)
    writers,  \* Store.writers
    wr,       \* the compressFileWriters: state, events written, sticky error, data race
    file,     \* the files of the disk blobstore
    row,      \* the invocations table
    crashes,  \* restarts so far
    rd        \* calls of ReadEvents

callVars  == <<pc, inv, cur, parsed, acks, held, sent, result, lost>>
storeVars == <<writers, wr, file, row, crashes>>
vars      == <<pc, inv, cur, parsed, acks, held, sent, result, lost,
               writers, wr, file, row, crashes, rd>>

PCs     == {"recv", "lookup", "write", "finalize", "close", "upsert", "send", "done"}
Results == {"none", "ok", "error", "precondition", "dataloss", "crashed"}

(* A gzip.Writer keeps its first error: every later Write and the Close    *)
(* return it.  raced: two goroutines were in its unsynchronised methods at *)
(* once, so what it produces is undefined.                                 *)
WriterState == [st: {"unused", "open", "closed", "lost"}, data: Seq(Seqs),
                err: BOOLEAN, raced: BOOLEAN]

(* A file is torn while it is not a complete gzip stream.  mixed: it was   *)
(* truncated while an older writer still had it open, so two descriptors   *)
(* write it at their own offsets.                                          *)
FileState == [st: {"absent", "torn", "valid"}, data: Seq(Seqs), mixed: BOOLEAN]

RowState  == [created: Streams, from: Streams, events: Seq(Seqs)]

ASSUME RowAssumption == None \notin RowState

ReadState == [pc: {"idle", "read", "done"}, inv: Invocations \cup {None},
              found: BOOLEAN, err: BOOLEAN, events: Seq(Seqs)]

Init ==
    /\ pc      = [h \in Streams |-> "recv"]
    /\ inv     = [h \in Streams |-> None]
    /\ cur     = [h \in Streams |-> 0]
    /\ parsed  = [h \in Streams |-> <<>>]
    /\ acks    = [h \in Streams |-> <<>>]
    /\ held    = [h \in Streams |-> None]
    /\ sent    = [h \in Streams |-> 0]
    /\ result  = [h \in Streams |-> "none"]
    /\ lost    = [h \in Streams |-> FALSE]
    /\ writers = [i \in Invocations |-> None]
    /\ wr      = [w \in WriterIds |-> [st |-> "unused", data |-> <<>>, err |-> FALSE, raced |-> FALSE]]
    /\ file    = [i \in Invocations |-> [st |-> "absent", data |-> <<>>, mixed |-> FALSE]]
    /\ row     = [i \in Invocations |-> None]
    /\ crashes = 0
    /\ rd      = [r \in Readers |-> [pc |-> "idle", inv |-> None, found |-> FALSE,
                                     err |-> FALSE, events |-> <<>>]]

-----------------------------------------------------------------------------
(* The receive loop. *)

Live(h) == inv[h] # None /\ pc[h] # "done"

(* What clients do: the server accepts any stream, so this only bounds the *)
(* environment.  Without Overlap a client starts an invocation's next      *)
(* stream after the previous call has returned.                            *)
ClientSends(h, i, n) ==
    /\ Len(acks[h]) < MaxMsgs
    /\ InOrder => n = Len(acks[h]) + 1
    /\ (inv[h] = None /\ ~Overlap) => \A g \in Streams : inv[g] = i => ~Live(g)

Return(h, res) ==
    /\ pc'     = [pc EXCEPT ![h] = "done"]
    /\ result' = [result EXCEPT ![h] = res]

(* Mutant: the acks count from 0. *)
AckedFromZero(h, n) ==
    /\ acks' = [acks EXCEPT ![h] = Append(@, n - 1)]
    /\ pc'   = [pc EXCEPT ![h] = "recv"]

(* The end of an iteration: acks = append(acks, sequence number). *)
Acked(h, n) ==
    /\ acks' = [acks EXCEPT ![h] = Append(@, n)]
    /\ pc'   = [pc EXCEPT ![h] = "recv"]

(* Recv returns a message with a bazel event; the first one fixes the      *)
(* invocation.                                                             *)
RecvBazelEvent(h, i, n) ==
    /\ pc[h] = "recv"
    /\ inv[h] \in {None, i}
    /\ ClientSends(h, i, n)
    /\ inv' = [inv EXCEPT ![h] = i]
    /\ cur' = [cur EXCEPT ![h] = n]
    /\ pc'  = [pc EXCEPT ![h] = "lookup"]
    /\ UNCHANGED <<parsed, acks, held, sent, result, lost, storeVars, rd>>

(* A message without a bazel event, or one that does not unmarshal: logged *)
(* at most, and acknowledged like any other.                               *)
RecvOtherEvent(h, i, n) ==
    /\ pc[h] = "recv"
    /\ inv[h] \in {None, i}
    /\ ClientSends(h, i, n)
    /\ inv' = [inv EXCEPT ![h] = i]
    /\ Acked(h, n)
    /\ UNCHANGED <<cur, parsed, held, sent, result, lost, storeVars, rd>>

(* The first message has no invocation ID. *)
RecvNoInvocation(h) ==
    /\ pc[h] = "recv"
    /\ inv[h] = None
    /\ Return(h, "precondition")
    /\ UNCHANGED <<inv, cur, parsed, acks, held, sent, lost, storeVars, rd>>

(* Recv fails: the client cancelled or its connection broke.  The writer   *)
(* stays in Store.writers.                                                 *)
RecvError(h) ==
    /\ pc[h] = "recv"
    /\ "conn" \in Faults
    /\ Return(h, "error")
    /\ UNCHANGED <<inv, cur, parsed, acks, held, sent, lost, storeVars, rd>>

-----------------------------------------------------------------------------
(* store.AppendEvent: writerFor, then Write.  Its error is logged; the     *)
(* event is parsed and acknowledged either way.                            *)

AppendReturns(h) ==
    /\ parsed' = [parsed EXCEPT ![h] = Append(@, cur[h])]
    /\ Acked(h, cur[h])
    /\ held'   = [held EXCEPT ![h] = None]
    /\ cur'    = [cur EXCEPT ![h] = 0]

WriterForHit(h) ==
    /\ pc[h] = "lookup"
    /\ writers[inv[h]] # None
    /\ held' = [held EXCEPT ![h] = writers[inv[h]]]
    /\ pc'   = [pc EXCEPT ![h] = "write"]
    /\ UNCHANGED <<inv, cur, parsed, acks, sent, result, lost, storeVars, rd>>

OpenOn(i) == {w \in WriterIds : wr[w].st = "open" /\ inv[w[1]] = i}

(* disk Writer: O_CREATE|O_TRUNC, so whatever the file held is gone. *)
Truncate(i) ==
    file' = [file EXCEPT ![i] = [st |-> "torn", data |-> <<>>, mixed |-> OpenOn(i) # {}]]

WriterForOpen(h) ==
    LET i == inv[h]
        w == <<h, Len(acks[h]) + 1>>
    IN  /\ pc[h] = "lookup"
        /\ writers[i] = None
        /\ Truncate(i)
        /\ wr'      = [wr EXCEPT ![w].st = "open"]
        /\ writers' = [writers EXCEPT ![i] = w]
        /\ held'    = [held EXCEPT ![h] = w]
        /\ pc'      = [pc EXCEPT ![h] = "write"]
        /\ UNCHANGED <<inv, cur, parsed, acks, sent, result, lost, row, crashes, rd>>

(* protojson.Marshal fails, or writerFor does. *)
AppendFails(h) ==
    /\ pc[h] = "lookup"
    /\ "marshal" \in Faults \/ (writers[inv[h]] = None /\ "open" \in Faults)
    /\ AppendReturns(h)
    /\ UNCHANGED <<inv, sent, result, lost, storeVars, rd>>

(* Another goroutine is inside a method of the same gzip.Writer. *)
Shared(h, w) == \E g \in Streams \ {h} : held[g] = w /\ pc[g] \in {"write", "close"}

(* The states a file can be in after a descriptor of it was written. *)
AfterWrite(i) == IF file[i].mixed THEN {file[i].st, "torn"} ELSE {file[i].st}

(* The file's next state; only a valid file has contents. *)
Flush(i, s, data) ==
    file' = [file EXCEPT ![i].st = s, ![i].data = IF s = "valid" THEN data ELSE <<>>]

(* Mutant: a closed writer accepts writes. *)
WriteAfterClose(h) ==
    LET w == held[h]
        i == inv[h]
    IN  /\ pc[h] = "write"
        /\ ~wr[w].err
        /\ wr' = [wr EXCEPT ![w].data = Append(@, cur[h])]
        /\ \E s \in AfterWrite(i) : Flush(i, s, file[i].data)
        /\ AppendReturns(h)
        /\ UNCHANGED <<inv, sent, result, lost, writers, row, crashes, rd>>

Write(h) ==
    LET w == held[h]
        i == inv[h]
    IN  /\ pc[h] = "write"
        /\ wr[w].st = "open" /\ ~wr[w].err
        /\ wr' = [wr EXCEPT ![w] = [st |-> "open", data |-> Append(@.data, cur[h]), err |-> FALSE,
                                    raced |-> IF Shared(h, w) THEN TRUE ELSE @.raced]]
        /\ \E s \in AfterWrite(i) : Flush(i, s, file[i].data)
        /\ AppendReturns(h)
        /\ UNCHANGED <<inv, sent, result, lost, writers, row, crashes, rd>>

(* The write fails: the disk refuses it, or the writer was closed by       *)
(* another call, or it had failed before.                                  *)
WriteFails(h) ==
    LET w == held[h]
    IN  /\ pc[h] = "write"
        /\ wr[w].st # "open" \/ wr[w].err \/ "write" \in Faults
        /\ wr' = IF wr[w].st = "open" THEN [wr EXCEPT ![w].err = TRUE] ELSE wr
        /\ AppendReturns(h)
        /\ UNCHANGED <<inv, sent, result, lost, writers, file, row, crashes, rd>>

-----------------------------------------------------------------------------
(* finish. *)

Finishing == {"finalize", "close", "upsert", "send"}

(* Recv returns io.EOF before any message. *)
EofNoStream(h) ==
    /\ pc[h] = "recv"
    /\ inv[h] = None
    /\ Return(h, "ok")
    /\ UNCHANGED <<inv, cur, parsed, acks, held, sent, lost, storeVars, rd>>

(* p arranges s as sort.Slice leaves it. *)
Sorts(p, s) ==
    /\ p \in [DOMAIN s -> DOMAIN s]
    /\ \A j, k \in DOMAIN s : p[j] = p[k] => j = k
    /\ \A k \in DOMAIN s : \E j \in DOMAIN s : p[j] = k
    /\ \A j, k \in DOMAIN s : j < k => s[p[j]] <= s[p[k]]

Permute(p, s) == [k \in DOMAIN s |-> s[p[k]]]

Contiguous(s) == \A k \in DOMAIN s : s[k] = k

(* Mutant: the sequence numbers are not checked. *)
EofAcceptAny(h) ==
    /\ pc[h] = "recv"
    /\ inv[h] # None
    /\ \E p \in [DOMAIN acks[h] -> DOMAIN acks[h]] :
         /\ Sorts(p, acks[h])
         /\ acks' = [acks EXCEPT ![h] = Permute(p, @)]
    /\ pc' = [pc EXCEPT ![h] = "finalize"]
    /\ UNCHANGED <<inv, cur, parsed, held, sent, result, lost, storeVars, rd>>

(* io.EOF: sort the acks and accept only 1, 2, ..., n. *)
EofAccept(h) ==
    /\ pc[h] = "recv"
    /\ inv[h] # None
    /\ \E p \in [DOMAIN acks[h] -> DOMAIN acks[h]] :
         /\ Sorts(p, acks[h])
         /\ Contiguous(Permute(p, acks[h]))
         /\ acks' = [acks EXCEPT ![h] = Permute(p, @)]
    /\ pc' = [pc EXCEPT ![h] = "finalize"]
    /\ UNCHANGED <<inv, cur, parsed, held, sent, result, lost, storeVars, rd>>

(* DataLoss.  The writer stays in Store.writers. *)
EofReject(h) ==
    /\ pc[h] = "recv"
    /\ inv[h] # None
    /\ \E p \in [DOMAIN acks[h] -> DOMAIN acks[h]] :
         /\ Sorts(p, acks[h])
         /\ ~Contiguous(Permute(p, acks[h]))
         /\ acks' = [acks EXCEPT ![h] = Permute(p, @)]
    /\ Return(h, "dataloss")
    /\ UNCHANGED <<inv, cur, parsed, held, sent, lost, storeVars, rd>>

(* Mutant: Finalize leaves the writer in the map. *)
FinalizeKeepsWriter(h) ==
    LET i == inv[h]
    IN  /\ pc[h] = "finalize"
        /\ IF writers[i] = None
             THEN pc' = [pc EXCEPT ![h] = "upsert"] /\ UNCHANGED held
             ELSE /\ pc'   = [pc EXCEPT ![h] = "close"]
                  /\ held' = [held EXCEPT ![h] = writers[i]]
        /\ UNCHANGED <<inv, cur, parsed, acks, sent, result, lost, writers, wr, file, row, crashes, rd>>

(* Mutant: Finalize drops the writer without closing it. *)
FinalizeDropsWriter(h) ==
    /\ pc[h] = "finalize"
    /\ pc'      = [pc EXCEPT ![h] = "upsert"]
    /\ writers' = [writers EXCEPT ![inv[h]] = None]
    /\ UNCHANGED <<inv, cur, parsed, acks, held, sent, result, lost, wr, file, row, crashes, rd>>

(* store.Finalize, under the mutex: take the writer out of the map. *)
FinalizeTake(h) ==
    LET i == inv[h]
    IN  /\ pc[h] = "finalize"
        /\ IF writers[i] = None
             THEN pc' = [pc EXCEPT ![h] = "upsert"] /\ UNCHANGED <<held, writers>>
             ELSE /\ pc'      = [pc EXCEPT ![h] = "close"]
                  /\ held'    = [held EXCEPT ![h] = writers[i]]
                  /\ writers' = [writers EXCEPT ![i] = None]
        /\ UNCHANGED <<inv, cur, parsed, acks, sent, result, lost, wr, file, row, crashes, rd>>

(* What a successful Close leaves on disk: the whole stream, unless the    *)
(* writer or the file was shared.                                          *)
AfterClose(h, w, i) ==
    IF wr[w].raced \/ file[i].mixed \/ Shared(h, w) THEN {"valid", "torn"} ELSE {"valid"}

(* Finalize, outside the mutex: w.Close(). *)
Close(h) ==
    LET w == held[h]
        i == inv[h]
    IN  /\ pc[h] = "close"
        /\ ~wr[w].err
        /\ \E s \in AfterClose(h, w, i) : Flush(i, s, wr[w].data)
        /\ wr'   = [wr EXCEPT ![w].st = "closed"]
        /\ held' = [held EXCEPT ![h] = None]
        /\ pc'   = [pc EXCEPT ![h] = "upsert"]
        /\ UNCHANGED <<inv, cur, parsed, acks, sent, result, lost, writers, row, crashes, rd>>

(* gz.Close fails, or f.Close does after gz.Close wrote the whole stream:  *)
(* logged.                                                                 *)
CloseFails(h) ==
    LET w == held[h]
        i == inv[h]
    IN  /\ pc[h] = "close"
        /\ wr[w].err \/ "close" \in Faults
        /\ \/ \E s \in AfterWrite(i) : Flush(i, s, file[i].data)
           \/ ~wr[w].err /\ \E s \in AfterClose(h, w, i) : Flush(i, s, wr[w].data)
        /\ wr'   = [wr EXCEPT ![w] = [@ EXCEPT !.st = "closed", !.err = TRUE]]
        /\ held' = [held EXCEPT ![h] = None]
        /\ pc'   = [pc EXCEPT ![h] = "upsert"]
        /\ UNCHANGED <<inv, cur, parsed, acks, sent, result, lost, writers, row, crashes, rd>>

(* The client cancels or its connection breaks: stream.Context() is        *)
(* cancelled.  The receive loop sees that as an error of Recv; after       *)
(* io.EOF only Upsert, which takes that context, and Send notice.          *)
Disconnect(h) ==
    /\ pc[h] \in Finishing
    /\ "conn" \in Faults
    /\ ~lost[h]
    /\ lost' = [lost EXCEPT ![h] = TRUE]
    /\ UNCHANGED <<pc, inv, cur, parsed, acks, held, sent, result, storeVars, rd>>

(* idx.Upsert: created_at is not among the columns ON CONFLICT updates.    *)
(* The statement may commit before the cancellation reaches it, whatever   *)
(* error Exec then returns: it is only logged.                             *)
Upsert(h) ==
    LET i == inv[h]
    IN  /\ pc[h] = "upsert"
        /\ row' = [row EXCEPT ![i] = [created |-> IF @ = None THEN h ELSE @.created,
                                      from |-> h, events |-> parsed[h]]]
        /\ pc'  = [pc EXCEPT ![h] = "send"]
        /\ UNCHANGED <<inv, cur, parsed, acks, held, sent, result, lost, writers, wr, file, crashes, rd>>

(* Nothing is stored: the database refuses, or the context is cancelled.   *)
(* Logged, and the acks are sent all the same.                             *)
UpsertFails(h) ==
    /\ pc[h] = "upsert"
    /\ "upsert" \in Faults \/ lost[h]
    /\ pc' = [pc EXCEPT ![h] = "send"]
    /\ UNCHANGED <<inv, cur, parsed, acks, held, sent, result, lost, storeVars, rd>>

(* A Send into a lost connection may still return nil: it only queues the  *)
(* message.                                                                *)
SendAck(h) ==
    /\ pc[h] = "send"
    /\ sent[h] < Len(acks[h])
    /\ sent' = [sent EXCEPT ![h] = @ + 1]
    /\ UNCHANGED <<pc, inv, cur, parsed, acks, held, result, lost, storeVars, rd>>

SendFails(h) ==
    /\ pc[h] = "send"
    /\ sent[h] < Len(acks[h])
    /\ lost[h]
    /\ Return(h, "error")
    /\ UNCHANGED <<inv, cur, parsed, acks, held, sent, lost, storeVars, rd>>

ReturnOk(h) ==
    /\ pc[h] = "send"
    /\ sent[h] = Len(acks[h])
    /\ Return(h, "ok")
    /\ UNCHANGED <<inv, cur, parsed, acks, held, sent, lost, storeVars, rd>>

-----------------------------------------------------------------------------
(* The process dies and is started again: its calls, its writer map and    *)
(* what its writers had not flushed are gone; files and rows stay.         *)
Crash ==
    /\ crashes < MaxCrashes
    /\ crashes' = crashes + 1
    /\ pc'      = [h \in Streams |-> IF Live(h) THEN "done" ELSE pc[h]]
    /\ result'  = [h \in Streams |-> IF Live(h) THEN "crashed" ELSE result[h]]
    /\ held'    = [h \in Streams |-> None]
    /\ writers' = [i \in Invocations |-> None]
    /\ wr'      = [w \in WriterIds |-> IF wr[w].st = "open" THEN [wr[w] EXCEPT !.st = "lost"] ELSE wr[w]]
    /\ rd'      = [r \in Readers |-> IF rd[r].pc = "read"
                                       THEN [rd[r] EXCEPT !.pc = "done", !.err = TRUE] ELSE rd[r]]
    /\ UNCHANGED <<inv, cur, parsed, acks, sent, lost, file, row>>

-----------------------------------------------------------------------------
(* store.ReadEvents: BlobExists, then ReadBlob. *)

ReadExists(r, i) ==
    /\ rd[r].pc = "idle"
    /\ rd' = [rd EXCEPT ![r] =
                IF file[i].st = "absent"
                  THEN [@ EXCEPT !.pc = "done", !.inv = i]
                  ELSE [@ EXCEPT !.pc = "read", !.inv = i, !.found = TRUE]]
    /\ UNCHANGED <<callVars, storeVars>>

ReadBlob(r) ==
    /\ rd[r].pc = "read"
    /\ rd' = [rd EXCEPT ![r] =
                IF file[rd[r].inv].st = "valid"
                  THEN [@ EXCEPT !.pc = "done", !.events = file[rd[r].inv].data]
                  ELSE [@ EXCEPT !.pc = "done", !.err = TRUE]]
    /\ UNCHANGED <<callVars, storeVars>>

-----------------------------------------------------------------------------
Recv(h) ==
    \/ \E i \in Invocations, n \in Seqs : RecvBazelEvent(h, i, n) \/ RecvOtherEvent(h, i, n)
    \/ RecvNoInvocation(h) \/ RecvError(h)
    \/ EofNoStream(h) \/ EofAccept(h) \/ EofReject(h)

AppendEvent(h) ==
    WriterForHit(h) \/ WriterForOpen(h) \/ AppendFails(h) \/ Write(h) \/ WriteFails(h)

Finish(h) ==
    \/ FinalizeTake(h) \/ Close(h) \/ CloseFails(h)
    \/ Disconnect(h) \/ Upsert(h) \/ UpsertFails(h)
    \/ SendAck(h) \/ SendFails(h) \/ ReturnOk(h)

ReadEvents(r) == ReadBlob(r) \/ \E i \in Invocations : ReadExists(r, i)

(* Every call has returned: not a deadlock. *)
AllReturned ==
    /\ \A h \in Streams : pc[h] = "done"
    /\ \A r \in Readers : rd[r].pc = "done"
    /\ UNCHANGED vars

Next ==
    \/ \E h \in Streams : Recv(h) \/ AppendEvent(h) \/ Finish(h)
    \/ \E r \in Readers : ReadEvents(r)
    \/ Crash
    \/ AllReturned

Spec == Init /\ [][Next]_vars

-----------------------------------------------------------------------------
(* The types of all variables. *)
TypeOK ==
    /\ pc \in [Streams -> PCs]
    /\ inv \in [Streams -> Invocations \cup {None}]
    /\ cur \in [Streams -> Seqs \cup {0}]
    /\ parsed \in [Streams -> Seq(Seqs)]
    /\ acks \in [Streams -> Seq(Seqs)]
    /\ held \in [Streams -> WriterIds \cup {None}]
    /\ sent \in [Streams -> Nat]
    /\ result \in [Streams -> Results]
    /\ lost \in [Streams -> BOOLEAN]
    /\ writers \in [Invocations -> WriterIds \cup {None}]
    /\ wr \in [WriterIds -> WriterState]
    /\ file \in [Invocations -> FileState]
    /\ row \in [Invocations -> RowState \cup {None}]
    /\ crashes \in Nat
    /\ rd \in [Readers -> ReadState]

Closing(h, w) == pc[h] = "close" /\ held[h] = w

Registered(w) == \E i \in Invocations : writers[i] = w

(* Every open writer is either registered in Store.writers or about to be  *)
(* closed by exactly one call, never both, and only open writers are: no   *)
(* writer is closed twice, none escapes Finalize.  The mutex of Finalize   *)
(* covers the delete and not the Close.                                    *)
WriterOwned ==
    /\ \A w \in WriterIds :
         wr[w].st = "open" <=> (Registered(w) \/ \E h \in Streams : Closing(h, w))
    /\ \A h \in Streams, w \in WriterIds :
         Closing(h, w) => ~Registered(w) /\ \A g \in Streams : Closing(g, w) => g = h
    /\ \A i, j \in Invocations : writers[i] # None /\ writers[i] = writers[j] => i = j

(* s holds no event twice and only numbers up to n. *)
OnceUpTo(s, n) ==
    /\ \A j, k \in DOMAIN s : s[j] = s[k] => j = k
    /\ \A j \in DOMAIN s : s[j] <= n

(* A call that sends an ack has received every number from 1 to the number *)
(* of its messages, and gave no event to its parser twice: the check of    *)
(* finish, whatever order the messages came in and whatever else runs.     *)
AckOnlyComplete ==
    \A h \in Streams : sent[h] > 0 =>
        /\ \A k \in DOMAIN acks[h] : acks[h][k] = k
        /\ OnceUpTo(parsed[h], Len(acks[h]))

(* A row of the index is the record of one call that received exactly      *)
(* 1..n: not of a rejected, failed or half-received stream, nor of a       *)
(* mixture of calls of the same invocation; only created_at may be of      *)
(* another call, which had passed the check too (postgres.go:82).  The two *)
(* calls may have come in either order, so it may be the later time.       *)
IndexedComplete ==
    \A i \in Invocations : row[i] # None =>
        LET h == row[i].from
        IN  /\ inv[h] = i /\ inv[row[i].created] = i
            /\ row[i].events = parsed[h]
            /\ pc[h] \in {"send", "done"} /\ pc[row[i].created] \in {"send", "done"}
            /\ Contiguous(acks[h]) /\ OnceUpTo(parsed[h], Len(acks[h]))

(* What ReadEvents returns without error is all that one closed writer of  *)
(* the invocation was given, whatever was open, failing or crashing when   *)
(* it looked at the file.                                                  *)
ReadsCommitted ==
    \A r \in Readers : rd[r].pc = "done" /\ rd[r].found /\ ~rd[r].err =>
        \E w \in WriterIds :
            wr[w].st = "closed" /\ inv[w[1]] = rd[r].inv /\ wr[w].data = rd[r].events

-----------------------------------------------------------------------------
(* The parts of the inductive invariant behind the properties above. *)

(* What each point of a call knows of its own locals. *)
CallOK(h) ==
    /\ pc[h] \in {"lookup", "write"} =>
         inv[h] \in Invocations /\ cur[h] \in Seqs /\ Len(acks[h]) < MaxMsgs
    /\ pc[h] \in {"write", "close"} => held[h] \in WriterIds
    /\ pc[h] \in Finishing =>
         inv[h] \in Invocations /\ Contiguous(acks[h]) /\ OnceUpTo(parsed[h], Len(acks[h]))
    /\ sent[h] > 0 =>
         /\ pc[h] \in {"send", "done"}
         /\ Contiguous(acks[h]) /\ OnceUpTo(parsed[h], Len(acks[h]))

CallInv == \A h \in Streams : CallOK(h)

(* A reader that found a blob knows its invocation. *)
ReaderInv ==
    \A r \in Readers : /\ rd[r].pc = "read" => rd[r].inv \in Invocations
                       /\ rd[r].pc = "idle" => ~rd[r].found

(* s is a subsequence of t, up to order. *)
Embedded(s, t) ==
    \E f \in [DOMAIN s -> DOMAIN t] :
        /\ \A j, k \in DOMAIN s : f[j] = f[k] => j = k
        /\ \A j \in DOMAIN s : s[j] = t[f[j]]

(* While a call receives, each parsed event has its own ack. *)
ParsedOK(h) == pc[h] \in {"recv", "lookup", "write"} => Embedded(parsed[h], acks[h])

ParsedInv == \A h \in Streams : ParsedOK(h)

(* The name of the writer a call may open next is not in use. *)
FreshInv ==
    \A h \in Streams, k \in 1..MaxMsgs :
        /\ pc[h] \in {"recv", "lookup"} /\ Len(acks[h]) < k => wr[<<h, k>>].st = "unused"
        /\ pc[h] = "write" /\ Len(acks[h]) + 1 < k => wr[<<h, k>>].st = "unused"

(* A registered or closing writer belongs to its invocation. *)
OwnerInv ==
    /\ WriterOwned
    /\ \A i \in Invocations : writers[i] # None => inv[writers[i][1]] = i
    /\ \A h \in Streams : pc[h] = "close" => inv[held[h][1]] = inv[h]
    /\ \A w \in WriterIds : wr[w].st # "unused" => inv[w[1]] # None

(* A readable file is what one closed writer was given. *)
FileInv ==
    \A i \in Invocations : file[i].st = "valid" =>
        \E w \in WriterIds :
            wr[w].st = "closed" /\ inv[w[1]] = i /\ wr[w].data = file[i].data

IndInv ==
    /\ TypeOK
    /\ CallInv
    /\ ReaderInv
    /\ ParsedInv
    /\ FreshInv
    /\ OwnerInv
    /\ FileInv
    /\ IndexedComplete
    /\ ReadsCommitted

-----------------------------------------------------------------------------
IsTail(s, t) == Len(s) <= Len(t) /\ s = SubSeq(t, Len(t) - Len(s) + 1, Len(t))

(* Without I/O faults and with one live stream per invocation: when a call *)
(* is at its acks, its events are stored, readable, in order and together, *)
(* whatever became of earlier streams and however often the server was     *)
(* restarted; and they are indexed too unless the client is gone, which    *)
(* cancels the Upsert (server.go:61,123) but not the Close before it.  So  *)
(* no ack a client receives lacks its file or its row.                     *)
AckedDurable ==
    \A h \in Streams : pc[h] = "send" =>
        /\ ~lost[h] => row[inv[h]] # None /\ row[inv[h]].events = parsed[h]
        /\ parsed[h] # <<>> => /\ file[inv[h]].st = "valid"
                               /\ IsTail(parsed[h], file[inv[h]].data)

(* And nothing else is stored with them when every other stream of the     *)
(* invocation was acknowledged, cut off by a restart or has not begun: a   *)
(* restart makes the retry start over, the next stream truncates the file. *)
RestartRetryExact ==
    \A h \in Streams :
        ( /\ pc[h] = "send" /\ parsed[h] # <<>>
          /\ \A g \in Streams \ {h} : inv[g] = inv[h] => result[g] \in {"ok", "crashed"} )
        => file[inv[h]].data = parsed[h]

-----------------------------------------------------------------------------
(* What comments of the code claim and the code does not do. *)

(* server.go: a stream that fails makes the client resend everything,      *)
(* "instead of us storing a partial or duplicated invocation".             *)
NoDuplicatedInvocation ==
    \A i \in Invocations : file[i].st = "valid" =>
        \A j, k \in DOMAIN file[i].data : file[i].data[j] = file[i].data[k] => j = k

(* server.go: "an incomplete or out-of-order stream fails the RPC". *)
OutOfOrderFails ==
    \A h \in Streams : sent[h] > 0 =>
        \A j, k \in DOMAIN parsed[h] : j < k => parsed[h][j] < parsed[h][k]
=============================================================================
