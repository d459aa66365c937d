------------------------------ MODULE S3Writer ------------------------------
(***************************************************************************)
(* The streaming writer of the S3 blobstore (src/blobstore/s3): gzip into  *)
(* an io.Pipe, a goroutine that uploads the pipe's other end with the      *)
(* context of the RPC that opened the writer, and the channel on which it  *)
(* reports.  The caller is whichever goroutine uses the writer: Store      *)
(* keeps the writer of a failed RPC for the next one, so the context may   *)
(* be cancelled at any time.                                               *)
(*                                                                         *)
(* The uploader of the AWS SDK is external: it fills a part from the       *)
(* reader, sends a request for every full part and one at the end, and     *)
(* stops reading as soon as a request fails.                               *)
(***************************************************************************)
EXTENDS Naturals, Sequences

CONSTANTS
    MaxEvents,  \* calls of Write
    PartSize,   \* chunks that fill a part of a multipart upload
    NoChunk,    \* nothing is waiting in the pipe
    NoBlob      \* the object does not exist

ASSUME SizesAssumption == MaxEvents \in Nat /\ PartSize \in Nat \ {0}

(* The k-th event given to Write is k. *)
Events == 1..MaxEvents

ASSUME NoAssumption == NoChunk \notin Seq(Events) /\ NoBlob \notin Seq(Events)

VARIABLES
    caller,   \* where the goroutine that uses the writer is
    written,  \* events given to Write
    header,   \* gzip has emitted its header
    buf,      \* events gzip has not emitted
    chunk,    \* what a blocked pw.Write offers the reader of the pipe
    eof,      \* pw is closed
    up,       \* where the upload goroutine is
    part,     \* chunks in the part being filled
    got,      \* events the uploader has read
    ctx,      \* the context the upload runs under
    errCh,    \* the channel of capacity 1
    object,   \* the object in the bucket
    res       \* what Close returned

callerVars == <<caller, written, header, buf>>
vars == <<caller, written, header, buf, chunk, eof, up, part, got, ctx, errCh, object, res>>

(* Writer: the pipe and the goroutine. *)
Init ==
    /\ caller  = "idle"
    /\ written = <<>>
    /\ header  = FALSE
    /\ buf     = <<>>
    /\ chunk   = NoChunk
    /\ eof     = FALSE
    /\ up      = "read"
    /\ part    = 0
    /\ got     = <<>>
    /\ ctx     = "live"
    /\ errCh   = "empty"
    /\ object  = NoBlob
    /\ res     = "none"

-----------------------------------------------------------------------------
(* streamWriter.Write: gz.Write keeps the event or blocks in pw.Write with *)
(* what it emits.  The first call always emits the gzip header.            *)

Given == Append(written, Len(written) + 1)

WriteBuffered ==
    /\ caller = "idle" /\ Len(written) < MaxEvents
    /\ header
    /\ written' = Given
    /\ buf'     = Append(buf, Len(Given))
    /\ UNCHANGED <<caller, header, chunk, eof, up, part, got, ctx, errCh, object, res>>

WriteHeader ==
    /\ caller = "idle" /\ Len(written) < MaxEvents
    /\ ~header
    /\ written' = Given
    /\ header'  = TRUE
    /\ buf'     = Append(buf, Len(Given))
    /\ chunk'   = <<>>
    /\ caller'  = "write"
    /\ UNCHANGED <<eof, up, part, got, ctx, errCh, object, res>>

WriteFlush ==
    /\ caller = "idle" /\ Len(written) < MaxEvents
    /\ header
    /\ written' = Given
    /\ chunk'   = Append(buf, Len(Given))
    /\ buf'     = <<>>
    /\ caller'  = "write"
    /\ UNCHANGED <<header, eof, up, part, got, ctx, errCh, object, res>>

(* Mutant: Close closes the pipe without closing gzip first. *)
ClosePipeEarly ==
    /\ caller = "idle"
    /\ eof'    = TRUE
    /\ caller' = "wait"
    /\ UNCHANGED <<written, header, buf, chunk, up, part, got, ctx, errCh, object, res>>

(* Mutant: Close writes the trailer and not what gzip had buffered. *)
CloseDropsBuffer ==
    /\ caller = "idle"
    /\ header' = TRUE
    /\ chunk'  = <<>>
    /\ buf'    = <<>>
    /\ caller' = "gzclose"
    /\ UNCHANGED <<written, eof, up, part, got, ctx, errCh, object, res>>

(* Close: gz.Close writes the events it had buffered, ... *)
CloseGzip ==
    /\ caller = "idle"
    /\ header' = TRUE
    /\ chunk'  = buf
    /\ buf'    = <<>>
    /\ caller' = "gzclose"
    /\ UNCHANGED <<written, eof, up, part, got, ctx, errCh, object, res>>

(* ... then, in a write of its own, the gzip trailer, ... *)
CloseTrailer ==
    /\ caller = "flushed"
    /\ chunk'  = <<>>
    /\ caller' = "trailer"
    /\ UNCHANGED <<written, header, buf, eof, up, part, got, ctx, errCh, object, res>>

(* Mutant: Close does not close the pipe. *)
ClosePipeForgotten ==
    /\ caller = "closepipe"
    /\ caller' = "wait"
    /\ UNCHANGED <<written, header, buf, chunk, eof, up, part, got, ctx, errCh, object, res>>

(* ... then pw.Close.  gz.Close has succeeded: a write to the pipe fails   *)
(* only when its reader is closed, and nothing closes it.                  *)
ClosePipe ==
    /\ caller = "closepipe"
    /\ eof'    = TRUE
    /\ caller' = "wait"
    /\ UNCHANGED <<written, header, buf, chunk, up, part, got, ctx, errCh, object, res>>

(* Mutant: Close does not wait for the upload. *)
CloseNoWait ==
    /\ caller = "wait"
    /\ res'    = errCh
    /\ errCh'  = "empty"
    /\ caller' = "returned"
    /\ UNCHANGED <<written, header, buf, chunk, eof, up, part, got, ctx, object>>

(* return <-errCh *)
CloseReturn ==
    /\ caller = "wait"
    /\ errCh # "empty"
    /\ res'    = errCh
    /\ errCh'  = "empty"
    /\ caller' = "returned"
    /\ UNCHANGED <<written, header, buf, chunk, eof, up, part, got, ctx, object>>

-----------------------------------------------------------------------------
(* The upload goroutine. *)

(* Uploader reads a chunk, which unblocks the writer. *)
UploadRead ==
    /\ up = "read" /\ part < PartSize
    /\ chunk # NoChunk
    /\ got'    = got \o chunk
    /\ part'   = part + 1
    /\ chunk'  = NoChunk
    /\ caller' = CASE caller = "write"   -> "idle"
                   [] caller = "gzclose" -> "flushed"
                   [] caller = "trailer" -> "closepipe"
    /\ UNCHANGED <<written, header, buf, eof, up, ctx, errCh, object, res>>

(* A part is full: its request is answered. *)
UploadPart ==
    /\ up = "read" /\ part = PartSize
    /\ ctx = "live"
    /\ part' = 0
    /\ UNCHANGED <<callerVars, chunk, eof, up, got, ctx, errCh, object, res>>

Report(r) ==
    /\ up'    = "done"
    /\ errCh' = r

(* Upload gives up in mid-stream: errCh <- err; nobody reads pr any more. *)
UploadAbort ==
    /\ up = "read" /\ part = PartSize
    /\ Report("error")
    /\ UNCHANGED <<callerVars, chunk, eof, part, got, ctx, object, res>>

AtEof == up = "read" /\ part < PartSize /\ eof /\ chunk = NoChunk

(* The last request commits the object. *)
UploadComplete ==
    /\ AtEof
    /\ ctx = "live"
    /\ object' = got
    /\ Report("ok")
    /\ UNCHANGED <<callerVars, chunk, eof, part, got, ctx, res>>

(* The last request fails, or is not sent under a cancelled context. *)
UploadFail ==
    /\ AtEof
    /\ Report("error")
    /\ UNCHANGED <<callerVars, chunk, eof, part, got, ctx, object, res>>

(* The last request commits the object and its answer is lost: the object  *)
(* stays in the bucket although Close will return an error.                *)
UploadAnswerLost ==
    /\ AtEof
    /\ ctx = "live"
    /\ object' = got
    /\ Report("error")
    /\ UNCHANGED <<callerVars, chunk, eof, part, got, ctx, res>>

(* The RPC that opened the writer returns, or its client goes away. *)
CtxCancel ==
    /\ ctx = "live"
    /\ ctx' = "cancelled"
    /\ UNCHANGED <<callerVars, chunk, eof, up, part, got, errCh, object, res>>

-----------------------------------------------------------------------------
Caller == WriteBuffered \/ WriteHeader \/ WriteFlush
          \/ CloseGzip \/ CloseTrailer \/ ClosePipe \/ CloseReturn

Upload == UploadRead \/ UploadPart \/ UploadAbort
          \/ UploadComplete \/ UploadFail \/ UploadAnswerLost

Next == Caller \/ Upload \/ CtxCancel

Spec == Init /\ [][Next]_vars

(* Goroutines are scheduled, S3 answers or fails every request, and the    *)
(* caller that has called Close goes on; it need not call it.              *)
Fairness == WF_vars(Upload) /\ WF_vars(CloseTrailer \/ ClosePipe \/ CloseReturn)

FairSpec == Spec /\ Fairness

-----------------------------------------------------------------------------
(* The types of all variables. *)
TypeOK ==
    /\ caller \in {"idle", "write", "gzclose", "flushed", "trailer", "closepipe", "wait", "returned"}
    /\ written \in Seq(Events) /\ buf \in Seq(Events) /\ got \in Seq(Events)
    /\ header \in BOOLEAN /\ eof \in BOOLEAN
    /\ chunk \in Seq(Events) \cup {NoChunk}
    /\ up \in {"read", "done"}
    /\ part \in 0..PartSize
    /\ ctx \in {"live", "cancelled"}
    /\ errCh \in {"empty", "ok", "error"}
    /\ object \in Seq(Events) \cup {NoBlob}
    /\ res \in {"none", "ok", "error"}

InPipe == IF chunk = NoChunk THEN <<>> ELSE chunk

(* Nothing written is lost or reordered between gzip, the pipe and the     *)
(* uploader.                                                               *)
PipeInv == written = got \o InPipe \o buf

-----------------------------------------------------------------------------
(* The parts of the inductive invariant behind the promise below. *)

(* Close has been called. *)
Closing == caller \in {"gzclose", "flushed", "trailer", "closepipe", "wait", "returned"}

(* The pipe holds a chunk exactly while a pw.Write is blocked, and gzip    *)
(* holds nothing once Close was called.                                    *)
ChunkInv ==
    /\ chunk # NoChunk <=> caller \in {"write", "gzclose", "trailer"}
    /\ Closing => buf = <<>>

(* The goroutine reports once; Close has not returned before it did. *)
ReportInv ==
    /\ eof => caller \in {"wait", "returned"}
    /\ errCh # "empty" => up = "done"
    /\ caller = "returned" => up = "done"

(* The object appears at the end of the upload, with everything written,   *)
(* and success is reported only when it has.                               *)
ObjectInv ==
    /\ object # NoBlob => /\ object = written
                          /\ caller \in {"wait", "returned"}
                          /\ up = "done"
    /\ errCh = "ok" => object = written

(* At every point of a Close, whatever the uploader and the context do:    *)
(* nothing is lost on the way, and what is reported is what is stored.     *)
IndInv == TypeOK /\ PipeInv /\ ChunkInv /\ ReportInv /\ ObjectInv

-----------------------------------------------------------------------------
(* The state of BlobWriter a state of this module stands for. *)
Phase ==
    CASE caller \in {"idle", "write"} -> "open"
      [] caller = "returned" -> "closed"
      [] OTHER -> "closing"

BW == INSTANCE BlobWriter WITH Data <- Events, phase <- Phase, blob <- object

(* Every behaviour of the S3 writer is one of BlobWriter: the object       *)
(* appears only after Close was called, with all events, and Close returns *)
(* nil only if it is there.  This is what blobstore.go promises.  s3.go    *)
(* claims more, that the object is visible only once Close has returned    *)
(* without error, and it is not so: UploadComplete makes it visible while  *)
(* Close still waits, UploadAnswerLost although Close then returns an      *)
(* error.                                                                  *)
KeepsBlobPromise == BW!Spec

(* Close returns, unless the uploader gave up in mid-stream: for blobs     *)
(* below one part cancellation only costs the blob.                        *)
CloseReturnsUnlessAborted ==
    (caller = "gzclose") ~> (caller = "returned" \/ (up = "done" /\ chunk # NoChunk))

(* writer.go: Close "waits for the upload to finish so callers know        *)
(* whether the blob was actually committed": a Close that was called       *)
(* returns.                                                                *)
CloseReturns == (caller = "gzclose") ~> (caller = "returned")
=============================================================================
