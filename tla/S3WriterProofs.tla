--------------------------- MODULE S3WriterProofs ---------------------------
(***************************************************************************)
(* The S3 writer implements the Blobstore writer's promise, for any number *)
(* of events and any size of a part.                                       *)
(***************************************************************************)
EXTENDS S3Writer, SequenceTheorems, TLAPS

(* Giving one more event to Write. *)
LEMMA GivenType ==
    ASSUME TypeOK, Len(written) < MaxEvents
    PROVE  /\ Len(written) \in Nat
           /\ Len(written) + 1 \in Events
           /\ Len(Given) = Len(written) + 1
           /\ Given \in Seq(Events)
           /\ Append(buf, Len(Given)) \in Seq(Events)
BY SizesAssumption DEF TypeOK, Given, Events

(* Concatenation with nothing. *)
LEMMA EmptyRight == ASSUME NEW S, NEW a \in Seq(S) PROVE a \o <<>> = a
OBVIOUS

LEMMA EmptyLeft == ASSUME NEW S, NEW a \in Seq(S) PROVE <<>> \o a = a
OBVIOUS

LEMMA EmptyIsChunk == <<>> \in Seq(Events) /\ <<>> # NoChunk
<1>1. <<>> \in Seq(Events)
  OBVIOUS
<1> QED BY <1>1, NoAssumption

(* Init establishes the invariant. *)
LEMMA InitInv == Init => IndInv
<1> SUFFICES ASSUME Init PROVE IndInv
  OBVIOUS
<1> USE NoAssumption, EmptyIsChunk, SizesAssumption DEF Init
<1>1. TypeOK
  <2>1. part \in 0..PartSize
    OBVIOUS
  <2>2. written \in Seq(Events) /\ buf \in Seq(Events) /\ got \in Seq(Events)
    OBVIOUS
  <2> QED BY <2>1, <2>2 DEF TypeOK
<1>2. PipeInv
  <2>1. <<>> \in Seq(Events)
    OBVIOUS
  <2> QED BY <2>1, EmptyRight DEF PipeInv, InPipe
<1>3. ChunkInv /\ ReportInv /\ ObjectInv
  BY DEF ChunkInv, Closing, ReportInv, ObjectInv
<1> QED BY <1>1, <1>2, <1>3 DEF IndInv

(* A step keeps the types. *)
LEMMA TypeStep == IndInv /\ [Next]_vars => TypeOK'
<1> SUFFICES ASSUME IndInv, [Next]_vars PROVE TypeOK'
  OBVIOUS
<1> USE DEF IndInv, TypeOK
<1>1. CASE WriteBuffered
  BY <1>1, GivenType DEF WriteBuffered
<1>2. CASE WriteHeader
  BY <1>2, GivenType DEF WriteHeader
<1>3. CASE WriteFlush
  BY <1>3, GivenType DEF WriteFlush
<1>4. CASE CloseGzip
  BY <1>4 DEF CloseGzip
<1>5. CASE CloseTrailer
  BY <1>5 DEF CloseTrailer
<1>6. CASE ClosePipe \/ CloseReturn
  BY <1>6 DEF ClosePipe, CloseReturn
<1>7. CASE UploadRead
  BY <1>7, SizesAssumption DEF UploadRead, ChunkInv
<1>8. CASE UploadPart \/ UploadAbort \/ CtxCancel
  BY <1>8, SizesAssumption DEF UploadPart, UploadAbort, CtxCancel, Report, callerVars
<1>9. CASE UploadComplete \/ UploadFail \/ UploadAnswerLost
  BY <1>9 DEF UploadComplete, UploadFail, UploadAnswerLost, AtEof, Report, callerVars
<1>10. CASE UNCHANGED vars
  BY <1>10 DEF vars
<1> QED BY <1>1, <1>2, <1>3, <1>4, <1>5, <1>6, <1>7, <1>8, <1>9, <1>10 DEF Next, Caller, Upload

(* One more event goes to the end of what is on its way. *)
LEMMA GivenPipe ==
    ASSUME IndInv, Len(written) < MaxEvents
    PROVE  Given = got \o InPipe \o Append(buf, Len(Given))
<1> DEFINE x == Len(written) + 1
<1>1. x \in Events /\ Len(Given) = x
  BY GivenType DEF IndInv
<1>2. InPipe \in Seq(Events) /\ got \in Seq(Events) /\ buf \in Seq(Events)
  BY DEF IndInv, TypeOK, InPipe
<1>3. Given = Append(got \o InPipe \o buf, x)
  BY DEF IndInv, PipeInv, Given
<1>4. \A a, b, c \in Seq(Events), e \in Events : Append(a \o b \o c, e) = a \o b \o Append(c, e)
  <2> TAKE a, b, c \in Seq(Events), e \in Events
  <2>1. a \o b \in Seq(Events) /\ a \o b \o c \in Seq(Events) /\ <<e>> \in Seq(Events)
    OBVIOUS
  <2>2. Append(a \o b \o c, e) = (a \o b \o c) \o <<e>>
    BY <2>1, AppendIsConcat
  <2>3. Append(c, e) = c \o <<e>>
    BY AppendIsConcat
  <2>4. (a \o b \o c) \o <<e>> = a \o b \o (c \o <<e>>)
    BY <2>1, ConcatAssociative
  <2> QED BY <2>2, <2>3, <2>4
<1> HIDE DEF x
<1>5. Append(got \o InPipe \o buf, x) = got \o InPipe \o Append(buf, x)
  BY <1>1, <1>2, <1>4, Zenon
<1> QED BY <1>1, <1>3, <1>5

(* A step keeps the order and the completeness of what is on its way. *)
LEMMA PipeStep == IndInv /\ [Next]_vars => PipeInv'
<1> SUFFICES ASSUME IndInv, [Next]_vars PROVE PipeInv'
  OBVIOUS
<1> USE NoAssumption, EmptyIsChunk DEF IndInv
<1>0. /\ InPipe \in Seq(Events) /\ got \in Seq(Events) /\ buf \in Seq(Events)
      /\ <<>> \in Seq(Events) /\ got \o InPipe \in Seq(Events)
  BY DEF TypeOK, InPipe
<1>1. CASE WriteBuffered
  <2>1. Len(written) + 1 \in Events /\ Len(Given) = Len(written) + 1
    BY <1>1, GivenType DEF WriteBuffered
  <2>2. Given = got \o InPipe \o Append(buf, Len(Given))
    BY <1>1, GivenPipe DEF WriteBuffered
  <2> QED BY <1>1, <2>1, <2>2 DEF WriteBuffered, PipeInv, InPipe
<1>2. CASE WriteHeader
  <2>1. Len(written) + 1 \in Events /\ Len(Given) = Len(written) + 1
    BY <1>2, GivenType DEF WriteHeader
  <2>2. Given = got \o InPipe \o Append(buf, Len(Given))
    BY <1>2, GivenPipe DEF WriteHeader
  <2>3. InPipe = <<>> /\ InPipe' = <<>>
    BY <1>2 DEF WriteHeader, InPipe, ChunkInv
  <2> QED BY <1>2, <2>1, <2>2, <2>3 DEF WriteHeader, PipeInv
<1>3. CASE WriteFlush
  <2>1. Len(written) + 1 \in Events /\ Len(Given) = Len(written) + 1
    BY <1>3, GivenType DEF WriteFlush
  <2>2. Given = got \o InPipe \o Append(buf, Len(Given))
    BY <1>3, GivenPipe DEF WriteFlush
  <2>3. Append(buf, Len(Given)) \in Seq(Events)
    BY <1>0, <2>1
  <2>4. InPipe = <<>> /\ InPipe' = Append(buf, Len(Given))
    BY <1>3, <2>3 DEF WriteFlush, InPipe, ChunkInv
  <2>5. got \o InPipe \o Append(buf, Len(Given)) = got \o InPipe' \o <<>>
    BY <2>3, <2>4, <1>0, EmptyRight
  <2> QED BY <1>3, <2>1, <2>2, <2>5 DEF WriteFlush, PipeInv
<1>4. CASE CloseGzip
  <2>1. InPipe = <<>> /\ InPipe' = buf
    BY <1>4, <1>0 DEF CloseGzip, InPipe, ChunkInv
  <2>2. got \o InPipe \o buf = got \o InPipe' \o <<>>
    BY <2>1, <1>0, EmptyRight
  <2> QED BY <1>4, <2>2 DEF CloseGzip, PipeInv
<1>5. CASE CloseTrailer
  <2>1. InPipe = <<>> /\ InPipe' = <<>>
    BY <1>5 DEF CloseTrailer, InPipe, ChunkInv
  <2> QED BY <1>5, <2>1 DEF CloseTrailer, PipeInv
<1>6. CASE UploadRead
  <2>1. InPipe = chunk /\ InPipe' = <<>>
    BY <1>6 DEF UploadRead, InPipe
  <2>2. got' \o InPipe' = got \o InPipe
    BY <1>6, <2>1, <1>0, EmptyRight DEF UploadRead
  <2> QED BY <1>6, <2>2 DEF UploadRead, PipeInv
<1>7. CASE UNCHANGED <<written, buf, chunk, got>>
  BY <1>7 DEF PipeInv, InPipe
<1>8. ClosePipe \/ CloseReturn \/ UploadPart \/ UploadAbort \/ UploadComplete \/ UploadFail
      \/ UploadAnswerLost \/ CtxCancel \/ UNCHANGED vars
      => UNCHANGED <<written, buf, chunk, got>>
  BY DEF ClosePipe, CloseReturn, UploadPart, UploadAbort, UploadComplete, UploadFail,
         UploadAnswerLost, CtxCancel, callerVars, vars
<1> QED BY <1>1, <1>2, <1>3, <1>4, <1>5, <1>6, <1>7, <1>8 DEF Next, Caller, Upload

(* A step keeps what the ends of the pipe and of the channel know of each  *)
(* other.                                                                  *)
LEMMA ControlStep == IndInv /\ [Next]_vars => ChunkInv' /\ ReportInv'
<1> SUFFICES ASSUME IndInv, [Next]_vars PROVE ChunkInv' /\ ReportInv'
  OBVIOUS
<1> USE NoAssumption, EmptyIsChunk DEF IndInv, ChunkInv, ReportInv, Closing
<1>1. CASE WriteBuffered
  BY <1>1 DEF WriteBuffered
<1>2. CASE WriteHeader
  BY <1>2 DEF WriteHeader
<1>3. CASE WriteFlush
  <2>1. Append(buf, Len(Given)) \in Seq(Events)
    BY <1>3, GivenType DEF WriteFlush
  <2> QED BY <1>3, <2>1 DEF WriteFlush
<1>4. CASE CloseGzip
  BY <1>4 DEF CloseGzip, TypeOK
<1>5. CASE CloseTrailer
  BY <1>5 DEF CloseTrailer
<1>6. CASE ClosePipe \/ CloseReturn
  BY <1>6 DEF ClosePipe, CloseReturn
<1>7. CASE UploadRead
  BY <1>7 DEF UploadRead
<1>8. CASE UploadPart \/ UploadAbort \/ UploadComplete \/ UploadFail
          \/ UploadAnswerLost \/ CtxCancel
  BY <1>8 DEF UploadPart, UploadAbort, UploadComplete, UploadFail,
                UploadAnswerLost, CtxCancel, Report, callerVars
<1>9. CASE UNCHANGED vars
  BY <1>9 DEF vars
<1> QED BY <1>1, <1>2, <1>3, <1>4, <1>5, <1>6, <1>7, <1>8, <1>9 DEF Next, Caller, Upload

(* At the end of the upload the uploader has everything. *)
LEMMA EofGotAll == ASSUME IndInv, AtEof
                   PROVE  got = written /\ caller = "wait" /\ object = NoBlob
<1>1. caller = "wait"
  BY DEF IndInv, AtEof, ReportInv
<1>2. buf = <<>> /\ InPipe = <<>>
  BY <1>1 DEF IndInv, AtEof, ChunkInv, Closing, InPipe
<1>3. got \o InPipe \o buf = got
  BY <1>2, EmptyRight DEF IndInv, TypeOK
<1>4. object = NoBlob
  BY DEF IndInv, AtEof, ObjectInv
<1> QED BY <1>1, <1>3, <1>4 DEF IndInv, PipeInv

(* A step keeps the object whole. *)
LEMMA ObjectStep == IndInv /\ [Next]_vars => ObjectInv'
<1> SUFFICES ASSUME IndInv, [Next]_vars PROVE ObjectInv'
  OBVIOUS
<1> USE NoAssumption DEF ObjectInv
<1>1. CASE WriteBuffered \/ WriteHeader \/ WriteFlush
  <2>1. object = NoBlob /\ errCh # "ok"
    BY <1>1 DEF IndInv, WriteBuffered, WriteHeader, WriteFlush, TypeOK
  <2> QED BY <1>1, <2>1 DEF WriteBuffered, WriteHeader, WriteFlush
<1>2. CASE CloseGzip \/ CloseTrailer \/ ClosePipe \/ CloseReturn
  BY <1>2 DEF IndInv, CloseGzip, CloseTrailer, ClosePipe, CloseReturn
<1>3. CASE UploadRead
  BY <1>3 DEF IndInv, UploadRead, ReportInv
<1>4. CASE UploadPart \/ UploadAbort
  BY <1>4 DEF IndInv, UploadPart, UploadAbort, Report, callerVars
<1>5. CASE UploadComplete
  BY <1>5, EofGotAll DEF UploadComplete, Report, callerVars
<1>6. CASE UploadFail \/ UploadAnswerLost
  BY <1>6, EofGotAll DEF IndInv, UploadFail, UploadAnswerLost, Report, callerVars
<1>7. CASE CtxCancel \/ UNCHANGED vars
  BY <1>7 DEF IndInv, CtxCancel, callerVars, vars
<1> QED BY <1>1, <1>2, <1>3, <1>4, <1>5, <1>6, <1>7 DEF Next, Caller, Upload

(* Whatever the uploader and the context do, nothing written is lost or    *)
(* reordered on its way and nothing is reported that is not stored.        *)
THEOREM Invariance == Spec => []IndInv
<1>1. IndInv /\ [Next]_vars => IndInv'
  BY TypeStep, PipeStep, ControlStep, ObjectStep DEF IndInv
<1> QED BY InitInv, <1>1, PTL DEF Spec

(* A step of the writer is a step of BlobWriter or changes nothing that    *)
(* BlobWriter sees.                                                        *)
LEMMA StepRefines == IndInv /\ IndInv' /\ [Next]_vars => [BW!Next]_(BW!vars)
<1> SUFFICES ASSUME IndInv, IndInv', [Next]_vars PROVE [BW!Next]_(BW!vars)
  OBVIOUS
<1>0. /\ caller \in {"idle", "write"} <=> Phase = "open"
      /\ caller = "returned" <=> Phase = "closed"
      /\ caller \in {"gzclose", "flushed", "trailer", "closepipe", "wait"} <=> Phase = "closing"
  BY DEF Phase, IndInv, TypeOK
<1>1. /\ (caller \in {"idle", "write"})' <=> Phase' = "open"
      /\ (caller = "returned")' <=> Phase' = "closed"
      /\ (caller \in {"gzclose", "flushed", "trailer", "closepipe", "wait"})' <=> Phase' = "closing"
  BY DEF Phase, IndInv, TypeOK
<1>2. CASE WriteBuffered \/ WriteHeader \/ WriteFlush
  <2>1. Len(written) + 1 \in Events /\ written' = Append(written, Len(written) + 1)
    BY <1>2, GivenType DEF IndInv, WriteBuffered, WriteHeader, WriteFlush, Given
  <2>2. Phase = "open" /\ Phase' = "open" /\ UNCHANGED <<object, res>>
    BY <1>2, <1>0, <1>1 DEF WriteBuffered, WriteHeader, WriteFlush
  <2>3. BW!Write
    BY <2>1, <2>2 DEF BW!Write
  <2> QED BY <2>3 DEF BW!Next
<1>3. CASE CloseGzip
  <2>1. BW!CallClose
    BY <1>3, <1>0, <1>1 DEF CloseGzip, BW!CallClose
  <2> QED BY <2>1 DEF BW!Next
<1>4. CASE CloseTrailer \/ ClosePipe \/ UploadRead \/ UploadPart \/ UploadAbort \/ CtxCancel
  <2>1. UNCHANGED <<written, object, res>>
    BY <1>4 DEF CloseTrailer, ClosePipe, UploadRead, UploadPart, UploadAbort, CtxCancel, callerVars
  <2>2. CASE UploadRead
    <3>1. caller \in {"write", "gzclose", "trailer"}
      BY <2>2 DEF IndInv, ChunkInv, UploadRead
    <3>2. Phase' = Phase
      BY <2>2, <3>1, <1>0, <1>1 DEF UploadRead
    <3> QED BY <2>1, <3>2 DEF BW!vars
  <2>3. CASE CloseTrailer \/ ClosePipe \/ UploadPart \/ UploadAbort \/ CtxCancel
    <3>1. Phase' = Phase
      BY <2>3, <1>0, <1>1 DEF CloseTrailer, ClosePipe, UploadPart, UploadAbort, CtxCancel,
                              callerVars, Phase
    <3> QED BY <2>1, <3>1 DEF BW!vars
  <2> QED BY <1>4, <2>2, <2>3
<1>5. CASE CloseReturn
  <2>1. /\ Phase = "closing" /\ Phase' = "closed"
        /\ res' = errCh /\ UNCHANGED <<written, object>>
    BY <1>5, <1>0, <1>1 DEF CloseReturn
  <2>2. CASE errCh = "ok"
    <3>1. BW!CloseOk
      BY <2>1, <2>2 DEF BW!CloseOk, IndInv, ObjectInv
    <3> QED BY <3>1 DEF BW!Next
  <2>3. CASE errCh = "error"
    <3>1. BW!CloseError
      BY <2>1, <2>3 DEF BW!CloseError
    <3> QED BY <3>1 DEF BW!Next
  <2> QED BY <1>5, <2>2, <2>3 DEF CloseReturn, IndInv, TypeOK
<1>6. CASE UploadComplete \/ UploadFail \/ UploadAnswerLost
  <2>1. got = written /\ caller = "wait" /\ object = NoBlob
    BY <1>6, EofGotAll DEF UploadComplete, UploadFail, UploadAnswerLost
  <2>2. /\ Phase = "closing" /\ Phase' = "closing"
        /\ object' \in {object, written} /\ UNCHANGED <<written, res>>
    BY <1>6, <2>1, <1>0, <1>1 DEF UploadComplete, UploadFail, UploadAnswerLost, callerVars
  <2>3. CASE object' = written
    <3>1. BW!Commit
      BY <2>1, <2>2, <2>3 DEF BW!Commit
    <3> QED BY <3>1 DEF BW!Next
  <2>4. CASE object' = object
    BY <2>2, <2>4 DEF BW!vars
  <2> QED BY <2>2, <2>3, <2>4
<1>7. CASE UNCHANGED vars
  BY <1>7 DEF vars, BW!vars, Phase
<1> QED BY <1>2, <1>3, <1>4, <1>5, <1>6, <1>7 DEF Next, Caller, Upload

(* The S3 writer keeps the promise of the Blobstore interface: the object  *)
(* appears only after Close was called, holds every event in order, and    *)
(* Close returns nil only when it is there.                                *)
THEOREM KeepsPromise == Spec => KeepsBlobPromise
<1>1. Init => BW!Init
  BY DEF Init, BW!Init, Phase
<1> QED BY <1>1, Invariance, StepRefines, PTL DEF Spec, KeepsBlobPromise, BW!Spec

(* Nothing written is lost or reordered between gzip, the pipe and the     *)
(* uploader.                                                               *)
THEOREM PipeKeepsOrder == Spec => []PipeInv
<1>1. IndInv => PipeInv
  BY DEF IndInv
<1> QED BY <1>1, Invariance, PTL

(* The locals of the writer, the pipe and the uploader keep their types.   *)
THEOREM TypeCorrect == Spec => []TypeOK
<1>1. IndInv => TypeOK
  BY DEF IndInv
<1> QED BY <1>1, Invariance, PTL
=============================================================================
