------------------------- MODULE EventIngestProofs -------------------------
(* Proofs about EventIngest, for every number of calls, invocations,       *)
(* messages, restarts and readers and every choice of faults.              *)
EXTENDS EventIngest, TLAPS

(* Appending to a sequence keeps its elements and adds one at the end. *)
LEMMA AppendFacts ==
    ASSUME NEW S, NEW s \in Seq(S), NEW e \in S
    PROVE  /\ Append(s, e) \in Seq(S)
           /\ Len(Append(s, e)) = Len(s) + 1
           /\ DOMAIN s = 1..Len(s)
           /\ DOMAIN Append(s, e) = 1..(Len(s) + 1)
           /\ \A k \in 1..Len(s) : Append(s, e)[k] = s[k]
           /\ Append(s, e)[Len(s) + 1] = e
  OBVIOUS

(* Permuting a sequence gives a sequence of the same length. *)
LEMMA PermuteFacts ==
    ASSUME NEW S, NEW s \in Seq(S), NEW p \in [DOMAIN s -> DOMAIN s]
    PROVE  /\ Permute(p, s) \in Seq(S)
           /\ Len(Permute(p, s)) = Len(s)
           /\ \A k \in DOMAIN s : Permute(p, s)[k] = s[p[k]]
  <1>1. DOMAIN s = 1..Len(s) /\ Len(s) \in Nat
    OBVIOUS
  <1>2. Permute(p, s) \in [1..Len(s) -> S]
    BY <1>1 DEF Permute
  <1>3. Permute(p, s) \in Seq(S) /\ DOMAIN Permute(p, s) = 1..Len(s)
    BY <1>1, <1>2
  <1>4. Len(Permute(p, s)) = Len(s)
    BY <1>1, <1>3
  <1> QED
    BY <1>3, <1>4 DEF Permute

-----------------------------------------------------------------------------
(* Type correctness. *)

LEMMA InitType == Init => TypeOK
  <1> SUFFICES ASSUME Init PROVE TypeOK
    OBVIOUS
  <1>1. <<>> \in Seq(Seqs)
    OBVIOUS
  <1> QED
    BY <1>1 DEF Init, TypeOK, PCs, Results, WriterState, FileState, RowState, ReadState

(* The steps of the receive loop keep the types. *)
LEMMA RecvType ==
    ASSUME TypeOK, CallInv, NEW h \in Streams, Recv(h)
    PROVE  TypeOK'
  <1>1. ASSUME NEW i \in Invocations, NEW n \in Seqs, RecvBazelEvent(h, i, n)
        PROVE  TypeOK'
    BY <1>1 DEF RecvBazelEvent, TypeOK, storeVars, PCs
  <1>2. ASSUME NEW i \in Invocations, NEW n \in Seqs, RecvOtherEvent(h, i, n)
        PROVE  TypeOK'
    <2>1. acks' \in [Streams -> Seq(Seqs)]
      BY <1>2 DEF RecvOtherEvent, Acked, TypeOK
    <2> QED
      BY <1>2, <2>1 DEF RecvOtherEvent, Acked, TypeOK, storeVars, PCs
  <1>3. ASSUME RecvNoInvocation(h) PROVE TypeOK'
    BY <1>3 DEF RecvNoInvocation, Return, TypeOK, storeVars, PCs, Results
  <1>4. ASSUME RecvError(h) PROVE TypeOK'
    BY <1>4 DEF RecvError, Return, TypeOK, storeVars, PCs, Results
  <1>5. ASSUME EofNoStream(h) PROVE TypeOK'
    BY <1>5 DEF EofNoStream, Return, TypeOK, storeVars, PCs, Results
  <1>6. ASSUME NEW p \in [DOMAIN acks[h] -> DOMAIN acks[h]]
        PROVE  Permute(p, acks[h]) \in Seq(Seqs)
    <2>1. acks[h] \in Seq(Seqs)
      BY DEF TypeOK
    <2> QED
      BY <2>1, PermuteFacts
  <1>7. ASSUME EofAccept(h) PROVE TypeOK'
    <2>1. acks' \in [Streams -> Seq(Seqs)]
      BY <1>6, <1>7 DEF EofAccept, TypeOK
    <2> QED
      BY <1>7, <2>1 DEF EofAccept, TypeOK, storeVars, PCs
  <1>8. ASSUME EofReject(h) PROVE TypeOK'
    <2>1. acks' \in [Streams -> Seq(Seqs)]
      BY <1>6, <1>8 DEF EofReject, TypeOK
    <2> QED
      BY <1>8, <2>1 DEF EofReject, Return, TypeOK, storeVars, PCs, Results
  <1> QED
    BY <1>1, <1>2, <1>3, <1>4, <1>5, <1>7, <1>8 DEF Recv

(* AppendReturns keeps the types of what it assigns. *)
LEMMA AppendReturnsType ==
    ASSUME TypeOK, NEW h \in Streams, cur[h] \in Seqs, AppendReturns(h)
    PROVE  /\ parsed' \in [Streams -> Seq(Seqs)]
           /\ acks' \in [Streams -> Seq(Seqs)]
           /\ pc' \in [Streams -> PCs]
           /\ held' \in [Streams -> WriterIds \cup {None}]
           /\ cur' \in [Streams -> Seqs \cup {0}]
  <1>1. Append(parsed[h], cur[h]) \in Seq(Seqs) /\ Append(acks[h], cur[h]) \in Seq(Seqs)
    BY DEF TypeOK
  <1> QED
    BY <1>1 DEF AppendReturns, Acked, TypeOK, PCs

(* Flush keeps the type of file. *)
LEMMA FlushType ==
    ASSUME TypeOK, NEW i \in Invocations, NEW s \in {"absent", "torn", "valid"},
           NEW d \in Seq(Seqs), Flush(i, s, d)
    PROVE  file' \in [Invocations -> FileState]
  <1>1. <<>> \in Seq(Seqs)
    OBVIOUS
  <1>2. (IF s = "valid" THEN d ELSE <<>>) \in Seq(Seqs)
    BY <1>1
  <1>3. file \in [Invocations -> FileState]
    BY DEF TypeOK
  <1> QED
    BY <1>2, <1>3 DEF Flush, FileState

(* The steps of AppendEvent keep the types. *)
LEMMA AppendType ==
    ASSUME TypeOK, CallInv, NEW h \in Streams, AppendEvent(h)
    PROVE  TypeOK'
  <1>1. ASSUME WriterForHit(h) PROVE TypeOK'
    <2>1. inv[h] \in Invocations
      BY <1>1 DEF WriterForHit, CallInv, CallOK
    <2> QED
      BY <1>1, <2>1 DEF WriterForHit, TypeOK, storeVars, PCs
  <1>2. ASSUME WriterForOpen(h) PROVE TypeOK'
    <2> DEFINE w == <<h, Len(acks[h]) + 1>>
    <2>1. inv[h] \in Invocations /\ Len(acks[h]) < MaxMsgs
      BY <1>2 DEF WriterForOpen, CallInv, CallOK
    <2>2. w \in WriterIds
      BY <2>1, BoundsAssumption DEF TypeOK, WriterIds
    <2>3. wr' \in [WriterIds -> WriterState]
      BY <1>2, <2>2, ZenonT(30) DEF WriterForOpen, TypeOK, WriterState
    <2>4. file' \in [Invocations -> FileState]
      <3>1. <<>> \in Seq(Seqs)
        OBVIOUS
      <3>2. (OpenOn(inv[h]) # {}) \in BOOLEAN
        OBVIOUS
      <3> QED
        BY <1>2, <2>1, <3>1, <3>2 DEF WriterForOpen, Truncate, TypeOK, FileState
    <2> QED
      BY <1>2, <2>1, <2>2, <2>3, <2>4 DEF WriterForOpen, TypeOK, PCs
  <1>3. ASSUME AppendFails(h) PROVE TypeOK'
    <2>1. cur[h] \in Seqs /\ AppendReturns(h)
      BY <1>3 DEF AppendFails, CallInv, CallOK
    <2> QED
      BY <1>3, <2>1, AppendReturnsType DEF AppendFails, TypeOK, storeVars
  <1>4. ASSUME Write(h) PROVE TypeOK'
    <2>1. cur[h] \in Seqs /\ inv[h] \in Invocations /\ held[h] \in WriterIds /\ AppendReturns(h)
      BY <1>4 DEF Write, CallInv, CallOK
    <2>2. wr[held[h]] \in WriterState
      BY <2>1 DEF TypeOK
    <2>3. Append(wr[held[h]].data, cur[h]) \in Seq(Seqs)
      BY <2>1, <2>2 DEF WriterState
    <2>4. (IF Shared(h, held[h]) THEN TRUE ELSE wr[held[h]].raced) \in BOOLEAN
      BY <2>2 DEF WriterState
    <2>5. wr' \in [WriterIds -> WriterState]
      BY <1>4, <2>1, <2>3, <2>4 DEF Write, TypeOK, WriterState
    <2>6. file[inv[h]] \in FileState
      BY <2>1 DEF TypeOK
    <2>7. file' \in [Invocations -> FileState]
      <3>1. PICK s \in AfterWrite(inv[h]) : Flush(inv[h], s, file[inv[h]].data)
        BY <1>4 DEF Write
      <3>2. s \in {"absent", "torn", "valid"} /\ file[inv[h]].data \in Seq(Seqs)
        BY <2>6, <3>1 DEF AfterWrite, FileState
      <3> QED
        BY <2>1, <3>1, <3>2, FlushType
    <2> QED
      BY <1>4, <2>1, <2>5, <2>7, AppendReturnsType DEF Write, TypeOK
  <1>5. ASSUME WriteFails(h) PROVE TypeOK'
    <2>1. cur[h] \in Seqs /\ held[h] \in WriterIds /\ AppendReturns(h)
      BY <1>5 DEF WriteFails, CallInv, CallOK
    <2>2. wr' \in [WriterIds -> WriterState]
      BY <1>5, <2>1, ZenonT(30) DEF WriteFails, TypeOK, WriterState
    <2> QED
      BY <1>5, <2>1, <2>2, AppendReturnsType DEF WriteFails, TypeOK
  <1> QED
    BY <1>1, <1>2, <1>3, <1>4, <1>5 DEF AppendEvent

(* The steps of finish keep the types. *)
LEMMA FinishType ==
    ASSUME TypeOK, CallInv, NEW h \in Streams, Finish(h)
    PROVE  TypeOK'
  <1>1. ASSUME FinalizeTake(h) PROVE TypeOK'
    <2>1. inv[h] \in Invocations
      BY <1>1 DEF FinalizeTake, CallInv, CallOK, Finishing
    <2> QED
      BY <1>1, <2>1 DEF FinalizeTake, TypeOK, PCs
  <1>2. ASSUME Close(h) PROVE TypeOK'
    <2>1. inv[h] \in Invocations /\ held[h] \in WriterIds
      BY <1>2 DEF Close, CallInv, CallOK, Finishing
    <2>2. wr' \in [WriterIds -> WriterState]
      BY <1>2, <2>1, ZenonT(30) DEF Close, TypeOK, WriterState
    <2>3. file' \in [Invocations -> FileState]
      <3>1. PICK s \in AfterClose(h, held[h], inv[h]) : Flush(inv[h], s, wr[held[h]].data)
        BY <1>2 DEF Close
      <3>2. s \in {"absent", "torn", "valid"}
        BY <3>1 DEF AfterClose
      <3>3. wr[held[h]].data \in Seq(Seqs)
        BY <2>1 DEF TypeOK, WriterState
      <3> QED
        BY <2>1, <3>1, <3>2, <3>3, FlushType
    <2> QED
      BY <1>2, <2>1, <2>2, <2>3 DEF Close, TypeOK, PCs
  <1>3. ASSUME CloseFails(h) PROVE TypeOK'
    <2>1. inv[h] \in Invocations /\ held[h] \in WriterIds
      BY <1>3 DEF CloseFails, CallInv, CallOK, Finishing
    <2>2. wr' \in [WriterIds -> WriterState]
      BY <1>3, <2>1, ZenonT(30) DEF CloseFails, TypeOK, WriterState
    <2>3. file' \in [Invocations -> FileState]
      <3>1. file[inv[h]] \in FileState /\ wr[held[h]] \in WriterState
        BY <2>1 DEF TypeOK
      <3>2. ASSUME NEW s \in AfterWrite(inv[h]), Flush(inv[h], s, file[inv[h]].data)
            PROVE  file' \in [Invocations -> FileState]
        <4>1. s \in {"absent", "torn", "valid"} /\ file[inv[h]].data \in Seq(Seqs)
          BY <3>1, <3>2 DEF AfterWrite, FileState
        <4> QED
          BY <2>1, <3>2, <4>1, FlushType
      <3>3. ASSUME NEW s \in AfterClose(h, held[h], inv[h]), Flush(inv[h], s, wr[held[h]].data)
            PROVE  file' \in [Invocations -> FileState]
        <4>1. s \in {"absent", "torn", "valid"} /\ wr[held[h]].data \in Seq(Seqs)
          BY <3>1, <3>3 DEF AfterClose, WriterState
        <4> QED
          BY <2>1, <3>3, <4>1, FlushType
      <3> QED
        BY <1>3, <3>2, <3>3 DEF CloseFails
    <2> QED
      BY <1>3, <2>1, <2>2, <2>3 DEF CloseFails, TypeOK, PCs
  <1>4. ASSUME Upsert(h) PROVE TypeOK'
    <2>1. inv[h] \in Invocations /\ parsed[h] \in Seq(Seqs)
      BY <1>4 DEF Upsert, CallInv, CallOK, Finishing, TypeOK
    <2>2. (IF row[inv[h]] = None THEN h ELSE row[inv[h]].created) \in Streams
      BY <2>1 DEF TypeOK, RowState
    <2>3. row' \in [Invocations -> RowState \cup {None}]
      BY <1>4, <2>1, <2>2 DEF Upsert, TypeOK, RowState
    <2> QED
      BY <1>4, <2>3 DEF Upsert, TypeOK, PCs
  <1>5. ASSUME UpsertFails(h) PROVE TypeOK'
    BY <1>5 DEF UpsertFails, TypeOK, storeVars, PCs
  <1>6. ASSUME SendAck(h) PROVE TypeOK'
    BY <1>6 DEF SendAck, TypeOK, storeVars
  <1>7. ASSUME SendFails(h) PROVE TypeOK'
    BY <1>7 DEF SendFails, Return, TypeOK, storeVars, PCs, Results
  <1>8. ASSUME ReturnOk(h) PROVE TypeOK'
    BY <1>8 DEF ReturnOk, Return, TypeOK, storeVars, PCs, Results
  <1>9. ASSUME Disconnect(h) PROVE TypeOK'
    BY <1>9 DEF Disconnect, TypeOK, storeVars
  <1> QED
    BY <1>1, <1>2, <1>3, <1>4, <1>5, <1>6, <1>7, <1>8, <1>9 DEF Finish

(* A restart keeps the types. *)
LEMMA CrashType ==
    ASSUME TypeOK, Crash
    PROVE  TypeOK'
  <1>1. wr' \in [WriterIds -> WriterState]
    BY ZenonT(30) DEF Crash, TypeOK, WriterState
  <1>2. rd' \in [Readers -> ReadState]
    <2> SUFFICES ASSUME NEW r \in Readers PROVE rd'[r] \in ReadState
      BY DEF Crash
    <2>1. rd[r] \in ReadState
      BY DEF TypeOK
    <2>2. [rd[r] EXCEPT !.pc = "done", !.err = TRUE] \in ReadState
      BY <2>1 DEF ReadState
    <2> QED
      BY <2>1, <2>2 DEF Crash
  <1>3. pc' \in [Streams -> PCs] /\ result' \in [Streams -> Results]
    BY DEF Crash, TypeOK, PCs, Results
  <1>4. held' \in [Streams -> WriterIds \cup {None}]
    BY DEF Crash
  <1>5. writers' \in [Invocations -> WriterIds \cup {None}]
    BY DEF Crash
  <1>6. UNCHANGED <<inv, cur, parsed, acks, sent, lost, file, row>> /\ crashes' = crashes + 1
    BY DEF Crash
  <1>7. crashes' \in Nat
    BY <1>6 DEF TypeOK
  <1> QED
    BY <1>1, <1>2, <1>3, <1>4, <1>5, <1>6, <1>7 DEF TypeOK

(* ReadEvents keeps the types. *)
LEMMA ReadType ==
    ASSUME TypeOK, ReaderInv, NEW r \in Readers, ReadEvents(r)
    PROVE  TypeOK'
  <1>0. rd[r] \in ReadState /\ rd \in [Readers -> ReadState]
    BY DEF TypeOK
  <1>1. ASSUME NEW i \in Invocations, ReadExists(r, i) PROVE rd' \in [Readers -> ReadState]
    <2>1. [rd[r] EXCEPT !.pc = "done", !.inv = i] \in ReadState
      BY <1>0 DEF ReadState
    <2>2. [rd[r] EXCEPT !.pc = "read", !.inv = i, !.found = TRUE] \in ReadState
      BY <1>0 DEF ReadState
    <2> QED
      BY <1>0, <1>1, <2>1, <2>2 DEF ReadExists
  <1>2. ASSUME ReadBlob(r) PROVE rd' \in [Readers -> ReadState]
    <2> DEFINE d == file[rd[r].inv].data
    <2>1. d \in Seq(Seqs)
      BY <1>2 DEF ReadBlob, ReaderInv, TypeOK, FileState
    <2> HIDE DEF d
    <2>2. [rd[r] EXCEPT !.pc = "done", !.events = d] \in ReadState
      BY <1>0, <2>1 DEF ReadState
    <2>3. [rd[r] EXCEPT !.pc = "done", !.err = TRUE] \in ReadState
      BY <1>0 DEF ReadState
    <2> QED
      BY <1>0, <1>2, <2>2, <2>3 DEF ReadBlob, d
  <1>3. rd' \in [Readers -> ReadState]
    BY <1>1, <1>2 DEF ReadEvents
  <1>4. UNCHANGED <<callVars, storeVars>>
    BY DEF ReadEvents, ReadExists, ReadBlob
  <1> QED
    BY <1>3, <1>4 DEF TypeOK, callVars, storeVars

(* Every step keeps the types. *)
LEMMA NextType == TypeOK /\ CallInv /\ ReaderInv /\ [Next]_vars => TypeOK'
  <1> SUFFICES ASSUME TypeOK, CallInv, ReaderInv, [Next]_vars PROVE TypeOK'
    OBVIOUS
  <1>1. CASE \E h \in Streams : Recv(h) \/ AppendEvent(h) \/ Finish(h)
    BY <1>1, RecvType, AppendType, FinishType
  <1>2. CASE \E r \in Readers : ReadEvents(r)
    BY <1>2, ReadType
  <1>3. CASE Crash
    BY <1>3, CrashType
  <1>4. CASE UNCHANGED vars
    BY <1>4 DEF vars, TypeOK
  <1> QED
    BY <1>1, <1>2, <1>3, <1>4 DEF Next, AllReturned

-----------------------------------------------------------------------------
(* What a call knows of its locals. *)

(* A parsed event keeps its own ack when both sequences grow. *)
LEMMA EmbeddedAppend ==
    ASSUME NEW S, NEW s \in Seq(S), NEW t \in Seq(S), NEW e \in S, Embedded(s, t)
    PROVE  Embedded(Append(s, e), Append(t, e)) /\ Embedded(s, Append(t, e))
  <1>1. PICK f \in [DOMAIN s -> DOMAIN t] :
          /\ \A j, k \in DOMAIN s : f[j] = f[k] => j = k
          /\ \A j \in DOMAIN s : s[j] = t[f[j]]
    BY DEF Embedded
  <1>2. DOMAIN s = 1..Len(s) /\ DOMAIN t = 1..Len(t) /\ Len(s) \in Nat /\ Len(t) \in Nat
    OBVIOUS
  <1>3. Embedded(s, Append(t, e))
    <2>1. f \in [DOMAIN s -> DOMAIN Append(t, e)]
      BY <1>1, <1>2, AppendFacts
    <2>2. \A j \in DOMAIN s : s[j] = Append(t, e)[f[j]]
      BY <1>1, <1>2, AppendFacts
    <2> QED
      BY <1>1, <2>1, <2>2 DEF Embedded
  <1>4. Embedded(Append(s, e), Append(t, e))
    <2> DEFINE g == [j \in DOMAIN Append(s, e) |-> IF j \in DOMAIN s THEN f[j] ELSE Len(t) + 1]
    <2>1. DOMAIN Append(s, e) = 1..(Len(s) + 1) /\ DOMAIN Append(t, e) = 1..(Len(t) + 1)
      BY AppendFacts
    <2>2. g \in [DOMAIN Append(s, e) -> DOMAIN Append(t, e)]
      BY <1>1, <1>2, <2>1
    <2>3. \A j, k \in DOMAIN Append(s, e) : g[j] = g[k] => j = k
      BY <1>1, <1>2, <2>1
    <2>4. \A j \in DOMAIN Append(s, e) : Append(s, e)[j] = Append(t, e)[g[j]]
      <3> SUFFICES ASSUME NEW j \in 1..(Len(s) + 1)
                   PROVE  Append(s, e)[j] = Append(t, e)[g[j]]
        BY <2>1
      <3>1. CASE j \in 1..Len(s)
        <4>1. g[j] = f[j] /\ f[j] \in 1..Len(t) /\ s[j] = t[f[j]]
          BY <1>1, <1>2, <2>1, <3>1
        <4> QED
          BY <3>1, <4>1, AppendFacts
      <3>2. CASE j = Len(s) + 1
        <4>1. g[j] = Len(t) + 1
          BY <1>2, <2>1, <3>2
        <4> QED
          BY <3>2, <4>1, AppendFacts
      <3> QED
        BY <1>2, <3>1, <3>2
    <2> QED
      BY <2>2, <2>3, <2>4 DEF Embedded
  <1> QED
    BY <1>3, <1>4

(* What finish concludes: if the sorted acks are 1..n, the parsed events   *)
(* are different numbers up to n.                                          *)
LEMMA SortedOnce ==
    ASSUME NEW s \in Seq(Seqs), NEW t \in Seq(Seqs), Embedded(s, t),
           NEW p \in [DOMAIN t -> DOMAIN t], Sorts(p, t), Contiguous(Permute(p, t))
    PROVE  /\ Contiguous(Permute(p, t))
           /\ OnceUpTo(s, Len(Permute(p, t)))
  <1>1. PICK f \in [DOMAIN s -> DOMAIN t] :
          /\ \A j, k \in DOMAIN s : f[j] = f[k] => j = k
          /\ \A j \in DOMAIN s : s[j] = t[f[j]]
    BY DEF Embedded
  <1>2. DOMAIN t = 1..Len(t) /\ Len(t) \in Nat /\ Len(Permute(p, t)) = Len(t)
    BY PermuteFacts
  <1>3. \A k \in DOMAIN t : t[p[k]] = k
    BY DEF Contiguous, Permute
  <1>4. \A m \in DOMAIN t : t[m] \in DOMAIN t /\ p[t[m]] = m
    BY <1>3 DEF Sorts
  <1>5. \A j, k \in DOMAIN s : s[j] = s[k] => j = k
    BY <1>1, <1>4
  <1>6. \A j \in DOMAIN s : s[j] <= Len(t)
    BY <1>1, <1>2, <1>4
  <1> QED
    BY <1>2, <1>5, <1>6 DEF OnceUpTo

(* g's locals do not change. *)
Untouched(g) ==
    /\ pc'[g] = pc[g] /\ inv'[g] = inv[g] /\ cur'[g] = cur[g] /\ parsed'[g] = parsed[g]
    /\ acks'[g] = acks[g] /\ held'[g] = held[g] /\ sent'[g] = sent[g]

(* A step of one call leaves the locals of the others alone. *)
LEMMA CallFrame ==
    ASSUME TypeOK, NEW h \in Streams, Recv(h) \/ AppendEvent(h) \/ Finish(h),
           NEW g \in Streams, g # h
    PROVE  Untouched(g)
  <1>1. CASE Recv(h)
    <2>1. ASSUME NEW i \in Invocations, NEW n \in Seqs,
                 RecvBazelEvent(h, i, n) \/ RecvOtherEvent(h, i, n)
          PROVE  Untouched(g)
      BY <2>1 DEF RecvBazelEvent, RecvOtherEvent, Acked, TypeOK, Untouched
    <2>2. CASE RecvNoInvocation(h) \/ RecvError(h) \/ EofNoStream(h)
      BY <2>2 DEF RecvNoInvocation, RecvError, EofNoStream, Return, TypeOK, Untouched
    <2>3. CASE EofAccept(h)
      BY <2>3 DEF EofAccept, TypeOK, Untouched
    <2>4. CASE EofReject(h)
      BY <2>4 DEF EofReject, Return, TypeOK, Untouched
    <2> QED
      BY <1>1, <2>1, <2>2, <2>3, <2>4 DEF Recv
  <1>2. CASE AppendEvent(h)
    <2>1. ASSUME AppendReturns(h), UNCHANGED <<inv, sent>> PROVE Untouched(g)
      BY <2>1 DEF AppendReturns, Acked, TypeOK, Untouched
    <2>2. CASE WriterForHit(h)
      BY <2>2 DEF WriterForHit, TypeOK, Untouched
    <2>3. CASE WriterForOpen(h)
      BY <2>3 DEF WriterForOpen, TypeOK, Untouched
    <2>4. CASE AppendFails(h)
      BY <2>1, <2>4 DEF AppendFails
    <2>5. CASE Write(h)
      BY <2>1, <2>5 DEF Write
    <2>6. CASE WriteFails(h)
      BY <2>1, <2>6 DEF WriteFails
    <2> QED
      BY <1>2, <2>2, <2>3, <2>4, <2>5, <2>6 DEF AppendEvent
  <1>3. CASE Finish(h)
    <2>1. CASE FinalizeTake(h)
      BY <2>1 DEF FinalizeTake, TypeOK, Untouched
    <2>2. CASE Close(h)
      BY <2>2 DEF Close, TypeOK, Untouched
    <2>3. CASE CloseFails(h)
      BY <2>3 DEF CloseFails, TypeOK, Untouched
    <2>4. CASE Upsert(h) \/ UpsertFails(h)
      BY <2>4 DEF Upsert, UpsertFails, TypeOK, Untouched
    <2>5. CASE SendAck(h) \/ SendFails(h) \/ ReturnOk(h)
      BY <2>5 DEF SendAck, SendFails, ReturnOk, Return, TypeOK, Untouched
    <2>6. CASE Disconnect(h)
      BY <2>6 DEF Disconnect, Untouched
    <2> QED
      BY <1>3, <2>1, <2>2, <2>3, <2>4, <2>5, <2>6 DEF Finish
  <1> QED
    BY <1>1, <1>2, <1>3

(* An untouched call knows what it knew. *)
LEMMA UntouchedOK ==
    ASSUME NEW g \in Streams, Untouched(g), CallOK(g), ParsedOK(g)
    PROVE  CallOK(g)' /\ ParsedOK(g)'
  BY DEF Untouched, CallOK, ParsedOK, Embedded, Contiguous, OnceUpTo

(* AppendReturns takes a call back to the loop with one more parsed event  *)
(* and its ack.                                                            *)
LEMMA AppendReturnsOK ==
    ASSUME TypeOK, NEW h \in Streams, CallOK(h), ParsedOK(h), pc[h] \in {"lookup", "write"},
           AppendReturns(h), sent' = sent
    PROVE  CallOK(h)' /\ ParsedOK(h)'
  <1>1. cur[h] \in Seqs /\ parsed[h] \in Seq(Seqs) /\ acks[h] \in Seq(Seqs)
    BY DEF CallOK, TypeOK
  <1>2. Embedded(parsed[h], acks[h]) /\ ~(sent[h] > 0)
    BY DEF CallOK, ParsedOK
  <1>3. parsed'[h] = Append(parsed[h], cur[h]) /\ acks'[h] = Append(acks[h], cur[h])
    BY DEF AppendReturns, Acked, TypeOK
  <1>4. pc'[h] = "recv" /\ sent'[h] = sent[h]
    BY DEF AppendReturns, Acked, TypeOK
  <1>5. Embedded(parsed'[h], acks'[h])
    BY <1>1, <1>2, <1>3, EmbeddedAppend
  <1> QED
    BY <1>2, <1>4, <1>5 DEF CallOK, ParsedOK, Embedded, Finishing

(* The receive loop keeps what its call knows. *)
LEMMA RecvOK ==
    ASSUME TypeOK, NEW h \in Streams, CallOK(h), ParsedOK(h), Recv(h)
    PROVE  CallOK(h)' /\ ParsedOK(h)'
  <1>1. pc[h] = "recv" /\ ~(sent[h] > 0) /\ Embedded(parsed[h], acks[h])
    BY DEF Recv, RecvBazelEvent, RecvOtherEvent, RecvNoInvocation, RecvError, EofNoStream,
           EofAccept, EofReject, CallOK, ParsedOK
  <1>2. sent'[h] = sent[h] /\ parsed'[h] = parsed[h]
    BY DEF Recv, RecvBazelEvent, RecvOtherEvent, RecvNoInvocation, RecvError, EofNoStream,
           EofAccept, EofReject
  <1>3. parsed[h] \in Seq(Seqs) /\ acks[h] \in Seq(Seqs)
    BY DEF TypeOK
  <1>4. ASSUME NEW i \in Invocations, NEW n \in Seqs, RecvBazelEvent(h, i, n)
        PROVE  CallOK(h)' /\ ParsedOK(h)'
    <2>1. pc'[h] = "lookup" /\ inv'[h] = i /\ cur'[h] = n /\ acks'[h] = acks[h]
      BY <1>4 DEF RecvBazelEvent, TypeOK
    <2>2. Len(acks[h]) < MaxMsgs
      BY <1>4 DEF RecvBazelEvent, ClientSends
    <2> QED
      BY <1>1, <1>2, <2>1, <2>2 DEF CallOK, ParsedOK, Embedded, Finishing
  <1>5. ASSUME NEW i \in Invocations, NEW n \in Seqs, RecvOtherEvent(h, i, n)
        PROVE  CallOK(h)' /\ ParsedOK(h)'
    <2>1. pc'[h] = "recv" /\ acks'[h] = Append(acks[h], n)
      BY <1>5 DEF RecvOtherEvent, Acked, TypeOK
    <2>2. Embedded(parsed'[h], acks'[h])
      BY <1>1, <1>2, <1>3, <2>1, EmbeddedAppend
    <2> QED
      BY <1>1, <1>2, <2>1, <2>2 DEF CallOK, ParsedOK, Embedded, Finishing
  <1>6. CASE RecvNoInvocation(h) \/ RecvError(h) \/ EofNoStream(h) \/ EofReject(h)
    <2>1. pc'[h] = "done"
      BY <1>6 DEF RecvNoInvocation, RecvError, EofNoStream, EofReject, Return, TypeOK
    <2> QED
      BY <1>1, <1>2, <2>1 DEF CallOK, ParsedOK, Finishing
  <1>7. CASE EofAccept(h)
    <2>1. PICK p \in [DOMAIN acks[h] -> DOMAIN acks[h]] :
            /\ Sorts(p, acks[h])
            /\ Contiguous(Permute(p, acks[h]))
            /\ acks' = [acks EXCEPT ![h] = Permute(p, @)]
      BY <1>7 DEF EofAccept
    <2>2. acks'[h] = Permute(p, acks[h])
      BY <2>1 DEF TypeOK
    <2>3. Contiguous(Permute(p, acks[h])) /\ OnceUpTo(parsed[h], Len(Permute(p, acks[h])))
      BY <1>1, <1>3, <2>1, SortedOnce
    <2>4. pc'[h] = "finalize" /\ inv'[h] = inv[h] /\ inv[h] \in Invocations
      BY <1>7 DEF EofAccept, TypeOK
    <2> QED
      BY <1>1, <1>2, <2>2, <2>3, <2>4 DEF CallOK, ParsedOK, Contiguous, OnceUpTo, Finishing
  <1> QED
    BY <1>4, <1>5, <1>6, <1>7 DEF Recv

(* AppendEvent keeps what its call knows. *)
LEMMA AppendOK ==
    ASSUME TypeOK, NEW h \in Streams, CallOK(h), ParsedOK(h), AppendEvent(h)
    PROVE  CallOK(h)' /\ ParsedOK(h)'
  <1>1. CASE WriterForHit(h)
    <2>1. pc'[h] = "write" /\ held'[h] = writers[inv[h]]
      BY <1>1 DEF WriterForHit, TypeOK
    <2>2. inv[h] \in Invocations
      BY <1>1 DEF WriterForHit, CallOK
    <2>3. held'[h] \in WriterIds
      BY <1>1, <2>1, <2>2 DEF WriterForHit, TypeOK
    <2> QED
      BY <1>1, <2>1, <2>3 DEF WriterForHit, CallOK, ParsedOK, Embedded, Finishing
  <1>2. CASE WriterForOpen(h)
    <2>1. pc'[h] = "write" /\ held'[h] = <<h, Len(acks[h]) + 1>>
      BY <1>2 DEF WriterForOpen, TypeOK
    <2>2. Len(acks[h]) < MaxMsgs
      BY <1>2 DEF WriterForOpen, CallOK
    <2>3. held'[h] \in WriterIds
      BY <2>1, <2>2, BoundsAssumption DEF TypeOK, WriterIds
    <2>4. UNCHANGED <<inv, cur, parsed, acks, sent>> /\ pc[h] = "lookup"
      BY <1>2 DEF WriterForOpen
    <2> QED
      BY <2>1, <2>3, <2>4 DEF CallOK, ParsedOK, Embedded, Finishing
  <1>3. CASE AppendFails(h)
    BY <1>3, AppendReturnsOK DEF AppendFails
  <1>4. CASE Write(h)
    BY <1>4, AppendReturnsOK DEF Write
  <1>5. CASE WriteFails(h)
    BY <1>5, AppendReturnsOK DEF WriteFails
  <1> QED
    BY <1>1, <1>2, <1>3, <1>4, <1>5 DEF AppendEvent

(* finish keeps what its call knows. *)
LEMMA FinishOK ==
    ASSUME TypeOK, NEW h \in Streams, CallOK(h), ParsedOK(h), Finish(h)
    PROVE  CallOK(h)' /\ ParsedOK(h)'
  <1>1. pc[h] \in Finishing
    BY DEF Finish, FinalizeTake, Close, CloseFails, Disconnect, Upsert, UpsertFails, SendAck,
           SendFails, ReturnOk, Finishing
  <1>2. UNCHANGED <<inv, parsed, acks>>
    BY DEF Finish, FinalizeTake, Close, CloseFails, Disconnect, Upsert, UpsertFails, SendAck,
           SendFails, ReturnOk
  <1>3. /\ inv[h] \in Invocations /\ Contiguous(acks[h])
        /\ OnceUpTo(parsed[h], Len(acks[h]))
    BY <1>1 DEF CallOK
  <1>4. ASSUME pc'[h] \in {"close", "upsert", "send", "done"},
               pc'[h] = "close" => held'[h] \in WriterIds,
               sent'[h] > 0 => pc'[h] \in {"send", "done"}
        PROVE  CallOK(h)' /\ ParsedOK(h)'
    BY <1>2, <1>3, <1>4 DEF CallOK, ParsedOK, Contiguous, OnceUpTo, Finishing
  <1>5. CASE FinalizeTake(h)
    <2>1. ~(sent[h] > 0) /\ sent' = sent
      BY <1>5 DEF FinalizeTake, CallOK
    <2>2. CASE writers[inv[h]] = None
      BY <1>4, <1>5, <2>1, <2>2 DEF FinalizeTake, TypeOK
    <2>3. CASE writers[inv[h]] # None
      <3>1. writers[inv[h]] \in WriterIds
        BY <1>3, <2>3 DEF TypeOK
      <3> QED
        BY <1>4, <1>5, <2>1, <2>3, <3>1 DEF FinalizeTake, TypeOK
    <2> QED
      BY <2>2, <2>3
  <1>6. CASE Close(h) \/ CloseFails(h)
    <2>1. ~(sent[h] > 0) /\ sent' = sent /\ pc'[h] = "upsert"
      BY <1>6 DEF Close, CloseFails, CallOK, TypeOK
    <2> QED
      BY <1>4, <2>1
  <1>7. CASE Upsert(h) \/ UpsertFails(h)
    <2>1. pc'[h] = "send"
      BY <1>7 DEF Upsert, UpsertFails, TypeOK
    <2> QED
      BY <1>4, <2>1
  <1>8. CASE SendAck(h) \/ SendFails(h) \/ ReturnOk(h)
    <2>1. pc'[h] \in {"send", "done"}
      BY <1>8 DEF SendAck, SendFails, ReturnOk, Return, TypeOK
    <2> QED
      BY <1>4, <2>1
  <1>9. CASE Disconnect(h)
    <2>1. UNCHANGED <<pc, inv, cur, parsed, acks, held, sent>>
      BY <1>9 DEF Disconnect
    <2> QED
      BY <2>1 DEF CallOK, ParsedOK, Embedded, Contiguous, OnceUpTo
  <1> QED
    BY <1>5, <1>6, <1>7, <1>8, <1>9 DEF Finish

(* Every step keeps what each call knows. *)
LEMMA NextCall ==
    TypeOK /\ CallInv /\ ParsedInv /\ [Next]_vars => CallInv' /\ ParsedInv'
  <1> SUFFICES ASSUME TypeOK, CallInv, ParsedInv, [Next]_vars,
                      NEW g \in Streams
               PROVE  CallOK(g)' /\ ParsedOK(g)'
    BY DEF CallInv, ParsedInv
  <1>0. CallOK(g) /\ ParsedOK(g)
    BY DEF CallInv, ParsedInv
  <1>1. ASSUME NEW h \in Streams, Recv(h) \/ AppendEvent(h) \/ Finish(h)
        PROVE  CallOK(g)' /\ ParsedOK(g)'
    <2>1. CASE g = h
      BY <1>0, <1>1, <2>1, RecvOK, AppendOK, FinishOK
    <2>2. CASE g # h
      BY <1>0, <1>1, <2>2, CallFrame, UntouchedOK
    <2> QED
      BY <2>1, <2>2
  <1>2. ASSUME NEW r \in Readers, ReadEvents(r) PROVE CallOK(g)' /\ ParsedOK(g)'
    <2>1. Untouched(g)
      BY <1>2 DEF ReadEvents, ReadExists, ReadBlob, callVars, Untouched
    <2> QED
      BY <1>0, <2>1, UntouchedOK
  <1>3. CASE Crash
    <2>1. pc'[g] = IF Live(g) THEN "done" ELSE pc[g]
      BY <1>3 DEF Crash
    <2>2. UNCHANGED <<inv, cur, parsed, acks, sent>>
      BY <1>3 DEF Crash
    <2>3. CASE pc'[g] = "done"
      BY <1>0, <2>2, <2>3 DEF CallOK, ParsedOK, Contiguous, OnceUpTo, Finishing
    <2>4. CASE pc'[g] # "done"
      <3>1. pc'[g] = pc[g] /\ inv[g] = None
        BY <2>1, <2>4 DEF Live
      <3>2. pc[g] \in {"recv", "done"}
        BY <1>0, <3>1, NoneAssumption DEF CallOK, TypeOK, PCs, Finishing
      <3> QED
        BY <1>0, <2>2, <3>1, <3>2
           DEF CallOK, ParsedOK, Embedded, Contiguous, OnceUpTo, Finishing
    <2> QED
      BY <2>3, <2>4
  <1>4. CASE UNCHANGED vars
    <2>1. Untouched(g)
      BY <1>4 DEF vars, Untouched
    <2> QED
      BY <1>0, <2>1, UntouchedOK
  <1> QED
    BY <1>1, <1>2, <1>3, <1>4 DEF Next, AllReturned

(* A reader keeps its invocation. *)
LEMMA NextReader == TypeOK /\ ReaderInv /\ [Next]_vars => ReaderInv'
  <1> DEFINE P(q) == /\ rd'[q].pc = "read" => rd'[q].inv \in Invocations
                     /\ rd'[q].pc = "idle" => ~rd'[q].found
  <1> SUFFICES ASSUME TypeOK, ReaderInv, [Next]_vars, NEW q \in Readers
               PROVE  P(q)
    BY DEF ReaderInv
  <1>1. ASSUME rd' = rd PROVE P(q)
    BY <1>1 DEF ReaderInv
  <1>2. CASE \E h \in Streams : Recv(h) \/ AppendEvent(h) \/ Finish(h)
    <2>1. rd' = rd
      BY <1>2 DEF Recv, RecvBazelEvent, RecvOtherEvent, RecvNoInvocation, RecvError, EofNoStream,
           EofAccept, EofReject, AppendEvent, WriterForHit, WriterForOpen, AppendFails, Write,
           WriteFails, Finish, FinalizeTake, Close, CloseFails, Disconnect, Upsert, UpsertFails,
           SendAck, SendFails, ReturnOk
    <2> QED
      BY <1>1, <2>1
  <1>3. ASSUME NEW r \in Readers, NEW i \in Invocations, ReadExists(r, i) PROVE P(q)
    BY <1>3 DEF ReadExists, ReaderInv, TypeOK, ReadState
  <1>4. ASSUME NEW r \in Readers, ReadBlob(r) PROVE P(q)
    BY <1>4 DEF ReadBlob, ReaderInv, TypeOK, ReadState
  <1>5. CASE Crash
    BY <1>5 DEF Crash, ReaderInv, TypeOK, ReadState
  <1>6. CASE UNCHANGED vars
    BY <1>1, <1>6 DEF vars
  <1> QED
    BY <1>2, <1>3, <1>4, <1>5, <1>6 DEF Next, AllReturned, ReadEvents

-----------------------------------------------------------------------------
(* Who owns the writers. *)

(* A call's invocation, once known, never changes. *)
InvStable == \A g \in Streams : inv[g] # None => inv'[g] = inv[g]

LEMMA NextInvStable == TypeOK /\ [Next]_vars => InvStable
  <1> SUFFICES ASSUME TypeOK, [Next]_vars, NEW g \in Streams, inv[g] # None
               PROVE  inv'[g] = inv[g]
    BY DEF InvStable
  <1>1. ASSUME NEW h \in Streams, NEW i \in Invocations, NEW n \in Seqs,
               RecvBazelEvent(h, i, n) \/ RecvOtherEvent(h, i, n)
        PROVE  inv'[g] = inv[g]
    BY <1>1 DEF RecvBazelEvent, RecvOtherEvent, TypeOK
  <1>2. ASSUME NEW h \in Streams, AppendEvent(h) \/ Finish(h) \/ RecvNoInvocation(h) \/ RecvError(h)
                 \/ EofNoStream(h) \/ EofAccept(h) \/ EofReject(h)
        PROVE  inv' = inv
    BY <1>2 DEF RecvNoInvocation, RecvError, EofNoStream, EofAccept, EofReject,
         AppendEvent, WriterForHit, WriterForOpen, AppendFails, Write, WriteFails,
         Finish, FinalizeTake, Close, CloseFails, Disconnect, Upsert, UpsertFails, SendAck,
         SendFails, ReturnOk
  <1>3. ASSUME NEW r \in Readers, ReadEvents(r) PROVE inv' = inv
    BY <1>3 DEF ReadEvents, ReadExists, ReadBlob, callVars
  <1>4. CASE Crash
    BY <1>4 DEF Crash
  <1>5. CASE UNCHANGED vars
    BY <1>5 DEF vars
  <1> QED
    BY <1>1, <1>2, <1>3, <1>4, <1>5 DEF Next, Recv, AllReturned

(* Ownership survives a step that changes neither the map, nor which       *)
(* writers are open, nor who is closing.                                   *)
LEMMA OwnerFrame ==
    ASSUME TypeOK, CallInv, OwnerInv, InvStable, writers' = writers,
           \A w \in WriterIds : wr'[w].st = wr[w].st,
           \A g \in Streams : /\ pc'[g] = "close" <=> pc[g] = "close"
                              /\ pc[g] = "close" => held'[g] = held[g]
    PROVE  OwnerInv'
  <1>1. \A g \in Streams, w \in WriterIds : Closing(g, w)' <=> Closing(g, w)
    BY DEF Closing
  <1>2. \A w : Registered(w)' <=> Registered(w)
    BY DEF Registered
  <1>3. WriterOwned'
    BY <1>1, <1>2 DEF OwnerInv, WriterOwned
  <1>4. \A w \in WriterIds : w[1] \in Streams
    BY DEF WriterIds
  <1>5. \A i \in Invocations : writers'[i] # None => inv'[writers'[i][1]] = i
    <2> SUFFICES ASSUME NEW i \in Invocations, writers[i] # None
                 PROVE  inv'[writers[i][1]] = i
      OBVIOUS
    <2>1. writers[i] \in WriterIds /\ inv[writers[i][1]] = i
      BY DEF TypeOK, OwnerInv
    <2> QED
      BY <1>4, <2>1, NoneAssumption DEF InvStable
  <1>6. \A h \in Streams : pc'[h] = "close" => inv'[held'[h][1]] = inv'[h]
    <2> SUFFICES ASSUME NEW h \in Streams, pc[h] = "close"
                 PROVE  inv'[held[h][1]] = inv'[h]
      OBVIOUS
    <2>1. inv[h] \in Invocations /\ held[h] \in WriterIds /\ inv[held[h][1]] = inv[h]
      BY DEF CallInv, CallOK, Finishing, OwnerInv
    <2> QED
      BY <1>4, <2>1, NoneAssumption DEF InvStable
  <1>7. \A w \in WriterIds : wr'[w].st # "unused" => inv'[w[1]] # None
    BY <1>4 DEF InvStable, OwnerInv
  <1> QED
    BY <1>3, <1>5, <1>6, <1>7 DEF OwnerInv

(* Opening a writer registers it. *)
LEMMA OwnerOpen ==
    ASSUME TypeOK, CallInv, FreshInv, OwnerInv, NEW h \in Streams, WriterForOpen(h)
    PROVE  OwnerInv'
  <1> DEFINE i == inv[h]
             w == <<h, Len(acks[h]) + 1>>
  <1>1. i \in Invocations /\ Len(acks[h]) < MaxMsgs /\ Len(acks[h]) \in Nat
    BY DEF WriterForOpen, CallInv, CallOK, TypeOK
  <1>2. w \in WriterIds /\ w[1] = h
    BY <1>1, BoundsAssumption DEF WriterIds
  <1>3. wr[w].st = "unused"
    BY <1>1, BoundsAssumption DEF WriterForOpen, FreshInv
  <1>4. /\ writers[i] = None /\ writers' = [writers EXCEPT ![i] = w]
        /\ pc[h] = "lookup" /\ pc' = [pc EXCEPT ![h] = "write"]
        /\ held' = [held EXCEPT ![h] = w] /\ inv' = inv
    BY DEF WriterForOpen
  <1>5. \A v \in WriterIds : wr'[v].st = IF v = w THEN "open" ELSE wr[v].st
    BY <1>2 DEF WriterForOpen, TypeOK, WriterState
  <1> HIDE DEF i, w
  <1>6. \A g \in Streams, v \in WriterIds : Closing(g, v)' <=> Closing(g, v)
    BY <1>4 DEF Closing, TypeOK
  <1>7. w # None
    BY <1>2, NoneAssumption DEF WriterIds
  <1>8. \A v \in WriterIds : Registered(v)' <=> v = w \/ Registered(v)
    BY <1>1, <1>2, <1>4, NoneAssumption DEF Registered, TypeOK, WriterIds
  <1>9. ~Registered(w) /\ \A g \in Streams : ~Closing(g, w)
    BY <1>2, <1>3 DEF OwnerInv, WriterOwned
  <1>10. WriterOwned'
    <2>1. \A v \in WriterIds :
            wr'[v].st = "open" <=> (Registered(v)' \/ \E g \in Streams : Closing(g, v)')
      BY <1>5, <1>6, <1>8, <1>9 DEF OwnerInv, WriterOwned
    <2>2. \A g \in Streams, v \in WriterIds :
            Closing(g, v)' => ~Registered(v)' /\ \A f \in Streams : Closing(f, v)' => f = g
      BY <1>6, <1>8, <1>9 DEF OwnerInv, WriterOwned
    <2>3. \A j, k \in Invocations : writers'[j] # None /\ writers'[j] = writers'[k] => j = k
      BY <1>1, <1>2, <1>4, <1>9 DEF OwnerInv, WriterOwned, Registered, TypeOK
    <2> QED
      BY <2>1, <2>2, <2>3 DEF WriterOwned
  <1>11. \A j \in Invocations : writers'[j] # None => inv'[writers'[j][1]] = j
    BY <1>1, <1>2, <1>4 DEF OwnerInv, TypeOK, i
  <1>12. \A g \in Streams : pc'[g] = "close" => inv'[held'[g][1]] = inv'[g]
    BY <1>4 DEF OwnerInv, TypeOK
  <1>13. \A v \in WriterIds : wr'[v].st # "unused" => inv'[v[1]] # None
    BY <1>1, <1>2, <1>4, <1>5, NoneAssumption DEF OwnerInv, i
  <1> QED
    BY <1>10, <1>11, <1>12, <1>13 DEF OwnerInv

(* Finalize moves the writer from the map to one closing call. *)
LEMMA OwnerTake ==
    ASSUME TypeOK, CallInv, OwnerInv, InvStable, NEW h \in Streams, FinalizeTake(h)
    PROVE  OwnerInv'
  <1> DEFINE i == inv[h]
             w == writers[i]
  <1>1. i \in Invocations /\ pc[h] = "finalize"
    BY DEF FinalizeTake, CallInv, CallOK, Finishing
  <1>2. CASE w = None
    <2>1. UNCHANGED <<held, writers, wr>> /\ pc' = [pc EXCEPT ![h] = "upsert"]
      BY <1>2 DEF FinalizeTake
    <2> QED
      BY <1>1, <2>1, OwnerFrame DEF TypeOK
  <1>3. CASE w # None
    <2>1. /\ pc' = [pc EXCEPT ![h] = "close"] /\ held' = [held EXCEPT ![h] = w]
          /\ writers' = [writers EXCEPT ![i] = None] /\ wr' = wr /\ inv' = inv
      BY <1>3 DEF FinalizeTake
    <2>2. w \in WriterIds /\ inv[w[1]] = i
      BY <1>1, <1>3 DEF TypeOK, OwnerInv
    <2>3. \A j \in Invocations : writers[j] = w => j = i
      BY <1>1, <1>3 DEF OwnerInv, WriterOwned
    <2>4. Registered(w) /\ \A g \in Streams : ~Closing(g, w)
      BY <1>1, <2>2 DEF Registered, OwnerInv, WriterOwned
    <2> HIDE DEF i, w
    <2>5. \A v \in WriterIds : Registered(v)' <=> Registered(v) /\ v # w
      <3> SUFFICES ASSUME NEW v \in WriterIds PROVE Registered(v)' <=> Registered(v) /\ v # w
        OBVIOUS
      <3>1. v # None
        BY NoneAssumption DEF WriterIds
      <3> QED
        BY <1>1, <2>1, <2>3, <3>1 DEF Registered, TypeOK, w
    <2>6. \A g \in Streams, v \in WriterIds :
            Closing(g, v)' <=> Closing(g, v) \/ (g = h /\ v = w)
      BY <1>1, <2>1 DEF Closing, TypeOK
    <2>7. WriterOwned'
      <3>1. \A v \in WriterIds :
              wr'[v].st = "open" <=> (Registered(v)' \/ \E g \in Streams : Closing(g, v)')
        BY <2>1, <2>4, <2>5, <2>6 DEF OwnerInv, WriterOwned
      <3>2. \A g \in Streams, v \in WriterIds :
              Closing(g, v)' => ~Registered(v)' /\ \A f \in Streams : Closing(f, v)' => f = g
        BY <2>4, <2>5, <2>6 DEF OwnerInv, WriterOwned
      <3>3. \A j, k \in Invocations : writers'[j] # None /\ writers'[j] = writers'[k] => j = k
        BY <1>1, <2>1 DEF OwnerInv, WriterOwned, TypeOK
      <3> QED
        BY <3>1, <3>2, <3>3 DEF WriterOwned
    <2>8. \A j \in Invocations : writers'[j] # None => inv'[writers'[j][1]] = j
      BY <1>1, <2>1 DEF OwnerInv, TypeOK
    <2>9. \A g \in Streams : pc'[g] = "close" => inv'[held'[g][1]] = inv'[g]
      BY <2>1, <2>2 DEF OwnerInv, TypeOK, i
    <2> QED
      BY <2>1, <2>7, <2>8, <2>9 DEF OwnerInv
  <1> QED
    BY <1>2, <1>3

(* Closing a writer ends its ownership. *)
LEMMA OwnerClose ==
    ASSUME TypeOK, CallInv, OwnerInv, NEW h \in Streams, Close(h) \/ CloseFails(h)
    PROVE  OwnerInv'
  <1> DEFINE w == held[h]
  <1>1. pc[h] = "close" /\ w \in WriterIds
    BY DEF Close, CloseFails, CallInv, CallOK
  <1>2. /\ pc' = [pc EXCEPT ![h] = "upsert"] /\ held' = [held EXCEPT ![h] = None]
        /\ writers' = writers /\ inv' = inv
    BY DEF Close, CloseFails
  <1>3. \A v \in WriterIds : wr'[v].st = IF v = w THEN "closed" ELSE wr[v].st
    <2>0. wr \in [WriterIds -> WriterState] /\ wr[w] \in WriterState
      BY <1>1 DEF TypeOK
    <2>1. CASE Close(h)
      BY <1>1, <2>0, <2>1 DEF Close, WriterState
    <2>2. CASE CloseFails(h)
      <3>1. wr' = [wr EXCEPT ![w] = [@ EXCEPT !.st = "closed", !.err = TRUE]]
        BY <2>2 DEF CloseFails
      <3>2. [wr[w] EXCEPT !.st = "closed", !.err = TRUE].st = "closed"
        BY <2>0 DEF WriterState
      <3> HIDE DEF w
      <3> QED
        BY <1>1, <2>0, <3>1, <3>2
    <2> QED
      BY <2>1, <2>2
  <1>4. Closing(h, w)
    BY <1>1 DEF Closing
  <1>5. wr[w].st = "open" /\ ~Registered(w) /\ \A g \in Streams : Closing(g, w) => g = h
    BY <1>1, <1>4 DEF OwnerInv, WriterOwned
  <1> HIDE DEF w
  <1>6. \A v : Registered(v)' <=> Registered(v)
    BY <1>2 DEF Registered
  <1>7. \A g \in Streams, v \in WriterIds : Closing(g, v)' <=> Closing(g, v) /\ g # h
    BY <1>2 DEF Closing, TypeOK
  <1>8. \A v \in WriterIds : Closing(h, v) => v = w
    BY DEF Closing, w
  <1>9. WriterOwned'
    <2>1. \A v \in WriterIds :
            wr'[v].st = "open" <=> (Registered(v)' \/ \E g \in Streams : Closing(g, v)')
      BY <1>1, <1>3, <1>5, <1>6, <1>7, <1>8 DEF OwnerInv, WriterOwned
    <2>2. \A g \in Streams, v \in WriterIds :
            Closing(g, v)' => ~Registered(v)' /\ \A f \in Streams : Closing(f, v)' => f = g
      BY <1>6, <1>7 DEF OwnerInv, WriterOwned
    <2> QED
      BY <1>2, <2>1, <2>2 DEF OwnerInv, WriterOwned
  <1>10. \A g \in Streams : pc'[g] = "close" => inv'[held'[g][1]] = inv'[g]
    BY <1>2 DEF OwnerInv, TypeOK
  <1>11. \A v \in WriterIds : wr'[v].st # "unused" => inv'[v[1]] # None
    BY <1>2, <1>3, <1>5 DEF OwnerInv
  <1> QED
    BY <1>2, <1>9, <1>10, <1>11 DEF OwnerInv

(* A restart leaves nothing open, registered or closing. *)
LEMMA OwnerCrash ==
    ASSUME TypeOK, CallInv, OwnerInv, Crash
    PROVE  OwnerInv'
  <1>1. \A w \in WriterIds : wr'[w].st # "open" /\ (wr'[w].st = "unused" <=> wr[w].st = "unused")
    BY DEF Crash, TypeOK, WriterState
  <1>2. \A g \in Streams : pc'[g] # "close"
    BY NoneAssumption DEF Crash, Live, CallInv, CallOK, Finishing
  <1>3. inv' = inv /\ \A i \in Invocations : writers'[i] = None
    BY DEF Crash
  <1>4. \A w \in WriterIds : ~Registered(w)'
    BY <1>3, NoneAssumption DEF Registered, WriterIds
  <1>5. WriterOwned'
    BY <1>1, <1>2, <1>3, <1>4 DEF WriterOwned, Closing
  <1> QED
    BY <1>1, <1>2, <1>3, <1>5 DEF OwnerInv

(* What one step of a call does to the writers: only writerFor opens one,  *)
(* only Close closes one, and a closed one stays as it is.                 *)
LEMMA WriterSteps ==
    ASSUME TypeOK, CallInv, FreshInv, OwnerInv, NEW h \in Streams,
           Recv(h) \/ AppendEvent(h) \/ Finish(h), NEW w \in WriterIds
    PROVE  /\ wr[w].st = "closed" => wr'[w] = wr[w]
           /\ ~WriterForOpen(h) /\ ~Close(h) /\ ~CloseFails(h) => wr'[w].st = wr[w].st
           /\ WriterForOpen(h) /\ w # <<h, Len(acks[h]) + 1>> => wr'[w] = wr[w]
           /\ (Close(h) \/ CloseFails(h)) /\ w # held[h] => wr'[w] = wr[w]
           /\ Close(h) \/ CloseFails(h) => wr[held[h]].st = "open"
  <1>0. wr \in [WriterIds -> WriterState] /\ wr[w] \in WriterState
    BY DEF TypeOK
  <1>1. CASE Recv(h)
    <2>1. wr' = wr /\ pc[h] = "recv"
      BY <1>1 DEF Recv, RecvBazelEvent, RecvOtherEvent, RecvNoInvocation, RecvError, EofNoStream,
                  EofAccept, EofReject, storeVars
    <2> QED
      BY <2>1 DEF WriterForOpen, Close, CloseFails
  <1>2. CASE WriterForHit(h) \/ AppendFails(h)
    <2>1. wr' = wr /\ pc[h] = "lookup"
      BY <1>2 DEF WriterForHit, AppendFails, storeVars
    <2>2. ~Close(h) /\ ~CloseFails(h)
      BY <2>1 DEF Close, CloseFails
    <2> QED
      BY <2>1, <2>2
  <1>3. CASE WriterForOpen(h)
    <2>1. pc[h] = "lookup" /\ ~Close(h) /\ ~CloseFails(h)
      BY <1>3 DEF WriterForOpen, Close, CloseFails
    <2>2. <<h, Len(acks[h]) + 1>> \in WriterIds
      BY <1>3, BoundsAssumption DEF WriterForOpen, CallInv, CallOK, TypeOK, WriterIds
    <2>3. w # <<h, Len(acks[h]) + 1>> => wr'[w] = wr[w]
      BY <1>0, <1>3, <2>2 DEF WriterForOpen
    <2>4. wr[<<h, Len(acks[h]) + 1>>].st = "unused"
      <3>1. Len(acks[h]) \in Nat /\ Len(acks[h]) < MaxMsgs
        BY <1>3 DEF WriterForOpen, CallInv, CallOK, TypeOK
      <3>2. Len(acks[h]) + 1 \in 1..MaxMsgs /\ Len(acks[h]) < Len(acks[h]) + 1
        BY <3>1, BoundsAssumption
      <3> QED
        BY <1>3, <3>2 DEF WriterForOpen, FreshInv
    <2> QED
      BY <1>3, <2>1, <2>3, <2>4
  <1>4. CASE Write(h) \/ WriteFails(h)
    <2>1. pc[h] = "write" /\ held[h] \in WriterIds
      BY <1>4 DEF Write, WriteFails, CallInv, CallOK
    <2>2. ~WriterForOpen(h) /\ ~Close(h) /\ ~CloseFails(h)
      BY <2>1 DEF WriterForOpen, Close, CloseFails
    <2>3. CASE w = held[h]
      BY <1>0, <1>4, <2>1, <2>2, <2>3 DEF Write, WriteFails, WriterState
    <2>4. CASE w # held[h]
      BY <1>0, <1>4, <2>1, <2>2, <2>4 DEF Write, WriteFails
    <2> QED
      BY <2>3, <2>4
  <1>5. CASE Close(h) \/ CloseFails(h)
    <2>1. pc[h] = "close" /\ held[h] \in WriterIds
      BY <1>5 DEF Close, CloseFails, CallInv, CallOK
    <2>2. wr[held[h]].st = "open"
      BY <2>1 DEF OwnerInv, WriterOwned, Closing
    <2>3. ~WriterForOpen(h)
      BY <2>1 DEF WriterForOpen
    <2>4. w # held[h] => wr'[w] = wr[w]
      BY <1>0, <1>5, <2>1 DEF Close, CloseFails
    <2> QED
      BY <1>5, <2>2, <2>3, <2>4
  <1>6. CASE Finish(h) /\ ~Close(h) /\ ~CloseFails(h)
    <2>1. wr' = wr /\ pc[h] \in Finishing
      BY <1>6 DEF Finish, FinalizeTake, Disconnect, Upsert, UpsertFails, SendAck, SendFails,
                  ReturnOk, storeVars, Finishing
    <2>2. ~WriterForOpen(h)
      BY <2>1 DEF WriterForOpen, Finishing
    <2> QED
      BY <1>6, <2>1, <2>2
  <1> QED
    BY <1>1, <1>2, <1>3, <1>4, <1>5, <1>6 DEF AppendEvent

(* Every step keeps the ownership of writers. *)
LEMMA NextOwner ==
    TypeOK /\ CallInv /\ FreshInv /\ OwnerInv /\ [Next]_vars => OwnerInv'
  <1> SUFFICES ASSUME TypeOK, CallInv, FreshInv, OwnerInv, [Next]_vars PROVE OwnerInv'
    OBVIOUS
  <1>0. InvStable
    BY NextInvStable
  <1>1. ASSUME NEW h \in Streams, Recv(h) \/ AppendEvent(h) \/ Finish(h) PROVE OwnerInv'
    <2>1. CASE WriterForOpen(h)
      BY <2>1, OwnerOpen
    <2>2. CASE FinalizeTake(h)
      BY <1>0, <2>2, OwnerTake
    <2>3. CASE Close(h) \/ CloseFails(h)
      BY <2>3, OwnerClose
    <2>4. CASE Disconnect(h)
      <3>1. UNCHANGED <<pc, inv, held, writers, wr>>
        BY <2>4 DEF Disconnect, storeVars
      <3> QED
        BY <1>0, <3>1, OwnerFrame
    <2>5. CASE /\ ~WriterForOpen(h) /\ ~FinalizeTake(h) /\ ~Close(h) /\ ~CloseFails(h)
               /\ ~Disconnect(h)
      <3>1. \A w \in WriterIds : wr'[w].st = wr[w].st
        BY <1>1, <2>5, WriterSteps
      <3>2. /\ writers' = writers /\ pc[h] # "close" /\ pc'[h] # "close"
        <4>1. CASE Recv(h)
          BY <4>1 DEF Recv, RecvBazelEvent, RecvOtherEvent, RecvNoInvocation, RecvError,
                      EofNoStream, EofAccept, EofReject, Return, Acked, storeVars, TypeOK
        <4>2. CASE AppendEvent(h)
          BY <2>5, <4>2 DEF AppendEvent, WriterForHit, AppendFails, Write, WriteFails,
                            AppendReturns, Acked, storeVars, TypeOK
        <4>3. CASE Finish(h)
          BY <2>5, <4>3 DEF Finish, Upsert, UpsertFails, SendAck, SendFails, ReturnOk, Return,
                            storeVars, TypeOK
        <4> QED
          BY <1>1, <4>1, <4>2, <4>3
      <3>3. \A g \in Streams : /\ pc'[g] = "close" <=> pc[g] = "close"
                               /\ pc[g] = "close" => held'[g] = held[g]
        BY <1>1, <3>2, CallFrame DEF Untouched
      <3> QED
        BY <1>0, <3>1, <3>2, <3>3, OwnerFrame
    <2> QED
      BY <2>1, <2>2, <2>3, <2>5, <2>4
  <1>2. ASSUME NEW r \in Readers, ReadEvents(r) PROVE OwnerInv'
    <2>1. UNCHANGED <<pc, held, writers, wr>>
      BY <1>2 DEF ReadEvents, ReadExists, ReadBlob, callVars, storeVars
    <2> QED
      BY <1>0, <2>1, OwnerFrame
  <1>3. CASE Crash
    BY <1>3, OwnerCrash
  <1>4. CASE UNCHANGED vars
    <2>1. UNCHANGED <<pc, held, writers, wr>>
      BY <1>4 DEF vars
    <2> QED
      BY <1>0, <2>1, OwnerFrame
  <1> QED
    BY <1>1, <1>2, <1>3, <1>4 DEF Next, AllReturned

(* Every step keeps the names of the next writers free. *)
LEMMA NextFresh ==
    TypeOK /\ TypeOK' /\ CallInv /\ FreshInv /\ OwnerInv /\ [Next]_vars => FreshInv'
  <1> SUFFICES ASSUME TypeOK, TypeOK', CallInv, FreshInv, OwnerInv, [Next]_vars,
                      NEW g \in Streams, NEW k \in 1..MaxMsgs
               PROVE  /\ pc'[g] \in {"recv", "lookup"} /\ Len(acks'[g]) < k
                           => wr'[<<g, k>>].st = "unused"
                      /\ pc'[g] = "write" /\ Len(acks'[g]) + 1 < k
                           => wr'[<<g, k>>].st = "unused"
    BY DEF FreshInv
  <1> DEFINE w == <<g, k>>
  <1>0. /\ w \in WriterIds
        /\ pc[g] \in {"recv", "lookup"} /\ Len(acks[g]) < k => wr[w].st = "unused"
        /\ pc[g] = "write" /\ Len(acks[g]) + 1 < k => wr[w].st = "unused"
        /\ Len(acks[g]) \in Nat /\ Len(acks'[g]) \in Nat /\ k \in Nat
    <2>1. acks[g] \in Seq(Seqs) /\ acks'[g] \in Seq(Seqs)
      BY DEF TypeOK
    <2> QED
      BY <2>1, BoundsAssumption DEF FreshInv, WriterIds
  <1>1. ASSUME wr[w].st = "unused" => wr'[w].st = "unused",
               acks'[g] = acks[g], pc'[g] = pc[g] \/ pc'[g] \notin {"recv", "lookup", "write"}
        PROVE  /\ pc'[g] \in {"recv", "lookup"} /\ Len(acks'[g]) < k => wr'[w].st = "unused"
               /\ pc'[g] = "write" /\ Len(acks'[g]) + 1 < k => wr'[w].st = "unused"
    BY <1>0, <1>1
  <1>2. ASSUME NEW h \in Streams, Recv(h) \/ AppendEvent(h) \/ Finish(h), h # g
        PROVE  (wr[w].st = "unused" => wr'[w].st = "unused") /\ Untouched(g)
    <2>1. w # <<h, Len(acks[h]) + 1>>
      BY <1>2
    <2>2. wr[w].st = "unused" => wr'[w].st = "unused"
      BY <1>0, <1>2, <2>1, WriterSteps
    <2> QED
      BY <1>2, <2>2, CallFrame
  <1>3. CASE Recv(g)
    <2>1. pc[g] = "recv" /\ wr' = wr /\ pc'[g] # "write"
      BY <1>3 DEF Recv, RecvBazelEvent, RecvOtherEvent, RecvNoInvocation, RecvError, EofNoStream,
                  EofAccept, EofReject, storeVars, Return, Acked, TypeOK
    <2>2. pc'[g] \in {"recv", "lookup"} => Len(acks[g]) <= Len(acks'[g])
      <3>1. ASSUME NEW i \in Invocations, NEW n \in Seqs, RecvBazelEvent(g, i, n)
            PROVE  acks' = acks
        BY <3>1 DEF RecvBazelEvent
      <3>2. ASSUME NEW i \in Invocations, NEW n \in Seqs, RecvOtherEvent(g, i, n)
            PROVE  Len(acks'[g]) = Len(acks[g]) + 1
        <4>1. acks[g] \in Seq(Seqs) /\ acks'[g] = Append(acks[g], n)
          BY <3>2 DEF RecvOtherEvent, Acked, TypeOK
        <4> QED
          BY <4>1, AppendFacts
      <3>3. CASE RecvNoInvocation(g) \/ RecvError(g) \/ EofNoStream(g) \/ EofAccept(g) \/ EofReject(g)
        BY <3>3 DEF RecvNoInvocation, RecvError, EofNoStream, EofAccept, EofReject, Return, TypeOK
      <3> QED
        BY <1>0, <1>3, <3>1, <3>2, <3>3 DEF Recv
    <2> QED
      BY <1>0, <2>1, <2>2
  <1>4. CASE WriterForHit(g)
    <2>1. pc[g] = "lookup" /\ pc'[g] = "write" /\ acks' = acks /\ wr' = wr
      BY <1>4 DEF WriterForHit, storeVars, TypeOK
    <2> QED
      BY <1>0, <2>1
  <1>5. CASE WriterForOpen(g)
    <2>1. pc[g] = "lookup" /\ pc'[g] = "write" /\ acks' = acks
      BY <1>5 DEF WriterForOpen, TypeOK
    <2>2. ASSUME Len(acks[g]) + 1 < k PROVE wr'[w].st = "unused"
      <3>1. w # <<g, Len(acks[g]) + 1>> /\ Len(acks[g]) < k
        BY <1>0, <2>2
      <3>2. wr'[w] = wr[w]
        BY <1>0, <1>5, <3>1, WriterSteps DEF AppendEvent
      <3> QED
        BY <1>0, <2>1, <3>1, <3>2
    <2> QED
      BY <2>1, <2>2
  <1>6. CASE AppendFails(g) \/ Write(g) \/ WriteFails(g)
    <2>1. /\ pc[g] \in {"lookup", "write"} /\ AppendReturns(g)
          /\ ~WriterForOpen(g) /\ ~Close(g) /\ ~CloseFails(g)
      <3>1. CASE AppendFails(g)
        <4>1. wr' = wr /\ pc[g] = "lookup" /\ AppendReturns(g) /\ pc'[g] = "recv"
          BY <3>1 DEF AppendFails, storeVars, AppendReturns, Acked, TypeOK
        <4> QED
          BY <4>1 DEF WriterForOpen, Close, CloseFails, TypeOK
      <3>2. CASE Write(g) \/ WriteFails(g)
        BY <3>2 DEF Write, WriteFails, WriterForOpen, Close, CloseFails
      <3> QED
        BY <1>6, <3>1, <3>2
    <2>2. wr'[w].st = wr[w].st
      BY <1>0, <1>6, <2>1, WriterSteps DEF AppendEvent
    <2>3. pc'[g] = "recv" /\ Len(acks'[g]) = Len(acks[g]) + 1
      BY <2>1 DEF AppendReturns, Acked, TypeOK, CallInv, CallOK
    <2> QED
      BY <1>0, <2>1, <2>2, <2>3
  <1>7. CASE Finish(g)
    <2>1. pc'[g] \notin {"recv", "lookup", "write"}
      BY <1>7 DEF Finish, FinalizeTake, Close, CloseFails, Disconnect, Finishing, Upsert,
                  UpsertFails, SendAck, SendFails, ReturnOk, Return, TypeOK
    <2> QED
      BY <2>1
  <1>8. ASSUME UNCHANGED <<pc, acks, wr>>
        PROVE  /\ pc'[g] \in {"recv", "lookup"} /\ Len(acks'[g]) < k => wr'[w].st = "unused"
               /\ pc'[g] = "write" /\ Len(acks'[g]) + 1 < k => wr'[w].st = "unused"
    BY <1>0, <1>8
  <1>9. ASSUME NEW r \in Readers, ReadEvents(r) PROVE UNCHANGED <<pc, acks, wr>>
    BY <1>9 DEF ReadEvents, ReadExists, ReadBlob, callVars, storeVars
  <1>10. CASE Crash
    <2>1. (wr[w].st = "unused" => wr'[w].st = "unused") /\ acks' = acks
      BY <1>0, <1>10 DEF Crash, TypeOK, WriterState
    <2>2. pc'[g] = pc[g] \/ pc'[g] = "done"
      BY <1>10 DEF Crash
    <2> QED
      BY <1>1, <2>1, <2>2
  <1>11. CASE UNCHANGED vars
    BY <1>8, <1>11 DEF vars
  <1>12. ASSUME NEW h \in Streams, Recv(h) \/ AppendEvent(h) \/ Finish(h), h # g
         PROVE  /\ pc'[g] \in {"recv", "lookup"} /\ Len(acks'[g]) < k => wr'[w].st = "unused"
                /\ pc'[g] = "write" /\ Len(acks'[g]) + 1 < k => wr'[w].st = "unused"
    BY <1>1, <1>2, <1>12 DEF Untouched
  <1>13. CASE AppendEvent(g)
    BY <1>4, <1>5, <1>6, <1>13 DEF AppendEvent
  <1> HIDE DEF w
  <1>14. CASE \E h \in Streams : Recv(h) \/ AppendEvent(h) \/ Finish(h)
    BY <1>3, <1>7, <1>12, <1>13, <1>14 DEF w
  <1>15. CASE \E r \in Readers : ReadEvents(r)
    BY <1>8, <1>9, <1>15 DEF w
  <1> QED
    BY <1>10, <1>11, <1>14, <1>15 DEF Next, AllReturned

-----------------------------------------------------------------------------
(* Files, rows and readers. *)

(* A closed writer is never touched again. *)
ClosedStable == \A w \in WriterIds : wr[w].st = "closed" => wr'[w] = wr[w]

LEMMA NextClosedStable ==
    TypeOK /\ CallInv /\ FreshInv /\ OwnerInv /\ [Next]_vars => ClosedStable
  <1> SUFFICES ASSUME TypeOK, CallInv, FreshInv, OwnerInv, [Next]_vars,
                      NEW w \in WriterIds, wr[w].st = "closed"
               PROVE  wr'[w] = wr[w]
    BY DEF ClosedStable
  <1>1. CASE \E h \in Streams : Recv(h) \/ AppendEvent(h) \/ Finish(h)
    BY <1>1, WriterSteps
  <1>2. CASE \E r \in Readers : ReadEvents(r)
    BY <1>2 DEF ReadEvents, ReadExists, ReadBlob, storeVars
  <1>3. CASE Crash
    BY <1>3 DEF Crash
  <1>4. CASE UNCHANGED vars
    BY <1>4 DEF vars
  <1> QED
    BY <1>1, <1>2, <1>3, <1>4 DEF Next, AllReturned

(* The contents d of invocation i were given to one closed writer. *)
Committed(i, d) ==
    \E w \in WriterIds : wr[w].st = "closed" /\ inv[w[1]] = i /\ wr[w].data = d

(* They are after the step. *)
CommittedAfter(i, d) ==
    \E w \in WriterIds : wr'[w].st = "closed" /\ inv'[w[1]] = i /\ wr'[w].data = d

LEMMA CommittedStable ==
    ASSUME ClosedStable, InvStable, NEW STATE i, i # None, NEW STATE d, Committed(i, d)
    PROVE  CommittedAfter(i, d)
  <1>1. PICK w \in WriterIds : wr[w].st = "closed" /\ inv[w[1]] = i /\ wr[w].data = d
    BY DEF Committed
  <1>2. w[1] \in Streams
    BY DEF WriterIds
  <1>3. wr'[w] = wr[w] /\ inv'[w[1]] = i
    BY <1>1, <1>2 DEF ClosedStable, InvStable
  <1> QED
    BY <1>1, <1>3 DEF CommittedAfter

(* What a step does to a file: it keeps it, makes it unreadable, or is the *)
(* Close that commits a writer.                                            *)
LEMMA FileSteps ==
    ASSUME TypeOK, CallInv, OwnerInv, [Next]_vars, NEW i \in Invocations, file'[i].st = "valid"
    PROVE  (file[i].st = "valid" /\ file'[i].data = file[i].data) \/ CommittedAfter(i, file'[i].data)
  <1>0. file \in [Invocations -> FileState] /\ file[i] \in FileState
    BY DEF TypeOK
  <1>1. ASSUME file' = file
        PROVE  file[i].st = "valid" /\ file'[i].data = file[i].data
    BY <1>1
  <1>2. ASSUME NEW h \in Streams, inv[h] \in Invocations, NEW s \in AfterWrite(inv[h]),
               Flush(inv[h], s, file[inv[h]].data)
        PROVE  file[i].st = "valid" /\ file'[i].data = file[i].data
    <2>1. CASE i = inv[h]
      BY <1>0, <1>2, <2>1 DEF Flush, AfterWrite, FileState
    <2>2. CASE i # inv[h]
      <3>1. file'[i] = file[i]
        BY <1>0, <1>2, <2>2 DEF Flush
      <3> QED
        BY <3>1
    <2> QED
      BY <2>1, <2>2
  <1>3. ASSUME NEW h \in Streams, Recv(h) PROVE file' = file
    BY <1>3 DEF Recv, RecvBazelEvent, RecvOtherEvent, RecvNoInvocation, RecvError, EofNoStream,
                EofAccept, EofReject, storeVars
  <1>4. ASSUME NEW h \in Streams, WriterForHit(h) \/ AppendFails(h) \/ WriteFails(h)
        PROVE  file' = file
    BY <1>4 DEF WriterForHit, AppendFails, WriteFails, storeVars
  <1>5. ASSUME NEW h \in Streams, WriterForOpen(h)
        PROVE  file[i].st = "valid" /\ file'[i].data = file[i].data
    <2>1. inv[h] \in Invocations
      BY <1>5 DEF WriterForOpen, CallInv, CallOK
    <2>2. i # inv[h]
      BY <1>0, <1>5, <2>1 DEF WriterForOpen, Truncate
    <2>3. file'[i] = file[i]
      BY <1>0, <1>5, <2>1, <2>2 DEF WriterForOpen, Truncate
    <2> QED
      BY <2>3
  <1>6. ASSUME NEW h \in Streams, Write(h)
        PROVE  file[i].st = "valid" /\ file'[i].data = file[i].data
    <2>1. inv[h] \in Invocations
      BY <1>6 DEF Write, CallInv, CallOK
    <2>2. \E s \in AfterWrite(inv[h]) : Flush(inv[h], s, file[inv[h]].data)
      BY <1>6 DEF Write
    <2> QED
      BY <1>2, <2>1, <2>2
  <1>7. ASSUME NEW h \in Streams, Close(h) \/ CloseFails(h)
        PROVE  (file[i].st = "valid" /\ file'[i].data = file[i].data) \/ CommittedAfter(i, file'[i].data)
    <2> DEFINE w == held[h]
    <2>1. pc[h] = "close" /\ inv[h] \in Invocations /\ w \in WriterIds /\ inv[w[1]] = inv[h]
      BY <1>7 DEF Close, CloseFails, CallInv, CallOK, Finishing, OwnerInv
    <2>2. \/ \E s \in AfterClose(h, w, inv[h]) : Flush(inv[h], s, wr[w].data)
          \/ \E s \in AfterWrite(inv[h]) : Flush(inv[h], s, file[inv[h]].data)
      BY <1>7 DEF Close, CloseFails
    <2>3. wr'[w].st = "closed" /\ wr'[w].data = wr[w].data /\ inv' = inv
      <3>1. wr \in [WriterIds -> WriterState] /\ wr[w] \in WriterState
        BY <2>1 DEF TypeOK
      <3>2. CASE Close(h)
        BY <2>1, <3>1, <3>2 DEF Close, WriterState
      <3>3. CASE CloseFails(h)
        <4>1. wr' = [wr EXCEPT ![w] = [@ EXCEPT !.st = "closed", !.err = TRUE]] /\ inv' = inv
          BY <3>3 DEF CloseFails
        <4>2. /\ [wr[w] EXCEPT !.st = "closed", !.err = TRUE].st = "closed"
              /\ [wr[w] EXCEPT !.st = "closed", !.err = TRUE].data = wr[w].data
          BY <3>1 DEF WriterState
        <4> HIDE DEF w
        <4> QED
          BY <2>1, <3>1, <4>1, <4>2
      <3> QED
        BY <1>7, <3>2, <3>3
    <2> HIDE DEF w
    <2>4. ASSUME NEW s, Flush(inv[h], s, wr[w].data), i = inv[h]
          PROVE  CommittedAfter(i, file'[i].data)
      <3>1. file'[i].data = wr[w].data
        BY <1>0, <2>4 DEF Flush, FileState
      <3> QED
        BY <2>1, <2>3, <2>4, <3>1 DEF CommittedAfter
    <2>5. ASSUME NEW s, Flush(inv[h], s, wr[w].data), i # inv[h]
          PROVE  file[i].st = "valid" /\ file'[i].data = file[i].data
      <3>1. file'[i] = file[i]
        BY <1>0, <2>1, <2>5 DEF Flush
      <3> QED
        BY <3>1
    <2> QED
      BY <1>2, <2>1, <2>2, <2>4, <2>5
  <1>8. ASSUME NEW h \in Streams, FinalizeTake(h) \/ Disconnect(h) \/ Upsert(h) \/ UpsertFails(h)
                 \/ SendAck(h) \/ SendFails(h) \/ ReturnOk(h)
        PROVE  file' = file
    BY <1>8 DEF FinalizeTake, Disconnect, Upsert, UpsertFails, SendAck, SendFails, ReturnOk, storeVars
  <1>9. ASSUME (\E r \in Readers : ReadEvents(r)) \/ Crash \/ UNCHANGED vars PROVE file' = file
    BY <1>9 DEF ReadEvents, ReadExists, ReadBlob, storeVars, Crash, vars
  <1>10. CASE \E h \in Streams : Recv(h) \/ AppendEvent(h) \/ Finish(h)
    BY <1>1, <1>3, <1>4, <1>5, <1>6, <1>7, <1>8, <1>10 DEF AppendEvent, Finish
  <1> QED
    BY <1>1, <1>9, <1>10 DEF Next, AllReturned

(* Every step keeps readable files committed. *)
LEMMA NextFile ==
    TypeOK /\ CallInv /\ FreshInv /\ OwnerInv /\ FileInv /\ [Next]_vars => FileInv'
  <1> SUFFICES ASSUME TypeOK, CallInv, FreshInv, OwnerInv, FileInv, [Next]_vars,
                      NEW i \in Invocations, file'[i].st = "valid"
               PROVE  CommittedAfter(i, file'[i].data)
    BY DEF FileInv, CommittedAfter
  <1>1. ClosedStable /\ InvStable /\ i # None
    BY NextClosedStable, NextInvStable, NoneAssumption
  <1>2. CASE file[i].st = "valid" /\ file'[i].data = file[i].data
    <2>1. Committed(i, file[i].data)
      BY <1>2 DEF FileInv, Committed
    <2>2. CommittedAfter(i, file[i].data)
      BY <1>1, <2>1, CommittedStable
    <2> QED
      BY <1>2, <2>2
  <1> QED
    BY <1>2, FileSteps

(* Once a call has reached its sends, its locals are final. *)
LEMMA FinishedStable ==
    ASSUME TypeOK, CallInv, [Next]_vars, NEW g \in Streams, pc[g] \in {"send", "done"}
    PROVE  /\ pc'[g] \in {"send", "done"}
           /\ inv'[g] = inv[g] /\ parsed'[g] = parsed[g] /\ acks'[g] = acks[g]
  <1>1. ASSUME NEW h \in Streams, Recv(h) \/ AppendEvent(h) \/ Finish(h), h # g
        PROVE  Untouched(g)
    BY <1>1, CallFrame
  <1>2. ~Recv(g) /\ ~AppendEvent(g)
    BY DEF Recv, RecvBazelEvent, RecvOtherEvent, RecvNoInvocation, RecvError, EofNoStream,
           EofAccept, EofReject, AppendEvent, WriterForHit, WriterForOpen, AppendFails, Write,
           WriteFails
  <1>3. CASE Finish(g)
    <2>1. CASE SendAck(g) \/ SendFails(g) \/ ReturnOk(g) \/ Disconnect(g)
      BY <2>1 DEF SendAck, SendFails, ReturnOk, Return, Disconnect, TypeOK
    <2>2. CASE FinalizeTake(g) \/ Close(g) \/ CloseFails(g) \/ Upsert(g) \/ UpsertFails(g)
      BY <2>2 DEF FinalizeTake, Close, CloseFails, Upsert, UpsertFails
    <2> QED
      BY <1>3, <2>1, <2>2 DEF Finish
  <1>4. CASE \E h \in Streams : Recv(h) \/ AppendEvent(h) \/ Finish(h)
    BY <1>1, <1>2, <1>3, <1>4 DEF Untouched
  <1>5. CASE \E r \in Readers : ReadEvents(r)
    BY <1>5 DEF ReadEvents, ReadExists, ReadBlob, callVars
  <1>6. CASE Crash
    BY <1>6 DEF Crash
  <1>7. CASE UNCHANGED vars
    BY <1>7 DEF vars
  <1> QED
    BY <1>4, <1>5, <1>6, <1>7 DEF Next, AllReturned

(* Every step keeps the rows of the index complete. *)
LEMMA NextIndexed ==
    TypeOK /\ CallInv /\ IndexedComplete /\ [Next]_vars => IndexedComplete'
  <1> SUFFICES ASSUME TypeOK, CallInv, IndexedComplete, [Next]_vars,
                      NEW i \in Invocations, row'[i] # None
               PROVE  /\ inv'[row'[i].from] = i /\ inv'[row'[i].created] = i
                      /\ row'[i].events = parsed'[row'[i].from]
                      /\ pc'[row'[i].from] \in {"send", "done"} /\ pc'[row'[i].created] \in {"send", "done"}
                      /\ Contiguous(acks'[row'[i].from])
                      /\ OnceUpTo(parsed'[row'[i].from], Len(acks'[row'[i].from]))
    BY DEF IndexedComplete, OnceUpTo, Contiguous
  <1>1. ASSUME row'[i] = row[i]
        PROVE  /\ inv'[row'[i].from] = i /\ inv'[row'[i].created] = i
               /\ row'[i].events = parsed'[row'[i].from]
               /\ pc'[row'[i].from] \in {"send", "done"} /\ pc'[row'[i].created] \in {"send", "done"}
               /\ Contiguous(acks'[row'[i].from])
               /\ OnceUpTo(parsed'[row'[i].from], Len(acks'[row'[i].from]))
    <2> DEFINE g == row[i].from
               c == row[i].created
    <2>1. /\ g \in Streams /\ inv[g] = i /\ row[i].events = parsed[g]
          /\ pc[g] \in {"send", "done"} /\ OnceUpTo(parsed[g], Len(acks[g])) /\ Contiguous(acks[g])
          /\ c \in Streams /\ inv[c] = i /\ pc[c] \in {"send", "done"}
      BY <1>1 DEF IndexedComplete, TypeOK, RowState
    <2>2. /\ pc'[g] \in {"send", "done"}
          /\ inv'[g] = inv[g] /\ parsed'[g] = parsed[g] /\ acks'[g] = acks[g]
      BY <2>1, FinishedStable
    <2>3. pc'[c] \in {"send", "done"} /\ inv'[c] = inv[c]
      BY <2>1, FinishedStable
    <2> QED
      BY <1>1, <2>1, <2>2, <2>3
  <1>2. ASSUME NEW h \in Streams, Upsert(h)
        PROVE  /\ inv'[row'[i].from] = i /\ inv'[row'[i].created] = i
               /\ row'[i].events = parsed'[row'[i].from]
               /\ pc'[row'[i].from] \in {"send", "done"} /\ pc'[row'[i].created] \in {"send", "done"}
               /\ Contiguous(acks'[row'[i].from])
               /\ OnceUpTo(parsed'[row'[i].from], Len(acks'[row'[i].from]))
    <2>1. inv[h] \in Invocations /\ OnceUpTo(parsed[h], Len(acks[h])) /\ Contiguous(acks[h])
      BY <1>2 DEF Upsert, CallInv, CallOK, Finishing
    <2>2. pc'[h] = "send" /\ UNCHANGED <<inv, parsed, acks>>
      BY <1>2 DEF Upsert, TypeOK
    <2>3. CASE i = inv[h]
      <3>1. /\ row'[i].from = h /\ row'[i].events = parsed[h]
            /\ row'[i].created = IF row[i] = None THEN h ELSE row[i].created
        BY <1>2, <2>1, <2>3 DEF Upsert, TypeOK
      <3>2. row[i] # None => /\ row[i].created \in Streams /\ inv[row[i].created] = i
                             /\ pc[row[i].created] \in {"send", "done"}
        BY DEF IndexedComplete, TypeOK, RowState
      <3>3. row[i] # None => pc'[row[i].created] \in {"send", "done"}
        BY <3>2, FinishedStable
      <3> QED
        BY <2>1, <2>2, <2>3, <3>1, <3>2, <3>3
    <2>4. CASE i # inv[h]
      <3>1. row'[i] = row[i]
        BY <1>2, <2>1, <2>4 DEF Upsert, TypeOK
      <3> QED
        BY <1>1, <3>1
    <2> QED
      BY <2>3, <2>4
  <1>3. ASSUME NEW h \in Streams, Recv(h) \/ AppendEvent(h) PROVE row' = row
    BY <1>3 DEF Recv, RecvBazelEvent, RecvOtherEvent, RecvNoInvocation, RecvError, EofNoStream,
           EofAccept, EofReject, AppendEvent, WriterForHit, WriterForOpen, AppendFails, Write,
           WriteFails, storeVars
  <1>4. ASSUME NEW h \in Streams, Finish(h), ~Upsert(h) PROVE row' = row
    BY <1>4 DEF Finish, FinalizeTake, Close, CloseFails, Disconnect, UpsertFails, SendAck, SendFails,
                ReturnOk, storeVars
  <1>5. ASSUME (\E r \in Readers : ReadEvents(r)) \/ Crash \/ UNCHANGED vars PROVE row' = row
    BY <1>5 DEF ReadEvents, ReadExists, ReadBlob, storeVars, Crash, vars
  <1>6. row' = row \/ \E h \in Streams : Upsert(h)
    BY <1>3, <1>4, <1>5 DEF Next, AllReturned
  <1> QED
    BY <1>1, <1>2, <1>6

(* Every step keeps what readers returned committed. *)
LEMMA NextReads ==
    /\ TypeOK /\ CallInv /\ ReaderInv /\ FreshInv /\ OwnerInv /\ FileInv /\ ReadsCommitted
    /\ [Next]_vars
    => ReadsCommitted'
  <1> SUFFICES ASSUME TypeOK, CallInv, ReaderInv, FreshInv, OwnerInv, FileInv, ReadsCommitted,
                      [Next]_vars,
                      NEW q \in Readers, rd'[q].pc = "done", rd'[q].found, ~rd'[q].err
               PROVE  CommittedAfter(rd'[q].inv, rd'[q].events)
    BY DEF ReadsCommitted, CommittedAfter
  <1>0. rd \in [Readers -> ReadState] /\ rd[q] \in ReadState
    BY DEF TypeOK
  <1>1. ClosedStable /\ InvStable
    BY NextClosedStable, NextInvStable
  <1>2. ASSUME rd'[q] = rd[q] PROVE CommittedAfter(rd'[q].inv, rd'[q].events)
    <2>1. PICK w \in WriterIds :
            wr[w].st = "closed" /\ inv[w[1]] = rd[q].inv /\ wr[w].data = rd[q].events
      BY <1>2 DEF ReadsCommitted
    <2>2. w[1] \in Streams /\ inv[w[1]] # None
      BY <2>1 DEF WriterIds, OwnerInv
    <2>3. wr'[w] = wr[w] /\ inv'[w[1]] = inv[w[1]]
      BY <1>1, <2>1, <2>2 DEF ClosedStable, InvStable
    <2> QED
      BY <1>2, <2>1, <2>3 DEF CommittedAfter
  <1>3. ASSUME \E h \in Streams : Recv(h) \/ AppendEvent(h) \/ Finish(h) PROVE rd' = rd
    BY <1>3 DEF Recv, RecvBazelEvent, RecvOtherEvent, RecvNoInvocation, RecvError, EofNoStream,
           EofAccept, EofReject, AppendEvent, WriterForHit, WriterForOpen, AppendFails, Write,
           WriteFails, Finish, FinalizeTake, Close, CloseFails, Disconnect, Upsert, UpsertFails,
           SendAck, SendFails, ReturnOk
  <1>4. ASSUME NEW r \in Readers, NEW i \in Invocations, ReadExists(r, i)
        PROVE  CommittedAfter(rd'[q].inv, rd'[q].events)
    <2>1. CASE q # r
      <3>1. rd'[q] = rd[q]
        BY <1>0, <1>4, <2>1 DEF ReadExists
      <3> QED
        BY <1>2, <3>1
    <2>2. CASE q = r
      <3>1. rd[q].pc = "idle" /\ ~rd[q].found
        BY <1>4, <2>2 DEF ReadExists, ReaderInv
      <3>2. rd'[q].pc = "done" => rd'[q].found = rd[q].found
        BY <1>0, <1>4, <2>2 DEF ReadExists, ReadState
      <3> QED
        BY <3>1, <3>2
    <2> QED
      BY <2>1, <2>2
  <1>5. ASSUME NEW r \in Readers, ReadBlob(r)
        PROVE  CommittedAfter(rd'[q].inv, rd'[q].events)
    <2>1. CASE q # r
      <3>1. rd'[q] = rd[q]
        BY <1>0, <1>5, <2>1 DEF ReadBlob
      <3> QED
        BY <1>2, <3>1
    <2>2. CASE q = r
      <3> DEFINE i == rd[q].inv
                 d == file[i].data
      <3>1. i \in Invocations /\ i # None
        BY <1>5, <2>2, NoneAssumption DEF ReadBlob, ReaderInv
      <3> HIDE DEF i, d
      <3>2. file[i].st = "valid" /\ rd'[q].inv = i /\ rd'[q].events = d
        BY <1>0, <1>5, <2>2 DEF ReadBlob, ReadState, i, d
      <3>3. Committed(i, d)
        BY <3>1, <3>2 DEF FileInv, Committed, d
      <3>4. CommittedAfter(i, d)
        BY <1>1, <3>1, <3>3, CommittedStable
      <3> QED
        BY <3>2, <3>4
    <2> QED
      BY <2>1, <2>2
  <1>6. CASE Crash
    <2>1. rd'[q] = rd[q]
      BY <1>0, <1>6 DEF Crash, ReadState
    <2> QED
      BY <1>2, <2>1
  <1>7. CASE UNCHANGED vars
    BY <1>2, <1>7 DEF vars
  <1> QED
    BY <1>2, <1>3, <1>4, <1>5, <1>6, <1>7 DEF Next, AllReturned, ReadEvents

-----------------------------------------------------------------------------
(* The inductive invariant holds at the start. *)
LEMMA InitInv == Init => IndInv
  <1> SUFFICES ASSUME Init PROVE IndInv
    OBVIOUS
  <1>1. TypeOK
    BY InitType
  <1>2. CallInv /\ ReaderInv
    BY DEF Init, CallInv, CallOK, ReaderInv, Finishing
  <1>3. ParsedInv
    <2>1. Embedded(<<>>, <<>>)
      <3>1. [j \in DOMAIN <<>> |-> j] \in [DOMAIN <<>> -> DOMAIN <<>>]
        OBVIOUS
      <3>2. DOMAIN <<>> = {}
        OBVIOUS
      <3> QED
        BY <3>1, <3>2 DEF Embedded
    <2> QED
      BY <2>1 DEF Init, ParsedInv, ParsedOK
  <1>4. FreshInv
    BY DEF Init, FreshInv, WriterIds
  <1>5. OwnerInv
    <2>1. \A w \in WriterIds : wr[w].st = "unused" /\ w # None
      BY NoneAssumption DEF Init, WriterIds
    <2>2. \A w \in WriterIds : ~Registered(w)
      BY <2>1 DEF Init, Registered
    <2>3. \A h \in Streams : pc[h] = "recv"
      BY DEF Init
    <2> QED
      BY <2>1, <2>2, <2>3 DEF Init, OwnerInv, WriterOwned, Closing
  <1>6. FileInv /\ IndexedComplete /\ ReadsCommitted
    BY DEF Init, FileInv, IndexedComplete, ReadsCommitted
  <1> QED
    BY <1>1, <1>2, <1>3, <1>4, <1>5, <1>6 DEF IndInv

(* Every step keeps the inductive invariant. *)
LEMMA NextInv == IndInv /\ [Next]_vars => IndInv'
  <1> SUFFICES ASSUME IndInv, [Next]_vars PROVE IndInv'
    OBVIOUS
  <1> USE DEF IndInv
  <1>1. TypeOK'
    BY NextType
  <1>2. CallInv' /\ ParsedInv'
    BY NextCall
  <1>3. ReaderInv'
    BY NextReader
  <1>4. OwnerInv' /\ FreshInv'
    BY <1>1, NextOwner, NextFresh
  <1>5. FileInv' /\ IndexedComplete' /\ ReadsCommitted'
    BY NextFile, NextIndexed, NextReads
  <1> QED
    BY <1>1, <1>2, <1>3, <1>4, <1>5

(* The write path is type correct and its invariant holds in every         *)
(* reachable state: any number of calls, invocations, restarts and         *)
(* readers, clients that overlap, faults of every kind.                    *)
THEOREM Invariance == Spec => []IndInv
  BY InitInv, NextInv, PTL DEF Spec

(* Type correctness of the write path. *)
THEOREM TypeCorrect == Spec => []TypeOK
  <1>1. IndInv => TypeOK
    BY DEF IndInv
  <1> QED
    BY <1>1, Invariance, PTL

(* Finalize and writerFor never lose a writer nor close one twice. *)
THEOREM WritersOwned == Spec => []WriterOwned
  <1>1. IndInv => WriterOwned
    BY DEF IndInv, OwnerInv
  <1> QED
    BY <1>1, Invariance, PTL

(* finish acknowledges only streams whose numbers are 1, 2, ..., n. *)
THEOREM AcksComplete == Spec => []AckOnlyComplete
  <1>1. IndInv => AckOnlyComplete
    BY DEF IndInv, CallInv, CallOK, AckOnlyComplete, Contiguous
  <1> QED
    BY <1>1, Invariance, PTL

(* The index holds records of accepted streams only. *)
THEOREM RowsComplete == Spec => []IndexedComplete
  <1>1. IndInv => IndexedComplete
    BY DEF IndInv
  <1> QED
    BY <1>1, Invariance, PTL

(* ReadEvents never returns part of a stream that is still being written. *)
THEOREM ReadsAreCommitted == Spec => []ReadsCommitted
  <1>1. IndInv => ReadsCommitted
    BY DEF IndInv
  <1> QED
    BY <1>1, Invariance, PTL

-----------------------------------------------------------------------------
(***************************************************************************)
(* What an ack promises when storage does not fail: for any number of      *)
(* calls, invocations, messages and restarts, in whatever order the        *)
(* messages come, as long as clients send an invocation's streams one      *)
(* after another and only connections break.                               *)
(***************************************************************************)

(* The faults and clients of a healthy server: connections may break, an   *)
(* invocation has one stream at a time.                                    *)
RetryOnly == Faults \subseteq {"conn"} /\ ~Overlap

(* How a call of the invocation ended if it left no writer behind.         *)
Settled == {"ok", "crashed"}

(* No other call of h's invocation left its writer behind.                 *)
Alone(h) == \A g \in Streams \ {h} : inv[g] = inv[h] => result[g] \in Settled

(* Where the events of h are on their way to the file: in the registered   *)
(* writer, in the one being closed, in the file.                           *)
Kept(h) ==
    IF pc[h] = "close" THEN wr[held[h]].data
    ELSE IF pc[h] \in {"upsert", "send"} THEN file[inv[h]].data
    ELSE IF writers[inv[h]] = None THEN <<>> ELSE wr[writers[inv[h]]].data

(* h's events are the tail of what is kept, and all of it when h is alone. *)
EventsKept(h) ==
    /\ IsTail(parsed[h], Kept(h))
    /\ Alone(h) => Kept(h) = parsed[h] \/ (pc[h] \in {"upsert", "send"} /\ parsed[h] = <<>>)

LiveOK(h) ==
    /\ pc[h] = "write" => writers[inv[h]] # None /\ held[h] = writers[inv[h]]
    /\ pc[h] \in {"close", "upsert", "send"} => writers[inv[h]] = None
    /\ pc[h] \in {"upsert", "send"} /\ parsed[h] # <<>> => file[inv[h]].st = "valid"
    /\ pc[h] = "send" /\ ~lost[h] => row[inv[h]] # None /\ row[inv[h]].events = parsed[h]
    /\ EventsKept(h)

(* A call without an invocation has parsed nothing.                        *)
StreamOK(h) ==
    /\ inv[h] = None => parsed[h] = <<>>
    /\ pc[h] # "done" => result[h] = "none"
    /\ Live(h) => LiveOK(h)

OneLive == \A g, h \in Streams : Live(g) /\ Live(h) /\ inv[g] = inv[h] => g = h

(* A writer is left behind only by a call that failed.                     *)
Leftover == \A i \in Invocations :
    (\A g \in Streams : inv[g] = i => result[g] \in Settled) => writers[i] = None

(* No writer failed or was shared, no file was truncated under a writer.   *)
StorageOK ==
    /\ \A w \in WriterIds : ~wr[w].err /\ ~wr[w].raced /\ (wr[w].st = "unused" => wr[w].data = <<>>)
    /\ \A i \in Invocations : ~file[i].mixed

RetryInv == (\A h \in Streams : StreamOK(h)) /\ OneLive /\ Leftover /\ StorageOK

-----------------------------------------------------------------------------
(* Tails. *)

(* Nothing is a tail of anything.                                          *)
LEMMA TailEmpty ==
    ASSUME NEW S, NEW t \in Seq(S)
    PROVE  IsTail(<<>>, t)
  BY DEF IsTail

(* Only nothing is a tail of nothing.                                      *)
LEMMA EmptyTail ==
    ASSUME NEW S, NEW s \in Seq(S), IsTail(s, <<>>)
    PROVE  s = <<>>
  BY DEF IsTail

(* Appending the same event to both keeps the tail. *)
LEMMA TailAppend ==
    ASSUME NEW S, NEW s \in Seq(S), NEW t \in Seq(S), NEW e \in S, IsTail(s, t)
    PROVE  IsTail(Append(s, e), Append(t, e))
  <1>1. PICK m \in Nat, n \in Nat : m = Len(s) /\ n = Len(t)
    OBVIOUS
  <1>2. m <= n /\ \A k \in 1..m : s[k] = t[n - m + k]
    <2>1. m <= n /\ s = SubSeq(t, n - m + 1, n)
      BY <1>1 DEF IsTail
    <2>2. PICK u \in Seq(S) : u = SubSeq(t, n - m + 1, n)
      BY <1>1, <2>1
    <2>3. Len(u) = m /\ \A k \in 1..m : u[k] = t[n - m + k]
      BY <1>1, <2>1, <2>2
    <2> QED BY <2>1, <2>2, <2>3
  <1>3. PICK a \in Seq(S), b \in Seq(S) : a = Append(s, e) /\ b = Append(t, e)
    <2>1. Append(s, e) \in Seq(S) /\ Append(t, e) \in Seq(S)
      OBVIOUS
    <2> QED BY <2>1
  <1>4. /\ Len(a) = m + 1 /\ Len(b) = n + 1 /\ a[m + 1] = e /\ b[n + 1] = e
        /\ \A k \in 1..m : a[k] = s[k]
        /\ \A k \in 1..n : b[k] = t[k]
    BY <1>1, <1>3
  <1>5. PICK c \in Seq(S) : c = SubSeq(b, n - m + 1, n + 1)
    BY <1>2, <1>4
  <1>6. Len(c) = m + 1 /\ \A k \in 1..(m + 1) : c[k] = b[n - m + k]
    BY <1>2, <1>4, <1>5
  <1>7. \A k \in 1..(m + 1) : a[k] = c[k]
    <2> TAKE k \in 1..(m + 1)
    <2>1. CASE k = m + 1
      BY <1>2, <1>4, <1>6, <2>1
    <2>2. CASE k \in 1..m
      <3>1. n - m + k \in 1..n
        BY <1>2, <2>2
      <3> QED BY <1>2, <1>4, <1>6, <2>2, <3>1
    <2> QED BY <2>1, <2>2
  <1>8. a = c
    <2>1. a \in [1..(m + 1) -> S] /\ c \in [1..(m + 1) -> S]
      BY <1>4, <1>6
    <2> QED BY <1>7, <2>1
  <1>9. n + 1 - (m + 1) + 1 = n - m + 1
    OBVIOUS
  <1>10. IsTail(a, b)
    BY <1>2, <1>4, <1>5, <1>8, <1>9 DEF IsTail
  <1> QED BY <1>3, <1>10

-----------------------------------------------------------------------------
(* A step of one call. *)

(* h acts: it disturbs no other call, and of the store only what belongs   *)
(* to its invocation.                                                      *)
Frame(h) ==
    /\ pc[h] # "done"
    /\ \A g \in Streams \ {h} :
          /\ pc'[g] = pc[g] /\ inv'[g] = inv[g] /\ parsed'[g] = parsed[g]
          /\ held'[g] = held[g] /\ result'[g] = result[g]
    /\ \A i \in Invocations \ {inv'[h]} :
          writers'[i] = writers[i] /\ file'[i] = file[i] /\ row'[i] = row[i]
    /\ \A w \in WriterIds : inv[w[1]] # inv'[h] => wr'[w] = wr[w]

(* h keeps its invocation, or joins one that has no live call.             *)
Joins(h) ==
    \/ inv'[h] = inv[h]
    \/ inv[h] = None /\ \A g \in Streams : inv[g] = inv'[h] => ~Live(g)

(* A call that ends well leaves no writer.                                 *)
Settles(h) == inv'[h] # None /\ result'[h] \in Settled => writers'[inv'[h]] = None

(* A lost connection does not come back.                                   *)
LostStable == \A g \in Streams : lost[g] => lost'[g]

LEMMA NextLostStable == TypeOK /\ [Next]_vars => LostStable
  <1> SUFFICES ASSUME TypeOK, [Next]_vars PROVE LostStable
    OBVIOUS
  <1>1. ASSUME NEW h \in Streams, Disconnect(h) PROVE LostStable
    BY <1>1 DEF Disconnect, TypeOK, LostStable
  <1>2. ASSUME NEW h \in Streams, Recv(h) PROVE lost' = lost
    BY <1>2 DEF Recv, RecvBazelEvent, RecvOtherEvent, RecvNoInvocation, RecvError, EofNoStream,
           EofAccept, EofReject
  <1>3. ASSUME NEW h \in Streams, AppendEvent(h) PROVE lost' = lost
    BY <1>3 DEF AppendEvent, WriterForHit, WriterForOpen, AppendFails, Write, WriteFails
  <1>4. ASSUME NEW h \in Streams, Finish(h), ~Disconnect(h) PROVE lost' = lost
    BY <1>4 DEF Finish, FinalizeTake, Close, CloseFails, Upsert, UpsertFails, SendAck, SendFails,
           ReturnOk
  <1>5. ASSUME (\E r \in Readers : ReadEvents(r)) \/ Crash \/ UNCHANGED vars PROVE lost' = lost
    BY <1>5 DEF ReadEvents, ReadExists, ReadBlob, callVars, Crash, vars
  <1>6. lost' = lost \/ \E h \in Streams : Disconnect(h)
    BY <1>2, <1>3, <1>4, <1>5 DEF Next, AllReturned
  <1> QED
    BY <1>1, <1>6 DEF LostStable

(* Other calls are as well off as before: their events are elsewhere. *)
LEMMA OthersOK ==
    ASSUME IndInv, RetryInv, LostStable, NEW h \in Streams, Frame(h), Joins(h), NEW g \in Streams, g # h
    PROVE  StreamOK(g)' /\ (Live(g)' /\ Live(h)' => inv'[g] # inv'[h])
  <1>1. /\ pc'[g] = pc[g] /\ inv'[g] = inv[g] /\ parsed'[g] = parsed[g]
        /\ held'[g] = held[g] /\ result'[g] = result[g]
    BY DEF Frame
  <1>2. StreamOK(g)
    BY DEF RetryInv
  <1>3. Live(g)' <=> Live(g)
    BY <1>1 DEF Live
  <1>4. CASE ~Live(g)
    BY <1>1, <1>2, <1>3, <1>4 DEF StreamOK
  <1>5. CASE Live(g)
    <2>1. inv[g] \in Invocations /\ pc[g] # "done" /\ inv[g] # None
      BY <1>5 DEF Live, IndInv, TypeOK
    <2>2. inv[g] # inv'[h]
      <3>1. CASE inv'[h] = inv[h]
        <4>1. inv[h] = None \/ Live(h)
          BY DEF Frame, Live
        <4> QED BY <1>5, <2>1, <3>1, <4>1 DEF RetryInv, OneLive
      <3>2. CASE inv[h] = None /\ \A k \in Streams : inv[k] = inv'[h] => ~Live(k)
        BY <1>5, <3>2
      <3> QED BY <3>1, <3>2 DEF Joins
    <2>3. inv[h] # inv[g]
      BY <2>1, <2>2 DEF Joins
    <2>4. writers'[inv[g]] = writers[inv[g]] /\ file'[inv[g]] = file[inv[g]] /\ row'[inv[g]] = row[inv[g]]
      BY <2>1, <2>2 DEF Frame
    <2>5. writers[inv[g]] # None => wr'[writers[inv[g]]] = wr[writers[inv[g]]]
      <3>1. writers[inv[g]] # None => writers[inv[g]] \in WriterIds /\ inv[writers[inv[g]][1]] = inv[g]
        BY <2>1 DEF IndInv, TypeOK, OwnerInv
      <3> QED BY <2>2, <3>1 DEF Frame
    <2>6. pc[g] = "close" => wr'[held[g]] = wr[held[g]]
      <3>1. pc[g] = "close" => held[g] \in WriterIds /\ inv[held[g][1]] = inv[g]
        BY DEF IndInv, CallInv, CallOK, OwnerInv
      <3> QED BY <2>2, <3>1 DEF Frame
    <2>7. Kept(g)' = Kept(g)
      BY <1>1, <2>4, <2>5, <2>6 DEF Kept
    <2>8. Alone(g)' <=> Alone(g)
      <3>1. \A k \in Streams \ {g} : (inv'[k] = inv'[g] => result'[k] \in Settled) <=> (inv[k] = inv[g] => result[k] \in Settled)
        <4> TAKE k \in Streams \ {g}
        <4>1. CASE k = h
          BY <1>1, <2>2, <2>3, <4>1
        <4>2. CASE k # h
          BY <1>1, <4>2 DEF Frame
        <4> QED BY <4>1, <4>2
      <3> QED BY <3>1 DEF Alone
    <2>9. LiveOK(g)
      BY <1>2, <1>5 DEF StreamOK
    <2>10. EventsKept(g)'
      BY <1>1, <2>7, <2>8, <2>9 DEF LiveOK, EventsKept
    <2>11. LiveOK(g)'
      BY <1>1, <2>4, <2>9, <2>10 DEF LiveOK, LostStable
    <2> QED BY <1>1, <1>2, <2>1, <2>2, <2>11 DEF StreamOK
  <1> QED BY <1>4, <1>5

(* So it is enough to look at the call that acts. *)
LEMMA StepOK ==
    ASSUME IndInv, RetryInv, LostStable, NEW h \in Streams, Frame(h), Joins(h), Settles(h),
           StreamOK(h)', StorageOK', TypeOK'
    PROVE  RetryInv'
  <1>1. \A g \in Streams : g # h => StreamOK(g)' /\ (Live(g)' /\ Live(h)' => inv'[g] # inv'[h])
    BY OthersOK
  <1>2. \A g \in Streams : StreamOK(g)'
    BY <1>1
  <1>3. OneLive'
    <2> SUFFICES ASSUME NEW f \in Streams, NEW g \in Streams, Live(f)', Live(g)', inv'[f] = inv'[g]
                 PROVE  f = g
      BY DEF OneLive
    <2>1. CASE f = h \/ g = h
      BY <1>1, <2>1
    <2>2. CASE f # h /\ g # h
      <3>1. Live(f) /\ Live(g) /\ inv[f] = inv[g]
        BY <2>2 DEF Frame, Live
      <3> QED BY <3>1 DEF RetryInv, OneLive
    <2> QED BY <2>1, <2>2
  <1>4. Leftover'
    <2> SUFFICES ASSUME NEW i \in Invocations, \A g \in Streams : inv'[g] = i => result'[g] \in Settled
                 PROVE  writers'[i] = None
      BY DEF Leftover
    <2>1. CASE inv'[h] = i
      BY <2>1, NoneAssumption DEF Settles
    <2>2. CASE inv'[h] # i
      <3>1. \A g \in Streams : inv[g] = i => result[g] \in Settled
        BY <2>2, NoneAssumption DEF Frame, Joins
      <3> QED BY <2>2, <3>1 DEF Frame, RetryInv, Leftover
    <2> QED BY <2>1, <2>2
  <1> QED BY <1>2, <1>3, <1>4 DEF RetryInv

-----------------------------------------------------------------------------
(* The steps of a call. *)

(* A step that leaves the store and the other calls alone. *)
LEMMA LocalStep ==
    ASSUME IndInv, RetryInv, NEW h \in Streams, pc[h] # "done", inv' = inv, parsed' = parsed,
           UNCHANGED storeVars,
           \A g \in Streams \ {h} : pc'[g] = pc[g] /\ held'[g] = held[g] /\ result'[g] = result[g]
    PROVE  Frame(h) /\ Joins(h) /\ StorageOK'
  <1>1. StorageOK /\ writers' = writers /\ wr' = wr /\ file' = file /\ row' = row
    BY DEF RetryInv, storeVars
  <1>2. StorageOK'
    BY <1>1 DEF StorageOK
  <1> QED BY <1>1, <1>2 DEF Frame, Joins

(* The call returns. *)
LEMMA ReturnStep ==
    ASSUME IndInv, RetryInv, NEW h \in Streams, pc[h] # "done", NEW res, Return(h, res),
           inv' = inv, parsed' = parsed, held' = held, UNCHANGED storeVars,
           inv[h] # None /\ res \in Settled => writers[inv[h]] = None
    PROVE  Frame(h) /\ Joins(h) /\ Settles(h) /\ StreamOK(h)' /\ StorageOK'
  <1>1. pc' = [pc EXCEPT ![h] = "done"] /\ result' = [result EXCEPT ![h] = res]
    BY DEF Return
  <1>2. pc'[h] = "done" /\ result'[h] = res /\ \A g \in Streams \ {h} : pc'[g] = pc[g] /\ result'[g] = result[g]
    BY <1>1 DEF IndInv, TypeOK
  <1>3. Frame(h) /\ Joins(h) /\ StorageOK'
    BY <1>2, LocalStep
  <1>4. Settles(h)
    BY <1>2 DEF Settles, storeVars
  <1>5. StreamOK(h)'
    BY <1>2 DEF RetryInv, StreamOK, Live
  <1> QED BY <1>3, <1>4, <1>5

(* A message arrives, the first of the call or another. *)
LEMMA ArriveStep ==
    ASSUME IndInv, RetryInv, RetryOnly, NEW h \in Streams, NEW i \in Invocations, pc[h] = "recv",
           inv[h] \in {None, i}, inv[h] = None => \A g \in Streams : inv[g] = i => ~Live(g),
           inv' = [inv EXCEPT ![h] = i], NEW p \in {"recv", "lookup"}, pc' = [pc EXCEPT ![h] = p],
           parsed' = parsed, held' = held, result' = result, UNCHANGED storeVars
    PROVE  Frame(h) /\ Joins(h) /\ Settles(h) /\ StreamOK(h)' /\ StorageOK'
  <1>0. i # None /\ StreamOK(h) /\ TypeOK
    BY NoneAssumption DEF RetryInv, IndInv
  <1>1. writers' = writers /\ wr' = wr /\ file' = file /\ row' = row
    BY DEF storeVars
  <1>2. inv'[h] = i /\ pc'[h] = p /\ \A g \in Streams \ {h} : pc'[g] = pc[g] /\ inv'[g] = inv[g]
    BY DEF IndInv, TypeOK
  <1>3. Frame(h)
    BY <1>1, <1>2 DEF Frame
  <1>4. Joins(h)
    BY <1>2 DEF Joins
  <1>5. result'[h] = "none"
    BY DEF RetryInv, StreamOK
  <1>6. Settles(h)
    BY <1>5 DEF Settles, Settled
  <1>7. StorageOK'
    BY <1>1 DEF RetryInv, StorageOK
  <1>8. Kept(h)' = IF writers[i] = None THEN <<>> ELSE wr[writers[i]].data
    BY <1>1, <1>2 DEF Kept
  <1>9. EventsKept(h)'
    <2>1. CASE inv[h] = i
      <3>1. EventsKept(h)
        BY <1>0, <2>1 DEF StreamOK, Live, LiveOK
      <3>2. Kept(h)' = Kept(h)
        BY <1>8, <2>1 DEF Kept
      <3>3. Alone(h)' => Alone(h)
        BY <1>2, <2>1 DEF Alone
      <3> QED BY <3>1, <3>2, <3>3 DEF EventsKept
    <2>2. CASE inv[h] = None
      <3>1. parsed'[h] = <<>>
        BY <1>0, <2>2 DEF StreamOK
      <3>2. Alone(h)' => writers[i] = None
        <4> SUFFICES ASSUME Alone(h)' PROVE writers[i] = None
          OBVIOUS
        <4>1. \A g \in Streams : inv[g] = i => result[g] \in Settled
          BY <1>0, <1>2, <2>2 DEF Alone
        <4> QED BY <4>1 DEF RetryInv, Leftover
      <3>3. Kept(h)' \in Seq(Seqs)
        BY <1>0, <1>8 DEF TypeOK, WriterState
      <3>4. IsTail(<<>>, Kept(h)')
        BY <3>3, TailEmpty
      <3> QED BY <1>8, <3>1, <3>2, <3>4 DEF EventsKept
    <2> QED BY <2>1, <2>2
  <1>10. LiveOK(h)'
    BY <1>2, <1>9 DEF LiveOK
  <1> QED BY <1>0, <1>2, <1>3, <1>4, <1>5, <1>6, <1>7, <1>10 DEF StreamOK

(* The receive loop and the check at its end.                              *)
LEMMA RecvStep ==
    ASSUME IndInv, RetryInv, RetryOnly, NEW h \in Streams, Recv(h)
    PROVE  Frame(h) /\ Joins(h) /\ Settles(h) /\ StreamOK(h)' /\ StorageOK'
  <1> DEFINE Goal == Frame(h) /\ Joins(h) /\ Settles(h) /\ StreamOK(h)' /\ StorageOK'
  <1>1. ASSUME NEW i \in Invocations, NEW n \in Seqs, RecvBazelEvent(h, i, n) \/ RecvOtherEvent(h, i, n)
        PROVE  Goal
    <2>1. inv[h] = None => \A g \in Streams : inv[g] = i => ~Live(g)
      BY <1>1 DEF RecvBazelEvent, RecvOtherEvent, ClientSends, RetryOnly
    <2>2. CASE RecvBazelEvent(h, i, n)
      BY <2>1, <2>2, ArriveStep DEF RecvBazelEvent
    <2>3. CASE RecvOtherEvent(h, i, n)
      BY <2>1, <2>3, ArriveStep DEF RecvOtherEvent, Acked
    <2> QED BY <1>1, <2>2, <2>3
  <1>2. CASE RecvNoInvocation(h)
    BY <1>2, ReturnStep DEF RecvNoInvocation
  <1>3. CASE RecvError(h)
    BY <1>3, ReturnStep DEF RecvError, Settled
  <1>4. CASE EofNoStream(h)
    BY <1>4, ReturnStep DEF EofNoStream
  <1>5. CASE EofAccept(h)
    <2>1. /\ pc[h] = "recv" /\ inv[h] # None /\ pc' = [pc EXCEPT ![h] = "finalize"]
          /\ inv' = inv /\ parsed' = parsed /\ held' = held /\ result' = result /\ UNCHANGED storeVars
      BY <1>5 DEF EofAccept
    <2>2. pc'[h] = "finalize" /\ \A g \in Streams \ {h} : pc'[g] = pc[g]
      BY <2>1 DEF IndInv, TypeOK
    <2>3. Frame(h) /\ Joins(h) /\ StorageOK'
      BY <2>1, <2>2, LocalStep
    <2>4. StreamOK(h) /\ LiveOK(h) /\ result[h] = "none"
      BY <2>1 DEF RetryInv, StreamOK, Live
    <2>5. Kept(h)' = Kept(h) /\ (Alone(h)' <=> Alone(h))
      BY <2>1, <2>2 DEF Kept, storeVars, Alone
    <2>6. EventsKept(h)'
      BY <2>1, <2>4, <2>5 DEF LiveOK, EventsKept
    <2>7. LiveOK(h)'
      BY <2>2, <2>6 DEF LiveOK
    <2> QED BY <2>1, <2>3, <2>4, <2>7 DEF StreamOK, Settles, Settled
  <1>6. CASE EofReject(h)
    BY <1>6, ReturnStep DEF EofReject, Settled
  <1> QED BY <1>1, <1>2, <1>3, <1>4, <1>5, <1>6 DEF Recv

(* No other call is inside a writer of h's invocation. *)
LEMMA NotShared ==
    ASSUME IndInv, RetryInv, NEW h \in Streams, Live(h), NEW w \in WriterIds, inv[w[1]] = inv[h]
    PROVE  ~Shared(h, w)
  <1> SUFFICES ASSUME NEW g \in Streams, g # h, held[g] = w, pc[g] \in {"write", "close"} PROVE FALSE
    BY DEF Shared
  <1>1. inv[g] \in Invocations /\ Live(g)
    BY NoneAssumption DEF IndInv, CallInv, CallOK, Finishing, Live
  <1>2. inv[w[1]] = inv[g]
    <2>1. CASE pc[g] = "write"
      <3>1. writers[inv[g]] # None /\ w = writers[inv[g]]
        BY <1>1, <2>1 DEF RetryInv, StreamOK, LiveOK
      <3> QED BY <1>1, <3>1 DEF IndInv, OwnerInv
    <2>2. CASE pc[g] = "close"
      BY <2>2 DEF IndInv, OwnerInv
    <2> QED BY <2>1, <2>2
  <1> QED BY <1>1, <1>2 DEF RetryInv, OneLive

(* A file is truncated when no writer has it open. *)
LEMMA NoneOpen ==
    ASSUME IndInv, RetryInv, NEW h \in Streams, Live(h), pc[h] # "close", writers[inv[h]] = None
    PROVE  OpenOn(inv[h]) = {}
  <1> SUFFICES ASSUME NEW v \in WriterIds, wr[v].st = "open", inv[v[1]] = inv[h] PROVE FALSE
    BY DEF OpenOn
  <1>0. v # None
    BY NoneAssumption DEF WriterIds
  <1>1. CASE Registered(v)
    <2>1. PICK j \in Invocations : writers[j] = v
      BY <1>1 DEF Registered
    <2>2. inv[v[1]] = j
      BY <1>0, <2>1 DEF IndInv, OwnerInv
    <2> QED BY <1>0, <2>1, <2>2
  <1>2. CASE \E g \in Streams : Closing(g, v)
    <2>1. PICK g \in Streams : pc[g] = "close" /\ held[g] = v
      BY <1>2 DEF Closing
    <2>2. inv[g] \in Invocations /\ Live(g) /\ inv[g] = inv[h]
      BY <2>1, NoneAssumption DEF IndInv, CallInv, CallOK, Finishing, OwnerInv, Live
    <2> QED BY <2>1, <2>2 DEF RetryInv, OneLive
  <1> QED BY <1>1, <1>2 DEF IndInv, OwnerInv, WriterOwned

(* A writer is opened: the file starts over.                               *)
LEMMA OpenStep ==
    ASSUME IndInv, RetryInv, NEW h \in Streams, WriterForOpen(h)
    PROVE  Frame(h) /\ Joins(h) /\ Settles(h) /\ StreamOK(h)' /\ StorageOK'
  <1>1. pc[h] = "lookup" /\ inv[h] \in Invocations /\ Len(acks[h]) < MaxMsgs /\ Live(h)
    BY NoneAssumption DEF WriterForOpen, IndInv, CallInv, CallOK, Live
  <1>2. PICK i \in Invocations : i = inv[h]
    BY <1>1
  <1>3. PICK w \in WriterIds : w = <<h, Len(acks[h]) + 1>>
    <2>1. Len(acks[h]) + 1 \in 1..MaxMsgs
      BY <1>1, BoundsAssumption DEF IndInv, TypeOK
    <2>2. <<h, Len(acks[h]) + 1>> \in WriterIds
      BY <2>1 DEF WriterIds
    <2> QED BY <2>2
  <1>4. /\ writers[i] = None
        /\ file' = [file EXCEPT ![i] = [st |-> "torn", data |-> <<>>, mixed |-> OpenOn(i) # {}]]
        /\ wr' = [wr EXCEPT ![w].st = "open"] /\ writers' = [writers EXCEPT ![i] = w]
        /\ held' = [held EXCEPT ![h] = w] /\ pc' = [pc EXCEPT ![h] = "write"]
        /\ inv' = inv /\ parsed' = parsed /\ result' = result /\ row' = row
    BY <1>2, <1>3 DEF WriterForOpen, Truncate
  <1>5. OpenOn(i) = {}
    BY <1>1, <1>2, <1>4, NoneOpen
  <1>6. wr[w].st = "unused" /\ wr[w].data = <<>>
    <2>1. wr[w].st = "unused"
      BY <1>1, <1>3, BoundsAssumption DEF IndInv, FreshInv, TypeOK
    <2> QED BY <2>1 DEF RetryInv, StorageOK
  <1>7. w[1] = h /\ w # None
    BY <1>3, NoneAssumption DEF WriterIds
  <1>8. /\ pc'[h] = "write" /\ held'[h] = w /\ writers'[i] = w /\ wr'[w].data = <<>>
        /\ \A g \in Streams \ {h} : pc'[g] = pc[g] /\ held'[g] = held[g]
        /\ \A j \in Invocations \ {i} : writers'[j] = writers[j] /\ file'[j] = file[j]
        /\ \A v \in WriterIds \ {w} : wr'[v] = wr[v]
        /\ wr'[w] = [wr[w] EXCEPT !.st = "open"] /\ wr[w] \in WriterState /\ file'[i].mixed = (OpenOn(i) # {})
    BY <1>2, <1>4, <1>6 DEF IndInv, TypeOK, WriterState
  <1>9. Frame(h) /\ Joins(h)
    BY <1>1, <1>2, <1>4, <1>7, <1>8 DEF Frame, Joins
  <1>10. StreamOK(h) /\ LiveOK(h) /\ result[h] = "none"
    BY <1>1 DEF RetryInv, StreamOK
  <1>11. Settles(h)
    BY <1>4, <1>10 DEF Settles, Settled
  <1>12. StorageOK'
    <2>1. wr'[w].err = wr[w].err /\ wr'[w].raced = wr[w].raced /\ wr'[w].st = "open"
      BY <1>8 DEF WriterState
    <2>2. \A v \in WriterIds : ~wr'[v].err /\ ~wr'[v].raced /\ (wr'[v].st = "unused" => wr'[v].data = <<>>)
      BY <1>8, <2>1 DEF RetryInv, StorageOK
    <2>3. \A j \in Invocations : ~file'[j].mixed
      BY <1>5, <1>8 DEF RetryInv, StorageOK
    <2> QED BY <2>2, <2>3 DEF StorageOK
  <1>13. parsed[h] = <<>>
    <2>1. IsTail(parsed[h], <<>>)
      BY <1>1, <1>2, <1>4, <1>10 DEF LiveOK, EventsKept, Kept
    <2>2. parsed[h] \in Seq(Seqs)
      BY DEF IndInv, TypeOK
    <2> QED BY <2>1, <2>2, EmptyTail
  <1>14. Kept(h)' = <<>>
    BY <1>2, <1>4, <1>7, <1>8 DEF Kept
  <1>15. IsTail(<<>>, <<>>)
    BY DEF IsTail
  <1>16. LiveOK(h)'
    BY <1>2, <1>4, <1>7, <1>8, <1>13, <1>14, <1>15 DEF LiveOK, EventsKept
  <1> QED BY <1>4, <1>9, <1>10, <1>11, <1>12, <1>13, <1>16 DEF StreamOK

(* An event is appended to the writer and to the call's own.               *)
LEMMA WriteStep ==
    ASSUME IndInv, RetryInv, NEW h \in Streams, Write(h)
    PROVE  Frame(h) /\ Joins(h) /\ Settles(h) /\ StreamOK(h)' /\ StorageOK'
  <1>1. pc[h] = "write" /\ inv[h] \in Invocations /\ cur[h] \in Seqs /\ Live(h)
    BY NoneAssumption DEF Write, IndInv, CallInv, CallOK, Live
  <1>2. PICK i \in Invocations : i = inv[h]
    BY <1>1
  <1>3. StreamOK(h) /\ LiveOK(h) /\ result[h] = "none"
    BY <1>1 DEF RetryInv, StreamOK
  <1>4. PICK w \in WriterIds : w = held[h] /\ w = writers[i] /\ inv[w[1]] = i /\ w # None
    BY <1>1, <1>2, <1>3 DEF LiveOK, IndInv, TypeOK, OwnerInv
  <1>5. ~Shared(h, w)
    BY <1>1, <1>2, <1>4, NotShared
  <1>6. /\ wr' = [wr EXCEPT ![w] = [st |-> "open", data |-> Append(@.data, cur[h]), err |-> FALSE,
                                    raced |-> IF Shared(h, w) THEN TRUE ELSE @.raced]]
        /\ \E s \in AfterWrite(i) : Flush(i, s, file[i].data)
        /\ parsed' = [parsed EXCEPT ![h] = Append(@, cur[h])] /\ pc' = [pc EXCEPT ![h] = "recv"]
        /\ held' = [held EXCEPT ![h] = None]
        /\ inv' = inv /\ result' = result /\ writers' = writers /\ row' = row
    BY <1>2, <1>4 DEF Write, AppendReturns, Acked
  <1>7. /\ pc'[h] = "recv" /\ parsed'[h] = Append(parsed[h], cur[h])
        /\ \A g \in Streams \ {h} : pc'[g] = pc[g] /\ held'[g] = held[g] /\ parsed'[g] = parsed[g]
        /\ \A v \in WriterIds \ {w} : wr'[v] = wr[v]
        /\ wr'[w].data = Append(wr[w].data, cur[h]) /\ wr'[w].st = "open"
        /\ ~wr'[w].err /\ wr'[w].raced = wr[w].raced
    BY <1>5, <1>6 DEF IndInv, TypeOK
  <1>8. /\ \A j \in Invocations \ {i} : file'[j] = file[j]
        /\ file'[i].mixed = file[i].mixed
    BY <1>6 DEF Flush, IndInv, TypeOK, FileState
  <1>9. Frame(h) /\ Joins(h)
    BY <1>1, <1>2, <1>4, <1>6, <1>7, <1>8 DEF Frame, Joins
  <1>10. Settles(h)
    BY <1>3, <1>6 DEF Settles, Settled
  <1>11. StorageOK'
    <2>1. \A v \in WriterIds : ~wr'[v].err /\ ~wr'[v].raced /\ (wr'[v].st = "unused" => wr'[v].data = <<>>)
      BY <1>7 DEF RetryInv, StorageOK
    <2>2. \A j \in Invocations : ~file'[j].mixed
      BY <1>8 DEF RetryInv, StorageOK
    <2> QED BY <2>1, <2>2 DEF StorageOK
  <1>12. Kept(h) = wr[w].data /\ Kept(h)' = Append(wr[w].data, cur[h])
    BY <1>1, <1>2, <1>4, <1>6, <1>7 DEF Kept
  <1>13. IsTail(parsed'[h], Kept(h)')
    <2>1. parsed[h] \in Seq(Seqs) /\ wr[w].data \in Seq(Seqs) /\ IsTail(parsed[h], wr[w].data)
      BY <1>3, <1>12 DEF IndInv, TypeOK, WriterState, LiveOK, EventsKept
    <2> QED BY <1>1, <1>7, <1>12, <2>1, TailAppend
  <1>14. Alone(h)' => Kept(h)' = parsed'[h]
    <2>1. Alone(h)' => Alone(h)
      BY <1>6 DEF Alone
    <2>2. Alone(h) => Kept(h) = parsed[h]
      BY <1>1, <1>3 DEF LiveOK, EventsKept
    <2> QED BY <1>7, <1>12, <2>1, <2>2
  <1>15. LiveOK(h)'
    BY <1>7, <1>13, <1>14 DEF LiveOK, EventsKept
  <1> QED BY <1>1, <1>3, <1>6, <1>9, <1>10, <1>11, <1>15, NoneAssumption DEF StreamOK

(* AppendEvent; with sound storage it does not fail.                       *)
LEMMA AppendStep ==
    ASSUME IndInv, RetryInv, RetryOnly, NEW h \in Streams, AppendEvent(h)
    PROVE  Frame(h) /\ Joins(h) /\ Settles(h) /\ StreamOK(h)' /\ StorageOK'
  <1>1. CASE WriterForHit(h)
    <2>1. /\ pc[h] = "lookup" /\ inv[h] \in Invocations /\ Live(h) /\ writers[inv[h]] # None
          /\ pc' = [pc EXCEPT ![h] = "write"] /\ held' = [held EXCEPT ![h] = writers[inv[h]]]
          /\ inv' = inv /\ parsed' = parsed /\ result' = result /\ UNCHANGED storeVars
      BY <1>1, NoneAssumption DEF WriterForHit, IndInv, CallInv, CallOK, Live
    <2>2. /\ pc'[h] = "write" /\ held'[h] = writers[inv[h]]
          /\ \A g \in Streams \ {h} : pc'[g] = pc[g] /\ held'[g] = held[g]
      BY <2>1 DEF IndInv, TypeOK
    <2>3. Frame(h) /\ Joins(h) /\ StorageOK'
      BY <2>1, <2>2, LocalStep
    <2>4. StreamOK(h) /\ LiveOK(h) /\ result[h] = "none"
      BY <2>1 DEF RetryInv, StreamOK
    <2>5. Kept(h)' = Kept(h) /\ (Alone(h)' <=> Alone(h))
      BY <2>1, <2>2 DEF Kept, storeVars, Alone
    <2>6. EventsKept(h)'
      BY <2>1, <2>4, <2>5 DEF LiveOK, EventsKept
    <2>7. LiveOK(h)'
      BY <2>1, <2>2, <2>6 DEF LiveOK, storeVars
    <2> QED BY <2>1, <2>3, <2>4, <2>7 DEF StreamOK, Settles, Settled
  <1>2. CASE WriterForOpen(h)
    BY <1>2, OpenStep
  <1>3. CASE AppendFails(h)
    BY <1>3 DEF AppendFails, RetryOnly
  <1>4. CASE Write(h)
    BY <1>4, WriteStep
  <1>5. CASE WriteFails(h)
    <2>1. pc[h] = "write" /\ inv[h] \in Invocations /\ Live(h) /\ held[h] \in WriterIds
      BY <1>5, NoneAssumption DEF WriteFails, IndInv, CallInv, CallOK, Live
    <2>2. held[h] = writers[inv[h]]
      BY <2>1 DEF RetryInv, StreamOK, LiveOK
    <2>3. wr[held[h]].st = "open"
      BY <2>1, <2>2 DEF IndInv, OwnerInv, WriterOwned, Registered
    <2> QED BY <1>5, <2>1, <2>3 DEF WriteFails, RetryOnly, RetryInv, StorageOK
  <1> QED BY <1>1, <1>2, <1>3, <1>4, <1>5 DEF AppendEvent

(* Finalize takes the writer out of the map, if there is one. *)
LEMMA TakeStep ==
    ASSUME IndInv, RetryInv, NEW h \in Streams, FinalizeTake(h)
    PROVE  Frame(h) /\ Joins(h) /\ Settles(h) /\ StreamOK(h)' /\ StorageOK'
  <1>1. /\ pc[h] = "finalize" /\ inv[h] \in Invocations /\ Live(h)
        /\ inv' = inv /\ parsed' = parsed /\ result' = result /\ wr' = wr /\ file' = file /\ row' = row
    BY NoneAssumption DEF FinalizeTake, IndInv, CallInv, CallOK, Finishing, Live
  <1>2. PICK i \in Invocations : i = inv[h]
    BY <1>1
  <1>3. StreamOK(h) /\ LiveOK(h) /\ result[h] = "none"
    BY <1>1 DEF RetryInv, StreamOK
  <1>4. Settles(h)
    BY <1>1, <1>3 DEF Settles, Settled
  <1>5. StorageOK'
    BY <1>1 DEF RetryInv, StorageOK
  <1>6. Alone(h)' <=> Alone(h)
    BY <1>1 DEF Alone
  <1>7. CASE writers[i] = None
    <2>1. pc' = [pc EXCEPT ![h] = "upsert"] /\ held' = held /\ writers' = writers
      BY <1>2, <1>7 DEF FinalizeTake
    <2>2. pc'[h] = "upsert" /\ \A g \in Streams \ {h} : pc'[g] = pc[g]
      BY <2>1 DEF IndInv, TypeOK
    <2>3. Frame(h) /\ Joins(h)
      BY <1>1, <2>1, <2>2 DEF Frame, Joins
    <2>4. parsed[h] = <<>>
      <3>1. IsTail(parsed[h], <<>>) /\ parsed[h] \in Seq(Seqs)
        BY <1>1, <1>2, <1>3, <1>7 DEF LiveOK, EventsKept, Kept, IndInv, TypeOK
      <3> QED BY <3>1, EmptyTail
    <2>5. Kept(h)' = file[i].data
      BY <1>1, <1>2, <2>2 DEF Kept
    <2>6. IsTail(<<>>, file[i].data)
      <3>1. file[i].data \in Seq(Seqs)
        BY DEF IndInv, TypeOK, FileState
      <3> QED BY <3>1, TailEmpty
    <2>7. LiveOK(h)'
      BY <1>1, <1>2, <1>7, <2>1, <2>2, <2>4, <2>5, <2>6 DEF LiveOK, EventsKept
    <2> QED BY <1>1, <1>3, <1>4, <1>5, <2>3, <2>7 DEF StreamOK
  <1>8. CASE writers[i] # None
    <2>1. /\ pc' = [pc EXCEPT ![h] = "close"] /\ held' = [held EXCEPT ![h] = writers[i]]
          /\ writers' = [writers EXCEPT ![i] = None]
      BY <1>2, <1>8 DEF FinalizeTake
    <2>2. /\ pc'[h] = "close" /\ held'[h] = writers[i] /\ writers'[i] = None
          /\ \A g \in Streams \ {h} : pc'[g] = pc[g] /\ held'[g] = held[g]
          /\ \A j \in Invocations \ {i} : writers'[j] = writers[j]
      BY <2>1 DEF IndInv, TypeOK
    <2>3. Frame(h) /\ Joins(h)
      BY <1>1, <1>2, <2>2 DEF Frame, Joins
    <2>4. Kept(h)' = Kept(h)
      BY <1>1, <1>2, <1>8, <2>2 DEF Kept
    <2>5. EventsKept(h)'
      BY <1>1, <1>3, <1>6, <2>4 DEF LiveOK, EventsKept
    <2>6. LiveOK(h)'
      BY <1>1, <1>2, <2>2, <2>5 DEF LiveOK
    <2> QED BY <1>1, <1>3, <1>4, <1>5, <2>3, <2>6 DEF StreamOK
  <1> QED BY <1>7, <1>8

(* Close leaves everything the writer was given in the file. *)
LEMMA CloseStep ==
    ASSUME IndInv, RetryInv, NEW h \in Streams, Close(h)
    PROVE  Frame(h) /\ Joins(h) /\ Settles(h) /\ StreamOK(h)' /\ StorageOK'
  <1>1. pc[h] = "close" /\ inv[h] \in Invocations /\ Live(h)
    BY NoneAssumption DEF Close, IndInv, CallInv, CallOK, Finishing, Live
  <1>2. PICK i \in Invocations : i = inv[h]
    BY <1>1
  <1>3. StreamOK(h) /\ LiveOK(h) /\ result[h] = "none"
    BY <1>1 DEF RetryInv, StreamOK
  <1>4. PICK w \in WriterIds : w = held[h] /\ inv[w[1]] = i
    BY <1>1, <1>2 DEF IndInv, CallInv, CallOK, OwnerInv
  <1>5. ~Shared(h, w)
    BY <1>1, <1>2, <1>4, NotShared
  <1>6. AfterClose(h, w, i) = {"valid"}
    BY <1>5 DEF AfterClose, RetryInv, StorageOK
  <1>7. /\ Flush(i, "valid", wr[w].data) /\ wr' = [wr EXCEPT ![w].st = "closed"]
        /\ held' = [held EXCEPT ![h] = None] /\ pc' = [pc EXCEPT ![h] = "upsert"]
        /\ inv' = inv /\ parsed' = parsed /\ result' = result /\ writers' = writers /\ row' = row
    BY <1>2, <1>4, <1>6 DEF Close
  <1>8. /\ pc'[h] = "upsert" /\ \A g \in Streams \ {h} : pc'[g] = pc[g] /\ held'[g] = held[g]
        /\ \A v \in WriterIds \ {w} : wr'[v] = wr[v]
        /\ wr'[w].err = wr[w].err /\ wr'[w].raced = wr[w].raced /\ wr'[w].st = "closed"
    BY <1>7 DEF IndInv, TypeOK, WriterState
  <1>9. /\ \A j \in Invocations \ {i} : file'[j] = file[j]
        /\ file'[i].st = "valid" /\ file'[i].data = wr[w].data /\ file'[i].mixed = file[i].mixed
    BY <1>7 DEF Flush, IndInv, TypeOK, FileState
  <1>10. Frame(h) /\ Joins(h) /\ Settles(h)
    BY <1>1, <1>2, <1>3, <1>4, <1>7, <1>8, <1>9 DEF Frame, Joins, Settles, Settled
  <1>11. StorageOK'
    <2>1. \A v \in WriterIds : ~wr'[v].err /\ ~wr'[v].raced /\ (wr'[v].st = "unused" => wr'[v].data = <<>>)
      BY <1>8 DEF RetryInv, StorageOK
    <2>2. \A j \in Invocations : ~file'[j].mixed
      BY <1>9 DEF RetryInv, StorageOK
    <2> QED BY <2>1, <2>2 DEF StorageOK
  <1>12. Kept(h)' = Kept(h) /\ (Alone(h)' <=> Alone(h))
    BY <1>1, <1>2, <1>4, <1>7, <1>8, <1>9 DEF Kept, Alone
  <1>13. EventsKept(h)'
    BY <1>1, <1>3, <1>7, <1>12 DEF LiveOK, EventsKept
  <1>14. LiveOK(h)'
    BY <1>1, <1>2, <1>3, <1>7, <1>8, <1>9, <1>13 DEF LiveOK
  <1> QED BY <1>3, <1>7, <1>10, <1>11, <1>14 DEF StreamOK

(* The row is that of the call.                                            *)
LEMMA UpsertStep ==
    ASSUME IndInv, RetryInv, NEW h \in Streams, Upsert(h), TypeOK'
    PROVE  Frame(h) /\ Joins(h) /\ Settles(h) /\ StreamOK(h)' /\ StorageOK'
  <1>1. /\ pc[h] = "upsert" /\ inv[h] \in Invocations /\ Live(h) /\ pc' = [pc EXCEPT ![h] = "send"]
        /\ inv' = inv /\ parsed' = parsed /\ held' = held /\ result' = result
        /\ writers' = writers /\ wr' = wr /\ file' = file
    BY NoneAssumption DEF Upsert, IndInv, CallInv, CallOK, Finishing, Live
  <1>2. PICK i \in Invocations : i = inv[h]
    BY <1>1
  <1>3. row' = [row EXCEPT ![i] = [created |-> IF @ = None THEN h ELSE @.created, from |-> h, events |-> parsed[h]]]
    BY <1>2 DEF Upsert
  <1>4. StreamOK(h) /\ LiveOK(h) /\ result[h] = "none"
    BY <1>1 DEF RetryInv, StreamOK
  <1>5. /\ pc'[h] = "send" /\ \A g \in Streams \ {h} : pc'[g] = pc[g]
        /\ row'[i].events = parsed[h] /\ \A j \in Invocations \ {i} : row'[j] = row[j]
    BY <1>1, <1>3 DEF IndInv, TypeOK
  <1>6. row'[i] # None
    <2>1. row[i] # None => row[i] \in RowState
      BY DEF IndInv, TypeOK
    <2>2. (IF row[i] = None THEN h ELSE row[i].created) \in Streams /\ parsed[h] \in Seq(Seqs)
      BY <2>1 DEF IndInv, TypeOK, RowState
    <2>3. row'[i] \in RowState
      BY <1>3, <2>2 DEF IndInv, TypeOK, RowState
    <2> QED BY <2>3, RowAssumption
  <1>7. Frame(h) /\ Joins(h) /\ Settles(h)
    BY <1>1, <1>2, <1>4, <1>5 DEF Frame, Joins, Settles, Settled
  <1>8. StorageOK'
    BY <1>1 DEF RetryInv, StorageOK
  <1>9. Kept(h)' = Kept(h) /\ (Alone(h)' <=> Alone(h))
    BY <1>1, <1>5 DEF Kept, Alone
  <1>10. EventsKept(h)'
    BY <1>1, <1>4, <1>5, <1>9 DEF LiveOK, EventsKept
  <1>11. LiveOK(h)'
    BY <1>1, <1>2, <1>4, <1>5, <1>6, <1>10 DEF LiveOK
  <1> QED BY <1>1, <1>4, <1>7, <1>8, <1>11 DEF StreamOK

(* finish; with sound storage only what needs the connection fails.        *)
LEMMA FinishStep ==
    ASSUME IndInv, RetryInv, RetryOnly, LostStable, NEW h \in Streams, Finish(h), TypeOK'
    PROVE  Frame(h) /\ Joins(h) /\ Settles(h) /\ StreamOK(h)' /\ StorageOK'
  <1>1. CASE FinalizeTake(h)
    BY <1>1, TakeStep
  <1>2. CASE Close(h)
    BY <1>2, CloseStep
  <1>3. CASE CloseFails(h)
    <2>1. held[h] \in WriterIds
      BY <1>3 DEF CloseFails, IndInv, CallInv, CallOK
    <2> QED BY <1>3, <2>1 DEF CloseFails, RetryOnly, RetryInv, StorageOK
  <1>4. CASE Upsert(h)
    BY <1>4, UpsertStep
  <1>5. CASE UpsertFails(h)
    <2>1. /\ pc[h] = "upsert" /\ pc' = [pc EXCEPT ![h] = "send"] /\ inv[h] # None
          /\ inv' = inv /\ parsed' = parsed /\ held' = held /\ result' = result /\ UNCHANGED storeVars
      BY <1>5, NoneAssumption DEF UpsertFails, IndInv, CallInv, CallOK, Finishing
    <2>2. pc'[h] = "send" /\ \A g \in Streams \ {h} : pc'[g] = pc[g]
      BY <2>1 DEF IndInv, TypeOK
    <2>3. Frame(h) /\ Joins(h) /\ StorageOK'
      BY <2>1, <2>2, LocalStep
    <2>4. StreamOK(h) /\ LiveOK(h) /\ result[h] = "none" /\ lost'[h]
      BY <1>5, <2>1 DEF UpsertFails, RetryOnly, RetryInv, StreamOK, Live
    <2>5. Kept(h)' = Kept(h) /\ (Alone(h)' <=> Alone(h))
      BY <2>1, <2>2 DEF Kept, storeVars, Alone
    <2>6. EventsKept(h)'
      BY <2>1, <2>2, <2>4, <2>5 DEF LiveOK, EventsKept
    <2>7. LiveOK(h)'
      BY <2>1, <2>2, <2>4, <2>6 DEF LiveOK, storeVars
    <2> QED BY <2>1, <2>3, <2>4, <2>7 DEF StreamOK, Settles, Settled
  <1>6. CASE SendAck(h) \/ Disconnect(h)
    <2>1. /\ pc[h] \in Finishing /\ pc' = pc /\ inv' = inv /\ parsed' = parsed /\ held' = held
          /\ result' = result /\ UNCHANGED storeVars
      BY <1>6 DEF SendAck, Disconnect, Finishing
    <2>2. pc[h] # "done" /\ (~lost'[h] => ~lost[h])
      BY <2>1 DEF LostStable, Finishing
    <2>3. Frame(h) /\ Joins(h) /\ StorageOK'
      BY <2>1, <2>2, LocalStep
    <2>4. StreamOK(h) /\ result[h] = "none"
      BY <2>2 DEF RetryInv, StreamOK
    <2>5. (Kept(h)' = Kept(h)) /\ (Alone(h)' <=> Alone(h)) /\ (Live(h)' <=> Live(h))
      BY <2>1 DEF Kept, Alone, Live, storeVars
    <2>6. EventsKept(h) => EventsKept(h)'
      BY <2>1, <2>5 DEF EventsKept
    <2>7. LiveOK(h) => LiveOK(h)'
      BY <2>1, <2>6, <2>2 DEF LiveOK, storeVars
    <2> QED BY <2>1, <2>3, <2>4, <2>5, <2>7 DEF StreamOK, Settles, Settled
  <1>7. CASE SendFails(h)
    BY <1>7, ReturnStep DEF SendFails, Settled
  <1>8. CASE ReturnOk(h)
    <2>1. inv[h] # None => writers[inv[h]] = None
      BY <1>8 DEF ReturnOk, RetryInv, StreamOK, LiveOK, Live
    <2> QED BY <1>8, <2>1, ReturnStep DEF ReturnOk
  <1> QED BY <1>1, <1>2, <1>3, <1>4, <1>5, <1>6, <1>7, <1>8 DEF Finish

-----------------------------------------------------------------------------
(* Restarts and readers. *)

(* After a restart no call is live and no writer is registered. *)
LEMMA RestartStep ==
    ASSUME IndInv, RetryInv, Crash
    PROVE  RetryInv'
  <1>1. /\ pc' = [h \in Streams |-> IF Live(h) THEN "done" ELSE pc[h]]
        /\ result' = [h \in Streams |-> IF Live(h) THEN "crashed" ELSE result[h]]
        /\ writers' = [i \in Invocations |-> None]
        /\ inv' = inv /\ parsed' = parsed /\ file' = file
    BY DEF Crash
  <1>2. ASSUME NEW h \in Streams PROVE ~Live(h)' /\ StreamOK(h)'
    <2>1. ~Live(h)'
      BY <1>1 DEF Live
    <2>2. CASE Live(h)
      BY <1>1, <2>1, <2>2 DEF RetryInv, StreamOK
    <2>3. CASE ~Live(h)
      BY <1>1, <2>1, <2>3 DEF RetryInv, StreamOK
    <2> QED BY <2>1, <2>2, <2>3
  <1>3. \A h \in Streams : ~Live(h)' /\ StreamOK(h)'
    BY <1>2
  <1>4. OneLive' /\ Leftover'
    BY <1>1, <1>3 DEF OneLive, Leftover
  <1>5. ASSUME NEW w \in WriterIds
        PROVE  /\ wr'[w].err = wr[w].err /\ wr'[w].raced = wr[w].raced /\ wr'[w].data = wr[w].data
               /\ wr'[w].st = "unused" => wr[w].st = "unused"
    BY DEF Crash, IndInv, TypeOK, WriterState
  <1>6. StorageOK'
    BY <1>1, <1>5 DEF RetryInv, StorageOK
  <1> QED BY <1>3, <1>4, <1>6 DEF RetryInv

(* Readers and stuttering.                                                 *)
LEMMA IdleStep ==
    ASSUME RetryInv, UNCHANGED <<pc, inv, parsed, held, result, lost, writers, wr, file, row>>
    PROVE  RetryInv'
  <1>1. ASSUME NEW h \in Streams PROVE StreamOK(h)'
    <2>1. (Kept(h)' = Kept(h)) /\ (Alone(h)' <=> Alone(h)) /\ (Live(h)' <=> Live(h))
      BY DEF Kept, Alone, Live
    <2>2. EventsKept(h)' <=> EventsKept(h)
      BY <2>1 DEF EventsKept
    <2>3. LiveOK(h)' <=> LiveOK(h)
      BY <2>2 DEF LiveOK
    <2> QED BY <2>1, <2>3 DEF RetryInv, StreamOK
  <1>2. OneLive' /\ Leftover' /\ StorageOK'
    BY DEF RetryInv, OneLive, Leftover, StorageOK, Live
  <1> QED BY <1>1, <1>2 DEF RetryInv

(* No call has begun.                                                      *)
LEMMA InitRetry == Init => RetryInv
  <1> SUFFICES ASSUME Init PROVE RetryInv
    OBVIOUS
  <1>1. \A h \in Streams : ~Live(h) /\ StreamOK(h)
    BY DEF Init, Live, StreamOK
  <1>2. OneLive /\ Leftover /\ StorageOK
    BY <1>1 DEF Init, OneLive, Leftover, StorageOK
  <1> QED BY <1>1, <1>2 DEF RetryInv

(* Every step keeps the invariant.                                         *)
LEMMA NextRetry ==
    ASSUME RetryOnly, IndInv, IndInv', RetryInv, [Next]_vars
    PROVE  RetryInv'
  <1>0. TypeOK' /\ LostStable
    BY NextLostStable DEF IndInv
  <1>1. ASSUME NEW h \in Streams, Recv(h) \/ AppendEvent(h) \/ Finish(h) PROVE RetryInv'
    <2>1. Frame(h) /\ Joins(h) /\ Settles(h) /\ StreamOK(h)' /\ StorageOK'
      BY <1>0, <1>1, RecvStep, AppendStep, FinishStep
    <2> QED BY <1>0, <2>1, StepOK
  <1>2. ASSUME NEW r \in Readers, ReadEvents(r) PROVE RetryInv'
    BY <1>2, IdleStep DEF ReadEvents, ReadExists, ReadBlob, callVars, storeVars
  <1>3. CASE Crash
    BY <1>3, RestartStep
  <1>4. CASE UNCHANGED vars
    BY <1>4, IdleStep DEF vars
  <1> QED BY <1>1, <1>2, <1>3, <1>4 DEF Next, AllReturned

-----------------------------------------------------------------------------
(* The invariant behind the two theorems below: until its writer is taken  *)
(* by Finalize a call's events are in the registered writer, then in the   *)
(* writer it closes, then in the file; no other call is live to disturb    *)
(* them.                                                                   *)
THEOREM RetryInvariance ==
    ASSUME RetryOnly
    PROVE  Spec => []RetryInv
  <1>1. IndInv /\ IndInv' /\ RetryInv /\ [Next]_vars => RetryInv'
    BY NextRetry
  <1> QED BY <1>1, InitRetry, Invariance, PTL DEF Spec

(* When a call is at its acks, its events are stored, readable, in order,  *)
(* together and at the end of the file, and its row is in the index unless *)
(* its client is gone, whatever became of earlier streams and however      *)
(* often the server was restarted (finish of server.go: Finalize and       *)
(* Upsert before Send, Upsert under the stream's context).                 *)
THEOREM AckedIsDurable ==
    ASSUME RetryOnly
    PROVE  Spec => []AckedDurable
  <1>1. IndInv /\ RetryInv => AckedDurable
    <2> SUFFICES ASSUME IndInv, RetryInv, NEW h \in Streams, pc[h] = "send"
                 PROVE  /\ ~lost[h] => row[inv[h]] # None /\ row[inv[h]].events = parsed[h]
                        /\ parsed[h] # <<>> => file[inv[h]].st = "valid" /\ IsTail(parsed[h], file[inv[h]].data)
      BY DEF AckedDurable
    <2>1. Live(h)
      BY NoneAssumption DEF IndInv, CallInv, CallOK, Finishing, Live
    <2> QED BY <2>1 DEF RetryInv, StreamOK, LiveOK, EventsKept, Kept
  <1> QED BY <1>1, Invariance, RetryInvariance, PTL

(* And the file holds nothing else when every other stream of the          *)
(* invocation was acknowledged or cut off by a restart: the retry starts   *)
(* over, because the writer map died with the process and opening a writer *)
(* truncates (writerFor of store.go, Writer of disk.go).                   *)
THEOREM RestartedRetryIsExact ==
    ASSUME RetryOnly
    PROVE  Spec => []RestartRetryExact
  <1>1. IndInv /\ RetryInv => RestartRetryExact
    <2> SUFFICES ASSUME IndInv, RetryInv, NEW h \in Streams, pc[h] = "send", parsed[h] # <<>>,
                        \A g \in Streams \ {h} : inv[g] = inv[h] => result[g] \in {"ok", "crashed"}
                 PROVE  file[inv[h]].data = parsed[h]
      BY DEF RestartRetryExact
    <2>1. Live(h)
      BY NoneAssumption DEF IndInv, CallInv, CallOK, Finishing, Live
    <2>2. Alone(h)
      BY DEF Alone, Settled
    <2> QED BY <2>1, <2>2 DEF RetryInv, StreamOK, LiveOK, EventsKept, Kept
  <1> QED BY <1>1, Invariance, RetryInvariance, PTL
=============================================================================
