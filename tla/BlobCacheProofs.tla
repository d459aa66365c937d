-------------------------- MODULE BlobCacheProofs --------------------------
(***************************************************************************)
(* The invariants of BlobCache for any number of calls and names, any      *)
(* limit and any faults.                                                   *)
(***************************************************************************)
EXTENDS BlobCache, FiniteSetTheorems, TLAPS

(* The sets the fields of a call take their values from.                   *)
KindSet  == AllKinds \cup {"none"}
NameSet  == Names \cup {None}
DataSet  == Calls \cup {None}
ViaSet   == {"none", "hit", "lead", "join"}
Flags    == BOOLEAN
SnapSet  == Seq([name: Names, sz: 0..1])
Sizes    == Nat
Entry    == [name: Names, sz: 0..1]
Results  == {"none", "ok", "error"}

(* Assigning a field a value of its type.                                  *)
LEMMA PcField ==
    ASSUME NEW q \in CallState, NEW v \in PCs PROVE [q EXCEPT !.pc = v] \in CallState
  BY DEF CallState

LEMMA KindField ==
    ASSUME NEW q \in CallState, NEW v \in KindSet PROVE [q EXCEPT !.kind = v] \in CallState
  BY DEF CallState, KindSet

LEMMA NameField ==
    ASSUME NEW q \in CallState, NEW v \in NameSet PROVE [q EXCEPT !.name = v] \in CallState
  BY DEF CallState, NameSet

LEMMA GotField ==
    ASSUME NEW q \in CallState, NEW v \in DataSet PROVE [q EXCEPT !.got = v] \in CallState
  BY DEF CallState, DataSet

LEMMA ViaField ==
    ASSUME NEW q \in CallState, NEW v \in ViaSet PROVE [q EXCEPT !.via = v] \in CallState
  BY DEF CallState, ViaSet

LEMMA CachedField ==
    ASSUME NEW q \in CallState, NEW v \in Flags PROVE [q EXCEPT !.cached = v] \in CallState
  BY DEF CallState, Flags

LEMMA FailedField ==
    ASSUME NEW q \in CallState, NEW v \in Flags PROVE [q EXCEPT !.failed = v] \in CallState
  BY DEF CallState, Flags

LEMMA SnapField ==
    ASSUME NEW q \in CallState, NEW v \in SnapSet PROVE [q EXCEPT !.snap = v] \in CallState
  BY DEF CallState, SnapSet

LEMMA TotalField ==
    ASSUME NEW q \in CallState, NEW v \in Sizes PROVE [q EXCEPT !.total = v] \in CallState
  BY DEF CallState, Sizes

LEMMA ResField ==
    ASSUME NEW q \in CallState, NEW v \in Results PROVE [q EXCEPT !.res = v] \in CallState
  BY DEF CallState, Results

LEMMA SeenField ==
    ASSUME NEW q \in CallState, NEW v \in Flags PROVE [q EXCEPT !.seen = v] \in CallState
  BY DEF CallState, Flags

(* Constants of those sets.                                                *)
LEMMA Constants ==
    /\ "miss" \in PCs /\ "fetch" \in PCs /\ "wait" \in PCs /\ "answer" \in PCs /\ "populate" \in PCs
    /\ "fill" \in PCs /\ "list" \in PCs /\ "remove" \in PCs /\ "write" \in PCs /\ "close" \in PCs
    /\ "closecache" \in PCs /\ "uncache" \in PCs /\ "done" \in PCs
    /\ TRUE \in Flags /\ FALSE \in Flags /\ "ok" \in Results /\ "error" \in Results
    /\ "hit" \in ViaSet /\ "lead" \in ViaSet /\ "join" \in ViaSet /\ None \in DataSet
    /\ <<>> \in SnapSet /\ 0 \in Sizes
  BY DEF PCs, Flags, Results, ViaSet, DataSet, SnapSet, Sizes

(* The updates the actions make of a call, and their types.                *)
WithPc(q, pc)            == [q EXCEPT !.pc = pc]
WithPcVia(q, pc, via)    == [q EXCEPT !.pc = pc, !.via = via]
WithGotPc(q, got, pc)    == [q EXCEPT !.got = got, !.pc = pc]
WithPcCached(q, pc, b)   == [q EXCEPT !.pc = pc, !.cached = b]
WithPcFailed(q, pc, b)   == [q EXCEPT !.pc = pc, !.failed = b]
WithSnap(q, snap, total) == [q EXCEPT !.snap = snap, !.total = total]
Listed(q, total, snap)   == [q EXCEPT !.pc = "remove", !.total = total, !.snap = snap]
Ended(q, pc, failed, res) == [q EXCEPT !.pc = pc, !.failed = failed, !.res = res]
Begin(q, pc, k, n, got, seen) == [q EXCEPT !.pc = pc, !.kind = k, !.name = n, !.got = got, !.seen = seen]
Closed(q, pc, res)       == [q EXCEPT !.pc = pc, !.res = res, !.snap = <<>>, !.total = 0]
Returned(q, pc)          == [q EXCEPT !.pc = pc, !.snap = <<>>, !.total = 0]

LEMMA UpdatesTyped ==
    ASSUME NEW q \in CallState, NEW pc \in PCs
    PROVE  /\ WithPc(q, pc) \in CallState /\ Returned(q, pc) \in CallState
           /\ \A via \in ViaSet : WithPcVia(q, pc, via) \in CallState
           /\ \A got \in DataSet : WithGotPc(q, got, pc) \in CallState
           /\ \A b \in Flags : WithPcCached(q, pc, b) \in CallState /\ WithPcFailed(q, pc, b) \in CallState
           /\ \A res \in Results : Closed(q, pc, res) \in CallState
  <1>1. [q EXCEPT !.pc = pc] \in CallState
    BY PcField, Zenon
  <1>2. ASSUME NEW via \in ViaSet PROVE [q EXCEPT !.pc = pc, !.via = via] \in CallState
    BY <1>1, ViaField, Zenon
  <1>3. ASSUME NEW got \in DataSet PROVE [q EXCEPT !.got = got, !.pc = pc] \in CallState
    <2>1. [q EXCEPT !.got = got] \in CallState
      BY GotField, Zenon
    <2> QED BY <2>1, PcField, Zenon
  <1>4. ASSUME NEW b \in Flags PROVE [q EXCEPT !.pc = pc, !.cached = b] \in CallState
    BY <1>1, CachedField, Zenon
  <1>5. ASSUME NEW b \in Flags PROVE [q EXCEPT !.pc = pc, !.failed = b] \in CallState
    BY <1>1, FailedField, Zenon
  <1>6. [q EXCEPT !.pc = pc, !.snap = <<>>, !.total = 0] \in CallState
    <2>1. [q EXCEPT !.pc = pc, !.snap = <<>>] \in CallState
      BY <1>1, SnapField, Constants, Zenon
    <2> QED BY <2>1, TotalField, Constants, Zenon
  <1>7. ASSUME NEW res \in Results PROVE [q EXCEPT !.pc = pc, !.res = res, !.snap = <<>>, !.total = 0] \in CallState
    <2>1. [q EXCEPT !.pc = pc, !.res = res] \in CallState
      BY <1>1, ResField, Zenon
    <2>2. [q EXCEPT !.pc = pc, !.res = res, !.snap = <<>>] \in CallState
      BY <2>1, SnapField, Constants, Zenon
    <2> QED BY <2>2, TotalField, Constants, Zenon
  <1>8. \A via \in ViaSet : WithPcVia(q, pc, via) \in CallState
    BY <1>2, Zenon DEF WithPcVia
  <1>9. \A got \in DataSet : WithGotPc(q, got, pc) \in CallState
    BY <1>3, Zenon DEF WithGotPc
  <1>10. \A b \in Flags : WithPcCached(q, pc, b) \in CallState
    BY <1>4, Zenon DEF WithPcCached
  <1>11. \A b \in Flags : WithPcFailed(q, pc, b) \in CallState
    BY <1>5, Zenon DEF WithPcFailed
  <1>12. \A res \in Results : Closed(q, pc, res) \in CallState
    BY <1>7, Zenon DEF Closed
  <1>13. WithPc(q, pc) \in CallState /\ Returned(q, pc) \in CallState
    BY <1>1, <1>6, Zenon DEF WithPc, Returned
  <1> QED BY <1>8, <1>9, <1>10, <1>11, <1>12, <1>13

LEMMA EvictTyped ==
    ASSUME NEW q \in CallState, NEW snap \in SnapSet, NEW total \in Sizes
    PROVE  WithSnap(q, snap, total) \in CallState /\ Listed(q, total, snap) \in CallState
  <1>1. [q EXCEPT !.snap = snap] \in CallState
    BY SnapField, Zenon
  <1>2. [q EXCEPT !.snap = snap, !.total = total] \in CallState
    BY <1>1, TotalField, Zenon
  <1>3. [q EXCEPT !.pc = "remove"] \in CallState
    BY PcField, Constants, Zenon
  <1>4. [q EXCEPT !.pc = "remove", !.total = total] \in CallState
    BY <1>3, TotalField, Zenon
  <1>5. [q EXCEPT !.pc = "remove", !.total = total, !.snap = snap] \in CallState
    BY <1>4, SnapField, Zenon
  <1> QED BY <1>2, <1>5, Zenon DEF WithSnap, Listed

LEMMA EndedTyped ==
    ASSUME NEW q \in CallState, NEW pc \in PCs, NEW failed \in Flags, NEW res \in Results
    PROVE  Ended(q, pc, failed, res) \in CallState
  <1>1. [q EXCEPT !.pc = pc] \in CallState
    BY PcField, Zenon
  <1>2. [q EXCEPT !.pc = pc, !.failed = failed] \in CallState
    BY <1>1, FailedField, Zenon
  <1>3. [q EXCEPT !.pc = pc, !.failed = failed, !.res = res] \in CallState
    BY <1>2, ResField, Zenon
  <1> QED BY <1>3, Zenon DEF Ended

LEMMA BeginTyped ==
    ASSUME NEW q \in CallState, NEW pc \in PCs, NEW k \in KindSet, NEW n \in NameSet, NEW got \in DataSet,
           NEW seen \in Flags
    PROVE  Begin(q, pc, k, n, got, seen) \in CallState
  <1>1. [q EXCEPT !.pc = pc] \in CallState
    BY PcField, Zenon
  <1>2. [q EXCEPT !.pc = pc, !.kind = k] \in CallState
    BY <1>1, KindField, Zenon
  <1>3. [q EXCEPT !.pc = pc, !.kind = k, !.name = n] \in CallState
    BY <1>2, NameField, Zenon
  <1>4. [q EXCEPT !.pc = pc, !.kind = k, !.name = n, !.got = got] \in CallState
    BY <1>3, GotField, Zenon
  <1>5. [q EXCEPT !.pc = pc, !.kind = k, !.name = n, !.got = got, !.seen = seen] \in CallState
    BY <1>4, SeenField, Zenon
  <1> QED BY <1>5, Zenon DEF Begin

(* What an update leaves alone of a call that has begun.                   *)
Same(p, q) == p.kind = q.kind /\ p.name = q.name /\ p.seen = q.seen

-----------------------------------------------------------------------------
(* The inductive invariant.                                                *)

(* What kind of call may be where, and how it got there.                   *)
Control(q) ==
    /\ q.pc = "idle" => q.kind = "none" /\ q.via = "none"
    /\ q.pc # "idle" => q.kind \in AllKinds /\ q.name \in Names
    /\ q.pc \in {"miss", "fetch", "wait", "answer"} => q.kind = "read"
    /\ q.pc \in {"populate", "fill"} => q.kind \in {"read", "put"} /\ q.got # None
    /\ q.pc \in {"list", "remove"} => q.kind \in {"read", "put", "tee"}
    /\ q.pc \in {"write", "close", "closecache"} => q.kind = "tee"
    /\ q.pc = "closecache" => q.cached
    /\ q.pc = "uncache" => q.kind = "delete"
    /\ q.res # "none" <=> q.pc = "done"
    /\ q.failed => q.kind = "tee"

(* How a read came by what it has.                                         *)
Way(q) ==
    /\ q.kind # "read" => q.via = "none"
    /\ q.kind = "read" =>
          /\ q.pc = "miss" <=> q.via = "none"
          /\ q.pc = "wait" => q.via = "join"
          /\ q.pc \in {"fetch", "populate", "fill", "list", "remove", "answer"} => q.via = "lead"
          /\ q.via = "hit" => q.res = "ok"

(* What the backing store has, ever, of the blob of call c.                *)
Stored(c, q, ever) ==
    /\ q.pc \in {"populate", "fill"} => q.got \in ever
    /\ q.kind = "put" /\ q.pc \in {"populate", "fill", "list", "remove"} => c \in ever
    /\ q.kind = "tee" /\ q.pc \in {"closecache", "list", "remove"} => q.failed \/ c \in ever
    /\ q.kind \in {"put", "tee"} /\ q.res = "ok" => c \in ever
    /\ q.seen => ever # {}

CallInv == \A c \in Calls :
    /\ Control(call[c]) /\ Way(call[c])
    /\ ~At(c, "idle") => Stored(c, call[c], remote[Name(c)].ever)

NotDeleted(n) == \A d \in Calls : call[d].kind = "delete" => Name(d) # n

RemoteInv == \A n \in Names :
    /\ remote[n].blob # None => remote[n].blob \in remote[n].ever
    /\ NotDeleted(n) /\ remote[n].ever # {} => remote[n].blob # None

(* A leader that began after a write has the blob once it has asked.       *)
FoundInv == \A c \in Calls :
    ( /\ call[c].kind = "read" /\ call[c].via = "lead" /\ call[c].seen /\ ~At(c, "fetch")
      /\ "backing" \notin faulted /\ NotDeleted(Name(c)) )
    => call[c].got # None /\ (At(c, "done") => call[c].res = "ok")

Files == {n \in Names : file[n].st # "absent"}
Full  == {n \in Names : file[n].sz = 1}

FileInv == IsFiniteSet(Files) /\ Full \subseteq Files

OrderInv ==
    /\ \A i, j \in DOMAIN order : order[i] = order[j] => i = j
    /\ \A n \in Files : \E k \in DOMAIN order : order[k] = n

(* The files evict has yet to look at that counted when it listed them.    *)
Big(s) == {s[k].name : k \in {i \in DOMAIN s : s[i].sz = 1}}

SnapOK(q) ==
    /\ \A i, j \in DOMAIN q.snap : q.snap[i].name = q.snap[j].name => i = j
    /\ IsFiniteSet(Big(q.snap)) /\ Cardinality(Big(q.snap)) <= q.total

SnapInv == \A c \in Calls : At(c, "remove") => SnapOK(call[c])

(* A call that will list the files again.                                  *)
Pending(q) == q.pc = "list" \/ (q.pc \in {"close", "closecache"} /\ q.cached)

(* When the cache is over its limit, a call is still to list the files, or *)
(* is removing files and knows all there are.                              *)
EvictInv ==
    MaxBytes > 0 /\ "cache" \notin faulted =>
        \/ Cardinality(Full) <= MaxBytes
        \/ \E c \in Calls : Pending(call[c]) \/ (At(c, "remove") /\ Full \subseteq Big(call[c].snap))

IndInv ==
    /\ TypeOK /\ CallInv /\ RemoteInv /\ FoundInv /\ WaiterHasLeader /\ CachedAcceptedOrReported
    /\ FileInv /\ OrderInv /\ SnapInv /\ EvictInv

-----------------------------------------------------------------------------
(* What a step of call c that leaves q of it may do; Answer, which changes *)
(* several calls, is treated by itself.                                    *)

Moved(c, q) ==
    /\ call' = [call EXCEPT ![c] = q]
    /\ q \in CallState /\ Control(q) /\ Way(q) /\ q.pc # "idle" /\ ~At(c, "done")
    /\ Stored(c, q, remote'[q.name].ever)
    /\ ~At(c, "idle") => Same(q, call[c]) /\ (call[c].failed => q.failed)
    /\ faulted \subseteq faulted' /\ faulted' \subseteq FaultKinds

RemoteStep(c, q) ==
    \/ remote' = remote
    \/ Commit(q.name, c)
    \/ q.kind = "delete" /\ remote' = [remote EXCEPT ![q.name].blob = None]

FlightStep(c, q) ==
    \/ /\ flight' = flight /\ q.pc # "wait" /\ ~At(c, "wait")
       /\ q.via = "lead" <=> call[c].via = "lead"
       /\ q.via = "lead" => q.pc # "done"
    \/ /\ At(c, "miss") /\ flight[q.name] = None /\ flight' = [flight EXCEPT ![q.name] = c]
       /\ q.pc = "fetch" /\ q.via = "lead"
    \/ /\ At(c, "miss") /\ flight[q.name] # None /\ flight' = flight
       /\ q.pc = "wait" /\ q.via = "join"

FoundStep(c, q) ==
    q.kind = "read" /\ q.via = "lead" /\ q.pc # "fetch" =>
        /\ q.pc # "done" /\ ~At(c, "idle")
        /\ \/ call[c].via = "lead" /\ ~At(c, "fetch") /\ q.got = call[c].got
           \/ At(c, "fetch") /\ (q.got = remote[q.name].blob \/ "backing" \in faulted')

(* c fills its file with what was accepted, or with what it will report.   *)
Fills(c, q) ==
    \E d \in DataSet, fds \in SUBSET Calls :
        /\ WriteThrough(c, q.name, d, fds)
        /\ d # None => d \in remote'[q.name].ever \/ (d = c /\ q.kind = "tee" /\ q.failed)

Shrinks(c, q) ==
    \/ file' = file /\ order' = order
    \/ Truncate(c, q.name)
    \/ \E n \in Names : Unlink(n)

FileStep(c, q) == Shrinks(c, q) \/ Fills(c, q)

(* A step outside evict that leaves a call that will list the files, when  *)
(* it was one or has made a file grow.                                     *)
Quiet(c, q) ==
    /\ ~At(c, "remove") /\ q.pc # "remove"
    /\ Pending(call[c]) \/ ~Shrinks(c, q) => Pending(q) \/ "cache" \in faulted'

Outcome(c, q) ==
    Moved(c, q) /\ RemoteStep(c, q) /\ FlightStep(c, q) /\ FoundStep(c, q) /\ FileStep(c, q)

(* A step changes one call, and neither its kind nor its name once it has begun. *)
LEMMA CallsMoved ==
    ASSUME IndInv, NEW c \in Calls, NEW q, Moved(c, q)
    PROVE  /\ call' \in [Calls -> CallState] /\ q.name \in Names
           /\ \A d \in Calls : call'[d] = IF d = c THEN q ELSE call[d]
           /\ \A d \in Calls : call[d].kind # "none" => call'[d].kind = call[d].kind /\ call'[d].name = call[d].name
           /\ \A d \in Calls : call[d].kind = "tee" /\ call[d].failed => call'[d].failed
           /\ \A n \in Names : NotDeleted(n)' => NotDeleted(n)
  <1>1. call \in [Calls -> CallState] /\ call' = [call EXCEPT ![c] = q] /\ q \in CallState
    BY DEF IndInv, TypeOK, Moved
  <1>2. call' \in [Calls -> CallState] /\ \A d \in Calls : call'[d] = IF d = c THEN q ELSE call[d]
    BY <1>1
  <1>3. q.name \in Names
    BY DEF Moved, Control
  <1>4. \A d \in Calls : call[d].kind # "none" => call[d].pc # "idle"
    BY DEF IndInv, CallInv, Control
  <1>5. \A d \in Calls : call[d].kind # "none" => call'[d].kind = call[d].kind /\ call'[d].name = call[d].name
    BY <1>2, <1>4 DEF Moved, Same, At
  <1>6. \A d \in Calls : call[d].kind = "tee" /\ call[d].failed => call'[d].failed
    BY <1>2, <1>4 DEF Moved, Same, At
  <1>7. \A n \in Names : NotDeleted(n)' => NotDeleted(n)
    BY <1>5 DEF NotDeleted, Name
  <1> QED BY <1>2, <1>3, <1>5, <1>6, <1>7

(* What the backing store ever accepted only grows.                        *)
LEMMA RemoteKept ==
    ASSUME IndInv, NEW c \in Calls, NEW q, Moved(c, q), RemoteStep(c, q)
    PROVE  /\ remote' \in [Names -> [blob: Calls \cup {None}, ever: SUBSET Calls]]
           /\ \A n \in Names : remote[n].ever \subseteq remote'[n].ever
           /\ RemoteInv'
  <1>1. q.name \in Names /\ \A n \in Names : NotDeleted(n)' => NotDeleted(n)
    BY CallsMoved
  <1>2. remote \in [Names -> [blob: Calls \cup {None}, ever: SUBSET Calls]]
    BY DEF IndInv, TypeOK
  <1>3. \A n \in Names : /\ remote[n].blob # None => remote[n].blob \in remote[n].ever
                         /\ NotDeleted(n) /\ remote[n].ever # {} => remote[n].blob # None
    BY DEF IndInv, RemoteInv
  <1>4. q.kind = "delete" => ~NotDeleted(q.name)'
    BY CallsMoved DEF NotDeleted, Name
  <1>5. CASE remote' = remote
    BY <1>1, <1>2, <1>3, <1>5 DEF RemoteInv
  <1>6. CASE Commit(q.name, c)
    <2>1. remote' = [remote EXCEPT ![q.name] = [blob |-> c, ever |-> remote[q.name].ever \cup {c}]]
      BY <1>6 DEF Commit
    <2>2. remote' \in [Names -> [blob: Calls \cup {None}, ever: SUBSET Calls]]
      BY <1>1, <1>2, <2>1
    <2>3. \A n \in Names : remote[n].ever \subseteq remote'[n].ever
      BY <1>1, <1>2, <2>1
    <2>4. c # None
      BY CacheAssumption
    <2>5. RemoteInv'
      BY <1>1, <1>2, <1>3, <2>1, <2>4 DEF RemoteInv
    <2> QED BY <2>2, <2>3, <2>5
  <1>7. CASE q.kind = "delete" /\ remote' = [remote EXCEPT ![q.name].blob = None]
    <2>2. remote' \in [Names -> [blob: Calls \cup {None}, ever: SUBSET Calls]]
      BY <1>1, <1>2, <1>7
    <2>3. \A n \in Names : remote[n].ever \subseteq remote'[n].ever
      BY <1>1, <1>2, <1>7
    <2>5. RemoteInv'
      BY <1>1, <1>2, <1>3, <1>4, <1>7 DEF RemoteInv
    <2> QED BY <2>2, <2>3, <2>5
  <1> QED BY <1>5, <1>6, <1>7 DEF RemoteStep

(* Every call is where its kind allows.                                    *)
LEMMA CallKept ==
    ASSUME IndInv, NEW c \in Calls, NEW q, Moved(c, q), RemoteStep(c, q)
    PROVE  CallInv'
  <1>1. \A d \in Calls : call'[d] = IF d = c THEN q ELSE call[d]
    BY CallsMoved
  <1>2. \A n \in Names : remote[n].ever \subseteq remote'[n].ever
    BY RemoteKept
  <1>3. Control(q) /\ Way(q) /\ Stored(c, q, remote'[q.name].ever)
    BY DEF Moved
  <1>4. ASSUME NEW d \in Calls, d # c
        PROVE  /\ Control(call[d]) /\ Way(call[d])
               /\ call[d].pc # "idle" => Stored(d, call[d], remote'[call[d].name].ever)
    <2>1. Control(call[d]) /\ Way(call[d])
      BY DEF IndInv, CallInv
    <2>2. ASSUME call[d].pc # "idle" PROVE Stored(d, call[d], remote'[call[d].name].ever)
      <3>1. Stored(d, call[d], remote[call[d].name].ever)
        BY <2>2 DEF IndInv, CallInv, At, Name
      <3>2. call[d].name \in Names
        BY <2>1, <2>2 DEF Control
      <3>3. remote[call[d].name].ever \subseteq remote'[call[d].name].ever
        BY <3>2, <1>2
      <3> QED BY <3>1, <3>3 DEF Stored
    <2> QED BY <2>1, <2>2
  <1> QED BY <1>1, <1>3, <1>4 DEF CallInv, At, Name

(* A leader that began after a write keeps what it found.                  *)
LEMMA FoundKept ==
    ASSUME IndInv, NEW c \in Calls, NEW q, Moved(c, q), FoundStep(c, q)
    PROVE  FoundInv'
  <1>1. /\ \A d \in Calls : call'[d] = IF d = c THEN q ELSE call[d]
        /\ q.name \in Names /\ \A n \in Names : NotDeleted(n)' => NotDeleted(n)
    BY CallsMoved
  <1>2. faulted \subseteq faulted'
    BY DEF Moved
  <1> SUFFICES ASSUME NEW d \in Calls, call'[d].kind = "read", call'[d].via = "lead", call'[d].seen,
                      call'[d].pc # "fetch", "backing" \notin faulted', NotDeleted(call[d].name)'
               PROVE  call'[d].got # None /\ (call'[d].pc = "done" => call'[d].res = "ok")
    BY DEF FoundInv, At, Name, NotDeleted
  <1>3. Control(call[d]) /\ (call[d].pc # "idle" => call[d].name \in Names)
    BY DEF IndInv, CallInv, Control
  <1>4. CASE d # c
    <2>1. call'[d] = call[d]
      BY <1>1, <1>4
    <2>2. call[d].name \in Names
      BY <1>3, <2>1 DEF Control
    <2>3. NotDeleted(call[d].name)
      <3>1. PICK n \in Names : n = call[d].name
        BY <2>2
      <3>2. NotDeleted(n)'
        BY <3>1, <2>1 DEF NotDeleted
      <3> QED BY <3>1, <3>2, <1>1
    <2> QED BY <1>2, <2>1, <2>3 DEF IndInv, FoundInv, At, Name
  <1>5. CASE d = c
    <2>1. call'[c] = q
      BY <1>1
    <2>2. /\ q.pc # "done" /\ call[c].pc # "idle"
          /\ \/ call[c].via = "lead" /\ call[c].pc # "fetch" /\ q.got = call[c].got
             \/ call[c].pc = "fetch" /\ (q.got = remote[q.name].blob \/ "backing" \in faulted')
      BY <1>5, <2>1 DEF FoundStep, At
    <2>3. q.kind = call[c].kind /\ q.name = call[c].name /\ q.seen = call[c].seen
      BY <2>2 DEF Moved, Same, At
    <2>4. NotDeleted(q.name)
      <3>1. PICK n \in Names : n = q.name
        BY <1>1
      <3>2. NotDeleted(n)'
        BY <3>1, <1>5, <2>1 DEF NotDeleted
      <3> QED BY <3>1, <3>2, <1>1
    <2>5. CASE call[c].via = "lead" /\ call[c].pc # "fetch" /\ q.got = call[c].got
      BY <1>2, <1>5, <2>1, <2>2, <2>3, <2>4, <2>5 DEF IndInv, FoundInv, At, Name
    <2>6. CASE call[c].pc = "fetch" /\ q.got = remote[q.name].blob
      <3>1. Stored(c, call[c], remote[q.name].ever)
        BY <2>2, <2>3 DEF IndInv, CallInv, At, Name
      <3>2. remote[q.name].ever # {}
        BY <3>1, <2>3, <2>1, <1>5 DEF Stored
      <3>3. remote[q.name].blob # None
        BY <3>2, <2>4, <1>1 DEF IndInv, RemoteInv
      <3> QED BY <3>3, <2>6, <2>1, <2>2, <1>5
    <2> QED BY <2>2, <2>5, <2>6
  <1> QED BY <1>4, <1>5

(* A flight begins with its leader and lasts as long as it.                *)
LEMMA FlightKept ==
    ASSUME IndInv, NEW c \in Calls, NEW q, Moved(c, q), FlightStep(c, q)
    PROVE  flight' \in [Names -> Calls \cup {None}] /\ WaiterHasLeader'
  <1>1. /\ \A d \in Calls : call'[d] = IF d = c THEN q ELSE call[d]
        /\ q.name \in Names
    BY CallsMoved
  <1>2. flight \in [Names -> Calls \cup {None}] /\ None \notin Calls
    BY CacheAssumption DEF IndInv, TypeOK
  <1>3. /\ \A d \in Calls : call[d].pc = "wait" => flight[call[d].name] # None
        /\ \A n \in Names : flight[n] # None =>
             /\ call[flight[n]].name = n /\ call[flight[n]].via = "lead"
             /\ call[flight[n]].pc \in {"fetch", "populate", "fill", "list", "remove", "answer"}
        /\ \A d \in Calls : call[d].via = "lead" /\ call[d].pc # "done" => flight[call[d].name] = d
    BY DEF IndInv, WaiterHasLeader, At, Name
  <1>4. \A d \in Calls : call[d].pc # "idle" => call[d].name \in Names
    BY DEF IndInv, CallInv, Control
  <1>5. Control(q) /\ Way(q) /\ q.pc # "idle" /\ q \in CallState
    BY DEF Moved
  <1>6. call[c].pc # "idle" => q.name = call[c].name /\ q.kind = call[c].kind
    BY DEF Moved, Same, At
  <1>7. Control(call[c]) /\ Way(call[c])
    BY DEF IndInv, CallInv
  <1>8. \A d \in Calls : call[d].via = "lead" => call[d].pc # "idle"
    BY DEF IndInv, CallInv, Control
  <1>9. q.via = "lead" /\ q.pc # "done" => q.pc \in {"fetch", "populate", "fill", "list", "remove", "answer"}
    BY <1>5 DEF Control, Way, CallState, PCs, AllKinds
  <1>10. CASE /\ flight' = flight /\ q.pc # "wait" /\ call[c].pc # "wait"
              /\ q.via = "lead" <=> call[c].via = "lead"
              /\ q.via = "lead" => q.pc # "done"
    <2>1. \A d \in Calls : call'[d].pc = "wait" => flight'[call'[d].name] # None
      BY <1>1, <1>3, <1>10
    <2>2. ASSUME NEW n \in Names, flight'[n] # None
          PROVE  /\ call'[flight'[n]].name = n /\ call'[flight'[n]].via = "lead"
                 /\ call'[flight'[n]].pc \in {"fetch", "populate", "fill", "list", "remove", "answer"}
      <3>1. PICK l \in Calls : l = flight[n] /\ l = flight'[n]
        BY <1>2, <1>10, <2>2
      <3>2. call[l].name = n /\ call[l].via = "lead" /\ call[l].pc \in {"fetch", "populate", "fill", "list", "remove", "answer"}
        BY <1>3, <3>1, <2>2, <1>10
      <3>3. CASE l # c
        BY <3>1, <3>2, <3>3, <1>1
      <3>4. CASE l = c
        BY <3>1, <3>2, <3>4, <1>1, <1>6, <1>8, <1>9, <1>10
      <3> QED BY <3>3, <3>4
    <2>3. ASSUME NEW d \in Calls, call'[d].via = "lead", call'[d].pc # "done"
          PROVE  flight'[call'[d].name] = d
      <3>1. CASE d # c
        BY <3>1, <1>1, <1>3, <1>10, <2>3
      <3>2. CASE d = c
        <4>1. call[c].via = "lead" /\ call[c].pc # "idle"
          BY <3>2, <1>1, <1>8, <1>10, <2>3
        <4>2. call[c].pc # "done"
          BY DEF Moved, At
        <4> QED BY <4>1, <4>2, <3>2, <1>1, <1>3, <1>6, <1>10
      <3> QED BY <3>1, <3>2
    <2> QED BY <2>1, <2>2, <2>3, <1>2, <1>10 DEF WaiterHasLeader, At, Name
  <1>11. CASE /\ call[c].pc = "miss" /\ flight[q.name] = None /\ flight' = [flight EXCEPT ![q.name] = c]
              /\ q.pc = "fetch" /\ q.via = "lead"
    <2>1. \A n \in Names : flight'[n] = IF n = q.name THEN c ELSE flight[n]
      BY <1>1, <1>2, <1>11
    <2>2. \A d \in Calls : call'[d].pc = "wait" => flight'[call'[d].name] # None
      BY <1>1, <1>2, <1>3, <1>4, <1>11, <2>1
    <2>3. \A n \in Names : flight[n] # c
      BY <1>2, <1>3, <1>11
    <2>4. ASSUME NEW n \in Names, flight'[n] # None
          PROVE  /\ call'[flight'[n]].name = n /\ call'[flight'[n]].via = "lead"
                 /\ call'[flight'[n]].pc \in {"fetch", "populate", "fill", "list", "remove", "answer"}
      <3>1. CASE n = q.name
        BY <3>1, <2>1, <1>1, <1>11
      <3>2. CASE n # q.name
        BY <3>2, <2>1, <2>3, <2>4, <1>1, <1>2, <1>3
      <3> QED BY <3>1, <3>2
    <2>5. \A d \in Calls : call'[d].via = "lead" /\ call'[d].pc # "done" => flight'[call'[d].name] = d
      <3> SUFFICES ASSUME NEW d \in Calls, call'[d].via = "lead", call'[d].pc # "done"
                   PROVE  flight'[call'[d].name] = d
        OBVIOUS
      <3>1. CASE d = c
        BY <3>1, <1>1, <2>1
      <3>2. CASE d # c
        <4>1. call'[d] = call[d] /\ call[d].name \in Names
          BY <3>2, <1>1, <1>4, <1>8
        <4>2. flight[call[d].name] = d
          BY <4>1, <1>3
        <4> QED BY <4>1, <4>2, <2>1, <1>2, <1>11
      <3> QED BY <3>1, <3>2
    <2> QED BY <2>2, <2>4, <2>5, <1>1, <1>2, <1>11 DEF WaiterHasLeader, At, Name
  <1>12. CASE /\ call[c].pc = "miss" /\ flight[q.name] # None /\ flight' = flight
              /\ q.pc = "wait" /\ q.via = "join"
    <2>1. \A d \in Calls : call'[d].pc = "wait" => flight'[call'[d].name] # None
      BY <1>1, <1>3, <1>12
    <2>2. \A n \in Names : flight[n] # c
      BY <1>2, <1>3, <1>12
    <2>3. \A n \in Names : flight'[n] # None =>
                 /\ call'[flight'[n]].name = n /\ call'[flight'[n]].via = "lead"
                 /\ call'[flight'[n]].pc \in {"fetch", "populate", "fill", "list", "remove", "answer"}
      BY <1>1, <1>2, <1>3, <1>12, <2>2
    <2>4. \A d \in Calls : call'[d].via = "lead" /\ call'[d].pc # "done" => flight'[call'[d].name] = d
      BY <1>1, <1>3, <1>12
    <2> QED BY <2>1, <2>3, <2>4, <1>2, <1>12 DEF WaiterHasLeader, At, Name
  <1> QED BY <1>10, <1>11, <1>12 DEF FlightStep, At

-----------------------------------------------------------------------------
(* The files: their order loses and gains a name, those with contents only *)
(* grow when a call fills its own.                                         *)

(* Taking a name out of the order keeps the other names, each once.        *)
LEMMA WithoutName ==
    ASSUME IndInv, NEW n \in Names
    PROVE  /\ Without(n) \in Seq(Names)
           /\ \A i, j \in DOMAIN Without(n) : Without(n)[i] = Without(n)[j] => i = j
           /\ \A i \in DOMAIN Without(n) : Without(n)[i] # n
           /\ \A m \in Files \ {n} : \E k \in DOMAIN Without(n) : Without(n)[k] = m
  <1> DEFINE w == Without(n)
  <1>1. /\ order \in Seq(Names) /\ Files \subseteq Names
        /\ \A i, j \in DOMAIN order : order[i] = order[j] => i = j
        /\ \A m \in Files : \E k \in DOMAIN order : order[k] = m
    BY DEF IndInv, TypeOK, OrderInv, Files
  <1>2. CASE \A k \in DOMAIN order : order[k] # n
    <2>1. w = order
      BY <1>2 DEF Without
    <2> QED BY <1>1, <1>2, <2>1
  <1>3. CASE ~\A k \in DOMAIN order : order[k] # n
    <2>1. PICK i : /\ i = CHOOSE k \in DOMAIN order : order[k] = n
                   /\ i \in DOMAIN order /\ order[i] = n
      BY <1>3
    <2>2. w = [k \in 1..(Len(order) - 1) |-> order[IF k < i THEN k ELSE k + 1]]
      BY <1>3, <2>1, Zenon DEF Without
    <2>3. Len(order) \in Nat /\ DOMAIN order = 1..Len(order) /\ i \in 1..Len(order)
      BY <1>1, <2>1
    <2>4. \A k \in 1..(Len(order) - 1) : (IF k < i THEN k ELSE k + 1) \in DOMAIN order
      BY <2>3
    <2>5. \A k \in 1..(Len(order) - 1) : order[IF k < i THEN k ELSE k + 1] \in Names
      BY <1>1, <2>4
    <2> HIDE DEF w
    <2>6. w \in Seq(Names) /\ DOMAIN w = 1..(Len(order) - 1)
      BY <2>2, <2>3, <2>5
    <2>7. \A a, b \in DOMAIN w : w[a] = w[b] => a = b
      <3> SUFFICES ASSUME NEW a \in 1..(Len(order) - 1), NEW b \in 1..(Len(order) - 1), w[a] = w[b]
                   PROVE  a = b
        BY <2>6
      <3>1. order[IF a < i THEN a ELSE a + 1] = order[IF b < i THEN b ELSE b + 1]
        BY <2>2
      <3>2. (IF a < i THEN a ELSE a + 1) = (IF b < i THEN b ELSE b + 1)
        BY <3>1, <2>4, <1>1
      <3> QED BY <3>2, <2>3
    <2>8. \A a \in DOMAIN w : w[a] # n
      <3> SUFFICES ASSUME NEW a \in 1..(Len(order) - 1), w[a] = n
                   PROVE  FALSE
        BY <2>6
      <3>1. (IF a < i THEN a ELSE a + 1) = i
        BY <1>1, <2>1, <2>2, <2>4
      <3> QED BY <3>1, <2>3
    <2>9. \A m \in Files \ {n} : \E k \in DOMAIN w : w[k] = m
      <3> SUFFICES ASSUME NEW m \in Files, m # n PROVE \E k \in DOMAIN w : w[k] = m
        OBVIOUS
      <3>1. PICK k \in 1..Len(order) : order[k] = m
        BY <1>1, <2>3
      <3>2. CASE k < i
        <4>1. k \in 1..(Len(order) - 1) /\ w[k] = m
          BY <3>1, <3>2, <2>2, <2>3
        <4> QED BY <4>1, <2>6
      <3>3. CASE k > i
        <4>1. k - 1 \in 1..(Len(order) - 1) /\ ~(k - 1 < i) /\ (k - 1) + 1 = k
          BY <3>3, <2>3
        <4>2. w[k - 1] = m
          BY <3>1, <4>1, <2>2
        <4> QED BY <4>1, <4>2, <2>6
      <3>4. k # i
        BY <3>1, <2>1
      <3> QED BY <3>2, <3>3, <3>4, <2>3
    <2> QED BY <2>6, <2>7, <2>8, <2>9 DEF w
  <1> QED BY <1>2, <1>3

(* Touching puts a name last and keeps every file in the order.            *)
LEMMA Touched ==
    ASSUME IndInv, NEW n \in Names, Touch(n)
    PROVE  /\ order' \in Seq(Names)
           /\ \A i, j \in DOMAIN order' : order'[i] = order'[j] => i = j
           /\ \A m \in Files \cup {n} : \E k \in DOMAIN order' : order'[k] = m
  <1>1. PICK w \in Seq(Names) :
           /\ order' = Append(w, n)
           /\ \A i, j \in DOMAIN w : w[i] = w[j] => i = j
           /\ \A i \in DOMAIN w : w[i] # n
           /\ \A m \in Files \ {n} : \E k \in DOMAIN w : w[k] = m
    BY WithoutName DEF Touch
  <1>2. /\ Len(w) \in Nat /\ DOMAIN w = 1..Len(w) /\ order' \in Seq(Names) /\ DOMAIN order' = 1..(Len(w) + 1)
        /\ order'[Len(w) + 1] = n /\ \A k \in 1..Len(w) : order'[k] = w[k]
    BY <1>1
  <1>3. \A i, j \in DOMAIN order' : order'[i] = order'[j] => i = j
    BY <1>1, <1>2
  <1>4. \A m \in Files \cup {n} : \E k \in DOMAIN order' : order'[k] = m
    BY <1>1, <1>2
  <1> QED BY <1>2, <1>3, <1>4

(* A file that is rewritten empty is not among the full ones.              *)
LEMMA Rewritten ==
    ASSUME IndInv, NEW n \in Names, NEW g \in FileState, g.st = "absent" => g.sz = 0,
           file' = [file EXCEPT ![n] = g]
    PROVE  /\ file' \in [Names -> FileState] /\ FileInv' /\ file'[n] = g
           /\ \A m \in Names \ {n} : file'[m] = file[m]
           /\ g.sz = 0 => Full' \subseteq Full \ {n}
           /\ Files' \subseteq Files \cup {n}
  <1>1. file \in [Names -> FileState]
    BY DEF IndInv, TypeOK
  <1>2. file' \in [Names -> FileState] /\ file'[n] = g /\ \A m \in Names \ {n} : file'[m] = file[m]
    BY <1>1
  <1>3. g.sz = 0 => Full' \subseteq Full \ {n}
    BY <1>2 DEF Full
  <1>4. Files' \subseteq Files \cup {n}
    BY <1>2 DEF Files
  <1>5. IsFiniteSet(Files')
    <2>1. IsFiniteSet(Files)
      BY DEF IndInv, FileInv
    <2>2. IsFiniteSet(Files \cup {n})
      BY <2>1, FS_AddElement
    <2> QED BY <2>2, <1>4, FS_Subset
  <1>6. Full' \subseteq Files'
    BY <1>2 DEF IndInv, FileInv, Full, Files
  <1> QED BY <1>2, <1>3, <1>4, <1>5, <1>6 DEF FileInv

(* The file of n may be rewritten when what it then holds was accepted, or *)
(* belongs to a failed Writer.                                             *)
LEMMA Accepted ==
    ASSUME IndInv, NEW c \in Calls, NEW q, Moved(c, q), RemoteStep(c, q), NEW n \in Names,
           \A m \in Names \ {n} : file'[m] = file[m],
           file'[n].st = "valid" => \/ file'[n].data \in remote'[n].ever
                                    \/ file'[n].data = c /\ q.kind = "tee" /\ q.failed
    PROVE  CachedAcceptedOrReported'
  <1>1. /\ \A d \in Calls : call'[d] = IF d = c THEN q ELSE call[d]
        /\ \A d \in Calls : call[d].kind # "none" => call'[d].kind = call[d].kind
        /\ \A d \in Calls : call[d].kind = "tee" /\ call[d].failed => call'[d].failed
    BY CallsMoved
  <1>2. \A m \in Names : remote[m].ever \subseteq remote'[m].ever
    BY RemoteKept
  <1> SUFFICES ASSUME NEW m \in Names, file'[m].st = "valid"
               PROVE  \/ file'[m].data \in remote'[m].ever
                      \/ call'[file'[m].data].kind = "tee" /\ call'[file'[m].data].failed
    BY DEF CachedAcceptedOrReported
  <1>3. CASE m = n
    BY <1>1, <1>3
  <1>4. CASE m # n
    <2>1. file'[m] = file[m] /\ file[m] \in FileState
      BY <1>4 DEF IndInv, TypeOK
    <2>2. file[m].data \in Calls
      BY <2>1 DEF FileState
    <2>3. \/ file[m].data \in remote[m].ever
          \/ call[file[m].data].kind = "tee" /\ call[file[m].data].failed
      BY <2>1 DEF IndInv, CachedAcceptedOrReported
    <2> QED BY <2>1, <2>2, <2>3, <1>1, <1>2
  <1> QED BY <1>3, <1>4

FilesAre == /\ file \in [Names -> FileState] /\ order \in Seq(Names)
            /\ FileInv /\ OrderInv /\ CachedAcceptedOrReported

(* A step that empties or removes a file fills none.                       *)
LEMMA Unfilled ==
    ASSUME IndInv, NEW c \in Calls, NEW q, Moved(c, q), RemoteStep(c, q), Shrinks(c, q)
    PROVE  FilesAre' /\ Full' \subseteq Full
  <1>1. file \in [Names -> FileState] /\ q.name \in Names
    BY CallsMoved DEF IndInv, TypeOK
  <1>2. CASE file' = file /\ order' = order
    <2>1. \A n \in Names : file'[n].st = "valid" => file'[n].data \in Calls
      BY <1>1, <1>2 DEF FileState
    <2>2. CachedAcceptedOrReported'
      <3>1. /\ \A d \in Calls : call[d].kind # "none" => call'[d].kind = call[d].kind
            /\ \A d \in Calls : call[d].kind = "tee" /\ call[d].failed => call'[d].failed
        BY CallsMoved
      <3>2. \A m \in Names : remote[m].ever \subseteq remote'[m].ever
        BY RemoteKept
      <3> QED BY <3>1, <3>2, <1>2, <2>1 DEF IndInv, CachedAcceptedOrReported
    <2> QED BY <1>2, <2>2 DEF FilesAre, IndInv, TypeOK, FileInv, Files, Full, OrderInv
  <1>3. CASE Truncate(c, q.name)
    <2>1. PICK n \in Names : n = q.name
      BY <1>1
    <2>2. PICK g : g = [st |-> "torn", data |-> None, sz |-> 0, mixed |-> file[n].fds # {},
                        fds |-> file[n].fds \cup {c}]
      OBVIOUS
    <2>3. file' = [file EXCEPT ![n] = g] /\ Touch(n)
      BY <1>3, <2>1, <2>2 DEF Truncate
    <2>4. file[n].fds \in SUBSET Calls
      BY <1>1 DEF FileState
    <2>5. g \in FileState /\ g.st = "torn" /\ g.sz = 0
      BY <2>2, <2>4 DEF FileState
    <2>6. /\ file' \in [Names -> FileState] /\ FileInv' /\ file'[n] = g
          /\ \A m \in Names \ {n} : file'[m] = file[m]
          /\ Full' \subseteq Full \ {n} /\ Files' \subseteq Files \cup {n}
      BY <2>3, <2>5, Rewritten
    <2>7. CachedAcceptedOrReported'
      BY <2>5, <2>6, Accepted
    <2>8. order' \in Seq(Names) /\ OrderInv'
      BY <2>3, <2>6, Touched DEF OrderInv
    <2> QED BY <2>6, <2>7, <2>8 DEF FilesAre
  <1>4. ASSUME NEW n \in Names, Unlink(n) PROVE FilesAre' /\ Full' \subseteq Full
    <2>3. file' = [file EXCEPT ![n] = Absent] /\ order' = Without(n)
      BY <1>4 DEF Unlink
    <2>5. Absent \in FileState /\ Absent.st = "absent" /\ Absent.sz = 0
      BY DEF FileState, Absent
    <2>6. /\ file' \in [Names -> FileState] /\ FileInv' /\ file'[n] = Absent
          /\ \A m \in Names \ {n} : file'[m] = file[m]
          /\ Full' \subseteq Full \ {n} /\ Files' \subseteq Files \cup {n}
      BY <2>3, <2>5, Rewritten
    <2>7. CachedAcceptedOrReported'
      BY <2>5, <2>6, Accepted
    <2>8. Files' \subseteq Files \ {n}
      BY <2>5, <2>6 DEF Files
    <2>9. order' \in Seq(Names) /\ OrderInv'
      BY <2>3, <2>8, WithoutName DEF OrderInv
    <2> QED BY <2>6, <2>7, <2>9 DEF FilesAre
  <1> QED BY <1>2, <1>3, <1>4 DEF Shrinks

(* A step that fills a file fills its own.                                 *)
LEMMA Filled ==
    ASSUME IndInv, NEW c \in Calls, NEW q, Moved(c, q), RemoteStep(c, q), Fills(c, q)
    PROVE  FilesAre'
  <1>1. file \in [Names -> FileState] /\ q.name \in Names
    BY CallsMoved DEF IndInv, TypeOK
  <1>2. PICK n \in Names : n = q.name
    BY <1>1
  <1>3. PICK d \in DataSet, fds \in SUBSET Calls :
           /\ WriteThrough(c, n, d, fds)
           /\ d # None => d \in remote'[n].ever \/ (d = c /\ q.kind = "tee" /\ q.failed)
    BY <1>2 DEF Fills
  <1>4. CASE file' = file /\ order' = order
    BY <1>4, Unfilled DEF Shrinks
  <1>5. CASE /\ Touch(n)
             /\ \E e \in {d} \cup (IF file[n].mixed THEN {None} ELSE {}) :
                  file' = [file EXCEPT ![n] = [st |-> IF e = None THEN "torn" ELSE "valid", data |-> e,
                                               sz |-> 1, mixed |-> file[n].mixed, fds |-> fds]]
    <2>1. PICK e \in {d, None} :
             file' = [file EXCEPT ![n] = [st |-> IF e = None THEN "torn" ELSE "valid", data |-> e,
                                          sz |-> 1, mixed |-> file[n].mixed, fds |-> fds]]
      BY <1>5
    <2>2. PICK g : g = [st |-> IF e = None THEN "torn" ELSE "valid", data |-> e,
                        sz |-> 1, mixed |-> file[n].mixed, fds |-> fds]
      OBVIOUS
    <2>3. file' = [file EXCEPT ![n] = g]
      BY <2>1, <2>2
    <2>4. file[n].mixed \in BOOLEAN
      BY <1>1 DEF FileState
    <2>5. g \in FileState /\ g.st # "absent" /\ g.data = e /\ (g.st = "valid" => e # None)
      BY <2>2, <2>4 DEF FileState, DataSet
    <2>6. /\ file' \in [Names -> FileState] /\ FileInv' /\ file'[n] = g
          /\ \A m \in Names \ {n} : file'[m] = file[m]
          /\ Files' \subseteq Files \cup {n}
      BY <2>3, <2>5, Rewritten
    <2>7. CachedAcceptedOrReported'
      BY <1>3, <2>1, <2>5, <2>6, Accepted
    <2>8. order' \in Seq(Names) /\ OrderInv'
      BY <1>5, <2>6, Touched DEF OrderInv
    <2> QED BY <2>6, <2>7, <2>8 DEF FilesAre
  <1> QED BY <1>3, <1>4, <1>5 DEF WriteThrough

(* So an outcome keeps the invariant, the eviction aside.                  *)
LEMMA Followed ==
    ASSUME IndInv, NEW c \in Calls, NEW q, Outcome(c, q), SnapInv', EvictInv'
    PROVE  IndInv'
  <1>1. FilesAre'
    BY Unfilled, Filled DEF Outcome, FileStep
  <1>2. CallInv' /\ RemoteInv' /\ FoundInv' /\ WaiterHasLeader'
    BY CallKept, RemoteKept, FoundKept, FlightKept DEF Outcome
  <1>3. TypeOK'
    BY <1>1, CallsMoved, RemoteKept, FlightKept DEF Outcome, Moved, FilesAre, TypeOK
  <1> QED BY <1>1, <1>2, <1>3 DEF FilesAre, IndInv

(* Outside evict.                                                          *)
LEMMA QuietKept ==
    ASSUME IndInv, NEW c \in Calls, NEW q, Outcome(c, q), Quiet(c, q)
    PROVE  SnapInv' /\ EvictInv'
  <1>1. \A d \in Calls : call'[d] = IF d = c THEN q ELSE call[d]
    BY CallsMoved DEF Outcome
  <1>2. SnapInv'
    BY <1>1 DEF Quiet, IndInv, SnapInv, At, SnapOK
  <1>3. faulted \subseteq faulted' /\ ~At(c, "remove")
    BY DEF Outcome, Moved, Quiet
  <1>4. CASE Pending(q) \/ "cache" \in faulted'
    BY <1>1, <1>2, <1>4 DEF EvictInv, Pending
  <1>5. CASE ~(Pending(q) \/ "cache" \in faulted')
    <2>1. ~Pending(call[c]) /\ Shrinks(c, q)
      BY <1>5 DEF Quiet, Outcome, FileStep
    <2>2. Full' \subseteq Full
      BY <2>1, Unfilled DEF Outcome
    <2>3. ASSUME MaxBytes > 0 PROVE EvictInv'
      <3>1. CASE Cardinality(Full) <= MaxBytes
        <4>1. IsFiniteSet(Full)
          BY FS_Subset DEF IndInv, FileInv
        <4>2. Cardinality(Full') <= Cardinality(Full) /\ IsFiniteSet(Full')
          BY <2>2, <4>1, FS_Subset
        <4>3. Cardinality(Full) \in Nat /\ Cardinality(Full') \in Nat /\ MaxBytes \in Nat
          BY <4>1, <4>2, FS_CardinalityType, CacheAssumption
        <4> QED BY <3>1, <4>2, <4>3 DEF EvictInv
      <3>2. ASSUME NEW d \in Calls,
                   Pending(call[d]) \/ (At(d, "remove") /\ Full \subseteq Big(call[d].snap))
            PROVE  EvictInv'
        <4>1. d # c /\ call'[d] = call[d]
          BY <3>2, <2>1, <1>3, <1>1
        <4>2. Pending(call'[d]) \/ (call'[d].pc = "remove" /\ Full' \subseteq Big(call'[d].snap))
          BY <3>2, <4>1, <2>2 DEF At
        <4> QED BY <4>2 DEF EvictInv, At, Pending
      <3> QED BY <3>1, <3>2, <2>3, <1>3, <1>5 DEF IndInv, EvictInv
    <2>4. ASSUME ~(MaxBytes > 0) PROVE EvictInv'
      BY <2>4 DEF EvictInv
    <2> QED BY <1>2, <2>3, <2>4
  <1> QED BY <1>4, <1>5

-----------------------------------------------------------------------------
(* The actions of a read before it has its blob.                           *)

(* Where a call is tells its kind and that its name is one.                *)
LEMMA Here ==
    ASSUME IndInv, NEW c \in Calls
    PROVE  /\ call[c] \in CallState /\ Control(call[c]) /\ Way(call[c]) /\ call \in [Calls -> CallState]
           /\ call[c].pc # "idle" => call[c].name \in Names /\ Stored(c, call[c], remote[call[c].name].ever)
           /\ faulted \subseteq FaultKinds
  BY DEF IndInv, TypeOK, CallInv, Control, At, Name

LEMMA LeadStep ==
    ASSUME IndInv, NEW c \in Calls, Lead(c)
    PROVE  \E q : Outcome(c, q) /\ Quiet(c, q)
  <1>1. PICK q : q = WithPcVia(call[c], "fetch", "lead")
    OBVIOUS
  <1>2. /\ call[c].pc = "miss" /\ call' = [call EXCEPT ![c] = q]
        /\ flight[call[c].name] = None /\ flight' = [flight EXCEPT ![call[c].name] = c]
        /\ remote' = remote /\ file' = file /\ order' = order /\ faulted' = faulted
    BY <1>1, Here DEF Lead, WithPcVia, At, Name
  <1>3. q \in CallState
    BY <1>1, Here, Constants, UpdatesTyped
  <1>4. /\ Same(q, call[c]) /\ q.pc = "fetch" /\ q.got = call[c].got /\ q.via = "lead" /\ q.cached = call[c].cached
        /\ q.failed = call[c].failed /\ q.res = call[c].res
    BY <1>1, Here DEF CallState, Same, WithPcVia
  <1>5. Control(q) /\ Way(q) /\ Stored(c, q, remote[q.name].ever)
    BY <1>2, <1>4, Here DEF Control, Way, Stored, Same
  <1>6. Moved(c, q) /\ FlightStep(c, q)
    BY <1>2, <1>3, <1>4, <1>5, Here DEF Moved, FlightStep, At, Same
  <1>7. RemoteStep(c, q) /\ FoundStep(c, q) /\ FileStep(c, q) /\ Quiet(c, q)
    BY <1>2, <1>4, Here DEF RemoteStep, FoundStep, FileStep, Shrinks, Quiet, Pending, At
  <1> QED BY <1>6, <1>7 DEF Outcome

LEMMA JoinStep ==
    ASSUME IndInv, NEW c \in Calls, Join(c)
    PROVE  \E q : Outcome(c, q) /\ Quiet(c, q)
  <1>1. PICK q : q = WithPcVia(call[c], "wait", "join")
    OBVIOUS
  <1>2. /\ call[c].pc = "miss" /\ call' = [call EXCEPT ![c] = q]
        /\ flight[call[c].name] # None /\ flight' = flight
        /\ remote' = remote /\ file' = file /\ order' = order /\ faulted' = faulted
    BY <1>1, Here DEF Join, WithPcVia, At, Name
  <1>3. q \in CallState
    BY <1>1, Here, Constants, UpdatesTyped
  <1>4. /\ Same(q, call[c]) /\ q.pc = "wait" /\ q.got = call[c].got /\ q.via = "join" /\ q.cached = call[c].cached
        /\ q.failed = call[c].failed /\ q.res = call[c].res
    BY <1>1, Here DEF CallState, Same, WithPcVia
  <1>5. Control(q) /\ Way(q) /\ Stored(c, q, remote[q.name].ever)
    BY <1>2, <1>4, Here DEF Control, Way, Stored, Same
  <1>6. Moved(c, q) /\ FlightStep(c, q)
    BY <1>2, <1>3, <1>4, <1>5, Here DEF Moved, FlightStep, At, Same
  <1>7. RemoteStep(c, q) /\ FoundStep(c, q) /\ FileStep(c, q) /\ Quiet(c, q)
    BY <1>2, <1>4, Here DEF RemoteStep, FoundStep, FileStep, Shrinks, Quiet, Pending, At
  <1> QED BY <1>6, <1>7 DEF Outcome

LEMMA FetchStep ==
    ASSUME IndInv, NEW c \in Calls, Fetch(c)
    PROVE  \E q : Outcome(c, q) /\ Quiet(c, q)
  <1> DEFINE d == remote[call[c].name].blob
             pc == IF d = None THEN "answer" ELSE "populate"
  <1>1. PICK q : q = WithGotPc(call[c], d, pc)
    OBVIOUS
  <1>2. /\ call[c].pc = "fetch" /\ call' = [call EXCEPT ![c] = q] /\ flight' = flight
        /\ remote' = remote /\ file' = file /\ order' = order /\ faulted' = faulted
    BY <1>1, Here DEF Fetch, WithGotPc, At, Name
  <1>3. call[c].name \in Names /\ call[c].kind = "read" /\ call[c].via = "lead"
    BY <1>2, Here DEF Control, Way
  <1>4. d \in DataSet /\ (d # None => d \in remote[call[c].name].ever)
    BY <1>3 DEF IndInv, TypeOK, RemoteInv, DataSet
  <1>5. pc \in PCs /\ pc \in {"answer", "populate"} /\ (pc = "populate" => d # None)
    BY Constants
  <1> HIDE DEF d, pc
  <1>6. q \in CallState
    BY <1>1, <1>4, <1>5, Here, UpdatesTyped
  <1>7. /\ Same(q, call[c]) /\ q.pc = pc /\ q.got = d /\ q.via = "lead" /\ q.cached = call[c].cached
        /\ q.failed = call[c].failed /\ q.res = call[c].res
    BY <1>1, <1>3, Here DEF CallState, Same, WithGotPc
  <1>8. Control(q) /\ Way(q) /\ Stored(c, q, remote[q.name].ever)
    BY <1>2, <1>3, <1>4, <1>5, <1>7, Here DEF Control, Way, Stored, Same
  <1>9. Moved(c, q) /\ FlightStep(c, q)
    BY <1>2, <1>3, <1>5, <1>6, <1>7, <1>8, Here DEF Moved, FlightStep, At, Same
  <1>10. FoundStep(c, q)
    BY <1>2, <1>3, <1>5, <1>7 DEF FoundStep, At, Same, d
  <1>11. RemoteStep(c, q) /\ FileStep(c, q) /\ Quiet(c, q)
    BY <1>2, <1>5, <1>7, Here DEF RemoteStep, FileStep, Shrinks, Quiet, Pending, At
  <1> QED BY <1>9, <1>10, <1>11 DEF Outcome

LEMMA FetchFailsStep ==
    ASSUME IndInv, NEW c \in Calls, FetchFails(c)
    PROVE  \E q : Outcome(c, q) /\ Quiet(c, q)
  <1>1. PICK q : q = WithPc(call[c], "answer")
    OBVIOUS
  <1>2. /\ call[c].pc = "fetch" /\ call' = [call EXCEPT ![c] = q] /\ flight' = flight
        /\ remote' = remote /\ file' = file /\ order' = order
        /\ "backing" \in faulted' /\ faulted \subseteq faulted' /\ faulted' \subseteq FaultKinds
    BY <1>1, Here, CacheAssumption DEF FetchFails, Fault, FaultKinds, WithPc, At, Name
  <1>3. q \in CallState
    BY <1>1, Here, Constants, UpdatesTyped
  <1>4. /\ Same(q, call[c]) /\ q.pc = "answer" /\ q.got = call[c].got /\ q.via = call[c].via
        /\ q.cached = call[c].cached /\ q.failed = call[c].failed /\ q.res = call[c].res
    BY <1>1, Here DEF CallState, Same, WithPc
  <1>5. Control(q) /\ Way(q) /\ Stored(c, q, remote[q.name].ever)
    BY <1>2, <1>4, Here DEF Control, Way, Stored, Same
  <1>6. Moved(c, q) /\ FlightStep(c, q)
    BY <1>2, <1>3, <1>4, <1>5, Here DEF Moved, FlightStep, At, Same
  <1>7. RemoteStep(c, q) /\ FoundStep(c, q) /\ FileStep(c, q) /\ Quiet(c, q)
    BY <1>2, <1>4, Here DEF RemoteStep, FoundStep, FileStep, Shrinks, Quiet, Pending, At
  <1> QED BY <1>6, <1>7 DEF Outcome

-----------------------------------------------------------------------------
(* The actions of a call under way that change neither what it has nor the *)
(* singleflight group.                                                     *)

Steady(c, q) ==
    /\ call' = [call EXCEPT ![c] = q] /\ q \in CallState /\ Control(q) /\ Way(q)
    /\ Same(q, call[c]) /\ q.via = call[c].via /\ q.got = call[c].got
    /\ call[c].failed => q.failed
    /\ call[c].pc \notin {"idle", "miss", "fetch", "wait", "done"}
    /\ q.pc \notin {"idle", "fetch", "wait"}
    /\ q.via = "lead" => q.pc # "done"
    /\ Stored(c, q, remote'[q.name].ever)
    /\ flight' = flight /\ faulted \subseteq faulted' /\ faulted' \subseteq FaultKinds

LEMMA SteadyStep ==
    ASSUME IndInv, NEW c \in Calls, NEW q, Steady(c, q), RemoteStep(c, q), FileStep(c, q)
    PROVE  Outcome(c, q)
  <1>1. Moved(c, q)
    BY DEF Steady, Moved, At
  <1>2. FlightStep(c, q) /\ FoundStep(c, q)
    BY DEF Steady, FlightStep, FoundStep, At, Same
  <1> QED BY <1>1, <1>2 DEF Outcome

(* The end of populate, of evict, of Close and of DeleteBlob.              *)
LEMMA Finishes ==
    ASSUME IndInv, NEW c \in Calls, NEW q, q = Finished(c),
           call[c].pc \in {"populate", "fill", "list", "remove", "closecache", "uncache"},
           call' = [call EXCEPT ![c] = q], flight' = flight, remote' = remote,
           faulted \subseteq faulted', faulted' \subseteq FaultKinds
    PROVE  Steady(c, q) /\ q.pc \in {"answer", "done"} /\ RemoteStep(c, q) /\ q.name = call[c].name
  <1> DEFINE res == IF call[c].res = "none" /\ ~call[c].failed THEN "ok" ELSE "error"
  <1>1. call[c] \in CallState /\ call[c].name \in Names /\ call[c].res = "none"
    BY Here DEF Control
  <1>2. Control(call[c]) /\ Way(call[c]) /\ Stored(c, call[c], remote[call[c].name].ever)
    BY Here
  <1>3. CASE call[c].kind = "read"
    <2>1. q = Returned(call[c], "answer")
      BY <1>3 DEF Finished, Returned
    <2>2. q \in CallState
      BY <2>1, <1>1, Constants, UpdatesTyped
    <2>3. /\ Same(q, call[c]) /\ q.pc = "answer" /\ q.got = call[c].got /\ q.via = call[c].via
          /\ q.cached = call[c].cached /\ q.failed = call[c].failed /\ q.res = call[c].res
      BY <2>1, <1>1 DEF CallState, Same, Returned
    <2>4. Control(q) /\ Way(q) /\ Stored(c, q, remote[q.name].ever)
      BY <2>3, <1>2, <1>3, <1>1 DEF Control, Way, Stored, Same
    <2> QED BY <2>2, <2>3, <2>4 DEF Steady, RemoteStep, Same
  <1>4. CASE call[c].kind # "read"
    <2>1. q = Closed(call[c], "done", res) /\ res \in Results
      BY <1>4, Constants DEF Finished, Closed
    <2>2. q \in CallState
      BY <2>1, <1>1, Constants, UpdatesTyped
    <2>3. /\ Same(q, call[c]) /\ q.pc = "done" /\ q.got = call[c].got /\ q.via = call[c].via
          /\ q.cached = call[c].cached /\ q.failed = call[c].failed /\ q.res = res
      BY <2>1, <1>1 DEF CallState, Same, Closed
    <2>4. res # "none" /\ (res = "ok" => ~call[c].failed)
      OBVIOUS
    <2>5. q.via # "lead"
      BY <2>3, <1>2, <1>4 DEF Way
    <2> HIDE DEF res
    <2>6. Control(q) /\ Way(q)
      BY <2>3, <2>4, <1>2, <1>4, <1>1 DEF Control, Way, Same
    <2>7. Stored(c, q, remote[q.name].ever)
      BY <2>3, <2>4, <1>2, <1>4, <1>1 DEF Control, Stored, Same
    <2> QED BY <2>2, <2>3, <2>5, <2>6, <2>7 DEF Steady, RemoteStep, Same
  <1> QED BY <1>3, <1>4

(* A step that only moves c on.                                            *)
LEMMA MovesOn ==
    ASSUME IndInv, NEW c \in Calls, NEW pc, NEW q, q = WithPc(call[c], pc),
           \/ call[c].pc = "populate" /\ pc = "fill"
           \/ call[c].pc = "fill" /\ pc = "list"
           \/ call[c].pc = "write" /\ pc = "close"
           \/ call[c].pc = "closecache" /\ pc = "list",
           call' = [call EXCEPT ![c] = q], flight' = flight, remote' = remote, faulted' = faulted
    PROVE  /\ Steady(c, q) /\ RemoteStep(c, q) /\ q.pc = pc /\ q.name = call[c].name
           /\ q.cached = call[c].cached /\ q.failed = call[c].failed /\ q.kind = call[c].kind
  <1>1. call[c] \in CallState /\ call[c].name \in Names /\ pc \in PCs /\ faulted \subseteq FaultKinds
    BY Here, Constants DEF Control
  <1>2. Control(call[c]) /\ Way(call[c]) /\ Stored(c, call[c], remote[call[c].name].ever)
    BY Here
  <1>3. q \in CallState
    BY <1>1, UpdatesTyped
  <1>4. /\ Same(q, call[c]) /\ q.pc = pc /\ q.got = call[c].got /\ q.via = call[c].via
        /\ q.cached = call[c].cached /\ q.failed = call[c].failed /\ q.res = call[c].res
    BY <1>1 DEF CallState, Same, WithPc
  <1>5. Control(q)
    BY <1>2, <1>4 DEF Control, Same
  <1>6. Way(q)
    BY <1>2, <1>4 DEF Control, Way, Same
  <1>7. Stored(c, q, remote[q.name].ever)
    BY <1>2, <1>4 DEF Control, Stored, Same
  <1> QED BY <1>1, <1>3, <1>4, <1>5, <1>6, <1>7 DEF Steady, RemoteStep, Same

LEMMA PopulateOpenStep ==
    ASSUME IndInv, NEW c \in Calls, PopulateOpen(c)
    PROVE  \E q : Outcome(c, q) /\ Quiet(c, q)
  <1>1. PICK q : q = WithPc(call[c], "fill")
    OBVIOUS
  <1>2. /\ call[c].pc = "populate" /\ call' = [call EXCEPT ![c] = q] /\ flight' = flight
        /\ remote' = remote /\ faulted' = faulted /\ Truncate(c, call[c].name)
    BY <1>1, Here DEF PopulateOpen, WithPc, At, Name
  <1>3. Steady(c, q) /\ RemoteStep(c, q) /\ q.pc = "fill" /\ q.name = call[c].name
    BY <1>1, <1>2, MovesOn
  <1>4. Shrinks(c, q) /\ FileStep(c, q)
    BY <1>2, <1>3 DEF Shrinks, FileStep
  <1>5. Quiet(c, q)
    BY <1>2, <1>3, <1>4 DEF Quiet, Pending, At
  <1> QED BY <1>3, <1>4, <1>5, SteadyStep

LEMMA PopulateFillStep ==
    ASSUME IndInv, NEW c \in Calls, PopulateFill(c)
    PROVE  \E q : Outcome(c, q) /\ Quiet(c, q)
  <1>1. PICK q : q = WithPc(call[c], "list")
    OBVIOUS
  <1>2. /\ call[c].pc = "fill" /\ call' = [call EXCEPT ![c] = q] /\ flight' = flight
        /\ remote' = remote /\ faulted' = faulted
        /\ WriteThrough(c, call[c].name, call[c].got, file[call[c].name].fds \ {c})
    BY <1>1, Here DEF PopulateFill, WithPc, At, Name, WriteAndClose
  <1>3. Steady(c, q) /\ RemoteStep(c, q) /\ q.pc = "list" /\ q.name = call[c].name
    BY <1>1, <1>2, MovesOn
  <1>4. call[c].got \in DataSet /\ call[c].got \in remote[call[c].name].ever /\ call[c].name \in Names
    BY <1>2, Here DEF CallState, DataSet, Stored
  <1>5. file[call[c].name].fds \ {c} \in SUBSET Calls
    BY <1>4 DEF IndInv, TypeOK, FileState
  <1>6. FileStep(c, q)
    BY <1>2, <1>3, <1>4, <1>5 DEF Fills, FileStep
  <1>7. Quiet(c, q)
    BY <1>2, <1>3 DEF Quiet, Pending, At
  <1> QED BY <1>3, <1>6, <1>7, SteadyStep

LEMMA PopulateFailsStep ==
    ASSUME IndInv, NEW c \in Calls, PopulateFails(c)
    PROVE  \E q : Outcome(c, q) /\ Quiet(c, q)
  <1>1. PICK q : q = Finished(c)
    OBVIOUS
  <1>2. /\ call[c].pc \in {"populate", "fill"} /\ call' = [call EXCEPT ![c] = q] /\ flight' = flight /\ remote' = remote
        /\ "cache" \in faulted' /\ faulted \subseteq faulted' /\ faulted' \subseteq FaultKinds
        /\ \/ file' = file /\ order' = order
           \/ WriteThrough(c, call[c].name, None, file[call[c].name].fds \ {c})
    BY <1>1, Here, CacheAssumption DEF PopulateFails, Fault, FaultKinds, At, Name, WriteAndClose
  <1>3. Steady(c, q) /\ RemoteStep(c, q) /\ q.pc \in {"answer", "done"} /\ q.name = call[c].name
    BY <1>1, <1>2, Finishes
  <1>4. file[call[c].name].fds \ {c} \in SUBSET Calls
    BY <1>2, Here DEF IndInv, TypeOK, FileState
  <1>5. FileStep(c, q)
    BY <1>2, <1>3, <1>4, Constants DEF Fills, FileStep, Shrinks
  <1>6. Quiet(c, q)
    BY <1>2, <1>3 DEF Quiet, Pending, At
  <1> QED BY <1>3, <1>5, <1>6, SteadyStep

LEMMA DeleteCacheStep ==
    ASSUME IndInv, NEW c \in Calls, DeleteCache(c)
    PROVE  \E q : Outcome(c, q) /\ Quiet(c, q)
  <1>1. PICK q : q = Finished(c)
    OBVIOUS
  <1>2. /\ call[c].pc = "uncache" /\ call' = [call EXCEPT ![c] = q] /\ flight' = flight /\ remote' = remote
        /\ faulted' = faulted /\ faulted \subseteq FaultKinds /\ Unlink(call[c].name) /\ call[c].name \in Names
    BY <1>1, Here DEF DeleteCache, At, Name
  <1>3. Steady(c, q) /\ RemoteStep(c, q) /\ q.pc \in {"answer", "done"}
    BY <1>1, <1>2, Finishes
  <1>4. Shrinks(c, q) /\ FileStep(c, q)
    BY <1>2 DEF Shrinks, FileStep
  <1>5. Quiet(c, q)
    BY <1>2, <1>3, <1>4 DEF Quiet, Pending, At
  <1> QED BY <1>3, <1>4, <1>5, SteadyStep

(* A call on the cache that fails and ends there.                          *)
LEMMA GivesUpStep ==
    ASSUME IndInv, NEW c \in Calls, DeleteCacheFails(c) \/ EvictListFails(c)
    PROVE  \E q : Outcome(c, q) /\ Quiet(c, q)
  <1>1. PICK q : q = Finished(c)
    OBVIOUS
  <1>2. /\ call[c].pc \in {"uncache", "list"} /\ call' = [call EXCEPT ![c] = q]
        /\ flight' = flight /\ remote' = remote /\ file' = file /\ order' = order
        /\ "cache" \in faulted' /\ faulted \subseteq faulted' /\ faulted' \subseteq FaultKinds
    BY <1>1, Here, CacheAssumption DEF DeleteCacheFails, EvictListFails, Fault, FaultKinds, At
  <1>3. Steady(c, q) /\ RemoteStep(c, q) /\ q.pc \in {"answer", "done"}
    BY <1>1, <1>2, Finishes
  <1>4. FileStep(c, q)
    BY <1>2 DEF Shrinks, FileStep
  <1>5. Quiet(c, q)
    BY <1>2, <1>3 DEF Quiet, At
  <1> QED BY <1>3, <1>4, <1>5, SteadyStep

(* A Writer: Write and Close.                                              *)
LEMMA OwnFds ==
    ASSUME IndInv, NEW c \in Calls, call[c].pc # "idle"
    PROVE  file[call[c].name].fds \in SUBSET Calls /\ file[call[c].name].fds \ {c} \in SUBSET Calls
  BY Here DEF IndInv, TypeOK, FileState

LEMMA TeeWriteStep ==
    ASSUME IndInv, NEW c \in Calls, TeeWrite(c)
    PROVE  \E q : Outcome(c, q) /\ Quiet(c, q)
  <1>1. PICK q : q = WithPc(call[c], "close")
    OBVIOUS
  <1>2. /\ call[c].pc = "write" /\ call' = [call EXCEPT ![c] = q] /\ flight' = flight
        /\ remote' = remote /\ faulted' = faulted
        /\ \/ file' = file /\ order' = order
           \/ call[c].cached /\ WriteThrough(c, call[c].name, None, file[call[c].name].fds)
    BY <1>1, Here DEF TeeWrite, WithPc, At, Name
  <1>3. Steady(c, q) /\ RemoteStep(c, q) /\ q.pc = "close" /\ q.name = call[c].name /\ q.cached = call[c].cached
    BY <1>1, <1>2, MovesOn
  <1>4. FileStep(c, q) /\ (Shrinks(c, q) \/ call[c].cached)
    BY <1>2, <1>3, OwnFds, Constants DEF Fills, FileStep, Shrinks
  <1>5. Quiet(c, q)
    BY <1>2, <1>3, <1>4 DEF Quiet, Pending, At
  <1> QED BY <1>3, <1>4, <1>5, SteadyStep

LEMMA TeeWriteUncachesStep ==
    ASSUME IndInv, NEW c \in Calls, TeeWriteUncaches(c)
    PROVE  \E q : Outcome(c, q) /\ Quiet(c, q)
  <1>1. PICK q : q = WithPcCached(call[c], "close", FALSE)
    OBVIOUS
  <1>2. /\ call[c].pc = "write" /\ call' = [call EXCEPT ![c] = q] /\ flight' = flight /\ remote' = remote
        /\ "cache" \in faulted' /\ faulted \subseteq faulted' /\ faulted' \subseteq FaultKinds
        /\ WriteThrough(c, call[c].name, None, file[call[c].name].fds)
    BY <1>1, Here, CacheAssumption DEF TeeWriteUncaches, Fault, FaultKinds, WithPcCached, At, Name
  <1>3. q \in CallState
    BY <1>1, Here, Constants, UpdatesTyped
  <1>4. /\ Same(q, call[c]) /\ q.pc = "close" /\ q.got = call[c].got /\ q.via = call[c].via
        /\ q.cached = FALSE /\ q.failed = call[c].failed /\ q.res = call[c].res
    BY <1>1, Here DEF CallState, Same, WithPcCached
  <1>5. Control(q) /\ Way(q) /\ Stored(c, q, remote[q.name].ever)
    BY <1>2, <1>4, Here DEF Control, Way, Stored, Same
  <1>6. Steady(c, q) /\ RemoteStep(c, q) /\ q.name = call[c].name
    BY <1>2, <1>3, <1>4, <1>5 DEF Steady, RemoteStep, Same
  <1>7. FileStep(c, q)
    BY <1>2, <1>6, OwnFds, Constants DEF Fills, FileStep
  <1>8. Quiet(c, q)
    BY <1>2, <1>4 DEF Quiet, At
  <1> QED BY <1>6, <1>7, <1>8, SteadyStep

LEMMA TeeWriteFailsStep ==
    ASSUME IndInv, NEW c \in Calls, TeeWriteFails(c)
    PROVE  \E q : Outcome(c, q) /\ Quiet(c, q)
  <1>1. PICK q : q = WithPcFailed(call[c], "close", TRUE)
    OBVIOUS
  <1>2. /\ call[c].pc = "write" /\ call' = [call EXCEPT ![c] = q] /\ flight' = flight /\ remote' = remote
        /\ faulted \subseteq faulted' /\ faulted' \subseteq FaultKinds /\ file' = file /\ order' = order
    BY <1>1, Here, CacheAssumption DEF TeeWriteFails, Fault, FaultKinds, WithPcFailed, At, Name
  <1>3. q \in CallState
    BY <1>1, Here, Constants, UpdatesTyped
  <1>4. /\ Same(q, call[c]) /\ q.pc = "close" /\ q.got = call[c].got /\ q.via = call[c].via
        /\ q.cached = call[c].cached /\ q.failed = TRUE /\ q.res = call[c].res
    BY <1>1, Here DEF CallState, Same, WithPcFailed
  <1>5. Control(q) /\ Way(q) /\ Stored(c, q, remote[q.name].ever)
    BY <1>2, <1>4, Here DEF Control, Way, Stored, Same
  <1>6. Steady(c, q) /\ RemoteStep(c, q)
    BY <1>2, <1>3, <1>4, <1>5 DEF Steady, RemoteStep, Same
  <1>7. Shrinks(c, q) /\ FileStep(c, q)
    BY <1>2 DEF FileStep, Shrinks
  <1>8. Quiet(c, q)
    BY <1>2, <1>4, <1>7 DEF Quiet, At, Pending
  <1> QED BY <1>6, <1>7, <1>8, SteadyStep

(* After backing.Close, which has committed the blob unless it failed.     *)
LEMMA ClosesBacking ==
    ASSUME IndInv, NEW c \in Calls, NEW failed \in BOOLEAN, NEW q, q = BackingClosed(c, failed),
           call[c].pc = "close", call[c].failed => failed, call' = [call EXCEPT ![c] = q],
           remote' = remote \/ Commit(call[c].name, c), failed \/ Commit(call[c].name, c),
           file' = file, order' = order, flight' = flight,
           faulted \subseteq faulted', faulted' \subseteq FaultKinds
    PROVE  Outcome(c, q) /\ Quiet(c, q)
  <1>1. /\ call[c] \in CallState /\ call[c].name \in Names /\ call[c].kind = "tee" /\ call[c].res = "none"
        /\ Control(call[c]) /\ Way(call[c]) /\ Stored(c, call[c], remote[call[c].name].ever)
    BY Here DEF Control
  <1>2. /\ q \in CallState /\ Same(q, call[c]) /\ q.got = call[c].got /\ q.via = call[c].via
        /\ q.cached = call[c].cached /\ q.failed = failed
        /\ \/ call[c].cached /\ q.pc = "closecache" /\ q.res = "none"
           \/ ~call[c].cached /\ q.pc = "done" /\ q.res = IF failed THEN "error" ELSE "ok"
    <2>1. CASE call[c].cached
      <3>1. q = WithPcFailed(call[c], "closecache", failed)
        BY <2>1 DEF BackingClosed, WithPcFailed
      <3>2. q \in CallState
        BY <3>1, <1>1, Constants, UpdatesTyped DEF Flags
      <3> QED BY <2>1, <3>1, <3>2, <1>1 DEF CallState, Same, WithPcFailed
    <2>2. CASE ~call[c].cached
      <3>1. q = Ended(call[c], "done", failed, IF failed THEN "error" ELSE "ok")
        BY <2>2 DEF BackingClosed, Ended
      <3>2. q \in CallState
        BY <3>1, <1>1, Constants, EndedTyped DEF Flags
      <3> QED BY <2>2, <3>1, <3>2, <1>1 DEF CallState, Same, Ended
    <2> QED BY <2>1, <2>2
  <1>3. /\ remote[call[c].name].ever \subseteq remote'[call[c].name].ever
        /\ failed \/ c \in remote'[call[c].name].ever
    <2>1. remote \in [Names -> [blob: Calls \cup {None}, ever: SUBSET Calls]]
      BY DEF IndInv, TypeOK
    <2> QED BY <2>1, <1>1 DEF Commit
  <1>4. Control(q) /\ Way(q)
    BY <1>1, <1>2 DEF Control, Way, Same
  <1>5. Stored(c, q, remote'[q.name].ever)
    BY <1>1, <1>2, <1>3 DEF Control, Stored, Same
  <1>6. q.via # "lead"
    BY <1>1, <1>2 DEF Way
  <1>7. Steady(c, q)
    BY <1>1, <1>2, <1>4, <1>5, <1>6 DEF Steady
  <1>8. RemoteStep(c, q) /\ Shrinks(c, q) /\ FileStep(c, q)
    BY <1>2 DEF RemoteStep, Shrinks, FileStep, Same
  <1>9. Quiet(c, q)
    BY <1>2, <1>8 DEF Quiet, Pending, At
  <1> QED BY <1>7, <1>8, <1>9, SteadyStep

LEMMA TeeCloseStep ==
    ASSUME IndInv, NEW c \in Calls, TeeClose(c)
    PROVE  \E q : Outcome(c, q) /\ Quiet(c, q)
  <1>1. PICK q : q = BackingClosed(c, FALSE)
    OBVIOUS
  <1>2. /\ call[c].pc = "close" /\ ~call[c].failed /\ call' = [call EXCEPT ![c] = q] /\ Commit(call[c].name, c)
        /\ flight' = flight /\ file' = file /\ order' = order /\ faulted' = faulted
    BY <1>1 DEF TeeClose, At, Name
  <1> QED BY <1>1, <1>2, Here, ClosesBacking

LEMMA TeeCloseFailsStep ==
    ASSUME IndInv, NEW c \in Calls, TeeCloseFails(c)
    PROVE  \E q : Outcome(c, q) /\ Quiet(c, q)
  <1>1. PICK q : q = BackingClosed(c, TRUE)
    OBVIOUS
  <1>2. /\ call[c].pc = "close" /\ call' = [call EXCEPT ![c] = q] /\ (remote' = remote \/ Commit(call[c].name, c))
        /\ flight' = flight /\ file' = file /\ order' = order
        /\ faulted \subseteq faulted' /\ faulted' \subseteq FaultKinds
    BY <1>1, Here, CacheAssumption DEF TeeCloseFails, Fault, FaultKinds, At, Name
  <1> QED BY <1>1, <1>2, Here, ClosesBacking

LEMMA TeeCloseCacheStep ==
    ASSUME IndInv, NEW c \in Calls, TeeCloseCache(c)
    PROVE  \E q : Outcome(c, q) /\ Quiet(c, q)
  <1>1. PICK q : q = WithPc(call[c], "list")
    OBVIOUS
  <1>2. /\ call[c].pc = "closecache" /\ call' = [call EXCEPT ![c] = q] /\ flight' = flight
        /\ remote' = remote /\ faulted' = faulted
        /\ WriteThrough(c, call[c].name, c, file[call[c].name].fds \ {c})
    BY <1>1, Here DEF TeeCloseCache, WithPc, At, Name, WriteAndClose
  <1>3. /\ Steady(c, q) /\ RemoteStep(c, q) /\ q.pc = "list" /\ q.name = call[c].name
        /\ q.failed = call[c].failed /\ q.kind = call[c].kind
    BY <1>1, <1>2, MovesOn
  <1>4. c \in DataSet /\ call[c].kind = "tee" /\ (call[c].failed \/ c \in remote[call[c].name].ever)
    BY <1>2, Here DEF Control, DataSet, Stored
  <1>5. FileStep(c, q)
    BY <1>2, <1>3, <1>4, OwnFds DEF Fills, FileStep
  <1>6. Quiet(c, q)
    BY <1>2, <1>3 DEF Quiet, Pending, At
  <1> QED BY <1>3, <1>5, <1>6, SteadyStep

LEMMA TeeCloseCacheFailsStep ==
    ASSUME IndInv, NEW c \in Calls, TeeCloseCacheFails(c)
    PROVE  \E q : Outcome(c, q) /\ Quiet(c, q)
  <1>1. PICK q : q = Finished(c)
    OBVIOUS
  <1>2. /\ call[c].pc = "closecache" /\ call' = [call EXCEPT ![c] = q] /\ flight' = flight /\ remote' = remote
        /\ "cache" \in faulted' /\ faulted \subseteq faulted' /\ faulted' \subseteq FaultKinds
        /\ WriteThrough(c, call[c].name, None, file[call[c].name].fds \ {c})
    BY <1>1, Here, CacheAssumption DEF TeeCloseCacheFails, Fault, FaultKinds, At, Name, WriteAndClose
  <1>3. Steady(c, q) /\ RemoteStep(c, q) /\ q.pc \in {"answer", "done"} /\ q.name = call[c].name
    BY <1>1, <1>2, Finishes
  <1>4. FileStep(c, q)
    BY <1>2, <1>3, OwnFds, Constants DEF Fills, FileStep
  <1>5. Quiet(c, q)
    BY <1>2, <1>3 DEF Quiet, At
  <1> QED BY <1>3, <1>4, <1>5, SteadyStep

-----------------------------------------------------------------------------
(* The first steps of a call.                                              *)

WithViaRes(q, via, res) == [q EXCEPT !.via = via, !.res = res]
WithRes(q, res)         == [q EXCEPT !.res = res]
WithCached(q, b)        == [q EXCEPT !.cached = b]

LEMMA FirstTyped ==
    ASSUME NEW q \in CallState
    PROVE  /\ WithViaRes(q, "hit", "ok") \in CallState /\ WithRes(q, "error") \in CallState
           /\ WithCached(q, TRUE) \in CallState
  <1>1. [q EXCEPT !.via = "hit"] \in CallState
    BY ViaField, Constants, Zenon
  <1>2. [q EXCEPT !.via = "hit", !.res = "ok"] \in CallState
    BY <1>1, ResField, Constants, Zenon
  <1>3. [q EXCEPT !.res = "error"] \in CallState
    BY ResField, Constants, Zenon
  <1>4. [q EXCEPT !.cached = TRUE] \in CallState
    BY CachedField, Constants, Zenon
  <1> QED BY <1>2, <1>3, <1>4, Zenon DEF WithViaRes, WithRes, WithCached

LEMMA KindNames == "read" \in AllKinds /\ "put" \in AllKinds /\ "tee" \in AllKinds /\ "delete" \in AllKinds
  BY DEF AllKinds

BegunAs(b, k, n, pc, got) ==
    /\ b \in CallState /\ b.pc = pc /\ b.kind = k /\ b.name = n /\ b.got = got /\ b.via = "none"
    /\ b.failed = FALSE /\ b.res = "none" /\ (b.seen => remote[n].ever # {})

LEMMA BegunIs ==
    ASSUME IndInv, NEW c \in Calls, call[c].pc = "idle", NEW k \in AllKinds, NEW n \in Names, NEW pc \in PCs,
           NEW got \in DataSet
    PROVE  BegunAs(Begun(c, k, n, pc, got), k, n, pc, got)
  <1>0. PICK b : b = Begun(c, k, n, pc, got)
    OBVIOUS
  <1>1. call[c] \in CallState /\ call[c].via = "none" /\ call[c].failed = FALSE /\ call[c].res = "none"
    BY Here DEF Control, CallState
  <1>2. PICK seen \in BOOLEAN : seen = Written(n)
    BY DEF Written
  <1>3. b = Begin(call[c], pc, k, n, got, seen)
    BY <1>0, <1>2 DEF Begun, Begin
  <1>4. b \in CallState
    BY <1>1, <1>3, BeginTyped DEF KindSet, NameSet, Flags
  <1>5. /\ b.pc = pc /\ b.kind = k /\ b.name = n /\ b.got = got /\ b.via = "none"
        /\ b.failed = FALSE /\ b.res = "none" /\ b.seen = seen
    BY <1>1, <1>3 DEF CallState, Begin
  <1>6. ASSUME seen PROVE remote[n].ever # {}
    <2>1. PICK d \in Calls : call[d].name = n /\ call[d].kind \in {"put", "tee"} /\ call[d].res = "ok"
      BY <1>2, <1>6 DEF Written, Name
    <2>2. d \in remote[n].ever
      BY <2>1, Here DEF Control, Stored
    <2> QED BY <2>2
  <1> QED BY <1>0, <1>4, <1>5, <1>6 DEF BegunAs

LEMMA FirstStep ==
    ASSUME IndInv, NEW c \in Calls, call[c].pc = "idle", NEW q \in CallState, Control(q), Way(q),
           q.pc \notin {"idle", "wait", "remove"}, q.via # "lead", Stored(c, q, remote'[q.name].ever),
           call' = [call EXCEPT ![c] = q], flight' = flight,
           faulted \subseteq faulted', faulted' \subseteq FaultKinds, RemoteStep(c, q), Shrinks(c, q)
    PROVE  \E p : Outcome(c, p) /\ Quiet(c, p)
  <1>1. call[c].via = "none"
    BY Here DEF Control
  <1>2. Moved(c, q) /\ FlightStep(c, q) /\ FoundStep(c, q) /\ FileStep(c, q)
    BY <1>1 DEF Moved, FlightStep, FoundStep, FileStep, At
  <1>3. Quiet(c, q)
    BY DEF Quiet, Pending, At
  <1> QED BY <1>2, <1>3 DEF Outcome

LEMMA ReadHitStep ==
    ASSUME IndInv, NEW c \in Calls, NEW n \in Names, ReadHit(c, n)
    PROVE  \E q : Outcome(c, q) /\ Quiet(c, q)
  <1>1. PICK b, q : b = Begun(c, "read", n, "done", file[n].data) /\ q = WithViaRes(b, "hit", "ok")
    OBVIOUS
  <1>2. /\ call[c].pc = "idle" /\ call' = [call EXCEPT ![c] = q] /\ flight' = flight /\ remote' = remote
        /\ file' = file /\ order' = order /\ faulted' = faulted /\ file[n].st = "valid"
    BY <1>1, Zenon DEF ReadHit, Begins, At, WithViaRes
  <1>3. file[n].data \in DataSet
    BY <1>2 DEF IndInv, TypeOK, FileState, DataSet
  <1>b. BegunAs(Begun(c, "read", n, "done", file[n].data), "read", n, "done", file[n].data)
    BY <1>2, <1>3, Constants, KindNames, BegunIs
  <1>4. /\ b \in CallState /\ b.pc = "done" /\ b.kind = "read" /\ b.name = n /\ b.via = "none"
        /\ b.failed = FALSE /\ b.res = "none" /\ (b.seen => remote[n].ever # {})
    BY <1>1, <1>b DEF BegunAs
  <1>5. q \in CallState
    BY <1>1, <1>4, FirstTyped
  <1>6. /\ q.pc = "done" /\ q.kind = "read" /\ q.name = n /\ q.via = "hit"
        /\ q.failed = FALSE /\ q.res = "ok" /\ (q.seen => remote[n].ever # {})
    BY <1>1, <1>4 DEF CallState, WithViaRes
  <1>7. Control(q) /\ Way(q) /\ Stored(c, q, remote[q.name].ever)
    BY <1>6 DEF Control, Way, Stored, AllKinds
  <1>8. RemoteStep(c, q) /\ Shrinks(c, q)
    BY <1>2 DEF RemoteStep, Shrinks
  <1> QED BY <1>2, <1>5, <1>6, <1>7, <1>8, Here, FirstStep

LEMMA ReadMissStep ==
    ASSUME IndInv, NEW c \in Calls, NEW n \in Names, ReadMiss(c, n)
    PROVE  \E q : Outcome(c, q) /\ Quiet(c, q)
  <1>1. PICK q : q = Begun(c, "read", n, "miss", None)
    OBVIOUS
  <1>2. /\ call[c].pc = "idle" /\ call' = [call EXCEPT ![c] = q] /\ flight' = flight /\ remote' = remote
        /\ file' = file /\ order' = order /\ faulted' = faulted
    BY <1>1 DEF ReadMiss, Begins, At
  <1>b. BegunAs(Begun(c, "read", n, "miss", None), "read", n, "miss", None)
    BY <1>2, Constants, KindNames, BegunIs
  <1>3. /\ q \in CallState /\ q.pc = "miss" /\ q.kind = "read" /\ q.name = n /\ q.via = "none"
        /\ q.failed = FALSE /\ q.res = "none" /\ (q.seen => remote[n].ever # {})
    BY <1>1, <1>b DEF BegunAs
  <1>4. Control(q) /\ Way(q) /\ Stored(c, q, remote[q.name].ever)
    BY <1>3 DEF Control, Way, Stored, AllKinds
  <1>5. RemoteStep(c, q) /\ Shrinks(c, q)
    BY <1>2 DEF RemoteStep, Shrinks
  <1> QED BY <1>2, <1>3, <1>4, <1>5, Here, FirstStep

LEMMA PutBackingStep ==
    ASSUME IndInv, NEW c \in Calls, NEW n \in Names, PutBacking(c, n)
    PROVE  \E q : Outcome(c, q) /\ Quiet(c, q)
  <1>1. PICK q : q = Begun(c, "put", n, "populate", c)
    OBVIOUS
  <1>2. /\ call[c].pc = "idle" /\ call' = [call EXCEPT ![c] = q] /\ flight' = flight /\ Commit(n, c)
        /\ file' = file /\ order' = order /\ faulted' = faulted
    BY <1>1 DEF PutBacking, Begins, At
  <1>3. c \in DataSet /\ c # None
    BY CacheAssumption DEF DataSet
  <1>b. BegunAs(Begun(c, "put", n, "populate", c), "put", n, "populate", c)
    BY <1>2, <1>3, Constants, KindNames, BegunIs
  <1>4. /\ q \in CallState /\ q.pc = "populate" /\ q.kind = "put" /\ q.name = n /\ q.via = "none" /\ q.got = c
        /\ q.failed = FALSE /\ q.res = "none" /\ (q.seen => remote[n].ever # {})
    BY <1>1, <1>b DEF BegunAs
  <1>5. c \in remote'[n].ever
    <2>1. remote \in [Names -> [blob: Calls \cup {None}, ever: SUBSET Calls]]
      BY DEF IndInv, TypeOK
    <2> QED BY <1>2, <2>1 DEF Commit
  <1>6. Control(q) /\ Way(q) /\ Stored(c, q, remote'[q.name].ever)
    BY <1>3, <1>4, <1>5 DEF Control, Way, Stored, AllKinds
  <1>7. RemoteStep(c, q) /\ Shrinks(c, q)
    BY <1>2, <1>4 DEF RemoteStep, Shrinks
  <1> QED BY <1>2, <1>4, <1>6, <1>7, Here, FirstStep

LEMMA RefusedStep ==
    ASSUME IndInv, NEW c \in Calls, NEW n \in Names, NEW k \in {"put", "tee", "delete"}, Refused(c, k, n)
    PROVE  \E q : Outcome(c, q) /\ Quiet(c, q)
  <1>1. PICK b, q : b = Begun(c, k, n, "done", None) /\ q = WithRes(b, "error")
    OBVIOUS
  <1>2. /\ call[c].pc = "idle" /\ call' = [call EXCEPT ![c] = q] /\ flight' = flight /\ remote' = remote
        /\ file' = file /\ order' = order /\ Fault("backing")
    BY <1>1, Zenon DEF Refused, Begins, At, WithRes
  <1>3. faulted \subseteq faulted' /\ faulted' \subseteq FaultKinds
    BY <1>2, Here, CacheAssumption DEF Fault, FaultKinds
  <1>b. BegunAs(Begun(c, k, n, "done", None), k, n, "done", None)
    BY <1>2, Constants, KindNames, BegunIs
  <1>4. /\ b \in CallState /\ b.pc = "done" /\ b.kind = k /\ b.name = n /\ b.via = "none"
        /\ b.failed = FALSE /\ b.res = "none" /\ (b.seen => remote[n].ever # {})
    BY <1>1, <1>b DEF BegunAs
  <1>5. q \in CallState
    BY <1>1, <1>4, FirstTyped
  <1>6. /\ q.pc = "done" /\ q.kind = k /\ q.name = n /\ q.via = "none"
        /\ q.failed = FALSE /\ q.res = "error" /\ (q.seen => remote[n].ever # {})
    BY <1>1, <1>4 DEF CallState, WithRes
  <1>7. Control(q) /\ Way(q) /\ Stored(c, q, remote[q.name].ever)
    BY <1>6 DEF Control, Way, Stored, AllKinds
  <1>8. RemoteStep(c, q) /\ Shrinks(c, q)
    BY <1>2 DEF RemoteStep, Shrinks
  <1> QED BY <1>2, <1>3, <1>5, <1>6, <1>7, <1>8, FirstStep

LEMMA DeleteBackingStep ==
    ASSUME IndInv, NEW c \in Calls, NEW n \in Names, DeleteBacking(c, n)
    PROVE  \E q : Outcome(c, q) /\ Quiet(c, q)
  <1>1. PICK q : q = Begun(c, "delete", n, "uncache", None)
    OBVIOUS
  <1>2. /\ call[c].pc = "idle" /\ call' = [call EXCEPT ![c] = q] /\ flight' = flight
        /\ remote' = [remote EXCEPT ![n].blob = None]
        /\ file' = file /\ order' = order /\ faulted' = faulted
    BY <1>1 DEF DeleteBacking, Begins, At
  <1>b. BegunAs(Begun(c, "delete", n, "uncache", None), "delete", n, "uncache", None)
    BY <1>2, Constants, KindNames, BegunIs
  <1>3. /\ q \in CallState /\ q.pc = "uncache" /\ q.kind = "delete" /\ q.name = n /\ q.via = "none"
        /\ q.failed = FALSE /\ q.res = "none" /\ (q.seen => remote[n].ever # {})
    BY <1>1, <1>b DEF BegunAs
  <1>4. remote'[n].ever = remote[n].ever
    <2>1. remote \in [Names -> [blob: Calls \cup {None}, ever: SUBSET Calls]]
      BY DEF IndInv, TypeOK
    <2> QED BY <1>2, <2>1
  <1>5. Control(q) /\ Way(q) /\ Stored(c, q, remote'[q.name].ever)
    BY <1>3, <1>4 DEF Control, Way, Stored, AllKinds
  <1>6. RemoteStep(c, q) /\ Shrinks(c, q)
    BY <1>2, <1>3 DEF RemoteStep, Shrinks
  <1> QED BY <1>2, <1>3, <1>5, <1>6, Here, FirstStep

LEMMA TeeOpenStep ==
    ASSUME IndInv, NEW c \in Calls, NEW n \in Names, TeeOpen(c, n)
    PROVE  \E q : Outcome(c, q) /\ Quiet(c, q)
  <1>1. PICK b, q : b = Begun(c, "tee", n, "write", c) /\ q = WithCached(b, TRUE)
    OBVIOUS
  <1>2. /\ call[c].pc = "idle" /\ call' = [call EXCEPT ![c] = q] /\ flight' = flight /\ remote' = remote
        /\ Truncate(c, n) /\ faulted' = faulted
    BY <1>1, Zenon DEF TeeOpen, Begins, At, WithCached
  <1>3. c \in DataSet
    BY DEF DataSet
  <1>b. BegunAs(Begun(c, "tee", n, "write", c), "tee", n, "write", c)
    BY <1>2, <1>3, Constants, KindNames, BegunIs
  <1>4. /\ b \in CallState /\ b.pc = "write" /\ b.kind = "tee" /\ b.name = n /\ b.via = "none"
        /\ b.failed = FALSE /\ b.res = "none" /\ (b.seen => remote[n].ever # {})
    BY <1>1, <1>b DEF BegunAs
  <1>5. q \in CallState
    BY <1>1, <1>4, FirstTyped
  <1>6. /\ q.pc = "write" /\ q.kind = "tee" /\ q.name = n /\ q.via = "none"
        /\ q.failed = FALSE /\ q.res = "none" /\ (q.seen => remote[n].ever # {})
    BY <1>1, <1>4 DEF CallState, WithCached
  <1>7. Control(q) /\ Way(q) /\ Stored(c, q, remote[q.name].ever)
    BY <1>6 DEF Control, Way, Stored, AllKinds
  <1>8. RemoteStep(c, q) /\ Shrinks(c, q)
    BY <1>2, <1>6 DEF RemoteStep, Shrinks
  <1> QED BY <1>2, <1>5, <1>6, <1>7, <1>8, Here, FirstStep

LEMMA TeeOpenUncachedStep ==
    ASSUME IndInv, NEW c \in Calls, NEW n \in Names, TeeOpenUncached(c, n)
    PROVE  \E q : Outcome(c, q) /\ Quiet(c, q)
  <1>1. PICK q : q = Begun(c, "tee", n, "write", c)
    OBVIOUS
  <1>2. /\ call[c].pc = "idle" /\ call' = [call EXCEPT ![c] = q] /\ flight' = flight /\ remote' = remote
        /\ file' = file /\ order' = order /\ Fault("cache")
    BY <1>1, Zenon DEF TeeOpenUncached, Begins, At
  <1>3. faulted \subseteq faulted' /\ faulted' \subseteq FaultKinds /\ c \in DataSet
    BY <1>2, Here, CacheAssumption DEF Fault, FaultKinds, DataSet
  <1>b. BegunAs(Begun(c, "tee", n, "write", c), "tee", n, "write", c)
    BY <1>2, <1>3, Constants, KindNames, BegunIs
  <1>4. /\ q \in CallState /\ q.pc = "write" /\ q.kind = "tee" /\ q.name = n /\ q.via = "none"
        /\ q.failed = FALSE /\ q.res = "none" /\ (q.seen => remote[n].ever # {})
    BY <1>1, <1>b DEF BegunAs
  <1>5. Control(q) /\ Way(q) /\ Stored(c, q, remote[q.name].ever)
    BY <1>4 DEF Control, Way, Stored, AllKinds
  <1>6. RemoteStep(c, q) /\ Shrinks(c, q)
    BY <1>2 DEF RemoteStep, Shrinks
  <1> QED BY <1>2, <1>3, <1>4, <1>5, <1>6, FirstStep

-----------------------------------------------------------------------------
(* evict.                                                                  *)

(* What is in use is the number of full files.                             *)
LEMMA FullFinite ==
    ASSUME IndInv
    PROVE  IsFiniteSet(Full) /\ Cardinality(Full) \in Nat /\ Used = Cardinality(Full)
  <1>1. IsFiniteSet(Full)
    BY FS_Subset DEF IndInv, FileInv
  <1> QED BY <1>1, FS_CardinalityType DEF Used, Full

(* A step of evict that makes no file grow, after which the cache is       *)
(* within its limit, or c is removing and knows all the files there are.   *)
LEMMA EvictKept ==
    ASSUME IndInv, NEW c \in Calls, NEW q, Outcome(c, q), Shrinks(c, q), ~Pending(call[c]) \/ MaxBytes = 0
               \/ Cardinality(Full) <= MaxBytes \/ (q.pc = "remove" /\ Full' \subseteq Big(q.snap)),
           q.pc = "remove" => SnapOK(q),
           call[c].pc = "remove" /\ Full \subseteq Big(call[c].snap) =>
               Cardinality(Full) <= MaxBytes \/ (q.pc = "remove" /\ Full' \subseteq Big(q.snap))
    PROVE  SnapInv' /\ EvictInv'
  <1>1. \A d \in Calls : call'[d] = IF d = c THEN q ELSE call[d]
    BY CallsMoved DEF Outcome
  <1>2. SnapInv'
    BY <1>1 DEF IndInv, SnapInv, At, SnapOK
  <1>3. faulted \subseteq faulted' /\ Full' \subseteq Full
    BY Unfilled DEF Outcome, Moved
  <1>4. ASSUME q.pc = "remove", Full' \subseteq Big(q.snap) PROVE EvictInv'
    <2>1. call'[c].pc = "remove" /\ Full' \subseteq Big(call'[c].snap)
      BY <1>1, <1>4
    <2> QED BY <2>1 DEF EvictInv, At
  <1>5. ASSUME Cardinality(Full) <= MaxBytes PROVE EvictInv'
    <2>1. IsFiniteSet(Full) /\ Cardinality(Full) \in Nat /\ MaxBytes \in Nat
      BY FullFinite, CacheAssumption
    <2>2. Cardinality(Full') <= Cardinality(Full) /\ IsFiniteSet(Full')
      BY <2>1, <1>3, FS_Subset
    <2>3. Cardinality(Full') \in Nat
      BY <2>2, FS_CardinalityType
    <2> QED BY <1>5, <2>1, <2>2, <2>3 DEF EvictInv
  <1>6. ASSUME NEW d \in Calls, d # c,
               Pending(call[d]) \/ (call[d].pc = "remove" /\ Full \subseteq Big(call[d].snap))
        PROVE  EvictInv'
    <2>1. call'[d] = call[d]
      BY <1>1, <1>6
    <2>2. Pending(call'[d]) \/ (call'[d].pc = "remove" /\ Full' \subseteq Big(call'[d].snap))
      BY <1>3, <1>6, <2>1
    <2> QED BY <2>2 DEF EvictInv, At, Pending
  <1>7. CASE MaxBytes > 0 /\ "cache" \notin faulted
    <2>1. \/ Cardinality(Full) <= MaxBytes
          \/ \E d \in Calls : Pending(call[d]) \/ (call[d].pc = "remove" /\ Full \subseteq Big(call[d].snap))
      BY <1>7 DEF IndInv, EvictInv, At
    <2>2. MaxBytes # 0
      BY <1>7, CacheAssumption
    <2>3. CASE \E d \in Calls : d # c /\ (Pending(call[d]) \/ (call[d].pc = "remove" /\ Full \subseteq Big(call[d].snap)))
      BY <2>3, <1>2, <1>6
    <2>4. CASE Pending(call[c])
      BY <2>2, <2>4, <1>2, <1>4, <1>5
    <2>5. CASE call[c].pc = "remove" /\ Full \subseteq Big(call[c].snap)
      BY <2>5, <1>2, <1>4, <1>5
    <2> QED BY <2>1, <2>3, <2>4, <2>5, <1>2, <1>5
  <1>8. CASE ~(MaxBytes > 0 /\ "cache" \notin faulted)
    <2>1. ~(MaxBytes > 0 /\ "cache" \notin faulted')
      BY <1>3, <1>8
    <2>2. EvictInv'
      BY <2>1 DEF EvictInv
    <2> QED BY <2>2, <1>2
  <1> QED BY <1>7, <1>8

LEMMA EvictDoneStep ==
    ASSUME IndInv, NEW c \in Calls, EvictDone(c)
    PROVE  IndInv'
  <1>1. PICK q : q = Finished(c)
    OBVIOUS
  <1>2. /\ call[c].pc = "remove" /\ call' = [call EXCEPT ![c] = q] /\ flight' = flight /\ remote' = remote
        /\ file' = file /\ order' = order /\ faulted' = faulted /\ faulted \subseteq FaultKinds
        /\ call[c].total <= MaxBytes \/ call[c].snap = <<>>
    BY <1>1, Here DEF EvictDone, At
  <1>3. Steady(c, q) /\ RemoteStep(c, q) /\ q.pc \in {"answer", "done"}
    BY <1>1, <1>2, Finishes
  <1>4. Shrinks(c, q) /\ FileStep(c, q)
    BY <1>2 DEF Shrinks, FileStep
  <1>5. Outcome(c, q)
    BY <1>3, <1>4, SteadyStep
  <1>6. SnapOK(call[c]) /\ call[c].total \in Nat
    BY <1>2, Here DEF IndInv, SnapInv, At, CallState
  <1>7. ASSUME Full \subseteq Big(call[c].snap) PROVE Cardinality(Full) <= MaxBytes
    <2>1. /\ IsFiniteSet(Big(call[c].snap)) /\ Cardinality(Big(call[c].snap)) \in Nat
          /\ Cardinality(Full) <= Cardinality(Big(call[c].snap)) /\ Cardinality(Full) \in Nat /\ MaxBytes \in Nat
      BY <1>6, <1>7, FS_Subset, FS_CardinalityType, FullFinite, CacheAssumption DEF SnapOK
    <2>2. CASE call[c].total <= MaxBytes
      BY <1>6, <2>1, <2>2 DEF SnapOK
    <2>3. CASE call[c].snap = <<>>
      <3>1. Big(call[c].snap) = {}
        BY <2>3 DEF Big
      <3>2. Cardinality(Full) = 0
        BY <3>1, <1>7, FS_EmptySet
      <3> QED BY <3>2, <2>1
    <2> QED BY <1>2, <2>2, <2>3
  <1>8. SnapInv' /\ EvictInv'
    BY <1>2, <1>3, <1>4, <1>5, <1>7, EvictKept DEF Pending
  <1> QED BY <1>5, <1>8, Followed

LEMMA EvictListStep ==
    ASSUME IndInv, NEW c \in Calls, EvictList(c)
    PROVE  IndInv'
  <1> DEFINE snap == [k \in DOMAIN order |-> [name |-> order[k], sz |-> file[order[k]].sz]]
  <1>1. /\ call[c].pc = "list" /\ flight' = flight /\ remote' = remote
        /\ file' = file /\ order' = order /\ faulted' = faulted /\ faulted \subseteq FaultKinds
        /\ call' = [call EXCEPT ![c] = IF MaxBytes = 0 \/ Used <= MaxBytes THEN Finished(c)
                                       ELSE Listed(call[c], Used, snap)]
    BY Here DEF EvictList, At, Listed
  <1>2. CASE MaxBytes = 0 \/ Used <= MaxBytes
    <2>1. PICK q : q = Finished(c)
      OBVIOUS
    <2>2. Steady(c, q) /\ RemoteStep(c, q) /\ q.pc \in {"answer", "done"}
      BY <1>1, <1>2, <2>1, Finishes
    <2>3. Shrinks(c, q) /\ FileStep(c, q)
      BY <1>1 DEF Shrinks, FileStep
    <2>4. Outcome(c, q)
      BY <2>2, <2>3, SteadyStep
    <2>5. SnapInv' /\ EvictInv'
      BY <1>1, <1>2, <2>2, <2>3, <2>4, FullFinite, EvictKept
    <2> QED BY <2>4, <2>5, Followed
  <1>3. CASE ~(MaxBytes = 0 \/ Used <= MaxBytes)
    <2>1. PICK q : q = Listed(call[c], Used, snap)
      OBVIOUS
    <2>2. /\ order \in Seq(Names) /\ file \in [Names -> FileState]
          /\ \A i, j \in DOMAIN order : order[i] = order[j] => i = j
          /\ \A n \in Full : \E k \in DOMAIN order : order[k] = n
      BY DEF IndInv, TypeOK, OrderInv, FileInv
    <2>3. \A k \in DOMAIN order : order[k] \in Names /\ file[order[k]].sz \in 0..1
      BY <2>2 DEF FileState
    <2>4. /\ snap \in SnapSet /\ DOMAIN snap = DOMAIN order
          /\ \A k \in DOMAIN snap : snap[k].name = order[k] /\ snap[k].sz = file[order[k]].sz
      <3>1. \A k \in DOMAIN order : [name |-> order[k], sz |-> file[order[k]].sz] \in Entry
        BY <2>3 DEF Entry
      <3>2. Len(order) \in Nat /\ DOMAIN order = 1..Len(order)
        BY <2>2
      <3>3. snap \in Seq(Entry)
        BY <3>1, <3>2
      <3> QED BY <3>3 DEF SnapSet, Entry
    <2> HIDE DEF snap
    <2>5. Big(snap) = Full
      BY <2>2, <2>3, <2>4 DEF Big, Full
    <2>6. Used \in Sizes
      BY FullFinite DEF Sizes
    <2>7. q \in CallState
      BY <2>1, <2>4, <2>6, Here, EvictTyped
    <2>8. /\ Same(q, call[c]) /\ q.pc = "remove" /\ q.got = call[c].got /\ q.via = call[c].via /\ q.cached = call[c].cached
          /\ q.failed = call[c].failed /\ q.res = call[c].res /\ q.snap = snap /\ q.total = Used
      BY <2>1, Here DEF CallState, Same, Listed
    <2>9. Control(q) /\ Way(q) /\ Stored(c, q, remote[q.name].ever)
      BY <1>1, <2>8, Here DEF Control, Way, Stored, Same
    <2>10. Steady(c, q) /\ RemoteStep(c, q)
      BY <1>1, <1>3, <2>1, <2>7, <2>8, <2>9 DEF Steady, RemoteStep
    <2>11. Shrinks(c, q) /\ FileStep(c, q)
      BY <1>1 DEF Shrinks, FileStep
    <2>12. Outcome(c, q)
      BY <2>10, <2>11, SteadyStep
    <2>13. SnapOK(q)
      BY <2>2, <2>4, <2>5, <2>8, FullFinite DEF SnapOK
    <2>14. Full' \subseteq Full
      BY <1>1 DEF Full
    <2>15. SnapInv' /\ EvictInv'
      BY <1>1, <2>5, <2>8, <2>11, <2>12, <2>13, <2>14, EvictKept
    <2> QED BY <2>12, <2>15, Followed
  <1> QED BY <1>2, <1>3

(* The list evict has left after its first entry.                          *)
LEMMA TailBig ==
    ASSUME NEW s \in SnapSet, s # <<>>, \A i, j \in DOMAIN s : s[i].name = s[j].name => i = j
    PROVE  /\ Tail(s) \in SnapSet /\ Head(s) \in [name: Names, sz: 0..1]
           /\ \A i, j \in DOMAIN Tail(s) : Tail(s)[i].name = Tail(s)[j].name => i = j
           /\ Big(Tail(s)) \subseteq Big(s) \ {Head(s).name}
           /\ Big(s) \ {Head(s).name} \subseteq Big(Tail(s))
           /\ Head(s).sz = 1 => Head(s).name \in Big(s)
  <1>1. PICK t : t = Tail(s)
    OBVIOUS
  <1>2. /\ Len(s) \in Nat /\ Len(s) >= 1 /\ DOMAIN s = 1..Len(s) /\ Head(s) = s[1]
        /\ t \in SnapSet /\ DOMAIN t = 1..(Len(s) - 1) /\ \A k \in 1..(Len(s) - 1) : t[k] = s[k + 1]
    BY <1>1 DEF SnapSet
  <1>3. Head(s) \in [name: Names, sz: 0..1]
    <2>1. s \in Seq(Entry) /\ 1 \in 1..Len(s)
      BY <1>2 DEF SnapSet, Entry
    <2>2. s[1] \in Entry
      BY <2>1
    <2> QED BY <2>2, <1>2 DEF Entry
  <1>4. \A i, j \in DOMAIN t : t[i].name = t[j].name => i = j
    <2> SUFFICES ASSUME NEW i \in 1..(Len(s) - 1), NEW j \in 1..(Len(s) - 1), t[i].name = t[j].name
                 PROVE  i = j
      BY <1>2
    <2>1. s[i + 1].name = s[j + 1].name /\ i + 1 \in DOMAIN s /\ j + 1 \in DOMAIN s
      BY <1>2
    <2>2. i + 1 = j + 1
      BY <2>1
    <2> QED BY <2>2
  <1>5. ASSUME NEW n \in Big(t) PROVE n \in Big(s) /\ n # Head(s).name
    <2>1. PICK k \in DOMAIN t : t[k].sz = 1 /\ n = t[k].name
      BY <1>5 DEF Big
    <2>2. k + 1 \in DOMAIN s /\ k + 1 # 1 /\ 1 \in DOMAIN s /\ s[k + 1].sz = 1 /\ n = s[k + 1].name
      BY <1>2, <2>1
    <2> QED BY <2>2, <1>2 DEF Big
  <1>6. ASSUME NEW n \in Big(s), n # Head(s).name PROVE n \in Big(t)
    <2>1. PICK k \in DOMAIN s : s[k].sz = 1 /\ n = s[k].name
      BY DEF Big
    <2>2. k # 1
      BY <2>1, <1>2, <1>6
    <2>3. k - 1 \in DOMAIN t /\ t[k - 1] = s[k]
      BY <2>1, <2>2, <1>2
    <2> QED BY <2>1, <2>3 DEF Big
  <1>7. Head(s).sz = 1 => Head(s).name \in Big(s)
    BY <1>2 DEF Big
  <1> QED BY <1>1, <1>2, <1>3, <1>4, <1>5, <1>6, <1>7

LEMMA EvictRemoveStep ==
    ASSUME IndInv, NEW c \in Calls, EvictRemove(c)
    PROVE  IndInv'
  <1> DEFINE s == call[c].snap
             f == Head(s)
             gone == file[f.name].st = "absent"
             total == IF gone THEN call[c].total ELSE call[c].total - f.sz
  <1>1. PICK q : q = WithSnap(call[c], Tail(s), total)
    OBVIOUS
  <1>2. /\ call[c].pc = "remove" /\ call[c].total > MaxBytes /\ s # <<>>
        /\ gone => file' = file /\ order' = order
        /\ ~gone => Unlink(f.name)
        /\ flight' = flight /\ remote' = remote /\ faulted' = faulted /\ faulted \subseteq FaultKinds
    BY Here DEF EvictRemove, At
  <1>3. call' = [call EXCEPT ![c] = q]
    BY <1>1, Here DEF EvictRemove, WithSnap
  <1>4. SnapOK(call[c]) /\ call[c].total \in Nat /\ s \in SnapSet /\ MaxBytes \in Nat
    BY <1>2, Here, CacheAssumption DEF IndInv, SnapInv, At, CallState, SnapSet
  <1>5. /\ Tail(s) \in SnapSet /\ f \in [name: Names, sz: 0..1]
        /\ \A i, j \in DOMAIN Tail(s) : Tail(s)[i].name = Tail(s)[j].name => i = j
        /\ Big(Tail(s)) \subseteq Big(s) \ {f.name}
        /\ Big(s) \ {f.name} \subseteq Big(Tail(s))
        /\ f.sz = 1 => f.name \in Big(s)
    BY <1>2, <1>4, TailBig DEF SnapOK
  <1>6. f.name \in Names /\ f.sz \in 0..1
    BY <1>5
  <1>7. total \in Nat
    BY <1>2, <1>4, <1>6
  <1>8. q \in CallState
    BY <1>1, <1>5, <1>7, Here, EvictTyped DEF Sizes
  <1>9. /\ Same(q, call[c]) /\ q.pc = call[c].pc /\ q.got = call[c].got /\ q.via = call[c].via /\ q.cached = call[c].cached
        /\ q.failed = call[c].failed /\ q.res = call[c].res /\ q.snap = Tail(s) /\ q.total = total
    BY <1>1, Here DEF CallState, Same, WithSnap
  <1>10. Cardinality(Big(Tail(s))) <= total /\ IsFiniteSet(Big(Tail(s)))
    <2>1. IsFiniteSet(Big(s)) /\ Cardinality(Big(s)) <= call[c].total /\ Cardinality(Big(s)) \in Nat
      BY <1>4, FS_CardinalityType DEF SnapOK
    <2>2. Big(Tail(s)) = Big(s) \ {f.name}
      BY <1>5
    <2>3. /\ IsFiniteSet(Big(s) \ {f.name})
          /\ Cardinality(Big(s) \ {f.name}) = IF f.name \in Big(s) THEN Cardinality(Big(s)) - 1 ELSE Cardinality(Big(s))
      BY <2>1, FS_RemoveElement
    <2>4. Cardinality(Big(s) \ {f.name}) \in Nat
      BY <2>3, FS_CardinalityType
    <2>5. Cardinality(Big(Tail(s))) <= total
      <3>1. CASE gone \/ f.sz = 0
        <4>1. total = call[c].total
          BY <3>1, <1>4
        <4> QED BY <4>1, <2>1, <2>2, <2>3, <2>4, <1>4
      <3>2. CASE ~gone /\ f.sz = 1
        <4>1. total = call[c].total - 1 /\ f.name \in Big(s)
          BY <3>2, <1>5
        <4>2. Cardinality(Big(Tail(s))) = Cardinality(Big(s)) - 1
          BY <4>1, <2>2, <2>3
        <4> HIDE DEF s, f, gone, total
        <4> QED BY <4>1, <4>2, <2>1, <1>4
      <3> QED BY <3>1, <3>2, <1>6
    <2> QED BY <2>2, <2>3, <2>5
  <1>11. SnapOK(q)
    BY <1>5, <1>9, <1>10 DEF SnapOK
  <1> HIDE DEF total
  <1>12. Control(q) /\ Way(q) /\ Stored(c, q, remote[q.name].ever)
    BY <1>2, <1>9, Here DEF Control, Way, Stored, Same
  <1>13. Steady(c, q) /\ RemoteStep(c, q)
    BY <1>2, <1>3, <1>8, <1>9, <1>12 DEF Steady, RemoteStep
  <1>14. Shrinks(c, q) /\ FileStep(c, q)
    BY <1>2, <1>6 DEF Shrinks, FileStep
  <1>15. Outcome(c, q)
    BY <1>13, <1>14, SteadyStep
  <1>16. f.name \notin Full'
    <2>1. CASE gone
      BY <2>1, <1>2 DEF IndInv, FileInv, Full, Files
    <2>2. CASE ~gone
      <3>1. file' = [file EXCEPT ![f.name] = Absent] /\ file \in [Names -> FileState]
        BY <2>2, <1>2 DEF Unlink, IndInv, TypeOK
      <3>2. file'[f.name].sz = 0
        BY <3>1, <1>6 DEF Absent
      <3> QED BY <3>2 DEF Full
    <2> QED BY <2>1, <2>2
  <1>17. Full' \subseteq Full
    BY <1>14, <1>15, Unfilled DEF Outcome
  <1>18. Full \subseteq Big(s) => Full' \subseteq Big(q.snap)
    BY <1>5, <1>9, <1>16, <1>17
  <1>19. SnapInv' /\ EvictInv'
    BY <1>2, <1>9, <1>11, <1>14, <1>15, <1>18, EvictKept DEF Pending
  <1> QED BY <1>15, <1>19, Followed

(* A file that could not be removed is passed over.                        *)
LEMMA EvictRemoveFailsStep ==
    ASSUME IndInv, NEW c \in Calls, EvictRemoveFails(c)
    PROVE  IndInv'
  <1> DEFINE s == call[c].snap
  <1>1. PICK q : q = WithSnap(call[c], Tail(s), call[c].total)
    OBVIOUS
  <1>2. /\ call[c].pc = "remove" /\ s # <<>> /\ flight' = flight /\ remote' = remote
        /\ file' = file /\ order' = order
        /\ "cache" \in faulted' /\ faulted \subseteq faulted' /\ faulted' \subseteq FaultKinds
    BY Here, CacheAssumption DEF EvictRemoveFails, Fault, FaultKinds, At
  <1>3. SnapOK(call[c]) /\ call[c].total \in Nat /\ s \in SnapSet
    BY <1>2, Here DEF IndInv, SnapInv, At, CallState, SnapSet
  <1>4. /\ Tail(s) \in SnapSet /\ Big(Tail(s)) \subseteq Big(s)
        /\ \A i, j \in DOMAIN Tail(s) : Tail(s)[i].name = Tail(s)[j].name => i = j
    BY <1>2, <1>3, TailBig DEF SnapOK
  <1>5. q \in CallState
    BY <1>1, <1>3, <1>4, Here, EvictTyped DEF Sizes
  <1>6. /\ Same(q, call[c]) /\ q.pc = call[c].pc /\ q.got = call[c].got /\ q.via = call[c].via
        /\ q.cached = call[c].cached /\ q.failed = call[c].failed /\ q.res = call[c].res
        /\ q.snap = Tail(s) /\ q.total = call[c].total
    BY <1>1, Here DEF CallState, Same, WithSnap
  <1>7. call' = [call EXCEPT ![c] = q]
    <2>1. call[c] \in CallState
      BY Here
    <2>2. q = [call[c] EXCEPT !.snap = Tail(s)]
      BY <1>1, <2>1 DEF WithSnap, CallState
    <2> QED BY <2>2 DEF EvictRemoveFails
  <1>8. Control(q) /\ Way(q) /\ Stored(c, q, remote[q.name].ever)
    BY <1>2, <1>6, Here DEF Control, Way, Stored, Same
  <1>9. Steady(c, q) /\ RemoteStep(c, q)
    BY <1>2, <1>5, <1>6, <1>7, <1>8 DEF Steady, RemoteStep
  <1>10. FileStep(c, q)
    BY <1>2 DEF Shrinks, FileStep
  <1>11. Outcome(c, q)
    BY <1>9, <1>10, SteadyStep
  <1>12. SnapOK(q)
    <2>1. IsFiniteSet(Big(s)) /\ Cardinality(Big(s)) <= call[c].total
      BY <1>3 DEF SnapOK
    <2>2. IsFiniteSet(Big(Tail(s))) /\ Cardinality(Big(Tail(s))) <= Cardinality(Big(s))
      BY <1>4, <2>1, FS_Subset
    <2>3. Cardinality(Big(s)) \in Nat /\ Cardinality(Big(Tail(s))) \in Nat
      BY <2>1, <2>2, FS_CardinalityType
    <2>4. Cardinality(Big(Tail(s))) <= call[c].total
      BY <1>3, <2>1, <2>2, <2>3
    <2> QED BY <1>4, <1>6, <2>2, <2>4 DEF SnapOK
  <1>13. \A d \in Calls : call'[d] = IF d = c THEN q ELSE call[d]
    BY <1>11, CallsMoved DEF Outcome
  <1>14. SnapInv'
    BY <1>12, <1>13 DEF IndInv, SnapInv, At, SnapOK
  <1>15. EvictInv'
    BY <1>2 DEF EvictInv
  <1> QED BY <1>11, <1>14, <1>15, Followed

-----------------------------------------------------------------------------
(* The leader's return, which everyone who joined shares.                  *)

LEMMA AnsweredIs ==
    ASSUME IndInv, NEW c \in Calls, NEW d \in Calls, NEW q, q = Answered(c, d)
    PROVE  /\ q \in CallState /\ Same(q, call[d]) /\ q.pc = "done" /\ q.got = call[c].got /\ q.via = call[d].via
           /\ q.cached = call[d].cached /\ q.failed = call[d].failed
           /\ q.res = IF call[c].got = None THEN "error" ELSE "ok"
  <1> DEFINE res == IF call[c].got = None THEN "error" ELSE "ok"
             got == call[c].got
  <1>1. call[d] \in CallState /\ got \in DataSet /\ res \in Results
    BY Here, Constants DEF CallState, DataSet
  <1>2. q = [call[d] EXCEPT !.pc = "done", !.got = got, !.res = res]
    BY DEF Answered
  <1> HIDE DEF res, got
  <1>3. q \in CallState
    <2>1. [call[d] EXCEPT !.pc = "done"] \in CallState
      BY <1>1, PcField, Constants, Zenon
    <2>2. [call[d] EXCEPT !.pc = "done", !.got = got] \in CallState
      BY <1>1, <2>1, GotField, Zenon
    <2>3. [call[d] EXCEPT !.pc = "done", !.got = got, !.res = res] \in CallState
      BY <1>1, <2>2, ResField, Zenon
    <2> QED BY <2>3, <1>2
  <1>4. /\ Same(q, call[d]) /\ q.pc = "done" /\ q.got = got /\ q.via = call[d].via
        /\ q.cached = call[d].cached /\ q.failed = call[d].failed /\ q.res = res
    BY <1>1, <1>2 DEF CallState, Same
  <1> QED BY <1>3, <1>4 DEF got, res

LEMMA AnswerStep ==
    ASSUME IndInv, NEW c \in Calls, Answer(c)
    PROVE  IndInv'
  <1>1. /\ call[c].pc = "answer" /\ flight' = [flight EXCEPT ![call[c].name] = None]
        /\ remote' = remote /\ file' = file /\ order' = order /\ faulted' = faulted
        /\ call' = [d \in Calls |-> IF d = c \/ (call[d].pc = "wait" /\ call[d].name = call[c].name)
                                      THEN Answered(c, d) ELSE call[d]]
    BY DEF Answer, At, Name
  <1>2. call[c].name \in Names /\ call[c].kind = "read" /\ call[c].via = "lead"
    BY <1>1, Here DEF Control, Way
  <1>3. PICK A : A = {d \in Calls : d = c \/ (call[d].pc = "wait" /\ call[d].name = call[c].name)}
    OBVIOUS
  <1>4. ASSUME NEW d \in A
        PROVE  /\ d \in Calls /\ call'[d] \in CallState /\ Same(call'[d], call[d]) /\ call'[d].pc = "done"
               /\ call'[d].got = call[c].got /\ call'[d].via = call[d].via
               /\ call'[d].cached = call[d].cached /\ call'[d].failed = call[d].failed
               /\ call'[d].res = IF call[c].got = None THEN "error" ELSE "ok"
    <2>1. d \in Calls /\ call'[d] = Answered(c, d)
      BY <1>1, <1>3
    <2> QED BY <2>1, AnsweredIs
  <1>5. \A d \in Calls \ A : call'[d] = call[d]
    BY <1>1, <1>3
  <1>6. \A d \in A : /\ d \in Calls /\ call[d].pc \in {"answer", "wait"} /\ call[d].kind = "read" /\ call[d].name = call[c].name
                     /\ call[d].via \in {"lead", "join"} /\ (call[d].via = "lead" => d = c)
    BY <1>1, <1>2, <1>3, Here DEF Control, Way
  <1>7. call' \in [Calls -> CallState]
    <2>1. \A d \in Calls : call'[d] \in CallState
      BY <1>4, <1>5, Here
    <2> QED BY <2>1, <1>1
  <1>8. \A d \in Calls : /\ call'[d].kind = call[d].kind /\ call'[d].name = call[d].name
                         /\ call'[d].failed = call[d].failed
    BY <1>4, <1>5 DEF Same
  <1>9. \A n : NotDeleted(n)' = NotDeleted(n)
    BY <1>8 DEF NotDeleted, Name
  <1>10. CallInv'
    <2> SUFFICES ASSUME NEW d \in Calls
                 PROVE  /\ Control(call'[d]) /\ Way(call'[d])
                        /\ call'[d].pc # "idle" => Stored(d, call'[d], remote[call'[d].name].ever)
      BY <1>1 DEF CallInv, At, Name
    <2>1. CASE d \in A
      <3>1. Control(call[d]) /\ Stored(d, call[d], remote[call[d].name].ever)
        BY <2>1, <1>6, Here
      <3>2. Control(call'[d])
        BY <2>1, <3>1, <1>4, <1>6 DEF Control, Same
      <3>3. Way(call'[d])
        BY <2>1, <1>4, <1>6 DEF Way, Same
      <3>4. Stored(d, call'[d], remote[call'[d].name].ever)
        BY <2>1, <3>1, <1>4, <1>6 DEF Stored, Same
      <3> QED BY <3>2, <3>3, <3>4
    <2>2. CASE d \notin A
      BY <2>2, <1>5, Here
    <2> QED BY <2>1, <2>2
  <1>11. RemoteInv'
    BY <1>1, <1>9 DEF IndInv, RemoteInv
  <1>12. FoundInv'
    <2> SUFFICES ASSUME NEW d \in Calls, call'[d].kind = "read", call'[d].via = "lead", call'[d].seen,
                        call'[d].pc # "fetch", "backing" \notin faulted, NotDeleted(call[d].name)'
                 PROVE  call'[d].got # None /\ (call'[d].pc = "done" => call'[d].res = "ok")
      BY <1>1 DEF FoundInv, At, Name, NotDeleted
    <2>0. NotDeleted(call[d].name)
      BY <1>8 DEF NotDeleted, Name
    <2>1. CASE d \in A
      <3>1. d = c /\ call[c].seen
        BY <2>1, <1>4, <1>6 DEF Same
      <3>2. call[c].got # None
        BY <3>1, <2>0, <1>1, <1>2 DEF IndInv, FoundInv, At, Name
      <3> QED BY <2>1, <3>2, <1>4
    <2>2. CASE d \notin A
      BY <2>0, <2>2, <1>5 DEF IndInv, FoundInv, At, Name
    <2> QED BY <2>1, <2>2
  <1>13. flight' \in [Names -> Calls \cup {None}] /\ WaiterHasLeader'
    <2>1. flight \in [Names -> Calls \cup {None}] /\ None \notin Calls
      BY CacheAssumption DEF IndInv, TypeOK
    <2>2. \A n \in Names : flight'[n] = IF n = call[c].name THEN None ELSE flight[n]
      BY <1>1, <2>1
    <2>3. /\ \A d \in Calls : call[d].pc = "wait" => flight[call[d].name] # None
          /\ \A n \in Names : flight[n] # None =>
               /\ call[flight[n]].name = n /\ call[flight[n]].via = "lead"
               /\ call[flight[n]].pc \in {"fetch", "populate", "fill", "list", "remove", "answer"}
          /\ \A d \in Calls : call[d].via = "lead" /\ call[d].pc # "done" => flight[call[d].name] = d
      BY DEF IndInv, WaiterHasLeader, At, Name
    <2>4. \A d \in Calls : call[d].pc # "idle" => call[d].name \in Names
      BY Here
    <2>5. ASSUME NEW d \in Calls, call'[d].pc = "wait" PROVE flight'[call'[d].name] # None
      <3>1. d \notin A /\ call'[d] = call[d]
        BY <2>5, <1>4, <1>5
      <3>2. call[d].name # call[c].name /\ call[d].name \in Names
        BY <2>4, <2>5, <3>1, <1>3
      <3> QED BY <2>2, <2>3, <2>5, <3>1, <3>2
    <2>6. ASSUME NEW n \in Names, flight'[n] # None
          PROVE  /\ call'[flight'[n]].name = n /\ call'[flight'[n]].via = "lead"
                 /\ call'[flight'[n]].pc \in {"fetch", "populate", "fill", "list", "remove", "answer"}
      <3>1. PICK l \in Calls : l = flight[n] /\ l = flight'[n] /\ n # call[c].name
        BY <2>1, <2>2, <2>6
      <3>2. call[l].name = n /\ call[l].via = "lead" /\ call[l].pc \in {"fetch", "populate", "fill", "list", "remove", "answer"}
        BY <2>1, <2>3, <3>1
      <3>3. l \notin A
        BY <3>1, <3>2, <1>3
      <3> QED BY <3>1, <3>2, <3>3, <1>5
    <2>7. ASSUME NEW d \in Calls, call'[d].via = "lead", call'[d].pc # "done"
          PROVE  flight'[call'[d].name] = d
      <3>1. d \notin A /\ call'[d] = call[d] /\ d # c
        BY <2>7, <1>3, <1>4, <1>5
      <3>2. flight[call[d].name] = d /\ flight[call[c].name] = c
        BY <2>3, <2>7, <3>1, <1>1, <1>2
      <3>3. call[d].name \in Names
        BY <2>7, <3>1, <2>4, Here DEF Control
      <3> QED BY <2>2, <3>1, <3>2, <3>3
    <2>8. flight' \in [Names -> Calls \cup {None}]
      BY <1>1, <1>2, <2>1
    <2> QED BY <2>5, <2>6, <2>7, <2>8 DEF WaiterHasLeader, At, Name
  <1>14. CachedAcceptedOrReported'
    <2>1. \A n \in Names : file[n].st = "valid" => file[n].data \in Calls
      BY DEF IndInv, TypeOK, FileState
    <2> QED BY <2>1, <1>1, <1>8 DEF IndInv, CachedAcceptedOrReported
  <1>15. TypeOK' /\ FileInv' /\ OrderInv'
    BY <1>1, <1>7, <1>13 DEF IndInv, TypeOK, FileInv, OrderInv, Files, Full
  <1>16. SnapInv'
    BY <1>4, <1>5 DEF IndInv, SnapInv, At, SnapOK
  <1>17. EvictInv'
    <2>1. \A d \in Calls : Pending(call[d]) \/ call[d].pc = "remove" => call'[d] = call[d]
      BY <1>5, <1>6 DEF Pending
    <2>2. Full' = Full
      BY <1>1 DEF Full
    <2>3. CASE MaxBytes > 0 /\ "cache" \notin faulted
      <3>1. \/ Cardinality(Full) <= MaxBytes
            \/ \E d \in Calls : Pending(call[d]) \/ (call[d].pc = "remove" /\ Full \subseteq Big(call[d].snap))
        BY <2>3 DEF IndInv, EvictInv, At
      <3>2. CASE Cardinality(Full) <= MaxBytes
        BY <3>2, <2>2 DEF EvictInv
      <3>3. ASSUME NEW d \in Calls, Pending(call[d]) \/ (call[d].pc = "remove" /\ Full \subseteq Big(call[d].snap))
            PROVE  EvictInv'
        <4>1. Pending(call'[d]) \/ (call'[d].pc = "remove" /\ Full' \subseteq Big(call'[d].snap))
          BY <3>3, <2>1, <2>2
        <4> QED BY <4>1 DEF EvictInv, At, Pending
      <3> QED BY <3>1, <3>2, <3>3
    <2>4. CASE ~(MaxBytes > 0 /\ "cache" \notin faulted)
      BY <2>4, <1>1 DEF EvictInv
    <2> QED BY <2>3, <2>4
  <1> QED BY <1>10, <1>11, <1>12, <1>13, <1>14, <1>15, <1>16, <1>17 DEF IndInv

-----------------------------------------------------------------------------
(* The cache is empty and no call has begun.                               *)
LEMMA InitInv == Init => IndInv
  <1> SUFFICES ASSUME Init PROVE IndInv
    OBVIOUS
  <1>1. PICK z : z = [pc |-> "idle", kind |-> "none", name |-> None, got |-> None,
                      via |-> "none", cached |-> FALSE, failed |-> FALSE,
                      snap |-> <<>>, total |-> 0, res |-> "none", seen |-> FALSE]
    OBVIOUS
  <1>2. /\ call = [c \in Calls |-> z] /\ flight = [n \in Names |-> None]
        /\ remote = [n \in Names |-> [blob |-> None, ever |-> {}]]
        /\ file = [n \in Names |-> Absent] /\ order = <<>> /\ faulted = {}
    BY <1>1 DEF Init
  <1>3. /\ z \in CallState /\ z.pc = "idle" /\ z.kind = "none" /\ z.via = "none" /\ z.res = "none"
        /\ z.failed = FALSE /\ z.seen = FALSE
    BY <1>1, Constants DEF CallState, PCs, SnapSet
  <1>4. Absent \in FileState /\ Absent.st = "absent" /\ Absent.sz = 0
    BY DEF FileState, Absent
  <1>5. TypeOK
    BY <1>2, <1>3, <1>4 DEF TypeOK
  <1>6. CallInv
    <2>1. Control(z) /\ Way(z)
      BY <1>3 DEF Control, Way
    <2> QED BY <2>1, <1>2, <1>3 DEF CallInv, At
  <1>7. RemoteInv /\ FoundInv
    BY <1>2, <1>3 DEF RemoteInv, FoundInv
  <1>8. WaiterHasLeader /\ CachedAcceptedOrReported
    BY <1>2, <1>3, <1>4 DEF WaiterHasLeader, CachedAcceptedOrReported, At
  <1>9. Files = {} /\ Full = {}
    BY <1>2, <1>4 DEF Files, Full
  <1>10. FileInv /\ OrderInv
    BY <1>2, <1>9, FS_EmptySet DEF FileInv, OrderInv
  <1>11. SnapInv
    BY <1>2, <1>3 DEF SnapInv, At
  <1>12. EvictInv
    <2>1. Cardinality(Full) = 0
      BY <1>9, FS_EmptySet
    <2> QED BY <2>1, CacheAssumption DEF EvictInv
  <1> QED BY <1>5, <1>6, <1>7, <1>8, <1>10, <1>11, <1>12 DEF IndInv

(* Every step keeps the invariant.                                         *)
LEMMA NextInv ==
    ASSUME IndInv, [Next]_vars
    PROVE  IndInv'
  <1>1. ASSUME NEW c \in Calls, \E q : Outcome(c, q) /\ Quiet(c, q) PROVE IndInv'
    BY <1>1, QuietKept, Followed
  <1>2. ASSUME NEW c \in Calls, Start(c) PROVE IndInv'
    <2>1. PICK n \in Names :
             \/ ReadHit(c, n) \/ ReadMiss(c, n)
             \/ PutBacking(c, n) \/ TeeOpen(c, n) \/ TeeOpenUncached(c, n) \/ DeleteBacking(c, n)
             \/ \E k \in {"put", "tee", "delete"} : Refused(c, k, n)
      BY <1>2, Zenon DEF Start
    <2>2. \E q : Outcome(c, q) /\ Quiet(c, q)
      BY <2>1, ReadHitStep, ReadMissStep, PutBackingStep, TeeOpenStep, TeeOpenUncachedStep, DeleteBackingStep,
         RefusedStep
    <2> QED BY <2>2, <1>1
  <1>3. ASSUME NEW c \in Calls, Proceed(c) PROVE IndInv'
    <2>1. CASE Lead(c) \/ Join(c) \/ Fetch(c) \/ FetchFails(c)
      BY <2>1, <1>1, LeadStep, JoinStep, FetchStep, FetchFailsStep
    <2>2. CASE PopulateOpen(c) \/ PopulateFill(c) \/ PopulateFails(c) \/ DeleteCache(c)
      BY <2>2, <1>1, PopulateOpenStep, PopulateFillStep, PopulateFailsStep, DeleteCacheStep
    <2>3. CASE TeeWrite(c) \/ TeeWriteUncaches(c) \/ TeeWriteFails(c)
      BY <2>3, <1>1, TeeWriteStep, TeeWriteUncachesStep, TeeWriteFailsStep
    <2>4. CASE TeeClose(c) \/ TeeCloseFails(c) \/ TeeCloseCache(c) \/ TeeCloseCacheFails(c)
      BY <2>4, <1>1, TeeCloseStep, TeeCloseFailsStep, TeeCloseCacheStep, TeeCloseCacheFailsStep
    <2>5. CASE EvictList(c) \/ EvictRemove(c) \/ EvictRemoveFails(c) \/ EvictDone(c)
      BY <2>5, EvictListStep, EvictRemoveStep, EvictRemoveFailsStep, EvictDoneStep
    <2>6. CASE Answer(c)
      BY <2>6, AnswerStep
    <2>7. CASE DeleteCacheFails(c) \/ EvictListFails(c)
      BY <2>7, <1>1, GivesUpStep
    <2> QED BY <1>3, <2>1, <2>2, <2>3, <2>4, <2>5, <2>6, <2>7 DEF Proceed
  <1>4. ASSUME UNCHANGED vars PROVE IndInv'
    BY <1>4 DEF vars, IndInv, TypeOK, CallInv, RemoteInv, FoundInv, WaiterHasLeader, CachedAcceptedOrReported,
                FileInv, OrderInv, SnapInv, EvictInv, NotDeleted, Files, Full, At, Name
  <1> QED BY <1>2, <1>3, <1>4 DEF Next, AllDone

(* IndInv holds throughout, for any number of callers and blobs, any       *)
(* limit, and whatever fails in the backing store and in the cache.        *)
THEOREM Invariance == Spec => []IndInv
  <1>1. Init => IndInv
    BY InitInv
  <1>2. IndInv /\ [Next]_vars => IndInv'
    BY NextInv
  <1> QED BY <1>1, <1>2, PTL DEF Spec

(* All variables keep their types.                                         *)
THEOREM TypeCorrect == Spec => []TypeOK
  <1>1. IndInv => TypeOK
    BY DEF IndInv
  <1> QED BY <1>1, Invariance, PTL

(* What the cache serves under a name was accepted by the backing store    *)
(* under that name, or belongs to a Writer whose Close reports an error.   *)
THEOREM CacheHolds == Spec => []CachedAcceptedOrReported
  <1>1. IndInv => CachedAcceptedOrReported
    BY DEF IndInv
  <1> QED BY <1>1, Invariance, PTL

(* Singleflight: a reader that waits has a leader that is under way, and a *)
(* name has one leader at a time.                                          *)
THEOREM OneLeader == Spec => []WaiterHasLeader
  <1>1. IndInv => WaiterHasLeader
    BY DEF IndInv
  <1> QED BY <1>1, Invariance, PTL

(* Evict: when no call is under way and no cache operation has failed, the *)
(* cache is within its limit, however evictions with stale lists overlap.  *)
THEOREM LimitKept == Spec => []QuietWithinLimit
  <1>1. IndInv => QuietWithinLimit
    <2> SUFFICES ASSUME IndInv, MaxBytes > 0, "cache" \notin faulted,
                        \A c \in Calls : call[c].pc \in {"idle", "done"}
                 PROVE  Used <= MaxBytes
      BY DEF QuietWithinLimit
    <2>1. Used = Cardinality(Full)
      BY FullFinite
    <2>2. \A c \in Calls : ~Pending(call[c]) /\ ~At(c, "remove")
      BY DEF Pending, At
    <2> QED BY <2>1, <2>2 DEF IndInv, EvictInv
  <1> QED BY <1>1, Invariance, PTL

(* ReadBlob: a read that began after a write of its blob had returned      *)
(* finds it, unless the backing store fails, the blob is deleted or the    *)
(* read joined an earlier fetch.                                           *)
THEOREM WrittenFound == Spec => []ReadFindsWritten
  <1>1. IndInv => ReadFindsWritten
    <2> SUFFICES ASSUME IndInv, NEW c \in Calls, call[c].pc = "done", call[c].kind = "read", call[c].seen,
                        call[c].via # "join", "backing" \notin faulted,
                        \A d \in Calls : call[d].kind = "delete" => call[d].name # call[c].name
                 PROVE  call[c].res = "ok"
      BY DEF ReadFindsWritten, At, Name
    <2>1. call[c].via \in {"hit", "lead"} /\ (call[c].via = "hit" => call[c].res = "ok")
      BY Here DEF Way, CallState
    <2>2. CASE call[c].via = "lead"
      BY <2>2 DEF IndInv, FoundInv, At, NotDeleted, Name
    <2> QED BY <2>1, <2>2
  <1> QED BY <1>1, Invariance, PTL
=============================================================================
