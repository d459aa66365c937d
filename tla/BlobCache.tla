----------------------------- MODULE BlobCache -----------------------------
(***************************************************************************)
(* The local read cache in front of a remote blobstore                     *)
(* (src/blobstore/diskcache) over the files of the disk blobstore.         *)
(*                                                                         *)
(* A member of Calls is one call: ReadBlob, WriteBlob, DeleteBlob, or the  *)
(* life of one Writer from Writer to Close.  The contents of a blob are    *)
(* named by the call that wrote them; a compressed blob is one unit of     *)
(* size.  A step is one operation on the backing store or on the cache     *)
(* directory, or the entry or exit of a singleflight call.                 *)
(***************************************************************************)
EXTENDS Naturals, Sequences, FiniteSets

CONSTANTS
    Calls,     \* concurrent and successive callers
    Names,     \* blob names
    Kinds,     \* what they call: a subset of AllKinds
    MaxBytes,  \* 0: no limit
    Faults,    \* what may fail: a subset of FaultKinds
    None       \* no blob, no call

AllKinds   == {"read", "put", "tee", "delete"}
FaultKinds == {"backing", "cache"}

ASSUME CacheAssumption ==
    /\ Kinds \subseteq AllKinds /\ Faults \subseteq FaultKinds
    /\ MaxBytes \in Nat
    /\ None \notin Calls /\ None \notin Names

VARIABLES
    call,    \* the locals of each call
    flight,  \* the singleflight call in progress for a name: its leader
    remote,  \* the backing store: the blob, and (history) all it ever held
    file,    \* the files of the cache directory
    order,   \* their names by modification time, oldest first
    faulted  \* history: what has failed so far

vars == <<call, flight, remote, file, order, faulted>>

PCs == {"idle", "miss", "fetch", "wait", "answer", "populate", "fill", "list", "remove",
        "write", "close", "closecache", "uncache", "done"}

(* got: the contents fetched or being written.  via: how a read got them.  *)
(* cached, failed: the two halves of a teeWriteCloser.  snap, total: what  *)
(* evict has listed, oldest first, and its running total.  seen: a write   *)
(* of the blob had returned when the call began.                           *)
CallState ==
    [pc: PCs, kind: AllKinds \cup {"none"}, name: Names \cup {None}, got: Calls \cup {None},
     via: {"none", "hit", "lead", "join"}, cached: BOOLEAN, failed: BOOLEAN,
     snap: Seq([name: Names, sz: 0..1]), total: Nat, res: {"none", "ok", "error"}, seen: BOOLEAN]

(* fds: the calls that have the file at this path open for writing.        *)
(* mixed: it was truncated while another descriptor was open, so two calls *)
(* write it at their own offsets.                                          *)
FileState ==
    [st: {"absent", "torn"}, data: {None}, sz: 0..1, mixed: BOOLEAN, fds: SUBSET Calls]
    \cup [st: {"valid"}, data: Calls, sz: {1}, mixed: BOOLEAN, fds: SUBSET Calls]

Absent == [st |-> "absent", data |-> None, sz |-> 0, mixed |-> FALSE, fds |-> {}]

Init ==
    /\ call = [c \in Calls |-> [pc |-> "idle", kind |-> "none", name |-> None, got |-> None,
                                via |-> "none", cached |-> FALSE, failed |-> FALSE,
                                snap |-> <<>>, total |-> 0, res |-> "none", seen |-> FALSE]]
    /\ flight = [n \in Names |-> None]
    /\ remote = [n \in Names |-> [blob |-> None, ever |-> {}]]
    /\ file = [n \in Names |-> Absent]
    /\ order = <<>>
    /\ faulted = {}

At(c, p) == call[c].pc = p
Name(c)  == call[c].name

Fault(k) == k \in Faults /\ faulted' = faulted \cup {k}

-----------------------------------------------------------------------------
(* The files of the cache (disk.BlobStore). *)

Without(n) ==
    IF \A k \in DOMAIN order : order[k] # n THEN order
    ELSE LET i == CHOOSE k \in DOMAIN order : order[k] = n
         IN  [k \in 1..(Len(order) - 1) |-> order[IF k < i THEN k ELSE k + 1]]

Touch(n) == order' = Append(Without(n), n)

(* os.OpenFile with O_CREATE and O_TRUNC. *)
Truncate(c, n) ==
    /\ file' = [file EXCEPT ![n] = [st |-> "torn", data |-> None, sz |-> 0,
                                    mixed |-> @.fds # {}, fds |-> @.fds \cup {c}]]
    /\ Touch(n)

(* Mutant: a file that could not be written is taken for complete. *)
WriteThroughBlind(c, n, d, fds) ==
    IF c \notin file[n].fds THEN UNCHANGED <<file, order>>
    ELSE /\ Touch(n)
         /\ file' = [file EXCEPT ![n] = [st |-> "valid", data |-> d, sz |-> 1,
                                        mixed |-> @.mixed, fds |-> fds]]

(* c writes through its descriptor, so that the file should then hold d    *)
(* (torn: None).  Nothing happens at the path when the file was removed    *)
(* from it, and anything may when another descriptor wrote it.             *)
WriteThrough(c, n, d, fds) ==
    IF c \notin file[n].fds THEN UNCHANGED <<file, order>>
    ELSE /\ Touch(n)
         /\ \E e \in {d} \cup (IF file[n].mixed THEN {None} ELSE {}) :
              file' = [file EXCEPT ![n] = [st |-> IF e = None THEN "torn" ELSE "valid", data |-> e,
                                           sz |-> 1, mixed |-> @.mixed, fds |-> fds]]

WriteAndClose(c, n, d) == WriteThrough(c, n, d, file[n].fds \ {c})

Unlink(n) ==
    /\ file'  = [file EXCEPT ![n] = Absent]
    /\ order' = Without(n)

-----------------------------------------------------------------------------
Written(n) == \E c \in Calls : Name(c) = n /\ call[c].kind \in {"put", "tee"} /\ call[c].res = "ok"

(* A call of kind k on n begins: its locals after its first step. *)
Begun(c, k, n, pc, got) ==
    [call[c] EXCEPT !.pc = pc, !.kind = k, !.name = n, !.got = got, !.seen = Written(n)]

Begins(c, k) == At(c, "idle") /\ k \in Kinds

(* A read leaves singleflight, any other call returns. *)
Finished(c) ==
    IF call[c].kind = "read" THEN [call[c] EXCEPT !.pc = "answer", !.snap = <<>>, !.total = 0]
    ELSE [call[c] EXCEPT !.pc = "done", !.res = IF @ = "none" /\ ~call[c].failed THEN "ok" ELSE "error",
                         !.snap = <<>>, !.total = 0]

-----------------------------------------------------------------------------
(* ReadBlob. *)

ReadHit(c, n) ==
    /\ Begins(c, "read")
    /\ file[n].st = "valid"
    /\ call' = [call EXCEPT ![c] = [Begun(c, "read", n, "done", file[n].data)
                                      EXCEPT !.via = "hit", !.res = "ok"]]
    /\ UNCHANGED <<flight, remote, file, order, faulted>>

(* Mutant: a broken cache entry fails the read. *)
ReadMissStrict(c, n) ==
    /\ Begins(c, "read")
    /\ file[n].st # "valid"
    /\ call' = [call EXCEPT ![c] = IF file[n].st = "torn"
                                     THEN [Begun(c, "read", n, "done", None) EXCEPT !.res = "error"]
                                     ELSE Begun(c, "read", n, "miss", None)]
    /\ UNCHANGED <<flight, remote, file, order, faulted>>

(* No entry, or one that does not decompress: logged, and fetched. *)
ReadMiss(c, n) ==
    /\ Begins(c, "read")
    /\ file[n].st # "valid"
    /\ call' = [call EXCEPT ![c] = Begun(c, "read", n, "miss", None)]
    /\ UNCHANGED <<flight, remote, file, order, faulted>>

(* group.Do: the first caller of a name runs the function, ... *)
Lead(c) ==
    /\ At(c, "miss")
    /\ flight[Name(c)] = None
    /\ flight' = [flight EXCEPT ![Name(c)] = c]
    /\ call' = [call EXCEPT ![c].pc = "fetch", ![c].via = "lead"]
    /\ UNCHANGED <<remote, file, order, faulted>>

(* ... the others wait for its result. *)
Join(c) ==
    /\ At(c, "miss")
    /\ flight[Name(c)] # None
    /\ call' = [call EXCEPT ![c].pc = "wait", ![c].via = "join"]
    /\ UNCHANGED <<flight, remote, file, order, faulted>>

(* backing.ReadBlob: there may be no such blob. *)
Fetch(c) ==
    LET d == remote[Name(c)].blob
    IN  /\ At(c, "fetch")
        /\ call' = [call EXCEPT ![c].got = d, ![c].pc = IF d = None THEN "answer" ELSE "populate"]
        /\ UNCHANGED <<flight, remote, file, order, faulted>>

FetchFails(c) ==
    /\ At(c, "fetch")
    /\ Fault("backing")
    /\ call' = [call EXCEPT ![c].pc = "answer"]
    /\ UNCHANGED <<flight, remote, file, order>>

Answered(c, d) == [call[d] EXCEPT !.pc = "done", !.got = call[c].got,
                                  !.res = IF call[c].got = None THEN "error" ELSE "ok"]

(* Mutant: the leader returns and wakes nobody. *)
AnswerAlone(c) ==
    /\ At(c, "answer")
    /\ flight' = [flight EXCEPT ![Name(c)] = None]
    /\ call' = [call EXCEPT ![c] = Answered(c, c)]
    /\ UNCHANGED <<remote, file, order, faulted>>

(* The leader returns: everyone who joined gets its result. *)
Answer(c) ==
    /\ At(c, "answer")
    /\ flight' = [flight EXCEPT ![Name(c)] = None]
    /\ call' = [d \in Calls |-> IF d = c \/ (At(d, "wait") /\ Name(d) = Name(c))
                                  THEN Answered(c, d) ELSE call[d]]
    /\ UNCHANGED <<remote, file, order, faulted>>

-----------------------------------------------------------------------------
(* populate: os.WriteFile, then evict.                                     *)

PopulateOpen(c) ==
    /\ At(c, "populate")
    /\ Truncate(c, Name(c))
    /\ call' = [call EXCEPT ![c].pc = "fill"]
    /\ UNCHANGED <<flight, remote, faulted>>

(* Mutant: the cache is not cut back after it grew. *)
PopulateNoEvict(c) ==
    /\ At(c, "fill")
    /\ WriteAndClose(c, Name(c), call[c].got)
    /\ call' = [call EXCEPT ![c] = Finished(c)]
    /\ UNCHANGED <<flight, remote, faulted>>

PopulateFill(c) ==
    /\ At(c, "fill")
    /\ WriteAndClose(c, Name(c), call[c].got)
    /\ call' = [call EXCEPT ![c].pc = "list"]
    /\ UNCHANGED <<flight, remote, faulted>>

(* The file cannot be opened or written: logged, and evict is not called. *)
PopulateFails(c) ==
    /\ Fault("cache")
    /\ \/ At(c, "populate") /\ UNCHANGED <<file, order>>
       \/ At(c, "fill") /\ WriteAndClose(c, Name(c), None)
    /\ call' = [call EXCEPT ![c] = Finished(c)]
    /\ UNCHANGED <<flight, remote>>

-----------------------------------------------------------------------------
(* evict. *)

Used == Cardinality({n \in Names : file[n].sz = 1})

(* ReadDir and the Info of every entry. *)
EvictList(c) ==
    /\ At(c, "list")
    /\ call' = [call EXCEPT ![c] =
                  IF MaxBytes = 0 \/ Used <= MaxBytes THEN Finished(c)
                  ELSE [@ EXCEPT !.pc = "remove", !.total = Used,
                                 !.snap = [k \in DOMAIN order |->
                                             [name |-> order[k], sz |-> file[order[k]].sz]]]]
    /\ UNCHANGED <<flight, remote, file, order, faulted>>

(* The directory cannot be listed: logged.                                 *)
EvictListFails(c) ==
    /\ At(c, "list") /\ MaxBytes > 0
    /\ Fault("cache")
    /\ call' = [call EXCEPT ![c] = Finished(c)]
    /\ UNCHANGED <<flight, remote, file, order>>

(* os.Remove of the oldest file left; one that is already gone is skipped  *)
(* and not counted.                                                        *)
EvictRemove(c) ==
    LET f    == Head(call[c].snap)
        gone == file[f.name].st = "absent"
    IN  /\ At(c, "remove")
        /\ call[c].total > MaxBytes /\ call[c].snap # <<>>
        /\ IF gone THEN UNCHANGED <<file, order>> ELSE Unlink(f.name)
        /\ call' = [call EXCEPT ![c].snap = Tail(@), ![c].total = IF gone THEN @ ELSE @ - f.sz]
        /\ UNCHANGED <<flight, remote, faulted>>

(* A file that cannot be removed is skipped too.                           *)
EvictRemoveFails(c) ==
    /\ At(c, "remove")
    /\ call[c].total > MaxBytes /\ call[c].snap # <<>>
    /\ Fault("cache")
    /\ call' = [call EXCEPT ![c].snap = Tail(@)]
    /\ UNCHANGED <<flight, remote, file, order>>

EvictDone(c) ==
    /\ At(c, "remove")
    /\ call[c].total <= MaxBytes \/ call[c].snap = <<>>
    /\ call' = [call EXCEPT ![c] = Finished(c)]
    /\ UNCHANGED <<flight, remote, file, order, faulted>>

-----------------------------------------------------------------------------
(* WriteBlob, Writer and DeleteBlob begin at the backing store. *)

Commit(n, d) == remote' = [remote EXCEPT ![n] = [blob |-> d, ever |-> @.ever \cup {d}]]

PutBacking(c, n) ==
    /\ Begins(c, "put")
    /\ Commit(n, c)
    /\ call' = [call EXCEPT ![c] = Begun(c, "put", n, "populate", c)]
    /\ UNCHANGED <<flight, file, order, faulted>>

(* Mutant: WriteBlob fills the cache although the backing store refused. *)
PopulatesRefused(c, k, n) ==
    /\ Begins(c, k)
    /\ Fault("backing")
    /\ call' = [call EXCEPT ![c] = IF k = "put" THEN Begun(c, k, n, "populate", c)
                                   ELSE [Begun(c, k, n, "done", None) EXCEPT !.res = "error"]]
    /\ UNCHANGED <<flight, remote, file, order>>

(* The backing store fails at once: so does the call. *)
Refused(c, k, n) ==
    /\ Begins(c, k)
    /\ Fault("backing")
    /\ call' = [call EXCEPT ![c] = [Begun(c, k, n, "done", None) EXCEPT !.res = "error"]]
    /\ UNCHANGED <<flight, remote, file, order>>

DeleteBacking(c, n) ==
    /\ Begins(c, "delete")
    /\ remote' = [remote EXCEPT ![n].blob = None]
    /\ call' = [call EXCEPT ![c] = Begun(c, "delete", n, "uncache", None)]
    /\ UNCHANGED <<flight, file, order, faulted>>

DeleteCache(c) ==
    /\ At(c, "uncache")
    /\ Unlink(Name(c))
    /\ call' = [call EXCEPT ![c] = Finished(c)]
    /\ UNCHANGED <<flight, remote, faulted>>

(* The file cannot be removed: logged, and the entry stays.                *)
DeleteCacheFails(c) ==
    /\ At(c, "uncache")
    /\ Fault("cache")
    /\ call' = [call EXCEPT ![c] = Finished(c)]
    /\ UNCHANGED <<flight, remote, file, order>>

(* Writer: the backing writer was opened, and the cache's. *)
TeeOpen(c, n) ==
    /\ Begins(c, "tee")
    /\ Truncate(c, n)
    /\ call' = [call EXCEPT ![c] = [Begun(c, "tee", n, "write", c) EXCEPT !.cached = TRUE]]
    /\ UNCHANGED <<flight, remote, faulted>>

(* The cache's was not: cacheW = nil. *)
TeeOpenUncached(c, n) ==
    /\ Begins(c, "tee")
    /\ Fault("cache")
    /\ call' = [call EXCEPT ![c] = Begun(c, "tee", n, "write", c)]
    /\ UNCHANGED <<flight, remote, file, order>>

(* Write reaches the backing writer and the cache, which may keep it in    *)
(* gzip's buffer.                                                          *)
TeeWrite(c) ==
    /\ At(c, "write")
    /\ \/ UNCHANGED <<file, order>>
       \/ call[c].cached /\ WriteThrough(c, Name(c), None, file[Name(c)].fds)
    /\ call' = [call EXCEPT ![c].pc = "close"]
    /\ UNCHANGED <<flight, remote, faulted>>

(* The cache's half fails and is dropped, open: caching ends here. *)
TeeWriteUncaches(c) ==
    /\ At(c, "write") /\ call[c].cached
    /\ Fault("cache")
    /\ WriteThrough(c, Name(c), None, file[Name(c)].fds)
    /\ call' = [call EXCEPT ![c].pc = "close", ![c].cached = FALSE]
    /\ UNCHANGED <<flight, remote>>

(* The backing half fails: the cache does not get these bytes, and the     *)
(* backing writer will not commit any more.                                *)
TeeWriteFails(c) ==
    /\ At(c, "write")
    /\ Fault("backing")
    /\ call' = [call EXCEPT ![c].pc = "close", ![c].failed = TRUE]
    /\ UNCHANGED <<flight, remote, file, order>>

(* After backing.Close: the cache's half is closed whatever it said. *)
BackingClosed(c, failed) ==
    IF call[c].cached THEN [call[c] EXCEPT !.pc = "closecache", !.failed = failed]
    ELSE [call[c] EXCEPT !.pc = "done", !.failed = failed, !.res = IF failed THEN "error" ELSE "ok"]

TeeClose(c) ==
    /\ At(c, "close")
    /\ ~call[c].failed
    /\ Commit(Name(c), c)
    /\ call' = [call EXCEPT ![c] = BackingClosed(c, FALSE)]
    /\ UNCHANGED <<flight, file, order, faulted>>

(* The backing store refuses, or commits the blob and its answer is lost. *)
TeeCloseFails(c) ==
    /\ At(c, "close")
    /\ \/ call[c].failed /\ UNCHANGED <<remote, faulted>>
       \/ Fault("backing") /\ ~call[c].failed /\ (UNCHANGED remote \/ Commit(Name(c), c))
    /\ call' = [call EXCEPT ![c] = BackingClosed(c, TRUE)]
    /\ UNCHANGED <<flight, file, order>>

(* After a failed Write the entry named c lacks what was refused. *)
TeeCloseCache(c) ==
    /\ At(c, "closecache")
    /\ WriteAndClose(c, Name(c), c)
    /\ call' = [call EXCEPT ![c].pc = "list"]
    /\ UNCHANGED <<flight, remote, faulted>>

TeeCloseCacheFails(c) ==
    /\ At(c, "closecache")
    /\ Fault("cache")
    /\ WriteAndClose(c, Name(c), None)
    /\ call' = [call EXCEPT ![c] = Finished(c)]
    /\ UNCHANGED <<flight, remote>>

-----------------------------------------------------------------------------
Start(c) ==
    \E n \in Names :
        \/ ReadHit(c, n) \/ ReadMiss(c, n)
        \/ PutBacking(c, n) \/ TeeOpen(c, n) \/ TeeOpenUncached(c, n) \/ DeleteBacking(c, n)
        \/ \E k \in {"put", "tee", "delete"} : Refused(c, k, n)

Proceed(c) ==
    \/ Lead(c) \/ Join(c) \/ Fetch(c) \/ FetchFails(c) \/ Answer(c)
    \/ PopulateOpen(c) \/ PopulateFill(c) \/ PopulateFails(c)
    \/ EvictList(c) \/ EvictListFails(c) \/ EvictRemove(c) \/ EvictRemoveFails(c) \/ EvictDone(c)
    \/ TeeWrite(c) \/ TeeWriteUncaches(c) \/ TeeWriteFails(c)
    \/ TeeClose(c) \/ TeeCloseFails(c) \/ TeeCloseCache(c) \/ TeeCloseCacheFails(c)
    \/ DeleteCache(c) \/ DeleteCacheFails(c)

AllDone == (\A c \in Calls : At(c, "done")) /\ UNCHANGED vars

Next == (\E c \in Calls : Start(c) \/ Proceed(c)) \/ AllDone

Spec == Init /\ [][Next]_vars

-----------------------------------------------------------------------------
(* The types of all variables. *)
TypeOK ==
    /\ call \in [Calls -> CallState]
    /\ flight \in [Names -> Calls \cup {None}]
    /\ remote \in [Names -> [blob: Calls \cup {None}, ever: SUBSET Calls]]
    /\ file \in [Names -> FileState]
    /\ order \in Seq(Names)
    /\ faulted \subseteq FaultKinds

(* What the cache serves under a name was accepted by the backing store    *)
(* under that name, or belongs to a Writer whose Close reports an error:   *)
(* whatever is evicted, deleted, overwritten or failing meanwhile.         *)
CachedAcceptedOrReported ==
    \A n \in Names : file[n].st = "valid" =>
        \/ file[n].data \in remote[n].ever
        \/ call[file[n].data].kind = "tee" /\ call[file[n].data].failed

(* When no call is under way and no cache operation has failed, the cache  *)
(* is within its limit: concurrent evictions work on stale lists, but the  *)
(* last one to list has seen every file.                                   *)
QuietWithinLimit ==
    ( /\ MaxBytes > 0 /\ "cache" \notin faulted
      /\ \A c \in Calls : call[c].pc \in {"idle", "done"} )
    => Used <= MaxBytes

(* A read that began after a write of its blob had returned finds it,      *)
(* broken cache entries and evictions notwithstanding, when neither the    *)
(* backing store fails nor the blob is deleted, unless it was given the    *)
(* result of a fetch that had begun before.                                *)
ReadFindsWritten ==
    \A c \in Calls :
        ( /\ At(c, "done") /\ call[c].kind = "read" /\ call[c].seen /\ call[c].via # "join"
          /\ "backing" \notin faulted
          /\ \A d \in Calls : call[d].kind = "delete" => Name(d) # Name(c) )
        => call[c].res = "ok"

(* A reader that waits for another's fetch has a leader that is still      *)
(* under way and will wake it; a name has one leader at a time.            *)
WaiterHasLeader ==
    /\ \A c \in Calls : At(c, "wait") => flight[Name(c)] # None
    /\ \A n \in Names : flight[n] # None =>
         /\ Name(flight[n]) = n /\ call[flight[n]].via = "lead"
         /\ call[flight[n]].pc \in {"fetch", "populate", "fill", "list", "remove", "answer"}
    /\ \A c \in Calls : call[c].via = "lead" /\ ~At(c, "done") => flight[Name(c)] = c

-----------------------------------------------------------------------------
(* What a comment of the code claims and the code does not do. *)

(* diskcache.go: "The backing store is always the source of truth: writes  *)
(* go there first".                                                        *)
CacheFollowsBacking ==
    \A n \in Names : file[n].st = "valid" => file[n].data \in remote[n].ever
=============================================================================
