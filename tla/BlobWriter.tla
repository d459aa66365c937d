----------------------------- MODULE BlobWriter -----------------------------
(***************************************************************************)
(* What blobstore.Blobstore promises of the io.WriteCloser that Writer     *)
(* returns: "The blob is only committed to the backing store once Close is *)
(* called", then with everything that was written, and Close reports       *)
(* success only if it was.  One writer, used by one goroutine at a time.   *)
(***************************************************************************)
EXTENDS Naturals, Sequences

CONSTANTS Data,   \* what can be given to Write
          NoBlob  \* the blob does not exist

VARIABLES
    written,  \* what Write was given
    phase,    \* of the writer
    blob,     \* the committed blob
    res       \* what Close returned

vars == <<written, phase, blob, res>>

Init ==
    /\ written = <<>>
    /\ phase   = "open"
    /\ blob    = NoBlob
    /\ res     = "none"

Write ==
    /\ phase = "open"
    /\ \E d \in Data : written' = Append(written, d)
    /\ UNCHANGED <<phase, blob, res>>

CallClose ==
    /\ phase = "open"
    /\ phase' = "closing"
    /\ UNCHANGED <<written, blob, res>>

Commit ==
    /\ phase = "closing"
    /\ blob = NoBlob
    /\ blob' = written
    /\ UNCHANGED <<written, phase, res>>

CloseOk ==
    /\ phase = "closing"
    /\ blob = written
    /\ phase' = "closed"
    /\ res' = "ok"
    /\ UNCHANGED <<written, blob>>

(* An error does not say that there is no blob: the interface promises     *)
(* nothing of it then.                                                     *)
CloseError ==
    /\ phase = "closing"
    /\ phase' = "closed"
    /\ res' = "error"
    /\ UNCHANGED <<written, blob>>

Next == Write \/ CallClose \/ Commit \/ CloseOk \/ CloseError

Spec == Init /\ [][Next]_vars
=============================================================================
