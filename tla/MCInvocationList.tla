-------------------------- MODULE MCInvocationList --------------------------
(* Three invocations; all of them, or two of them in a range of time.      *)
EXTENDS InvocationList

MCNoFilter == [match |-> Ids, since |-> 0, until |-> 0]

MCFilters == {MCNoFilter} \cup {[match |-> Ids \ {i}, since |-> 1, until |-> MaxTime] : i \in {CHOOSE i \in Ids : TRUE}}
=============================================================================
