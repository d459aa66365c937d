--------------------------- MODULE InvocationList ---------------------------
(***************************************************************************)
(* The list of invocations: the table of the index and its keyset pages    *)
(* (src/index/postgres/postgres.go, List), the handler in front of it      *)
(* (src/webui/webui.go, listInvocations) and the component that shows and  *)
(* extends the list (src/webui/frontend/src/invocation_list.tsx).          *)
(*                                                                         *)
(* A row is its id and its creation time.  Whether it matches the query    *)
(* and status of a filter depends on the invocation alone: the streams of  *)
(* one invocation that are indexed carry the same events.                  *)
(***************************************************************************)
EXTENDS Naturals, Sequences, FiniteSets, SequencesExt

CONSTANTS
    Ids,         \* invocations
    MaxTime,     \* creation times are 1..MaxTime, in microseconds
    Filters,     \* what the user may ask for: records of match, since, until (0: no bound)
    NoFilter,    \* the filter of a page just opened
    PageSize,    \* rows per request
    MaxRequests, \* bound on the requests of a page
    None

Times == 1..MaxTime

ASSUME ListAssumption ==
    /\ MaxTime \in Nat /\ PageSize \in Nat \ {0} /\ MaxRequests \in Nat \ {0}
    /\ Filters \subseteq [match: SUBSET Ids, since: Nat, until: Nat] /\ NoFilter \in Filters

VARIABLES
    created,  \* created_at of every row in the table
    ui,       \* the state of the component
    calls     \* the requests it made, oldest first

vars == <<created, ui, calls>>

(* The list shown: its rows and, as history, the filters of the requests   *)
(* it was put together from, the rows of the table that match when its     *)
(* first page is read, the cursors of its further pages, and whether the   *)
(* last one was short.                                                     *)
Lists ==
    [rows: Seq([id: Ids, at: Times]), filters: SUBSET Filters, base: SUBSET Ids, cursors: SUBSET Times,
     short: BOOLEAN]

(* left: the browser was sent to the login page.  overlap: history, a      *)
(* request made for another filter was under way when the filter was set.  *)
UIState ==
    [filter: Filters, list: Lists \cup {None}, hasMore: BOOLEAN, loadingMore: BOOLEAN, error: BOOLEAN,
     left: BOOLEAN, overlap: BOOLEAN]

(* onto: the list a further page is appended to, read when it was asked    *)
(* for; None for a first page.                                             *)
CallState ==
    [filter: Filters, before: Times \cup {0}, onto: Lists \cup {None}, st: {"sent", "served", "failed", "over"},
     page: Seq([id: Ids, at: Times]), base: SUBSET Ids]

NewCall(f, before, onto) ==
    [filter |-> f, before |-> before, onto |-> onto, st |-> "sent", page |-> <<>>, base |-> {}]

Over == [NewCall(NoFilter, 0, None) EXCEPT !.st = "over"]

Pending == {c \in DOMAIN calls : calls[c].st # "over"}

NewUI ==
    [filter |-> NoFilter, list |-> None, hasMore |-> FALSE, loadingMore |-> FALSE, error |-> FALSE,
     left |-> FALSE, overlap |-> FALSE]

(* The component's first effect has run.                                   *)
Init ==
    /\ created = <<>>
    /\ ui = NewUI
    /\ calls = <<NewCall(NoFilter, 0, None)>>

-----------------------------------------------------------------------------
(* The table.                                                              *)

(* Every upsert sets the time (mutation).                                  *)
CreatedAtRewritten(id, at) == at

(* On conflict every column but created_at is replaced.                    *)
CreatedAt(id, at) == IF id \in DOMAIN created THEN created[id] ELSE at

(* A stream that began at the given time has been indexed.                 *)
Upsert(id, at) ==
    /\ created' = [i \in DOMAIN created \cup {id} |-> IF i = id THEN CreatedAt(id, at) ELSE created[i]]
    /\ UNCHANGED <<ui, calls>>

Selects(f, before, at) ==
    /\ before # 0 => at < before
    /\ f.since # 0 => at >= f.since
    /\ f.until # 0 => at < f.until

(* The answers List may give: rows of the same time come in any order.     *)
Pages(f, before) ==
    LET hits == {[id |-> i, at |-> created[i]] :
                    i \in {j \in DOMAIN created : j \in f.match /\ Selects(f, before, created[j])}}
        newestFirst == {s \in SetToSeqs(hits) : \A i, j \in DOMAIN s : i < j => s[i].at >= s[j].at}
    IN  {SubSeq(s, 1, IF Len(s) < PageSize THEN Len(s) ELSE PageSize) : s \in newestFirst}

(* The cursor drops what is below a second, of two microseconds (mutation). *)
CursorSeconds(row) == 2 * (row.at \div 2)

(* createdAt goes to the browser and comes back as ?before= with all its   *)
(* digits: RFC3339Nano keeps the table's microseconds.                     *)
Cursor(row) == row.at

(* The handler answers with a page, or the query fails.                    *)
Serve(c) ==
    /\ calls[c].st = "sent"
    /\ \/ \E page \in Pages(calls[c].filter, calls[c].before) :
             calls' = [calls EXCEPT ![c] = [@ EXCEPT !.st = "served", !.page = page,
                           !.base = IF calls[c].onto = None THEN (DOMAIN created) \cap calls[c].filter.match ELSE {}]]
       \/ calls' = [calls EXCEPT ![c].st = "failed"]
    /\ UNCHANGED <<created, ui>>

-----------------------------------------------------------------------------
(* The component.                                                          *)

FiltersOf(call) == {call.filter} \cup IF call.onto = None THEN {} ELSE call.onto.filters

(* Leaves the old list up while the new one loads (mutation).              *)
SetFilterKeeping(f) ==
    /\ ~ui.left /\ Len(calls) < MaxRequests
    /\ ui' = [ui EXCEPT !.filter = f, !.overlap = \E c \in Pending : FiltersOf(calls[c]) # {f}]
    /\ calls' = Append(calls, NewCall(f, 0, None))
    /\ UNCHANGED created

(* The filter bar sets a filter (also, once, a moment after it is shown);  *)
(* the effect clears the list and asks for the first page.                 *)
SetFilter(f) ==
    /\ ~ui.left /\ Len(calls) < MaxRequests
    /\ ui' = [ui EXCEPT !.filter = f, !.list = None,
                        !.overlap = \E c \in Pending : FiltersOf(calls[c]) # {f}]
    /\ calls' = Append(calls, NewCall(f, 0, None))
    /\ UNCHANGED created

(* The button is there when the list has rows and the last page was full.  *)
LoadMore ==
    /\ ~ui.left /\ Len(calls) < MaxRequests
    /\ ui.list # None /\ ui.hasMore /\ ~ui.loadingMore
    /\ ui.list.rows # <<>>
    /\ ui' = [ui EXCEPT !.loadingMore = TRUE]
    /\ calls' = Append(calls, NewCall(ui.filter, Cursor(Last(ui.list.rows)), ui.list))
    /\ UNCHANGED created

ListOf(call) ==
    IF call.onto = None
    THEN [rows |-> call.page, filters |-> {call.filter}, base |-> call.base, cursors |-> {},
          short |-> Len(call.page) < PageSize]
    ELSE [rows |-> call.onto.rows \o call.page, filters |-> FiltersOf(call), base |-> call.onto.base,
          cursors |-> call.onto.cursors \cup {call.before}, short |-> Len(call.page) < PageSize]

(* A page arrives; nothing checks that it is still wanted.                 *)
Arrive(c) ==
    /\ calls[c].st = "served"
    /\ ui' = [ui EXCEPT !.list = ListOf(calls[c]), !.hasMore = Len(calls[c].page) = PageSize,
                        !.loadingMore = @ /\ calls[c].onto = None]
    /\ calls' = [calls EXCEPT ![c] = Over]
    /\ UNCHANGED created

(* The rejection of a first page is not handled (mutation).                *)
ArriveErrorIgnored(c) ==
    /\ calls[c].st = "failed"
    /\ ui' = [ui EXCEPT !.error = @ \/ calls[c].onto # None, !.loadingMore = @ /\ calls[c].onto = None]
    /\ calls' = [calls EXCEPT ![c] = Over]
    /\ UNCHANGED created

(* The message replaces the table from now on: nothing clears it.          *)
ArriveError(c) ==
    /\ calls[c].st = "failed"
    /\ ui' = [ui EXCEPT !.error = TRUE, !.loadingMore = @ /\ calls[c].onto = None]
    /\ calls' = [calls EXCEPT ![c] = Over]
    /\ UNCHANGED created

(* The session has expired: authedFetch leaves for the login page and its  *)
(* promise never settles; the page goes with all its state.                *)
Unauthorized(c) ==
    /\ calls[c].st = "sent"
    /\ ui' = [NewUI EXCEPT !.left = TRUE]
    /\ calls' = <<>>
    /\ UNCHANGED created

Next ==
    \/ \E id \in Ids, at \in Times : Upsert(id, at)
    \/ \E f \in Filters : SetFilter(f)
    \/ LoadMore
    \/ \E c \in DOMAIN calls : Serve(c) \/ Arrive(c) \/ ArriveError(c) \/ Unauthorized(c)

Spec == Init /\ [][Next]_vars

(* Every request is answered or fails, and the browser runs its callbacks. *)
Fairness == \A c \in 1..MaxRequests :
    WF_vars(c \in DOMAIN calls /\ (Serve(c) \/ Arrive(c) \/ ArriveError(c)))

FairSpec == Spec /\ Fairness

-----------------------------------------------------------------------------
(* However pages, filters and new rows interleave, no row is listed twice  *)
(* and the newest come first: created_at never changes and a further page  *)
(* begins strictly below the last row (postgres.go:82-98, 143-146, 164).   *)
NoRowTwice ==
    ui.list # None => \A i, j \in DOMAIN ui.list.rows : i < j =>
        ui.list.rows[i].id # ui.list.rows[j].id /\ ui.list.rows[i].at >= ui.list.rows[j].at

(* Rows that were in the table when the first page was read and match the  *)
(* filter are all listed, down to the last row shown, or all of them when  *)
(* the last page was short.  Only a row created at the very time of a      *)
(* page's last row can be missing (postgres.go:145, webui.go:125-127).     *)
SkipsOnlyTies ==
    ui.list # None => \A f \in Filters : ui.list.filters = {f} =>
        \A id \in ui.list.base :
            \/ ~Selects(f, 0, created[id])
            \/ \E i \in DOMAIN ui.list.rows : ui.list.rows[i].id = id
            \/ created[id] \in ui.list.cursors
            \/ ~ui.list.short /\ created[id] <= Last(ui.list.rows).at

(* A list shown belongs to the filter set, unless a request for another    *)
(* filter was under way when it was set: its late answer replaces the list *)
(* (invocation_list.tsx:18-41).                                            *)
ListIsForFilter ==
    ui.list # None /\ ~ui.overlap => ui.list.filters = {ui.filter}

(* The page does not say "Loading" for ever: it shows a list, an error, or *)
(* the login page (invocation_list.tsx:18-26, 71-76).                      *)
LoadingEnds == ui.list = None ~> (ui.list # None \/ ui.error \/ ui.left)
=============================================================================
